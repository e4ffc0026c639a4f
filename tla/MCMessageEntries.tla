--------------------------- MODULE MCMessageEntries ---------------------------
EXTENDS MessageEntries

MC_INT_TYPE  == 2   \* INT_TYPE
MC_BOOL_TYPE == 4   \* BOOL_TYPE
MCTypes == {MC_INT_TYPE, MC_BOOL_TYPE}
MC_ANY_TYPE == 255  \* ANY_TYPE
==============================================================================
