----------------------------- MODULE MCViewTree -----------------------------
(* One Window, one more Container and one Control, a Button; two heap     *)
(* addresses for connection nodes and one slot function.                 *)
EXTENDS ViewTree

CONSTANTS w, c, a, n1, n2, f

MCViews == {w, c, a}
MCContainers == {w, c}
MCWindows == {w}
MCControls == {a}
MCButtons == {a}
MCConns == {n1, n2}
MCFns == {f}
==============================================================================
