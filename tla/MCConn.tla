------------------------------- MODULE MCConn -------------------------------
(* Conn on small instances: the sets of goroutines, and what TLC needs.    *)
EXTENDS ConnInv, TLC

CONSTANTS a, b, app, x

TwoCallers == {a, b}
OneCaller == {a}
App == {app}
Closer == {x}
None == {}

(* Callers are interchangeable; used in runs that check safety only.       *)
Alike == Permutations(TwoCallers)
=============================================================================
