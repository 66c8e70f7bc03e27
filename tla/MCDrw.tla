------------------------------- MODULE MCDrw -------------------------------
(* Drw on small instances.                                                 *)
EXTENDS DrwInv, TLC

CONSTANTS d1, d2, red

TwoDrawers == {d1, d2}
OneInk == {red}
Tall == <<1, 3>>
Wide == <<2, 3>>
TwoSizes == {Tall, Wide}
(* All of the wide framebuffer, and two pixels that begin left of it:      *)
(* mapping the first from the tall one runs off the end of its pixels,     *)
(* mapping the second reads the last pixel of the row before.              *)
Some == {[x |-> 0, y |-> 0, w |-> 2, h |-> 3], [x |-> -1, y |-> 1, w |-> 2, h |-> 1]}
Alike == Permutations(TwoDrawers)
=============================================================================
