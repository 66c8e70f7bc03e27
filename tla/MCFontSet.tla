----------------------------- MODULE MCFontSet -----------------------------
(* FontSet on a small instance.                                            *)
EXTENDS FontSetInv, TLC

CONSTANTS u, v, base, one, both, odd, extra, x, y, z, dot

TwoUsers == {u, v}
OneDrawer == {u}
FourRunes == {x, y, z, dot}
Dots == <<dot, dot, dot>>
SomeStrings == {<<x, y, x>>, <<z, x>>}
SomeFields == {[w |-> n, lpad |-> 1] : n \in {0, 1, 5, 6, 8}}
ThreeFonts == <<odd, one, both>>
Extra == {extra}
Odd == {odd}
Loose == {one, both}
(* z is found first in a font without a face, x in one, then in both.      *)
Glyphs == base :> {dot} @@ odd :> {z} @@ one :> {x} @@ both :> {x, y, z} @@ extra :> {y}
Widths == base :> 1 @@ odd :> 1 @@ one :> 1 @@ both :> 2 @@ extra :> 3
=============================================================================
