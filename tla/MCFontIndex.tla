---------------------------- MODULE MCFontIndex ----------------------------
(* FontIndex on small instances.                                           *)
EXTENDS FontIndexInv

CONSTANTS p, q, plain, other, tabbed

TwoProcs == {p, q}
TwoDirs == 2
SomeDirs == {{1, 2}, {2}}
ThreeFonts == {plain, other, tabbed}
OneEach == [f \in ThreeFonts |-> IF f = plain THEN 1 ELSE 2]
Tabbed == {tabbed}
TwoFonts == {plain, other}
Apart == [f \in TwoFonts |-> OneEach[f]]
None == {}
Other == {other}
=============================================================================
