----------------------------- MODULE MCSession -----------------------------
(* Session on a small instance: displays, cookies, set-ups and requests.   *)
EXTENDS SessionInv

CONSTANTS a, c, here

TwoUsers == {a, c}

D(host, num, dot, screen) ==
  [colon |-> TRUE, host |-> host, num |-> num, dot |-> dot, screen |-> screen]
SomeDisplays ==
  {Nil, [D("", "0", FALSE, 0) EXCEPT !.colon = FALSE],
   D("", "0", FALSE, 0), D("unix", "1", TRUE, 1), D("far", "0", TRUE, 7),
   D("", "0", TRUE, -1), D("", Bad, FALSE, 0), D("", "0", TRUE, Bad)}

E(family, addr, num, name, cookie) ==
  [family |-> family, addr |-> addr, num |-> num, name |-> name, cookie |-> cookie,
   cut |-> FALSE]
(* MIT-MAGIC-COOKIE-1, and one of another scheme.                          *)
Magic(family, addr, num) == E(family, addr, num, 18, 16)
Local0 == Magic(256, here, "0")
Local1 == Magic(256, here, "1")
Other  == Magic(256, "there", "0")
AnyNum == E(256, here, "", 19, 5)
Wild   == Magic(252, "there", "0")
Cut    == [Local0 EXCEPT !.cut = TRUE]
SomeFiles ==
  {<<>>, <<Local0>>, <<Other, Local1, Local0>>, <<Local1, AnyNum>>, <<Wild, Local0>>,
   <<Cut, Local0>>, <<Local1, Cut, Wild>>, <<Other>>}

S(status, vendor, formats, screens) ==
  [status |-> status, vendor |-> vendor, formats |-> formats, screens |-> screens,
   maxReq |-> 12, min |-> 8, max |-> 9]
(* Refused, no screens, one, two with depths of none to two visuals.       *)
SomeSetups ==
  {S(0, 0, 0, <<>>), S(2, 0, 0, <<>>), S(1, 4, 1, <<>>), S(1, 19, 2, << <<2, 0>>, <<1>> >>)}

(* Every encoder: those without a variable part, and those with one.       *)
Fixed ==
  {Request(n, 0, 1) : n \in Names \
     {"PutImage", "IsActive", "QueryScreens", "CreateWindow"}}
Named(n) == {Request(n, k, 1) : k \in {1, 4}}
Listed(n, unit) == {Request(n, k * unit, unit) : k \in {1, 2}}
Windows ==
  {[Request("CreateWindow", 4 * Cardinality(s), 4) EXCEPT !.attrs = s] :
     s \in {DOMAIN cwBit} \cup SUBSET {"BackPixel", "EventMask", "Colormap"}}
Long == {Request("InternAtom", 60, 1), Request("InternAtom", 50, 1)}
Properties == {Request("ChangeProperty", 3, 1), Request("ChangeProperty", 8, 4),
               Request("ChangeProperty", 6, 2), Request("ChangeProperty", 5, 4)}
Every ==
  Fixed \cup Named("InternAtom") \cup Named("OpenFont") \cup Listed("ChangeGC", 4)
    \cup Listed("ConfigureWindow", 4) \cup Listed("PolyFillRectangle", 8)
    \cup Windows \cup Properties \cup Long

SomeWanted ==
  (a :> Every @@
   c :> {Request("GetProperty", 0, 1)})

Image(w, h, depth) == [w |-> w, h |-> h, depth |-> depth]
(* In two requests, with a line too long, less than a byte wide, of lines  *)
(* that are words, that the server pads, and that it packs otherwise.      *)
SomeImages ==
  (a :> {Image(1, 7, 24), Image(9, 2, 32), Image(7, 1, 1), Image(4, 7, 8), Image(9, 2, 8),
         Image(3, 4, 15)} @@ c :> {})

(* Rows of one and of two columns; 97 and 65 are letters.                  *)
SomeLayouts == {<< <<97>>, <<0>> >>, << <<97, 65>>, <<49, 33>> >>, << <<0, 66>>, <<98, 0>> >>}
Formats == {1, 4}
=============================================================================
