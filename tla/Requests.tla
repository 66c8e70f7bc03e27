------------------------------ MODULE Requests ------------------------------
(***************************************************************************)
(* What package xproto puts into requests and takes out of replies: the    *)
(* fields of every encoder in their order and width, the padding, the      *)
(* length field, the cutting of images, and how far into a reply each      *)
(* decoder reads.  The other side of each is what the X server reads and   *)
(* writes, by the protocol.  Values other than lengths are left out.       *)
(*                                                                         *)
(* A request is [name, size, unit, attrs, image]: size bytes of variable   *)
(* part in elements of unit bytes, the attributes a CreateWindow sets, and *)
(* the width, rows and depth a PutImage announces.                         *)
(*                                                                         *)
(* A definition X_Y stands before X and is X with a plausible mistake Y;   *)
(* nothing uses it: it shows that the properties would notice.             *)
(***************************************************************************)
EXTENDS Integers, SequencesExt

CONSTANTS
  LenMod,   (* the length field is a uint16: 65536 in the code             *)
  KeyMod    (* a keycode is a uint8: 256 in the code                       *)

ASSUME RequestsAssumption == LenMod \in Nat \ {0} /\ KeyMod \in Nat \ {0}

-----------------------------------------------------------------------------
(* The fields after the four bytes of opcode, data and length.             *)

atomFields == [InternAtom |-> <<2, 2>>, QueryExtension |-> <<2, 2>>]

windowFields ==
  [CreateWindow           |-> <<4, 4, 2, 2, 2, 2, 2, 2, 4, 4>>,
   ChangeWindowAttributes |-> <<4, 4>>,
   ReparentWindow         |-> <<4, 4, 2, 2>>,
   MapWindow              |-> <<4>>,
   UnmapWindow            |-> <<4>>,
   ConfigureWindow        |-> <<4, 2, 2>>]

propertyFields ==
  [ChangeProperty |-> <<4, 4, 4, 1, 1, 1, 1, 4>>, GetProperty |-> <<4, 4, 4, 4, 4>>]

drawingFields ==
  [CreatePixmap      |-> <<4, 4, 2, 2>>,
   FreePixmap        |-> <<4>>,
   CreateGC          |-> <<4, 4, 4>>,
   ChangeGC          |-> <<4, 4>>,
   FreeGC            |-> <<4>>,
   PolyFillRectangle |-> <<4, 4>>,
   PolyRectangle     |-> <<4, 4>>,
   CopyArea          |-> <<4, 4, 4, 2, 2, 2, 2, 2, 2>>]

imageFields == [PutImage |-> <<4, 4, 2, 2, 2, 2, 1, 1, 2>>]

focusFields ==
  [GrabKeyboard   |-> <<4, 4, 1, 1, 2>>,
   UngrabKeyboard |-> <<4>>,
   GetInputFocus  |-> <<>>,
   SetInputFocus  |-> <<4, 4>>]

queryFields ==
  [QueryTree           |-> <<4>>,
   GetGeometry         |-> <<4>>,
   GetWindowAttributes |-> <<4>>,
   QueryPointer        |-> <<4>>]

selectionFields ==
  [ConvertSelection     |-> <<4, 4, 4, 4, 4>>,
   AllocColor           |-> <<4, 2, 2, 2, 2>>,
   TranslateCoordinates |-> <<4, 4, 2, 2>>,
   GrabPointer          |-> <<4, 2, 1, 1, 4, 4, 4>>,
   UngrabPointer        |-> <<4>>]

cursorFields ==
  [OpenFont          |-> <<4, 2, 2>>,
   CloseFont         |-> <<4>>,
   CreateGlyphCursor |-> <<4, 4, 4, 2, 2, 2, 2, 2, 2, 2, 2>>,
   FreeCursor        |-> <<4>>,
   GetImage          |-> <<4, 2, 2, 2, 2, 4>>]

keyFields == [GetKeyboardMapping |-> <<1, 1, 2>>, GetModifierMapping |-> <<>>]

(* Xinerama spells its two requests out, head only.                        *)
xineramaFields == [IsActive |-> <<>>, QueryScreens |-> <<>>]

Sections ==
  {atomFields, windowFields, propertyFields, drawingFields, imageFields, focusFields,
   queryFields, selectionFields, cursorFields, keyFields, xineramaFields}

Names == UNION {DOMAIN s : s \in Sections}
fields == [n \in Names |-> (CHOOSE s \in Sections : n \in DOMAIN s)[n]]

-----------------------------------------------------------------------------
(* sendBuf.                                                                *)

pad_Twice(n) == 4 - (n % 4)
pad(n) == (4 - (n % 4)) % 4

PadsBody(name) ==
  name \in {"InternAtom", "QueryExtension", "ChangeProperty", "PutImage", "OpenFont"}

Sum(s) ==
  LET upto[i \in 0 .. Len(s)] == IF i = 0 THEN 0 ELSE upto[i - 1] + s[i]
  IN  upto[Len(s)]

Bytes(q) ==
  4 + Sum(fields[q.name]) + q.size + (IF PadsBody(q.name) THEN pad(q.size) ELSE 0)

Words(q) == Bytes(q) \div 4
finishPanics(q) == Bytes(q) % 4 # 0
lengthField(q) == Words(q) % LenMod

(* The attributes of a CreateWindow: the bits of the mask, and the order   *)
(* in which the values of those that are set are appended.                 *)
cwBit == [BackPixel |-> 1, BorderPixel |-> 3, OverrideRedirect |-> 9,
          EventMask |-> 11, Colormap |-> 13]
cwOrder == <<"BackPixel", "BorderPixel", "OverrideRedirect", "EventMask", "Colormap">>

-----------------------------------------------------------------------------
(* PutImage: the requests it makes for an image [w, h, depth], given the   *)
(* server's limit in words (0: not known).  The format is ZPixmap and      *)
(* nothing pads the left, as drw.Map has it, and data holds all the rows.  *)

Pictures == [w : Nat, h : Nat, depth : Nat]
NoPicture == [w |-> 0, h |-> 0, depth |-> 0]

Request(name, size, unit) ==
  [name |-> name, size |-> size, unit |-> unit, attrs |-> {}, image |-> NoPicture]

bytesPerLine_Packed(im) == (im.w * im.depth) \div 8
bytesPerLine(im) == IF im.depth = 24 THEN im.w * 4 ELSE (im.w * im.depth) \div 8

(* maxReq - headerLen is divided by the bytes per line.                    *)
DividesByZero(im) == bytesPerLine(im) = 0

(* A request with an image, all of its rows.                               *)
Rows(im) ==
  [name |-> "PutImage", size |-> im.h * bytesPerLine(im), unit |-> 1, attrs |-> {},
   image |-> im]

headerLen_None == 0
headerLen == 24

maxRows(im, limit) ==
  LET maxReq == 4 * (IF limit = 0 THEN 65536 ELSE limit)
      fit    == (maxReq - headerLen) \div bytesPerLine(im)
  IN  IF fit < 1 THEN 1 ELSE fit

(* One request for each maxRows rows, and one for the rest.                *)
PutImage(im, limit) ==
  LET m    == maxRows(im, limit)
      n    == (im.h + m - 1) \div m
      rows == [i \in 1 .. n |-> IF i < n THEN m ELSE im.h - m * (n - 1)]
  IN  [i \in 1 .. n |-> Rows([im EXCEPT !.h = rows[i]])]

(* What the encoders are given: those that do not pad append whole words,  *)
(* and PutImage sends its rows.                                            *)
Encoded ==
  {q \in [name : Names, size : Nat, unit : Nat \ {0}, attrs : SUBSET DOMAIN cwBit,
          image : Pictures] :
     /\ PadsBody(q.name) \/ q.size % 4 = 0
     /\ q.name = "PutImage" => q.size = q.image.h * bytesPerLine(q.image)}

-----------------------------------------------------------------------------
(* The server's side: the length a request must have.                      *)

MinWords ==
  [InternAtom |-> 2, QueryExtension |-> 2,
   CreateWindow |-> 8, ChangeWindowAttributes |-> 3, ReparentWindow |-> 4,
   MapWindow |-> 2, UnmapWindow |-> 2, ConfigureWindow |-> 3,
   ChangeProperty |-> 6, GetProperty |-> 6,
   CreatePixmap |-> 4, FreePixmap |-> 2, CreateGC |-> 4, ChangeGC |-> 3,
   FreeGC |-> 2, PolyFillRectangle |-> 3, PolyRectangle |-> 3, CopyArea |-> 7,
   PutImage |-> 6, GetImage |-> 5,
   GrabKeyboard |-> 4, UngrabKeyboard |-> 2, GetInputFocus |-> 1,
   SetInputFocus |-> 3,
   QueryTree |-> 2, GetGeometry |-> 2, GetWindowAttributes |-> 2,
   QueryPointer |-> 2, ConvertSelection |-> 6, AllocColor |-> 4,
   TranslateCoordinates |-> 4, GrabPointer |-> 6, UngrabPointer |-> 2,
   OpenFont |-> 3, CloseFont |-> 2, CreateGlyphCursor |-> 8, FreeCursor |-> 2,
   GetKeyboardMapping |-> 2, GetModifierMapping |-> 1,
   IsActive |-> 1, QueryScreens |-> 1]

(* The pixmap formats X servers have: bits to a pixel by the depth, and    *)
(* lines that are whole words.                                             *)
bitsPerPixel(depth) ==
  CASE depth <= 1        -> 1
    [] depth \in 2 .. 4  -> 4
    [] depth \in 5 .. 8  -> 8
    [] depth \in 9 .. 16 -> 16
    [] OTHER             -> 32
lineBytes(im) == 4 * ((im.w * bitsPerPixel(im.depth) + 31) \div 32)

(* The server goes by the geometry of an image and else counts whole       *)
(* elements, and pairs the values of a window with the bits of its mask    *)
(* from the lowest up.                                                     *)
Expected(q) ==
  LET body == IF q.name = "PutImage" THEN q.image.h * lineBytes(q.image)
                                     ELSE (q.size \div q.unit) * q.unit
  IN  MinWords[q.name] + (body + 3) \div 4

ValuesInOrder(q) ==
  /\ q.attrs \subseteq ToSet(cwOrder)
  /\ \A i, j \in DOMAIN cwOrder :
       i < j /\ {cwOrder[i], cwOrder[j]} \subseteq q.attrs => cwBit[cwOrder[i]] < cwBit[cwOrder[j]]

Understood(q) == Words(q) = Expected(q) /\ ValuesInOrder(q)

-----------------------------------------------------------------------------
(* Replies.  A reply has 32 bytes and extra words; n is the number it      *)
(* counts its items by and unit the size of an item of a property.         *)

HasReply(name) ==
  name \in {"InternAtom", "QueryExtension", "GetProperty", "GrabKeyboard",
            "GetInputFocus", "QueryTree", "GetGeometry", "GetWindowAttributes",
            "QueryPointer", "AllocColor", "TranslateCoordinates", "GrabPointer",
            "GetImage", "GetKeyboardMapping", "GetModifierMapping", "IsActive",
            "QueryScreens"}

(* The words the server adds to a reply.                                   *)
ExtraWords(name, n, unit) ==
  CASE name = "GetProperty"         -> (n * unit + 3) \div 4
    [] name = "GetWindowAttributes" -> 3
    [] name = "GetModifierMapping"  -> 2 * n
    [] name = "QueryScreens"        -> 2 * n
    [] name \in {"QueryTree", "GetImage", "GetKeyboardMapping"} -> n
    [] OTHER -> 0

(* The last byte each decoder reads of its fixed part.                     *)
lastByte ==
  [InternAtom |-> 12, QueryExtension |-> 12, GetProperty |-> 20,
   GrabKeyboard |-> 2, GetInputFocus |-> 12, QueryTree |-> 18,
   GetGeometry |-> 22, GetWindowAttributes |-> 42, QueryPointer |-> 26,
   AllocColor |-> 20, TranslateCoordinates |-> 16, GrabPointer |-> 2,
   GetImage |-> 12, GetKeyboardMapping |-> 2, GetModifierMapping |-> 2,
   IsActive |-> 12, QueryScreens |-> 12]

(* The bytes it reads from byte 32 on.  GetImage goes by the length of the *)
(* reply, the others by the number of items.                               *)
itemBytes(name, n, unit) ==
  CASE name = "GetProperty"        -> n * unit
    [] name = "GetModifierMapping" -> 8 * n
    [] name = "QueryScreens"       -> 8 * n
    [] name \in {"QueryTree", "GetImage", "GetKeyboardMapping"} -> 4 * n
    [] OTHER -> 0

(* The reader's slice for a reply, and whether a decoder stays inside it.  *)
bodyBytes_HeadOnly(extra) == 32
bodyBytes(extra) == 32 + 4 * extra

DecodesInside(name, n, unit, extra) ==
  LET items == itemBytes(name, n, unit)
  IN  /\ lastByte[name] <= bodyBytes(extra)
      /\ items > 0 => 32 + items <= bodyBytes(extra)

-----------------------------------------------------------------------------
(* The keyboard map.  A map is [first, cols, syms]: syms is the flat list  *)
(* of the reply; a symbol is a number, 0 for none.                         *)

NoSymbol == 0

(* GetKeyboardMapping asks for this many keycodes, in a uint8.             *)
keyCount(min, max) == (max - min + 1) % KeyMod

Letter(k) == k \in 97 .. 122 \/ k \in 65 .. 90

(* Lookup, with the Shift and Lock bits of the state.                      *)
Lookup_NoRow(km, keycode, shift, lock) ==
  IF Len(km.syms) = 0 THEN NoSymbol ELSE km.syms[1 + (keycode % Len(km.syms))]
Lookup(km, keycode, shift, lock) ==
  LET row      == (keycode - km.first) * km.cols
      get(i)   == IF i < km.cols THEN km.syms[row + i + 1] ELSE NoSymbol
      useShift == IF lock /\ Letter(get(0)) THEN ~shift ELSE shift
  IN  CASE keycode < km.first \/ row + km.cols > Len(km.syms) -> NoSymbol
        [] OTHER -> IF useShift /\ get(1) # NoSymbol THEN get(1)
                    ELSE IF get(0) # NoSymbol THEN get(0) ELSE get(1)

=============================================================================
