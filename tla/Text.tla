-------------------------------- MODULE Text --------------------------------
(***************************************************************************)
(* Text of package drw: a string is measured rune by rune, cut and given   *)
(* an ellipsis if it is wider than its field, and drawn rune by rune.  The *)
(* font of each rune is looked for anew each time; this module says what   *)
(* Text does with the fonts it is given.                                   *)
(*                                                                         *)
(* A text is [s, inner, phase, todo, pen, room, out]: a string, the width  *)
(* left of its field, and the loop it is in, with the runes still ahead.   *)
(*                                                                         *)
(* A definition X_Y stands before X and is X with a plausible mistake Y;   *)
(* nothing uses it: it shows that the properties would notice.             *)
(***************************************************************************)
EXTENDS Integers, Sequences

CONSTANTS
  Ellipsis,   (* the runes of "..."                                        *)
  Advance,    (* the width of a rune in each font, rounded to pixels       *)
  NoText      (* no call of Text                                           *)

ASSUME TextAssumption == Ellipsis # <<>>

(* A field of width w with padding lpad: the three early returns.          *)
Empty(w, lpad) == w = 0 \/ w < lpad

Text(s, w, lpad) ==
  [s |-> s, inner |-> w - lpad, phase |-> "measure", todo |-> s, pen |-> 0,
   room |-> 0, out |-> <<>>]

Loop(t, phase, runes) == [t EXCEPT !.phase = phase, !.todo = runes, !.pen = 0]
DrawString(t, drawn) == [Loop(t, "draw", drawn) EXCEPT !.out = drawn]

Room_Whole(t) == t.inner
Room(t) == IF t.inner > t.pen THEN t.inner - t.pen ELSE 0

(* A loop has come to its end.                                             *)
LoopDone(t) ==
  CASE t.phase = "measure" -> IF t.pen > t.inner THEN Loop(t, "dots", Ellipsis)
                                                 ELSE DrawString(t, t.s)
    [] t.phase = "dots"    -> [Loop(t, "clamp", t.s) EXCEPT !.room = Room(t)]
    [] t.phase = "clamp"   -> DrawString(t, t.s \o Ellipsis)
    [] t.phase = "draw"    -> [t EXCEPT !.phase = "done"]

Clamped_Late(t, f) == t.pen > t.room
Clamped(t, f) == t.pen + Advance[f] > t.room

(* fontFor has returned f for the next rune.                               *)
Step(t, f) ==
  LET next == [t EXCEPT !.todo = Tail(@), !.pen = @ + Advance[f]]
      fit  == Len(t.s) - Len(t.todo)
  IN  CASE t.phase = "clamp" /\ Clamped(t, f) ->
             DrawString(t, SubSeq(t.s, 1, fit) \o Ellipsis)
        [] OTHER -> IF next.todo = <<>> THEN LoopDone(next) ELSE next

=============================================================================
