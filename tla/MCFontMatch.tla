---------------------------- MODULE MCFontMatch ----------------------------
(* FontMatch on a small instance.                                          *)
EXTENDS FontMatchInv, TLC

CONSTANTS one, two, three

ThreeFiles == <<one, two, three>>
Some == {"", "Mono", "mono", "Mono Two", "mono two", "Sans", "sans"}
ToLower ==
  "Mono" :> "mono" @@ "Mono Two" :> "mono two" @@ "Sans" :> "sans" @@ [n \in Some |-> n]
Begins ==
  {<<k, k>> : k \in Some} \cup {<<k, "">> : k \in Some} \cup {<<"mono two", "mono">>}
Low == {"", "mono", "mono two", "sans"}
Prefixes == Begins \cap (Low \X Low)
(* The generic name sans stands for Mono Two, then Mono.                   *)
Generic == [k \in Low |-> IF k = "sans" THEN <<"Mono Two", "Mono">> ELSE <<>>]

Rec(id, plat, lang, text) ==
  [name |-> id, platform |-> plat, lang |-> lang, fits |-> TRUE, text |-> text]
Records ==
  {Rec(1, 3, 1033, "Mono"), Rec(1, 3, 1031, "Sans"), Rec(1, 0, 0, "Mono Two"),
   Rec(1, 0, 3, "Sans"), Rec(1, 1, 0, "Sans"), Rec(1, 3, 1033, ""),
   [Rec(1, 3, 1033, "Mono Two") EXCEPT !.fits = FALSE]}
Font(fam, sub) == <<Rec(2, 1, 0, sub), Rec(1, 3, 1033, fam)>>

(* one has any short table, two and three some style of some family.       *)
Short == {<<>>} \cup {<<r>> : r \in Records} \cup (Records \X Records)
Given ==
  one :> Short
  @@ two :> {Font(f, s) : f \in {"mono", "Mono Two"}, s \in {"Bold", "Italic"}}
  @@ three :> {Font(f, s) : f \in {"Mono", "Sans"}, s \in {"Bold", "Bold Oblique"}}
Bold == {"bold", "Bold", "Bold Oblique"}
Italic == {"italic", "Italic"}
Oblique == {"oblique", "Oblique", "Bold Oblique"}

Folds ==
  "Bold" :> "bold" @@ "Oblique" :> "oblique" @@ "Italic" :> "italic"
  @@ [w \in Bold \cup Italic \cup Oblique |-> w]

Opt(key, val) == [key |-> key, val |-> val]
Ask(families, opts) == [families |-> families, opts |-> opts]
Asked ==
  {Ask(<<"Mono">>, {Opt("", "oblique")}), Ask(<<"Mono", "Sans">>, {Opt("weight", "Bold")}),
   Ask(<<"sans">>, {Opt("size", "bold")}), Ask(<<"sans">>, {Opt("style", "Bold")}),
   Ask(<<"mono two">>, {Opt("weight", "Bold Oblique")}),
   Ask(<<"">>, {Opt("slant", "Oblique"), Opt("", "Italic")})}
=============================================================================
