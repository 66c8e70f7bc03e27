------------------------------ MODULE Session ------------------------------
(***************************************************************************)
(* A connection from Dial to its use, as a stream of words: goroutines     *)
(* encode requests and write them piece by piece under c.mu, the server    *)
(* cuts the stream by the length fields, and the reader cuts the replies   *)
(* into heads and bodies before the decoders index them.  Which reply      *)
(* belongs to which call is the matter of Conn; here it is given.          *)
(*                                                                         *)
(* A definition X_Y stands before X and is X with a plausible mistake Y;   *)
(* nothing uses it: it shows that the properties would notice.             *)
(***************************************************************************)
EXTENDS Dial

CONSTANTS
  Users,      (* goroutines                                                *)
  Wanted,     (* the requests each issues one by one                       *)
  Images,     (* the images [w, h, depth] each puts                        *)
  Layouts,    (* keyboards: for each keycode the symbols of its columns    *)
  Units,      (* formats of a property, in bytes                           *)
  MaxItems,   (* bound: items of a reply                                   *)
  MaxCalls,   (* bound: calls of a goroutine                               *)
  MaxEvents,  (* bound: events                                             *)
  Nobody

Messages ==
  [kind : {"reply", "error", "event"}, re : Nat, n : Nat, unit : Nat, extra : Nat,
   keys : Layouts \cup {<<>>}]

ASSUME SessionAssumption ==
  /\ MaxItems \in Nat /\ MaxCalls \in Nat /\ MaxEvents \in Nat
  /\ Nobody \notin Users /\ Nil \notin Messages
  /\ \A g \in Users : /\ Wanted[g] \subseteq {q \in Encoded : q.name # "PutImage"}
                       /\ Images[g] \subseteq Pictures
  /\ Units \subseteq Nat
  /\ Layouts \subseteq Seq(Seq(Nat))
  /\ \A l \in Layouts : l # <<>> /\ \A k \in DOMAIN l : Len(l[k]) = Len(l[1])

VARIABLES
  mu,        (* the holder of c.mu                                         *)
  pc,        (* "idle", "ready", "writing" or "waiting"                    *)
  todo,      (* the requests of the call a goroutine is in                 *)
  sent,      (* the words of the current one that are written              *)
  issued,    (* all requests, in the order of c.mu                         *)
  out,       (* words on the way to the server: <<request, place>>         *)
  log,       (* what the server has cut out of them                        *)
  in,        (* heads and tails of messages on the way to the reader       *)
  rst, rmsg, (* the reader, and the head it holds while it reads a tail    *)
  slot,      (* the reply handed to each waiting goroutine                 *)
  km,        (* c.keyboardMap, with the layout it was made from            *)
  peerUp,
  calls, emitted

userVars == <<mu, pc, todo, sent, issued>>
readVars == <<rst, rmsg, slot>>
serverVars == <<peerUp, emitted>>
vars == <<dialVars, userVars, out, log, in, readVars, km, serverVars, calls>>

Init ==
  /\ DialInit
  /\ mu = Nobody /\ pc = [g \in Users |-> "idle"] /\ todo = [g \in Users |-> <<>>]
  /\ sent = [g \in Users |-> 0] /\ issued = <<>>
  /\ out = <<>> /\ log = <<>> /\ in = <<>>
  /\ rst = "head" /\ rmsg = Nil /\ slot = [g \in Users |-> Nil]
  /\ km = Nil /\ peerUp = TRUE /\ calls = [g \in Users |-> 0] /\ emitted = 0

Startup ==
  Dial /\ UNCHANGED <<userVars, out, log, in, readVars, km, serverVars, calls>>

-----------------------------------------------------------------------------
(* Calls.  A call is the list of its requests.                             *)

(* The call goes on with its next request, or ends.                        *)
Advance(g, rest) ==
  /\ todo' = [todo EXCEPT ![g] = rest]
  /\ pc' = [pc EXCEPT ![g] = IF rest = <<>> THEN "idle" ELSE "ready"]

Enter(g, requests) ==
  /\ pc[g] = "idle" /\ calls[g] < MaxCalls
  /\ calls' = [calls EXCEPT ![g] = @ + 1]
  /\ Advance(g, requests)
  /\ UNCHANGED <<mu, sent, issued>>

Issue(g) ==
  /\ \E q \in Wanted[g] : Enter(g, <<q>>)
  /\ UNCHANGED <<panic, stage>>

PutImages(g) ==
  \E im \in Images[g] :
    IF pc[g] = "idle" /\ DividesByZero(im)
    THEN panic' = "divide" /\ stage' = "panicked" /\ UNCHANGED <<userVars, calls>>
    ELSE Enter(g, PutImage(im, Setup.maxReq)) /\ UNCHANGED <<panic, stage>>

(* xinerama.Query.                                                         *)
Query(g) ==
  /\ Enter(g, [i \in 1 .. 3 |-> Request(<<"QueryExtension", "IsActive", "QueryScreens">>[i],
                                        IF i = 1 THEN 8 ELSE 0, 1)])
  /\ UNCHANGED <<panic, stage>>

Call(g) ==
  /\ Issue(g) \/ PutImages(g) \/ Query(g)
  /\ UNCHANGED <<display, auth, sock, hello, Setup, ScreenIx,
                 out, log, in, readVars, km, serverVars>>

Current(g) == Head(todo[g])

Free_Always == TRUE
Free == mu = Nobody

(* The request is finished and c.mu taken.                                 *)
Begin(g) ==
  /\ pc[g] = "ready" /\ Free
  /\ IF finishPanics(Current(g))
     THEN panic' = "finish" /\ stage' = "panicked" /\ UNCHANGED userVars
     ELSE /\ mu' = g /\ pc' = [pc EXCEPT ![g] = "writing"]
          /\ sent' = [sent EXCEPT ![g] = 0]
          /\ issued' = Append(issued, [q |-> Current(g), by |-> g])
          /\ UNCHANGED <<todo, panic, stage>>
  /\ UNCHANGED <<display, auth, sock, hello, Setup, ScreenIx,
                 out, log, in, readVars, km, serverVars, calls>>

Mine(g) == Max({i \in DOMAIN issued : issued[i].by = g})

(* net.Conn.Write loops until all is written: the socket takes it at once, *)
(* or a word first and then the rest.                                      *)
WritePart(g) ==
  LET all == Words(Current(g))  left == all - sent[g] IN
  /\ pc[g] = "writing" /\ peerUp
  /\ \E n \in {left} \cup (IF sent[g] = 0 THEN {1} ELSE {}) :
       /\ out' = out \o [i \in 1 .. n |-> <<Mine(g), sent[g] + i>>]
       /\ sent' = [sent EXCEPT ![g] = @ + n]
  /\ IF sent'[g] < all THEN UNCHANGED <<mu, pc, todo>>
     ELSE /\ mu' = Nobody
          /\ IF HasReply(Current(g).name)
             THEN pc' = [pc EXCEPT ![g] = "waiting"] /\ UNCHANGED todo
             ELSE Advance(g, Tail(todo[g]))
  /\ UNCHANGED <<dialVars, issued, log, in, readVars, km, serverVars, calls>>

(* The Write fails: Send goes on, SendReply returns the error.             *)
WriteFail(g) ==
  /\ pc[g] = "writing" /\ ~peerUp
  /\ mu' = Nobody
  /\ Advance(g, IF HasReply(Current(g).name) THEN <<>> ELSE Tail(todo[g]))
  /\ UNCHANGED <<dialVars, sent, issued, out, log, in, readVars, km, serverVars, calls>>

(* The symbols of a keyboard, row after row.                               *)
Symbols(keys) ==
  LET cols == Len(keys[1])
  IN  [k \in 1 .. Len(keys) * cols |-> keys[1 + ((k - 1) \div cols)][1 + ((k - 1) % cols)]]

Mapping(r) ==
  [first |-> Setup.min, cols |-> Len(r.keys[1]), rows |-> r.keys,
   syms |-> SubSeq(Symbols(r.keys), 1, r.n)]

(* SendReply returns and the reply is decoded.  Query stops at a server    *)
(* without Xinerama, at an inactive one, and at one without screens.       *)
Wake(g) ==
  LET r == slot[g]  name == Current(g).name IN
  /\ pc[g] = "waiting" /\ r # Nil
  /\ slot' = [slot EXCEPT ![g] = Nil]
  /\ IF r.kind = "reply" /\ ~DecodesInside(name, r.n, r.unit, r.extra)
     THEN panic' = "decode" /\ stage' = "panicked" /\ UNCHANGED <<todo, pc, km>>
     ELSE /\ Advance(g, IF r.kind = "error" \/ r.n = 0 THEN <<>> ELSE Tail(todo[g]))
          /\ km' = IF r.kind = "reply" /\ name = "GetKeyboardMapping"
                   THEN Mapping(r)
                   ELSE km
          /\ UNCHANGED <<panic, stage>>
  /\ UNCHANGED <<display, auth, sock, hello, Setup, ScreenIx, mu, sent,
                 issued, out, log, in, rst, rmsg, serverVars, calls>>

-----------------------------------------------------------------------------
(* The reader.                                                             *)

Deliver(m) ==
  slot' = IF m.kind = "event" \/ ~HasReply(issued[m.re].q.name) THEN slot
          ELSE [slot EXCEPT ![issued[m.re].by] = m]

HasBody_Never(m) == FALSE
HasBody(m) == m.kind = "reply" /\ m.extra > 0

ReadHead ==
  LET m == Head(in).msg IN
  /\ rst = "head" /\ in # <<>> /\ Head(in).part = "head"
  /\ in' = Tail(in)
  /\ IF HasBody(m) THEN rst' = "body" /\ rmsg' = m /\ UNCHANGED slot
                   ELSE Deliver(m) /\ UNCHANGED <<rst, rmsg>>
  /\ UNCHANGED <<dialVars, userVars, out, log, km, serverVars, calls>>

ReadBodyOf ==
  /\ rst = "body" /\ in # <<>>
  /\ in' = Tail(in)
  /\ Deliver(rmsg) /\ rst' = "head" /\ rmsg' = Nil
  /\ UNCHANGED <<dialVars, userVars, out, log, km, serverVars, calls>>

ReadFail ==
  /\ rst # "dead" /\ ~peerUp /\ in = <<>>
  /\ rst' = "dead" /\ rmsg' = Nil
  /\ UNCHANGED <<dialVars, userVars, out, log, in, slot, km, serverVars, calls>>

-----------------------------------------------------------------------------
(* The X server.                                                           *)

Frames(m) ==
  <<[part |-> "head", msg |-> m]>>
    \o (IF m.kind = "reply" /\ m.extra > 0 THEN <<[part |-> "tail", msg |-> m]>> ELSE <<>>)

Message(kind, i, n, unit, extra, keys) ==
  [kind |-> kind, re |-> i, n |-> n, unit |-> unit, extra |-> extra, keys |-> keys]
Event == Message("event", 0, 0, 1, 0, <<>>)
Error(i) == Message("error", i, 0, 1, 0, <<>>)
Reply(i, n, unit, keys) ==
  Message("reply", i, n, unit, ExtraWords(issued[i].q.name, n, unit), keys)

Counted ==
  {"QueryExtension", "IsActive", "QueryScreens", "GetProperty", "QueryTree", "GetImage",
   "GetModifierMapping"}

(* What it may answer to a request it understands.                         *)
Answers(i) ==
  LET name == issued[i].q.name
      N    == IF name \in Counted THEN 0 .. MaxItems ELSE {1}
      U    == IF name = "GetProperty" THEN Units ELSE {1}
  IN  IF ~HasReply(name) THEN {}
      ELSE {Error(i)} \cup
           IF name = "GetKeyboardMapping"
           THEN {Reply(i, keyCount(Setup.min, Setup.max) * Len(l[1]), 4, l) :
                   l \in {k \in Layouts : Len(k) = Setup.max - Setup.min + 1}}
           ELSE {Reply(i, n, u, <<>>) : n \in N, u \in U}

Fits(q) == Words(q) <= Setup.maxReq

(* It takes as many words as the length field of the head says.  What it   *)
(* takes should be one request, all of it.                                 *)
Serve ==
  LET w    == Head(out)
      len  == IF w[2] = 1 THEN lengthField(issued[w[1]].q) ELSE 1
      take == IF len = 0 THEN 1 ELSE len
      i    == w[1]
      whole == /\ take = Words(issued[i].q)
               /\ SubSeq(out, 1, take) = [k \in 1 .. take |-> <<i, k>>]
      good == whole /\ Understood(issued[i].q) /\ Fits(issued[i].q)
  IN
  /\ peerUp /\ out # <<>> /\ Len(out) >= take
  /\ out' = SubSeq(out, take + 1, Len(out))
  /\ log' = Append(log, [re |-> i, whole |-> whole, good |-> good])
  /\ \/ ~good /\ in' = in \o Frames(Error(i))
     \/ good /\ Answers(i) = {} /\ UNCHANGED in
     \/ good /\ \E m \in Answers(i) : in' = in \o Frames(m)
  /\ UNCHANGED <<dialVars, userVars, readVars, km, serverVars, calls>>

SendEvent ==
  /\ stage = "up" /\ peerUp /\ emitted < MaxEvents
  /\ in' = in \o Frames(Event)
  /\ emitted' = emitted + 1
  /\ UNCHANGED <<dialVars, userVars, out, log, readVars, km, peerUp, calls>>

(* It goes away, and what it sent arrives up to some point.                *)
HangUp ==
  /\ stage = "up" /\ peerUp
  /\ peerUp' = FALSE
  /\ \E k \in 0 .. Len(in) : in' = SubSeq(in, 1, k)
  /\ UNCHANGED <<dialVars, userVars, out, log, readVars, km, emitted, calls>>

-----------------------------------------------------------------------------

User(g) ==
  stage = "up" /\ (Call(g) \/ Begin(g) \/ WritePart(g) \/ WriteFail(g) \/ Wake(g))

Next ==
  \/ Startup
  \/ \E g \in Users : User(g)
  \/ stage = "up" /\ (ReadHead \/ ReadBodyOf \/ ReadFail)
  \/ stage = "up" /\ (Serve \/ SendEvent \/ HangUp)

Spec == Init /\ [][Next]_vars

-----------------------------------------------------------------------------
(* Properties.                                                             *)

(* Every variable holds a value of its kind.                               *)
SessionType ==
  /\ mu \in Users \cup {Nobody}
  /\ pc \in [Users -> {"idle", "ready", "writing", "waiting"}]
  /\ \A g \in Users : (pc[g] = "idle") = (todo[g] = <<>>)
  /\ sent \in [Users -> Nat] /\ \A g \in Users : pc[g] = "writing" => sent[g] < Words(Current(g))
  /\ rst \in {"head", "body", "dead"} /\ rmsg \in IF rst = "body" THEN Messages ELSE {Nil}
  /\ slot \in [Users -> {m \in Messages : m.kind # "event"} \cup {Nil}]
  /\ peerUp \in BOOLEAN /\ calls \in [Users -> 0 .. MaxCalls] /\ emitted \in 0 .. MaxEvents
TypeOK == DialType /\ SessionType

(* No request reaches the size at which the 16-bit length field wraps.     *)
NoWrap == \A i \in DOMAIN issued : Words(issued[i].q) < LenMod

(* The server cuts the stream into the requests that were issued, each     *)
(* whole and in the order of c.mu, and the reader starts a message at each *)
(* head and a body at each tail, however the writes and the goroutines     *)
(* interleave, unless a request was so long that its length wrapped.       *)
StreamAligned ==
  NoWrap =>
    /\ \A k \in DOMAIN log : log[k].re = k /\ log[k].whole
    /\ in # <<>> /\ rst = "head" => Head(in).part = "head"
    /\ in # <<>> /\ rst = "body" => Head(in) = [part |-> "tail", msg |-> rmsg]

(* The depths PutImage is for, and the images of other depths whose lines  *)
(* happen to be whole words.                                               *)
WholeLines(im) ==
  \/ im.depth \in {24, 32}
  \/ im.depth \in {1, 4, 8, 16} /\ (im.w * im.depth) % 32 = 0

(* What it may refuse.                                                     *)
Refusable(q) ==
  IF q.name = "PutImage"
  THEN ~WholeLines(q.image) \/ 24 + lineBytes(q.image) > 4 * Setup.maxReq
  ELSE ~Fits(q) \/ q.size % q.unit # 0

(* The server refuses no request for its length or its values, except one  *)
(* longer than it takes, which only PutImage avoids (down to a single      *)
(* row), a property that is not a whole number of items, and an image of   *)
(* another depth than 24 and 32 whose lines it would pad.                  *)
NoneRefused ==
  NoWrap => \A k \in DOMAIN log : log[k].good \/ Refusable(issued[log[k].re].q)

(* The process panics for two reasons only, a server without the screen    *)
(* or a DISPLAY with a negative one, and an image less than a byte wide:   *)
(* no encoder leaves its request misaligned, and no decoder reads past the *)
(* reply it was given, unless a wrapped length has made a stray error of   *)
(* the server end a later call, whose reply the next one then decodes.     *)
PanicMeans ==
  /\ panic \in {"no", "screen", "divide", "decode"}
  /\ panic = "screen" => Setup.screens = <<>> \/ ScreenIx < 0
  /\ panic = "divide" => \E g \in Users : \E im \in Images[g] : im.w * im.depth < 8
  /\ panic = "decode" => ~NoWrap

(* Lookup gives the symbol of the key's own row and of the column that     *)
(* Shift and Lock select, or of the other one where that is empty, and     *)
(* nothing for a key the map does not have.                                *)
Own(map, keycode, shift, lock) ==
  LET known  == keycode \in map.first .. map.first + Len(map.rows) - 1
      row    == map.rows[keycode - map.first + 1] \o <<NoSymbol, NoSymbol>>
      upper  == shift # (lock /\ row[1] \in 65 .. 90 \cup 97 .. 122)
      wanted == IF upper THEN <<row[2], row[1]>> ELSE <<row[1], row[2]>>
  IN  IF ~known THEN NoSymbol ELSE IF wanted[1] # NoSymbol THEN wanted[1] ELSE wanted[2]

LookupIsOwn ==
  NoWrap /\ km # Nil =>
    \A keycode \in Setup.min - 1 .. Setup.max + 1 : \A shift, lock \in BOOLEAN :
      Lookup(km, keycode, shift, lock) = Own(km, keycode, shift, lock)

=============================================================================
