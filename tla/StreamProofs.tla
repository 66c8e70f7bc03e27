---------------------------- MODULE StreamProofs ----------------------------
(***************************************************************************)
(* Conn delivers the events as a stream, and an answer behind everything   *)
(* the server said before it, for any goroutines, capacities, bounds and   *)
(* size of the sequence number.                                            *)
(***************************************************************************)
EXTENDS ConnProofs

USE ConnAssumption

-----------------------------------------------------------------------------
(* Sequences.                                                              *)

Elems(q) == {q[i] : i \in DOMAIN q}
Ordered(q) == \A i, j \in DOMAIN q : i < j => q[i] < q[j]

(* What Append adds to a sequence.                                         *)
LEMMA AppendElems ==
  ASSUME NEW q \in Seq(Nat), NEW x \in Nat
  PROVE  /\ Elems(Append(q, x)) = Elems(q) \cup {x}
         /\ Ordered(q) /\ (\A m \in Elems(q) : m < x) => Ordered(Append(q, x))
<1>1. /\ \A i \in DOMAIN Append(q, x) :
           i = Len(q) + 1 \/ (i \in DOMAIN q /\ i <= Len(q) /\ Append(q, x)[i] = q[i])
      /\ \A i \in DOMAIN q : i \in Nat /\ i \in DOMAIN Append(q, x) /\ Append(q, x)[i] = q[i]
      /\ Append(q, x)[Len(q) + 1] = x /\ Len(q) + 1 \in DOMAIN Append(q, x)
      /\ Len(q) \in Nat
  BY AppendFacts
<1>2. Elems(Append(q, x)) = Elems(q) \cup {x} BY <1>1 DEF Elems
<1>3. ASSUME Ordered(q), \A m \in Elems(q) : m < x,
             NEW i \in DOMAIN Append(q, x), NEW j \in DOMAIN Append(q, x), i < j
      PROVE  Append(q, x)[i] < Append(q, x)[j]
  <2>1. i \in DOMAIN q BY <1>1, <1>3
  <2>2. CASE j = Len(q) + 1 BY <1>1, <1>3, <2>1, <2>2 DEF Elems
  <2>3. CASE j \in DOMAIN q BY <1>1, <1>3, <2>1, <2>3 DEF Ordered
  <2> QED BY <1>1, <2>2, <2>3
<1> QED BY <1>2, <1>3 DEF Ordered

(* The first of what follows may as well be the last of what precedes.     *)
LEMMA ShiftHead ==
  ASSUME NEW s \in Seq(Nat), NEW e \in Seq(Nat), e # <<>>
  PROVE  Append(s, Head(e)) \o Tail(e) = s \o e
OBVIOUS

(* Appending to the second part is appending to the whole.                 *)
LEMMA ShiftLast ==
  ASSUME NEW s \in Seq(Nat), NEW e \in Seq(Nat), NEW x \in Nat
  PROVE  s \o Append(e, x) = Append(s \o e, x) /\ (s \o e) \o <<x>> = Append(s \o e, x)
OBVIOUS

-----------------------------------------------------------------------------
(* The wire.                                                               *)

Reading == ReadMatched \/ ReadUnmatched \/ ReadEvent

(* What each step may do to the wire and the server's records.             *)
LEMMA WireMoves ==
  ASSUME [Next]_vars
  PROVE  \/ UNCHANGED <<toClient, evlog, raised, served>>
         \/ /\ Reading /\ toClient # <<>> /\ toClient' = Tail(toClient)
            /\ UNCHANGED <<evlog, raised, served>>
         \/ Serve
         \/ SendEvent
<1> USE DEF connVars, procVars, readerVars, wireVars, reqVars, errVars
<1>1. CASE Reading BY <1>1 DEF Reading, ReadMatched, ReadUnmatched, ReadEvent
<1>2. CASE \E g \in Callers : Send(g) \/ SendReply(g) \/ Write(g) \/ Wake(g)
  BY <1>2 DEF Send, SendReply, Begin, Write, WriteOK, WriteFail, Wake
<1>3. CASE Handoff \/ Emit \/ EmitDone \/ ReadFail \/ HangUp \/ UNCHANGED vars
  BY <1>3 DEF Handoff, Emit, EmitDone, ReadFail, HangUp, vars
<1>4. CASE \/ \E g \in Consumers : RecvEvent(g) \/ RecvErr(g)
           \/ \E g \in Closers : Close(g)
  BY <1>4 DEF RecvEvent, RecvErr, Close, CloseCheck, CloseDone, CloseSock
<1> QED BY <1>1, <1>2, <1>3, <1>4 DEF Next, Reader, Server, Reading

(* What a read takes is the first; what it leaves moves up by one.         *)
LEMMA ReadFacts ==
  ASSUME TypeOK, toClient # <<>>, toClient' = Tail(toClient)
  PROVE  /\ 1 \in DOMAIN toClient /\ Head(toClient) = toClient[1] /\ toClient[1] \in Message
         /\ \A i \in DOMAIN toClient : i \in Nat /\ i >= 1
         /\ \A i \in DOMAIN toClient' :
              i \in Nat /\ i + 1 \in DOMAIN toClient /\ toClient'[i] = toClient[i + 1]
         /\ \A i \in DOMAIN toClient :
              i = 1 \/ (i - 1 \in DOMAIN toClient' /\ toClient'[i - 1] = toClient[i])
<1>1. toClient \in Seq(Message) BY DEF TypeOK, WireType
<1>2. \A i \in DOMAIN toClient : i \in Nat /\ i >= 1 BY <1>1
<1> QED BY <1>1, <1>2, TailFacts

(* What the server sends comes last.                                       *)
LEMMA SentFacts ==
  ASSUME TypeOK, NEW x \in Message, toClient' = Append(toClient, x)
  PROVE  /\ Len(toClient) \in Nat
         /\ Len(toClient) + 1 \in DOMAIN toClient' /\ toClient'[Len(toClient) + 1] = x
         /\ \A i \in DOMAIN toClient' :
              \/ i = Len(toClient) + 1
              \/ i \in DOMAIN toClient /\ i \in Nat /\ i <= Len(toClient) /\ toClient'[i] = toClient[i]
         /\ \A i \in DOMAIN toClient :
              i \in DOMAIN toClient' /\ i \in Nat /\ i <= Len(toClient) /\ toClient'[i] = toClient[i]
<1>1. toClient \in Seq(Message) BY DEF TypeOK, WireType
<1> QED BY <1>1, AppendFacts

(* The server answers with a message of its own number, or not at all.     *)
LEMMA ServeFacts ==
  ASSUME TypeOK, ServerInv, Serve
  PROVE  /\ served \in Nat /\ served' = served + 1 /\ served + 1 \in Calls
         /\ UNCHANGED <<connVars, procVars, readerVars, ret, evlog, seen, errVars, reqVars>>
         /\ \E v \in {"none", "reply", "error"}, x \in Message :
              /\ IsAnswer(x) /\ x.re = served + 1 /\ (v # "none" => x.kind = v)
              /\ toClient' = IF v = "none" THEN toClient ELSE Append(toClient, x)
              /\ raised' = IF v = "error" THEN raised \cup {served + 1} ELSE raised
              /\ v = "error" => toClient' = Append(toClient, x)
<1>0. served \in Nat /\ toServer \in Seq(Calls) /\ toServer # <<>> BY DEF TypeOK, WireType, Serve
<1>1. /\ Head(toServer) \in Calls /\ Head(toServer) = served + 1 /\ served' = served + 1
  BY <1>0, TailFacts DEF Serve, ServerInv
<1> DEFINE s == (served + 1) % SeqMod
           m(v) == [kind |-> v, seq |-> s, re |-> served + 1]
<1>2. s \in 0 .. SeqMod - 1
  <2>1. served + 1 \in Nat BY <1>0
  <2> QED BY <2>1, ModInRange
<1>3. PICK v \in {"none", "reply", "error"} :
        /\ toClient' = IF v = "none" THEN toClient ELSE Append(toClient, m(v))
        /\ raised' = IF v = "error" THEN raised \cup {m(v).re} ELSE raised
  BY <1>1 DEF Serve, Verdicts
<1> DEFINE x == IF v = "none" THEN m("reply") ELSE m(v)
<1>4. x \in Message /\ IsAnswer(x) /\ x.re = served + 1 /\ (v # "none" => x.kind = v)
  BY <1>1, <1>2 DEF Message, IsAnswer
<1>5. /\ toClient' = IF v = "none" THEN toClient ELSE Append(toClient, x)
      /\ raised' = IF v = "error" THEN raised \cup {served + 1} ELSE raised
      /\ v = "error" => toClient' = Append(toClient, x)
  BY <1>3
<1>6. UNCHANGED <<connVars, procVars, readerVars, ret, evlog, seen, errVars, reqVars>> BY DEF Serve
<1> HIDE DEF x
<1> QED BY <1>0, <1>1, <1>4, <1>5, <1>6

(* An event comes last on the wire and in the log, with the count served.  *)
LEMMA EventFacts ==
  ASSUME TypeOK, SendEvent
  PROVE  /\ UNCHANGED <<connVars, procVars, readerVars, ret, seen, raised, served, errVars, reqVars>>
         /\ \E x \in Message :
              /\ ~IsAnswer(x) /\ x.re = Len(evlog) + 1 /\ x.kind \in {"event", "release"}
              /\ toClient' = Append(toClient, x)
              /\ evlog' = Append(evlog, [kind |-> x.kind, at |-> served])
<1>0. served \in Nat /\ evlog \in Seq([kind : {"event", "release"}, at : Nat])
  BY DEF TypeOK, WireType, HistoryType
<1>1. PICK k \in {"event", "release"} :
        /\ toClient' = Append(toClient, [kind |-> k, seq |-> served % SeqMod, re |-> Len(evlog) + 1])
        /\ evlog' = Append(evlog, [kind |-> k, at |-> served])
  BY DEF SendEvent
<1>2. served % SeqMod \in 0 .. SeqMod - 1 BY <1>0, ModInRange
<1> DEFINE x == [kind |-> k, seq |-> served % SeqMod, re |-> Len(evlog) + 1]
<1>3. x \in Message /\ ~IsAnswer(x) /\ x.re = Len(evlog) + 1 /\ x.kind = k
  BY <1>0, <1>2 DEF Message, IsAnswer
<1>4. UNCHANGED <<connVars, procVars, readerVars, ret, seen, raised, served, errVars, reqVars>>
  BY DEF SendEvent
<1>5. toClient' = Append(toClient, x) /\ evlog' = Append(evlog, [kind |-> x.kind, at |-> served])
  BY <1>1
<1> HIDE DEF x
<1> QED BY <1>3, <1>4, <1>5

(* The log keeps what it has.                                              *)
LEMMA LogFacts ==
  ASSUME TypeOK, NEW k \in {"event", "release"}, NEW a \in Nat,
         evlog' = Append(evlog, [kind |-> k, at |-> a])
  PROVE  /\ Len(evlog) \in Nat /\ evlog'[Len(evlog) + 1] = [kind |-> k, at |-> a]
         /\ DOMAIN evlog' = DOMAIN evlog \cup {Len(evlog) + 1}
         /\ \A l \in DOMAIN evlog : l \in Nat /\ l <= Len(evlog) /\ evlog'[l] = evlog[l]
<1>1. evlog \in Seq([kind : {"event", "release"}, at : Nat]) BY DEF TypeOK, HistoryType
<1> QED BY <1>1, AppendProperties

(* The entries of a sequence.                                              *)
LEMMA EntryOf ==
  ASSUME NEW S, NEW q \in Seq(S)
  PROVE  \A i \in DOMAIN q : q[i] \in S
OBVIOUS

(* The events on the wire, without the comprehension.                      *)
LEMMA OnWireIs ==
  ASSUME NEW l
  PROVE  l \in OnWire <=> \E i \in DOMAIN toClient : ~IsAnswer(toClient[i]) /\ toClient[i].re = l
BY DEF OnWire

(* A read takes the first event off the wire, and leaves the others.       *)
LEMMA OnWireRead ==
  ASSUME TypeOK, OrderInv, toClient # <<>>, toClient' = Tail(toClient)
  PROVE  OnWire' = IF IsAnswer(Head(toClient)) THEN OnWire ELSE OnWire \ {Head(toClient).re}
<1> DEFINE h == Head(toClient)
<1>1. \A i \in DOMAIN toClient : ~IsAnswer(h) /\ ~IsAnswer(toClient[i]) /\ i # 1 =>
        toClient[i].re # h.re
  <2> SUFFICES ASSUME NEW i \in DOMAIN toClient, ~IsAnswer(h), ~IsAnswer(toClient[i]), i # 1
               PROVE  toClient[i].re # h.re
    OBVIOUS
  <2>1. i > 1 /\ 1 \in DOMAIN toClient /\ h = toClient[1] BY ReadFacts
  <2>2. h.re < toClient[i].re BY <2>1 DEF OrderInv
  <2>3. h.re \in Nat BY <2>1, ReadFacts, MessageShape
  <2>4. toClient[i].re \in Nat
    <3>1. toClient \in Seq(Message) BY DEF TypeOK, WireType
    <3>2. toClient[i] \in Message BY <3>1
    <3> QED BY <3>2, MessageShape
  <2> QED BY <2>2, <2>3, <2>4
<1>2. ASSUME NEW l, l \in OnWire'
      PROVE  l \in OnWire /\ (IsAnswer(h) \/ l # h.re)
  <2>1. PICK i \in DOMAIN toClient' : ~IsAnswer(toClient'[i]) /\ toClient'[i].re = l
    BY <1>2 DEF OnWire, IsAnswer
  <2>2. i \in Nat /\ i + 1 \in DOMAIN toClient /\ toClient'[i] = toClient[i + 1] /\ i + 1 # 1
    <3>1. i \in Nat /\ i + 1 \in DOMAIN toClient /\ toClient'[i] = toClient[i + 1]
      BY ReadFacts
    <3>2. i >= 1
      <4>1. toClient' \in Seq(Message) BY DEF TypeOK, WireType
      <4> QED BY <4>1
    <3> QED BY <3>1, <3>2
  <2> QED BY <1>1, <2>1, <2>2, OnWireIs
<1>3. ASSUME NEW l \in OnWire, IsAnswer(h) \/ l # h.re
      PROVE  l \in OnWire'
  <2>1. PICK i \in DOMAIN toClient : ~IsAnswer(toClient[i]) /\ toClient[i].re = l
    BY OnWireIs
  <2>2. i # 1 BY <1>3, <2>1, ReadFacts
  <2>3. i - 1 \in DOMAIN toClient' /\ toClient'[i - 1] = toClient[i] BY <2>2, ReadFacts
  <2> QED BY <2>1, <2>3 DEF OnWire, IsAnswer
<1> QED BY <1>2, <1>3

(* An answer sent adds no event to the wire, an event itself.              *)
LEMMA OnWireSent ==
  ASSUME TypeOK, NEW x \in Message, toClient' = Append(toClient, x)
  PROVE  OnWire' = IF IsAnswer(x) THEN OnWire ELSE OnWire \cup {x.re}
<1>1. ASSUME NEW l, l \in OnWire' PROVE l \in OnWire \/ (~IsAnswer(x) /\ l = x.re)
  <2>1. PICK i \in DOMAIN toClient' : ~IsAnswer(toClient'[i]) /\ toClient'[i].re = l
    BY <1>1 DEF OnWire, IsAnswer
  <2> QED BY <2>1, SentFacts, OnWireIs
<1>2. ASSUME NEW l \in OnWire PROVE l \in OnWire'
  <2>1. PICK i \in DOMAIN toClient : ~IsAnswer(toClient[i]) /\ toClient[i].re = l BY OnWireIs
  <2> QED BY <2>1, SentFacts DEF OnWire, IsAnswer
<1>3. ~IsAnswer(x) => x.re \in OnWire' BY SentFacts DEF OnWire, IsAnswer
<1> QED BY <1>1, <1>2, <1>3

(* Every step keeps the events on the wire in order, the last ones.        *)
LEMMA OrderStep ==
  ASSUME TypeOK, ServerInv, OrderInv, [Next]_vars
  PROVE  OrderInv'
<1>0. toClient \in Seq(Message) /\ served \in Nat BY DEF TypeOK, WireType
<1>1. CASE UNCHANGED <<toClient, evlog>> BY <1>1 DEF OrderInv, OnWire, IsAnswer
<1>2. CASE toClient # <<>> /\ toClient' = Tail(toClient) /\ UNCHANGED evlog
  <2> SUFFICES ASSUME NEW i \in DOMAIN toClient', ~IsAnswer(toClient'[i])
               PROVE  /\ toClient'[i].re \in DOMAIN evlog
                      /\ toClient'[i].kind = evlog[toClient'[i].re].kind
                      /\ \A j \in DOMAIN toClient' :
                           j > i /\ ~IsAnswer(toClient'[j]) => toClient'[i].re < toClient'[j].re
                      /\ \A l \in DOMAIN evlog : l > toClient'[i].re => l \in OnWire'
    BY <1>2 DEF OrderInv, IsAnswer
  <2>1. i \in Nat /\ i + 1 \in DOMAIN toClient /\ toClient'[i] = toClient[i + 1]
    BY <1>2, ReadFacts
  <2>2. toClient'[i].re \in DOMAIN evlog /\ toClient'[i].kind = evlog[toClient'[i].re].kind
    BY <2>1 DEF OrderInv
  <2>3. ASSUME NEW j \in DOMAIN toClient', j > i, ~IsAnswer(toClient'[j])
        PROVE  toClient'[i].re < toClient'[j].re
    <3>1. j \in Nat /\ j + 1 \in DOMAIN toClient /\ toClient'[j] = toClient[j + 1] /\ j + 1 > i + 1
      BY <1>2, <2>1, <2>3, ReadFacts
    <3> QED BY <2>1, <2>3, <3>1 DEF OrderInv
  <2>4. ASSUME NEW l \in DOMAIN evlog, l > toClient'[i].re PROVE l \in OnWire'
    <3>1. l \in OnWire BY <2>1, <2>4 DEF OrderInv
    <3>2. CASE IsAnswer(Head(toClient)) BY <1>2, <3>1, <3>2, OnWireRead
    <3>3. CASE ~IsAnswer(Head(toClient))
      <4>1. 1 \in DOMAIN toClient /\ Head(toClient) = toClient[1] /\ i + 1 > 1
        <5>1. toClient' \in Seq(Message) BY <1>0, <1>2
        <5>2. i >= 1 BY <5>1
        <5> QED BY <1>2, <2>1, <5>2, ReadFacts
      <4>2. Head(toClient).re < toClient[i + 1].re BY <2>1, <3>3, <4>1 DEF OrderInv
      <4>3. Head(toClient).re \in Nat /\ toClient[i + 1].re \in Nat
        BY <1>0, <2>1, <4>1, MessageShape
      <4>4. l \in Nat BY DEF TypeOK, HistoryType
      <4>5. l # Head(toClient).re BY <2>1, <2>4, <4>2, <4>3, <4>4
      <4> QED BY <1>2, <3>1, <3>3, <4>5, OnWireRead
    <3> QED BY <3>2, <3>3
  <2> QED BY <2>2, <2>3, <2>4
<1>3. ASSUME NEW x \in Message, toClient' = Append(toClient, x), IsAnswer(x), UNCHANGED evlog
      PROVE  OrderInv'
  <2>1. OnWire' = OnWire BY <1>3, OnWireSent
  <2>2. \A i \in DOMAIN toClient' : ~IsAnswer(toClient'[i]) =>
          i \in DOMAIN toClient /\ toClient'[i] = toClient[i]
    BY <1>3, SentFacts
  <2> QED BY <1>3, <2>1, <2>2 DEF OrderInv, IsAnswer
<1>4. CASE Serve
  <2>1. PICK v \in {"none", "reply", "error"}, x \in Message :
          /\ IsAnswer(x) /\ UNCHANGED evlog
          /\ toClient' = IF v = "none" THEN toClient ELSE Append(toClient, x)
    BY <1>4, ServeFacts
  <2> QED BY <1>1, <1>3, <2>1
<1>5. CASE SendEvent
  <2>1. PICK x \in Message :
          /\ ~IsAnswer(x) /\ x.re = Len(evlog) + 1 /\ x.kind \in {"event", "release"}
          /\ toClient' = Append(toClient, x)
          /\ evlog' = Append(evlog, [kind |-> x.kind, at |-> served])
    BY <1>5, EventFacts
  <2>2. /\ Len(evlog) \in Nat /\ evlog'[x.re].kind = x.kind
        /\ DOMAIN evlog' = DOMAIN evlog \cup {x.re}
        /\ \A l \in DOMAIN evlog : l \in Nat /\ l < x.re /\ evlog'[l] = evlog[l]
    BY <1>0, <2>1, LogFacts
  <2>3. OnWire' = OnWire \cup {x.re} BY <2>1, OnWireSent
  <2> SUFFICES ASSUME NEW i \in DOMAIN toClient', ~IsAnswer(toClient'[i])
               PROVE  /\ toClient'[i].re \in DOMAIN evlog'
                      /\ toClient'[i].kind = evlog'[toClient'[i].re].kind
                      /\ \A j \in DOMAIN toClient' :
                           j > i /\ ~IsAnswer(toClient'[j]) => toClient'[i].re < toClient'[j].re
                      /\ \A l \in DOMAIN evlog' : l > toClient'[i].re => l \in OnWire'
    BY DEF OrderInv, IsAnswer
  <2>4. CASE i = Len(toClient) + 1
    <3>1. toClient'[i] = x BY <2>1, <2>4, SentFacts
    <3>2. \A j \in DOMAIN toClient' : ~(j > i)
      <4>1. \A j \in DOMAIN toClient : j <= Len(toClient) /\ j \in Nat BY <1>0
      <4>2. Len(toClient) \in Nat BY <1>0
      <4> QED BY <2>1, <2>4, <4>1, <4>2, SentFacts
    <3>3. \A l \in DOMAIN evlog' : ~(l > x.re) BY <2>1, <2>2
    <3> QED BY <2>2, <3>1, <3>2, <3>3
  <2>5. CASE i \in DOMAIN toClient /\ toClient'[i] = toClient[i]
    <3>1. /\ toClient[i].re \in DOMAIN evlog /\ toClient[i].kind = evlog[toClient[i].re].kind
      BY <2>5 DEF OrderInv
    <3>2. ASSUME NEW j \in DOMAIN toClient', j > i, ~IsAnswer(toClient'[j])
          PROVE  toClient'[i].re < toClient'[j].re
      <4>1. CASE j = Len(toClient) + 1 BY <2>1, <2>2, <2>5, <3>1, <4>1, SentFacts
      <4>2. CASE j \in DOMAIN toClient /\ toClient'[j] = toClient[j]
        BY <2>5, <3>2, <4>2 DEF OrderInv
      <4> QED BY <2>1, <4>1, <4>2, SentFacts
    <3>3. \A l \in DOMAIN evlog' : l > toClient'[i].re => l \in OnWire'
      BY <2>2, <2>3, <2>5 DEF OrderInv
    <3> QED BY <2>2, <2>5, <3>1, <3>2, <3>3
  <2> QED BY <2>1, <2>4, <2>5, SentFacts
<1> QED BY <1>1, <1>2, <1>4, <1>5, WireMoves

-----------------------------------------------------------------------------
(* The stream of events.                                                   *)

(* The types of the streams.                                               *)
LEMMA StreamTypes ==
  ASSUME TypeOK
  PROVE  /\ seen \in Seq(Nat) /\ events \in Seq(Nat) /\ seen \o events \in Seq(Nat)
         /\ rmsg.re \in Nat /\ Received \in Seq(Nat)
<1>1. seen \in Seq(Nat) /\ events \in Seq(Nat) /\ rmsg \in Message
  BY DEF TypeOK, ConnType, ReaderType, HistoryType
<1>2. rmsg.re \in Nat BY <1>1, MessageShape
<1>3. InHand \in Seq(Nat) BY <1>2 DEF InHand
<1> QED BY <1>1, <1>2, <1>3 DEF Received

(* From the reader's hands into c.events, from there to the application:   *)
(* what has been received stays the same, but when the reader takes an     *)
(* event off the wire or gives one up.                                     *)
LEMMA SameReceived ==
  ASSUME TypeOK, [Next]_vars, ~ReadEvent, ~EmitDone
  PROVE  Received' = Received /\ (rst' # "dead" => rst # "dead")
<1>0. seen \in Seq(Nat) /\ events \in Seq(Nat) /\ rmsg.re \in Nat BY StreamTypes
<1> USE DEF connVars, procVars, readerVars, wireVars, reqVars, errVars
<1>1. ASSUME NEW g \in Consumers, RecvEvent(g)
      PROVE  Received' = Received /\ (rst' # "dead" => rst # "dead")
  <2>1. /\ events # <<>> /\ seen' = Append(seen, Head(events)) /\ events' = Tail(events)
        /\ UNCHANGED <<rst, rmsg>>
    BY <1>1 DEF RecvEvent
  <2>2. seen' \o events' = seen \o events BY <1>0, <2>1, ShiftHead
  <2> QED BY <2>1, <2>2 DEF Received, InHand
<1>2. CASE Emit
  <2>1. rst = "emit" /\ rst' = "read" /\ events' = Append(events, rmsg.re) /\ UNCHANGED seen
    BY <1>2 DEF Emit, Push
  <2>2. Received = (seen \o events) \o <<rmsg.re>> BY <2>1 DEF Received, InHand
  <2>3. Received' = (seen \o events') \o << >> BY <2>1 DEF Received, InHand
  <2>4. seen \o events' = Append(seen \o events, rmsg.re) BY <1>0, <2>1, ShiftLast
  <2>5. seen \o events' \in Seq(Nat)
    <3>1. events' \in Seq(Nat) BY <1>0, <2>1
    <3> QED BY <1>0, <3>1
  <2>6. Received' = seen \o events' BY <2>3, <2>5
  <2> QED BY <1>0, <2>1, <2>2, <2>4, <2>6, ShiftLast
<1>3. CASE ReadMatched \/ ReadUnmatched \/ Handoff \/ ReadFail
  <2>1. UNCHANGED <<seen, events>> /\ rst # "emit" /\ rst' # "emit" /\ rst # "dead"
    BY <1>3 DEF ReadMatched, ReadUnmatched, Handoff, ReadFail
  <2> QED BY <2>1 DEF Received, InHand
<1>4. CASE \/ Server \/ UNCHANGED vars
           \/ \E g \in Callers : Send(g) \/ SendReply(g) \/ Write(g) \/ Wake(g)
           \/ \E g \in Closers : Close(g)
           \/ \E g \in Consumers : RecvErr(g)
  <2>1. UNCHANGED <<seen, events, rst, rmsg>>
    <3>1. CASE Server \/ UNCHANGED vars BY <3>1 DEF Server, Serve, SendEvent, HangUp, vars
    <3>2. CASE \E g \in Callers : Send(g) \/ SendReply(g) \/ Write(g) \/ Wake(g)
      BY <3>2 DEF Send, SendReply, Begin, Write, WriteOK, WriteFail, Wake
    <3>3. CASE \/ \E g \in Closers : Close(g)
               \/ \E g \in Consumers : RecvErr(g)
      BY <3>3 DEF Close, CloseCheck, CloseDone, CloseSock, RecvErr
    <3> QED BY <1>4, <3>1, <3>2, <3>3
  <2> QED BY <2>1 DEF Received, InHand
<1> QED BY <1>1, <1>2, <1>3, <1>4 DEF Next, Reader

(* The reader takes the head of the wire into its hands, unless it is a    *)
(* key release.                                                            *)
LEMMA ReadReceives ==
  ASSUME TypeOK, ReadEvent
  PROVE  /\ rst = "read" /\ rst' # "dead" /\ toClient # <<>> /\ toClient' = Tail(toClient)
         /\ ~IsAnswer(Head(toClient)) /\ UNCHANGED evlog
         /\ Received' = IF decodeEvent(Head(toClient))
                        THEN Append(Received, Head(toClient).re) ELSE Received
<1> DEFINE h == Head(toClient)
<1>1. /\ rst = "read" /\ toClient # <<>> /\ toClient' = Tail(toClient)
      /\ ~IsAnswer(Head(toClient)) /\ UNCHANGED <<evlog, seen, events>>
      /\ IF decodeEvent(h) THEN rst' = "emit" /\ rmsg' = h ELSE UNCHANGED <<rst, rmsg>>
  BY DEF ReadEvent, connVars
<1>2. seen \in Seq(Nat) /\ events \in Seq(Nat) /\ seen \o events \in Seq(Nat) BY StreamTypes
<1>3. h \in Message /\ h.re \in Nat
  <2>1. h \in Message BY <1>1, ReadFacts
  <2> QED BY <2>1, MessageShape
<1>4. Received = seen \o events
  <2>1. Received = (seen \o events) \o << >> BY <1>1 DEF Received, InHand
  <2> QED BY <1>2, <2>1
<1>5. CASE decodeEvent(h)
  <2>1. Received' = (seen \o events) \o <<h.re>> BY <1>1, <1>5 DEF Received, InHand
  <2>2. Received' = Append(seen \o events, h.re) BY <1>2, <1>3, <2>1, ShiftLast
  <2> QED BY <1>1, <1>4, <1>5, <2>2
<1>6. CASE ~decodeEvent(h)
  <2>1. Received' = Received BY <1>1, <1>6 DEF Received, InHand
  <2> QED BY <1>1, <1>6, <2>1
<1> QED BY <1>5, <1>6

(* A reader that finds c.done closed gives up the event in its hands.      *)
LEMMA GiveUpLast ==
  ASSUME TypeOK, EmitDone
  PROVE  /\ rst' = "dead" /\ Received = Append(Received', rmsg.re) /\ Received' \in Seq(Nat)
         /\ rmsg.re \in Nat /\ UNCHANGED <<toClient, evlog>>
<1>1. /\ rst = "emit" /\ rst' = "dead" /\ UNCHANGED <<seen, events, toClient, evlog>>
  BY DEF EmitDone, connVars, wireVars
<1>2. seen \in Seq(Nat) /\ events \in Seq(Nat) /\ seen \o events \in Seq(Nat) /\ rmsg.re \in Nat
  BY StreamTypes
<1>3. Received = (seen \o events) \o <<rmsg.re>> BY <1>1 DEF Received, InHand
<1>4. Received' = seen \o events
  <2>1. Received' = (seen \o events) \o << >> BY <1>1 DEF Received, InHand
  <2> QED BY <1>2, <2>1
<1> QED BY <1>1, <1>2, <1>3, <1>4, ShiftLast

(* EventStream, with names for its parts.                                  *)
LEMMA EventStreamIs ==
  EventStream <=> /\ Ordered(Received) /\ Elems(Received) \subseteq Shown
                  /\ rst # "dead" => Elems(Received) = Shown \ OnWire
                  /\ \A m \in Elems(Received), l \in Shown : l < m => l \in Elems(Received)
BY DEF EventStream, Ordered, Elems

(* Every step keeps the stream of events.                                  *)
LEMMA StreamStep ==
  ASSUME TypeOK, OrderInv, EventStream, ServerInv, [Next]_vars
  PROVE  EventStream'
<1> DEFINE Parts == /\ Ordered(Received) /\ Elems(Received) \subseteq Shown
                    /\ rst # "dead" => Elems(Received) = Shown \ OnWire
                    /\ \A m \in Elems(Received), l \in Shown : l < m => l \in Elems(Received)
<1>a. Parts BY EventStreamIs
<1>b. Parts' => EventStream' BY DEF EventStream, Ordered, Elems
<1>0. /\ Received \in Seq(Nat) /\ Elems(Received) \subseteq Nat
      /\ Shown \subseteq DOMAIN evlog /\ DOMAIN evlog \subseteq Nat /\ served \in Nat
  <2>1. Received \in Seq(Nat) BY StreamTypes
  <2>2. DOMAIN evlog \subseteq Nat BY DEF TypeOK, HistoryType
  <2> QED BY <2>1, <2>2 DEF Elems, Shown, TypeOK, WireType
<1>s. SUFFICES Parts' BY <1>b
<1>1. CASE ReadEvent
  <2> DEFINE h == Head(toClient)
  <2>1. /\ rst = "read" /\ rst' # "dead" /\ toClient # <<>> /\ toClient' = Tail(toClient)
        /\ ~IsAnswer(h) /\ UNCHANGED evlog
        /\ Received' = IF decodeEvent(h) THEN Append(Received, h.re) ELSE Received
    BY <1>1, ReadReceives
  <2>2. Shown' = Shown BY <2>1 DEF Shown
  <2>3. OnWire' = OnWire \ {h.re} BY <2>1, OnWireRead
  <2>4. /\ 1 \in DOMAIN toClient /\ h = toClient[1]
        /\ h.re \in DOMAIN evlog /\ h.kind = evlog[h.re].kind /\ h.re \in OnWire
        /\ \A l \in DOMAIN evlog : l > h.re => l \in OnWire
    <3>1. 1 \in DOMAIN toClient /\ h = toClient[1] BY <2>1, ReadFacts
    <3> QED BY <2>1, <3>1, OnWireIs DEF OrderInv
  <2>5. Elems(Received) = Shown \ OnWire BY <1>a, <2>1
  <2>6. evlog[h.re].kind \in {"event", "release"}
    <3>1. evlog \in Seq([kind : {"event", "release"}, at : Nat]) BY DEF TypeOK, HistoryType
    <3>2. \A l \in DOMAIN evlog : evlog[l] \in [kind : {"event", "release"}, at : Nat]
      BY <3>1, EntryOf, Zenon
    <3>3. \A l \in DOMAIN evlog : evlog[l].kind \in {"event", "release"} BY <3>2
    <3> QED BY <2>4, <3>3
  <2> HIDE DEF h
  <2>7. CASE decodeEvent(h)
    <3>1. h.re \in Shown BY <2>4, <2>6, <2>7 DEF Shown, decodeEvent
    <3>2. \A m \in Elems(Received) : m < h.re
      <4> SUFFICES ASSUME NEW m \in Elems(Received) PROVE m < h.re OBVIOUS
      <4>1. m \in DOMAIN evlog /\ m \notin OnWire /\ m \in Nat /\ h.re \in Nat
        BY <1>0, <2>4, <2>5
      <4> QED BY <2>4, <4>1
    <3>3. /\ Elems(Received') = Elems(Received) \cup {h.re}
          /\ Ordered(Received')
      BY <1>a, <1>0, <2>1, <2>4, <2>7, <3>2, AppendElems
    <3>4. Elems(Received') = Shown \ OnWire' BY <2>3, <2>5, <3>1, <3>3
    <3>5. ASSUME NEW m \in Elems(Received'), NEW l \in Shown, l < m
          PROVE  l \in Elems(Received')
      <4>1. CASE m \in Elems(Received) BY <1>a, <3>3, <3>5, <4>1
      <4>2. CASE m = h.re
        <5>1. l \notin OnWire
          <6> SUFFICES ASSUME l \in OnWire PROVE FALSE OBVIOUS
          <6>1. PICK i \in DOMAIN toClient : ~IsAnswer(toClient[i]) /\ toClient[i].re = l
            BY OnWireIs
          <6>2. i = 1 \/ i > 1 BY <2>1, ReadFacts
          <6>3. i > 1 => h.re < l BY <2>1, <2>4, <6>1 DEF OrderInv
          <6>4. l \in Nat /\ h.re \in Nat BY <1>0, <2>4
          <6> QED BY <2>4, <3>5, <4>2, <6>1, <6>2, <6>3, <6>4
        <5> QED BY <2>5, <3>3, <5>1
      <4> QED BY <3>3, <3>5, <4>1, <4>2
    <3> QED BY <2>1, <2>2, <3>1, <3>3, <3>4, <3>5, <1>a DEF Ordered, Elems
  <2>8. CASE ~decodeEvent(h)
    <3>1. h.re \notin Shown BY <2>4, <2>8 DEF Shown, decodeEvent
    <3>2. Received' = Received BY <2>1, <2>8
    <3>3. Shown \ OnWire' = Shown \ OnWire BY <2>3, <3>1
    <3> QED BY <1>a, <2>1, <2>2, <3>2, <3>3 DEF Ordered, Elems
  <2> QED BY <2>7, <2>8
<1>2. CASE EmitDone
  <2>1. /\ rst' = "dead" /\ Received = Append(Received', rmsg.re) /\ Received' \in Seq(Nat)
        /\ rmsg.re \in Nat /\ UNCHANGED <<toClient, evlog>>
    BY <1>2, GiveUpLast
  <2>2. Shown' = Shown BY <2>1 DEF Shown
  <2> DEFINE q == Received'
  <2>3. /\ Len(q) \in Nat /\ Len(q) + 1 \in DOMAIN Received /\ Received[Len(q) + 1] = rmsg.re
        /\ \A i \in DOMAIN q : i \in Nat /\ i <= Len(q) /\ i \in DOMAIN Received /\ Received[i] = q[i]
    <3>1. \A i \in DOMAIN q : i <= Len(q) BY <2>1
    <3> QED BY <2>1, <3>1, AppendFacts
  <2>4. Elems(Received) = Elems(q) \cup {rmsg.re} BY <2>1, AppendElems
  <2>5. Ordered(q) BY <1>a, <2>3 DEF Ordered
  <2>6. \A m \in Elems(q) : m < rmsg.re
    <3>1. \A i \in DOMAIN q : i < Len(q) + 1 BY <2>3
    <3> QED BY <1>a, <2>3, <3>1 DEF Ordered, Elems
  <2>7. ASSUME NEW m \in Elems(q), NEW l \in Shown, l < m
        PROVE  l \in Elems(q)
    <3>1. l \in Elems(Received) BY <1>a, <2>4, <2>7
    <3>2. l # rmsg.re
      <4>1. m \in Nat /\ l \in Nat BY <1>0, <2>4
      <4> QED BY <2>1, <2>6, <2>7, <4>1
    <3> QED BY <2>4, <3>1, <3>2
  <2>8. Elems(q) \subseteq Shown BY <1>a, <2>4
  <2> HIDE DEF q
  <2>9. Received' = q BY DEF q
  <2> QED BY <2>1, <2>2, <2>5, <2>7, <2>8, <2>9 DEF Ordered, Elems
<1>3. CASE ~ReadEvent /\ ~EmitDone
  <2>1. Received' = Received /\ (rst' # "dead" => rst # "dead") BY <1>3, SameReceived
  <2>2. CASE UNCHANGED <<toClient, evlog>>
    <3>1. Shown' = Shown /\ OnWire' = OnWire BY <2>2 DEF Shown, OnWire, IsAnswer
    <3> QED BY <1>a, <2>1, <3>1 DEF Ordered, Elems
  <2>3. CASE Reading /\ toClient # <<>> /\ toClient' = Tail(toClient) /\ UNCHANGED evlog
    <3>1. IsAnswer(Head(toClient)) BY <1>3, <2>3 DEF Reading, ReadMatched, ReadUnmatched
    <3>2. OnWire' = OnWire BY <2>3, <3>1, OnWireRead
    <3>3. Shown' = Shown BY <2>3 DEF Shown
    <3> QED BY <1>a, <2>1, <3>2, <3>3 DEF Ordered, Elems
  <2>4. CASE Serve
    <3>1. PICK v \in {"none", "reply", "error"}, x \in Message :
            /\ IsAnswer(x) /\ UNCHANGED evlog
            /\ toClient' = IF v = "none" THEN toClient ELSE Append(toClient, x)
      BY <2>4, ServeFacts
    <3>2. CASE v = "none" BY <2>2, <3>1, <3>2
    <3>3. CASE v # "none"
      <4>1. OnWire' = OnWire BY <3>1, <3>3, OnWireSent
      <4>2. Shown' = Shown BY <3>1 DEF Shown
      <4> QED BY <1>a, <2>1, <4>1, <4>2 DEF Ordered, Elems
    <3> QED BY <3>2, <3>3
  <2>5. CASE SendEvent
    <3>1. PICK x \in Message :
            /\ ~IsAnswer(x) /\ x.re = Len(evlog) + 1 /\ x.kind \in {"event", "release"}
            /\ toClient' = Append(toClient, x)
            /\ evlog' = Append(evlog, [kind |-> x.kind, at |-> served])
      BY <2>5, EventFacts
    <3>2. /\ Len(evlog) \in Nat /\ evlog'[x.re].kind = x.kind
          /\ DOMAIN evlog' = DOMAIN evlog \cup {x.re} /\ x.re \notin DOMAIN evlog
          /\ \A l \in DOMAIN evlog : l \in Nat /\ l < x.re /\ evlog'[l] = evlog[l]
      BY <1>0, <3>1, LogFacts
    <3>3. OnWire' = OnWire \cup {x.re} BY <3>1, OnWireSent
    <3>4. Shown \subseteq Shown' /\ Shown' \subseteq Shown \cup {x.re} BY <3>2 DEF Shown
    <3>5. x.re \notin Shown BY <3>2 DEF Shown
    <3>6. Shown' \ OnWire' = Shown \ OnWire BY <3>3, <3>4, <3>5
    <3>7. ASSUME NEW m \in Elems(Received), NEW l \in Shown', l < m
          PROVE  l \in Elems(Received)
      <4>1. m < x.re /\ m \in Nat /\ x.re \in Nat BY <1>a, <1>0, <3>1, <3>2
      <4>2. l # x.re BY <3>7, <4>1
      <4> QED BY <1>a, <3>4, <3>7, <4>2
    <3> QED BY <1>a, <2>1, <3>4, <3>6, <3>7 DEF Ordered, Elems
  <2> QED BY <2>2, <2>3, <2>4, <2>5, WireMoves
<1> QED BY <1>1, <1>2, <1>3

-----------------------------------------------------------------------------
(* The barrier: events first, then the answer.                             *)

(* What an event says of its place in the log.                             *)
LEMMA EntryKept ==
  ASSUME TypeOK, ServerInv, [Next]_vars
  PROVE  /\ \A l \in DOMAIN evlog : l \in DOMAIN evlog' /\ evlog'[l] = evlog[l]
         /\ \A l \in DOMAIN evlog' : l \in DOMAIN evlog \/ (evlog'[l].at = served /\ SendEvent)
<1>0. served \in Nat BY DEF TypeOK, WireType
<1>1. CASE UNCHANGED evlog BY <1>1
<1>2. CASE SendEvent
  <2>1. PICK x \in Message :
          /\ x.re = Len(evlog) + 1 /\ x.kind \in {"event", "release"}
          /\ evlog' = Append(evlog, [kind |-> x.kind, at |-> served])
    BY <1>2, EventFacts
  <2> QED BY <1>0, <1>2, <2>1, LogFacts
<1>3. Serve => UNCHANGED evlog BY ServeFacts
<1> QED BY <1>1, <1>2, <1>3, WireMoves

(* What was delivered stays so.                                            *)
LEMMA DeliveredStays ==
  ASSUME TypeOK, [Next]_vars, NEW l, Delivered(l)
  PROVE  Delivered(l)'
<1>0. seen \in Seq(Nat) /\ events \in Seq(Nat) /\ rmsg.re \in Nat /\ seen \o events \in Seq(Nat)
  BY StreamTypes
<1> USE DEF connVars, procVars, readerVars, wireVars, reqVars, errVars
<1>1. ASSUME NEW g \in Consumers, RecvEvent(g) PROVE Delivered(l)'
  <2>1. events # <<>> /\ seen' = Append(seen, Head(events)) /\ events' = Tail(events)
    BY <1>1 DEF RecvEvent
  <2>2. seen' \o events' = seen \o events BY <1>0, <2>1, ShiftHead
  <2> QED BY <2>2 DEF Delivered
<1>2. CASE Emit
  <2>1. events' = Append(events, rmsg.re) /\ UNCHANGED seen BY <1>2 DEF Emit, Push
  <2>2. seen' \o events' = Append(seen \o events, rmsg.re) BY <1>0, <2>1, ShiftLast
  <2>3. \A i \in DOMAIN (seen \o events) :
          i \in DOMAIN (seen' \o events') /\ (seen' \o events')[i] = (seen \o events)[i]
    BY <1>0, <2>2, AppendFacts
  <2> QED BY <2>3 DEF Delivered
<1>3. CASE ReadMatched \/ ReadUnmatched \/ Handoff \/ ReadFail \/ ReadEvent \/ EmitDone
  BY <1>3 DEF ReadMatched, ReadUnmatched, Handoff, ReadFail, ReadEvent, EmitDone, Delivered
<1>4. CASE Server \/ UNCHANGED vars
  BY <1>4 DEF Server, Serve, SendEvent, HangUp, vars, Delivered
<1>5. CASE \E g \in Callers : Send(g) \/ SendReply(g) \/ Write(g) \/ Wake(g)
  BY <1>5 DEF Send, SendReply, Begin, Write, WriteOK, WriteFail, Wake, Delivered
<1>6. CASE \/ \E g \in Closers : Close(g)
           \/ \E g \in Consumers : RecvErr(g)
  BY <1>6 DEF Close, CloseCheck, CloseDone, CloseSock, RecvErr, Delivered
<1> QED BY <1>1, <1>2, <1>3, <1>4, <1>5, <1>6 DEF Next, Reader

(* Every step keeps an answer on the wire behind the events before it.     *)
LEMMA WireBarrierStep ==
  ASSUME TypeOK, ServerInv, ClientInv, OrderInv, WireBarrier, [Next]_vars
  PROVE  WireBarrier'
<1>0. toClient \in Seq(Message) /\ served \in Nat BY DEF TypeOK, WireType
<1>k. \A l \in DOMAIN evlog : evlog'[l] = evlog[l] BY EntryKept
<1>1. CASE UNCHANGED <<toClient, evlog>> BY <1>1 DEF WireBarrier, IsAnswer
<1>2. CASE toClient # <<>> /\ toClient' = Tail(toClient) /\ UNCHANGED evlog
  <2> SUFFICES ASSUME NEW i \in DOMAIN toClient', NEW j \in DOMAIN toClient',
                      ~IsAnswer(toClient'[i]), IsAnswer(toClient'[j]),
                      evlog[toClient'[i].re].at < toClient'[j].re
               PROVE  i < j
    BY <1>2 DEF WireBarrier, IsAnswer
  <2>1. /\ i \in Nat /\ i + 1 \in DOMAIN toClient /\ toClient'[i] = toClient[i + 1]
        /\ j \in Nat /\ j + 1 \in DOMAIN toClient /\ toClient'[j] = toClient[j + 1]
    BY <1>2, ReadFacts
  <2>2. i + 1 < j + 1 BY <2>1 DEF WireBarrier
  <2> QED BY <2>1, <2>2
<1>3. ASSUME NEW x \in Message, toClient' = Append(toClient, x),
             ~IsAnswer(x) => x.re \in DOMAIN evlog' /\ evlog'[x.re].at = served
      PROVE  WireBarrier'
  <2> SUFFICES ASSUME NEW i \in DOMAIN toClient', NEW j \in DOMAIN toClient',
                      ~IsAnswer(toClient'[i]), IsAnswer(toClient'[j]),
                      evlog'[toClient'[i].re].at < toClient'[j].re
               PROVE  i < j
    BY DEF WireBarrier, IsAnswer
  <2>1. CASE i \in DOMAIN toClient /\ toClient'[i] = toClient[i]
    <3>1. toClient[i].re \in DOMAIN evlog BY <2>1 DEF OrderInv
    <3>2. CASE j \in DOMAIN toClient /\ toClient'[j] = toClient[j]
      BY <1>k, <2>1, <3>1, <3>2 DEF WireBarrier
    <3>3. CASE j = Len(toClient) + 1 BY <1>0, <2>1, <3>3
    <3> QED BY <1>3, <3>2, <3>3, SentFacts
  <2>2. CASE i = Len(toClient) + 1
    <3>1. toClient'[i] = x /\ evlog'[x.re].at = served BY <1>3, <2>2, SentFacts
    <3>2. j \in DOMAIN toClient /\ toClient'[j] = toClient[j]
      BY <1>3, <2>2, <3>1, SentFacts
    <3>3. toClient[j].re <= served BY <3>2 DEF ClientInv
    <3>4. toClient[j].re \in Nat
      <4>1. toClient[j] \in Message BY <1>0, <3>2
      <4> QED BY <4>1, MessageShape
    <3> QED BY <1>0, <3>1, <3>2, <3>3, <3>4
  <2> QED BY <1>3, <2>1, <2>2, SentFacts
<1>4. CASE Serve
  <2>1. PICK v \in {"none", "reply", "error"}, x \in Message :
          /\ IsAnswer(x) /\ UNCHANGED evlog
          /\ toClient' = IF v = "none" THEN toClient ELSE Append(toClient, x)
    BY <1>4, ServeFacts
  <2> QED BY <1>1, <1>3, <2>1
<1>5. CASE SendEvent
  <2>1. PICK x \in Message :
          /\ ~IsAnswer(x) /\ x.re = Len(evlog) + 1 /\ x.kind \in {"event", "release"}
          /\ toClient' = Append(toClient, x)
          /\ evlog' = Append(evlog, [kind |-> x.kind, at |-> served])
    BY <1>5, EventFacts
  <2>2. x.re \in DOMAIN evlog' /\ evlog'[x.re].at = served BY <1>0, <2>1, LogFacts
  <2> QED BY <1>3, <2>1, <2>2
<1> QED BY <1>1, <1>2, <1>4, <1>5, WireMoves

(* Every step keeps an answer that has arrived behind the events before    *)
(* it: the reader takes it when it has none of them left to read.          *)
LEMMA CallBarrierStep ==
  ASSUME TypeOK, MutexInv, HandInv, ServerInv, ClientInv, CallInv, OrderInv, EventStream,
         WireBarrier, CallBarrier, [Next]_vars
  PROVE  CallBarrier'
<1> SUFFICES ASSUME NEW r \in Arrived', NEW l \in Shown', evlog'[l].at < r
             PROVE  Delivered(l)'
  BY DEF CallBarrier, Delivered
<1>0. r \in Nat /\ served \in Nat BY DEF Arrived, TypeOK, WireType
<1>1. CASE r \in Arrived
  <2>1. r <= served BY <1>1 DEF CallInv
  <2>2. l \in DOMAIN evlog' BY DEF Shown
  <2>3. l \in DOMAIN evlog /\ evlog'[l] = evlog[l]
    <3>1. ~(evlog'[l].at = served) BY <1>0, <2>1
    <3> QED BY <2>2, <3>1, EntryKept
  <2>4. l \in Shown BY <2>3 DEF Shown
  <2>5. Delivered(l) BY <1>1, <2>3, <2>4 DEF CallBarrier
  <2> QED BY <2>5, DeliveredStays
<1>2. CASE r \notin Arrived
  <2>1. ReadMatched BY <1>2, ArrivedMove
  <2>2. r = Head(toClient).re BY <1>2, <2>1, ArrivedRead
  <2>3. /\ toClient # <<>> /\ IsAnswer(Head(toClient)) /\ rst = "read"
        /\ toClient' = Tail(toClient) /\ UNCHANGED evlog
    BY <2>1 DEF ReadMatched
  <2>4. 1 \in DOMAIN toClient /\ Head(toClient) = toClient[1] BY <2>3, ReadFacts
  <2>5. l \in Shown /\ evlog[l].at < r BY <2>3 DEF Shown
  <2>6. l \notin OnWire
    <3> SUFFICES ASSUME NEW i \in DOMAIN toClient, ~IsAnswer(toClient[i]), toClient[i].re = l
                 PROVE  FALSE
      BY OnWireIs
    <3>1. i < 1 BY <2>2, <2>3, <2>4, <2>5 DEF WireBarrier
    <3> QED BY <2>3, <3>1, ReadFacts
  <2>7. l \in Elems(Received) BY <2>3, <2>5, <2>6, EventStreamIs
  <2>8. Received = seen \o events
    <3>1. Received = (seen \o events) \o << >> BY <2>3 DEF Received, InHand
    <3> QED BY <3>1, StreamTypes
  <2>9. Delivered(l) BY <2>7, <2>8 DEF Elems, Delivered
  <2> QED BY <2>9, DeliveredStays
<1> QED BY <1>1, <1>2

-----------------------------------------------------------------------------
(* The barrier: errors first, then the answer.                             *)

(* Every step keeps what an old request was.                               *)
LEMMA OldOps ==
  ASSUME TypeOK, NumberInv, [Next]_vars
  PROVE  \A n \in Calls : n <= issued => op'[n] = op[n]
<1>0. op \in [Calls -> {"none", "void", "reply"}] /\ issued \in Nat
  BY DEF TypeOK, HistoryType
<1>1. ASSUME NEW g \in Callers, Send(g) \/ SendReply(g)
      PROVE  \A n \in Calls : n <= issued => op'[n] = op[n]
  <2>1. \E kind : op' = [op EXCEPT ![issued + 1] = kind] BY <1>1, BeginFacts
  <2> QED BY <1>0, <2>1 DEF Calls
<1>2. CASE \/ \E g \in Callers : Write(g) \/ Wake(g)
           \/ \E g \in Closers : Close(g)
  BY <1>2 DEF Write, WriteOK, WriteFail, Wake, Close, CloseCheck, CloseDone, CloseSock, reqVars
<1>3. CASE \/ Reader \/ Server \/ UNCHANGED vars
           \/ \E g \in Consumers : RecvEvent(g) \/ RecvErr(g)
  BY <1>3, StillFacts DEF reqVars
<1> QED BY <1>1, <1>2, <1>3 DEF Next

(* An error that has reached c.errs, or found it full, stays so.           *)
LEMMA SettledStays ==
  ASSUME [Next]_vars, NEW n, Settled(n)
  PROVE  Settled(n)'
<1> USE DEF connVars, procVars, readerVars, wireVars, reqVars, errVars
<1>0. ASSUME NEW e, PushErr(e) PROVE Settled(n)' BY <1>0 DEF PushErr, Settled
<1>1. ASSUME NEW g \in Callers, WriteFail(g) PROVE Settled(n)'
  BY <1>0, <1>1 DEF WriteFail, Settled
<1>2. CASE ReadUnmatched BY <1>0, <1>2 DEF ReadUnmatched, Surface, Settled
<1>3. CASE ReadFail BY <1>0, <1>3 DEF ReadFail
<1>4. CASE ReadMatched \/ Handoff \/ ReadEvent \/ Emit \/ EmitDone \/ Server \/ UNCHANGED vars
  BY <1>4 DEF ReadMatched, Handoff, ReadEvent, Emit, EmitDone, Server, Serve, SendEvent, HangUp,
              vars, Settled
<1>5. CASE \E g \in Callers : Send(g) \/ SendReply(g) \/ WriteOK(g) \/ Wake(g)
  BY <1>5 DEF Send, SendReply, Begin, WriteOK, Wake, Settled
<1>6. CASE \/ \E g \in Closers : Close(g)
           \/ \E g \in Consumers : RecvEvent(g) \/ RecvErr(g)
  BY <1>6 DEF Close, CloseCheck, CloseDone, CloseSock, RecvEvent, RecvErr, Settled
<1> QED BY <1>1, <1>2, <1>3, <1>4, <1>5, <1>6 DEF Next, Write, Reader

(* Every step keeps the errors on the wire those the server raised.        *)
LEMMA RaisedStep ==
  ASSUME TypeOK, ServerInv, ClientInv, ErrorInv, [Next]_vars
  PROVE  /\ \A n \in raised' : n <= served'
         /\ \A i \in DOMAIN toClient' : IsAnswer(toClient'[i]) =>
              (toClient'[i].kind = "error" <=> toClient'[i].re \in raised')
<1>0. /\ toClient \in Seq(Message) /\ served \in Nat /\ raised \subseteq Calls /\ Calls \subseteq Nat
      /\ \A n \in raised : n <= served
      /\ \A i \in DOMAIN toClient : IsAnswer(toClient[i]) =>
           (toClient[i].kind = "error" <=> toClient[i].re \in raised)
  BY DEF TypeOK, WireType, HistoryType, ErrorInv, Calls
<1>1. CASE UNCHANGED <<toClient, raised, served>> BY <1>0, <1>1
<1>2. CASE toClient # <<>> /\ toClient' = Tail(toClient) /\ UNCHANGED <<raised, served>>
  BY <1>0, <1>2, ReadFacts
<1>3. CASE Serve
  <2>1. PICK v \in {"none", "reply", "error"}, x \in Message :
          /\ IsAnswer(x) /\ x.re = served + 1 /\ (v # "none" => x.kind = v)
          /\ toClient' = IF v = "none" THEN toClient ELSE Append(toClient, x)
          /\ raised' = IF v = "error" THEN raised \cup {served + 1} ELSE raised
    BY <1>3, ServeFacts
  <2>2. served' = served + 1 /\ served + 1 \in Calls BY <1>3, ServeFacts
  <2>3. \A n \in raised' : n <= served' BY <1>0, <2>1, <2>2
  <2>4. ASSUME NEW i \in DOMAIN toClient, IsAnswer(toClient[i])
        PROVE  toClient[i].kind = "error" <=> toClient[i].re \in raised'
    <3>1. toClient[i].re <= served BY <2>4 DEF ClientInv
    <3>2. toClient[i].re \in Nat
      <4>1. toClient[i] \in Message BY <1>0
      <4> QED BY <4>1, MessageShape
    <3>3. toClient[i].re # served + 1 BY <1>0, <3>1, <3>2
    <3> QED BY <1>0, <2>1, <2>4, <3>3
  <2>5. CASE v = "none" BY <2>1, <2>3, <2>4, <2>5
  <2>6. CASE v # "none"
    <3>1. served + 1 \notin raised BY <1>0
    <3>2. x.kind = "error" <=> x.re \in raised' BY <2>1, <2>6, <3>1
    <3> QED BY <2>1, <2>3, <2>4, <2>6, <3>2, SentFacts
  <2> QED BY <2>5, <2>6
<1>4. CASE SendEvent
  <2>1. PICK x \in Message : ~IsAnswer(x) /\ toClient' = Append(toClient, x)
    BY <1>4, EventFacts
  <2>2. UNCHANGED <<raised, served>> BY <1>4, EventFacts
  <2> QED BY <1>0, <2>1, <2>2, SentFacts
<1> QED BY <1>1, <1>2, <1>3, <1>4, WireMoves

OnItsWay(n) == \E i \in DOMAIN toClient : IsAnswer(toClient[i]) /\ toClient[i].re = n

(* Every step keeps the errors of void requests on the wire or settled:    *)
(* the reader finds nobody waiting for them.                               *)
LEMMA VoidErrorStep ==
  ASSUME IInv, ErrorInv, [Next]_vars, ~overrun
  PROVE  \A n \in raised' : op'[n] = "void" => Settled(n)' \/ OnItsWay(n)'
<1> SUFFICES ASSUME NEW n \in raised', op'[n] = "void", ~Settled(n)' PROVE OnItsWay(n)'
  OBVIOUS
<1>i. /\ TypeOK /\ NumberInv /\ ServerInv /\ ClientInv /\ WindowInv
  BY DEF IInv
<1>0. /\ toClient \in Seq(Message) /\ served \in Nat /\ issued \in Nat /\ served <= issued
      /\ Len(toServer) \in Nat /\ raised \subseteq Calls /\ Calls \subseteq Nat
  BY <1>i DEF TypeOK, WireType, HistoryType, ServerInv, Calls
<1>1. ASSUME n \in raised PROVE OnItsWay(n)'
  <2>1. n \in Calls /\ n <= issued
    <3>1. n \in Calls /\ n \in Nat BY <1>0, <1>1
    <3>2. n <= served BY <1>1 DEF ErrorInv
    <3> QED BY <1>0, <3>1, <3>2
  <2>2. op[n] = "void" BY <1>i, <2>1, OldOps
  <2>3. ~Settled(n) BY SettledStays
  <2>4. PICK i \in DOMAIN toClient : IsAnswer(toClient[i]) /\ toClient[i].re = n
    BY <1>1, <2>2, <2>3 DEF ErrorInv
  <2>5. CASE UNCHANGED toClient BY <2>4, <2>5 DEF OnItsWay, IsAnswer
  <2>6. ASSUME Reading, toClient # <<>>, toClient' = Tail(toClient)
        PROVE  OnItsWay(n)'
    <3>1. i # 1
      <4> SUFFICES ASSUME i = 1 PROVE FALSE OBVIOUS
      <4>1. Head(toClient) = toClient[i] /\ toClient[i] \in Message BY <1>i, <2>6, ReadFacts
      <4>2. toClient[i].seq = n % SeqMod /\ n \in InFlight BY <2>4, InFlightIs DEF ClientInv, IInv
      <4>3. pend[n % SeqMod] = 0 BY <1>i, <2>2, <4>2 DEF WindowInv, Wanted
      <4>4. ReadUnmatched
        BY <2>4, <2>6, <4>1, <4>2, <4>3 DEF Reading, ReadMatched, ReadEvent
      <4>5. toClient[i].kind = "error" BY <1>1, <2>4 DEF ErrorInv
      <4>6. PushErr(n) BY <2>4, <4>1, <4>4, <4>5 DEF ReadUnmatched, Surface
      <4>7. n # 0 BY <2>1 DEF Calls
      <4> QED BY <4>6, <4>7 DEF PushErr, Settled
    <3>2. i - 1 \in DOMAIN toClient' /\ toClient'[i - 1] = toClient[i]
      BY <1>i, <2>6, <3>1, ReadFacts
    <3> QED BY <2>4, <3>2 DEF OnItsWay, IsAnswer
  <2>7. ASSUME NEW x \in Message, toClient' = Append(toClient, x) PROVE OnItsWay(n)'
    BY <1>i, <2>4, <2>7, SentFacts DEF OnItsWay, IsAnswer
  <2>8. CASE Serve BY <1>i, <2>5, <2>7, <2>8, ServeFacts
  <2>9. CASE SendEvent BY <1>i, <2>7, <2>9, EventFacts
  <2> QED BY <2>5, <2>6, <2>8, <2>9, WireMoves
<1>2. ASSUME n \notin raised PROVE OnItsWay(n)'
  <2>1. Serve BY <1>2, <1>i, EventFacts, WireMoves
  <2>2. PICK v \in {"none", "reply", "error"}, x \in Message :
          /\ IsAnswer(x) /\ x.re = served + 1
          /\ raised' = IF v = "error" THEN raised \cup {served + 1} ELSE raised
          /\ v = "error" => toClient' = Append(toClient, x)
    BY <1>i, <2>1, ServeFacts
  <2>3. n = x.re /\ toClient' = Append(toClient, x) BY <1>2, <2>2
  <2> QED BY <1>i, <2>2, <2>3, SentFacts DEF OnItsWay, IsAnswer
<1> QED BY <1>1, <1>2

(* Every step keeps an answer that has arrived behind the errors of the    *)
(* requests before it.                                                     *)
LEMMA ErrorBarrierStep ==
  ASSUME IInv, CallInv, ErrorInv, [Next]_vars, ~overrun
  PROVE  \A n \in raised' : op'[n] = "void" => \A r \in Arrived' : n < r => Settled(n)'
<1> SUFFICES ASSUME NEW n \in raised', op'[n] = "void", NEW r \in Arrived', n < r
             PROVE  Settled(n)'
  OBVIOUS
<1>i. TypeOK /\ MutexInv /\ HandInv /\ NumberInv /\ ServerInv /\ ClientInv BY DEF IInv
<1>0. /\ toClient \in Seq(Message) /\ served \in Nat /\ issued \in Nat /\ served <= issued
      /\ Len(toServer) \in Nat /\ raised \subseteq Calls /\ Calls \subseteq Nat /\ r \in Nat
  BY <1>i DEF TypeOK, WireType, HistoryType, ServerInv, Calls, Arrived
<1>1. n \in raised
  <2> SUFFICES ASSUME n \notin raised PROVE FALSE OBVIOUS
  <2>1. Serve BY <1>i, EventFacts, WireMoves
  <2>2. n = served + 1 BY <1>i, <2>1, ServeFacts
  <2>3. r \in Arrived BY <1>i, <2>1, ArrivedMove DEF Serve, ReadMatched, wireVars, readerVars
  <2>4. r <= served BY <2>3 DEF CallInv
  <2> QED BY <1>0, <2>2, <2>4
<1>2. n \in Calls /\ n \in Nat /\ n <= issued
  <2>1. n \in Calls /\ n \in Nat BY <1>0, <1>1
  <2>2. n <= served BY <1>1 DEF ErrorInv
  <2> QED BY <1>0, <2>1, <2>2
<1>3. op[n] = "void" BY <1>i, <1>2, OldOps
<1>4. CASE r \in Arrived
  <2>1. Settled(n) BY <1>1, <1>3, <1>4 DEF ErrorInv
  <2> QED BY <2>1, SettledStays
<1>5. CASE r \notin Arrived
  <2>1. ReadMatched /\ r = Head(toClient).re BY <1>i, <1>5, ArrivedMove, ArrivedRead
  <2>2. toClient # <<>> /\ IsAnswer(Head(toClient)) /\ toClient' = Tail(toClient)
    BY <2>1 DEF ReadMatched
  <2>3. 1 \in DOMAIN toClient /\ Head(toClient) = toClient[1] BY <1>i, <2>2, ReadFacts
  <2>4. ASSUME NEW i \in DOMAIN toClient, IsAnswer(toClient[i]), toClient[i].re = n
        PROVE  FALSE
    <3>1. i = 1 \/ i > 1 BY <1>i, <2>2, ReadFacts
    <3>2. i > 1 => r < n BY <1>i, <2>1, <2>2, <2>3, <2>4 DEF ClientInv
    <3>3. i = 1 => r = n BY <2>1, <2>3, <2>4
    <3> QED BY <1>0, <1>2, <3>1, <3>2, <3>3
  <2>5. Settled(n) BY <1>1, <1>3, <2>4 DEF ErrorInv
  <2> QED BY <2>5, SettledStays
<1> QED BY <1>4, <1>5

-----------------------------------------------------------------------------
(* The second invariant.                                                   *)

(* It holds where Dial returns.                                            *)
LEMMA StreamsInit == Init => JInv
<1> SUFFICES ASSUME Init PROVE JInv OBVIOUS
<1>1. Arrived = {} BY DEF Init, Arrived, Unanswered, Answered, NoAnswer
<1>2. Received = << >> /\ Shown = {} BY DEF Init, Received, InHand, Shown
<1>3. EventStream BY <1>2 DEF EventStream, OnWire, Init
<1>4. OrderInv /\ WireBarrier BY DEF Init, OrderInv, WireBarrier
<1>5. CallBarrier BY <1>1 DEF CallBarrier
<1>6. ErrorInv BY <1>1 DEF Init, ErrorInv
<1> QED BY <1>3, <1>4, <1>5, <1>6, CallInit DEF JInv, StreamInv, BarrierInv

(* Every step preserves it.                                                *)
LEMMA StreamsStep == IInv /\ JInv /\ [Next]_vars => JInv'
<1> SUFFICES ASSUME IInv, JInv, [Next]_vars PROVE JInv' OBVIOUS
<1>0. /\ TypeOK /\ MutexInv /\ NumberInv /\ HandInv /\ ServerInv /\ ClientInv
      /\ CallInv /\ OrderInv /\ EventStream /\ WireBarrier /\ CallBarrier /\ ErrorInv
  BY DEF IInv, JInv, StreamInv, BarrierInv
<1>1. CallInv' BY <1>0, CallStep
<1>2. OrderInv' BY <1>0, OrderStep
<1>3. EventStream' BY <1>0, StreamStep
<1>4. WireBarrier' /\ CallBarrier' BY <1>0, WireBarrierStep, CallBarrierStep
<1>5. ErrorInv'
  <2>1. /\ \A n \in raised' : n <= served'
        /\ \A i \in DOMAIN toClient' : IsAnswer(toClient'[i]) =>
             (toClient'[i].kind = "error" <=> toClient'[i].re \in raised')
    BY <1>0, RaisedStep
  <2>2. ~overrun' => ~overrun BY <1>0, OverrunStays
  <2>3. ~overrun' => \A n \in raised' : op'[n] = "void" => Settled(n)' \/ OnItsWay(n)'
    BY <1>0, <2>2, VoidErrorStep
  <2>4. ~overrun' =>
          \A n \in raised' : op'[n] = "void" => \A r \in Arrived' : n < r => Settled(n)'
    BY <1>0, <2>2, ErrorBarrierStep
  <2> QED BY <2>1, <2>3, <2>4 DEF ErrorInv, OnItsWay, IsAnswer
<1> QED BY <1>1, <1>2, <1>3, <1>4, <1>5 DEF JInv, StreamInv, BarrierInv

(* The streams and the calls stay as JInv says, for any goroutines, buffer *)
(* sizes, wire and sequence-number width.                                  *)
THEOREM Streams == Spec => []JInv
<1>1. Init => IInv /\ JInv BY InvInit, StreamsInit
<1>2. (IInv /\ JInv) /\ [Next]_vars => (IInv /\ JInv)' BY InvStep, StreamsStep
<1> QED BY <1>1, <1>2, PTL DEF Spec

(* The application receives the server's events in their order, none lost  *)
(* and none twice, whatever readers, writers, consumers and Close do.      *)
THEOREM EventsInOrder == Spec => []EventStream
<1>1. JInv => EventStream BY DEF JInv, StreamInv
<1> QED BY <1>1, Streams, PTL

(* When SendReply returns, all the server said before its answer has been  *)
(* delivered: the events, and the errors of earlier requests.              *)
THEOREM RoundTripIsBarrier == Spec => []ReplyBarrier
<1>1. IInv /\ JInv => ReplyBarrier
  <2> SUFFICES ASSUME IInv, JInv, NEW n \in Calls, Answered(n)
               PROVE  /\ \A i \in DOMAIN evlog : evlog[i].kind = "event" /\ evlog[i].at < ret[n].re =>
                           \E k \in DOMAIN (seen \o events) : (seen \o events)[k] = i
                      /\ ~overrun => \A m \in raised : m < n /\ op[m] = "void" =>
                           m \in surfaced \cup lost
    BY DEF ReplyBarrier
  <2>1. ret[n].re \in Arrived
    <3>1. ret[n] \in Answer BY DEF IInv, TypeOK, HistoryType
    <3> QED BY <3>1 DEF Arrived, Answer
  <2>2. \A i \in DOMAIN evlog : evlog[i].kind = "event" /\ evlog[i].at < ret[n].re => Delivered(i)
    BY <2>1 DEF JInv, BarrierInv, CallBarrier, Shown
  <2>3. ~overrun => ret[n].re = n BY DEF IInv, DeliveryInv
  <2>4. ~overrun => \A m \in raised : m < n /\ op[m] = "void" => Settled(m)
    BY <2>1, <2>3 DEF JInv, ErrorInv
  <2> QED BY <2>2, <2>4 DEF Delivered, Settled
<1> QED BY <1>1, Correlation, Streams, PTL

=============================================================================
