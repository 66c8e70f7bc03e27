----------------------------- MODULE SessionInv -----------------------------
(***************************************************************************)
(* Why the properties of Session hold: where Dial stands, whose turn it is *)
(* on the wire, which word the server reads next, which frame the reader   *)
(* reads next, and who waits for what is on its way to it.                 *)
(***************************************************************************)
EXTENDS Session

-----------------------------------------------------------------------------
(* Dial.                                                                   *)

Asked == IF display.dot THEN display.screen ELSE 0

(* The socket is open from the connection on, and what a stage goes by has *)
(* been parsed before.                                                     *)
Dialling ==
  /\ stage \in {"start", "file", "abstract", "tcp"} => sock = "none"
  /\ stage \in {"connected", "header", "body", "dialled", "up"} => sock = "open"
  /\ stage \notin {"start", "failed", "panicked", "up"} =>
       /\ display \in Displays /\ ~Malformed(display)
       /\ stage # "dialled" => ScreenIx = Asked
  /\ stage = "body" => hello \in Setups
  /\ stage \in {"dialled", "up"} => Setup \in Setups
  /\ (panic = "no") = (stage # "panicked")

DInv == DialType /\ Dialling /\ DialOutcome

-----------------------------------------------------------------------------
(* The requests and the goroutines.                                        *)

(* What is asked of the server: whatever an image is cut into fits, unless *)
(* one line of it does not, or its lines are not whole words.              *)
Sound ==
  {q \in Encoded : q.name = "PutImage" =>
     Fits(q) \/ ~WholeLines(q.image) \/ 24 + lineBytes(q.image) > 4 * Setup.maxReq}

(* Nothing happens before Dial has returned.                               *)
Quiet ==
  stage \notin {"up", "panicked"} =>
    /\ issued = <<>> /\ out = <<>> /\ log = <<>> /\ in = <<>>
    /\ rst = "head" /\ peerUp /\ km = Nil
    /\ \A g \in Users : pc[g] = "idle" /\ slot[g] = Nil

(* The holder of c.mu writes the request that was issued last, and each    *)
(* goroutine waits for one that has a reply.                               *)
Turns ==
  /\ todo \in [Users -> Seq(Sound)]
  /\ issued \in Seq([q : Sound, by : Users])
  /\ \A g \in Users : (pc[g] = "writing") = (mu = g)
  /\ mu # Nobody => issued # <<>> /\ issued[Len(issued)] = [q |-> Current(mu), by |-> mu]
  /\ \A g \in Users : pc[g] = "waiting" => HasReply(Current(g).name)

-----------------------------------------------------------------------------
(* The words to the server.                                                *)

(* The word to be written next, the words on the way and it, and the word  *)
(* that follows another.                                                   *)
Next1 == IF mu = Nobody THEN <<Len(issued) + 1, 1>> ELSE <<Len(issued), sent[mu] + 1>>
Outbound == Append(out, Next1)
After(w) == IF w[2] < Words(issued[w[1]].q) THEN <<w[1], w[2] + 1>> ELSE <<w[1] + 1, 1>>

(* The server has cut whole requests off the front of it.                  *)
Stream ==
  /\ out \in Seq(Nat \X Nat)
  /\ \A k \in DOMAIN out : /\ out[k][1] \in DOMAIN issued
                           /\ out[k][2] \in 1 .. Words(issued[out[k][1]].q)
  /\ log \in Seq([re : DOMAIN issued, whole : BOOLEAN, good : BOOLEAN])
  /\ NoWrap =>
       /\ \A k \in DOMAIN log : log[k].re = k /\ log[k].whole
       /\ peerUp => /\ Outbound[1] = <<Len(log) + 1, 1>>
                    /\ \A k \in DOMAIN out : Outbound[k + 1] = After(out[k])

-----------------------------------------------------------------------------
(* The frames to the reader.                                               *)

Frame == [part : {"head", "tail"}, msg : Messages]

(* What is on the way, with the head the reader has in its hand.           *)
Inbound == IF rst = "body" THEN <<[part |-> "head", msg |-> rmsg]>> \o in ELSE in

(* Heads and tails alternate as the reader expects them, and only where    *)
(* the server has gone away a tail may be missing at the end.              *)
InFrames(s, up) ==
  /\ s \in Seq(Frame)
  /\ \A k \in DOMAIN s :
       IF s[k].part = "tail"
       THEN HasBody(s[k].msg) /\ k > 1 /\ s[k - 1] = [part |-> "head", msg |-> s[k].msg]
       ELSE HasBody(s[k].msg) =>
              IF k < Len(s) THEN s[k + 1].part = "tail" ELSE ~up

Framed ==
  /\ in \in Seq(Frame) /\ InFrames(Inbound, peerUp)
  /\ rst = "body" => HasBody(rmsg)
  /\ rst = "dead" => in = <<>> /\ ~peerUp

-----------------------------------------------------------------------------
(* The replies.                                                            *)

(* The issuer of request i waits for it.                                   *)
Awaited(i) ==
  LET g == issued[i].by IN
  /\ pc[g] = "waiting" /\ Current(g) = issued[i].q
  /\ \A j \in DOMAIN issued : j > i => issued[j].by # g

(* A message that is not an event answers a request the server has cut     *)
(* out, and a reply is one for that request.                               *)
Answer(m) ==
  m.kind # "event" =>
    /\ m.re \in DOMAIN log /\ m.re \in DOMAIN issued
    /\ LET name == issued[m.re].q.name IN
       /\ HasReply(name) => Awaited(m.re)
       /\ m.kind = "reply" =>
            /\ HasReply(name) /\ m.extra = ExtraWords(name, m.n, m.unit)
            /\ name = "GetKeyboardMapping" =>
                 /\ m.keys \in Layouts /\ Len(m.keys) = Setup.max - Setup.min + 1
                 /\ m.n = Len(m.keys) * Len(m.keys[1])

Heads(s) == {k \in DOMAIN s : s[k].part = "head" /\ s[k].msg.kind # "event"}

(* Whatever is on the way is an answer, and there are no two to one        *)
(* request, nor is there another to the one whose answer is handed over;   *)
(* and who has written a request with a reply waits until it is served.    *)
OnTheWay ==
  /\ \A k \in DOMAIN Inbound : Answer(Inbound[k].msg)
  /\ \A j, k \in Heads(Inbound) : j # k => Inbound[j].msg.re # Inbound[k].msg.re

Handed ==
  \A g \in Users : slot[g] # Nil =>
    /\ Answer(slot[g]) /\ issued[slot[g].re].by = g
    /\ HasReply(issued[slot[g].re].q.name)
    /\ \A k \in Heads(Inbound) : Inbound[k].msg.re # slot[g].re

Written(i) == i = Len(issued) => mu = Nobody
Owed ==
  peerUp => \A i \in DOMAIN issued :
    i > Len(log) /\ Written(i) /\ HasReply(issued[i].q.name) => Awaited(i)

Replies == OnTheWay /\ Handed /\ Owed

(* The map was made from a keyboard with all the server's keycodes.        *)
Mapped ==
  km # Nil =>
    /\ Setup \in Setups
    /\ \E l \in Layouts : /\ Len(l) = Setup.max - Setup.min + 1
                          /\ km = [first |-> Setup.min, cols |-> Len(l[1]), rows |-> l,
                                   syms |-> Symbols(l)]

UInv == SessionType /\ Quiet /\ Turns

(* The inductive invariant.                                                *)
VInv ==
  /\ DInv /\ UInv /\ PanicMeans /\ Stream /\ Framed
  /\ NoWrap => Replies /\ Mapped
  /\ StreamAligned /\ NoneRefused

=============================================================================
