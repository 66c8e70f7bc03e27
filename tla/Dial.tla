-------------------------------- MODULE Dial --------------------------------
(***************************************************************************)
(* How a connection of package xproto comes about: DISPLAY is parsed, a    *)
(* socket is dialled, a cookie is looked for, the set-up request is sent   *)
(* and the reply read in two parts and parsed.  Everything may fail.       *)
(*                                                                         *)
(* A display is given parsed as far as strings go: host, number and screen *)
(* are what stands before and after the colon and the dot, Bad where it is *)
(* not a number.  An entry of the Xauthority file has the lengths of the   *)
(* name of its scheme and of the cookie: the code takes any scheme.  A     *)
(* set-up reply is the list of its screens, each the list of its depths,   *)
(* each the number of its visuals, with the lengths around it.             *)
(*                                                                         *)
(* A definition X_Y stands before X and is X with a plausible mistake Y;   *)
(* nothing uses it: it shows that the properties would notice.             *)
(***************************************************************************)
EXTENDS Requests

CONSTANTS
  Displays,     (* [colon, host, num, dot, screen], or Nil: not set        *)
  Xauthorities, (* Xauthority files: sequences of entries                  *)
                (* [family, addr, num, name, cookie, cut]                  *)
  Setups,       (* what a server may answer: [status, vendor, formats,     *)
                (* screens, maxReq, min, max]                              *)
  Hostname,     (* os.Hostname()                                           *)
  Bad,          (* not a number                                            *)
  Nil           (* no entry, no reply, no display                          *)

(* By the protocol keycodes are bytes, from 8 up.                          *)
ASSUME DialAssumption ==
  /\ Bad \notin Int /\ Nil \notin Setups
  /\ \A d \in Displays \ {Nil} : d.screen \in Int \cup {Bad}
  /\ \A file \in Xauthorities : file \in Seq(ToSet(file))
  /\ \A r \in Setups :
       /\ r.status \in 0 .. 2 /\ r.vendor \in Nat /\ r.maxReq \in Nat
       /\ r.screens \in Seq(Seq(Nat))
       /\ r.min \in Nat \ {0} /\ r.max \in r.min .. KeyMod - 1

VARIABLES
  stage,     (* how far Dial has got                                       *)
  display,   (* its argument                                               *)
  auth,      (* the entry of the Xauthority file that was sent             *)
  sock,      (* nc: "none", "open" or "closed"                             *)
  hello,     (* the set-up reply, its header read                          *)
  Setup,     (* c.Setup                                                    *)
  ScreenIx,  (* c.ScreenIx                                                 *)
  panic      (* why the process panicked, "no" if it did not               *)

dialVars == <<stage, display, auth, sock, hello, Setup, ScreenIx, panic>>

DialInit ==
  /\ stage = "start" /\ display \in Displays
  /\ auth = Nil /\ sock = "none"
  /\ hello = Nil /\ Setup = Nil /\ ScreenIx = 0 /\ panic = "no"

-----------------------------------------------------------------------------

Malformed(d) == d = Nil \/ ~d.colon \/ d.num = Bad \/ (d.dot /\ d.screen = Bad)
IsLocal(d) == d.host \in {"", "unix"}

parseDisplay ==
  /\ stage = "start"
  /\ stage' = IF Malformed(display) THEN "failed"
              ELSE IF IsLocal(display) THEN "file" ELSE "tcp"
  /\ ScreenIx' = IF ~Malformed(display) /\ display.dot THEN display.screen ELSE 0
  /\ UNCHANGED <<display, auth, sock, hello, Setup, panic>>

(* One attempt to connect: the socket of the file system, then the abstract*)
(* one, or TCP.                                                            *)
Connect ==
  /\ stage \in {"file", "abstract", "tcp"}
  /\ \/ sock' = "open" /\ stage' = "connected"
     \/ stage' = (IF stage = "file" THEN "abstract" ELSE "failed") /\ UNCHANGED sock
  /\ UNCHANGED <<display, auth, hello, Setup, ScreenIx, panic>>

(* readAuthCookie goes from entry to entry, as far as one that is cut off  *)
(* or one for this host, or any, and this display, or any.                 *)
MatchHost(e, d) == (e.family = 256 /\ IsLocal(d) /\ e.addr = Hostname) \/ e.family = 252
MatchNum(e, d) == e.num = "" \/ e.num = d.num

readAuthCookie(file, d) ==
  LET ends == {i \in DOMAIN file : file[i].cut \/ (MatchHost(file[i], d) /\ MatchNum(file[i], d))}
  IN  IF ends = {} \/ file[Min(ends)].cut THEN Nil ELSE file[Min(ends)]

(* The set-up request: twelve bytes, the name and the cookie, both padded. *)
setupBytes(e) ==
  IF e = Nil THEN 12
  ELSE 12 + e.name + pad(e.name) + e.cookie + pad(e.cookie)

(* nc.Close() when the handshake fails.                                    *)
Abandon_Open == UNCHANGED sock
Abandon == sock' = "closed"

Fail == stage' = "failed" /\ Abandon

WriteSetup ==
  /\ stage = "connected"
  /\ \E file \in Xauthorities : auth' = readAuthCookie(file, display)
  /\ \/ stage' = "header" /\ UNCHANGED sock
     \/ Fail
  /\ UNCHANGED <<display, hello, Setup, ScreenIx, panic>>

(* The server cannot answer what it cannot delimit.                        *)
ServerReads(e) ==
  setupBytes(e) = IF e = Nil THEN 12
                  ELSE 4 * (3 + (e.name + 3) \div 4 + (e.cookie + 3) \div 4)

ReadHeader ==
  /\ stage = "header"
  /\ \/ /\ ServerReads(auth) /\ hello' \in Setups
        /\ stage' = "body" /\ UNCHANGED sock
     \/ Fail /\ UNCHANGED hello
  /\ UNCHANGED <<display, auth, Setup, ScreenIx, panic>>

(* The length of the body by the protocol, and where parseSetup ends.      *)
screenBytes(s) == 40 + Sum([j \in DOMAIN s |-> 8 + 24 * s[j]])
listBytes(r) == 8 * r.formats + Sum([i \in DOMAIN r.screens |-> screenBytes(r.screens[i])])
bodyLen(r) == 32 + 4 * ((r.vendor + 3) \div 4) + listBytes(r)

align4_Down(n) == n - (n % 4)
align4(n) == ((n + 3) \div 4) * 4

parseSetup(r) == align4(32 + r.vendor) + listBytes(r)

Chosen_Unchecked(n) == ScreenIx
Chosen(n) == IF ScreenIx >= n THEN 0 ELSE ScreenIx

(* The read fails, the server has refused, or the reply is parsed.         *)
ReadBody ==
  /\ stage = "body"
  /\ \/ Fail /\ UNCHANGED <<Setup, ScreenIx, panic>>
     \/ LET ix == Chosen(Len(hello.screens)) IN
        /\ hello.status \notin {0, 2}
        /\ Setup' = hello /\ ScreenIx' = ix
        /\ panic' = IF parseSetup(hello) # bodyLen(hello) THEN "parse"
                    ELSE IF ix + 1 \notin DOMAIN hello.screens THEN "screen" ELSE "no"
        /\ stage' = IF panic' = "no" THEN "dialled" ELSE "panicked"
        /\ UNCHANGED sock
  /\ UNCHANGED <<display, auth, hello>>

(* The reader is started and Dial returns: its locals are gone.            *)
Return ==
  /\ stage = "dialled"
  /\ stage' = "up"
  /\ display' = Nil /\ auth' = Nil /\ hello' = Nil
  /\ UNCHANGED <<sock, Setup, ScreenIx, panic>>

Dial ==
  parseDisplay \/ Connect \/ WriteSetup \/ ReadHeader \/ ReadBody \/ Return

-----------------------------------------------------------------------------
(* Properties.                                                             *)

(* Every variable holds a value of its kind.                               *)
DialType ==
  /\ stage \in {"start", "file", "abstract", "tcp", "connected", "header", "body",
                "dialled", "up", "failed", "panicked"}
  /\ display \in Displays \cup {Nil}
  /\ auth = Nil \/ \E file \in Xauthorities : auth \in ToSet(file)
  /\ sock \in {"none", "open", "closed"}
  /\ hello \in Setups \cup {Nil} /\ Setup \in Setups \cup {Nil}
  /\ ScreenIx \in Int
  /\ panic \in {"no", "parse", "screen", "finish", "divide", "decode"}

(* Dial either fails and leaves no socket behind, whatever step it failed  *)
(* in, or returns a connection whose screen is the one DISPLAY names, the  *)
(* first if the server has no such screen.                                 *)
DialOutcome ==
  /\ stage = "failed" => sock # "open"
  /\ stage = "dialled" =>
       LET n     == Len(Setup.screens)
           asked == IF display.dot THEN display.screen ELSE 0
       IN  /\ sock = "open" /\ Setup.status = 1
           /\ ScreenIx \in 0 .. n - 1
           /\ ScreenIx = IF asked \in 0 .. n - 1 THEN asked ELSE 0

=============================================================================
