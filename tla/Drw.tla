-------------------------------- MODULE Drw --------------------------------
(***************************************************************************)
(* The drawing contexts of package drw: goroutines that share a connection,*)
(* each with a Drw (a pixmap and a GC on the server, a framebuffer here),  *)
(* and the resource ids they take from Conn.NewID.  Each request is a step *)
(* of its own, because Send releases c.mu between requests; it takes       *)
(* effect on the server at once, because the server works in wire order.   *)
(*                                                                         *)
(* A definition X_Y stands before X and is X with a plausible mistake Y;   *)
(* nothing uses it: it shows that the properties would notice.             *)
(***************************************************************************)
EXTENDS Integers, Sequences, FiniteSets

CONSTANTS
  Drawers,           (* goroutines, each with its own Drw and window       *)
  Sizes,             (* sizes <<w, h>> a Drw is given                      *)
  Rects,             (* rectangles [x, y, w, h] that are painted or mapped *)
  Inks,              (* colours                                            *)
  RootDepth,         (* the root window's depth, that of every Drw         *)
  MaxRequestLength,  (* Setup.MaximumRequestLength, in 4-byte units        *)
  IdUnit, IdCount    (* Setup.ResourceIDMask: its ones are the multiples of *)
                     (* IdUnit below IdUnit * IdCount, both powers of two  *)

Blank == "blank"     (* a pixel of a new framebuffer                       *)
Junk == "junk"       (* a pixel of a new pixmap: the server may hold any   *)

Width(s) == s[1]
Height(s) == s[2]
Header == 24         (* bytes of a PutImage before its data                *)
Bytes == 4           (* bytes of a pixel, as Map packs it and as servers   *)
                     (* keep one of depth 24 or 32                         *)

(* "assume depth divisible by 8 for 24/32": at another depth Map still     *)
(* packs four bytes a pixel and PutImage counts fewer.                     *)
ASSUME DrwAssumption ==
  /\ RootDepth \in {24, 32}
  /\ MaxRequestLength \in Nat /\ IdUnit \in Nat \ {0} /\ IdCount \in Nat \ {0, 1}
  /\ Sizes \subseteq (Nat \ {0}) \X (Nat \ {0})
  /\ Rects \subseteq [x : Int, y : Int, w : Nat, h : Nat]
  /\ Blank \notin Inks /\ Junk \notin Inks

(* Rectangles lie where 16-bit coordinates reach, so that Map's conversions*)
(* keep them.                                                              *)
ASSUME Reachable ==
  \A r \in Rects : /\ -32768 <= r.x /\ r.x + r.w <= 32767
                   /\ -32768 <= r.y /\ r.y + r.h <= 32767

maxReq == IF MaxRequestLength = 0 THEN 256 * 1024 ELSE 4 * MaxRequestLength
(* The longest request the server takes: with no limit named, what the     *)
(* length field can say, which is 4 bytes less than maxReq.                *)
Longest == 4 * (IF MaxRequestLength = 0 THEN 65535 ELSE MaxRequestLength)

(* A row of any rectangle fits in one request, and without a limit so does *)
(* the rectangle: a first chunk of all of maxReq would have length 0.      *)
ASSUME RowFits ==
  \A r \in Rects : /\ Header + Bytes * r.w <= Longest
                   /\ MaxRequestLength = 0 => Header + Bytes * (r.w * r.h) <= Longest

Points(s) == (0 .. Width(s) - 1) \X (0 .. Height(s) - 1)
Area(r) == (r.x .. r.x + r.w - 1) \X (r.y .. r.y + r.h - 1)
Screen == UNION {Points(s) : s \in Sizes}
Ids == {n * IdUnit : n \in 1 .. IdCount - 1}

VARIABLES
  idNext,    (* c.idNext                                                   *)
  size,      (* d.W, d.H                                                   *)
  Pixmap,    (* d.Pixmap, 0 before New                                     *)
  GC,        (* d.GC, 0 before New                                         *)
  Image,     (* d.Image.Pix, pixel by pixel, row after row                 *)
  pc,        (* where each goroutine stands                                *)
  job,       (* the Map in progress: its rectangle, packed data and row    *)
  panicked,  (* why the process panicked, if it did                        *)
  pixmaps,   (* the server's pixmaps: a size and the pixels                *)
  gcs,       (* the server's graphics contexts                             *)
  window,    (* what each window shows                                     *)
  errors,    (* the errors the server has answered                         *)
  handed     (* history: the ids NewID has returned                        *)

drwVars == <<size, Pixmap, GC, Image>>
serverVars == <<pixmaps, gcs, window, errors>>
idVars == <<idNext, handed>>
vars == <<drwVars, idVars, pc, job, panicked, serverVars>>

NoJob == [r |-> [x |-> 0, y |-> 0, w |-> 0, h |-> 0], data |-> <<>>, row |-> 0]

Init ==
  /\ idNext = 0 /\ handed = {} /\ panicked = "no"
  /\ size \in [Drawers -> Sizes]
  /\ Pixmap = [d \in Drawers |-> 0] /\ GC = [d \in Drawers |-> 0]
  /\ Image = [d \in Drawers |-> <<>>]
  /\ pc = [d \in Drawers |-> "pixid"] /\ job = [d \in Drawers |-> NoJob]
  /\ pixmaps = <<>> /\ gcs = {} /\ errors = {}
  /\ window = [d \in Drawers |-> [p \in Screen |-> Blank]]

Goto(d, l) == pc' = [pc EXCEPT ![d] = l]

-----------------------------------------------------------------------------
(* Resource ids.                                                           *)

(* n & c.idMask *)
Masked_TopBitLost(n) == ((n \div IdUnit) % (IdCount \div 2)) * IdUnit
Masked(n) == ((n \div IdUnit) % IdCount) * IdUnit

(* NewID returns id.                                                       *)
NewID_Forgets(id) ==
  /\ id = Masked(idNext + 1) /\ id # 0
  /\ handed' = handed \cup {id} /\ UNCHANGED idNext
NewID(id) ==
  /\ id = Masked(idNext + 1) /\ id # 0
  /\ handed' = handed \cup {id} /\ idNext' = id

NewIDPanics(d) ==
  /\ pc[d] \in {"pixid", "gcid", "reid"} /\ Masked(idNext + 1) = 0
  /\ panicked' = "ids"
  /\ UNCHANGED <<drwVars, idVars, pc, job, serverVars>>

-----------------------------------------------------------------------------
(* The server.                                                             *)

InUse(id) == id \in DOMAIN pixmaps \cup gcs
Complain(e) == errors' = errors \cup {e} /\ UNCHANGED <<pixmaps, gcs, window>>

CreatePixmap(id, s) ==
  \/ InUse(id) /\ Complain("BadIDChoice")
  \/ /\ ~InUse(id)
     /\ pixmaps' = [i \in DOMAIN pixmaps \cup {id} |->
          IF i = id THEN [size |-> s, pix |-> [p \in Points(s) |-> Junk]] ELSE pixmaps[i]]
     /\ UNCHANGED <<gcs, window, errors>>

FreePixmap(id) ==
  \/ id \notin DOMAIN pixmaps /\ Complain("BadPixmap")
  \/ /\ id \in DOMAIN pixmaps
     /\ pixmaps' = [i \in DOMAIN pixmaps \ {id} |-> pixmaps[i]]
     /\ UNCHANGED <<gcs, window, errors>>

CreateGC(id) ==
  \/ InUse(id) /\ Complain("BadIDChoice")
  \/ ~InUse(id) /\ gcs' = gcs \cup {id} /\ UNCHANGED <<pixmaps, window, errors>>

FreeGC(id) ==
  \/ id \notin gcs /\ Complain("BadGC")
  \/ id \in gcs /\ gcs' = gcs \ {id} /\ UNCHANGED <<pixmaps, window, errors>>

(* rows rows of data land at x, y, those outside the pixmap nowhere.       *)
Put(id, gc, x, y, w, rows, data) ==
  IF id \notin DOMAIN pixmaps THEN Complain("BadDrawable")
  ELSE IF gc \notin gcs THEN Complain("BadGC")
  ELSE IF Header + Bytes * Len(data) > Longest \/ Len(data) # w * rows
  THEN Complain("BadLength")
  ELSE /\ pixmaps' = [pixmaps EXCEPT ![id].pix =
            [p \in DOMAIN @ |->
               IF p \in Area([x |-> x, y |-> y, w |-> w, h |-> rows])
               THEN data[(p[2] - y) * w + (p[1] - x) + 1] ELSE @[p]]]
       /\ UNCHANGED <<gcs, window, errors>>

Copy(id, gc, d, r) ==
  IF id \notin DOMAIN pixmaps THEN Complain("BadDrawable")
  ELSE IF gc \notin gcs THEN Complain("BadGC")
  ELSE /\ window' = [window EXCEPT ![d] =
            [p \in DOMAIN @ |-> IF p \in Area(r) \cap DOMAIN pixmaps[id].pix
                                THEN pixmaps[id].pix[p] ELSE @[p]]]
       /\ UNCHANGED <<pixmaps, gcs, errors>>

-----------------------------------------------------------------------------
(* New: two ids, CreatePixmap, CreateGC.                                   *)

NewPixmapID(d) ==
  /\ pc[d] \in {"pixid", "reid"}
  /\ \E id \in Ids : NewID(id) /\ Pixmap' = [Pixmap EXCEPT ![d] = id]
  /\ Goto(d, IF pc[d] = "pixid" THEN "gcid" ELSE "recreate")
  /\ UNCHANGED <<size, GC, Image, job, panicked, serverVars>>

NewGCID(d) ==
  /\ pc[d] = "gcid"
  /\ \E id \in Ids : NewID(id) /\ GC' = [GC EXCEPT ![d] = id]
  /\ Goto(d, "create")
  /\ UNCHANGED <<size, Pixmap, Image, job, panicked, serverVars>>

NewRGBA(s) == [i \in 1 .. Width(s) * Height(s) |-> Blank]

(* CreatePixmap, here and in Resize, and the framebuffer made after it.    *)
MakePixmap_Keeps(d) ==
  /\ pc[d] \in {"create", "recreate"}
  /\ CreatePixmap(Pixmap[d], size[d])
  /\ Image' = IF pc[d] = "create" THEN [Image EXCEPT ![d] = NewRGBA(size[d])] ELSE Image
  /\ Goto(d, IF pc[d] = "create" THEN "creategc" ELSE "ready")
  /\ UNCHANGED <<size, Pixmap, GC, idVars, job, panicked>>
MakePixmap(d) ==
  /\ pc[d] \in {"create", "recreate"}
  /\ CreatePixmap(Pixmap[d], size[d])
  /\ Image' = [Image EXCEPT ![d] = NewRGBA(size[d])]
  /\ Goto(d, IF pc[d] = "create" THEN "creategc" ELSE "ready")
  /\ UNCHANGED <<size, Pixmap, GC, idVars, job, panicked>>

MakeGC(d) ==
  /\ pc[d] = "creategc"
  /\ CreateGC(GC[d])
  /\ Goto(d, "ready")
  /\ UNCHANGED <<drwVars, idVars, job, panicked>>

FreeOld_Skipped(d) == UNCHANGED serverVars
FreeOld(d) == FreePixmap(Pixmap[d])

(* Resize: nothing for the same size; otherwise the old pixmap goes first. *)
Resize(d, s) ==
  /\ pc[d] = "ready" /\ s # size[d]
  /\ size' = [size EXCEPT ![d] = s]
  /\ FreeOld(d)
  /\ Goto(d, "reid")
  /\ UNCHANGED <<Pixmap, GC, Image, idVars, job, panicked>>

Free(d) ==
  /\ pc[d] = "ready"
  /\ FreeOld(d)
  /\ Goto(d, "freegc")
  /\ UNCHANGED <<drwVars, idVars, job, panicked>>

DropGC(d) ==
  /\ pc[d] = "freegc"
  /\ FreeGC(GC[d])
  /\ Goto(d, "freed")
  /\ UNCHANGED <<drwVars, idVars, job, panicked>>

-----------------------------------------------------------------------------
(* Painting and Map.                                                       *)

PointOf(k, w) == <<(k - 1) % w, (k - 1) \div w>>

(* Rect, Clear and Text end in FillRect, which clips to the framebuffer.   *)
FillRect(d, r, ink) ==
  /\ pc[d] = "ready"
  /\ Image' = [Image EXCEPT ![d] = [k \in DOMAIN @ |->
       IF PointOf(k, Width(size[d])) \in Area(r) THEN ink ELSE @[k]]]
  /\ UNCHANGED <<size, Pixmap, GC, idVars, pc, job, panicked, serverVars>>

(* Where the bytes of row j of r start in Image.Pix, in pixels.            *)
RowStart(d, r, j) == (r.y + j) * Width(size[d]) + r.x
InSlice(d, r) ==
  \A j \in 0 .. r.h - 1 :
    0 <= RowStart(d, r, j) /\ RowStart(d, r, j) + r.w <= Len(Image[d])

Packed(d, r) ==
  [k \in 1 .. r.w * r.h |->
     LET p == PointOf(k, r.w) IN Image[d][RowStart(d, r, p[2]) + p[1] + 1]]

int16(n) == ((n + 32768) % 65536) - 32768
uint16(n) == n % 65536

(* The rectangle that Map hands to PutImage and to CopyArea.               *)
Sent(r) == [x |-> int16(r.x), y |-> int16(r.y), w |-> uint16(r.w), h |-> uint16(r.h)]

MapPack(d, r) ==
  /\ pc[d] = "ready" /\ r.w > 0 /\ r.h > 0
  /\ IF InSlice(d, r)
     THEN /\ job' = [job EXCEPT ![d] = [r |-> Sent(r), data |-> Packed(d, r), row |-> 0]]
          /\ Goto(d, "put")
          /\ UNCHANGED panicked
     ELSE panicked' = "slice" /\ UNCHANGED <<job, pc>>
  /\ UNCHANGED <<drwVars, idVars, serverVars>>

bytesPerLine(w) == IF RootDepth = 24 THEN w * 4 ELSE (w * RootDepth) \div 8

MaxRows_NoHeader(w) == LET m == maxReq \div bytesPerLine(w) IN IF m < 1 THEN 1 ELSE m
MaxRows(w) ==
  LET m == (maxReq - Header) \div bytesPerLine(w) IN IF m < 1 THEN 1 ELSE m

ChunkRows(j) ==
  LET left == j.r.h - j.row IN IF left > MaxRows(j.r.w) THEN MaxRows(j.r.w) ELSE left

ChunkY_Fixed(j) == j.r.y
ChunkY(j) == int16(j.r.y + j.row)

NextRow(j) == j.row + ChunkRows(j)

(* One turn of the loop of PutImage.                                       *)
PutImage(d) ==
  LET j == job[d]
      rows == ChunkRows(j)
      at(n) == (n * bytesPerLine(j.r.w)) \div Bytes
  IN /\ pc[d] = "put" /\ j.row < j.r.h
     /\ Put(Pixmap[d], GC[d], j.r.x, ChunkY(j), j.r.w, rows,
            SubSeq(j.data, at(j.row) + 1, at(j.row + rows)))
     /\ job' = [job EXCEPT ![d].row = NextRow(j)]
     /\ UNCHANGED <<drwVars, idVars, pc, panicked>>

CopyArea(d) ==
  /\ pc[d] = "put" /\ job[d].row >= job[d].r.h
  /\ Copy(Pixmap[d], GC[d], d, job[d].r)
  /\ job' = [job EXCEPT ![d] = NoJob]
  /\ Goto(d, "ready")
  /\ UNCHANGED <<drwVars, idVars, panicked>>

-----------------------------------------------------------------------------

Step(d) ==
  \/ NewPixmapID(d) \/ NewGCID(d) \/ NewIDPanics(d) \/ MakePixmap(d) \/ MakeGC(d)
  \/ \E s \in Sizes : Resize(d, s)
  \/ \E r \in Rects : MapPack(d, r) \/ \E ink \in Inks : FillRect(d, r, ink)
  \/ PutImage(d) \/ CopyArea(d)
  \/ Free(d) \/ DropGC(d)

Next == panicked = "no" /\ \E d \in Drawers : Step(d)

Spec == Init /\ [][Next]_vars

-----------------------------------------------------------------------------
(* Properties.                                                             *)

Pixels == Inks \cup {Blank, Junk}
Labels == {"pixid", "gcid", "create", "creategc", "ready", "reid", "recreate",
           "put", "freegc", "freed"}

(* Every variable holds a value of its kind.                               *)
TypeOK ==
  /\ idNext \in Ids \cup {0} /\ handed \subseteq Ids
  /\ size \in [Drawers -> Sizes]
  /\ Pixmap \in [Drawers -> Ids \cup {0}] /\ GC \in [Drawers -> Ids \cup {0}]
  /\ Image \in [Drawers -> Seq(Inks \cup {Blank})]
  /\ pc \in [Drawers -> Labels]
  /\ job \in [Drawers -> [r : Rects \cup {NoJob.r}, data : Seq(Inks \cup {Blank}), row : Nat]]
  /\ \A d \in Drawers : job[d].row <= job[d].r.h
  /\ panicked \in {"no", "ids", "slice"}
  /\ DOMAIN pixmaps \subseteq Ids /\ gcs \subseteq Ids
  /\ pixmaps \in [DOMAIN pixmaps ->
        [size : Sizes, pix : UNION {[Points(s) -> Pixels] : s \in Sizes}]]
  /\ \A i \in DOMAIN pixmaps : DOMAIN pixmaps[i].pix = Points(pixmaps[i].size)
  /\ window \in [Drawers -> [Screen -> Pixels]]
  /\ errors \subseteq {"BadIDChoice", "BadPixmap", "BadGC", "BadDrawable", "BadLength"}

(* However the goroutines' requests interleave, and however often each Drw *)
(* is resized, the server refuses none of them: an id is free when it is   *)
(* created and exists when it is used, and no PutImage is longer than the  *)
(* server takes.                                                           *)
NoProtocolErrors == errors = {}

(* The server keeps what the drawing contexts still own and nothing more:  *)
(* Resize and Free leave no pixmap and no GC behind.                       *)
NoLeak ==
  /\ \A i \in DOMAIN pixmaps : \E d \in Drawers :
       Pixmap[d] = i /\ pc[d] \in {"creategc", "ready", "put"}
  /\ \A i \in gcs : \E d \in Drawers : GC[d] = i /\ pc[d] # "freed"

(* Whatever New and Resize have done, Map of a rectangle inside the        *)
(* framebuffer finds its bytes there: only one that leaves it may panic.   *)
Inside(d, r) ==
  /\ 0 <= r.x /\ r.x + r.w <= Width(size[d])
  /\ 0 <= r.y /\ r.y + r.h <= Height(size[d])
InsideIsSafe ==
  \A d \in Drawers, r \in Rects : pc[d] = "ready" /\ Inside(d, r) => InSlice(d, r)

(* When Map returns, its part of the window shows the framebuffer, pixel   *)
(* by pixel, in however many chunks PutImage sent it.                      *)
MapShows ==
  [][\A d \in Drawers : pc[d] = "put" /\ pc'[d] = "ready" =>
       \A k \in DOMAIN Image[d] :
         LET p == PointOf(k, Width(size[d]))
         IN p \in Area(job[d].r) => window'[d][p] = Image[d][k]]_vars

(* "resource ID space exhausted": NewID panics only when every id of the   *)
(* mask has been handed out.                                               *)
PanicMeansExhausted == panicked = "ids" => handed = Ids

=============================================================================
