----------------------------- MODULE DrwProofs -----------------------------
(***************************************************************************)
(* The server refuses no request of the drawing contexts, keeps nothing    *)
(* they have freed, and shows what they have drawn: for any goroutines,    *)
(* sizes, rectangles, colours, request lengths and resource id masks.      *)
(***************************************************************************)
EXTENDS DrwInv, SequenceTheorems, TLAPS

USE DrwAssumption

-----------------------------------------------------------------------------
(* Arithmetic.                                                             *)

LEMMA DivMod ==
  ASSUME NEW n \in Nat, NEW w \in Nat \ {0}
  PROVE  n \div w \in Nat /\ n % w \in 0 .. w - 1 /\ n = (n \div w) * w + (n % w)
OBVIOUS

LEMMA DivUnique ==
  ASSUME NEW w \in Nat \ {0}, NEW a \in 0 .. w - 1, NEW b \in Nat
  PROVE  (b * w + a) \div w = b /\ (b * w + a) % w = a
OBVIOUS

LEMMA DivLess ==
  ASSUME NEW w \in Nat \ {0}, NEW h \in Nat, NEW n \in 0 .. w * h - 1
  PROVE  n \div w \in 0 .. h - 1
OBVIOUS

LEMMA Rows ==
  ASSUME NEW w \in Nat, NEW a \in Nat, NEW b \in Nat, a <= b
  PROVE  a * w <= b * w /\ w * a <= w * b /\ a * w \in Nat /\ w * a = a * w
         /\ b * w = a * w + (b - a) * w
OBVIOUS

(* The k-th pixel of a block of w columns and h rows is at PointOf(k, w).  *)
LEMMA PointOfPixel ==
  ASSUME NEW w \in Nat \ {0}, NEW h \in Nat, NEW k \in 1 .. w * h
  PROVE  /\ PointOf(k, w) = <<PointOf(k, w)[1], PointOf(k, w)[2]>>
         /\ PointOf(k, w)[1] \in 0 .. w - 1 /\ PointOf(k, w)[2] \in 0 .. h - 1
         /\ k = PointOf(k, w)[2] * w + PointOf(k, w)[1] + 1
<1>1. k - 1 \in Nat /\ k - 1 \in 0 .. w * h - 1 OBVIOUS
<1>2. /\ (k - 1) % w \in 0 .. w - 1 /\ (k - 1) \div w \in 0 .. h - 1
      /\ k - 1 = ((k - 1) \div w) * w + ((k - 1) % w)
  BY <1>1, DivMod, DivLess
<1>3. ((k - 1) \div w) * w \in Nat BY <1>2, Rows
<1>4. PointOf(k, w)[1] = (k - 1) % w /\ PointOf(k, w)[2] = (k - 1) \div w BY DEF PointOf
<1>5. k = ((k - 1) \div w) * w + ((k - 1) % w) + 1 BY <1>2, <1>3
<1> QED BY <1>2, <1>4, <1>5 DEF PointOf

(* ... and every place of the block has its pixel.                         *)
Nth(a, b, w) == b * w + a + 1
LEMMA PixelOfPoint ==
  ASSUME NEW w \in Nat \ {0}, NEW a \in 0 .. w - 1, NEW b \in Nat
  PROVE  PointOf(Nth(a, b, w), w)[1] = a /\ PointOf(Nth(a, b, w), w)[2] = b
<1>1. (b * w + a) \div w = b /\ (b * w + a) % w = a BY DivUnique
<1>2. PICK q \in Nat : q = b * w BY Rows
<1>3. Nth(a, b, w) - 1 = b * w + a BY <1>2 DEF Nth
<1> QED BY <1>1, <1>3 DEF PointOf

LEMMA NthPixel ==
  ASSUME NEW w \in Nat \ {0}, NEW h \in Nat, NEW a \in 0 .. w - 1, NEW b \in 0 .. h - 1
  PROVE  Nth(a, b, w) \in 1 .. w * h
<1>1. b * w \in Nat /\ (b + 1) * w <= h * w /\ (b + 1) * w = b * w + w /\ h * w = w * h
  OBVIOUS
<1> QED BY <1>1 DEF Nth

-----------------------------------------------------------------------------
(* Ids.                                                                    *)

LEMMA IdFacts ==
  /\ \A id \in Ids : id \in Nat \ {0}
  /\ IdUnit = 1 => Ids = 1 .. IdCount - 1
<1>1. ASSUME NEW n \in 1 .. IdCount - 1 PROVE n * IdUnit \in Nat \ {0} OBVIOUS
<1>2. \A id \in Ids : id \in Nat \ {0} BY <1>1 DEF Ids
<1>3. ASSUME IdUnit = 1 PROVE Ids = 1 .. IdCount - 1
  <2>1. \A n \in 1 .. IdCount - 1 : n * IdUnit = n BY <1>3
  <2> QED BY <2>1 DEF Ids
<1> QED BY <1>2, <1>3

(* An id that NewID returns is new.                                        *)
LEMMA NewIDFacts ==
  ASSUME IdInv, idNext \in Ids \cup {0}, NEW id \in Ids, NewID(id)
  PROVE  /\ IdUnit = 1 /\ id \in Nat \ {0} /\ id \notin handed
         /\ handed' = handed \cup {id} /\ idNext' = id /\ IdInv'
<1>1. idNext \in Nat /\ id \in Nat \ {0} BY IdFacts
<1>2. id = Masked(idNext + 1) /\ idNext' = id /\ handed' = handed \cup {id} BY DEF NewID
<1>3. IdUnit = 1
  <2>1. SUFFICES ASSUME IdUnit > 1 PROVE FALSE OBVIOUS
  <2>2. idNext = 0 BY <2>1 DEF IdInv
  <2>3. (0 + 1) \div IdUnit = 0 BY <2>1
  <2>4. 0 % IdCount = 0 OBVIOUS
  <2> QED BY <1>1, <1>2, <2>2, <2>3, <2>4 DEF Masked
<1>4. Ids = 1 .. IdCount - 1 BY <1>3, IdFacts
<1>5. id = (idNext + 1) % IdCount BY <1>1, <1>2, <1>3 DEF Masked
<1>6. id = idNext + 1
  <2>1. CASE idNext + 1 < IdCount BY <1>1, <1>5, <2>1
  <2>2. CASE idNext + 1 = IdCount BY <1>1, <1>5, <2>2
  <2> QED BY <1>1, <1>4, <2>1, <2>2
<1>7. id \notin handed BY <1>1, <1>6 DEF IdInv
<1>8. handed' = {i \in Ids : i <= idNext'}
  <2>1. \A i \in Ids : i <= id <=> i <= idNext \/ i = id BY <1>1, <1>4, <1>6
  <2> QED BY <1>2, <2>1 DEF IdInv
<1> QED BY <1>1, <1>2, <1>3, <1>7, <1>8 DEF IdInv


-----------------------------------------------------------------------------
(* Sizes and rectangles.                                                   *)

LEMMA SizeFacts ==
  ASSUME NEW s \in Sizes
  PROVE  /\ Width(s) \in Nat \ {0} /\ Height(s) \in Nat \ {0}
         /\ Points(s) \subseteq Screen
         /\ \A p \in Points(s) : /\ p = <<p[1], p[2]>>
                                 /\ p[1] \in 0 .. Width(s) - 1 /\ p[2] \in 0 .. Height(s) - 1
         /\ \A a \in 0 .. Width(s) - 1, b \in 0 .. Height(s) - 1 : <<a, b>> \in Points(s)
<1>1. Points(s) \subseteq Screen BY DEF Screen
<1> QED BY <1>1 DEF Width, Height, Points

LEMMA AreaFacts ==
  ASSUME NEW x \in Int, NEW y \in Int, NEW w \in Nat, NEW h \in Nat
  PROVE  \A p : p \in Area([x |-> x, y |-> y, w |-> w, h |-> h]) <=>
           /\ p = <<p[1], p[2]>> /\ p[1] \in Int /\ p[2] \in Int
           /\ x <= p[1] /\ p[1] < x + w /\ y <= p[2] /\ p[2] < y + h
<1>1. Area([x |-> x, y |-> y, w |-> w, h |-> h]) = (x .. x + w - 1) \X (y .. y + h - 1) BY DEF Area
<1>2. ASSUME NEW p, p \in (x .. x + w - 1) \X (y .. y + h - 1)
      PROVE  /\ p = <<p[1], p[2]>> /\ p[1] \in x .. x + w - 1 /\ p[2] \in y .. y + h - 1
  BY <1>2
<1>3. ASSUME NEW p, p = <<p[1], p[2]>>, p[1] \in x .. x + w - 1, p[2] \in y .. y + h - 1
      PROVE  p \in (x .. x + w - 1) \X (y .. y + h - 1)
  BY <1>3
<1>4. \A i : i \in x .. x + w - 1 <=> i \in Int /\ x <= i /\ i < x + w OBVIOUS
<1>5. \A i : i \in y .. y + h - 1 <=> i \in Int /\ y <= i /\ i < y + h OBVIOUS
<1> QED BY <1>1, <1>2, <1>3, <1>4, <1>5

(* Map's conversions keep a rectangle that 16-bit coordinates reach.       *)
LEMMA SentFacts ==
  ASSUME NEW r \in Rects
  PROVE  Sent(r) = r /\ \A n \in 0 .. r.h : int16(r.y + n) = r.y + n
<1>1. r.x \in Int /\ r.y \in Int /\ r.w \in Nat /\ r.h \in Nat OBVIOUS
<1>2. /\ -32768 <= r.x /\ r.x + r.w <= 32767 /\ -32768 <= r.y /\ r.y + r.h <= 32767
  BY Reachable
<1>0. ASSUME NEW n \in Nat, n < 65536 PROVE n % 65536 = n BY <1>0
<1>3. ASSUME NEW n \in Int, -32768 <= n, n <= 32767 PROVE int16(n) = n
  <2>1. PICK m \in Nat : m = n + 32768 /\ m < 65536 BY <1>3
  <2>2. m % 65536 = m BY <1>0, <2>1
  <2> QED BY <2>1, <2>2 DEF int16
<1>4. ASSUME NEW n \in Nat, n < 65536 PROVE uint16(n) = n BY <1>0, <1>4 DEF uint16
<1>5. int16(r.x) = r.x /\ int16(r.y) = r.y /\ uint16(r.w) = r.w /\ uint16(r.h) = r.h
  <2>1. r.x <= 32767 /\ r.y <= 32767 /\ r.w < 65536 /\ r.h < 65536 BY <1>1, <1>2
  <2> QED BY <1>1, <1>2, <1>3, <1>4, <2>1
<1>6. ASSUME NEW n \in 0 .. r.h PROVE int16(r.y + n) = r.y + n
  <2>1. r.y + n \in Int /\ -32768 <= r.y + n /\ r.y + n <= 32767 BY <1>1, <1>2
  <2> QED BY <1>3, <2>1
<1>7. r = [x |-> r.x, y |-> r.y, w |-> r.w, h |-> r.h] OBVIOUS
<1>8. Sent(r) = r BY <1>5, <1>7 DEF Sent
<1> QED BY <1>6, <1>8

(* A line of PutImage is as long as the row that Map packed.               *)
LEMMA LineFacts ==
  ASSUME NEW w \in Nat
  PROVE  bytesPerLine(w) = 4 * w /\ \A n \in Nat : (n * bytesPerLine(w)) \div Bytes = n * w
<1>1. bytesPerLine(w) = 4 * w
  <2>1. CASE RootDepth = 24 BY <2>1 DEF bytesPerLine
  <2>2. CASE RootDepth = 32
    <3>1. (w * 32) \div 8 = 4 * w OBVIOUS
    <3> QED BY <2>2, <3>1 DEF bytesPerLine
  <2> QED BY <2>1, <2>2
<1>2. ASSUME NEW n \in Nat PROVE (n * (4 * w)) \div 4 = n * w
  <2>1. PICK m \in Nat : m = n * w BY Rows
  <2>2. n * (4 * w) = 4 * m BY <2>1
  <2>3. (4 * m) \div 4 = m OBVIOUS
  <2> QED BY <2>1, <2>2, <2>3
<1> QED BY <1>1, <1>2 DEF Bytes

(* The variables as TypeOK has them.                                       *)
LEMMA TypeFacts ==
  ASSUME TypeOK, NEW d \in Drawers
  PROVE  /\ size[d] \in Sizes /\ Width(size[d]) \in Nat \ {0} /\ Height(size[d]) \in Nat \ {0}
         /\ Pixmap[d] \in Ids \cup {0} /\ GC[d] \in Ids \cup {0} /\ 0 \notin Ids
         /\ Image[d] \in Seq(Inks \cup {Blank}) /\ pc[d] \in Labels
         /\ job[d] \in [r : Rects \cup {NoJob.r}, data : Seq(Inks \cup {Blank}), row : Nat]
         /\ job[d].row \in Nat /\ job[d].row <= job[d].r.h
         /\ job[d].r \in [x : Int, y : Int, w : Nat, h : Nat]
<1>1. size[d] \in Sizes BY DEF TypeOK
<1>2. job[d] \in [r : Rects \cup {NoJob.r}, data : Seq(Inks \cup {Blank}), row : Nat]
  BY DEF TypeOK
<1>3. NoJob.r \in [x : Int, y : Int, w : Nat, h : Nat] BY DEF NoJob
<1>4. 0 \notin Ids BY IdFacts
<1> QED BY <1>1, <1>2, <1>3, <1>4, SizeFacts DEF TypeOK

-----------------------------------------------------------------------------
(* What the steps do.                                                      *)

Same(e) ==
  /\ size'[e] = size[e] /\ Pixmap'[e] = Pixmap[e] /\ GC'[e] = GC[e] /\ Image'[e] = Image[e]
  /\ pc'[e] = pc[e] /\ job'[e] = job[e]

(* A Drw is its goroutine's own.                                           *)
LEMMA Others ==
  ASSUME TypeOK, NEW d \in Drawers, Step(d), NEW e \in Drawers, e # d
  PROVE  Same(e)
<1> USE DEF TypeOK, Same, Goto, drwVars
<1>1. CASE NewPixmapID(d) BY <1>1 DEF NewPixmapID
<1>2. CASE NewGCID(d) BY <1>2 DEF NewGCID
<1>3. CASE NewIDPanics(d) BY <1>3 DEF NewIDPanics
<1>4. CASE MakePixmap(d) BY <1>4 DEF MakePixmap
<1>5. CASE MakeGC(d) BY <1>5 DEF MakeGC
<1>6. ASSUME NEW s \in Sizes, Resize(d, s) PROVE Same(e) BY <1>6 DEF Resize
<1>7. ASSUME NEW r \in Rects, MapPack(d, r) PROVE Same(e) BY <1>7 DEF MapPack
<1>8. ASSUME NEW r \in Rects, NEW ink \in Inks, FillRect(d, r, ink) PROVE Same(e)
  BY <1>8 DEF FillRect
<1>9. CASE PutImage(d)
  <2>1. \E n : job' = [job EXCEPT ![d].row = n] BY <1>9 DEF PutImage
  <2> QED BY <1>9, <2>1 DEF PutImage
<1>10. CASE CopyArea(d) BY <1>10 DEF CopyArea
<1>11. CASE Free(d) \/ DropGC(d) BY <1>11 DEF Free, DropGC
<1> QED BY <1>1, <1>2, <1>3, <1>4, <1>5, <1>6, <1>7, <1>8, <1>9, <1>10, <1>11 DEF Step

(* Which ids are whose, for the Drw that makes a step.                     *)
LEMMA IdUse ==
  ASSUME TypeOK, OwnInv, HeldInv, NEW d \in Drawers
  PROVE  /\ pc[d] \in {"create", "recreate"} => Pixmap[d] \in Ids /\ ~InUse(Pixmap[d])
         /\ pc[d] = "creategc" => GC[d] \in Ids /\ ~InUse(GC[d])
         /\ HoldsPixmap(d) => Pixmap[d] \in Ids /\ Pixmap[d] \in DOMAIN pixmaps
         /\ HoldsGC(d) => GC[d] \in gcs
<1>1. Pixmap[d] \in Ids \cup {0} /\ GC[d] \in Ids \cup {0} BY TypeFacts
<1>2. ASSUME pc[d] \in {"create", "recreate"} PROVE Pixmap[d] \in Ids /\ ~InUse(Pixmap[d])
  <2>1. Pixmap[d] # 0 BY <1>2 DEF OwnInv
  <2>2. Pixmap[d] \notin DOMAIN pixmaps
    <3>1. ~HoldsPixmap(d) BY <1>2 DEF HoldsPixmap
    <3> QED BY <2>1, <3>1 DEF HeldInv, OwnInv
  <2>3. Pixmap[d] \notin gcs BY <2>1 DEF HeldInv, OwnInv
  <2> QED BY <1>1, <2>1, <2>2, <2>3 DEF InUse
<1>3. ASSUME pc[d] = "creategc" PROVE GC[d] \in Ids /\ ~InUse(GC[d])
  <2>1. GC[d] # 0 /\ Pixmap[d] # GC[d] BY <1>3 DEF OwnInv
  <2>2. GC[d] \notin DOMAIN pixmaps
    <3>1. \A e \in Drawers : GC[d] # Pixmap[e] BY <2>1 DEF OwnInv
    <3> QED BY <3>1 DEF HeldInv
  <2>3. GC[d] \notin gcs
    <3>1. ~HoldsGC(d) BY <1>3 DEF HoldsGC
    <3> QED BY <2>1, <3>1 DEF HeldInv, OwnInv
  <2> QED BY <1>1, <2>1, <2>2, <2>3 DEF InUse
<1>4. HoldsPixmap(d) => Pixmap[d] # 0 BY DEF HoldsPixmap, OwnInv
<1> QED BY <1>1, <1>2, <1>3, <1>4 DEF HeldInv

(* CreatePixmap finds its id free.                                         *)
LEMMA MakeFacts ==
  ASSUME TypeOK, OwnInv, HeldInv, NEW d \in Drawers, MakePixmap(d)
  PROVE  /\ Pixmap[d] \in Ids \ DOMAIN pixmaps
         /\ pixmaps' = [i \in DOMAIN pixmaps \cup {Pixmap[d]} |->
              IF i = Pixmap[d]
              THEN [size |-> size[d], pix |-> [p \in Points(size[d]) |-> Junk]] ELSE pixmaps[i]]
         /\ Image'[d] = NewRGBA(size[d])
         /\ pc[d] \in {"create", "recreate"}
         /\ pc'[d] = IF pc[d] = "create" THEN "creategc" ELSE "ready"
         /\ UNCHANGED <<gcs, window, errors, size, Pixmap, GC, idVars, job, panicked>>
<1>1. pc[d] \in {"create", "recreate"} /\ CreatePixmap(Pixmap[d], size[d]) BY DEF MakePixmap
<1>2. Pixmap[d] \in Ids /\ ~InUse(Pixmap[d]) BY <1>1, IdUse
<1>3. Pixmap[d] \notin DOMAIN pixmaps BY <1>2 DEF InUse
<1>4. /\ pixmaps' = [i \in DOMAIN pixmaps \cup {Pixmap[d]} |->
           IF i = Pixmap[d]
           THEN [size |-> size[d], pix |-> [p \in Points(size[d]) |-> Junk]] ELSE pixmaps[i]]
      /\ UNCHANGED <<gcs, window, errors>>
  BY <1>1, <1>2 DEF CreatePixmap
<1>5. Image'[d] = NewRGBA(size[d])
      /\ pc'[d] = IF pc[d] = "create" THEN "creategc" ELSE "ready"
  BY DEF MakePixmap, TypeOK, Goto
<1>6. UNCHANGED <<size, Pixmap, GC, idVars, job, panicked>> BY DEF MakePixmap
<1> QED BY <1>1, <1>2, <1>3, <1>4, <1>5, <1>6

(* CreateGC finds its id free.                                             *)
LEMMA MakeGCFacts ==
  ASSUME TypeOK, OwnInv, HeldInv, NEW d \in Drawers, MakeGC(d)
  PROVE  /\ pc[d] = "creategc" /\ pc'[d] = "ready" /\ GC[d] \in Ids
         /\ gcs' = gcs \cup {GC[d]}
         /\ UNCHANGED <<pixmaps, window, errors, drwVars, idVars, job, panicked>>
<1>1. GC[d] \in Ids /\ ~InUse(GC[d]) BY IdUse DEF MakeGC
<1>2. gcs' = gcs \cup {GC[d]} /\ UNCHANGED <<pixmaps, window, errors>>
  BY <1>1 DEF MakeGC, CreateGC
<1>3. pc[d] = "creategc" /\ pc'[d] = "ready" BY DEF MakeGC, Goto, TypeOK
<1> QED BY <1>1, <1>2, <1>3 DEF MakeGC

(* FreePixmap, in Resize and in Free, finds the pixmap there.              *)
LEMMA FreeOldFacts ==
  ASSUME TypeOK, OwnInv, HeldInv, NEW d \in Drawers, pc[d] = "ready", FreeOld(d)
  PROVE  /\ Pixmap[d] \in DOMAIN pixmaps
         /\ pixmaps' = [i \in DOMAIN pixmaps \ {Pixmap[d]} |-> pixmaps[i]]
         /\ UNCHANGED <<gcs, window, errors>>
<1>1. Pixmap[d] \in DOMAIN pixmaps BY IdUse DEF HoldsPixmap
<1> QED BY <1>1 DEF FreeOld, FreePixmap

(* FreeGC finds the GC there.                                              *)
LEMMA DropGCFacts ==
  ASSUME TypeOK, OwnInv, HeldInv, NEW d \in Drawers, DropGC(d)
  PROVE  /\ pc[d] = "freegc" /\ pc'[d] = "freed" /\ gcs' = gcs \ {GC[d]}
         /\ UNCHANGED <<pixmaps, window, errors, drwVars, idVars, job, panicked>>
<1>1. GC[d] \in gcs BY IdUse DEF DropGC, HoldsGC
<1>2. gcs' = gcs \ {GC[d]} /\ UNCHANGED <<pixmaps, window, errors>>
  BY <1>1 DEF DropGC, FreeGC
<1>3. pc[d] = "freegc" /\ pc'[d] = "freed" BY DEF DropGC, Goto, TypeOK
<1> QED BY <1>2, <1>3 DEF DropGC

-----------------------------------------------------------------------------
(* PutImage.                                                               *)

(* A chunk has rows, the data has them, and its request is not too long.   *)
LEMMA ChunkFacts ==
  ASSUME TypeOK, MapInv, NEW d \in Drawers, pc[d] = "put", job[d].row < job[d].r.h
  PROVE  /\ ChunkRows(job[d]) \in Nat \ {0} /\ job[d].row + ChunkRows(job[d]) <= job[d].r.h
         /\ Header + Bytes * (job[d].r.w * ChunkRows(job[d])) <= Longest
<1>1. PICK w \in Nat \ {0} : w = job[d].r.w BY TypeFacts DEF MapInv
<1>2. PICK left \in Nat \ {0} : left = job[d].r.h - job[d].row BY TypeFacts
<1>0. maxReq \in Nat /\ (MaxRequestLength # 0 => maxReq = Longest) /\ maxReq >= Longest
  BY DEF maxReq, Longest
<1>3. 24 + 4 * w <= maxReq
  <2>1. Header + Bytes * w <= Longest BY <1>1, RowFits DEF MapInv
  <2> QED BY <1>0, <2>1 DEF Header, Bytes, Longest
<1>4. PICK q : q = (maxReq - 24) \div (4 * w) OBVIOUS
<1>5. 4 * w \in Nat \ {0} /\ maxReq - 24 \in Nat BY <1>0, <1>3
<1>6. q \in Nat /\ q * (4 * w) <= maxReq - 24
  <2>1. /\ q \in Nat /\ (maxReq - 24) % (4 * w) \in 0 .. 4 * w - 1
        /\ maxReq - 24 = q * (4 * w) + ((maxReq - 24) % (4 * w))
    BY <1>4, <1>5, DivMod
  <2>2. q * (4 * w) \in Nat BY <1>5, <2>1, Rows
  <2> QED BY <2>1, <2>2
<1>7. MaxRows(w) = IF q < 1 THEN 1 ELSE q BY <1>4, LineFacts DEF MaxRows, Header
<1>8. MaxRows(w) \in Nat \ {0} /\ MaxRows(w) * (4 * w) <= maxReq - 24
  <2>1. CASE q < 1
    <3>1. MaxRows(w) = 1 /\ 1 * (4 * w) = 4 * w BY <1>7, <2>1
    <3> QED BY <1>0, <1>3, <3>1
  <2>2. CASE ~(q < 1) BY <1>6, <1>7, <2>2
  <2> QED BY <2>1, <2>2
<1>9. PICK n \in Nat \ {0} : n = ChunkRows(job[d]) /\ n <= left /\ n <= MaxRows(w)
  BY <1>1, <1>2, <1>8 DEF ChunkRows
<1>10. n * (4 * w) <= MaxRows(w) * (4 * w) BY <1>5, <1>8, <1>9, Rows
<1>11. n * (4 * w) = 4 * (w * n) /\ w * n \in Nat BY <1>1, <1>9
<1>12. 24 + 4 * (w * n) <= Longest
  <2>1. CASE MaxRequestLength # 0
    <3>1. MaxRows(w) * (4 * w) \in Nat BY <1>5, <1>8, Rows
    <3>2. 24 + 4 * (w * n) <= maxReq BY <1>0, <1>8, <1>10, <1>11, <3>1
    <3> QED BY <1>0, <2>1, <3>2
  <2>2. CASE MaxRequestLength = 0
    <3>1. PICK h \in Nat : h = job[d].r.h /\ n <= h BY <1>2, <1>9, TypeFacts
    <3>2. Header + Bytes * (w * h) <= Longest BY <1>1, <2>2, <3>1, RowFits DEF MapInv
    <3>3. w * n <= w * h /\ w * h \in Nat
      <4>1. w * n <= w * h BY <1>1, <1>9, <3>1, Rows
      <4> QED BY <1>1, <3>1, <4>1
    <3>4. Longest = 262140 BY <2>2 DEF Longest
    <3>5. PICK a \in Nat, b \in Nat : a = w * n /\ b = w * h BY <1>11, <3>3
    <3>6. 24 + 4 * b <= 262140 /\ a <= b BY <3>2, <3>3, <3>4, <3>5 DEF Header, Bytes
    <3> QED BY <3>4, <3>5, <3>6
  <2> QED BY <2>1, <2>2
<1>13. job[d].row + n <= job[d].r.h BY <1>2, <1>9, TypeFacts
<1> QED BY <1>1, <1>9, <1>12, <1>13 DEF Header, Bytes

(* The packed data of a rectangle that lies in the framebuffer's slice     *)
(* holds its pixels, row after row.                                        *)
LEMMA PackedFacts ==
  ASSUME TypeOK, NEW d \in Drawers, NEW r \in Rects, r.w > 0, r.h > 0, InSlice(d, r)
  PROVE  /\ Packed(d, r) \in Seq(Inks \cup {Blank}) /\ Len(Packed(d, r)) = r.w * r.h
         /\ \A a \in 0 .. r.w - 1, b \in 0 .. r.h - 1 :
              /\ RowStart(d, r, b) + a + 1 \in 1 .. Len(Image[d])
              /\ Packed(d, r)[Nth(a, b, r.w)] = Image[d][RowStart(d, r, b) + a + 1]
<1>1. /\ r.x \in Int /\ r.y \in Int /\ r.w \in Nat \ {0} /\ r.h \in Nat \ {0} /\ r.h \in Nat
      /\ Image[d] \in Seq(Inks \cup {Blank}) /\ Width(size[d]) \in Nat \ {0}
  BY TypeFacts
<1>2. r.w * r.h \in Nat BY <1>1, Rows
<1>3. ASSUME NEW a \in 0 .. r.w - 1, NEW b \in 0 .. r.h - 1
      PROVE  RowStart(d, r, b) \in Nat /\ RowStart(d, r, b) + a + 1 \in 1 .. Len(Image[d])
  <2>1. 0 <= RowStart(d, r, b) /\ RowStart(d, r, b) + r.w <= Len(Image[d]) BY DEF InSlice
  <2>2. (r.y + b) * Width(size[d]) \in Int BY <1>1
  <2>3. RowStart(d, r, b) \in Int BY <1>1, <2>2 DEF RowStart
  <2>4. RowStart(d, r, b) \in Nat BY <2>1, <2>3
  <2> QED BY <1>1, <2>1, <2>4
<1>4. ASSUME NEW k \in 1 .. r.w * r.h
      PROVE  Image[d][RowStart(d, r, PointOf(k, r.w)[2]) + PointOf(k, r.w)[1] + 1]
               \in Inks \cup {Blank}
  <2>1. PointOf(k, r.w)[1] \in 0 .. r.w - 1 /\ PointOf(k, r.w)[2] \in 0 .. r.h - 1
    BY <1>1, PointOfPixel
  <2>2. RowStart(d, r, PointOf(k, r.w)[2]) + PointOf(k, r.w)[1] + 1 \in 1 .. Len(Image[d])
    BY <1>3, <2>1
  <2> QED BY <1>1, <2>2
<1>5. Packed(d, r) = [k \in 1 .. r.w * r.h |->
        Image[d][RowStart(d, r, PointOf(k, r.w)[2]) + PointOf(k, r.w)[1] + 1]]
  BY DEF Packed
<1>6. Packed(d, r) \in Seq(Inks \cup {Blank}) /\ Len(Packed(d, r)) = r.w * r.h
  <2> HIDE DEF Packed, PointOf, RowStart
  <2>1. Packed(d, r) \in [1 .. r.w * r.h -> Inks \cup {Blank}] BY <1>4, <1>5
  <2>2. PICK n \in Nat : n = r.w * r.h BY <1>2
  <2>3. Packed(d, r) \in [1 .. n -> Inks \cup {Blank}] BY <2>1, <2>2
  <2> QED BY <2>2, <2>3
<1>7. ASSUME NEW a \in 0 .. r.w - 1, NEW b \in 0 .. r.h - 1
      PROVE  Packed(d, r)[Nth(a, b, r.w)] = Image[d][RowStart(d, r, b) + a + 1]
  <2>1. Nth(a, b, r.w) \in 1 .. r.w * r.h BY <1>1, NthPixel
  <2>2. PICK k \in 1 .. r.w * r.h : k = Nth(a, b, r.w) BY <2>1
  <2>3. PointOf(k, r.w)[1] = a /\ PointOf(k, r.w)[2] = b BY <1>1, <2>2, PixelOfPoint
  <2> QED BY <1>5, <2>2, <2>3
<1> QED BY <1>3, <1>6, <1>7

(* A part of a sequence.                                                   *)
LEMMA PartOf ==
  ASSUME NEW S, NEW s \in Seq(S), NEW m \in Nat, NEW n \in Nat \ {0}, m + n <= Len(s)
  PROVE  /\ Len(SubSeq(s, m + 1, m + n)) = n
         /\ \A k \in 1 .. n : SubSeq(s, m + 1, m + n)[k] = s[m + k]
<1>1. \A i \in m + 1 .. m + n : s[i] \in S OBVIOUS
<1>2. /\ Len(SubSeq(s, m + 1, m + n)) = IF m + 1 <= m + n THEN m + n - (m + 1) + 1 ELSE 0
      /\ \A k \in 1 .. m + n - (m + 1) + 1 : SubSeq(s, m + 1, m + n)[k] = s[m + 1 + k - 1]
  <2>1. m + 1 \in Int /\ m + n \in Int OBVIOUS
  <2> QED BY <1>1, <2>1, SubSeqProperties, SMTT(30)
<1>3. m + n - (m + 1) + 1 = n /\ \A k \in 1 .. n : m + 1 + k - 1 = m + k OBVIOUS
<1>4. PICK q : q = SubSeq(s, m + 1, m + n) OBVIOUS
<1>5. Len(q) = n BY <1>2, <1>3, <1>4
<1>6. ASSUME NEW k \in 1 .. n PROVE q[k] = s[m + k]
  <2>1. q[k] = s[m + 1 + k - 1] BY <1>2, <1>3, <1>4
  <2> QED BY <1>3, <2>1
<1> QED BY <1>4, <1>5, <1>6

(* Where a pixel of a rectangle is in the framebuffer.                     *)
LEMMA PixelIndex ==
  ASSUME TypeOK, NEW d \in Drawers, NEW r \in Rects, NEW a \in Nat, NEW b \in Nat,
         NEW p, p[1] = r.x + a, p[2] = r.y + b
  PROVE  RowStart(d, r, b) + a + 1 = p[2] * Width(size[d]) + p[1] + 1
<1>1. r.x \in Int /\ r.y + b \in Int /\ Width(size[d]) \in Nat BY TypeFacts
<1>2. PICK q \in Int : q = (r.y + b) * Width(size[d]) BY <1>1
<1>3. RowStart(d, r, b) = q + r.x BY <1>2 DEF RowStart
<1>4. q + r.x + a + 1 = q + (r.x + a) + 1 BY <1>1
<1> QED BY <1>2, <1>3, <1>4

(* The picture with the next chunk of a Map put into it.                   *)
InChunk(j, p) == /\ p \in Area(j.r) /\ j.r.y + j.row <= p[2]
                 /\ p[2] < j.r.y + j.row + ChunkRows(j)
Drawn(d) ==
  [p \in DOMAIN pixmaps[Pixmap[d]].pix |->
     IF InChunk(job[d], p) THEN At(d, p) ELSE pixmaps[Pixmap[d]].pix[p]]

(* One turn of the loop of PutImage puts the rows of a chunk.              *)
LEMMA PutFacts ==
  ASSUME TypeOK, OwnInv, HeldInv, MapInv, NEW d \in Drawers, PutImage(d)
  PROVE  /\ UNCHANGED <<gcs, window, errors, drwVars, idVars, pc, panicked>>
         /\ pc[d] = "put" /\ Pixmap[d] \in DOMAIN pixmaps
         /\ job'[d].r = job[d].r /\ job'[d].data = job[d].data
         /\ job'[d].row = job[d].row + ChunkRows(job[d])
         /\ pixmaps' = [pixmaps EXCEPT ![Pixmap[d]] = [size |-> @.size, pix |-> Drawn(d)]]
         /\ \A p \in Area(job[d].r) : At(d, p) \in Inks \cup {Blank}
<1>1. PICK r \in Rects : r = job[d].r BY DEF MapInv, PutImage
<1>2. /\ r.x \in Int /\ r.y \in Int /\ r.w \in Nat \ {0} /\ r.h \in Nat \ {0}
      /\ r = [x |-> r.x, y |-> r.y, w |-> r.w, h |-> r.h]
      /\ InSlice(d, r) /\ job[d].data = Packed(d, r) /\ Width(size[d]) \in Nat \ {0}
      /\ pc[d] = "put" /\ job[d].row < r.h
  BY <1>1, TypeFacts DEF MapInv, PutImage
<1>3. PICK row \in Nat : row = job[d].row BY TypeFacts
<1>4. PICK n \in Nat \ {0} : /\ n = ChunkRows(job[d]) /\ row + n <= r.h
                             /\ Header + Bytes * (r.w * n) <= Longest
  BY <1>1, <1>2, <1>3, ChunkFacts
<1>5. PICK data : data = SubSeq(job[d].data, row * r.w + 1, (row + n) * r.w) OBVIOUS
<1>6. /\ row * r.w \in Nat /\ n * r.w \in Nat /\ n * r.w = r.w * n
      /\ (row + n) * r.w = row * r.w + n * r.w /\ (row + n) * r.w <= r.w * r.h
  <2>1. (row + n) * r.w <= r.h * r.w /\ r.h * r.w = r.w * r.h BY <1>2, <1>4, Rows
  <2>2. (row + n) * r.w = row * r.w + (row + n - row) * r.w BY <1>2, Rows
  <2> QED BY <1>2, <2>1, <2>2, Rows
<1>7. Len(data) = r.w * n /\ \A k \in 1 .. r.w * n : data[k] = Packed(d, r)[row * r.w + k]
  <2>1. PICK m \in Nat, l \in Nat \ {0} : m = row * r.w /\ l = r.w * n
    <3>1. r.w * n \in Nat \ {0} BY <1>2
    <3> QED BY <1>6, <3>1
  <2>2. PICK s \in Seq(Inks \cup {Blank}) : s = Packed(d, r) /\ Len(s) = r.w * r.h
    BY <1>2, PackedFacts
  <2>3. data = SubSeq(s, m + 1, m + l) /\ m + l <= Len(s) BY <1>2, <1>5, <1>6, <2>1, <2>2
  <2>4. Len(data) = l /\ \A k \in 1 .. l : data[k] = s[m + k] BY SMTT(30), <2>3, PartOf
  <2> QED BY <2>1, <2>2, <2>4
<1>8. Pixmap[d] \in DOMAIN pixmaps /\ GC[d] \in gcs
  BY <1>2, IdUse DEF HoldsPixmap, HoldsGC
<1>9. ASSUME NEW p \in Area([x |-> r.x, y |-> r.y + row, w |-> r.w, h |-> n])
      PROVE  data[(p[2] - (r.y + row)) * r.w + (p[1] - r.x) + 1] = At(d, p)
  <2>1. r.y + row \in Int /\ n \in Nat BY <1>2
  <2>2. /\ p[1] \in Int /\ p[2] \in Int /\ r.x <= p[1] /\ p[1] < r.x + r.w
        /\ r.y + row <= p[2] /\ p[2] < r.y + row + n
    BY <1>2, <2>1, AreaFacts
  <2>3. PICK a \in 0 .. r.w - 1 : a = p[1] - r.x BY <1>2, <2>2
  <2>4. PICK b \in 0 .. n - 1 : b = p[2] - (r.y + row) BY <1>2, <2>2
  <2>5. b * r.w + a + 1 \in 1 .. r.w * n BY <1>2, NthPixel DEF Nth
  <2>6. data[b * r.w + a + 1] = Packed(d, r)[row * r.w + (b * r.w + a + 1)] BY <1>7, <2>5
  <2>7. row * r.w + (b * r.w + a + 1) = (row + b) * r.w + a + 1
    <3>1. (row + b) * r.w = row * r.w + (row + b - row) * r.w BY <1>2, Rows
    <3>2. row + b - row = b /\ b * r.w \in Nat BY <1>2, Rows
    <3> QED BY <1>6, <3>1, <3>2
  <2>8. row + b \in 0 .. r.h - 1 BY <1>2, <1>4
  <2>9. Packed(d, r)[Nth(a, row + b, r.w)] = Image[d][RowStart(d, r, row + b) + a + 1]
    <3>1. PICK c \in 0 .. r.h - 1 : c = row + b BY <2>8
    <3>2. \A i \in 0 .. r.w - 1, j \in 0 .. r.h - 1 :
            Packed(d, r)[Nth(i, j, r.w)] = Image[d][RowStart(d, r, j) + i + 1]
      <4>1. r.w > 0 /\ r.h > 0 /\ InSlice(d, r) BY <1>2
      <4> QED BY <4>1, PackedFacts, SMTT(30)
    <3> QED BY <3>1, <3>2, Zenon
  <2>10. RowStart(d, r, row + b) + a + 1 = p[2] * Width(size[d]) + p[1] + 1
    <3>1. p[2] = r.y + (row + b) /\ p[1] = r.x + a BY <1>2, <2>2, <2>3, <2>4
    <3> QED BY <2>8, <3>1, PixelIndex
  <2> QED BY <2>3, <2>4, <2>6, <2>7, <2>9, <2>10 DEF At, Nth
<1>10. \A p \in Area(r) : At(d, p) \in Inks \cup {Blank}
  <2> SUFFICES ASSUME NEW p \in Area(r) PROVE At(d, p) \in Inks \cup {Blank} OBVIOUS
  <2>1. /\ p[1] \in Int /\ p[2] \in Int /\ r.x <= p[1] /\ p[1] < r.x + r.w
        /\ r.y <= p[2] /\ p[2] < r.y + r.h
    BY <1>2, AreaFacts
  <2>2. PICK a \in 0 .. r.w - 1, b \in 0 .. r.h - 1 : a = p[1] - r.x /\ b = p[2] - r.y
    BY <1>2, <2>1
  <2>3. RowStart(d, r, b) + a + 1 \in 1 .. Len(Image[d]) BY <1>2, PackedFacts
  <2>4. p[1] = r.x + a /\ p[2] = r.y + b BY <1>2, <2>1, <2>2
  <2>5. RowStart(d, r, b) + a + 1 = p[2] * Width(size[d]) + p[1] + 1 BY <2>4, PixelIndex
  <2> QED BY <2>3, <2>5, TypeFacts DEF At
<1>11. \A p : p \in Area([x |-> r.x, y |-> r.y + row, w |-> r.w, h |-> n]) <=>
                p \in Area(r) /\ r.y + row <= p[2] /\ p[2] < r.y + row + n
  <2>1. r.y + row \in Int BY <1>2
  <2>2. \A p : p \in Area([x |-> r.x, y |-> r.y + row, w |-> r.w, h |-> n]) <=>
           /\ p = <<p[1], p[2]>> /\ p[1] \in Int /\ p[2] \in Int
           /\ r.x <= p[1] /\ p[1] < r.x + r.w /\ r.y + row <= p[2] /\ p[2] < r.y + row + n
    BY <1>2, <2>1, AreaFacts
  <2>3. \A p : p \in Area(r) <=>
           /\ p = <<p[1], p[2]>> /\ p[1] \in Int /\ p[2] \in Int
           /\ r.x <= p[1] /\ p[1] < r.x + r.w /\ r.y <= p[2] /\ p[2] < r.y + r.h
    BY <1>2, AreaFacts
  <2>4. \A i \in Int : r.y + row <= i => r.y <= i BY <1>2
  <2>5. \A i \in Int : i < r.y + row + n => i < r.y + r.h BY <1>2, <1>4
  <2> QED BY <2>2, <2>3, <2>4, <2>5
<1>12. PICK f : f = [p \in DOMAIN pixmaps[Pixmap[d]].pix |->
                       IF p \in Area([x |-> r.x, y |-> r.y + row, w |-> r.w, h |-> n])
                       THEN data[(p[2] - (r.y + row)) * r.w + (p[1] - r.x) + 1]
                       ELSE pixmaps[Pixmap[d]].pix[p]]
  OBVIOUS
<1>13. /\ pixmaps' = [pixmaps EXCEPT ![Pixmap[d]].pix = f] /\ UNCHANGED <<gcs, window, errors>>
  <2>1. Put(Pixmap[d], GC[d], r.x, r.y + row, r.w, n, data)
    <3>1. ChunkY(job[d]) = r.y + row
      <4>1. row \in 0 .. r.h BY <1>2, <1>3
      <4> QED BY <1>1, <1>3, <4>1, SentFacts DEF ChunkY
    <3>2. /\ (row * bytesPerLine(r.w)) \div Bytes = row * r.w
          /\ ((row + n) * bytesPerLine(r.w)) \div Bytes = (row + n) * r.w
      <4>1. r.w \in Nat /\ row + n \in Nat BY <1>2
      <4> QED BY <4>1, LineFacts
    <3> QED BY <1>1, <1>3, <1>4, <1>5, <3>1, <3>2 DEF PutImage
  <2>2. ~(Header + Bytes * Len(data) > Longest \/ Len(data) # r.w * n)
    <3>1. Len(data) = r.w * n /\ r.w * n \in Nat BY <1>6, <1>7
    <3> QED BY <1>4, <3>1 DEF Header, Bytes, Longest
  <2> QED BY <1>8, <1>12, <2>1, <2>2 DEF Put
<1>14. pixmaps' = [pixmaps EXCEPT ![Pixmap[d]] = [size |-> @.size, pix |-> f]]
  <2>1. pixmaps[Pixmap[d]] \in [size : Sizes, pix : UNION {[Points(s) -> Pixels] : s \in Sizes}]
    BY <1>8 DEF TypeOK
  <2>2. [pixmaps[Pixmap[d]] EXCEPT !.pix = f] = [size |-> pixmaps[Pixmap[d]].size, pix |-> f]
    BY <2>1
  <2> QED BY <1>13, <2>2
<1>15. f = Drawn(d)
  <2>1. \A p : InChunk(job[d], p) <=>
                 p \in Area([x |-> r.x, y |-> r.y + row, w |-> r.w, h |-> n])
    BY <1>1, <1>3, <1>4, <1>11 DEF InChunk
  <2> QED BY <1>9, <1>12, <2>1 DEF Drawn
<1>16. /\ job'[d].r = job[d].r /\ job'[d].data = job[d].data
       /\ job'[d].row = job[d].row + ChunkRows(job[d])
  <2>1. PICK m : m = NextRow(job[d]) OBVIOUS
  <2>2. job' = [job EXCEPT ![d].row = m] BY <2>1 DEF PutImage
  <2>3. job'[d] = [job[d] EXCEPT !.row = m] BY <2>2 DEF TypeOK
  <2>4. job[d] \in [r : Rects \cup {NoJob.r}, data : Seq(Inks \cup {Blank}), row : Nat]
    BY TypeFacts
  <2> QED BY <2>1, <2>3, <2>4 DEF NextRow
<1>17. UNCHANGED <<gcs, window, errors, drwVars, idVars, pc, panicked>> BY <1>13 DEF PutImage
<1>18. \A p \in Area(job[d].r) : At(d, p) \in Inks \cup {Blank} BY <1>1, <1>10
<1> QED BY <1>2, <1>8, <1>14, <1>15, <1>16, <1>17, <1>18, Zenon

-----------------------------------------------------------------------------
(* Types.                                                                  *)

Pictures == UNION {[Points(s) -> Pixels] : s \in Sizes}
PixmapType ==
  /\ DOMAIN pixmaps \subseteq Ids
  /\ pixmaps \in [DOMAIN pixmaps -> [size : Sizes, pix : Pictures]]
  /\ \A i \in DOMAIN pixmaps : DOMAIN pixmaps[i].pix = Points(pixmaps[i].size)

(* The pictures of the pixmaps.                                            *)
LEMMA PictureFacts ==
  ASSUME PixmapType, NEW i \in DOMAIN pixmaps
  PROVE  /\ pixmaps[i].size \in Sizes
         /\ pixmaps[i].pix \in [Points(pixmaps[i].size) -> Pixels]
<1>1. pixmaps[i].size \in Sizes /\ pixmaps[i].pix \in Pictures BY DEF PixmapType
<1>2. PICK s \in Sizes : pixmaps[i].pix \in [Points(s) -> Pixels] BY <1>1 DEF Pictures
<1>3. DOMAIN pixmaps[i].pix = Points(pixmaps[i].size) BY DEF PixmapType
<1> QED BY <1>1, <1>2, <1>3

(* What a step of a Drw makes of the pixmaps are pixmaps.                  *)
LEMMA PixmapStep ==
  ASSUME TypeOK, OwnInv, HeldInv, MapInv, PixmapType, NEW d \in Drawers, Step(d)
  PROVE  PixmapType'
<1>1. CASE MakePixmap(d)
  <2>1. PICK f : f = [p \in Points(size[d]) |-> Junk] OBVIOUS
  <2>2. size[d] \in Sizes /\ f \in Pictures /\ DOMAIN f = Points(size[d])
    BY <2>1, TypeFacts DEF Pictures, Pixels
  <2>3. PICK m : m = [size |-> size[d], pix |-> f] OBVIOUS
  <2>4. m \in [size : Sizes, pix : Pictures] /\ DOMAIN m.pix = Points(m.size) BY <2>2, <2>3
  <2>5. pixmaps' = [i \in DOMAIN pixmaps \cup {Pixmap[d]} |-> IF i = Pixmap[d] THEN m ELSE pixmaps[i]]
        /\ Pixmap[d] \in Ids
    BY <1>1, <2>1, <2>3, MakeFacts
  <2> QED BY <2>4, <2>5 DEF PixmapType
<1>2. CASE pc[d] = "ready" /\ FreeOld(d)
  <2>1. pixmaps' = [i \in DOMAIN pixmaps \ {Pixmap[d]} |-> pixmaps[i]] BY <1>2, FreeOldFacts
  <2> QED BY <2>1 DEF PixmapType
<1>3. CASE PutImage(d)
  <2>1. /\ pixmaps' = [pixmaps EXCEPT ![Pixmap[d]] = [size |-> @.size, pix |-> Drawn(d)]]
        /\ \A p \in Area(job[d].r) : At(d, p) \in Inks \cup {Blank}
        /\ Pixmap[d] \in DOMAIN pixmaps
    BY <1>3, PutFacts
  <2>2. PICK s \in Sizes : s = pixmaps[Pixmap[d]].size BY <2>1, PictureFacts
  <2>3. pixmaps[Pixmap[d]].pix \in [Points(s) -> Pixels] BY <2>1, <2>2, PictureFacts
  <2>4. PICK f : f = Drawn(d) OBVIOUS
  <2>5. f \in [Points(s) -> Pixels] BY <2>1, <2>3, <2>4 DEF Drawn, InChunk, Pixels
  <2>6. f \in Pictures /\ DOMAIN f = Points(s) BY <2>5 DEF Pictures
  <2>7. PICK m : m = [size |-> s, pix |-> f] OBVIOUS
  <2>8. m \in [size : Sizes, pix : Pictures] /\ DOMAIN m.pix = Points(m.size) BY <2>6, <2>7
  <2>9. pixmaps' = [pixmaps EXCEPT ![Pixmap[d]] = m] BY <2>1, <2>2, <2>4, <2>7
  <2> QED BY <2>1, <2>8, <2>9 DEF PixmapType
<1>4. UNCHANGED pixmaps \/ MakePixmap(d) \/ (pc[d] = "ready" /\ FreeOld(d)) \/ PutImage(d)
  <2>1. CASE NewPixmapID(d) \/ NewGCID(d) \/ NewIDPanics(d)
    BY <2>1 DEF NewPixmapID, NewGCID, NewIDPanics, serverVars
  <2>2. CASE MakeGC(d) BY <2>2, MakeGCFacts
  <2>3. CASE DropGC(d) BY <2>3, DropGCFacts
  <2>4. ASSUME NEW s \in Sizes, Resize(d, s) PROVE pc[d] = "ready" /\ FreeOld(d)
    BY <2>4 DEF Resize
  <2>5. ASSUME NEW r \in Rects, MapPack(d, r) PROVE UNCHANGED pixmaps
    BY <2>5 DEF MapPack, serverVars
  <2>6. ASSUME NEW r \in Rects, NEW ink \in Inks, FillRect(d, r, ink) PROVE UNCHANGED pixmaps
    BY <2>6 DEF FillRect, serverVars
  <2>7. CASE CopyArea(d) BY <2>7 DEF CopyArea, Copy, Complain
  <2>8. CASE Free(d) BY <2>8 DEF Free
  <2> QED BY <2>1, <2>2, <2>3, <2>4, <2>5, <2>6, <2>7, <2>8 DEF Step
<1>5. UNCHANGED pixmaps => PixmapType' BY DEF PixmapType
<1> QED BY <1>1, <1>2, <1>3, <1>4, <1>5
(* CopyArea finds the pixmap and the GC, and shows the picture.            *)
LEMMA CopyFacts ==
  ASSUME TypeOK, OwnInv, HeldInv, NEW d \in Drawers, CopyArea(d)
  PROVE  /\ pc[d] = "put" /\ job[d].row >= job[d].r.h /\ pc'[d] = "ready" /\ job'[d] = NoJob
         /\ Pixmap[d] \in DOMAIN pixmaps
         /\ window' = [window EXCEPT ![d] = [p \in Screen |->
              IF p \in Area(job[d].r) /\ p \in DOMAIN pixmaps[Pixmap[d]].pix
              THEN pixmaps[Pixmap[d]].pix[p] ELSE @[p]]]
         /\ UNCHANGED <<pixmaps, gcs, errors, drwVars, idVars, panicked>>
<1>1. pc[d] = "put" /\ job[d].row >= job[d].r.h BY DEF CopyArea
<1>2. Pixmap[d] \in DOMAIN pixmaps /\ GC[d] \in gcs BY <1>1, IdUse DEF HoldsPixmap, HoldsGC
<1>3. DOMAIN window[d] = Screen BY DEF TypeOK
<1>4. /\ window' = [window EXCEPT ![d] = [p \in Screen |->
           IF p \in Area(job[d].r) /\ p \in DOMAIN pixmaps[Pixmap[d]].pix
           THEN pixmaps[Pixmap[d]].pix[p] ELSE @[p]]]
      /\ UNCHANGED <<pixmaps, gcs, errors>>
  BY <1>2, <1>3 DEF CopyArea, Copy
<1>5. pc'[d] = "ready" /\ job'[d] = NoJob BY DEF CopyArea, Goto, TypeOK
<1>6. UNCHANGED <<drwVars, idVars, panicked>> BY DEF CopyArea
<1> QED BY <1>1, <1>2, <1>4, <1>5, <1>6

(* The server accepts every request.                                       *)
LEMMA Accepted ==
  ASSUME TypeOK, OwnInv, HeldInv, MapInv, NEW d \in Drawers, Step(d)
  PROVE  UNCHANGED errors
<1>1. CASE NewPixmapID(d) \/ NewGCID(d) \/ NewIDPanics(d)
  BY <1>1 DEF NewPixmapID, NewGCID, NewIDPanics, serverVars
<1>2. CASE MakePixmap(d) BY <1>2, MakeFacts
<1>3. CASE MakeGC(d) BY <1>3, MakeGCFacts
<1>4. CASE DropGC(d) BY <1>4, DropGCFacts
<1>5. ASSUME NEW s \in Sizes, Resize(d, s) PROVE UNCHANGED errors
  BY <1>5, FreeOldFacts DEF Resize
<1>6. CASE Free(d) BY <1>6, FreeOldFacts DEF Free
<1>7. ASSUME NEW r \in Rects, MapPack(d, r) PROVE UNCHANGED errors
  BY <1>7 DEF MapPack, serverVars
<1>8. ASSUME NEW r \in Rects, NEW ink \in Inks, FillRect(d, r, ink) PROVE UNCHANGED errors
  BY <1>8 DEF FillRect, serverVars
<1>9. CASE PutImage(d) BY <1>9, PutFacts
<1>10. CASE CopyArea(d) BY <1>10, CopyFacts
<1> QED BY <1>1, <1>2, <1>3, <1>4, <1>5, <1>6, <1>7, <1>8, <1>9, <1>10 DEF Step

(* MapPack packs the rectangle, or runs off the end of the framebuffer.    *)
LEMMA PackFacts ==
  ASSUME TypeOK, NEW d \in Drawers, NEW r \in Rects, MapPack(d, r)
  PROVE  /\ pc[d] = "ready" /\ r.w > 0 /\ r.h > 0
         /\ \/ /\ InSlice(d, r) /\ pc'[d] = "put" /\ UNCHANGED panicked
               /\ job'[d] = [r |-> r, data |-> Packed(d, r), row |-> 0]
               /\ job' = [job EXCEPT ![d] = [r |-> r, data |-> Packed(d, r), row |-> 0]]
            \/ panicked' = "slice" /\ UNCHANGED <<job, pc>>
         /\ UNCHANGED <<drwVars, idVars, serverVars>>
<1>1. Sent(r) = r BY SentFacts
<1> QED BY <1>1 DEF MapPack, Goto, TypeOK

(* Everything but the pixmaps and the ids keeps its type.                  *)
LEMMA TypeStep ==
  ASSUME TypeOK, NoProtocolErrors, IdInv, OwnInv, HeldInv, MapInv, NEW d \in Drawers, Step(d)
  PROVE  TypeOK'
<1>0. PixmapType BY DEF TypeOK, PixmapType, Pictures
<1>1. /\ DOMAIN pixmaps' \subseteq Ids
      /\ pixmaps' \in [DOMAIN pixmaps' ->
           [size : Sizes, pix : UNION {[Points(s) -> Pixels] : s \in Sizes}]]
      /\ \A i \in DOMAIN pixmaps' : DOMAIN pixmaps'[i].pix = Points(pixmaps'[i].size)
  BY <1>0, PixmapStep DEF PixmapType, Pictures
<1>2. errors' = {} BY Accepted DEF NoProtocolErrors
<1>3. pc' \in [Drawers -> Labels]
  <2>1. pc' = pc \/ \E l \in Labels : pc' = [pc EXCEPT ![d] = l]
    BY DEF Step, NewPixmapID, NewGCID, NewIDPanics, MakePixmap, MakeGC, Resize, Free, DropGC,
           FillRect, MapPack, PutImage, CopyArea, Goto, Labels
  <2> QED BY <2>1 DEF TypeOK
<1>4. gcs' \subseteq Ids
  <2>1. gcs' = gcs \/ (GC[d] \in Ids /\ gcs' = gcs \cup {GC[d]}) \/ gcs' = gcs \ {GC[d]}
    <3>1. CASE MakeGC(d) BY <3>1, MakeGCFacts
    <3>2. CASE DropGC(d) BY <3>2, DropGCFacts
    <3>3. CASE MakePixmap(d) BY <3>3, MakeFacts
    <3>4. CASE PutImage(d) BY <3>4, PutFacts
    <3>5. CASE CopyArea(d) BY <3>5, CopyFacts
    <3>6. CASE (\E s \in Sizes : Resize(d, s)) \/ Free(d) BY <3>6, FreeOldFacts DEF Resize, Free
    <3> QED BY <3>1, <3>2, <3>3, <3>4, <3>5, <3>6
            DEF Step, NewPixmapID, NewGCID, NewIDPanics, FillRect, MapPack, serverVars
  <2> QED BY <2>1 DEF TypeOK
<1>5. window' \in [Drawers -> [Screen -> Pixels]]
  <2>1. CASE CopyArea(d)
    <3>1. PICK f : f = [p \in Screen |->
                IF p \in Area(job[d].r) /\ p \in DOMAIN pixmaps[Pixmap[d]].pix
                THEN pixmaps[Pixmap[d]].pix[p] ELSE window[d][p]]
      OBVIOUS
    <3>2. window' = [window EXCEPT ![d] = f] BY <2>1, <3>1, CopyFacts
    <3>3. \A p \in DOMAIN pixmaps[Pixmap[d]].pix : pixmaps[Pixmap[d]].pix[p] \in Pixels
      BY <1>0, <2>1, PictureFacts, CopyFacts
    <3>4. f \in [Screen -> Pixels] BY <3>1, <3>3 DEF TypeOK
    <3> QED BY <3>2, <3>4 DEF TypeOK
  <2>2. CASE ~CopyArea(d)
    <3>1. UNCHANGED window
      <4>1. CASE MakeGC(d) BY <4>1, MakeGCFacts
      <4>2. CASE DropGC(d) BY <4>2, DropGCFacts
      <4>3. CASE MakePixmap(d) BY <4>3, MakeFacts
      <4>4. CASE PutImage(d) BY <4>4, PutFacts
      <4>5. CASE (\E s \in Sizes : Resize(d, s)) \/ Free(d) BY <4>5, FreeOldFacts DEF Resize, Free
      <4> QED BY <2>2, <4>1, <4>2, <4>3, <4>4, <4>5
              DEF Step, NewPixmapID, NewGCID, NewIDPanics, FillRect, MapPack, serverVars
    <3> QED BY <3>1 DEF TypeOK
  <2> QED BY <2>1, <2>2
<1>6. /\ idNext' \in Ids \cup {0} /\ handed' \subseteq Ids
      /\ Pixmap' \in [Drawers -> Ids \cup {0}] /\ GC' \in [Drawers -> Ids \cup {0}]
  <2>1. ASSUME NEW id \in Ids, NewID(id) PROVE idNext' \in Ids \cup {0} /\ handed' \subseteq Ids
    BY <2>1 DEF NewID, TypeOK
  <2>2. CASE NewPixmapID(d) BY <2>1, <2>2 DEF NewPixmapID, TypeOK
  <2>3. CASE NewGCID(d) BY <2>1, <2>3 DEF NewGCID, TypeOK
  <2>4. CASE ~NewPixmapID(d) /\ ~NewGCID(d)
    <3>1. UNCHANGED <<idVars, Pixmap, GC>>
      BY <2>4 DEF Step, NewIDPanics, MakePixmap, MakeGC, Resize, Free, DropGC,
                  FillRect, MapPack, PutImage, CopyArea, drwVars
    <3> QED BY <3>1 DEF TypeOK, idVars
  <2> QED BY <2>2, <2>3, <2>4
<1>7. size' \in [Drawers -> Sizes]
  <2>1. UNCHANGED size \/ \E s \in Sizes : Resize(d, s)
    BY DEF Step, NewPixmapID, NewGCID, NewIDPanics, MakePixmap, MakeGC, Free, DropGC,
           FillRect, MapPack, PutImage, CopyArea, drwVars
  <2> QED BY <2>1 DEF Resize, TypeOK
<1>8. Image' \in [Drawers -> Seq(Inks \cup {Blank})]
  <2>1. CASE MakePixmap(d)
    <3>1. PICK n \in Nat : n = Width(size[d]) * Height(size[d]) BY TypeFacts, Rows
    <3>2. NewRGBA(size[d]) \in [1 .. n -> Inks \cup {Blank}] BY <3>1 DEF NewRGBA
    <3>3. NewRGBA(size[d]) \in Seq(Inks \cup {Blank}) BY <3>2
    <3> QED BY <2>1, <3>3 DEF MakePixmap, TypeOK
  <2>2. ASSUME NEW r \in Rects, NEW ink \in Inks, FillRect(d, r, ink)
        PROVE  Image' \in [Drawers -> Seq(Inks \cup {Blank})]
    <3>1. PICK n \in Nat : n = Len(Image[d]) /\ DOMAIN Image[d] = 1 .. n BY TypeFacts
    <3>2. PICK f : f = [k \in DOMAIN Image[d] |->
                    IF PointOf(k, Width(size[d])) \in Area(r) THEN ink ELSE Image[d][k]]
      OBVIOUS
    <3>3. f \in [1 .. n -> Inks \cup {Blank}] BY <3>1, <3>2, TypeFacts
    <3>4. f \in Seq(Inks \cup {Blank}) BY <3>3
    <3>5. Image' = [Image EXCEPT ![d] = f] BY <2>2, <3>2 DEF FillRect
    <3> QED BY <3>4, <3>5 DEF TypeOK
  <2>3. UNCHANGED Image \/ MakePixmap(d) \/ \E r \in Rects, ink \in Inks : FillRect(d, r, ink)
    BY DEF Step, NewPixmapID, NewGCID, NewIDPanics, MakeGC, Resize, Free, DropGC,
           MapPack, PutImage, CopyArea, drwVars
  <2> QED BY <2>1, <2>2, <2>3 DEF TypeOK
<1>9. /\ job' \in [Drawers -> [r : Rects \cup {NoJob.r}, data : Seq(Inks \cup {Blank}), row : Nat]]
      /\ \A e \in Drawers : job'[e].row <= job'[e].r.h
  <2> DEFINE J == [r : Rects \cup {NoJob.r}, data : Seq(Inks \cup {Blank}), row : Nat]
  <2>1. ASSUME NEW j \in J, j.row <= j.r.h, job' = [job EXCEPT ![d] = j] PROVE <1>9!:
    BY <2>1 DEF TypeOK
  <2>2. CASE CopyArea(d)
    <3>1. NoJob \in J /\ NoJob.row <= NoJob.r.h BY DEF NoJob
    <3> QED BY <2>1, <2>2, <3>1 DEF CopyArea
  <2>3. ASSUME NEW r \in Rects, MapPack(d, r) PROVE <1>9!:
    <3>1. CASE UNCHANGED job BY <3>1 DEF TypeOK
    <3>2. CASE ~UNCHANGED job
      <4>1. /\ r.w > 0 /\ r.h > 0 /\ InSlice(d, r)
            /\ job' = [job EXCEPT ![d] = [r |-> r, data |-> Packed(d, r), row |-> 0]]
        BY <2>3, <3>2, PackFacts
      <4>2. PICK s \in Seq(Inks \cup {Blank}) : s = Packed(d, r) BY <4>1, PackedFacts
      <4>3. PICK j \in J : j = [r |-> r, data |-> s, row |-> 0] OBVIOUS
      <4>4. j.row <= j.r.h BY <4>3
      <4>5. job' = [job EXCEPT ![d] = j] BY <4>1, <4>2, <4>3
      <4> QED BY <2>1, <4>4, <4>5
    <3> QED BY <3>1, <3>2
  <2>4. CASE PutImage(d)
    <3>1. PICK m : m = NextRow(job[d]) OBVIOUS
    <3>2. job' = [job EXCEPT ![d].row = m] BY <2>4, <3>1 DEF PutImage
    <3>3. job[d] \in J BY TypeFacts
    <3>4. PICK j : j = [r |-> job[d].r, data |-> job[d].data, row |-> m] OBVIOUS
    <3>5. job' = [job EXCEPT ![d] = j]
      <4>1. [job[d] EXCEPT !.row = m] = j BY <3>3, <3>4
      <4> QED BY <3>2, <4>1
    <3>6. /\ m = job[d].row + ChunkRows(job[d]) /\ ChunkRows(job[d]) \in Nat
          /\ job[d].row + ChunkRows(job[d]) <= job[d].r.h
      BY <2>4, <3>1, ChunkFacts DEF NextRow, PutImage
    <3>7. j \in J /\ j.row <= j.r.h BY <3>3, <3>4, <3>6
    <3> QED BY <2>1, <3>5, <3>7
  <2>5. UNCHANGED job \/ CopyArea(d) \/ PutImage(d) \/ \E r \in Rects : MapPack(d, r)
    BY DEF Step, NewPixmapID, NewGCID, NewIDPanics, MakePixmap, MakeGC, Resize, Free, DropGC,
           FillRect
  <2>6. UNCHANGED job => <1>9!: BY DEF TypeOK
  <2> QED BY <2>2, <2>3, <2>4, <2>5, <2>6
<1>10. panicked' \in {"no", "ids", "slice"}
  <2>1. ASSUME NEW r \in Rects, MapPack(d, r) PROVE panicked' \in {panicked, "slice"}
    BY <2>1, PackFacts
  <2>2. UNCHANGED panicked \/ panicked' = "ids" \/ \E r \in Rects : MapPack(d, r)
    BY DEF Step, NewPixmapID, NewGCID, NewIDPanics, MakePixmap, MakeGC, Resize, Free, DropGC,
           FillRect, PutImage, CopyArea
  <2> QED BY <2>1, <2>2 DEF TypeOK
<1> QED BY <1>1, <1>2, <1>3, <1>4, <1>5, <1>6, <1>7, <1>8, <1>9, <1>10 DEF TypeOK

-----------------------------------------------------------------------------
(* Who holds what.                                                         *)

(* Every step hands out the next id, or none.                              *)
LEMMA IdStep ==
  ASSUME TypeOK, IdInv, NEW d \in Drawers, Step(d)
  PROVE  /\ IdInv'
         /\ NewPixmapID(d) \/ NewGCID(d) \/ UNCHANGED <<idVars, Pixmap, GC>>
<1>1. NewPixmapID(d) \/ NewGCID(d) \/ UNCHANGED <<idVars, Pixmap, GC>>
  BY DEF Step, NewIDPanics, MakePixmap, MakeGC, Resize, Free, DropGC,
         FillRect, MapPack, PutImage, CopyArea, drwVars
<1>2. ASSUME NEW id \in Ids, NewID(id) PROVE IdInv' BY <1>2, NewIDFacts DEF TypeOK
<1>3. UNCHANGED idVars => IdInv' BY DEF IdInv, idVars
<1> QED BY <1>1, <1>2, <1>3 DEF NewPixmapID, NewGCID

(* An id stays whose it is, and a new one is nobody else's.                *)
LEMMA OwnStep ==
  ASSUME TypeOK, IdInv, OwnInv, HeldInv, NEW d \in Drawers, Step(d)
  PROVE  OwnInv'
<1>0. /\ \A e \in Drawers \ {d} : Same(e)
      /\ \A e \in Drawers : Pixmap[e] \in Ids \cup {0} /\ GC[e] \in Ids \cup {0} /\ 0 \notin Ids
  BY Others, TypeFacts
<1>1. CASE NewPixmapID(d)
  <2>1. PICK id \in Ids : NewID(id) /\ Pixmap'[d] = id BY <1>1 DEF NewPixmapID, TypeOK
  <2>2. id \notin handed /\ handed' = handed \cup {id} BY <2>1, NewIDFacts DEF TypeOK
  <2>3. /\ GC' = GC /\ pc[d] \in {"pixid", "reid"}
        /\ pc'[d] = IF pc[d] = "pixid" THEN "gcid" ELSE "recreate"
    BY <1>1 DEF NewPixmapID, Goto, TypeOK
  <2> QED BY <1>0, <2>1, <2>2, <2>3 DEF OwnInv, Same
<1>2. CASE NewGCID(d)
  <2>1. PICK id \in Ids : NewID(id) /\ GC'[d] = id BY <1>2 DEF NewGCID, TypeOK
  <2>2. id \notin handed /\ handed' = handed \cup {id} BY <2>1, NewIDFacts DEF TypeOK
  <2>3. Pixmap' = Pixmap /\ pc[d] = "gcid" /\ pc'[d] = "create"
    BY <1>2 DEF NewGCID, Goto, TypeOK
  <2> QED BY <1>0, <2>1, <2>2, <2>3 DEF OwnInv, Same
<1>3. CASE UNCHANGED <<idVars, Pixmap, GC>> /\ ~NewPixmapID(d) /\ ~NewGCID(d)
  <2>1. /\ pc'[d] = "pixid" <=> pc[d] = "pixid"
        /\ pc'[d] \in {"pixid", "gcid"} <=> pc[d] \in {"pixid", "gcid"}
    <3>1. ASSUME pc[d] \notin {"pixid", "gcid"}, NEW l \in Labels \ {"pixid", "gcid"}, Goto(d, l)
          PROVE  <2>1!:
      BY <3>1 DEF Goto, TypeOK
    <3>2. UNCHANGED pc => <2>1!: OBVIOUS
    <3> QED BY <1>3, <3>1, <3>2
            DEF Step, NewIDPanics, MakePixmap, MakeGC, Resize, Free, DropGC,
                FillRect, MapPack, PutImage, CopyArea, Labels
  <2> QED BY <1>0, <1>3, <2>1 DEF OwnInv, Same, idVars
<1> QED BY <1>1, <1>2, <1>3, IdStep

(* A step changes at most its own Drw's pixmap and GC on the server.       *)
LEMMA ServerStep ==
  ASSUME TypeOK, OwnInv, HeldInv, MapInv, NEW d \in Drawers, Step(d)
  PROVE  /\ \A i \in DOMAIN pixmaps : i # Pixmap[d] =>
              i \in DOMAIN pixmaps' /\ pixmaps'[i] = pixmaps[i]
         /\ \A i \in DOMAIN pixmaps' : i \in DOMAIN pixmaps \cup {Pixmap[d]}
         /\ \A i \in gcs : i # GC[d] => i \in gcs'
         /\ \A i \in gcs' : i \in gcs \cup {GC[d]}
<1>1. CASE MakePixmap(d)
  <2>1. PICK m : m = [size |-> size[d], pix |-> [p \in Points(size[d]) |-> Junk]] OBVIOUS
  <2>2. /\ pixmaps' = [i \in DOMAIN pixmaps \cup {Pixmap[d]} |->
             IF i = Pixmap[d] THEN m ELSE pixmaps[i]]
        /\ gcs' = gcs
    BY <1>1, <2>1, MakeFacts
  <2> QED BY <2>2
<1>2. CASE MakeGC(d) BY <1>2, MakeGCFacts
<1>3. CASE DropGC(d) BY <1>3, DropGCFacts
<1>4. CASE PutImage(d)
  <2>1. PICK m : /\ pixmaps' = [pixmaps EXCEPT ![Pixmap[d]] = m] /\ UNCHANGED gcs
                 /\ Pixmap[d] \in DOMAIN pixmaps
    BY <1>4, PutFacts
  <2> QED BY <2>1 DEF TypeOK
<1>5. CASE CopyArea(d) BY <1>5, CopyFacts
<1>6. CASE (\E s \in Sizes : Resize(d, s)) \/ Free(d)
  <2>1. pc[d] = "ready" /\ FreeOld(d) BY <1>6 DEF Resize, Free
  <2>2. pixmaps' = [i \in DOMAIN pixmaps \ {Pixmap[d]} |-> pixmaps[i]] /\ gcs' = gcs
    BY <2>1, FreeOldFacts
  <2> QED BY <2>2
<1> QED BY <1>1, <1>2, <1>3, <1>4, <1>5, <1>6
        DEF Step, NewPixmapID, NewGCID, NewIDPanics, FillRect, MapPack, serverVars

(* What a step must see to for its own Drw.                                *)
Held(d) ==
  /\ Pixmap[d] \in DOMAIN pixmaps' => HoldsPixmap(d)' /\ Pixmap'[d] = Pixmap[d]
  /\ GC[d] \in gcs' => HoldsGC(d)' /\ GC'[d] = GC[d]
  /\ HoldsPixmap(d)' => /\ Pixmap'[d] \in DOMAIN pixmaps'
                        /\ pixmaps'[Pixmap'[d]].size = size'[d]
                        /\ Len(Image'[d]) = Width(size'[d]) * Height(size'[d])
  /\ HoldsGC(d)' => GC'[d] \in gcs'

LEMMA HeldFrom ==
  ASSUME TypeOK, OwnInv, HeldInv, MapInv, NEW d \in Drawers, Step(d), Held(d)
  PROVE  HeldInv'
<1>0. \A e \in Drawers \ {d} : Same(e) BY Others
<1>1. ASSUME NEW i \in DOMAIN pixmaps' PROVE \E e \in Drawers : HoldsPixmap(e)' /\ Pixmap'[e] = i
  <2>1. CASE i = Pixmap[d] BY <1>1, <2>1 DEF Held
  <2>2. CASE i # Pixmap[d]
    <3>1. PICK e \in Drawers : HoldsPixmap(e) /\ Pixmap[e] = i
      BY <1>1, <2>2, ServerStep DEF HeldInv
    <3>2. Same(e) BY <1>0, <2>2, <3>1
    <3> QED BY <3>1, <3>2 DEF Same, HoldsPixmap
  <2> QED BY <2>1, <2>2
<1>2. ASSUME NEW i \in gcs' PROVE \E e \in Drawers : HoldsGC(e)' /\ GC'[e] = i
  <2>1. CASE i = GC[d] BY <1>2, <2>1 DEF Held
  <2>2. CASE i # GC[d]
    <3>1. PICK e \in Drawers : HoldsGC(e) /\ GC[e] = i
      BY <1>2, <2>2, ServerStep DEF HeldInv
    <3>2. Same(e) BY <1>0, <2>2, <3>1
    <3> QED BY <3>1, <3>2 DEF Same, HoldsGC
  <2> QED BY <2>1, <2>2
<1>3. ASSUME NEW e \in Drawers \ {d}, HoldsPixmap(e)'
      PROVE  /\ Pixmap'[e] \in DOMAIN pixmaps' /\ pixmaps'[Pixmap'[e]].size = size'[e]
             /\ Len(Image'[e]) = Width(size'[e]) * Height(size'[e])
  <2>1. Same(e) /\ HoldsPixmap(e) BY <1>0, <1>3 DEF Same, HoldsPixmap
  <2>2. Pixmap[e] # Pixmap[d] BY <1>3, <2>1 DEF OwnInv, HoldsPixmap
  <2>3. /\ Pixmap[e] \in DOMAIN pixmaps /\ pixmaps[Pixmap[e]].size = size[e]
        /\ Len(Image[e]) = Width(size[e]) * Height(size[e])
    BY <2>1 DEF HeldInv
  <2>4. Pixmap[e] \in DOMAIN pixmaps' /\ pixmaps'[Pixmap[e]] = pixmaps[Pixmap[e]]
    BY <2>2, <2>3, ServerStep
  <2> QED BY <2>1, <2>3, <2>4 DEF Same
<1>4. ASSUME NEW e \in Drawers \ {d}, HoldsGC(e)' PROVE GC'[e] \in gcs'
  <2>1. Same(e) /\ HoldsGC(e) BY <1>0, <1>4 DEF Same, HoldsGC
  <2>2. GC[e] # GC[d] BY <1>4, <2>1 DEF OwnInv, HoldsGC
  <2> QED BY <2>1, <2>2, ServerStep DEF HeldInv, Same
<1> QED BY <1>1, <1>2, <1>3, <1>4 DEF Held, HeldInv

(* The server has what the Drws hold, after every step.                    *)
LEMMA HeldStep ==
  ASSUME TypeOK, IdInv, OwnInv, HeldInv, MapInv, NEW d \in Drawers, Step(d)
  PROVE  HeldInv'
<1> SUFFICES Held(d) BY HeldFrom
<1>0. /\ HoldsPixmap(d) <=> Pixmap[d] \in DOMAIN pixmaps
      /\ HoldsGC(d) <=> GC[d] \in gcs
      /\ HoldsPixmap(d) => /\ pixmaps[Pixmap[d]].size = size[d]
                           /\ Len(Image[d]) = Width(size[d]) * Height(size[d])
  <2>1. Pixmap[d] \in DOMAIN pixmaps => HoldsPixmap(d)
    <3>1. \A e \in Drawers : Pixmap[e] = Pixmap[d] /\ Pixmap[d] # 0 => e = d BY DEF OwnInv
    <3>2. Pixmap[d] \in DOMAIN pixmaps => Pixmap[d] # 0 BY IdFacts DEF TypeOK
    <3> QED BY <3>1, <3>2 DEF HeldInv
  <2>2. GC[d] \in gcs => HoldsGC(d)
    <3>1. \A e \in Drawers : GC[e] = GC[d] /\ GC[d] # 0 => e = d BY DEF OwnInv
    <3>2. GC[d] \in gcs => GC[d] # 0 BY IdFacts DEF TypeOK
    <3> QED BY <3>1, <3>2 DEF HeldInv
  <2> QED BY <2>1, <2>2 DEF HeldInv
<1>1. ASSUME UNCHANGED <<size, GC, Pixmap, pixmaps, gcs>>, Len(Image'[d]) = Len(Image[d]),
             HoldsPixmap(d)' <=> HoldsPixmap(d), HoldsGC(d)' <=> HoldsGC(d)
      PROVE  Held(d)
  BY <1>0, <1>1 DEF Held
<1>2. CASE NewPixmapID(d)
  <2>1. /\ pc[d] \in {"pixid", "reid"} /\ pc'[d] = IF pc[d] = "pixid" THEN "gcid" ELSE "recreate"
        /\ UNCHANGED <<GC, pixmaps, gcs>>
    BY <1>2 DEF NewPixmapID, Goto, TypeOK, serverVars
  <2> QED BY <1>0, <2>1 DEF Held, HoldsPixmap, HoldsGC
<1>3. CASE NewGCID(d)
  <2>1. pc[d] = "gcid" /\ pc'[d] = "create" /\ UNCHANGED <<Pixmap, pixmaps, gcs>>
    BY <1>3 DEF NewGCID, Goto, TypeOK, serverVars
  <2> QED BY <1>0, <2>1 DEF Held, HoldsPixmap, HoldsGC
<1>4. CASE NewIDPanics(d)
  <2>1. UNCHANGED <<size, GC, Pixmap, pixmaps, gcs, Image, pc>>
    BY <1>4 DEF NewIDPanics, drwVars, serverVars
  <2> QED BY <1>1, <2>1 DEF HoldsPixmap, HoldsGC
<1>5. CASE MakePixmap(d)
  <2>1. /\ Pixmap[d] \in DOMAIN pixmaps' /\ pixmaps'[Pixmap[d]].size = size[d]
        /\ Image'[d] = NewRGBA(size[d]) /\ UNCHANGED <<size, GC, Pixmap, gcs>>
        /\ pc[d] \in {"create", "recreate"}
        /\ pc'[d] = IF pc[d] = "create" THEN "creategc" ELSE "ready"
    <3>1. PICK m : m = [size |-> size[d], pix |-> [p \in Points(size[d]) |-> Junk]] OBVIOUS
    <3>2. /\ pixmaps' = [i \in DOMAIN pixmaps \cup {Pixmap[d]} |->
               IF i = Pixmap[d] THEN m ELSE pixmaps[i]]
          /\ Image'[d] = NewRGBA(size[d]) /\ UNCHANGED <<size, GC, Pixmap, gcs>>
          /\ pc[d] \in {"create", "recreate"}
          /\ pc'[d] = IF pc[d] = "create" THEN "creategc" ELSE "ready"
      BY <1>5, <3>1, MakeFacts
    <3>3. m.size = size[d] BY <3>1
    <3> QED BY <3>2, <3>3
  <2>2. Len(NewRGBA(size[d])) = Width(size[d]) * Height(size[d])
    <3>1. PICK n \in Nat : n = Width(size[d]) * Height(size[d]) BY TypeFacts, Rows
    <3>2. NewRGBA(size[d]) \in [1 .. n -> {Blank}] BY <3>1 DEF NewRGBA
    <3> QED BY <3>1, <3>2
  <2> QED BY <1>0, <2>1, <2>2 DEF Held, HoldsPixmap, HoldsGC
<1>6. CASE MakeGC(d)
  <2>1. /\ pc[d] = "creategc" /\ pc'[d] = "ready" /\ GC[d] \in gcs'
        /\ UNCHANGED <<pixmaps, size, GC, Pixmap, Image>>
    BY <1>6, MakeGCFacts DEF drwVars
  <2> QED BY <1>0, <2>1 DEF Held, HoldsPixmap, HoldsGC
<1>7. ASSUME NEW s \in Sizes, Resize(d, s) PROVE Held(d)
  <2>1. pc[d] = "ready" /\ pc'[d] = "reid" /\ UNCHANGED <<Pixmap, GC>> /\ FreeOld(d)
    BY <1>7 DEF Resize, Goto, TypeOK
  <2>2. Pixmap[d] \notin DOMAIN pixmaps' /\ UNCHANGED gcs BY <2>1, FreeOldFacts
  <2> QED BY <1>0, <2>1, <2>2 DEF Held, HoldsPixmap, HoldsGC
<1>8. CASE Free(d)
  <2>1. pc[d] = "ready" /\ pc'[d] = "freegc" /\ UNCHANGED <<Pixmap, GC>> /\ FreeOld(d)
    BY <1>8 DEF Free, Goto, TypeOK, drwVars
  <2>2. Pixmap[d] \notin DOMAIN pixmaps' /\ UNCHANGED gcs BY <2>1, FreeOldFacts
  <2> QED BY <1>0, <2>1, <2>2 DEF Held, HoldsPixmap, HoldsGC
<1>9. CASE DropGC(d)
  <2>1. /\ pc[d] = "freegc" /\ pc'[d] = "freed" /\ GC[d] \notin gcs'
        /\ UNCHANGED <<pixmaps, size, GC, Pixmap, Image>>
    BY <1>9, DropGCFacts DEF drwVars
  <2> QED BY <1>0, <2>1 DEF Held, HoldsPixmap, HoldsGC
<1>10. ASSUME NEW r \in Rects, NEW ink \in Inks, FillRect(d, r, ink) PROVE Held(d)
  <2>1. PICK n \in Nat : n = Len(Image[d]) /\ DOMAIN Image[d] = 1 .. n BY TypeFacts
  <2>2. PICK f : f = [k \in 1 .. n |->
                  IF PointOf(k, Width(size[d])) \in Area(r) THEN ink ELSE Image[d][k]]
    OBVIOUS
  <2>3. f \in [1 .. n -> Inks \cup {Blank}] BY <2>1, <2>2, TypeFacts
  <2>4. Len(f) = n BY <2>3
  <2>5. Image'[d] = f BY <1>10, <2>1, <2>2 DEF FillRect, TypeOK
  <2>6. UNCHANGED <<size, GC, Pixmap, pixmaps, gcs, pc>> BY <1>10 DEF FillRect, serverVars
  <2> QED BY <1>1, <2>1, <2>4, <2>5, <2>6 DEF HoldsPixmap, HoldsGC
<1>11. ASSUME NEW r \in Rects, MapPack(d, r) PROVE Held(d)
  <2>1. pc[d] = "ready" /\ pc'[d] \in {"ready", "put"} /\ UNCHANGED <<drwVars, serverVars>>
    BY <1>11, PackFacts
  <2> QED BY <1>1, <2>1 DEF drwVars, serverVars, HoldsPixmap, HoldsGC
<1>12. CASE PutImage(d)
  <2>1. PICK m : /\ pixmaps' = [pixmaps EXCEPT ![Pixmap[d]] = m]
                 /\ m.size = pixmaps[Pixmap[d]].size /\ pc[d] = "put"
                 /\ UNCHANGED <<gcs, size, GC, Pixmap, Image, pc>>
    BY <1>12, PutFacts DEF drwVars
  <2>2. DOMAIN pixmaps' = DOMAIN pixmaps BY <2>1 DEF TypeOK
  <2>3. Pixmap[d] \in DOMAIN pixmaps => pixmaps'[Pixmap[d]] = m BY <2>1 DEF TypeOK
  <2> QED BY <1>0, <2>1, <2>2, <2>3 DEF Held, HoldsPixmap, HoldsGC
<1>13. CASE CopyArea(d)
  <2>1. pc[d] = "put" /\ pc'[d] = "ready" /\ UNCHANGED <<pixmaps, gcs, size, GC, Pixmap, Image>>
    BY <1>13, CopyFacts DEF drwVars
  <2> QED BY <1>1, <2>1 DEF HoldsPixmap, HoldsGC
<1> QED BY <1>2, <1>3, <1>4, <1>5, <1>6, <1>7, <1>8, <1>9, <1>10, <1>11, <1>12, <1>13 DEF Step

-----------------------------------------------------------------------------
(* What a Map has shown.                                                   *)

MapOf(d) ==
  pc[d] = "put" =>
    /\ job[d].r \in Rects /\ job[d].r.w > 0 /\ job[d].r.h > 0
    /\ InSlice(d, job[d].r) /\ job[d].data = Packed(d, job[d].r)
    /\ Shows(d, job[d].r, job[d].row)

(* What these say of a Drw depends on its size and framebuffer alone.      *)
LEMMA Framed ==
  ASSUME NEW d \in Drawers, size'[d] = size[d], Image'[d] = Image[d], NEW r
  PROVE  /\ InSlice(d, r) => InSlice(d, r)'
         /\ Packed(d, r)' = Packed(d, r)
         /\ \A p : At(d, p)' = At(d, p)
<1>1. \A j : RowStart(d, r, j)' = RowStart(d, r, j) BY DEF RowStart
<1>2. InSlice(d, r) => InSlice(d, r)' BY <1>1, Zenon DEF InSlice
<1>3. Packed(d, r)' = Packed(d, r) BY Zenon DEF Packed, RowStart
<1>4. \A p : At(d, p)' = At(d, p) BY DEF At
<1> QED BY <1>2, <1>3, <1>4

(* A chunk that is put is the framebuffer's, and the chunks put before it  *)
(* stay.                                                                   *)
LEMMA MapStep ==
  ASSUME TypeOK, IdInv, OwnInv, HeldInv, MapInv, NEW d \in Drawers, Step(d)
  PROVE  MapInv'
<1>0. \A e \in Drawers : MapOf(e) BY DEF MapInv, MapOf
<1> SUFFICES ASSUME NEW e \in Drawers, pc'[e] = "put"
             PROVE  /\ job'[e].r \in Rects /\ job'[e].r.w > 0 /\ job'[e].r.h > 0
                    /\ InSlice(e, job[e].r)' /\ job'[e].data = Packed(e, job[e].r)'
                    /\ Shows(e, job[e].r, job[e].row)'
  BY DEF MapInv
<1>1. CASE e # d
  <2>1. Same(e) BY <1>1, Others
  <2>2. pc[e] = "put" /\ HoldsPixmap(e) BY <2>1 DEF Same, HoldsPixmap
  <2>3. Pixmap[e] # Pixmap[d] BY <1>1, <2>2 DEF OwnInv
  <2>4. pixmaps'[Pixmap[e]] = pixmaps[Pixmap[e]] BY <2>2, <2>3, ServerStep DEF HeldInv
  <2>5. Shows(e, job[e].r, job[e].row)'
    BY <1>0, <2>1, <2>2, <2>4 DEF MapOf, Shows, Same, At
  <2>6. InSlice(e, job[e].r)' /\ Packed(e, job[e].r)' = Packed(e, job[e].r)
    <3>1. PICK r : r = job[e].r OBVIOUS
    <3>2. InSlice(e, r)' /\ Packed(e, r)' = Packed(e, r)
      BY <1>0, <2>1, <2>2, <3>1, Framed DEF MapOf, Same
    <3>3. job'[e].r = r BY <2>1, <3>1 DEF Same
    <3> QED BY <3>1, <3>2, <3>3
  <2> QED BY <1>0, <2>1, <2>2, <2>5, <2>6 DEF MapOf, Same
<1>2. ASSUME NEW r \in Rects, MapPack(d, r), e = d
      PROVE  /\ job'[e].r \in Rects /\ job'[e].r.w > 0 /\ job'[e].r.h > 0
             /\ InSlice(e, job[e].r)' /\ job'[e].data = Packed(e, job[e].r)'
             /\ Shows(e, job[e].r, job[e].row)'
  <2>1. /\ pc[d] = "ready" /\ r.w > 0 /\ r.h > 0 /\ InSlice(d, r)
        /\ job'[d] = [r |-> r, data |-> Packed(d, r), row |-> 0]
        /\ UNCHANGED <<size, Image, pixmaps, Pixmap>>
    BY <1>2, PackFacts DEF drwVars, serverVars
  <2>2. InSlice(d, r)' /\ Packed(d, r)' = Packed(d, r) BY <2>1, Framed
  <2>3. PICK s : s = Packed(d, r) OBVIOUS
  <2>4. job'[d].r = r /\ job'[d].data = s /\ job'[d].row = 0 BY <2>1, <2>3
  <2>5. Shows(d, job[d].r, job[d].row)'
    <3>1. /\ r.x \in Int /\ r.y \in Int /\ r.w \in Nat /\ r.h \in Nat
          /\ r = [x |-> r.x, y |-> r.y, w |-> r.w, h |-> r.h]
      OBVIOUS
    <3>2. \A p \in Area(r) : ~(p[2] < r.y + 0) BY <3>1, AreaFacts
    <3> QED BY <2>4, <3>2 DEF Shows
  <2>6. InSlice(d, job[d].r)' /\ job'[d].data = Packed(d, job[d].r)'
    BY <2>2, <2>3, <2>4, Zenon
  <2> QED BY <1>2, <2>1, <2>4, <2>5, <2>6
<1>3. ASSUME PutImage(d), e = d
      PROVE  /\ job'[e].r \in Rects /\ job'[e].r.w > 0 /\ job'[e].r.h > 0
             /\ InSlice(e, job[e].r)' /\ job'[e].data = Packed(e, job[e].r)'
             /\ Shows(e, job[e].r, job[e].row)'
  <2>1. PICK r \in Rects : r = job[d].r BY <1>0, <1>3 DEF MapOf, PutImage
  <2>2. /\ pc[d] = "put" /\ r.w > 0 /\ r.h > 0 /\ InSlice(d, r) /\ job[d].data = Packed(d, r)
        /\ Shows(d, r, job[d].row)
    BY <1>0, <1>3, <2>1 DEF MapOf, PutImage
  <2>3. /\ job'[d].r = r /\ job'[d].data = job[d].data /\ Pixmap[d] \in DOMAIN pixmaps
        /\ job'[d].row = job[d].row + ChunkRows(job[d])
        /\ pixmaps' = [pixmaps EXCEPT ![Pixmap[d]] = [size |-> @.size, pix |-> Drawn(d)]]
        /\ UNCHANGED <<size, Image, Pixmap>>
    BY <1>3, <2>1, PutFacts DEF drwVars
  <2>4. InSlice(d, r)' /\ Packed(d, r)' = Packed(d, r) /\ \A p : At(d, p)' = At(d, p)
    BY <2>2, <2>3, Framed
  <2>5. pixmaps'[Pixmap[d]].pix = Drawn(d)
    <3>1. PICK m : m = [size |-> pixmaps[Pixmap[d]].size, pix |-> Drawn(d)] OBVIOUS
    <3>2. pixmaps' = [pixmaps EXCEPT ![Pixmap[d]] = m] BY <2>3, <3>1
    <3> QED BY <2>3, <3>1, <3>2 DEF TypeOK
  <2>6. DOMAIN pixmaps[Pixmap[d]].pix = Points(size[d])
    BY <2>2, <2>3 DEF HeldInv, HoldsPixmap, TypeOK
  <2>7. ASSUME NEW p \in Points(size[d]), p \in Area(r),
               p[2] < r.y + (job[d].row + ChunkRows(job[d]))
        PROVE  Drawn(d)[p] = At(d, p)
    <3>1. CASE InChunk(job[d], p) BY <2>6, <3>1 DEF Drawn
    <3>2. CASE ~InChunk(job[d], p)
      <4>1. /\ p[2] \in Nat /\ r.y \in Int /\ job[d].row \in Nat /\ ChunkRows(job[d]) \in Nat
        <5>1. job[d].row < job[d].r.h BY <1>3 DEF PutImage
        <5>2. ChunkRows(job[d]) \in Nat BY <2>2, <5>1, ChunkFacts
        <5>3. p[2] \in Nat
          <6>1. size[d] \in Sizes BY TypeFacts
          <6> QED BY <2>7, <6>1, SizeFacts
        <5>4. r.y \in Int OBVIOUS
        <5>5. job[d].row \in Nat BY TypeFacts
        <5> QED BY <5>2, <5>3, <5>4, <5>5
      <4>2. p[2] < r.y + job[d].row BY <2>1, <2>7, <3>2, <4>1 DEF InChunk
      <4> QED BY <2>2, <2>6, <2>7, <3>2, <4>2 DEF Drawn, Shows
    <3> QED BY <3>1, <3>2
  <2>8. Shows(d, job[d].r, job[d].row)'
    <3>1. \A p \in Points(size[d]) :
            p \in Area(r) /\ p[2] < r.y + (job[d].row + ChunkRows(job[d])) =>
              pixmaps'[Pixmap'[d]].pix[p] = At(d, p)'
      BY <2>3, <2>4, <2>5, <2>7
    <3> QED BY <2>3, <3>1 DEF Shows
  <2>9. InSlice(d, job[d].r)' /\ job'[d].data = Packed(d, job[d].r)'
    BY <2>2, <2>3, <2>4, Zenon
  <2> QED BY <1>3, <2>2, <2>3, <2>8, <2>9
<1>4. CASE e = d /\ ~PutImage(d) /\ ~\E r \in Rects : MapPack(d, r)
  <2>1. pc'[d] # "put"
    <3>1. pc[d] # "put" => pc'[d] # "put"
      <4>1. ASSUME NEW l \in Labels \ {"put"}, Goto(d, l) PROVE pc'[d] # "put"
        BY <4>1 DEF Goto, TypeOK
      <4> QED BY <1>4, <4>1
              DEF Step, NewPixmapID, NewGCID, NewIDPanics, MakePixmap, MakeGC, Resize, Free, DropGC,
                  FillRect, CopyArea, Labels
    <3>2. pc[d] = "put" => CopyArea(d)
      BY <1>4 DEF Step, NewPixmapID, NewGCID, NewIDPanics, MakePixmap, MakeGC, Resize, Free, DropGC,
                  FillRect
    <3> QED BY <3>1, <3>2, CopyFacts
  <2> QED BY <1>4, <2>1
<1> QED BY <1>1, <1>2, <1>3, <1>4

-----------------------------------------------------------------------------
(* DInv holds at first.                                                    *)
LEMMA InvInit == Init => DInv
<1> SUFFICES ASSUME Init PROVE DInv OBVIOUS
<1>1. /\ idNext = 0 /\ handed = {} /\ panicked = "no" /\ size \in [Drawers -> Sizes]
      /\ \A d \in Drawers : Pixmap[d] = 0 /\ GC[d] = 0 /\ pc[d] = "pixid" /\ job[d] = NoJob
      /\ pixmaps = <<>> /\ DOMAIN pixmaps = {} /\ gcs = {} /\ errors = {}
  BY DEF Init
<1>2. NoJob \in [r : Rects \cup {NoJob.r}, data : Seq(Inks \cup {Blank}), row : Nat]
      /\ NoJob.row <= NoJob.r.h
  BY DEF NoJob
<1>3. TypeOK
  <2>1. [p \in Screen |-> Blank] \in [Screen -> Pixels] BY DEF Pixels
  <2>2. <<>> \in Seq(Inks \cup {Blank}) OBVIOUS
  <2>3. job \in [Drawers -> [r : Rects \cup {NoJob.r}, data : Seq(Inks \cup {Blank}), row : Nat]]
    BY <1>2 DEF Init
  <2>4. \A d \in Drawers : job[d].row <= job[d].r.h BY <1>1, <1>2
  <2>5. window \in [Drawers -> [Screen -> Pixels]] BY <2>1 DEF Init
  <2>6. /\ Image \in [Drawers -> Seq(Inks \cup {Blank})] /\ pc \in [Drawers -> Labels]
        /\ Pixmap \in [Drawers -> Ids \cup {0}] /\ GC \in [Drawers -> Ids \cup {0}]
    BY <2>2 DEF Init, Labels
  <2>7. pixmaps \in [DOMAIN pixmaps ->
          [size : Sizes, pix : UNION {[Points(s) -> Pixels] : s \in Sizes}]]
    BY <1>1
  <2> QED BY <1>1, <2>3, <2>4, <2>5, <2>6, <2>7 DEF TypeOK
<1>4. IdInv
  <2>1. \A id \in Ids : ~(id <= 0) BY IdFacts
  <2> QED BY <1>1, <2>1 DEF IdInv
<1>5. OwnInv /\ NoProtocolErrors BY <1>1 DEF OwnInv, NoProtocolErrors
<1>6. HeldInv /\ MapInv BY <1>1 DEF HeldInv, MapInv, HoldsPixmap, HoldsGC
<1> QED BY <1>3, <1>4, <1>5, <1>6 DEF DInv

(* No id is ever shared, so what a Drw has on the server is its own.       *)
THEOREM OwnServer == Spec => []DInv
<1>1. ASSUME DInv, NEW d \in Drawers, Step(d) PROVE DInv'
  <2>1. NoProtocolErrors' BY <1>1, Accepted DEF DInv, NoProtocolErrors
  <2> QED BY <1>1, <2>1, TypeStep, IdStep, OwnStep, HeldStep, MapStep DEF DInv
<1>2. DInv /\ [Next]_vars => DInv'
  <2>1. ASSUME DInv, UNCHANGED vars PROVE DInv'
    <3>1. UNCHANGED <<size, Pixmap, GC, Image, idNext, handed, pc, job, panicked, pixmaps, gcs,
                      window, errors>>
      BY <2>1 DEF vars, drwVars, idVars, serverVars
    <3>2. TypeOK' /\ NoProtocolErrors' /\ IdInv' /\ OwnInv'
      BY <2>1, <3>1 DEF DInv, TypeOK, NoProtocolErrors, IdInv, OwnInv
    <3>3. HeldInv' BY <2>1, <3>1 DEF DInv, HeldInv, HoldsPixmap, HoldsGC
    <3>4. MapInv'
      <4>1. ASSUME NEW d \in Drawers, pc'[d] = "put"
            PROVE  /\ job'[d].r \in Rects /\ job'[d].r.w > 0 /\ job'[d].r.h > 0
                   /\ InSlice(d, job[d].r)' /\ job'[d].data = Packed(d, job[d].r)'
                   /\ Shows(d, job[d].r, job[d].row)'
        <5>1. PICK r : r = job[d].r OBVIOUS
        <5>2. MapOf(d) BY <2>1 DEF DInv, MapInv, MapOf
        <5>3. InSlice(d, r)' /\ Packed(d, r)' = Packed(d, r) /\ \A q : At(d, q)' = At(d, q)
          BY <3>1, <4>1, <5>1, <5>2, Framed DEF MapOf
        <5>4. Shows(d, job[d].r, job[d].row)' BY <3>1, <4>1, <5>2, <5>3 DEF MapOf, Shows
        <5> QED BY <3>1, <4>1, <5>1, <5>2, <5>3, <5>4 DEF MapOf
      <4> QED BY <4>1 DEF MapInv
    <3> QED BY <3>2, <3>3, <3>4 DEF DInv
  <2> QED BY <1>1, <2>1 DEF Next
<1> QED BY InvInit, <1>2, PTL DEF Spec

(* Every variable holds a value of its kind.                               *)
THEOREM Types == Spec => []TypeOK
<1>1. DInv => TypeOK BY DEF DInv
<1> QED BY <1>1, OwnServer, PTL

(* The server refuses no request.                                          *)
THEOREM AllAccepted == Spec => []NoProtocolErrors
<1>1. DInv => NoProtocolErrors BY DEF DInv
<1> QED BY <1>1, OwnServer, PTL

(* Nothing that is freed, or replaced in Resize, stays on the server.      *)
THEOREM NothingLeaks == Spec => []NoLeak
<1>1. DInv => NoLeak BY DEF DInv, HeldInv, HoldsPixmap, HoldsGC, NoLeak
<1> QED BY <1>1, OwnServer, PTL

(* A Map of a rectangle inside the framebuffer never panics: the           *)
(* framebuffer has the size the Drw says, after New and after any Resize.  *)
THEOREM InsideNeverPanics == Spec => []InsideIsSafe
<1>1. ASSUME DInv, NEW d \in Drawers, NEW r \in Rects, pc[d] = "ready", Inside(d, r)
      PROVE  InSlice(d, r)
  <2>1. /\ Len(Image[d]) = Width(size[d]) * Height(size[d])
        /\ Width(size[d]) \in Nat \ {0} /\ Height(size[d]) \in Nat \ {0}
    BY <1>1, TypeFacts DEF DInv, HeldInv, HoldsPixmap
  <2>2. PICK w \in Nat \ {0}, h \in Nat \ {0} : w = Width(size[d]) /\ h = Height(size[d])
    BY <2>1
  <2>3. /\ r.x \in Nat /\ r.y \in Nat /\ r.w \in Nat /\ r.h \in Nat
        /\ r.x + r.w <= w /\ r.y + r.h <= h
    BY <1>1, <2>2 DEF Inside
  <2>4. ASSUME NEW j \in 0 .. r.h - 1
        PROVE  0 <= RowStart(d, r, j) /\ RowStart(d, r, j) + r.w <= Len(Image[d])
    <3>1. PICK i \in Nat : i = r.y + j /\ i + 1 <= h BY <2>3
    <3>2. /\ i * w \in Nat /\ (i + 1) * w <= h * w
          /\ (i + 1) * w = i * w + (i + 1 - i) * w /\ h * w = w * h
      <4>1. PICK k \in Nat : k = i + 1 /\ i <= k OBVIOUS
      <4>3. i * w \in Nat /\ k * w = i * w + (k - i) * w BY <4>1, Rows
      <4>2. (i + 1) * w <= h * w BY <3>1, Rows
      <4> QED BY <4>1, <4>2, <4>3
    <3>3. PICK q \in Nat : q = i * w BY <3>2
    <3>4. RowStart(d, r, j) = q + r.x BY <2>2, <3>1, <3>3 DEF RowStart
    <3>5. q + w <= Len(Image[d])
      <4>1. (i + 1 - i) * w = w BY <3>1
      <4> QED BY <2>1, <2>2, <3>2, <3>3, <4>1
    <3> QED BY <2>1, <2>3, <3>4, <3>5
  <2> QED BY <2>4 DEF InSlice
<1>2. DInv => InsideIsSafe BY <1>1 DEF InsideIsSafe
<1> QED BY <1>2, OwnServer, PTL

(* When Map returns, its part of the window shows the framebuffer.         *)
THEOREM MapIsShown == Spec => MapShows
<1> DEFINE Shown(d) == \A k \in DOMAIN Image[d] :
             LET p == PointOf(k, Width(size[d]))
             IN p \in Area(job[d].r) => window'[d][p] = Image[d][k]
<1>1. ASSUME DInv, [Next]_vars, NEW d \in Drawers, pc[d] = "put", pc'[d] = "ready"
      PROVE  Shown(d)
  <2>1. CopyArea(d)
    <3>1. \E e \in Drawers : Step(e) BY <1>1 DEF Next, vars
    <3>2. Step(d) BY <1>1, <3>1, Others DEF DInv, Same
    <3>3. ~PutImage(d) BY <1>1, PutFacts DEF DInv
    <3> QED BY <1>1, <3>2, <3>3
            DEF Step, NewPixmapID, NewGCID, NewIDPanics, MakePixmap, MakeGC, Resize, Free, DropGC,
                FillRect, MapPack
  <2>2. PICK r \in Rects : r = job[d].r BY <1>1 DEF DInv, MapInv
  <2>3. /\ TypeOK /\ Shows(d, r, job[d].row) /\ job[d].row >= r.h
        /\ Len(Image[d]) = Width(size[d]) * Height(size[d])
        /\ DOMAIN pixmaps[Pixmap[d]].pix = Points(size[d])
    <3>1. Pixmap[d] \in DOMAIN pixmaps /\ pixmaps[Pixmap[d]].size = size[d]
      BY <1>1 DEF DInv, HeldInv, HoldsPixmap
    <3>2. DOMAIN pixmaps[Pixmap[d]].pix = Points(size[d]) BY <1>1, <3>1 DEF DInv, TypeOK
    <3> QED BY <1>1, <2>1, <2>2, <3>2 DEF DInv, MapInv, HeldInv, HoldsPixmap, CopyArea
  <2>4. window' = [window EXCEPT ![d] = [p \in Screen |->
          IF p \in Area(job[d].r) /\ p \in DOMAIN pixmaps[Pixmap[d]].pix
          THEN pixmaps[Pixmap[d]].pix[p] ELSE @[p]]]
    BY <1>1, <2>1, CopyFacts DEF DInv
  <2>5. ASSUME NEW k \in DOMAIN Image[d], PointOf(k, Width(size[d])) \in Area(job[d].r)
        PROVE  window'[d][PointOf(k, Width(size[d]))] = Image[d][k]
    <3>1. PICK w \in Nat \ {0}, h \in Nat : w = Width(size[d]) /\ h = Height(size[d])
      BY <2>3, TypeFacts
    <3>2. PICK p : p = PointOf(k, w) OBVIOUS
    <3>3. k \in 1 .. w * h BY SMTT(30), <2>3, <3>1, TypeFacts
    <3>4. /\ p = <<p[1], p[2]>> /\ p[1] \in 0 .. w - 1 /\ p[2] \in 0 .. h - 1
          /\ k = p[2] * w + p[1] + 1
      BY <3>2, <3>3, PointOfPixel
    <3>5. p \in Points(size[d])
      BY <3>1, <3>4 DEF Points
    <3>6. p \in Screen BY <2>3, <3>5, TypeFacts, SizeFacts
    <3>7. p \in Area(r) /\ p[2] < r.y + job[d].row
      <4>1. p \in Area(r) BY <2>2, <2>5, <3>1, <3>2
      <4>2. r.y \in Int /\ r.h \in Nat /\ job[d].row \in Nat /\ p[2] \in Nat
        BY <2>3, <3>4, TypeFacts
      <4>3. p[2] < r.y + r.h
        <5>1. /\ r.x \in Int /\ r.y \in Int /\ r.w \in Nat /\ r.h \in Nat
              /\ r = [x |-> r.x, y |-> r.y, w |-> r.w, h |-> r.h]
          OBVIOUS
        <5> QED BY <4>1, <5>1, AreaFacts
      <4> QED BY <2>3, <4>1, <4>2, <4>3
    <3>8. pixmaps[Pixmap[d]].pix[p] = Image[d][k]
      <4>1. pixmaps[Pixmap[d]].pix[p] = At(d, p) BY <2>3, <3>5, <3>7 DEF Shows
      <4> QED BY <3>1, <3>4, <4>1 DEF At
    <3>9. window'[d][p] = pixmaps[Pixmap[d]].pix[p]
      <4>1. window \in [Drawers -> [Screen -> Pixels]] BY <2>3 DEF TypeOK
      <4> QED BY <2>2, <2>3, <2>4, <3>5, <3>6, <3>7, <4>1
    <3> QED BY <3>1, <3>2, <3>8, <3>9
  <2> QED BY <2>5
<1>2. DInv /\ [Next]_vars =>
        [\A d \in Drawers : pc[d] = "put" /\ pc'[d] = "ready" => Shown(d)]_vars
  BY <1>1
<1> QED BY <1>2, OwnServer, PTL DEF Spec, MapShows

(* Under a mask without zeroes at its low end, NewID panics only when      *)
(* every id has been handed out.                                           *)
THEOREM AllHandedOut == ASSUME IdUnit = 1 PROVE Spec => []PanicMeansExhausted
<1>1. Init => PanicMeansExhausted BY DEF Init, PanicMeansExhausted
<1>2. ASSUME DInv, PanicMeansExhausted, [Next]_vars PROVE PanicMeansExhausted'
  <2>1. CASE UNCHANGED vars
    BY <1>2, <2>1 DEF vars, idVars, PanicMeansExhausted
  <2>2. ASSUME NEW d \in Drawers, Step(d), panicked = "no", panicked' = "ids"
        PROVE  handed' = Ids
    <3>1. NewIDPanics(d)
      BY <2>2 DEF Step, NewPixmapID, NewGCID, MakePixmap, MakeGC, Resize, Free, DropGC,
                  FillRect, MapPack, PutImage, CopyArea
    <3>2. Masked(idNext + 1) = 0 /\ handed' = handed BY <3>1 DEF NewIDPanics, idVars
    <3>3. idNext \in Nat /\ idNext < IdCount
      <4>1. idNext \in Ids \cup {0} BY <1>2 DEF DInv, TypeOK
      <4> QED BY <4>1, IdFacts
    <3>4. idNext + 1 = IdCount
      <4>1. (idNext + 1) \div 1 = idNext + 1 BY <3>3
      <4>2. (idNext + 1) % IdCount = 0 BY <3>2, <3>3, <4>1 DEF Masked
      <4>3. idNext + 1 < IdCount => (idNext + 1) % IdCount = idNext + 1 BY <3>3
      <4> QED BY <3>3, <4>2, <4>3
    <3>5. \A id \in Ids : id <= idNext BY <3>3, <3>4, IdFacts
    <3> QED BY <1>2, <3>2, <3>5 DEF DInv, IdInv
  <2> QED BY <1>2, <2>1, <2>2 DEF Next, PanicMeansExhausted
<1> QED BY <1>1, <1>2, OwnServer, PTL DEF Spec
=============================================================================
