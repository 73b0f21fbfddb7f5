----------------------- MODULE FolderIngestion_proofs -----------------------
(***************************************************************************)
(* FolderIngestion for every number of sources, scans, deletes, documents  *)
(* and edits: identical bytes converge on one candidate, a scan works on   *)
(* what is true until it ends, and no good import is lost.  Every conjunct *)
(* of the inductive invariant but the first two is about one scan, and is  *)
(* kept by everybody else's steps for the same reasons (Undisturbed).      *)
(***************************************************************************)
EXTENDS FolderIngestion, FiniteSetTheorems, WellFoundedInduction, TLAPS

ScanFields == {"pc", "attempts", "snap", "listed", "todo", "pend", "mine", "hash", "dup",
               "held", "shares"}
DocFields == {"cand", "hash", "st"}

IsScan(w) ==
    /\ w = [f \in ScanFields |-> w[f]]
    /\ w.snap \in [Paths -> Row \cup {NoRow}] /\ w.pend \in [Paths -> Row \cup {NoRow}]
    /\ w.todo \subseteq Paths /\ w.mine \subseteq Docs /\ w.held \subseteq Contents
    /\ w.shares \subseteq Docs /\ w.dup \in Docs \cup {None}
IsDoc(w) ==
    /\ w = [f \in DocFields |-> w[f]]
    /\ w.cand \in Docs \cup {None}

Typed ==
    /\ disk \in [Paths -> Contents \cup {None}]
    /\ idx \in [Paths -> Row \cup {NoRow}]
    /\ doc = [d \in Docs |-> doc[d]] /\ \A d \in Docs : IsDoc(doc[d])
    /\ scan = [s \in Scanners |-> scan[s]] /\ \A s \in Scanners : IsScan(scan[s])
    /\ del \in [Deleters -> Docs \cup {None}]

\* A candidate is named by its first document and outlives none of the others;
\* a row links to a durable document.
DocsSound ==
    /\ \A d \in Docs : doc[d].st = "pending" <=> \E s \in Scanners : d \in scan[s].mine
    /\ \A s, t \in Scanners : s # t => scan[s].mine \cap scan[t].mine = {}
    /\ \A d \in Docs : doc[d].st = "free" => doc[d].cand = None
    /\ \A d \in Docs : Live(d) =>
         /\ doc[d].cand \in Docs /\ Live(doc[d].cand)
         /\ doc[doc[d].cand].cand = doc[d].cand
    /\ \A p \in Paths : idx[p].doc # None => idx[p].doc \in Docs /\ Live(idx[p].doc)

\* A delete has its candidate alone, a scan its source and its contents.
LocksSound ==
    /\ \A x \in Deleters : del[x] # None => Live(del[x]) /\ doc[del[x]].cand = del[x]
    /\ \A x, y \in Deleters : del[x] # None /\ del[x] = del[y] => x = y
    /\ \A s, t \in Scanners : InTxn(s) /\ InTxn(t) /\ Root[s] = Root[t] => s = t
    /\ \A s, t \in Scanners : s # t => scan[s].held \cap scan[t].held = {}

\* A scan touches its own source only, a path once, and read what is durable.
RowsSound(s) ==
    /\ ~InTxn(s) => /\ Touched(s) = {} /\ scan[s].mine = {}
                    /\ scan[s].held = {} /\ scan[s].shares = {}
    /\ scan[s].todo \subseteq Library[Root[s]] \ Touched(s)
    /\ Touched(s) \subseteq Library[Root[s]]
    /\ InTxn(s) => \A p \in Library[Root[s]] :
                      idx[p] \in {scan[s].snap[p], Unlinked(scan[s].snap[p])}

\* No row that the scan sees and no candidate it minted shows these bytes.
Unowned(s, h) ==
    /\ \A d \in MintedBy(s) : doc[d].hash # h
    /\ \A p \in Paths \ Touched(s) : Shows(p) => idx[p].hash # h

\* What a scan knows of the file it is at.
PlaceSound(s) ==
    /\ scan[s].pc \in {"content", "lookup", "owner", "new", "parse", "own"} =>
         scan[s].hash \in Contents /\ scan[s].todo # {}
    /\ scan[s].pc \in {"content", "lookup", "owner", "new"} => Snap(s).doc = None
    /\ scan[s].pc \in {"parse", "own"} => Snap(s).doc # None
    /\ scan[s].pc \in {"lookup", "owner", "new"} => scan[s].hash \in scan[s].held
    /\ scan[s].pc = "new" => Unowned(s, scan[s].hash)

\* The candidates a scan has locked exist, and nobody deletes them.
SharesSound(s) ==
    \A c \in scan[s].shares :
        /\ \A x \in Deleters : del[x] # c
        /\ doc[c].cand = c /\ (Live(c) \/ c \in scan[s].mine)

\* A document a scan has stored starts a candidate, under the lock of its
\* content and linked by a row of the scan, or belongs to one it has locked.
StoredSound(s, d) ==
    \/ /\ doc[d].cand = d /\ doc[d].hash \in scan[s].held
       /\ \E p \in Touched(s) : scan[s].pend[p].doc = d /\ scan[s].pend[p].hash = doc[d].hash
    \/ doc[d].cand # d /\ doc[d].cand \in scan[s].shares /\ Live(doc[d].cand)
MineSound(s) == \A d \in scan[s].mine : StoredSound(s, d)

\* A row a scan has written keeps the candidate of the durable one; its document
\* is the scan's own, or one nobody can delete before the scan ends; and bytes
\* it newly shows as their own candidate's are locked.
RowSound(s, p) ==
    LET row == scan[s].pend[p] IN
    /\ row.doc # None =>
         /\ row.doc \in Docs
         /\ \/ row.doc \in scan[s].mine
            \/ Live(row.doc) /\ (doc[row.doc].cand \in scan[s].shares \/ row.doc = idx[p].doc)
    /\ idx[p].doc # None => row.doc # None /\ doc[row.doc].cand = doc[idx[p].doc].cand
    /\ row.doc # None /\ ~row.failed /\ doc[row.doc].cand = row.doc
           /\ doc[row.doc].hash = row.hash =>
         row.hash \in scan[s].held \/ (Shows(p) /\ idx[p].hash = row.hash)
PendSound(s) == \A p \in Touched(s) : RowSound(s, p)

MintSound(s) ==
    \A d \in MintedBy(s) :
        /\ \A e \in MintedBy(s) : doc[e].hash = doc[d].hash => e = d
        /\ \A p \in Paths \ Touched(s) : Shows(p) => idx[p].hash # doc[d].hash

ScanSound(s) ==
    RowsSound(s) /\ PlaceSound(s) /\ SharesSound(s) /\ MineSound(s) /\ PendSound(s) /\ MintSound(s)

IInv == Typed /\ DocsSound /\ LocksSound /\ \A s \in Scanners : ScanSound(s)

----------------------------------------------------------------------------
\* The operators.
LEMMA FirstIsIn == ASSUME NEW T \in SUBSET Paths, T # {} PROVE First(T) \in T
<1> DEFINE Before(p) == {q \in T : Order[q] < Order[p]}
           S == {Before(p) : p \in T}
<1>1. S # {} /\ S \subseteq SUBSET T
  OBVIOUS
<1>2. IsFiniteSet(T) /\ Order \in [Paths -> Nat]
  BY FolderAssumption, FS_Subset
<1>3. IsWellFoundedOn(StrictSubsetOrdering(T), SUBSET T)
  BY <1>2, FS_FiniteSubsetsOfFinite, FS_StrictSubsetOrderingWellFounded
<1>4. PICK U \in S : \A V \in S : <<V, U>> \notin StrictSubsetOrdering(T)
  <2> HIDE DEF S
  <2> QED BY <1>1, <1>3, WFMin
<1>5. PICK p \in T : U = Before(p)
  OBVIOUS
<1>6. \A q \in T : Order[p] <= Order[q]
  <2> SUFFICES ASSUME NEW q \in T, Order[q] < Order[p] PROVE FALSE
    BY <1>2
  <2>1. Before(q) \subseteq Before(p) /\ q \in Before(p) /\ q \notin Before(q)
    BY <1>2
  <2>2. <<Before(q), U>> \in StrictSubsetOrdering(T)
    BY <2>1, <1>5 DEF StrictSubsetOrdering
  <2> QED BY <2>2, <1>4
<1> QED BY <1>6 DEF First

LEMMA Constants == None \notin Docs /\ None \notin Contents /\ Docs \subseteq Nat
BY FolderAssumption DEF Docs

LEMMA RowIs ==
    ASSUME NEW r \in Row \cup {NoRow}
    PROVE  /\ r = [hash |-> r.hash, status |-> r.status, doc |-> r.doc, failed |-> r.failed]
           /\ r.doc \in Docs \cup {None} /\ r.failed \in BOOLEAN
           /\ r # NoRow => r \in Row /\ r.hash \in Contents
           /\ r.doc # None => r # NoRow
<1>1. CASE r \in Row
  BY <1>1 DEF Row, NoRow
<1>2. CASE r = NoRow
  BY <1>2 DEF NoRow
<1> QED BY <1>1, <1>2

LEMMA UnlinkedIs ==
    ASSUME NEW r \in Row \cup {NoRow}
    PROVE  /\ Unlinked(r) \in Row \cup {NoRow} /\ Unlinked(r).doc = None
           /\ Unlinked(Unlinked(r)) = Unlinked(r)
           /\ Unlinked(r).hash = r.hash /\ Unlinked(r).status = r.status
           /\ Unlinked(r).failed = r.failed
           /\ Unlinked(r) = NoRow => r = NoRow
<1> DEFINE u == [hash |-> r.hash, status |-> r.status, doc |-> None, failed |-> r.failed]
<1>1. r = [hash |-> r.hash, status |-> r.status, doc |-> r.doc, failed |-> r.failed]
  BY RowIs
<1>2. Unlinked(r) = u /\ Unlinked(u) = u
  <2> HIDE DEF u
  <2>1. \A v : [v EXCEPT !.doc = None] = Unlinked(v)
    BY DEF Unlinked
  <2>2. [r EXCEPT !.doc = None] = u
    BY <1>1 DEF u
  <2>3. [u EXCEPT !.doc = None] = u
    BY DEF u
  <2> QED BY <2>1, <2>2, <2>3
<1>3. CASE r \in Row
  <2>1. u \in Row
    BY <1>3 DEF Row
  <2>2. u # NoRow
    BY <1>3, Constants DEF Row, NoRow
  <2> QED BY <1>2, <2>1, <2>2
<1>4. CASE r = NoRow
  <2>1. u = NoRow
    BY <1>4 DEF NoRow
  <2> QED BY <1>2, <1>4, <2>1
<1> QED BY <1>3, <1>4

LEMMA UpdatedIs ==
    ASSUME NEW s \in Scanners, idx[At(s)] \in Row,
           NEW h \in Contents, NEW st \in {"INDEXED", "FAILED", "MISSING"}
    PROVE  /\ Updated(s, h, st) \in Row /\ Updated(s, h, st) # NoRow
           /\ Updated(s, h, st).hash = h /\ Updated(s, h, st).doc = idx[At(s)].doc
           /\ ~Updated(s, h, st).failed => st # "FAILED" /\ ~idx[At(s)].failed
<1> DEFINE r == idx[At(s)]
<1>1. PICK b \in BOOLEAN : b <=> (r.failed \/ st = "FAILED")
  OBVIOUS
<1>2. r.failed \in BOOLEAN /\ r.doc \in Docs \cup {None}
  BY RowIs
<1>3. (r.failed \/ st = "FAILED") = b
  BY <1>1
<1> DEFINE u == [hash |-> h, status |-> st, doc |-> r.doc, failed |-> b]
<1>4. Updated(s, h, st) = u
  BY <1>3 DEF Updated
<1>5. u \in Row
  BY <1>2 DEF Row
<1>6. u # NoRow
  BY Constants DEF NoRow
<1>7. ~b => st # "FAILED" /\ ~r.failed
  BY <1>1
<1>8. u.hash = h /\ u.doc = r.doc /\ u.failed = b
  OBVIOUS
<1> HIDE DEF u, r
<1>9. /\ Updated(s, h, st) \in Row /\ Updated(s, h, st) # NoRow
      /\ Updated(s, h, st).hash = h /\ Updated(s, h, st).doc = r.doc
      /\ Updated(s, h, st).failed = b
  BY <1>4, <1>5, <1>6, <1>8
<1> QED BY <1>7, <1>9 DEF r

LEMMA WritesIs ==
    ASSUME NEW s \in Scanners, IsScan(scan[s]), scan[s].todo # {}, NEW row \in Row
    PROVE  LET w == Writes(s, row) IN
           /\ IsScan(w) /\ w.pc = "scan" /\ w.snap = scan[s].snap
           /\ w.todo = scan[s].todo \ {At(s)}
           /\ w.pend = [scan[s].pend EXCEPT ![At(s)] = row]
           /\ w.mine = scan[s].mine /\ w.held = scan[s].held /\ w.shares = scan[s].shares
<1> DEFINE q == scan[s]
           w == [f \in ScanFields |-> IF f = "pc" THEN "scan"
                   ELSE IF f = "todo" THEN q.todo \ {At(s)}
                   ELSE IF f \in {"hash", "dup"} THEN None
                   ELSE IF f = "pend" THEN [q.pend EXCEPT ![At(s)] = row] ELSE q[f]]
<1>1. Writes(s, row) = w
  BY DEF Writes, Advance, IsScan, ScanFields
<1>2. [q.pend EXCEPT ![At(s)] = row] \in [Paths -> Row \cup {NoRow}]
  BY DEF IsScan
<1>3. /\ w.pc = "scan" /\ w.snap = q.snap /\ w.todo = q.todo \ {At(s)} /\ w.dup = None
      /\ w.pend = [q.pend EXCEPT ![At(s)] = row]
      /\ w.mine = q.mine /\ w.held = q.held /\ w.shares = q.shares
      /\ w = [f \in ScanFields |-> w[f]]
  BY DEF ScanFields
<1>4. IsScan(w)
  <2> HIDE DEF w
  <2> QED BY <1>2, <1>3 DEF IsScan
<1> HIDE DEF w
<1> QED BY <1>1, <1>3, <1>4

----------------------------------------------------------------------------
\* A step that leaves a scan alone: what it may do to the rows, the documents
\* and the deletes for the scan to stay sound.
Undisturbed(t) ==
    /\ scan'[t] = scan[t]
    /\ \A p \in Touched(t) : idx'[p] = idx[p]
    /\ InTxn(t) => \A p \in Library[Root[t]] : idx'[p] \in {idx[p], Unlinked(idx[p])}
    /\ \A d \in scan[t].mine : doc'[d] = doc[d]
    /\ \A d \in Docs : Live(d) => doc'[d].cand = doc[d].cand /\ doc'[d].hash = doc[d].hash
    /\ \A d \in Docs : /\ Live(d)
                       /\ \/ doc[d].cand \in scan[t].shares
                          \/ \E p \in Touched(t) : idx[p].doc = d
                       => doc'[d].st = "durable"
    /\ \A c \in scan[t].shares : \A x \in Deleters : del'[x] # c
    /\ \A p \in Paths \ Touched(t) : Shows(p)' =>
          \/ Shows(p) /\ idx'[p].hash = idx[p].hash
          \/ idx'[p].hash \notin scan[t].held

LEMMA LibraryIs ==
    \A s \in Scanners : Root[s] \in DOMAIN Library /\ Library[Root[s]] \subseteq Paths
BY FolderAssumption

LEMMA SeesTheSame ==
    ASSUME NEW t \in Scanners, scan'[t] = scan[t]
    PROVE  /\ Touched(t)' = Touched(t) /\ InTxn(t)' = InTxn(t)
           /\ At(t)' = At(t) /\ Snap(t)' = Snap(t)
BY DEF Touched, InTxn, At, Snap

LEMMA Bystander ==
    ASSUME IInv, Typed', NEW t \in Scanners, Undisturbed(t)
    PROVE  ScanSound(t)'
<1>1. /\ Touched(t)' = Touched(t) /\ InTxn(t)' = InTxn(t)
      /\ At(t)' = At(t) /\ Snap(t)' = Snap(t) /\ scan'[t] = scan[t]
  BY SeesTheSame DEF Undisturbed
<1>2. /\ IsScan(scan[t]) /\ \A d \in scan[t].mine : d \in Docs /\ doc'[d] = doc[d]
      /\ idx \in [Paths -> Row \cup {NoRow}]
      /\ \A c \in scan[t].shares : c \in Docs
      /\ None \notin Docs /\ Touched(t) \subseteq Paths
  BY Constants DEF IInv, Typed, IsScan, Undisturbed, Touched
<1>3. MintedBy(t)' = MintedBy(t) /\ \A d \in MintedBy(t) : doc'[d] = doc[d]
  BY <1>1, <1>2 DEF MintedBy
<1>4. \A p \in Paths : idx[p].doc # None => idx[p].doc \in Docs /\ Live(idx[p].doc)
  BY DEF IInv, DocsSound
<1>5. RowsSound(t)'
  <2>1. RowsSound(t)
    BY DEF IInv, ScanSound
  <2>2. ASSUME InTxn(t), NEW p \in Library[Root[t]]
        PROVE  idx'[p] \in {scan[t].snap[p], Unlinked(scan[t].snap[p])}
    <3>1. /\ idx'[p] \in {idx[p], Unlinked(idx[p])}
          /\ idx[p] \in {scan[t].snap[p], Unlinked(scan[t].snap[p])}
      BY <2>1, <2>2 DEF RowsSound, Undisturbed
    <3>2. scan[t].snap[p] \in Row \cup {NoRow}
      BY <1>2, LibraryIs DEF IsScan
    <3> QED BY <3>1, <3>2, UnlinkedIs
  <2> QED BY <1>1, <2>1, <2>2 DEF RowsSound
<1>6. \A h \in scan[t].held : Unowned(t, h) => Unowned(t, h)'
  BY <1>1, <1>3 DEF Unowned, Undisturbed
<1>7. PlaceSound(t)'
  <2>1. PlaceSound(t)
    BY DEF IInv, ScanSound
  <2>2. PICK h : h = scan[t].hash
    OBVIOUS
  <2>3. scan[t].pc = "new" => Unowned(t, h)'
    BY <1>6, <2>1, <2>2 DEF PlaceSound
  <2>4. scan[t].pc = "new" => Unowned(t, scan[t].hash)'
    BY <1>1, <2>2, <2>3 DEF Unowned
  <2> QED BY <1>1, <2>1, <2>4 DEF PlaceSound
<1>8. SharesSound(t)'
  <2>1. SharesSound(t)
    BY DEF IInv, ScanSound
  <2>2. ASSUME NEW c \in scan[t].shares
        PROVE  /\ \A x \in Deleters : del'[x] # c
               /\ doc'[c].cand = c /\ (Live(c)' \/ c \in scan[t].mine)
    BY <1>2, <2>1 DEF SharesSound, Undisturbed, Live
  <2> QED BY <1>1, <2>2 DEF SharesSound
<1>9. MineSound(t)'
  <2>1. MineSound(t)
    BY DEF IInv, ScanSound
  <2>2. \A c \in scan[t].shares : Live(c) => Live(c)'
    <3>1. SharesSound(t)
      BY DEF IInv, ScanSound
    <3> QED BY <1>2, <3>1 DEF SharesSound, Undisturbed, Live
  <2> QED BY <1>1, <1>2, <2>1, <2>2 DEF MineSound, StoredSound
<1>10. PendSound(t)'
  <2>1. SUFFICES ASSUME NEW p \in Touched(t), RowSound(t, p) PROVE RowSound(t, p)'
    BY <1>1 DEF IInv, ScanSound, PendSound
  <2>2. idx'[p] = idx[p] /\ p \in Paths
    BY <1>2 DEF Undisturbed
  <2> DEFINE row == scan[t].pend[p]
  <2>3. /\ row.doc # None =>
             /\ row.doc \in Docs
             /\ \/ row.doc \in scan[t].mine
                \/ Live(row.doc) /\ (doc[row.doc].cand \in scan[t].shares \/ row.doc = idx[p].doc)
        /\ idx[p].doc # None => row.doc # None /\ doc[row.doc].cand = doc[idx[p].doc].cand
        /\ row.doc # None /\ ~row.failed /\ doc[row.doc].cand = row.doc
               /\ doc[row.doc].hash = row.hash =>
             row.hash \in scan[t].held \/ (Shows(p) /\ idx[p].hash = row.hash)
    BY <2>1 DEF RowSound
  <2>4. row.doc # None => /\ doc'[row.doc].cand = doc[row.doc].cand
                          /\ doc'[row.doc].hash = doc[row.doc].hash
    BY <1>2, <2>3 DEF Undisturbed
  <2>5. row.doc # None =>
            \/ row.doc \in scan[t].mine
            \/ /\ doc'[row.doc].st = "durable"
               /\ doc'[row.doc].cand \in scan[t].shares \/ row.doc = idx'[p].doc
    <3>1. ASSUME row.doc # None, Live(row.doc), doc[row.doc].cand \in scan[t].shares
          PROVE  doc'[row.doc].st = "durable" /\ doc'[row.doc].cand \in scan[t].shares
      <4>1. row.doc \in Docs
        BY <2>3, <3>1
      <4>2. doc'[row.doc].st = "durable"
        BY <3>1, <4>1 DEF Undisturbed
      <4> QED BY <2>4, <3>1, <4>2
    <3>2. ASSUME row.doc # None, Live(row.doc), row.doc = idx[p].doc
          PROVE  doc'[row.doc].st = "durable" /\ row.doc = idx'[p].doc
      BY <2>2, <2>3, <3>2 DEF Undisturbed
    <3> QED BY <2>3, <3>1, <3>2
  <2>6. idx[p].doc # None => doc'[idx[p].doc].cand = doc[idx[p].doc].cand
                             /\ doc'[idx[p].doc].hash = doc[idx[p].doc].hash
    BY <1>4, <2>2 DEF Undisturbed
  <2>7. Shows(p) => Shows(p)'
    BY <2>2, <2>6 DEF Shows
  <2> QED BY <1>1, <2>2, <2>3, <2>4, <2>5, <2>6, <2>7 DEF RowSound, Live
<1>11. MintSound(t)'
  <2>1. MintSound(t) /\ MineSound(t)
    BY DEF IInv, ScanSound
  <2>2. \A d \in MintedBy(t) : doc[d].hash \in scan[t].held
    BY <2>1 DEF MineSound, StoredSound, MintedBy
  <2> QED BY <1>1, <1>3, <2>1, <2>2 DEF MintSound, Undisturbed
<1> QED BY <1>5, <1>7, <1>8, <1>9, <1>10, <1>11 DEF ScanSound

\* Most steps change no row, take no new candidate from under a scan, and leave
\* alone what the scan stored and what is durable.
LEMMA Quiet ==
    ASSUME IInv, NEW t \in Scanners, scan'[t] = scan[t], idx' = idx,
           \A x \in Deleters : del'[x] \in {del[x], None},
           \A d \in Docs : Live(d) \/ d \in scan[t].mine => doc'[d] = doc[d]
    PROVE  Undisturbed(t)
<1>1. IsScan(scan[t]) /\ idx \in [Paths -> Row \cup {NoRow}] /\ None \notin Docs
  BY Constants DEF IInv, Typed
<1>2. \A p \in Paths : idx[p].doc # None => idx[p].doc \in Docs /\ Live(idx[p].doc)
  BY DEF IInv, DocsSound
<1>3. \A p \in Paths : Shows(p)' => Shows(p)
  BY <1>2 DEF Shows
<1>4. \A c \in scan[t].shares : \A x \in Deleters : del[x] # c
  BY DEF IInv, ScanSound, SharesSound
<1>5. scan[t].shares \subseteq Docs /\ scan[t].mine \subseteq Docs
  BY <1>1 DEF IsScan
<1>6. \A c \in scan[t].shares : \A x \in Deleters : del'[x] # c
  BY <1>1, <1>4, <1>5
<1> QED BY <1>3, <1>5, <1>6 DEF Undisturbed, Live

----------------------------------------------------------------------------
\* The scan that takes the step: it begins or ends with nothing in hand, moves on
\* within a file, or is done with one.
LEMMA EmptyHanded ==
    ASSUME NEW s \in Scanners, scan'[s].pend = [p \in Paths |-> NoRow], scan'[s].mine = {},
           scan'[s].held = {}, scan'[s].shares = {}, scan'[s].todo \subseteq Library[Root[s]],
           \/ scan'[s].pc \in {"idle", "retry"}
           \/ scan'[s].pc = "scan" /\ scan'[s].snap = idx'
    PROVE  ScanSound(s)'
<1>1. Touched(s)' = {} /\ MintedBy(s)' = {}
  BY DEF Touched, MintedBy
<1>2. RowsSound(s)'
  BY <1>1, LibraryIs DEF RowsSound, InTxn
<1>3. PlaceSound(s)'
  BY DEF PlaceSound
<1> QED BY <1>1, <1>2, <1>3 DEF ScanSound, SharesSound, MineSound, PendSound, MintSound

LEMMA Move ==
    ASSUME IInv, NEW s \in Scanners, InTxn(s), UNCHANGED <<disk, idx, doc, del>>,
           NEW w, scan' = [scan EXCEPT ![s] = w], IsScan(w), w.pc \notin {"idle", "retry"},
           w.snap = scan[s].snap, w.pend = scan[s].pend, w.mine = scan[s].mine,
           w.shares = scan[s].shares, w.todo \subseteq scan[s].todo, scan[s].held \subseteq w.held,
           \A t \in Scanners \ {s} : w.held \cap scan[t].held = {},
           PlaceSound(s)'
    PROVE  IInv'
<1>1. /\ scan'[s] = w /\ \A t \in Scanners \ {s} : scan'[t] = scan[t]
      /\ scan' = [t \in Scanners |-> scan'[t]]
  BY DEF IInv, Typed
<1>2. Typed'
  BY <1>1 DEF IInv, Typed, IsDoc
<1>3. \A t \in Scanners \ {s} : ScanSound(t)'
  BY <1>1, <1>2, Quiet, Bystander
<1>4. Touched(s)' = Touched(s) /\ InTxn(s)' /\ MintedBy(s)' = MintedBy(s)
  BY <1>1 DEF Touched, InTxn, MintedBy
<1>5. \A t \in Scanners : scan'[t].mine = scan[t].mine /\ InTxn(t)' = InTxn(t)
  BY <1>1, <1>4 DEF InTxn
<1>6. DocsSound'
  BY <1>5 DEF IInv, DocsSound, Live
<1>7. LocksSound'
  <2>1. LocksSound
    BY DEF IInv
  <2> QED BY <1>1, <1>5, <2>1 DEF LocksSound, Live
<1>8. ScanSound(s)'
  <2>1. ScanSound(s)
    BY DEF IInv
  <2>2. RowsSound(s)'
    BY <1>1, <1>4, <2>1 DEF ScanSound, RowsSound
  <2>3. SharesSound(s)' /\ MineSound(s)'
    BY <1>1, <1>4, <2>1 DEF ScanSound, SharesSound, MineSound, StoredSound, Live
  <2>4. PendSound(s)'
    <3>0. /\ scan'[s].pend = scan[s].pend /\ scan'[s].mine = scan[s].mine
          /\ scan'[s].shares = scan[s].shares /\ scan[s].held \subseteq scan'[s].held
          /\ doc' = doc /\ idx' = idx
      BY <1>1
    <3>1. \A p \in Touched(s) : RowSound(s, p) => RowSound(s, p)'
      BY <3>0, SMTT(30) DEF RowSound, Live, Shows
    <3> QED BY <1>4, <2>1, <3>1 DEF ScanSound, PendSound
  <2>5. MintSound(s)'
    BY <1>4, <2>1 DEF ScanSound, MintSound, Shows
  <2> QED BY <2>2, <2>3, <2>4, <2>5 DEF ScanSound
<1> QED BY <1>2, <1>3, <1>6, <1>7, <1>8 DEF IInv

\* The scan's record once it has written the row of the file it was at.
Finishes(s, w, row) ==
    /\ IsScan(w) /\ w.pc = "scan" /\ w.snap = scan[s].snap
    /\ w.pend = [scan[s].pend EXCEPT ![At(s)] = row]
    /\ w.todo = scan[s].todo \ {At(s)} /\ w.held = scan[s].held
    /\ scan[s].shares \subseteq w.shares
    /\ \A c \in w.shares \ scan[s].shares :
          /\ \A x \in Deleters : del[x] # c
          /\ doc[c].cand = c /\ (Live(c) \/ c \in scan[s].mine)

\* What a row may show, link to and replace, with the documents stored for it.
RowFits(s, w, row, new) ==
    /\ row.doc # None =>
         /\ row.doc \in Docs
         /\ \/ row.doc \in w.mine
            \/ Live(row.doc) /\ (doc[row.doc].cand \in w.shares \/ row.doc = idx[At(s)].doc)
    /\ idx[At(s)].doc # None => row.doc # None /\ doc'[row.doc].cand = doc[idx[At(s)].doc].cand
    /\ row.doc # None /\ ~row.failed /\ doc'[row.doc].cand = row.doc
           /\ doc'[row.doc].hash = row.hash =>
         row.hash \in scan[s].held \/ (Shows(At(s)) /\ idx[At(s)].hash = row.hash)
NewFits(s, w, row, new) ==
    /\ \A d \in Docs : IsDoc(doc'[d])
    /\ \A d \in Docs \ new : doc'[d] = doc[d]
    /\ \A d \in new : /\ doc[d].st = "free" /\ doc'[d].st = "pending"
                       /\ row.doc = d /\ row.hash = doc'[d].hash
                       /\ \/ /\ doc'[d].cand = d /\ row.hash \in scan[s].held
                             /\ Unowned(s, row.hash)
                          \/ /\ doc'[d].cand # d /\ Live(doc'[d].cand)
                             /\ doc'[d].cand \in w.shares

LEMMA FileDone ==
    ASSUME IInv, NEW s \in Scanners, InTxn(s), scan[s].todo # {}, UNCHANGED <<disk, idx, del>>,
           NEW row \in Row, NEW new \in SUBSET Docs, NEW w, scan' = [scan EXCEPT ![s] = w],
           w.mine = scan[s].mine \cup new, Finishes(s, w, row), RowFits(s, w, row, new),
           doc' = [d \in Docs |-> doc'[d]], NewFits(s, w, row, new)
    PROVE  IInv'
<1>0. PICK p : p = At(s)
  OBVIOUS
<1> USE <1>0
<1>a. /\ IsScan(w) /\ w.pc = "scan" /\ w.snap = scan[s].snap
      /\ w.pend = [scan[s].pend EXCEPT ![p] = row]
      /\ w.todo = scan[s].todo \ {p} /\ w.held = scan[s].held
      /\ scan[s].shares \subseteq w.shares
      /\ \A c \in w.shares \ scan[s].shares :
            /\ \A x \in Deleters : del[x] # c
            /\ doc[c].cand = c /\ (Live(c) \/ c \in scan[s].mine)
  BY DEF Finishes
<1>b. /\ row.doc # None =>
           /\ row.doc \in Docs
           /\ \/ row.doc \in w.mine
              \/ Live(row.doc) /\ (doc[row.doc].cand \in w.shares \/ row.doc = idx[p].doc)
      /\ idx[p].doc # None => row.doc # None /\ doc'[row.doc].cand = doc[idx[p].doc].cand
      /\ row.doc # None /\ ~row.failed /\ doc'[row.doc].cand = row.doc
             /\ doc'[row.doc].hash = row.hash =>
           row.hash \in scan[s].held \/ (Shows(p) /\ idx[p].hash = row.hash)
  BY DEF RowFits
<1>c. /\ \A d \in Docs : IsDoc(doc'[d])
      /\ \A d \in Docs \ new : doc'[d] = doc[d]
      /\ \A d \in new : /\ doc[d].st = "free" /\ doc'[d].st = "pending"
                         /\ row.doc = d /\ row.hash = doc'[d].hash
                         /\ \/ /\ doc'[d].cand = d /\ row.hash \in scan[s].held
                               /\ Unowned(s, row.hash)
                            \/ /\ doc'[d].cand # d /\ Live(doc'[d].cand)
                               /\ doc'[d].cand \in w.shares
  BY DEF NewFits
<1> USE <1>a, <1>b, <1>c
<1>1. /\ scan'[s] = w /\ \A t \in Scanners \ {s} : scan'[t] = scan[t]
      /\ scan' = [t \in Scanners |-> scan'[t]]
  BY DEF IInv, Typed
<1>2. Typed'
  BY <1>1 DEF IInv, Typed
<1>3. /\ \A d \in Docs : Live(d) => doc'[d] = doc[d]
      /\ \A t \in Scanners : scan[t].mine \subseteq Docs
      /\ \A t \in Scanners : \A d \in scan[t].mine : doc'[d] = doc[d] /\ d \notin new
  <2>1. \A t \in Scanners : scan[t].mine \subseteq Docs
    BY DEF IInv, Typed, IsScan
  <2>2. \A t \in Scanners : \A d \in scan[t].mine : doc[d].st = "pending"
    BY <2>1 DEF IInv, DocsSound
  <2>3. \A d \in Docs : Live(d) => d \notin new
    BY DEF Live
  <2> QED BY <2>1, <2>2, <2>3
<1>4. \A t \in Scanners \ {s} : ScanSound(t)'
  BY <1>1, <1>2, <1>3, Quiet, Bystander
<1>5. /\ p \in scan[s].todo /\ p \in Paths
      /\ IsScan(scan[s]) /\ row # NoRow /\ None \notin Docs
      /\ idx \in [Paths -> Row \cup {NoRow}]
  <2>1. IsScan(scan[s]) /\ idx \in [Paths -> Row \cup {NoRow}]
    BY DEF IInv, Typed
  <2>2. p \in scan[s].todo
    BY <2>1, FirstIsIn DEF At, IsScan
  <2>3. row # NoRow
    BY Constants DEF Row, NoRow
  <2> QED BY <2>1, <2>2, <2>3, Constants DEF IsScan
<1>6. /\ Touched(s)' = Touched(s) \cup {p} /\ InTxn(s)'
      /\ p \notin Touched(s)
      /\ w.pend[p] = row /\ \A q \in Touched(s) : w.pend[q] = scan[s].pend[q]
  <2>1. p \notin Touched(s)
    BY <1>5 DEF IInv, ScanSound, RowsSound
  <2>2. scan[s].pend \in [Paths -> Row \cup {NoRow}] /\ Touched(s) \subseteq Paths
    BY <1>5 DEF IsScan, Touched
  <2>3. w.pend[p] = row /\ \A q \in Paths \ {p} : w.pend[q] = scan[s].pend[q]
    BY <1>5, <2>2
  <2> QED BY <1>1, <1>5, <2>1, <2>2, <2>3 DEF Touched, InTxn
<1>7. \A t \in Scanners : InTxn(t)' = InTxn(t)
  BY <1>1, <1>6 DEF InTxn
<1>8. \A d \in Docs : doc'[d].st = "durable" <=> doc[d].st = "durable"
  OBVIOUS
<1>9. \A q \in Paths : idx[q].doc # None => /\ idx[q].doc \in Docs /\ Live(idx[q].doc)
                                            /\ doc'[idx[q].doc] = doc[idx[q].doc]
  BY <1>3 DEF IInv, DocsSound
<1>10. DocsSound'
  <2>1. DocsSound
    BY DEF IInv
  <2>2. \A d \in Docs : doc'[d].st = "pending" <=> \E t \in Scanners : d \in scan'[t].mine
    BY <1>1, <1>3, <2>1 DEF DocsSound
  <2>3. \A t, u \in Scanners : t # u => scan'[t].mine \cap scan'[u].mine = {}
    BY <1>1, <1>3, <2>1 DEF DocsSound
  <2>4. \A d \in Docs : doc'[d].st = "free" => doc'[d].cand = None
    BY <2>1 DEF DocsSound
  <2>5. ASSUME NEW d \in Docs, doc'[d].st = "durable"
        PROVE  /\ doc'[d].cand \in Docs /\ doc'[doc'[d].cand].st = "durable"
               /\ doc'[doc'[d].cand].cand = doc'[d].cand
    <3>1. Live(d)
      BY <1>5, <1>8, <2>5 DEF Live
    <3>2. doc'[d] = doc[d] /\ doc[d].cand \in Docs /\ Live(doc[d].cand)
          /\ doc[doc[d].cand].cand = doc[d].cand
      BY <1>3, <2>1, <3>1 DEF DocsSound
    <3> QED BY <1>3, <1>8, <3>2 DEF Live
  <2>6. \A q \in Paths : idx'[q].doc # None =>
                         idx'[q].doc \in Docs /\ doc'[idx'[q].doc].st = "durable"
    BY <1>8, <1>9 DEF Live
  <2> QED BY <1>5, <2>2, <2>3, <2>4, <2>5, <2>6 DEF DocsSound, Live
<1>11. LocksSound'
  <2>1. LocksSound /\ del \in [Deleters -> Docs \cup {None}]
    BY DEF IInv, Typed
  <2>2. \A x \in Deleters : del[x] # None =>
           doc'[del[x]].st = "durable" /\ doc'[del[x]].cand = del[x]
    BY <1>3, <2>1 DEF LocksSound, Live
  <2>3. \A t \in Scanners : scan'[t].held = scan[t].held
    BY <1>1
  <2> QED BY <1>7, <2>1, <2>2, <2>3 DEF LocksSound, Live
<1>12. ScanSound(s)
  BY DEF IInv
<1>13. MintedBy(s)' = MintedBy(s) \cup {d \in new : doc'[d].cand = d}
  BY <1>1, <1>3 DEF MintedBy
<1>14. RowsSound(s)'
  BY <1>1, <1>5, <1>6, <1>12 DEF ScanSound, RowsSound
<1>15. PlaceSound(s)'
  BY <1>1 DEF PlaceSound
<1>16. SharesSound(s)'
  <2>1. \A c \in w.shares : /\ \A x \in Deleters : del[x] # c
                            /\ doc[c].cand = c /\ (Live(c) \/ c \in scan[s].mine)
    BY <1>12 DEF ScanSound, SharesSound
  <2>2. w.shares \subseteq Docs
    BY DEF IsScan
  <2> QED BY <1>1, <1>3, <1>8, <2>1, <2>2 DEF SharesSound, Live
<1>17. MineSound(s)'
  <2>1. w.shares \subseteq Docs
    BY DEF IsScan
  <2>2. ASSUME NEW d \in scan[s].mine PROVE StoredSound(s, d)'
    <3>1. doc'[d] = doc[d] /\ StoredSound(s, d)
      BY <1>3, <1>12 DEF ScanSound, MineSound
    <3>2. CASE doc[d].cand = d
      <4>1. /\ doc'[d].cand = d /\ doc'[d].hash \in scan'[s].held
            /\ \E q \in Touched(s)' :
                  scan'[s].pend[q].doc = d /\ scan'[s].pend[q].hash = doc'[d].hash
        <5>1. PICK q \in Touched(s) : scan[s].pend[q].doc = d /\ scan[s].pend[q].hash = doc[d].hash
          BY <3>1, <3>2 DEF StoredSound
        <5>2. q \in Touched(s)' /\ w.pend[q] = scan[s].pend[q]
          BY <1>6
        <5>3. doc[d].hash \in scan[s].held
          BY <3>1, <3>2 DEF StoredSound
        <5>4. doc'[d].cand = d /\ doc'[d].hash = doc[d].hash
          BY <3>1, <3>2
        <5>5. q \in Touched(s)' /\ w.pend[q].doc = d /\ w.pend[q].hash = doc'[d].hash
          BY <5>1, <5>2, <5>4
        <5>6. doc'[d].hash \in w.held
          BY <5>3, <5>4
        <5> QED BY <1>1, <5>4, <5>5, <5>6
      <4> QED BY <4>1 DEF StoredSound
    <3>3. CASE doc[d].cand # d
      BY <1>1, <1>8, <2>1, <3>1, <3>3 DEF StoredSound, Live
    <3> QED BY <3>2, <3>3
  <2>3. ASSUME NEW d \in new PROVE StoredSound(s, d)'
    <3>1. CASE doc'[d].cand = d
      <4>1. /\ doc'[d].cand = d /\ doc'[d].hash \in scan'[s].held
            /\ \E q \in Touched(s)' :
                  scan'[s].pend[q].doc = d /\ scan'[s].pend[q].hash = doc'[d].hash
        <5>1. p \in Touched(s)' /\ w.pend[p] = row
          BY <1>6
        <5>2. doc'[d].hash \in scan[s].held /\ row.doc = d /\ row.hash = doc'[d].hash
          BY <2>3, <3>1
        <5> QED BY <1>1, <3>1, <5>1, <5>2
      <4> QED BY <4>1 DEF StoredSound
    <3>2. CASE doc'[d].cand # d
      BY <1>1, <1>8, <2>1, <2>3, <3>2 DEF StoredSound, Live
    <3> QED BY <3>1, <3>2
  <2> QED BY <1>1, <2>2, <2>3 DEF MineSound
<1>18. PendSound(s)'
  <2>1. ASSUME NEW q \in Touched(s) PROVE RowSound(s, q)'
    <3> DEFINE r == scan[s].pend[q]
    <3>1. RowSound(s, q) /\ w.pend[q] = r /\ q \in Paths
      BY <1>6, <1>12 DEF ScanSound, PendSound, Touched
    <3>2. r.doc # None => /\ r.doc \in Docs /\ doc'[r.doc] = doc[r.doc]
                          /\ r.doc \in scan[s].mine \/ Live(r.doc)
      BY <1>3, <3>1 DEF RowSound
    <3>3. Shows(q) => Shows(q)'
      BY <1>9, <3>1 DEF Shows
    <3>4. /\ r.doc # None => \/ r.doc \in scan[s].mine
                             \/ /\ Live(r.doc)
                                /\ doc[r.doc].cand \in scan[s].shares \/ r.doc = idx[q].doc
          /\ idx[q].doc # None => r.doc # None /\ doc[r.doc].cand = doc[idx[q].doc].cand
          /\ r.doc # None /\ ~r.failed /\ doc[r.doc].cand = r.doc
                 /\ doc[r.doc].hash = r.hash =>
               r.hash \in scan[s].held \/ (Shows(q) /\ idx[q].hash = r.hash)
      BY <3>1 DEF RowSound
    <3>5. r.doc # None => \/ r.doc \in w.mine
                          \/ /\ doc'[r.doc].st = "durable"
                             /\ doc'[r.doc].cand \in w.shares \/ r.doc = idx'[q].doc
      <4>1. CASE r.doc \in scan[s].mine
        BY <4>1
      <4>2. CASE Live(r.doc) /\ doc[r.doc].cand \in scan[s].shares
        BY <3>2, <4>2 DEF Live
      <4>3. CASE Live(r.doc) /\ r.doc = idx[q].doc
        BY <3>2, <4>3 DEF Live
      <4> QED BY <3>4, <4>1, <4>2, <4>3
    <3>6. idx'[q].doc # None => r.doc # None /\ doc'[r.doc].cand = doc'[idx'[q].doc].cand
      BY <1>9, <3>1, <3>2, <3>4
    <3>7. r.doc # None /\ ~r.failed /\ doc'[r.doc].cand = r.doc
                 /\ doc'[r.doc].hash = r.hash =>
               r.hash \in w.held \/ (Shows(q)' /\ idx'[q].hash = r.hash)
      BY <3>2, <3>3, <3>4
    <3> QED BY <1>1, <3>1, <3>2, <3>5, <3>6, <3>7, ZenonT(60) DEF RowSound, Live
  <2>2. RowSound(s, p)'
    <3>1. Shows(p) => Shows(p)'
      BY <1>5, <1>9 DEF Shows
    <3>2. \/ row.doc \in w.mine
          \/ Live(row.doc) /\ doc'[row.doc] = doc[row.doc]
          \/ row.doc = None
      BY <1>3
    <3>3. row.doc # None =>
             row.doc \in Docs /\ \/ row.doc \in w.mine
                                 \/ /\ Live(row.doc)'
                                    /\ doc'[row.doc].cand \in w.shares \/ row.doc = idx'[p].doc
      BY <3>2 DEF Live
    <3>4. idx'[p].doc # None => row.doc # None /\ doc'[row.doc].cand = doc'[idx'[p].doc].cand
      BY <1>5, <1>9
    <3>5. row.doc # None /\ ~row.failed /\ doc'[row.doc].cand = row.doc
                 /\ doc'[row.doc].hash = row.hash =>
               row.hash \in w.held \/ (Shows(p)' /\ idx'[p].hash = row.hash)
      BY <3>1
    <3> QED BY <1>1, <1>6, <3>3, <3>4, <3>5 DEF RowSound
  <2> QED BY <1>6, <2>1, <2>2 DEF PendSound
<1>19. MintSound(s)'
  <2>1. \A q \in Paths \ Touched(s)' : q \in Paths \ Touched(s) /\ (Shows(q)' => Shows(q))
    BY <1>6, <1>9 DEF Shows
  <2>2. \A d \in MintedBy(s) : doc'[d] = doc[d] /\ d \notin new
    BY <1>3 DEF MintedBy
  <2>3. ASSUME NEW d \in MintedBy(s), NEW e \in MintedBy(s)', doc'[e].hash = doc'[d].hash
        PROVE  e = d
    BY <1>12, <1>13, <2>2, <2>3 DEF ScanSound, MintSound, Unowned
  <2>4. ASSUME NEW d \in new, doc'[d].cand = d,
               NEW e \in MintedBy(s)', doc'[e].hash = doc'[d].hash
        PROVE  e = d
    BY <1>13, <2>2, <2>4 DEF Unowned
  <2>5. ASSUME NEW d \in MintedBy(s)', NEW q \in Paths \ Touched(s)', Shows(q)'
        PROVE  idx'[q].hash # doc'[d].hash
    BY <1>12, <1>13, <2>1, <2>2, <2>5 DEF ScanSound, MintSound, Unowned
  <2> QED BY <1>13, <2>3, <2>4, <2>5 DEF MintSound
<1>20. ScanSound(s)'
  BY <1>14, <1>15, <1>16, <1>17, <1>18, <1>19 DEF ScanSound
<1> QED BY <1>2, <1>4, <1>10, <1>11, <1>20 DEF IInv

----------------------------------------------------------------------------
\* The steps of a scan up to its commit.
LEMMA AtIs ==
    ASSUME IInv, NEW s \in Scanners, InTxn(s), scan[s].todo # {}
    PROVE  /\ IsScan(scan[s]) /\ At(s) \in scan[s].todo /\ At(s) \in Paths
           /\ idx[At(s)] \in Row \cup {NoRow} /\ Snap(s) \in Row \cup {NoRow}
           /\ idx[At(s)].hash = Snap(s).hash
           /\ idx[At(s)].doc # None => idx[At(s)].doc = Snap(s).doc
           /\ Snap(s) # NoRow => idx[At(s)] \in Row /\ Snap(s).hash \in Contents
           /\ Snap(s).doc # None => Snap(s) # NoRow
<1>1. IsScan(scan[s]) /\ idx \in [Paths -> Row \cup {NoRow}] /\ RowsSound(s)
  BY DEF IInv, Typed, ScanSound
<1>2. At(s) \in scan[s].todo /\ At(s) \in Paths /\ At(s) \in Library[Root[s]]
  BY <1>1, FirstIsIn DEF At, IsScan, RowsSound
<1>3. idx[At(s)] \in Row \cup {NoRow} /\ Snap(s) \in Row \cup {NoRow}
  BY <1>1, <1>2 DEF IsScan, Snap
<1>4. idx[At(s)] \in {Snap(s), Unlinked(Snap(s))}
  BY <1>1, <1>2 DEF RowsSound, Snap
<1>5. Snap(s) # NoRow => idx[At(s)] # NoRow
  BY <1>3, <1>4, UnlinkedIs
<1>6. /\ idx[At(s)].hash = Snap(s).hash
      /\ idx[At(s)].doc # None => idx[At(s)].doc = Snap(s).doc
  BY <1>3, <1>4, UnlinkedIs
<1> QED BY <1>1, <1>2, <1>3, <1>5, <1>6, RowIs

LEMMA WritesFinishes ==
    ASSUME IInv, NEW s \in Scanners, InTxn(s), scan[s].todo # {}, NEW row \in Row
    PROVE  /\ Finishes(s, Writes(s, row), row)
           /\ Writes(s, row).mine = scan[s].mine /\ Writes(s, row).shares = scan[s].shares
           /\ IsScan(Writes(s, row))
<1>1. IsScan(scan[s])
  BY AtIs
<1> DEFINE w == Writes(s, row)
<1>2. /\ IsScan(w) /\ w.pc = "scan" /\ w.snap = scan[s].snap
      /\ w.todo = scan[s].todo \ {At(s)}
      /\ w.pend = [scan[s].pend EXCEPT ![At(s)] = row]
      /\ w.mine = scan[s].mine /\ w.held = scan[s].held /\ w.shares = scan[s].shares
  BY <1>1, WritesIs
<1> HIDE DEF w
<1>3. Finishes(s, w, row)
  BY <1>2 DEF Finishes
<1> QED BY <1>2, <1>3 DEF w

\* The row keeps the document it has, and shows nothing it did not show.
LEMMA KeepsRow ==
    ASSUME IInv, NEW s \in Scanners, InTxn(s), scan[s].todo # {},
           UNCHANGED <<disk, idx, doc, del>>, NEW row \in Row, NEW w,
           scan' = [scan EXCEPT ![s] = w], Finishes(s, w, row), w.mine = scan[s].mine,
           row.doc = idx[At(s)].doc,
           ~row.failed /\ row.doc # None => row.hash = idx[At(s)].hash /\ ~idx[At(s)].failed
    PROVE  IInv'
<1>1. At(s) \in Paths /\ None \notin Docs
  BY AtIs, Constants
<1>2. idx[At(s)].doc # None => idx[At(s)].doc \in Docs /\ Live(idx[At(s)].doc)
  BY <1>1 DEF IInv, DocsSound
<1>3. doc' = [d \in Docs |-> doc'[d]] /\ \A d \in Docs : IsDoc(doc'[d])
  BY DEF IInv, Typed, IsDoc
<1>4. row.doc # None /\ ~row.failed /\ doc[row.doc].cand = row.doc
             /\ doc[row.doc].hash = row.hash =>
           Shows(At(s)) /\ idx[At(s)].hash = row.hash
  BY DEF Shows
<1>5. RowFits(s, w, row, {})
  BY <1>2, <1>4 DEF RowFits
<1>6. NewFits(s, w, row, {})
  BY <1>3 DEF NewFits
<1>7. w.mine = scan[s].mine \cup {} /\ {} \in SUBSET Docs
  OBVIOUS
<1> QED BY <1>3, <1>5, <1>6, <1>7, FileDone

LEMMA SkipSound == ASSUME IInv, NEW s \in Scanners, Skip(s) PROVE IInv'
<1> DEFINE w == Advance(s)
<1>1. IsScan(scan[s]) /\ scan[s].pc = "scan" /\ InTxn(s)
  BY DEF Skip, OnFile, IInv, Typed, InTxn
<1>2. /\ w = [f \in ScanFields |-> w[f]] /\ w.pc = "scan" /\ w.snap = scan[s].snap
      /\ w.pend = scan[s].pend /\ w.mine = scan[s].mine /\ w.shares = scan[s].shares
      /\ w.held = scan[s].held /\ w.todo = scan[s].todo \ {At(s)} /\ w.dup = None
  BY <1>1 DEF Advance, IsScan, ScanFields
<1>3. scan' = [scan EXCEPT ![s] = w] /\ UNCHANGED <<disk, idx, doc, del>>
  BY DEF Skip
<1> HIDE DEF w
<1>4. IsScan(w)
  BY <1>1, <1>2 DEF IsScan
<1>5. PlaceSound(s)'
  <2>1. scan'[s].pc = "scan"
    BY <1>2, <1>3 DEF IInv, Typed
  <2> QED BY <2>1 DEF PlaceSound
<1>6. \A t \in Scanners \ {s} : w.held \cap scan[t].held = {}
  BY <1>2 DEF IInv, LocksSound
<1> QED BY <1>1, <1>2, <1>3, <1>4, <1>5, <1>6, Move

LEMMA UnchangedSound == ASSUME IInv, NEW s \in Scanners, Unchanged(s) PROVE IInv'
<1>1. InTxn(s) /\ scan[s].todo # {}
  BY DEF Unchanged, OnFile, InTxn
<1>2. Snap(s).doc # None
  BY DEF Unchanged, Same, Needs
<1>3. /\ idx[At(s)] \in Row /\ Snap(s).hash \in Contents
      /\ idx[At(s)].hash = Snap(s).hash
  BY <1>1, <1>2, AtIs
<1>4. PICK row : row = Updated(s, Snap(s).hash, "INDEXED")
  OBVIOUS
<1>5. /\ row \in Row /\ row.hash = Snap(s).hash /\ row.doc = idx[At(s)].doc
      /\ ~row.failed => ~idx[At(s)].failed
  BY <1>3, <1>4, UpdatedIs
<1>6. scan' = [scan EXCEPT ![s] = Writes(s, row)] /\ UNCHANGED <<disk, idx, doc, del>>
  BY <1>4 DEF Unchanged
<1> QED BY <1>1, <1>3, <1>5, <1>6, WritesFinishes, KeepsRow

\* A row whose import failed, whatever it fails with.
LEMMA FailedRow ==
    ASSUME IInv, NEW s \in Scanners, InTxn(s), scan[s].todo # {}, idx[At(s)] \in Row,
           NEW h \in Contents, UNCHANGED <<disk, idx, doc, del>>,
           scan' = [scan EXCEPT ![s] = Writes(s, Updated(s, h, "FAILED"))]
    PROVE  IInv'
<1>1. PICK row : row = Updated(s, h, "FAILED")
  OBVIOUS
<1>2. row \in Row /\ row.doc = idx[At(s)].doc /\ row.failed
  BY <1>1, UpdatedIs
<1> QED BY <1>1, <1>2, WritesFinishes, KeepsRow

LEMMA HashIs == ASSUME IInv, NEW p \in Paths, disk[p] # None PROVE disk[p] \in Contents
BY DEF IInv, Typed

\* A step that only moves the scan on within its file.
LEMMA Within ==
    ASSUME IInv, NEW s \in Scanners, InTxn(s), UNCHANGED <<disk, idx, doc, del>>,
           NEW w, scan' = [scan EXCEPT ![s] = w], w = [f \in ScanFields |-> w[f]],
           \A f \in ScanFields \ {"pc", "hash", "dup", "held"} : w[f] = scan[s][f],
           w.dup \in Docs \cup {None}, w.held \subseteq Contents, scan[s].held \subseteq w.held,
           \A t \in Scanners \ {s} : w.held \cap scan[t].held = {},
           w.pc \notin {"idle", "retry"}, PlaceSound(s)'
    PROVE  IInv'
<1>1. IsScan(scan[s])
  BY DEF IInv, Typed
<1>2. /\ w.snap = scan[s].snap /\ w.pend = scan[s].pend /\ w.mine = scan[s].mine
      /\ w.shares = scan[s].shares /\ w.todo = scan[s].todo
  BY DEF ScanFields
<1>3. IsScan(w)
  BY <1>1, <1>2 DEF IsScan
<1> QED BY <1>2, <1>3, Move

LEMMA StaysPut ==
    ASSUME NEW s \in Scanners, scan'[s].todo = scan[s].todo, scan'[s].snap = scan[s].snap
    PROVE  At(s)' = At(s) /\ Snap(s)' = Snap(s)
BY DEF At, Snap

LEMMA NewContentSound == ASSUME IInv, NEW s \in Scanners, NewContent(s) PROVE IInv'
<1>1. InTxn(s) /\ scan[s].todo # {} /\ disk[At(s)] # None /\ Snap(s).doc = None
  BY DEF NewContent, OnFile, InTxn
<1>2. PICK h : h = disk[At(s)]
  OBVIOUS
<1>3. h \in Contents
  BY <1>1, <1>2, AtIs, HashIs
<1> DEFINE w == [scan[s] EXCEPT !.pc = "content", !.hash = h]
<1>4. IsScan(scan[s]) /\ \A t \in Scanners \ {s} : scan[s].held \cap scan[t].held = {}
  BY DEF IInv, Typed, LocksSound
<1>5. /\ w = [f \in ScanFields |-> w[f]] /\ w.pc = "content" /\ w.hash = h
      /\ \A f \in ScanFields \ {"pc", "hash"} : w[f] = scan[s][f]
  BY <1>4 DEF IsScan, ScanFields
<1>6. scan' = [scan EXCEPT ![s] = w] /\ UNCHANGED <<disk, idx, doc, del>>
  BY <1>2 DEF NewContent
<1> HIDE DEF w
<1>7. /\ scan'[s] = w /\ w.todo = scan[s].todo /\ w.snap = scan[s].snap
      /\ w.dup \in Docs \cup {None} /\ w.held = scan[s].held /\ w.held \subseteq Contents
  BY <1>4, <1>5, <1>6 DEF IInv, Typed, ScanFields, IsScan
<1>8. PlaceSound(s)'
  BY <1>1, <1>3, <1>5, <1>7, StaysPut DEF PlaceSound
<1> QED BY <1>1, <1>4, <1>5, <1>6, <1>7, <1>8, Within

LEMMA ChangedSound == ASSUME IInv, NEW s \in Scanners, Changed(s) PROVE IInv'
<1>1. InTxn(s) /\ scan[s].todo # {} /\ disk[At(s)] # None /\ Snap(s).doc # None
  BY DEF Changed, OnFile, InTxn
<1>2. idx[At(s)] \in Row /\ Snap(s).hash \in Contents
  BY <1>1, AtIs
<1>3. CASE ~Live(Snap(s).doc)
  <2>1. /\ scan' = [scan EXCEPT ![s] = Writes(s, Updated(s, Snap(s).hash, "FAILED"))]
        /\ UNCHANGED <<disk, idx, doc, del>>
    BY <1>3 DEF Changed
  <2> QED BY <1>1, <1>2, <2>1, FailedRow
<1>4. CASE Live(Snap(s).doc)
  <2>2. PICK h : h = disk[At(s)]
    OBVIOUS
  <2>3. h \in Contents
    BY <1>1, <2>2, AtIs, HashIs
  <2> DEFINE w == [scan[s] EXCEPT !.pc = "parse", !.hash = h]
  <2>4. IsScan(scan[s]) /\ \A t \in Scanners \ {s} : scan[s].held \cap scan[t].held = {}
    BY DEF IInv, Typed, LocksSound
  <2>5. /\ w = [f \in ScanFields |-> w[f]] /\ w.pc = "parse" /\ w.hash = h
        /\ \A f \in ScanFields \ {"pc", "hash"} : w[f] = scan[s][f]
    BY <2>4 DEF IsScan, ScanFields
  <2>6. scan' = [scan EXCEPT ![s] = w] /\ UNCHANGED <<disk, idx, doc, del>>
    BY <1>4, <2>2 DEF Changed
  <2> HIDE DEF w
  <2>7. /\ scan'[s] = w /\ w.todo = scan[s].todo /\ w.snap = scan[s].snap
        /\ w.dup \in Docs \cup {None} /\ w.held = scan[s].held /\ w.held \subseteq Contents
    BY <2>4, <2>5, <2>6 DEF IInv, Typed, ScanFields, IsScan
  <2>8. PlaceSound(s)'
    BY <1>1, <2>3, <2>5, <2>7, StaysPut DEF PlaceSound
  <2> QED BY <1>1, <2>4, <2>5, <2>6, <2>7, <2>8, Within
<1> QED BY <1>3, <1>4

LEMMA ParseChangedSound == ASSUME IInv, NEW s \in Scanners, ParseChanged(s) PROVE IInv'
<1>1. InTxn(s) /\ scan[s].todo # {} /\ scan[s].pc = "parse" /\ UNCHANGED <<disk, idx, doc, del>>
  BY DEF ParseChanged, OnFile, InTxn
<1>2. scan[s].hash \in Contents /\ Snap(s).doc # None
  BY <1>1 DEF IInv, ScanSound, PlaceSound
<1>3. idx[At(s)] \in Row
  BY <1>1, <1>2, AtIs
<1>4. CASE scan' = [scan EXCEPT ![s] = Writes(s, Updated(s, @.hash, "FAILED"))]
  <2>1. scan' = [scan EXCEPT ![s] = Writes(s, Updated(s, scan[s].hash, "FAILED"))]
    BY <1>4
  <2> QED BY <1>1, <1>2, <1>3, <2>1, FailedRow
<1>5. CASE scan' = [scan EXCEPT ![s].pc = "own"]
  <2> DEFINE w == [scan[s] EXCEPT !.pc = "own"]
  <2>4. IsScan(scan[s]) /\ \A t \in Scanners \ {s} : scan[s].held \cap scan[t].held = {}
    BY DEF IInv, Typed, LocksSound
  <2>5. /\ w = [f \in ScanFields |-> w[f]] /\ w.pc = "own"
        /\ \A f \in ScanFields \ {"pc"} : w[f] = scan[s][f]
    BY <2>4 DEF IsScan, ScanFields
  <2>6. scan' = [scan EXCEPT ![s] = w]
    BY <1>5
  <2> HIDE DEF w
  <2>7. /\ scan'[s] = w /\ w.todo = scan[s].todo /\ w.snap = scan[s].snap /\ w.hash = scan[s].hash
        /\ w.dup \in Docs \cup {None} /\ w.held = scan[s].held /\ w.held \subseteq Contents
    BY <2>4, <2>5, <2>6 DEF IInv, Typed, ScanFields, IsScan
  <2>8. PlaceSound(s)'
    BY <1>1, <1>2, <2>5, <2>7, StaysPut DEF PlaceSound
  <2> QED BY <1>1, <2>4, <2>5, <2>6, <2>7, <2>8, Within
<1> QED BY <1>4, <1>5 DEF ParseChanged

LEMMA LockContentSound == ASSUME IInv, NEW s \in Scanners, LockContent(s) PROVE IInv'
<1>1. InTxn(s) /\ scan[s].todo # {} /\ scan[s].pc = "content" /\ UNCHANGED <<disk, idx, doc, del>>
  BY DEF LockContent, OnFile, InTxn
<1>2. scan[s].hash \in Contents /\ Snap(s).doc = None
  BY <1>1 DEF IInv, ScanSound, PlaceSound
<1> DEFINE w == [scan[s] EXCEPT !.pc = "lookup", !.held = @ \cup {scan[s].hash}]
<1>3. IsScan(scan[s]) /\ \A t \in Scanners \ {s} : scan[s].held \cap scan[t].held = {}
  BY DEF IInv, Typed, LocksSound
<1>4. /\ w = [f \in ScanFields |-> w[f]] /\ w.pc = "lookup"
      /\ w.held = scan[s].held \cup {scan[s].hash}
      /\ \A f \in ScanFields \ {"pc", "held"} : w[f] = scan[s][f]
  BY <1>3 DEF IsScan, ScanFields
<1>5. scan' = [scan EXCEPT ![s] = w]
  BY DEF LockContent
<1> HIDE DEF w
<1>6. /\ scan'[s] = w /\ w.todo = scan[s].todo /\ w.snap = scan[s].snap /\ w.hash = scan[s].hash
      /\ w.dup \in Docs \cup {None} /\ w.held \subseteq Contents
  BY <1>2, <1>3, <1>4, <1>5 DEF IInv, Typed, ScanFields, IsScan
<1>7. PlaceSound(s)'
  BY <1>1, <1>2, <1>4, <1>6, StaysPut DEF PlaceSound
<1>8. \A t \in Scanners \ {s} : w.held \cap scan[t].held = {}
  BY <1>3, <1>4 DEF LockContent, ContentIsFree
<1> QED BY <1>1, <1>4, <1>5, <1>6, <1>7, <1>8, Within

LEMMA LookupSound == ASSUME IInv, NEW s \in Scanners, Lookup(s) PROVE IInv'
<1>1. InTxn(s) /\ scan[s].todo # {} /\ scan[s].pc = "lookup" /\ UNCHANGED <<disk, idx, doc, del>>
  BY DEF Lookup, OnFile, InTxn
<1>2. /\ scan[s].hash \in Contents /\ Snap(s).doc = None /\ scan[s].hash \in scan[s].held
      /\ scan[s].hash # None
  BY <1>1, Constants DEF IInv, ScanSound, PlaceSound
<1>3. /\ IsScan(scan[s]) /\ \A t \in Scanners \ {s} : scan[s].held \cap scan[t].held = {}
      /\ Touched(s) \subseteq Paths
  BY DEF IInv, Typed, LocksSound, Touched
<1>4. PICK h : h = scan[s].hash
  OBVIOUS
<1>5. CASE Eligible(s, scan[s].hash) = {} /\ scan' = [scan EXCEPT ![s].pc = "new"]
  <2> DEFINE w == [scan[s] EXCEPT !.pc = "new"]
  <2>1. /\ w = [f \in ScanFields |-> w[f]] /\ w.pc = "new"
        /\ \A f \in ScanFields \ {"pc"} : w[f] = scan[s][f]
    BY <1>3 DEF IsScan, ScanFields
  <2>2. scan' = [scan EXCEPT ![s] = w]
    BY <1>5
  <2> HIDE DEF w
  <2>3. /\ scan'[s] = w /\ w.todo = scan[s].todo /\ w.snap = scan[s].snap /\ w.hash = h
        /\ w.pend = scan[s].pend /\ w.mine = scan[s].mine /\ w.held = scan[s].held
        /\ w.dup \in Docs \cup {None} /\ w.held \subseteq Contents
    BY <1>3, <1>4, <2>1, <2>2 DEF IInv, Typed, ScanFields, IsScan
  <2>4. Unowned(s, h)
    <3>1. ASSUME NEW d \in MintedBy(s), doc[d].hash = h PROVE FALSE
      <4>1. StoredSound(s, d) /\ d \in scan[s].mine /\ doc[d].cand = d /\ d \in Docs
        BY <1>3, <3>1 DEF IInv, ScanSound, MineSound, MintedBy, IsScan
      <4>2. PICK p \in Touched(s) : scan[s].pend[p].doc = d /\ scan[s].pend[p].hash = h
        BY <3>1, <4>1 DEF StoredSound
      <4>3. d \in Eligible(s, h)
        BY <1>3, <3>1, <4>1, <4>2 DEF Eligible, View
      <4> QED BY <1>4, <1>5, <4>3
    <3>2. ASSUME NEW p \in Paths \ Touched(s), Shows(p), idx[p].hash = h PROVE FALSE
      <4>1. idx[p].doc \in Docs /\ Live(idx[p].doc) /\ doc[idx[p].doc].hash = h
        BY <3>2 DEF IInv, DocsSound, Shows
      <4>2. idx[p].doc \in Eligible(s, h)
        BY <3>2, <4>1 DEF Eligible, View
      <4> QED BY <1>4, <1>5, <4>2
    <3> QED BY <3>1, <3>2 DEF Unowned
  <2>5. Unowned(s, h)'
    <3>1. Touched(s)' = Touched(s) /\ MintedBy(s)' = MintedBy(s)
      BY <1>1, <2>3 DEF Touched, MintedBy
    <3> QED BY <1>1, <2>4, <3>1 DEF Unowned, Shows
  <2>6. Unowned(s, scan[s].hash)'
    BY <2>3, <2>5 DEF Unowned
  <2>7. PlaceSound(s)'
    BY <1>1, <1>2, <1>4, <2>1, <2>3, <2>6, StaysPut DEF PlaceSound
  <2> QED BY <1>1, <1>3, <2>1, <2>2, <2>3, <2>7, Within
<1>6. ASSUME NEW d \in Eligible(s, scan[s].hash),
             scan' = [scan EXCEPT ![s].pc = "owner", ![s].dup = d]
      PROVE  IInv'
  <2> DEFINE w == [scan[s] EXCEPT !.pc = "owner", !.dup = d]
  <2>1. /\ w = [f \in ScanFields |-> w[f]] /\ w.pc = "owner" /\ w.dup = d
        /\ \A f \in ScanFields \ {"pc", "dup"} : w[f] = scan[s][f]
    BY <1>3 DEF IsScan, ScanFields
  <2>2. scan' = [scan EXCEPT ![s] = w]
    BY <1>6
  <2> HIDE DEF w
  <2>3. /\ scan'[s] = w /\ w.todo = scan[s].todo /\ w.snap = scan[s].snap /\ w.hash = h
        /\ w.held = scan[s].held
        /\ w.dup \in Docs \cup {None} /\ w.held \subseteq Contents
    BY <1>3, <1>4, <1>6, <2>1, <2>2 DEF IInv, Typed, ScanFields, IsScan, Eligible
  <2>4. PlaceSound(s)'
    BY <1>1, <1>2, <1>4, <2>1, <2>3, StaysPut DEF PlaceSound
  <2> QED BY <1>1, <1>3, <2>1, <2>2, <2>3, <2>4, Within
<1> QED BY <1>5, <1>6 DEF Lookup

LEMMA FailRowIs ==
    ASSUME IInv, NEW s \in Scanners, InTxn(s), scan[s].todo # {}, scan[s].hash \in Contents
    PROVE  FailRow(s) \in Row /\ FailRow(s).doc = idx[At(s)].doc /\ FailRow(s).failed
<1>1. CASE idx[At(s)] = NoRow
  <2>1. FailRow(s) = [hash |-> scan[s].hash, status |-> "FAILED", doc |-> None, failed |-> TRUE]
    BY <1>1 DEF FailRow
  <2> QED BY <1>1, <2>1 DEF Row, NoRow
<1>2. CASE idx[At(s)] # NoRow
  <2>1. idx[At(s)] \in Row
    BY <1>2, AtIs
  <2>2. FailRow(s) = Updated(s, scan[s].hash, "FAILED")
    BY <1>2 DEF FailRow
  <2> QED BY <2>1, <2>2, UpdatedIs
<1> QED BY <1>1, <1>2

LEMMA LinkRowIs ==
    ASSUME NEW s \in Scanners, scan[s].hash \in Contents, NEW d \in Docs
    PROVE  LinkRow(s, d) \in Row /\ LinkRow(s, d).doc = d /\ LinkRow(s, d).hash = scan[s].hash
BY DEF LinkRow, Row

\* The candidate of a document a scan may link to: it exists, and is its own.
LEMMA OwnerIs ==
    ASSUME IInv, NEW s \in Scanners, NEW d \in Docs, Live(d) \/ d \in scan[s].mine
    PROVE  /\ doc[d].cand \in Docs /\ doc[doc[d].cand].cand = doc[d].cand
           /\ Live(doc[d].cand) \/ doc[d].cand \in scan[s].mine
<1>1. CASE Live(d)
  BY <1>1 DEF IInv, DocsSound
<1>2. CASE d \in scan[s].mine
  <2>1. StoredSound(s, d) /\ SharesSound(s) /\ IsScan(scan[s])
    BY <1>2 DEF IInv, ScanSound, MineSound, Typed
  <2> QED BY <1>2, <2>1 DEF StoredSound, SharesSound, IsScan
<1> QED BY <1>1, <1>2

LEMMA LockOwnerSound == ASSUME IInv, NEW s \in Scanners, LockOwner(s) PROVE IInv'
<1>1. InTxn(s) /\ scan[s].todo # {} /\ scan[s].pc = "owner" /\ UNCHANGED <<disk, idx, doc, del>>
  BY DEF LockOwner, OnFile, InTxn
<1>2. /\ scan[s].hash \in Contents /\ Snap(s).doc = None /\ scan[s].hash \in scan[s].held
      /\ idx[At(s)].doc = None
  BY <1>1, AtIs DEF IInv, ScanSound, PlaceSound
<1>3. /\ IsScan(scan[s]) /\ \A t \in Scanners \ {s} : scan[s].held \cap scan[t].held = {}
  BY DEF IInv, Typed, LocksSound
<1> DEFINE d == scan[s].dup
           c == doc[d].cand
<1>4. CASE scan' = [scan EXCEPT ![s].pc = "lookup", ![s].dup = None]
  <2> DEFINE w == [scan[s] EXCEPT !.pc = "lookup", !.dup = None]
  <2>1. /\ w = [f \in ScanFields |-> w[f]] /\ w.pc = "lookup" /\ w.dup = None
        /\ \A f \in ScanFields \ {"pc", "dup"} : w[f] = scan[s][f]
    BY <1>3 DEF IsScan, ScanFields
  <2>2. scan' = [scan EXCEPT ![s] = w]
    BY <1>4
  <2> HIDE DEF w
  <2>3. /\ scan'[s] = w /\ w.todo = scan[s].todo /\ w.snap = scan[s].snap
        /\ w.hash = scan[s].hash /\ w.held = scan[s].held
        /\ w.dup \in Docs \cup {None} /\ w.held \subseteq Contents
    BY <1>3, <2>1, <2>2 DEF IInv, Typed, ScanFields, IsScan
  <2>4. PlaceSound(s)'
    BY <1>1, <1>2, <2>1, <2>3, StaysPut DEF PlaceSound
  <2> QED BY <1>1, <1>3, <2>1, <2>2, <2>3, <2>4, Within
<1>5. ASSUME Live(d) \/ d \in scan[s].mine, NotBeingDeleted(c),
             NEW row \in {FailRow(s), LinkRow(s, d)},
             scan' = [scan EXCEPT ![s] = [Writes(s, row) EXCEPT !.shares = @ \cup {c}]]
      PROVE  IInv'
  <2>1. d \in Docs /\ None \notin Docs
    BY <1>3, <1>5, Constants DEF IsScan, Live
  <2>2. /\ c \in Docs /\ doc[c].cand = c /\ (Live(c) \/ c \in scan[s].mine)
        /\ \A x \in Deleters : del[x] # c
    BY <1>5, <2>1, OwnerIs DEF NotBeingDeleted
  <2>3. row \in Row
    BY <1>1, <1>2, <1>5, <2>1, FailRowIs, LinkRowIs
  <2> DEFINE v == Writes(s, row)
             w == [v EXCEPT !.shares = @ \cup {c}]
  <2>4. /\ Finishes(s, v, row) /\ v.mine = scan[s].mine /\ v.shares = scan[s].shares
        /\ IsScan(v)
    BY <1>1, <2>3, WritesFinishes
  <2>5. scan' = [scan EXCEPT ![s] = w]
    BY <1>5
  <2> HIDE DEF v, d, c
  <2>6. /\ w = [f \in ScanFields |-> w[f]] /\ w.shares = scan[s].shares \cup {c}
        /\ \A f \in ScanFields \ {"shares"} : w[f] = v[f]
    BY <2>4 DEF IsScan, ScanFields
  <2> HIDE DEF w
  <2>7. /\ w.pc = v.pc /\ w.snap = v.snap /\ w.pend = v.pend /\ w.todo = v.todo
        /\ w.held = v.held /\ w.mine = v.mine /\ w.dup = v.dup
    BY <2>6 DEF ScanFields
  <2>8. IsScan(w)
    BY <2>2, <2>4, <2>6, <2>7 DEF IsScan
  <2>9. Finishes(s, w, row)
    BY <2>2, <2>4, <2>6, <2>7, <2>8 DEF Finishes
  <2>10. CASE row = FailRow(s)
    <3>1. row.doc = idx[At(s)].doc /\ row.failed
      BY <1>1, <1>2, <2>10, FailRowIs
    <3> QED BY <1>1, <2>3, <2>4, <2>5, <2>7, <2>9, <3>1, KeepsRow
  <2>11. CASE row = LinkRow(s, d)
    <3>1. row.doc = d /\ row.hash = scan[s].hash
      BY <1>2, <2>1, <2>11, LinkRowIs
    <3>2. doc' = [e \in Docs |-> doc'[e]] /\ \A e \in Docs : IsDoc(doc'[e])
      BY <1>1 DEF IInv, Typed, IsDoc
    <3>3. c = doc[d].cand
      BY DEF c
    <3>4. RowFits(s, w, row, {})
      BY <1>1, <1>2, <1>5, <2>1, <2>4, <2>6, <2>7, <3>1, <3>3 DEF RowFits
    <3>5. NewFits(s, w, row, {})
      BY <1>1, <3>2 DEF NewFits
    <3>6. w.mine = scan[s].mine \cup {} /\ {} \in SUBSET Docs
      BY <2>4, <2>7
    <3> QED BY <1>1, <2>3, <2>5, <2>9, <3>2, <3>4, <3>5, <3>6, FileDone
  <2> QED BY <1>5, <2>10, <2>11
<1> HIDE DEF d, c
<1>6. \/ scan' = [scan EXCEPT ![s].pc = "lookup", ![s].dup = None]
      \/ /\ Live(d) \/ d \in scan[s].mine
         /\ NotBeingDeleted(c)
         /\ \E row \in {FailRow(s), LinkRow(s, d)} :
               scan' = [scan EXCEPT ![s] = [Writes(s, row) EXCEPT !.shares = @ \cup {c}]]
  BY DEF LockOwner, d, c
<1> QED BY <1>4, <1>5, <1>6

LEMMA StoresSound ==
    ASSUME IInv, NEW s \in Scanners, InTxn(s), scan[s].todo # {}, UNCHANGED <<disk, idx, del>>,
           scan[s].hash \in Contents, NEW d \in Docs, doc[d].st = "free", NEW c \in Docs,
           Stores(s, d, c),
           \/ /\ c = d /\ idx[At(s)].doc = None
              /\ scan[s].hash \in scan[s].held /\ Unowned(s, scan[s].hash)
           \/ /\ c # d /\ Live(c) /\ doc[c].cand = c /\ \A x \in Deleters : del[x] # c
              /\ idx[At(s)].doc # None => doc[idx[At(s)].doc].cand = c
    PROVE  IInv'
<1>1. PICK row : row = LinkRow(s, d)
  OBVIOUS
<1>2. row \in Row /\ row.doc = d /\ row.hash = scan[s].hash
  BY <1>1, LinkRowIs
<1>3. /\ None \notin Docs /\ doc = [e \in Docs |-> doc[e]] /\ \A e \in Docs : IsDoc(doc[e])
  BY Constants DEF IInv, Typed
<1> DEFINE v == Writes(s, row)
           more == IF c = d THEN scan[s].shares ELSE scan[s].shares \cup {c}
           w == [v EXCEPT !.mine = @ \cup {d}, !.shares = IF c = d THEN @ ELSE @ \cup {c}]
           new == {d}
<1>4. /\ Finishes(s, v, row) /\ v.mine = scan[s].mine /\ v.shares = scan[s].shares
      /\ IsScan(v)
  BY <1>2, WritesFinishes
<1>5. scan' = [scan EXCEPT ![s] = w]
  BY <1>1 DEF Stores
<1> HIDE DEF v
<1>6. /\ w = [f \in ScanFields |-> w[f]] /\ w.shares = more /\ w.mine = scan[s].mine \cup new
      /\ \A f \in ScanFields \ {"mine", "shares"} : w[f] = v[f]
  BY <1>4 DEF IsScan, ScanFields
<1> HIDE DEF w
<1>7. /\ w.pc = v.pc /\ w.snap = v.snap /\ w.pend = v.pend /\ w.todo = v.todo
      /\ w.held = v.held /\ w.dup = v.dup
  BY <1>6 DEF ScanFields
<1>8. more \subseteq Docs /\ scan[s].shares \subseteq more /\ more \ scan[s].shares \subseteq {c} \ {d}
  BY <1>4 DEF IsScan
<1>9. IsScan(w)
  BY <1>4, <1>6, <1>7, <1>8 DEF IsScan
<1>10. Finishes(s, w, row)
  BY <1>4, <1>6, <1>7, <1>8, <1>9 DEF Finishes
<1> DEFINE nd == [cand |-> c, hash |-> scan[s].hash, st |-> "pending"]
<1>11. doc' = [doc EXCEPT ![d] = nd]
  BY DEF Stores
<1>12. nd.cand = c /\ nd.hash = scan[s].hash /\ nd.st = "pending" /\ IsDoc(nd)
  BY DEF IsDoc, DocFields
<1> HIDE DEF nd, more
<1>13. doc'[d] = nd /\ \A e \in Docs \ {d} : doc'[e] = doc[e]
  BY <1>3, <1>11
<1>14. doc' = [e \in Docs |-> doc'[e]]
  BY <1>3, <1>11
<1>15. idx[At(s)].doc # None => idx[At(s)].doc \in Docs /\ Live(idx[At(s)].doc)
                                /\ idx[At(s)].doc # d
  BY AtIs DEF IInv, DocsSound, Live
<1>16. RowFits(s, w, row, new)
  <2>1. d \in w.mine
    BY <1>6
  <2>2. idx[At(s)].doc # None => doc'[d].cand = doc[idx[At(s)].doc].cand
    BY <1>12, <1>13
  <2>3. doc'[d].cand = d => scan[s].hash \in scan[s].held
    BY <1>12, <1>13
  <2> QED BY <1>2, <1>3, <2>1, <2>2, <2>3 DEF RowFits
<1>17. NewFits(s, w, row, new)
  <2>1. \A e \in Docs : IsDoc(doc'[e])
    BY <1>3, <1>12, <1>13
  <2>2. c # d => c \in more
    BY DEF more
  <2>3. \/ doc'[d].cand = d /\ row.hash \in scan[s].held /\ Unowned(s, row.hash)
        \/ doc'[d].cand # d /\ Live(doc'[d].cand) /\ doc'[d].cand \in w.shares
    BY <1>2, <1>6, <1>12, <1>13, <2>2
  <2> QED BY <1>2, <1>12, <1>13, <2>1, <2>3 DEF NewFits
<1>18. new \in SUBSET Docs
  OBVIOUS
<1> HIDE DEF new
<1> QED BY <1>2, <1>5, <1>6, <1>10, <1>14, <1>16, <1>17, <1>18, FileDone

LEMMA FreshIs == ASSUME HasFreshDoc PROVE FreshDoc \in Docs /\ doc[FreshDoc].st = "free"
BY DEF HasFreshDoc, FreshDoc

LEMMA CreateNewSound == ASSUME IInv, NEW s \in Scanners, CreateNew(s) PROVE IInv'
<1>1. InTxn(s) /\ scan[s].todo # {} /\ scan[s].pc = "new" /\ UNCHANGED <<disk, idx, del>>
  BY DEF CreateNew, OnFile, InTxn
<1>2. /\ scan[s].hash \in Contents /\ Snap(s).doc = None /\ scan[s].hash \in scan[s].held
      /\ idx[At(s)].doc = None /\ Unowned(s, scan[s].hash)
  BY <1>1, AtIs DEF IInv, ScanSound, PlaceSound
<1>3. CASE scan' = [scan EXCEPT ![s] = Writes(s, FailRow(s))] /\ UNCHANGED doc
  <2>1. PICK row : row = FailRow(s)
    OBVIOUS
  <2>2. row \in Row /\ row.doc = idx[At(s)].doc /\ row.failed
    BY <1>1, <1>2, <2>1, FailRowIs
  <2>3. scan' = [scan EXCEPT ![s] = Writes(s, row)]
    BY <1>3, <2>1
  <2> QED BY <1>1, <1>3, <2>2, <2>3, WritesFinishes, KeepsRow
<1>4. CASE HasFreshDoc /\ Stores(s, FreshDoc, FreshDoc)
  BY <1>1, <1>2, <1>4, FreshIs, StoresSound
<1> QED BY <1>3, <1>4 DEF CreateNew

LEMMA LockOwnSound == ASSUME IInv, NEW s \in Scanners, LockOwn(s) PROVE IInv'
<1>1. InTxn(s) /\ scan[s].todo # {} /\ scan[s].pc = "own" /\ UNCHANGED <<disk, idx, del>>
  BY DEF LockOwn, OnFile, InTxn
<1>2. scan[s].hash \in Contents /\ Snap(s).doc # None
  BY <1>1 DEF IInv, ScanSound, PlaceSound
<1>3. idx[At(s)] \in Row /\ (idx[At(s)].doc # None => idx[At(s)].doc = Snap(s).doc)
      /\ Snap(s).doc \in Docs
  BY <1>1, <1>2, AtIs, RowIs
<1> DEFINE d == Snap(s).doc
           c == doc[d].cand
<1>4. CASE scan' = [scan EXCEPT ![s] = Writes(s, Updated(s, @.hash, "FAILED"))] /\ UNCHANGED doc
  <2>1. scan' = [scan EXCEPT ![s] = Writes(s, Updated(s, scan[s].hash, "FAILED"))]
    BY <1>4
  <2> QED BY <1>1, <1>2, <1>3, <1>4, <2>1, FailedRow
<1>5. CASE Live(d) /\ NotBeingDeleted(c) /\ HasFreshDoc /\ Stores(s, FreshDoc, c)
  <2>1. /\ c \in Docs /\ Live(c) /\ doc[c].cand = c /\ \A x \in Deleters : del[x] # c
    BY <1>3, <1>5 DEF IInv, DocsSound, NotBeingDeleted
  <2>2. FreshDoc \in Docs /\ doc[FreshDoc].st = "free"
    BY <1>5, FreshIs
  <2>3. c # FreshDoc
    BY <2>1, <2>2 DEF Live
  <2>4. idx[At(s)].doc # None => doc[idx[At(s)].doc].cand = c
    BY <1>3
  <2> HIDE DEF c, d
  <2> QED BY <1>1, <1>2, <1>5, <2>1, <2>2, <2>3, <2>4, StoresSound
<1> QED BY <1>4, <1>5 DEF LockOwn

----------------------------------------------------------------------------
\* A scan begins with nothing, and ends with nothing of what it stored.
LEMMA RestIs ==
    /\ Rest = [f \in ScanFields |-> Rest[f]] /\ Rest.pc = "idle" /\ Rest.todo = {}
    /\ Rest.snap = [p \in Paths |-> NoRow] /\ Rest.pend = [p \in Paths |-> NoRow]
    /\ Rest.mine = {} /\ Rest.held = {} /\ Rest.shares = {} /\ Rest.dup = None
BY DEF Rest, ScanFields

LEMMA StartsOver ==
    ASSUME IInv, NEW s \in Scanners, UNCHANGED <<disk, idx, del>>,
           doc' = [d \in Docs |-> IF d \in scan[s].mine THEN FreeDoc ELSE doc[d]],
           NEW w, scan' = [scan EXCEPT ![s] = w], IsScan(w), w.todo \subseteq Library[Root[s]],
           w.pend = [p \in Paths |-> NoRow], w.mine = {}, w.held = {}, w.shares = {},
           \/ w.pc \in {"idle", "retry"}
           \/ w.pc = "scan" /\ w.snap = idx /\ SourceIsFree(s)
    PROVE  IInv'
<1>1. /\ scan'[s] = w /\ \A t \in Scanners \ {s} : scan'[t] = scan[t]
      /\ scan' = [t \in Scanners |-> scan'[t]]
  BY DEF IInv, Typed
<1>2. /\ \A t \in Scanners : scan[t].mine \subseteq Docs
      /\ \A d \in scan[s].mine : doc[d].st = "pending"
      /\ \A t \in Scanners \ {s} : \A d \in scan[t].mine : d \notin scan[s].mine
      /\ None \notin Docs
  <2>1. \A t \in Scanners : scan[t].mine \subseteq Docs
    BY DEF IInv, Typed, IsScan
  <2> QED BY <2>1, Constants DEF IInv, DocsSound
<1>3. /\ \A d \in Docs \ scan[s].mine : doc'[d] = doc[d]
      /\ \A d \in scan[s].mine : doc'[d] = FreeDoc
      /\ \A d \in Docs : Live(d) => doc'[d] = doc[d]
  BY <1>2 DEF Live
<1>4. FreeDoc.cand = None /\ FreeDoc.st = "free" /\ IsDoc(FreeDoc)
  BY DEF FreeDoc, IsDoc, DocFields
<1>5. Typed'
  <2>1. doc' = [d \in Docs |-> doc'[d]]
    OBVIOUS
  <2>2. \A d \in Docs : IsDoc(doc'[d])
    BY <1>3, <1>4 DEF IInv, Typed
  <2> QED BY <1>1, <2>1, <2>2 DEF IInv, Typed
<1>6. \A t \in Scanners \ {s} : ScanSound(t)'
  <2>1. ASSUME NEW t \in Scanners \ {s} PROVE \A d \in Docs : Live(d) \/ d \in scan[t].mine => doc'[d] = doc[d]
    BY <1>2, <1>3
  <2> QED BY <1>1, <1>5, <2>1, Quiet, Bystander
<1>7. ScanSound(s)'
  BY <1>1, EmptyHanded
<1>8. \A d \in Docs : doc'[d].st = "durable" <=> doc[d].st = "durable"
  BY <1>2, <1>3, <1>4
<1>9. DocsSound'
  <2>1. DocsSound
    BY DEF IInv
  <2>2. \A d \in Docs : doc'[d].st = "pending" <=> \E t \in Scanners : d \in scan'[t].mine
    <3>1. ASSUME NEW d \in scan[s].mine PROVE ~\E t \in Scanners : d \in scan'[t].mine
      BY <1>1, <1>2
    <3>2. ASSUME NEW d \in Docs \ scan[s].mine
          PROVE  (\E t \in Scanners : d \in scan'[t].mine) <=> \E t \in Scanners : d \in scan[t].mine
      BY <1>1
    <3> QED BY <1>2, <1>3, <1>4, <2>1, <3>1, <3>2 DEF DocsSound
  <2>3. \A t, u \in Scanners : t # u => scan'[t].mine \cap scan'[u].mine = {}
    BY <1>1, <2>1 DEF DocsSound
  <2>4. \A d \in Docs : doc'[d].st = "free" => doc'[d].cand = None
    BY <1>3, <1>4, <2>1 DEF DocsSound
  <2>5. ASSUME NEW d \in Docs, doc'[d].st = "durable"
        PROVE  /\ doc'[d].cand \in Docs /\ doc'[doc'[d].cand].st = "durable"
               /\ doc'[doc'[d].cand].cand = doc'[d].cand
    <3>1. Live(d)
      BY <1>2, <1>8, <2>5 DEF Live
    <3>2. doc'[d] = doc[d] /\ doc[d].cand \in Docs /\ Live(doc[d].cand)
          /\ doc[doc[d].cand].cand = doc[d].cand
      BY <1>3, <2>1, <3>1 DEF DocsSound
    <3> QED BY <1>3, <1>8, <3>2 DEF Live
  <2>6. \A q \in Paths : idx'[q].doc # None =>
                         idx'[q].doc \in Docs /\ doc'[idx'[q].doc].st = "durable"
    BY <1>8, <2>1 DEF DocsSound, Live
  <2>7. \A d \in Docs : Live(d)' =>
           /\ doc'[d].cand \in Docs
           /\ doc'[d].cand # None /\ doc'[doc'[d].cand].st = "durable"
           /\ doc'[doc'[d].cand].cand = doc'[d].cand
    BY <1>2, <2>5 DEF Live
  <2>8. \A q \in Paths : idx'[q].doc # None =>
           idx'[q].doc \in Docs /\ idx'[q].doc # None /\ doc'[idx'[q].doc].st = "durable"
    BY <2>6
  <2> QED BY <2>2, <2>3, <2>4, <2>7, <2>8, Zenon DEF DocsSound, Live
<1>10. LocksSound'
  <2>1. LocksSound /\ del \in [Deleters -> Docs \cup {None}]
    BY DEF IInv, Typed
  <2>2. \A x \in Deleters : del[x] # None =>
           doc'[del[x]].st = "durable" /\ doc'[del[x]].cand = del[x]
    BY <1>3, <2>1 DEF LocksSound, Live
  <2>3. \A t \in Scanners \ {s} : InTxn(t)' = InTxn(t) /\ scan'[t].held = scan[t].held
    BY <1>1 DEF InTxn
  <2>4. InTxn(s)' => \A t \in Scanners \ {s} : InTxn(t) => Root[t] # Root[s]
    BY <1>1 DEF InTxn, SourceIsFree
  <2>5. \A t, u \in Scanners : InTxn(t)' /\ InTxn(u)' /\ Root[t] = Root[u] => t = u
    BY <2>1, <2>3, <2>4 DEF LocksSound
  <2>6. \A t, u \in Scanners : t # u => scan'[t].held \cap scan'[u].held = {}
    BY <1>1, <2>1 DEF LocksSound
  <2> QED BY <2>1, <2>2, <2>5, <2>6 DEF LocksSound, Live
<1> QED BY <1>5, <1>6, <1>7, <1>9, <1>10 DEF IInv

LEMMA BeginSound == ASSUME IInv, NEW s \in Scanners, Begin(s) PROVE IInv'
<1> DEFINE n == IF scan[s].pc = "retry" THEN scan[s].attempts ELSE 1
           w == [Rest EXCEPT !.pc = "scan", !.attempts = n, !.snap = idx,
                             !.listed = Listing(s), !.todo = Listing(s)]
<1>1. scan' = [scan EXCEPT ![s] = w] /\ UNCHANGED <<disk, idx, doc, del>> /\ SourceIsFree(s)
  BY DEF Begin
<1>2. /\ w = [f \in ScanFields |-> w[f]] /\ w.pc = "scan" /\ w.snap = idx /\ w.todo = Listing(s)
      /\ w.pend = [p \in Paths |-> NoRow] /\ w.mine = {} /\ w.held = {} /\ w.shares = {}
      /\ w.dup = None
  BY RestIs DEF ScanFields
<1> HIDE DEF w
<1>3. Listing(s) \subseteq Library[Root[s]] /\ Listing(s) \subseteq Paths
  BY LibraryIs DEF Listing
<1>4. [p \in Paths |-> NoRow] \in [Paths -> Row \cup {NoRow}] /\ idx \in [Paths -> Row \cup {NoRow}]
  BY DEF IInv, Typed
<1>5. IsScan(w)
  BY <1>2, <1>3, <1>4 DEF IsScan
<1>6. scan[s].mine = {} /\ doc = [d \in Docs |-> doc[d]]
  <2>1. ~InTxn(s)
    BY DEF Begin, InTxn
  <2> QED BY <2>1 DEF IInv, ScanSound, RowsSound, Typed
<1>7. doc' = [d \in Docs |-> IF d \in scan[s].mine THEN FreeDoc ELSE doc[d]]
  BY <1>1, <1>6
<1> QED BY <1>1, <1>2, <1>3, <1>5, <1>7, StartsOver

LEMMA EndsSound ==
    ASSUME IInv, NEW s \in Scanners, RolledBack(s), UNCHANGED <<disk, idx, del>>,
           scan' = [scan EXCEPT ![s] = Rest] \/ scan' = [scan EXCEPT ![s] = AfterDeadlock(@)]
    PROVE  IInv'
<1> DEFINE n == scan[s].attempts + 1
           again == [Rest EXCEPT !.pc = "retry", !.attempts = n]
<1>1. [p \in Paths |-> NoRow] \in [Paths -> Row \cup {NoRow}]
  OBVIOUS
<1>2. /\ IsScan(Rest) /\ Rest.pc = "idle" /\ Rest.todo = {}
      /\ Rest.pend = [p \in Paths |-> NoRow]
      /\ Rest.mine = {} /\ Rest.held = {} /\ Rest.shares = {}
  BY <1>1, RestIs DEF IsScan
<1>3. /\ again = [f \in ScanFields |-> again[f]] /\ again.pc = "retry" /\ again.todo = {}
      /\ again.snap = [p \in Paths |-> NoRow] /\ again.pend = [p \in Paths |-> NoRow]
      /\ again.mine = {} /\ again.held = {} /\ again.shares = {} /\ again.dup = None
  BY RestIs DEF ScanFields
<1> HIDE DEF again
<1>4. IsScan(again)
  BY <1>1, <1>3 DEF IsScan
<1>5. scan' = [scan EXCEPT ![s] = Rest] \/ scan' = [scan EXCEPT ![s] = again]
  BY DEF AfterDeadlock, again
<1>6. doc' = [d \in Docs |-> IF d \in scan[s].mine THEN FreeDoc ELSE doc[d]]
  BY DEF RolledBack
<1>7. PICK w : /\ scan' = [scan EXCEPT ![s] = w] /\ IsScan(w) /\ w.pc \in {"idle", "retry"}
               /\ w.todo = {} /\ w.pend = [p \in Paths |-> NoRow]
               /\ w.mine = {} /\ w.held = {} /\ w.shares = {}
  BY <1>2, <1>3, <1>4, <1>5
<1>8. w.todo \subseteq Library[Root[s]]
  BY <1>7
<1> QED BY <1>6, <1>7, <1>8, StartsOver

----------------------------------------------------------------------------
\* The commit of a scan.
LEMMA MissingIs ==
    ASSUME NEW r \in Row
    PROVE  LET m == [r EXCEPT !.status = "MISSING"] IN
           m \in Row /\ m.hash = r.hash /\ m.doc = r.doc /\ m.failed = r.failed
<1> DEFINE m == [hash |-> r.hash, status |-> "MISSING", doc |-> r.doc, failed |-> r.failed]
<1>1. PICK v : v = r
  OBVIOUS
<1>2. v = [hash |-> r.hash, status |-> r.status, doc |-> r.doc, failed |-> r.failed]
  BY <1>1, RowIs
<1>3. [v EXCEPT !.status = "MISSING"] = m
  BY <1>2
<1>4. m \in Row
  BY DEF Row
<1>5. m.hash = r.hash /\ m.doc = r.doc /\ m.failed = r.failed
  OBVIOUS
<1> HIDE DEF m
<1> QED BY <1>1, <1>3, <1>4, <1>5

\* What the commit does to a row and to a document.
LEMMA CommitIs ==
    ASSUME IInv, NEW s \in Scanners, Commit(s)
    PROVE  /\ InTxn(s) /\ scan' = [scan EXCEPT ![s] = Rest] /\ UNCHANGED <<disk, del>>
           /\ idx' \in [Paths -> Row \cup {NoRow}]
           /\ \A p \in Paths \ Library[Root[s]] : idx'[p] = idx[p]
           /\ \A p \in Paths :
                 \/ idx'[p].hash = idx[p].hash /\ idx'[p].doc = idx[p].doc
                    /\ idx'[p].failed = idx[p].failed
                 \/ p \in Touched(s) /\ idx'[p] = scan[s].pend[p]
           /\ doc' = [d \in Docs |-> doc'[d]] /\ \A d \in Docs : IsDoc(doc'[d])
           /\ \A d \in Docs : /\ doc'[d].cand = doc[d].cand /\ doc'[d].hash = doc[d].hash
                              /\ d \in scan[s].mine => doc'[d].st = "durable"
                              /\ d \notin scan[s].mine => doc'[d] = doc[d]
<1>1. /\ InTxn(s) /\ scan' = [scan EXCEPT ![s] = Rest] /\ UNCHANGED <<disk, del>>
      /\ idx' = [p \in Paths |-> IF p \in Unseen(s) THEN [idx[p] EXCEPT !.status = "MISSING"]
                                 ELSE View(s, p)]
      /\ doc' = [d \in Docs |-> IF d \in scan[s].mine
                                THEN [doc[d] EXCEPT !.st = "durable"] ELSE doc[d]]
  BY DEF Commit, InTxn
<1>2. /\ IsScan(scan[s]) /\ RowsSound(s) /\ idx \in [Paths -> Row \cup {NoRow}]
      /\ \A d \in Docs : IsDoc(doc[d])
  BY DEF IInv, Typed, ScanSound
<1>3. ASSUME NEW p \in Unseen(s)
      PROVE  /\ idx'[p] \in Row /\ p \in Library[Root[s]]
             /\ idx'[p].hash = idx[p].hash /\ idx'[p].doc = idx[p].doc
             /\ idx'[p].failed = idx[p].failed
  <2>1. p \in Library[Root[s]] /\ p \in Paths /\ scan[s].snap[p] # NoRow
    BY <1>3, LibraryIs DEF Unseen
  <2>2. idx[p] \in {scan[s].snap[p], Unlinked(scan[s].snap[p])}
    BY <1>1, <1>2, <2>1 DEF RowsSound
  <2>3. scan[s].snap[p] \in Row \cup {NoRow} /\ idx[p] \in Row \cup {NoRow}
    BY <1>2, <2>1 DEF IsScan
  <2>4. idx[p] # NoRow
    BY <2>1, <2>2, <2>3, UnlinkedIs
  <2>5. PICK r \in Row : r = idx[p]
    BY <2>3, <2>4
  <2>6. idx'[p] = [r EXCEPT !.status = "MISSING"]
    BY <1>1, <1>3, <2>1, <2>5
  <2> QED BY <2>1, <2>5, <2>6, MissingIs
<1>4. ASSUME NEW p \in Paths \ Unseen(s) PROVE idx'[p] = View(s, p)
  BY <1>1, <1>4
<1>5. ASSUME NEW p \in Paths PROVE View(s, p) \in Row \cup {NoRow}
  BY <1>2, <1>5 DEF View, IsScan
<1>6. idx' \in [Paths -> Row \cup {NoRow}]
  <2>1. \A p \in Paths : idx'[p] \in Row \cup {NoRow}
    BY <1>3, <1>4, <1>5
  <2>2. idx' = [p \in Paths |-> idx'[p]]
    BY <1>1
  <2> QED BY <2>1, <2>2
<1>7. \A p \in Paths \ Library[Root[s]] : idx'[p] = idx[p]
  BY <1>2, <1>3, <1>4 DEF View, RowsSound
<1>8. \A p \in Paths :
         \/ idx'[p].hash = idx[p].hash /\ idx'[p].doc = idx[p].doc /\ idx'[p].failed = idx[p].failed
         \/ p \in Touched(s) /\ idx'[p] = scan[s].pend[p]
  BY <1>3, <1>4 DEF View
<1>9. doc' = [d \in Docs |-> doc'[d]]
  BY <1>1
<1>10. ASSUME NEW d \in Docs
       PROVE  /\ IsDoc(doc'[d]) /\ doc'[d].cand = doc[d].cand /\ doc'[d].hash = doc[d].hash
              /\ d \in scan[s].mine => doc'[d].st = "durable"
              /\ d \notin scan[s].mine => doc'[d] = doc[d]
  <2>1. PICK v : v = doc[d] /\ IsDoc(v)
    BY <1>2
  <2> DEFINE m == [v EXCEPT !.st = "durable"]
  <2>2. /\ m = [f \in DocFields |-> m[f]] /\ m.cand = v.cand /\ m.hash = v.hash
        /\ m.st = "durable"
    BY <2>1 DEF IsDoc, DocFields
  <2>3. doc'[d] = IF d \in scan[s].mine THEN m ELSE v
    BY <1>1, <2>1
  <2> HIDE DEF m
  <2>4. IsDoc(m)
    BY <2>1, <2>2 DEF IsDoc
  <2> QED BY <2>1, <2>2, <2>3, <2>4
<1> QED BY <1>1, <1>6, <1>7, <1>8, <1>9, <1>10

LEMMA CommitSound == ASSUME IInv, NEW s \in Scanners, Commit(s) PROVE IInv'
<1>1. /\ InTxn(s) /\ scan' = [scan EXCEPT ![s] = Rest] /\ UNCHANGED <<disk, del>>
      /\ idx' \in [Paths -> Row \cup {NoRow}]
      /\ \A p \in Paths \ Library[Root[s]] : idx'[p] = idx[p]
      /\ doc' = [d \in Docs |-> doc'[d]] /\ \A d \in Docs : IsDoc(doc'[d])
  BY CommitIs
<1>2. \A p \in Paths :
         \/ idx'[p].hash = idx[p].hash /\ idx'[p].doc = idx[p].doc /\ idx'[p].failed = idx[p].failed
         \/ p \in Touched(s) /\ idx'[p] = scan[s].pend[p]
  BY CommitIs
<1>3. \A d \in Docs : /\ doc'[d].cand = doc[d].cand /\ doc'[d].hash = doc[d].hash
                      /\ d \in scan[s].mine => doc'[d].st = "durable"
                      /\ d \notin scan[s].mine => doc'[d] = doc[d]
  BY CommitIs
<1>4. /\ scan'[s] = Rest /\ \A t \in Scanners \ {s} : scan'[t] = scan[t]
      /\ scan' = [t \in Scanners |-> scan'[t]]
  BY <1>1 DEF IInv, Typed
<1>5. IsScan(Rest) /\ Rest.mine = {} /\ Rest.held = {}
  <2>1. [p \in Paths |-> NoRow] \in [Paths -> Row \cup {NoRow}]
    OBVIOUS
  <2> QED BY <2>1, RestIs DEF IsScan
<1>6. Typed'
  BY <1>1, <1>4, <1>5 DEF IInv, Typed
<1>7. /\ None \notin Docs /\ \A t \in Scanners : scan[t].mine \subseteq Docs
      /\ DocsSound /\ LocksSound /\ ScanSound(s)
  BY Constants DEF IInv, Typed, IsScan
<1>8. \A d \in Docs : Live(d) => d \notin scan[s].mine /\ doc'[d] = doc[d]
  BY <1>3, <1>7 DEF DocsSound, Live
<1>9. ASSUME NEW p \in Paths, idx'[p].doc # None
      PROVE  idx'[p].doc \in Docs /\ doc'[idx'[p].doc].st = "durable"
  <2>1. CASE idx'[p].doc = idx[p].doc
    BY <1>7, <1>8, <1>9, <2>1 DEF DocsSound, Live
  <2>2. CASE p \in Touched(s) /\ idx'[p] = scan[s].pend[p]
    <3>1. RowSound(s, p)
      BY <1>7, <2>2 DEF ScanSound, PendSound
    <3> QED BY <1>3, <1>8, <1>9, <2>2, <3>1 DEF RowSound, Live
  <2> QED BY <1>2, <2>1, <2>2
<1>10. ASSUME NEW p \in Paths, Shows(p)'
       PROVE  (Shows(p) /\ idx'[p].hash = idx[p].hash) \/ idx'[p].hash \in scan[s].held
  <2>1. /\ idx'[p].doc # None /\ ~idx'[p].failed /\ idx'[p].doc \in Docs
        /\ doc'[idx'[p].doc].cand = idx'[p].doc /\ doc'[idx'[p].doc].hash = idx'[p].hash
    BY <1>9, <1>10 DEF Shows
  <2>2. doc[idx'[p].doc].cand = idx'[p].doc /\ doc[idx'[p].doc].hash = idx'[p].hash
    BY <1>3, <2>1
  <2>3. CASE /\ idx'[p].hash = idx[p].hash /\ idx'[p].doc = idx[p].doc
             /\ idx'[p].failed = idx[p].failed
    BY <2>1, <2>2, <2>3 DEF Shows
  <2>4. CASE p \in Touched(s) /\ idx'[p] = scan[s].pend[p]
    <3>1. RowSound(s, p)
      BY <1>7, <2>4 DEF ScanSound, PendSound
    <3> QED BY <2>1, <2>2, <2>4, <3>1 DEF RowSound
  <2> QED BY <1>2, <2>3, <2>4
<1>11. ASSUME NEW t \in Scanners \ {s} PROVE Undisturbed(t)
  <2>1. /\ IsScan(scan[t]) /\ RowsSound(t) /\ SharesSound(t) /\ MineSound(t)
        /\ scan[t].held \cap scan[s].held = {} /\ scan[t].mine \cap scan[s].mine = {}
        /\ InTxn(t) => Root[t] # Root[s]
    BY <1>1, <1>7, <1>11 DEF IInv, Typed, ScanSound, LocksSound, DocsSound
  <2>2. InTxn(t) => Library[Root[t]] \subseteq Paths \ Library[Root[s]]
    BY <2>1, LibraryIs, FolderAssumption
  <2>3. /\ \A p \in Touched(t) : idx'[p] = idx[p]
        /\ InTxn(t) => \A p \in Library[Root[t]] : idx'[p] = idx[p]
    BY <1>1, <2>1, <2>2 DEF RowsSound
  <2>4. \A d \in scan[t].mine : doc'[d] = doc[d]
    BY <1>3, <1>7, <2>1
  <2>5. \A d \in Docs : Live(d) => doc'[d].st = "durable"
    BY <1>8 DEF Live
  <2>6. \A p \in Paths \ Touched(t) : Shows(p)' =>
           \/ Shows(p) /\ idx'[p].hash = idx[p].hash
           \/ idx'[p].hash \notin scan[t].held
    BY <1>10, <2>1
  <2>7. \A c \in scan[t].shares : \A x \in Deleters : del'[x] # c
    BY <1>1, <2>1 DEF SharesSound
  <2> QED BY <1>3, <1>4, <2>3, <2>4, <2>5, <2>6, <2>7 DEF Undisturbed
<1>12. \A t \in Scanners \ {s} : ScanSound(t)'
  BY <1>6, <1>11, Bystander
<1>13. ScanSound(s)'
  BY <1>4, RestIs, EmptyHanded
<1>14. DocsSound'
  <2>1. \A d \in Docs : doc'[d].st = "pending" <=> \E t \in Scanners : d \in scan'[t].mine
    <3>1. ASSUME NEW d \in scan[s].mine PROVE ~\E t \in Scanners : d \in scan'[t].mine
      BY <1>4, <1>5, <1>7 DEF DocsSound
    <3>2. ASSUME NEW d \in Docs \ scan[s].mine
          PROVE  (\E t \in Scanners : d \in scan'[t].mine) <=> \E t \in Scanners : d \in scan[t].mine
      BY <1>4, <1>5
    <3> QED BY <1>3, <1>7, <3>1, <3>2 DEF DocsSound
  <2>2. \A t, u \in Scanners : t # u => scan'[t].mine \cap scan'[u].mine = {}
    BY <1>4, <1>5, <1>7 DEF DocsSound
  <2>3. \A d \in Docs : doc'[d].st = "free" => doc'[d].cand = None
    BY <1>3, <1>7 DEF DocsSound
  <2>4. ASSUME NEW d \in Docs, doc'[d].st = "durable"
        PROVE  /\ doc'[d].cand \in Docs /\ doc'[doc'[d].cand].st = "durable"
               /\ doc'[doc'[d].cand].cand = doc'[d].cand
    <3>1. Live(d) \/ d \in scan[s].mine
      BY <1>3, <1>7, <2>4 DEF Live
    <3>2. /\ doc[d].cand \in Docs /\ doc[doc[d].cand].cand = doc[d].cand
          /\ Live(doc[d].cand) \/ doc[d].cand \in scan[s].mine
      BY <3>1, OwnerIs
    <3>3. doc'[doc[d].cand].st = "durable" /\ doc'[doc[d].cand].cand = doc[doc[d].cand].cand
      BY <1>3, <1>8, <3>2 DEF Live
    <3> QED BY <1>3, <3>2, <3>3
  <2>5. \A d \in Docs : Live(d)' =>
           /\ doc'[d].cand \in Docs
           /\ doc'[d].cand # None /\ doc'[doc'[d].cand].st = "durable"
           /\ doc'[doc'[d].cand].cand = doc'[d].cand
    BY <1>7, <2>4 DEF Live
  <2>6. \A q \in Paths : idx'[q].doc # None =>
           idx'[q].doc \in Docs /\ idx'[q].doc # None /\ doc'[idx'[q].doc].st = "durable"
    BY <1>9
  <2> QED BY <2>1, <2>2, <2>3, <2>5, <2>6, Zenon DEF DocsSound, Live
<1>15. LocksSound'
  <2>1. \A x \in Deleters : del[x] # None =>
           doc'[del[x]].st = "durable" /\ doc'[del[x]].cand = del[x]
    <3>1. del \in [Deleters -> Docs \cup {None}]
      BY DEF IInv, Typed
    <3> QED BY <1>7, <1>8, <3>1 DEF LocksSound, Live
  <2>2. ~InTxn(s)' /\ \A t \in Scanners \ {s} : InTxn(t)' = InTxn(t)
    BY <1>4, RestIs DEF InTxn
  <2>3. \A t, u \in Scanners : InTxn(t)' /\ InTxn(u)' /\ Root[t] = Root[u] => t = u
    BY <1>7, <2>2 DEF LocksSound
  <2>4. \A t, u \in Scanners : t # u => scan'[t].held \cap scan'[u].held = {}
    BY <1>4, <1>5, <1>7 DEF LocksSound
  <2> QED BY <1>1, <1>7, <2>1, <2>3, <2>4 DEF LocksSound, Live
<1> QED BY <1>6, <1>12, <1>13, <1>14, <1>15 DEF IInv

----------------------------------------------------------------------------
\* The deletes and the edits.
LEMMA DeleteIs ==
    ASSUME IInv, NEW x \in Deleters, CommitDelete(x), NEW c, c = del[x]
    PROVE  /\ c \in Docs /\ Live(c) /\ doc[c].cand = c /\ UNCHANGED <<disk, scan>>
           /\ del' = [del EXCEPT ![x] = None]
           /\ \A s \in Scanners : RowsOf(c) \cap Touched(s) = {}
           /\ idx' \in [Paths -> Row \cup {NoRow}]
           /\ \A p \in Paths : idx'[p] = IF p \in RowsOf(c) THEN Unlinked(idx[p]) ELSE idx[p]
           /\ doc' = [d \in Docs |-> doc'[d]] /\ \A d \in Docs : IsDoc(doc'[d])
           /\ \A d \in Docs : /\ doc'[d].cand = doc[d].cand /\ doc'[d].hash = doc[d].hash
                              /\ doc[d].cand = c => doc'[d].st = "gone"
                              /\ doc[d].cand # c => doc'[d] = doc[d]
<1>1. /\ c # None /\ UNCHANGED <<disk, scan>> /\ del' = [del EXCEPT ![x] = None]
      /\ \A s \in Scanners : RowsOf(c) \cap Touched(s) = {}
      /\ idx' = [p \in Paths |-> IF p \in RowsOf(c) THEN Unlinked(idx[p]) ELSE idx[p]]
      /\ doc' = [d \in Docs |-> IF d \in OfCandidate(c)
                                THEN [doc[d] EXCEPT !.st = "gone"] ELSE doc[d]]
  BY DEF CommitDelete
<1>2. /\ c \in Docs /\ Live(c) /\ doc[c].cand = c
      /\ idx \in [Paths -> Row \cup {NoRow}] /\ \A d \in Docs : IsDoc(doc[d])
  BY <1>1 DEF IInv, LocksSound, Typed
<1>3. \A p \in Paths : Unlinked(idx[p]) \in Row \cup {NoRow} /\ idx[p] \in Row \cup {NoRow}
  BY <1>2, UnlinkedIs
<1>4. idx' \in [Paths -> Row \cup {NoRow}]
  BY <1>1, <1>3
<1>5. \A p \in Paths : idx'[p] = IF p \in RowsOf(c) THEN Unlinked(idx[p]) ELSE idx[p]
  BY <1>1
<1>6. doc' = [d \in Docs |-> doc'[d]]
  BY <1>1
<1>7. ASSUME NEW d \in Docs
      PROVE  /\ IsDoc(doc'[d]) /\ doc'[d].cand = doc[d].cand /\ doc'[d].hash = doc[d].hash
             /\ doc[d].cand = c => doc'[d].st = "gone"
             /\ doc[d].cand # c => doc'[d] = doc[d]
  <2>1. PICK v : v = doc[d] /\ IsDoc(v)
    BY <1>2
  <2> DEFINE m == [v EXCEPT !.st = "gone"]
  <2>2. /\ m = [f \in DocFields |-> m[f]] /\ m.cand = v.cand /\ m.hash = v.hash
        /\ m.st = "gone"
    BY <2>1 DEF IsDoc, DocFields
  <2>3. doc'[d] = IF doc[d].cand = c THEN m ELSE v
    BY <1>1, <2>1 DEF OfCandidate
  <2> HIDE DEF m
  <2>4. IsDoc(m)
    BY <2>1, <2>2 DEF IsDoc
  <2> QED BY <2>1, <2>2, <2>3, <2>4
<1> QED BY <1>1, <1>2, <1>4, <1>5, <1>6, <1>7

LEMMA CommitDeleteSound == ASSUME IInv, NEW x \in Deleters, CommitDelete(x) PROVE IInv'
<1>0. PICK c : c = del[x]
  OBVIOUS
<1>1. /\ c \in Docs /\ Live(c) /\ doc[c].cand = c /\ UNCHANGED <<disk, scan>>
      /\ del' = [del EXCEPT ![x] = None]
      /\ \A s \in Scanners : RowsOf(c) \cap Touched(s) = {}
      /\ idx' \in [Paths -> Row \cup {NoRow}]
      /\ \A p \in Paths : idx'[p] = IF p \in RowsOf(c) THEN Unlinked(idx[p]) ELSE idx[p]
      /\ doc' = [d \in Docs |-> doc'[d]] /\ \A d \in Docs : IsDoc(doc'[d])
  BY <1>0, DeleteIs
<1>2. \A d \in Docs : /\ doc'[d].cand = doc[d].cand /\ doc'[d].hash = doc[d].hash
                      /\ doc[d].cand = c => doc'[d].st = "gone"
                      /\ doc[d].cand # c => doc'[d] = doc[d]
  BY <1>0, DeleteIs
<1>3. /\ None \notin Docs /\ DocsSound /\ LocksSound /\ del \in [Deleters -> Docs \cup {None}]
      /\ idx \in [Paths -> Row \cup {NoRow}] /\ \A s \in Scanners : IsScan(scan[s]) /\ ScanSound(s)
  BY Constants DEF IInv, Typed
<1>4. /\ del' \in [Deleters -> Docs \cup {None}] /\ del'[x] = None
      /\ \A y \in Deleters \ {x} : del'[y] = del[y] /\ (del[y] # None => del[y] # c)
  BY <1>0, <1>1, <1>3 DEF LocksSound
<1>5. Typed'
  BY <1>1, <1>4 DEF IInv, Typed
<1>6. ASSUME NEW p \in Paths, idx'[p].doc # None
      PROVE  /\ idx'[p] = idx[p] /\ idx[p].doc \in Docs /\ Live(idx[p].doc)
             /\ doc[idx[p].doc].cand # c
  <2>1. p \notin RowsOf(c)
    BY <1>1, <1>3, <1>6, UnlinkedIs
  <2>2. idx'[p] = idx[p]
    BY <1>1, <2>1
  <2> QED BY <1>3, <1>6, <2>1, <2>2 DEF DocsSound, RowsOf
<1>7. ASSUME NEW t \in Scanners PROVE Undisturbed(t)
  <2>1. MineSound(t) /\ SharesSound(t) /\ IsScan(scan[t]) /\ RowsSound(t) /\ c \notin scan[t].shares
    BY <1>0, <1>3, <1>7 DEF ScanSound, SharesSound
  <2>2. ASSUME NEW d \in scan[t].mine PROVE doc'[d] = doc[d]
    <3>1. d \in Docs /\ StoredSound(t, d) /\ doc[d].st = "pending"
      BY <1>3, <2>1, <2>2 DEF IsScan, MineSound, DocsSound
    <3>2. doc[d].cand # c
      BY <1>1, <2>1, <3>1 DEF StoredSound, Live
    <3> QED BY <1>2, <3>1, <3>2
  <2>3. ASSUME NEW p \in Touched(t) PROVE idx'[p] = idx[p] /\ p \in Paths /\ p \notin RowsOf(c)
    BY <1>1, <2>1, <2>3 DEF Touched
  <2>4. InTxn(t) => \A p \in Library[Root[t]] : idx'[p] \in {idx[p], Unlinked(idx[p])}
    BY <1>1, LibraryIs
  <2>5. ASSUME NEW d \in Docs, Live(d),
               doc[d].cand \in scan[t].shares \/ \E p \in Touched(t) : idx[p].doc = d
        PROVE  doc'[d].st = "durable"
    <3>1. doc[d].cand # c
      BY <1>3, <2>1, <2>3, <2>5 DEF RowsOf
    <3> QED BY <1>2, <2>5, <3>1 DEF Live
  <2>6. ASSUME NEW p \in Paths \ Touched(t), Shows(p)'
        PROVE  Shows(p) /\ idx'[p].hash = idx[p].hash
    <3>1. idx'[p].doc # None
      BY <2>6 DEF Shows
    <3>2. idx'[p] = idx[p] /\ idx[p].doc \in Docs
      BY <1>6, <3>1
    <3> QED BY <1>2, <2>6, <3>2 DEF Shows
  <2>7. \A e \in scan[t].shares : \A y \in Deleters : del'[y] # e
    <3>1. \A e \in scan[t].shares : e \in Docs /\ e # None
      BY <1>3, <2>1 DEF IsScan
    <3>2. \A e \in scan[t].shares : \A y \in Deleters : del[y] # e
      BY <2>1 DEF SharesSound
    <3> QED BY <1>4, <3>1, <3>2
  <2> QED BY <1>1, <1>2, <2>2, <2>3, <2>4, <2>5, <2>6, <2>7 DEF Undisturbed
<1>8. \A t \in Scanners : ScanSound(t)'
  BY <1>5, <1>7, Bystander
<1>9. ASSUME NEW d \in Docs, doc'[d].st = "durable"
      PROVE  /\ doc'[d].cand \in Docs /\ doc'[doc'[d].cand].st = "durable"
             /\ doc'[doc'[d].cand].cand = doc'[d].cand
  <2>1. doc[d].cand # c /\ Live(d)
    BY <1>2, <1>3, <1>9 DEF Live
  <2>2. /\ doc[d].cand \in Docs /\ Live(doc[d].cand)
        /\ doc[doc[d].cand].cand = doc[d].cand
    BY <1>3, <2>1 DEF DocsSound
  <2> QED BY <1>2, <2>1, <2>2 DEF Live
<1>10. DocsSound'
  <2>1. \A d \in Docs : doc'[d].st = "pending" <=> \E t \in Scanners : d \in scan'[t].mine
    <3>1. ASSUME NEW t \in Scanners, NEW d \in scan[t].mine PROVE doc'[d] = doc[d] /\ d \in Docs
      BY <1>3, <1>7 DEF Undisturbed, IsScan
    <3>2. \A d \in Docs : doc'[d].st = "pending" => doc'[d] = doc[d]
      BY <1>2
    <3> QED BY <1>1, <1>3, <3>1, <3>2 DEF DocsSound
  <2>2. \A t, u \in Scanners : t # u => scan'[t].mine \cap scan'[u].mine = {}
    BY <1>1, <1>3 DEF DocsSound
  <2>3. \A d \in Docs : doc'[d].st = "free" => doc'[d].cand = None
    BY <1>2, <1>3 DEF DocsSound
  <2>4. \A d \in Docs : Live(d)' =>
           /\ doc'[d].cand \in Docs
           /\ doc'[d].cand # None /\ doc'[doc'[d].cand].st = "durable"
           /\ doc'[doc'[d].cand].cand = doc'[d].cand
    BY <1>3, <1>9 DEF Live
  <2>5. \A q \in Paths : idx'[q].doc # None =>
           idx'[q].doc \in Docs /\ idx'[q].doc # None /\ doc'[idx'[q].doc].st = "durable"
    BY <1>2, <1>6 DEF Live
  <2> QED BY <2>1, <2>2, <2>3, <2>4, <2>5, Zenon DEF DocsSound, Live
<1>11. LocksSound'
  <2>1. \A y \in Deleters : del'[y] # None =>
           doc'[del'[y]].st = "durable" /\ doc'[del'[y]].cand = del'[y]
    BY <1>2, <1>3, <1>4 DEF LocksSound, Live
  <2>2. \A t \in Scanners : InTxn(t)' = InTxn(t)
    BY <1>1 DEF InTxn
  <2>3. \A y, z \in Deleters : del'[y] # None /\ del'[y] = del'[z] => y = z
    BY <1>3, <1>4 DEF LocksSound
  <2> QED BY <1>1, <1>3, <2>1, <2>2, <2>3 DEF LocksSound, Live
<1> QED BY <1>5, <1>8, <1>10, <1>11 DEF IInv

\* What changes neither a scan, a row nor a document.
LEMMA OthersOnly ==
    ASSUME IInv, UNCHANGED <<idx, doc, scan>>, disk' \in [Paths -> Contents \cup {None}],
           del' \in [Deleters -> Docs \cup {None}], LocksSound',
           \A t \in Scanners : \A c \in scan[t].shares : \A x \in Deleters : del'[x] # c
    PROVE  IInv'
<1>1. Typed'
  BY DEF IInv, Typed, IsScan, IsDoc
<1>2. DocsSound'
  BY DEF IInv, DocsSound, Live
<1>3. ASSUME NEW t \in Scanners PROVE Undisturbed(t)
  BY <1>3 DEF Undisturbed, Live, Shows
<1>4. \A t \in Scanners : ScanSound(t)'
  BY <1>1, <1>3, Bystander
<1> QED BY <1>1, <1>2, <1>4 DEF IInv

LEMMA LockCandidateSound ==
    ASSUME IInv, NEW x \in Deleters, NEW c \in Docs, LockCandidate(x, c) PROVE IInv'
<1>1. /\ del[x] = None /\ doc[c].cand = c /\ Live(c) /\ Unshared(c) /\ NotBeingDeleted(c)
      /\ del' = [del EXCEPT ![x] = c] /\ UNCHANGED <<disk, idx, doc, scan>>
  BY DEF LockCandidate
<1>2. LocksSound /\ del \in [Deleters -> Docs \cup {None}] /\ disk \in [Paths -> Contents \cup {None}]
  BY DEF IInv, Typed
<1>3. /\ del' \in [Deleters -> Docs \cup {None}] /\ del'[x] = c
      /\ \A y \in Deleters \ {x} : del'[y] = del[y] /\ del[y] # c
  BY <1>1, <1>2 DEF NotBeingDeleted
<1>4. LocksSound'
  <2>1. \A y \in Deleters : del'[y] # None => Live(del'[y]) /\ doc[del'[y]].cand = del'[y]
    BY <1>1, <1>2, <1>3 DEF LocksSound
  <2>2. \A y, z \in Deleters : del'[y] # None /\ del'[y] = del'[z] => y = z
    BY <1>2, <1>3 DEF LocksSound
  <2> QED BY <1>1, <1>2, <2>1, <2>2 DEF LocksSound, Live, InTxn
<1>5. \A t \in Scanners : \A e \in scan[t].shares : \A y \in Deleters : del'[y] # e
  BY <1>1, <1>3 DEF IInv, ScanSound, SharesSound, Unshared
<1> QED BY <1>1, <1>2, <1>3, <1>4, <1>5, OthersOnly

LEMMA AbandonDeleteSound == ASSUME IInv, NEW x \in Deleters, AbandonDelete(x) PROVE IInv'
<1>1. del' = [del EXCEPT ![x] = None] /\ UNCHANGED <<disk, idx, doc, scan>>
  BY DEF AbandonDelete
<1>2. LocksSound /\ del \in [Deleters -> Docs \cup {None}] /\ disk \in [Paths -> Contents \cup {None}]
  BY DEF IInv, Typed
<1>3. /\ del' \in [Deleters -> Docs \cup {None}] /\ del'[x] = None
      /\ \A y \in Deleters \ {x} : del'[y] = del[y]
  BY <1>1, <1>2
<1>4. LocksSound'
  <2>1. \A y \in Deleters : del'[y] # None => Live(del'[y]) /\ doc[del'[y]].cand = del'[y]
    BY <1>2, <1>3 DEF LocksSound
  <2>2. \A y, z \in Deleters : del'[y] # None /\ del'[y] = del'[z] => y = z
    BY <1>2, <1>3 DEF LocksSound
  <2> QED BY <1>1, <1>2, <2>1, <2>2 DEF LocksSound, Live, InTxn
<1>5. \A t \in Scanners : \A e \in scan[t].shares : e \in Docs /\ \A y \in Deleters : del[y] # e
  BY DEF IInv, ScanSound, SharesSound, Typed, IsScan
<1>6. \A t \in Scanners : \A e \in scan[t].shares : \A y \in Deleters : del'[y] # e
  BY <1>3, <1>5, Constants
<1> QED BY <1>1, <1>2, <1>3, <1>4, <1>6, OthersOnly

LEMMA EditSound ==
    ASSUME IInv, NEW p \in Paths, NEW h \in Contents \cup {None}, Edit(p, h) PROVE IInv'
<1>1. disk' = [disk EXCEPT ![p] = h] /\ UNCHANGED <<idx, doc, scan, del>>
  BY DEF Edit
<1>2. disk' \in [Paths -> Contents \cup {None}] /\ del' \in [Deleters -> Docs \cup {None}]
  BY <1>1 DEF IInv, Typed
<1>3. LocksSound'
  BY <1>1 DEF IInv, LocksSound, Live, InTxn
<1>4. \A t \in Scanners : \A c \in scan[t].shares : \A x \in Deleters : del'[x] # c
  BY <1>1 DEF IInv, ScanSound, SharesSound
<1> QED BY <1>1, <1>2, <1>3, <1>4, OthersOnly

----------------------------------------------------------------------------
LEMMA InitSound == ASSUME Init PROVE IInv
<1>1. /\ \A s \in Scanners : scan[s] = Rest
      /\ \A p \in Paths : idx[p] = NoRow
      /\ \A d \in Docs : doc[d] = FreeDoc
      /\ \A x \in Deleters : del[x] = None
  BY DEF Init
<1>2. FreeDoc.cand = None /\ FreeDoc.st = "free" /\ IsDoc(FreeDoc) /\ NoRow.doc = None
  BY DEF FreeDoc, IsDoc, DocFields, NoRow
<1>3. IsScan(Rest)
  <2>1. [p \in Paths |-> NoRow] \in [Paths -> Row \cup {NoRow}]
    OBVIOUS
  <2> QED BY <2>1, RestIs DEF IsScan
<1>4. Typed
  BY <1>1, <1>2, <1>3, FolderAssumption DEF Init, Typed
<1>5. DocsSound
  BY <1>1, <1>2, RestIs DEF DocsSound, Live
<1>6. LocksSound
  BY <1>1, RestIs DEF LocksSound, InTxn
<1>7. ASSUME NEW s \in Scanners PROVE ScanSound(s)
  <2>1. Touched(s) = {} /\ MintedBy(s) = {}
    BY <1>1, RestIs DEF Touched, MintedBy
  <2>2. RowsSound(s)
    BY <1>1, <2>1, RestIs DEF RowsSound, InTxn
  <2>3. PlaceSound(s)
    BY <1>1, RestIs DEF PlaceSound
  <2> QED BY <1>1, <2>1, <2>2, <2>3, RestIs DEF ScanSound, SharesSound, MineSound, PendSound, MintSound
<1> QED BY <1>4, <1>5, <1>6, <1>7 DEF IInv

LEMMA StepSound == ASSUME IInv, [Next]_vars PROVE IInv'
<1>1. CASE UNCHANGED vars
  <2>1. LocksSound' /\ disk' \in [Paths -> Contents \cup {None}] /\ del' \in [Deleters -> Docs \cup {None}]
    BY <1>1 DEF vars, IInv, Typed, LocksSound, Live, InTxn
  <2>2. \A t \in Scanners : \A c \in scan[t].shares : \A x \in Deleters : del'[x] # c
    BY <1>1 DEF vars, IInv, ScanSound, SharesSound
  <2> QED BY <1>1, <2>1, <2>2, OthersOnly DEF vars
<1>2. ASSUME NEW s \in Scanners, ScanStep(s) \/ Fail(s) PROVE IInv'
  <2>1. CASE Begin(s)
    BY <2>1, BeginSound
  <2>2. CASE Skip(s)
    BY <2>2, SkipSound
  <2>3. CASE Unchanged(s)
    BY <2>3, UnchangedSound
  <2>4. CASE NewContent(s)
    BY <2>4, NewContentSound
  <2>5. CASE Changed(s)
    BY <2>5, ChangedSound
  <2>6. CASE ParseChanged(s)
    BY <2>6, ParseChangedSound
  <2>7. CASE LockContent(s)
    BY <2>7, LockContentSound
  <2>8. CASE Lookup(s)
    BY <2>8, LookupSound
  <2>9. CASE LockOwner(s)
    BY <2>9, LockOwnerSound
  <2>10. CASE CreateNew(s)
    BY <2>10, CreateNewSound
  <2>11. CASE LockOwn(s)
    BY <2>11, LockOwnSound
  <2>12. CASE Commit(s)
    BY <2>12, CommitSound
  <2>13. CASE DeadlockVictim(s)
    BY <2>13, EndsSound DEF DeadlockVictim
  <2>14. CASE Fail(s)
    BY <2>14, EndsSound DEF Fail
  <2> QED BY <1>2, <2>1, <2>2, <2>3, <2>4, <2>5, <2>6, <2>7, <2>8, <2>9, <2>10, <2>11, <2>12,
             <2>13, <2>14 DEF ScanStep
<1>3. ASSUME NEW x \in Deleters, DeleteStep(x) \/ AbandonDelete(x) \/ \E c \in Docs : LockCandidate(x, c)
      PROVE  IInv'
  BY <1>3, CommitDeleteSound, AbandonDeleteSound, LockCandidateSound DEF DeleteStep, DeadlockedDelete
<1>4. ASSUME NEW p \in Paths, NEW h \in Contents \cup {None}, Edit(p, h) PROVE IInv'
  BY <1>4, EditSound
<1> QED BY <1>1, <1>2, <1>3, <1>4 DEF Next

LEMMA Inductive == Spec => []IInv
<1>1. Init => IInv
  BY InitSound
<1>2. IInv /\ [Next]_vars => IInv'
  BY StepSound
<1> QED BY <1>1, <1>2, PTL DEF Spec

----------------------------------------------------------------------------
\* Identical content converges on one candidate, in every reachable state: two
\* scans that mint for the same bytes would both hold the lock of the content,
\* and no row shows another candidate's document with them (content_authority,
\* _prepare_new_path).
THEOREM FolderOneOwner == Spec => []OneOwnerPerContent
<1>1. ASSUME IInv PROVE OneOwnerPerContent
  <2>1. ASSUME NEW s \in Scanners, NEW d \in MintedBy(s), NEW t \in Scanners, NEW e \in MintedBy(t),
               doc[e].hash = doc[d].hash
        PROVE  e = d
    <3>1. CASE s = t
      BY <1>1, <2>1, <3>1 DEF IInv, ScanSound, MintSound
    <3>2. CASE s # t
      <4>1. doc[d].hash \in scan[s].held /\ doc[e].hash \in scan[t].held
        BY <1>1 DEF IInv, ScanSound, MineSound, StoredSound, MintedBy
      <4> QED BY <1>1, <2>1, <3>2, <4>1 DEF IInv, LocksSound
    <3> QED BY <3>1, <3>2
  <2>2. \A s \in Scanners : \A d \in MintedBy(s) :
           \A p \in Paths \ Touched(s) : Shows(p) => idx[p].hash # doc[d].hash
    BY <1>1 DEF IInv, ScanSound, MintSound
  <2> QED BY <2>1, <2>2 DEF OneOwnerPerContent
<1> QED BY <1>1, Inductive, PTL

\* A scan works on what is true until it ends: the rows it read are the durable
\* ones but for links a delete has set to NULL, and all it has linked to still
\* exists (get_or_create_folder_source, the SHARE locks of _prepare_new_path and
\* _handle_changed_or_retry).
THEOREM FolderScansStayCurrent == Spec => []ScansStayCurrent
<1>1. ASSUME IInv PROVE ScansStayCurrent
  <2>1. SnapshotFresh
    BY <1>1 DEF IInv, ScanSound, RowsSound, SnapshotFresh
  <2>2. ASSUME NEW s \in Scanners, NEW d \in scan[s].mine
        PROVE  doc[d].cand \in scan[s].mine \/ Live(doc[d].cand)
    BY <1>1, <2>2 DEF IInv, ScanSound, MineSound, StoredSound
  <2>3. ASSUME NEW s \in Scanners, NEW p \in Touched(s), scan[s].pend[p].doc # None
        PROVE  scan[s].pend[p].doc \in scan[s].mine \/ Live(scan[s].pend[p].doc)
    BY <1>1, <2>3 DEF IInv, ScanSound, PendSound, RowSound
  <2>4. PendingLinksLive
    BY <2>2, <2>3 DEF PendingLinksLive
  <2> QED BY <2>1, <2>4 DEF ScansStayCurrent
<1> QED BY <1>1, Inductive, PTL

\* Only a commit changes a row's document, and only a delete ends a durable one.
LEMMA KeepsDurable ==
    ASSUME IInv, [Next]_vars, \A s \in Scanners : ~Commit(s), \A x \in Deleters : ~CommitDelete(x)
    PROVE  idx' = idx /\ \A d \in Docs : Live(d) => doc'[d] = doc[d]
<1>1. CASE UNCHANGED vars
  BY <1>1 DEF vars
<1>2. ASSUME NEW s \in Scanners, RolledBack(s), idx' = idx
      PROVE  \A d \in Docs : Live(d) => doc'[d] = doc[d]
  <2>1. \A d \in scan[s].mine : d \in Docs /\ doc[d].st = "pending"
    BY DEF IInv, Typed, IsScan, DocsSound
  <2> QED BY <1>2, <2>1 DEF RolledBack, Live
<1>3. ASSUME NEW s \in Scanners, NEW c, HasFreshDoc, Stores(s, FreshDoc, c)
      PROVE  \A d \in Docs : Live(d) => doc'[d] = doc[d]
  <2>1. PICK f : f = FreshDoc
    OBVIOUS
  <2>2. f \in Docs /\ doc[f].st = "free"
    BY <1>3, <2>1, FreshIs
  <2>3. doc' = [doc EXCEPT ![f] = [cand |-> c, hash |-> scan[s].hash, st |-> "pending"]]
    BY <1>3, <2>1 DEF Stores
  <2>4. \A d \in Docs \ {f} : doc'[d] = doc[d]
    BY <2>3 DEF IInv, Typed
  <2> QED BY <2>2, <2>4 DEF Live
<1>4. ASSUME NEW s \in Scanners, ScanStep(s) \/ Fail(s)
      PROVE  idx' = idx /\ \A d \in Docs : Live(d) => doc'[d] = doc[d]
  <2>1. CASE DeadlockVictim(s) \/ Fail(s)
    BY <1>2, <2>1 DEF DeadlockVictim, Fail
  <2>2. CASE CreateNew(s) \/ LockOwn(s)
    BY <1>3, <2>2 DEF CreateNew, LockOwn
  <2>3. CASE \/ Begin(s) \/ Skip(s) \/ Unchanged(s) \/ NewContent(s) \/ Changed(s)
             \/ ParseChanged(s) \/ LockContent(s) \/ Lookup(s) \/ LockOwner(s)
    BY <2>3 DEF Begin, Skip, Unchanged, NewContent, Changed, ParseChanged, LockContent, Lookup,
                LockOwner
  <2> QED BY <1>4, <2>1, <2>2, <2>3 DEF ScanStep
<1>5. ASSUME NEW x \in Deleters, DeleteStep(x) \/ AbandonDelete(x) \/ \E c \in Docs : LockCandidate(x, c)
      PROVE  idx' = idx /\ doc' = doc
  BY <1>5 DEF DeleteStep, DeadlockedDelete, AbandonDelete, LockCandidate
<1>6. ASSUME NEW p \in Paths, NEW h \in Contents \cup {None}, Edit(p, h)
      PROVE  idx' = idx /\ doc' = doc
  BY <1>6 DEF Edit
<1> QED BY <1>1, <1>4, <1>5, <1>6 DEF Next

\* The last good import of a path survives every step: its document is replaced
\* only by one of the same candidate, and lost only with the candidate (D-013,
\* _handle_changed_or_retry, update_folder_indexed_file).
THEOREM FolderEvidenceKept == Spec => EvidenceKept
<1>1. ASSUME IInv, [Next]_vars, NEW p \in Paths, idx[p].doc # None
      PROVE  IF idx'[p].doc = None THEN doc'[idx[p].doc].st = "gone"
             ELSE doc'[idx'[p].doc].cand = doc[idx[p].doc].cand
  <2>1. idx[p].doc \in Docs /\ Live(idx[p].doc) /\ idx \in [Paths -> Row \cup {NoRow}]
    BY <1>1 DEF IInv, DocsSound, Typed
  <2>2. CASE \E s \in Scanners : Commit(s)
    <3>1. PICK s \in Scanners : Commit(s)
      BY <2>2
    <3>2. /\ \/ idx'[p].doc = idx[p].doc
             \/ p \in Touched(s) /\ idx'[p] = scan[s].pend[p]
          /\ \A d \in Docs : doc'[d].cand = doc[d].cand
      BY <1>1, <3>1, CommitIs
    <3>3. CASE idx'[p].doc = idx[p].doc
      BY <1>1, <2>1, <3>2, <3>3
    <3>4. CASE p \in Touched(s) /\ idx'[p] = scan[s].pend[p]
      <4>1. RowSound(s, p)
        BY <1>1, <3>4 DEF IInv, ScanSound, PendSound
      <4> QED BY <1>1, <2>1, <3>2, <3>4, <4>1 DEF RowSound
    <3> QED BY <3>2, <3>3, <3>4
  <2>3. CASE \E x \in Deleters : CommitDelete(x)
    <3>0. PICK x \in Deleters : CommitDelete(x)
      BY <2>3
    <3>1. PICK c : c = del[x]
      OBVIOUS
    <3>2. /\ idx'[p] = IF p \in RowsOf(c) THEN Unlinked(idx[p]) ELSE idx[p]
          /\ \A d \in Docs : /\ doc'[d].cand = doc[d].cand
                             /\ doc[d].cand = c => doc'[d].st = "gone"
      BY <1>1, <3>0, <3>1, DeleteIs
    <3>3. CASE p \in RowsOf(c)
      BY <2>1, <3>2, <3>3, UnlinkedIs DEF RowsOf
    <3>4. CASE p \notin RowsOf(c)
      BY <1>1, <2>1, <3>2, <3>4
    <3> QED BY <3>3, <3>4
  <2>4. CASE (\A s \in Scanners : ~Commit(s)) /\ \A x \in Deleters : ~CommitDelete(x)
    <3>1. idx' = idx /\ doc'[idx[p].doc] = doc[idx[p].doc]
      BY <1>1, <2>1, <2>4, KeepsDurable
    <3> QED BY <1>1, <3>1
  <2> QED BY <2>2, <2>3, <2>4
<1>2. ASSUME IInv, [Next]_vars
      PROVE  [\A p \in Paths : idx[p].doc # None =>
                IF idx'[p].doc = None THEN doc'[idx[p].doc].st = "gone"
                ELSE doc'[idx'[p].doc].cand = doc[idx[p].doc].cand]_vars
  BY <1>1, <1>2
<1> QED BY <1>2, Inductive, PTL DEF Spec, EvidenceKept
=============================================================================
