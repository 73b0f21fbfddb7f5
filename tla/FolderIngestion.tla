--------------------------- MODULE FolderIngestion ---------------------------
(***************************************************************************)
(* The CV library scan (services/folder_indexer_service.py with            *)
(* folder_indexed_file_repo, folder_source_repo and content_authority)     *)
(* beside hard deletes of candidates (services/candidate_service.py) and   *)
(* edits of the folder itself.                                             *)
(*                                                                         *)
(* A scan is one transaction: it keeps the lock of its folder source, an   *)
(* advisory lock per content it ingests and a SHARE lock per candidate it  *)
(* links to until it commits or rolls back.  It works on the index rows it *)
(* read at the start (the session's identity map), which a delete may have *)
(* unlinked since.  An action is what one scan does between two waits: a   *)
(* query, a lock, the parser.  Rows a scan has written are locked, and are *)
(* seen by nobody else before its commit.                                  *)
(***************************************************************************)
EXTENDS Naturals, FiniteSets

CONSTANTS
    Paths,        \* relative paths, each below one source
    Library,      \* source -> its paths
    Order,        \* path -> its place in the walk, which is sorted
    Folders,      \* what the folders may hold at the start: path -> content
    Scanners,     \* sessions that run index_folder_and_commit
    Root,         \* scanner -> the source it scans
    Deleters,     \* sessions that run delete_candidate_cascade
    Contents,     \* what a file may hold; the sha256 is the content itself
    Rejected,     \* the contents validate_upload refuses
    None,
    MaxAttempts,  \* MAX_DEADLOCK_ATTEMPTS
    MaxDocs,      \* bound: documents ever stored
    MaxScans,     \* bound: scans
    MaxDeletes,   \* bound: deletes
    MaxEdits      \* bound: changes of the folder while the program runs

ASSUME FolderAssumption ==
    /\ IsFiniteSet(Paths) /\ Rejected \subseteq Contents
    /\ None \notin Contents \cup Scanners \cup Deleters \cup Nat
    /\ Scanners \cap Deleters = {}
    /\ Folders \subseteq [Paths -> Contents \cup {None}]
    /\ Root \in [Scanners -> DOMAIN Library]
    /\ \A r \in DOMAIN Library : Library[r] \subseteq Paths
    /\ \A r, t \in DOMAIN Library : r # t => Library[r] \cap Library[t] = {}
    /\ Order \in [Paths -> Nat]
    /\ MaxAttempts \in Nat \ {0}
    /\ {MaxDocs, MaxScans, MaxDeletes, MaxEdits} \subseteq Nat

VARIABLES
    disk,   \* path -> the content of the file there, or None
    idx,    \* path -> its durable FolderIndexedFile, or NoRow
    doc,    \* CandidateDocument: its candidate (named by its first document),
            \* its hash and whether it is durable yet
    scan,   \* scanner -> its scan
    del,    \* deleter -> the candidate whose row it has locked, or None
    used    \* scans, deletes and edits so far

vars == <<disk, idx, doc, scan, del, used>>

Docs == 1..MaxDocs
\* A row's failed field: its failure_code is set.
NoRow == [hash |-> None, status |-> "none", doc |-> None, failed |-> FALSE]
Row == [hash : Contents, status : {"INDEXED", "FAILED", "MISSING"}, doc : Docs \cup {None},
        failed : BOOLEAN]
FreeDoc == [cand |-> None, hash |-> None, st |-> "free"]

Live(d) == d # None /\ doc[d].st = "durable"
OfCandidate(c) == {d \in Docs : doc[d].cand = c}

Rest == [pc |-> "idle", attempts |-> 0, snap |-> [p \in Paths |-> NoRow],
         listed |-> {}, todo |-> {}, pend |-> [p \in Paths |-> NoRow], mine |-> {},
         hash |-> None, dup |-> None, held |-> {}, shares |-> {}]

Init ==
    /\ disk \in Folders
    /\ idx = [p \in Paths |-> NoRow]
    /\ doc = [d \in Docs |-> FreeDoc]
    /\ scan = [s \in Scanners |-> Rest]
    /\ del = [x \in Deleters |-> None]
    /\ used = [scans |-> 0, deletes |-> 0, edits |-> 0]

InTxn(s) == scan[s].pc \notin {"idle", "retry"}
Touched(s) == {p \in Paths : scan[s].pend[p] # NoRow}

\* The file a scan is at: the first of those it has still to visit.
First(T) == CHOOSE p \in T : \A q \in T : Order[p] <= Order[q]
At(s) == First(scan[s].todo)
Snap(s) == scan[s].snap[At(s)]

\* The rows a scan's own queries see.
View(s, p) == IF p \in Touched(s) THEN scan[s].pend[p] ELSE idx[p]

----------------------------------------------------------------------------
\* index_folder up to the loop: the source's row lock, then the snapshot of its
\* index rows, then the walk that lists its files.
SourceIsFree(s) == \A t \in Scanners : InTxn(t) => Root[t] # Root[s]

Listing(s) == {p \in Library[Root[s]] : disk[p] # None}

Begin(s) ==
    /\ \/ scan[s].pc = "idle" /\ used.scans < MaxScans
       \/ scan[s].pc = "retry"
    /\ SourceIsFree(s)
    /\ LET again == scan[s].pc = "retry" IN
       /\ scan' = [scan EXCEPT ![s] =
                     [Rest EXCEPT !.pc = "scan",
                                  !.attempts = IF again THEN scan[s].attempts ELSE 1,
                                  !.snap = idx, !.listed = Listing(s), !.todo = Listing(s)]]
       /\ used' = [used EXCEPT !.scans = @ + (IF again THEN 0 ELSE 1)]
    /\ UNCHANGED <<disk, idx, doc, del>>

\* Every outcome of a file ends with its row written, if any, and the next file.
Advance(s) ==
    [scan[s] EXCEPT !.pc = "scan", !.todo = @ \ {At(s)}, !.hash = None, !.dup = None]
Writes(s, row) == [Advance(s) EXCEPT !.pend[At(s)] = row]

\* Variant: a failed import clears the links of the row.
UpdatedClears(s, hash, status) ==
    [hash |-> hash, status |-> status, failed |-> status = "FAILED",
     doc |-> IF status = "FAILED" THEN None ELSE idx[At(s)].doc]

\* The row of the current path as an UPDATE of these columns leaves it: a failure
\* sets its failure_code, which only a successful import clears.
Updated(s, hash, status) ==
    [hash |-> hash, status |-> status, doc |-> idx[At(s)].doc,
     failed |-> idx[At(s)].failed \/ status = "FAILED"]

OnFile(s, pc) == scan[s].pc = pc /\ scan[s].todo # {}

\* Too large, too young, changed while it was read, or gone since the walk.
Skip(s) ==
    /\ OnFile(s, "scan")
    /\ scan' = [scan EXCEPT ![s] = Advance(s)]
    /\ UNCHANGED <<disk, idx, doc, del, used>>

Needs(row) == row.status = "FAILED" \/ row.doc = None
Same(row, h) == row.hash = h /\ ~Needs(row)

Unchanged(s) ==
    /\ OnFile(s, "scan") /\ disk[At(s)] # None /\ Same(Snap(s), disk[At(s)])
    /\ scan' = [scan EXCEPT ![s] = Writes(s, Updated(s, Snap(s).hash, "INDEXED"))]
    /\ UNCHANGED <<disk, idx, doc, del, used>>

\* A new path, and a path without a candidate, ask for the content's lock.
NewContent(s) ==
    /\ OnFile(s, "scan") /\ disk[At(s)] # None /\ ~Same(Snap(s), disk[At(s)])
    /\ Snap(s).doc = None
    /\ scan' = [scan EXCEPT ![s].pc = "content", ![s].hash = disk[At(s)]]
    /\ UNCHANGED <<disk, idx, doc, del, used>>

\* _handle_changed_or_retry of a path with a candidate: the unlocked look at
\* the candidate, then the parser; the path's candidate is kept.
Changed(s) ==
    /\ OnFile(s, "scan") /\ disk[At(s)] # None /\ ~Same(Snap(s), disk[At(s)])
    /\ Snap(s).doc # None
    /\ scan' = [scan EXCEPT ![s] =
                 IF ~Live(Snap(s).doc) THEN Writes(s, Updated(s, Snap(s).hash, "FAILED"))
                 ELSE [@ EXCEPT !.pc = "parse", !.hash = disk[At(s)]]]
    /\ UNCHANGED <<disk, idx, doc, del, used>>

ParseChanged(s) ==
    /\ OnFile(s, "parse")
    /\ \/ scan' = [scan EXCEPT ![s] = Writes(s, Updated(s, @.hash, "FAILED"))]
       \/ /\ scan[s].hash \notin Rejected
          /\ scan' = [scan EXCEPT ![s].pc = "own"]
    /\ UNCHANGED <<disk, idx, doc, del, used>>

----------------------------------------------------------------------------
\* _prepare_new_path: the content's lock, the lookup, the owner's lock.
\* Variant: the content's lock excludes nobody.
ContentUnlocked(s, h) == TRUE

ContentIsFree(s, h) == \A t \in Scanners \ {s} : h \notin scan[t].held

LockContent(s) ==
    /\ OnFile(s, "content") /\ ContentIsFree(s, scan[s].hash)
    /\ scan' = [scan EXCEPT ![s].pc = "lookup", ![s].held = @ \cup {scan[s].hash}]
    /\ UNCHANGED <<disk, idx, doc, del, used>>

\* find_indexed_file_by_content_hash: rows whose retained document has the
\* hash they were last seen with.  created_at is the start of a transaction,
\* so that any of them can be the earliest.
Eligible(s, h) ==
    {d \in Docs : /\ Live(d) \/ d \in scan[s].mine
                  /\ doc[d].hash = h
                  /\ \E p \in Paths : View(s, p).hash = h /\ View(s, p).doc = d}

Lookup(s) ==
    /\ OnFile(s, "lookup")
    /\ \/ /\ Eligible(s, scan[s].hash) = {}
          /\ scan' = [scan EXCEPT ![s].pc = "new"]
       \/ \E d \in Eligible(s, scan[s].hash) :
            scan' = [scan EXCEPT ![s].pc = "owner", ![s].dup = d]
    /\ UNCHANGED <<disk, idx, doc, del, used>>

\* Variant: the candidate is read without its lock.
NotBeingDeletedUnlocked(c) == TRUE

\* get_candidate(share=True) waits for a delete that has the row.
NotBeingDeleted(c) == \A x \in Deleters : del[x] # c

LinkRow(s, d) == [hash |-> scan[s].hash, status |-> "INDEXED", doc |-> d, failed |-> FALSE]
FailRow(s) == IF idx[At(s)] = NoRow
              THEN [hash |-> scan[s].hash, status |-> "FAILED", doc |-> None, failed |-> TRUE]
              ELSE Updated(s, scan[s].hash, "FAILED")

LockOwner(s) ==
    /\ OnFile(s, "owner")
    /\ LET d == scan[s].dup
           c == doc[d].cand IN
       /\ NotBeingDeleted(c)
       /\ \/ /\ ~Live(d) /\ d \notin scan[s].mine
             /\ scan' = [scan EXCEPT ![s].pc = "lookup", ![s].dup = None]
          \/ /\ Live(d) \/ d \in scan[s].mine
             /\ \E row \in {FailRow(s)} \cup (IF scan[s].hash \in Rejected THEN {}
                                              ELSE {LinkRow(s, d)}) :
                  scan' = [scan EXCEPT ![s] = [Writes(s, row) EXCEPT
                                                 !.shares = @ \cup {c}]]
    /\ UNCHANGED <<disk, idx, doc, del, used>>

\* A document id is fresh; one that was rolled back never existed.
FreshDoc == CHOOSE d \in Docs : doc[d].st = "free"
HasFreshDoc == \E d \in Docs : doc[d].st = "free"

Stores(s, d, c) ==
    /\ doc' = [doc EXCEPT ![d] = [cand |-> c, hash |-> scan[s].hash, st |-> "pending"]]
    /\ scan' = [scan EXCEPT ![s] = [Writes(s, LinkRow(s, d)) EXCEPT
                                      !.mine = @ \cup {d},
                                      !.shares = IF c = d THEN @ ELSE @ \cup {c}]]

\* The parser, then create_candidate and persist_candidate_document.
CreateNew(s) ==
    /\ OnFile(s, "new")
    /\ \/ /\ scan' = [scan EXCEPT ![s] = Writes(s, FailRow(s))]
          /\ UNCHANGED doc
       \/ /\ scan[s].hash \notin Rejected /\ HasFreshDoc
          /\ Stores(s, FreshDoc, FreshDoc)
    /\ UNCHANGED <<disk, idx, del, used>>

\* The candidate's SHARE lock and the refreshed row, then the new version.
LockOwn(s) ==
    /\ OnFile(s, "own")
    /\ LET d == Snap(s).doc
           c == doc[d].cand IN
       /\ NotBeingDeleted(c)
       /\ \/ /\ ~Live(d) \/ idx[At(s)].doc = None
             /\ scan' = [scan EXCEPT ![s] = Writes(s, Updated(s, @.hash, "FAILED"))]
             /\ UNCHANGED doc
          \/ /\ Live(d) /\ idx[At(s)].doc # None /\ HasFreshDoc
             /\ Stores(s, FreshDoc, c)
    /\ UNCHANGED <<disk, idx, del, used>>

----------------------------------------------------------------------------
\* The tombstones of the rows that were not listed, and the commit.
Unseen(s) == {p \in Library[Root[s]] : scan[s].snap[p] # NoRow /\ p \notin scan[s].listed}

Commit(s) ==
    /\ scan[s].pc = "scan" /\ scan[s].todo = {}
    /\ idx' = [p \in Paths |-> IF p \in Unseen(s) THEN [idx[p] EXCEPT !.status = "MISSING"]
                               ELSE View(s, p)]
    /\ doc' = [d \in Docs |-> IF d \in scan[s].mine
                              THEN [doc[d] EXCEPT !.st = "durable"] ELSE doc[d]]
    /\ scan' = [scan EXCEPT ![s] = Rest]
    /\ UNCHANGED <<disk, del, used>>

\* The rollback compensates every original this scan saved.
RolledBack(s) ==
    doc' = [d \in Docs |-> IF d \in scan[s].mine THEN FreeDoc ELSE doc[d]]

Fail(s) ==
    /\ InTxn(s) /\ RolledBack(s)
    /\ scan' = [scan EXCEPT ![s] = Rest]
    /\ UNCHANGED <<disk, idx, del, used>>

\* Who waits for whom: content locks, candidate rows, index rows.
RowsOf(c) == {p \in Paths : idx[p].doc # None /\ doc[idx[p].doc].cand = c}
Waits(a, b) ==
    \/ /\ a \in Scanners /\ b \in Scanners \ {a}
       /\ scan[a].pc = "content" /\ scan[a].hash \in scan[b].held
    \/ /\ a \in Scanners /\ b \in Deleters /\ del[b] # None
       /\ \/ scan[a].pc = "owner" /\ doc[scan[a].dup].cand = del[b]
          \/ scan[a].pc = "own" /\ doc[Snap(a).doc].cand = del[b]
    \/ /\ a \in Deleters /\ b \in Scanners /\ del[a] # None
       /\ RowsOf(del[a]) \cap Touched(b) # {}

Actors == Scanners \cup Deleters
Waiting == {a \in Actors : \E b \in Actors : Waits(a, b)}
WaitingOnly(A) == A # {} /\ \A a \in A : \E b \in A : Waits(a, b)
OnCycle(a) == \E A \in SUBSET Waiting :
                /\ a \in A /\ WaitingOnly(A)
                /\ \A B \in SUBSET A : WaitingOnly(B) => B = A

\* Variant: the attempts are not counted.
AfterDeadlockUncounted(r) ==
    [Rest EXCEPT !.pc = "retry", !.attempts = r.attempts]

AfterDeadlock(r) ==
    IF r.attempts = MaxAttempts
    THEN Rest
    ELSE [Rest EXCEPT !.pc = "retry", !.attempts = r.attempts + 1]

\* PostgreSQL aborts one transaction of the cycle; the scan is repeated.
DeadlockVictim(s) ==
    /\ OnCycle(s) /\ RolledBack(s)
    /\ scan' = [scan EXCEPT ![s] = AfterDeadlock(@)]
    /\ UNCHANGED <<disk, idx, del, used>>

----------------------------------------------------------------------------
\* delete_candidate_cascade: the candidate's row lock; then its documents go,
\* and the foreign keys set the links of its index rows to NULL, which waits
\* for the scans that have written one of those rows.
Unshared(c) == \A s \in Scanners : c \notin scan[s].shares

LockCandidate(x, c) ==
    /\ del[x] = None /\ used.deletes < MaxDeletes
    /\ doc[c].cand = c /\ Live(c) /\ Unshared(c) /\ NotBeingDeleted(c)
    /\ del' = [del EXCEPT ![x] = c]
    /\ used' = [used EXCEPT !.deletes = @ + 1]
    /\ UNCHANGED <<disk, idx, doc, scan>>

Unlinked(row) == [row EXCEPT !.doc = None]

CommitDelete(x) ==
    /\ del[x] # None
    /\ \A s \in Scanners : RowsOf(del[x]) \cap Touched(s) = {}
    /\ doc' = [d \in Docs |-> IF d \in OfCandidate(del[x]) THEN [doc[d] EXCEPT !.st = "gone"]
                              ELSE doc[d]]
    /\ idx' = [p \in Paths |-> IF p \in RowsOf(del[x]) THEN Unlinked(idx[p]) ELSE idx[p]]
    /\ del' = [del EXCEPT ![x] = None]
    /\ UNCHANGED <<disk, scan, used>>

\* Any failure of the request: it is rolled back.
AbandonDelete(x) ==
    /\ del[x] # None
    /\ del' = [del EXCEPT ![x] = None]
    /\ UNCHANGED <<disk, idx, doc, scan, used>>

\* The delete may be the transaction PostgreSQL aborts.
DeadlockedDelete(x) == OnCycle(x) /\ AbandonDelete(x)

Edit(p, h) ==
    /\ used.edits < MaxEdits /\ disk[p] # h
    /\ disk' = [disk EXCEPT ![p] = h]
    /\ used' = [used EXCEPT !.edits = @ + 1]
    /\ UNCHANGED <<idx, doc, scan, del>>

ScanStep(s) ==
    \/ Begin(s) \/ Skip(s) \/ Unchanged(s) \/ NewContent(s) \/ Changed(s)
    \/ ParseChanged(s) \/ LockContent(s) \/ Lookup(s) \/ LockOwner(s)
    \/ CreateNew(s) \/ LockOwn(s) \/ Commit(s) \/ DeadlockVictim(s)

DeleteStep(x) == CommitDelete(x) \/ DeadlockedDelete(x)

Next ==
    \/ \E s \in Scanners : ScanStep(s) \/ Fail(s)
    \/ \E x \in Deleters : DeleteStep(x) \/ AbandonDelete(x) \/ \E c \in Docs : LockCandidate(x, c)
    \/ \E p \in Paths, h \in Contents \cup {None} : Edit(p, h)

Spec == Init /\ [][Next]_vars

\* As long as some scan can take its next step, one does; a delete that can
\* commit does.
FairSpec ==
    /\ Spec
    /\ WF_vars(\E s \in Scanners : ScanStep(s))
    /\ WF_vars(\E x \in Deleters : DeleteStep(x))

----------------------------------------------------------------------------
\* Types; a pending document belongs to exactly one scan that still runs, and
\* a scan holds nothing once it has ended.
TypeOK ==
    /\ disk \in [Paths -> Contents \cup {None}]
    /\ idx \in [Paths -> Row \cup {NoRow}]
    /\ doc \in [Docs -> [cand : Docs \cup {None}, hash : Contents \cup {None},
                         st : {"free", "pending", "durable", "gone"}]]
    /\ del \in [Deleters -> Docs \cup {None}]
    /\ used \in [scans : 0..MaxScans, deletes : 0..MaxDeletes, edits : 0..MaxEdits]
    /\ \A s \in Scanners :
         /\ scan[s].attempts \in 0..MaxAttempts
         /\ scan[s].pc \in {"idle", "retry", "scan", "content", "lookup", "owner", "new",
                            "parse", "own"}
         /\ \A p \in Touched(s) : scan[s].pend[p] \in Row
         /\ ~InTxn(s) => Touched(s) \cup scan[s].mine \cup scan[s].held \cup scan[s].shares = {}
    /\ \A d \in Docs : doc[d].st = "pending" <=> \E s \in Scanners : d \in scan[s].mine
    /\ \A s, t \in Scanners : s # t => scan[s].mine \cap scan[t].mine = {}

\* Identical content converges on one candidate: once a scan has minted one for
\* some bytes and until it ends, no other scan has minted one for them, and no
\* row shows another that was minted for them and imported without a failure
\* since, of any source (content_authority: lookup and minting under the lock of
\* the content, "never decided on a pre-wait observation").
Shows(p) ==
    /\ idx[p].doc # None /\ ~idx[p].failed
    /\ doc[idx[p].doc].cand = idx[p].doc /\ doc[idx[p].doc].hash = idx[p].hash
MintedBy(s) == {d \in scan[s].mine : doc[d].cand = d}
OneOwnerPerContent ==
    \A s \in Scanners : \A d \in MintedBy(s) :
        /\ \A t \in Scanners : \A e \in MintedBy(t) : doc[e].hash = doc[d].hash => e = d
        /\ \A p \in Paths \ Touched(s) : Shows(p) => idx[p].hash # doc[d].hash

\* What a scan has not committed yet stays linked to something that exists: a
\* document it adds to an existing candidate, and every row it has written,
\* keep their candidate until the scan ends, whatever is deleted meanwhile
\* (the SHARE locks of _prepare_new_path and _handle_changed_or_retry).
PendingLinksLive ==
    \A s \in Scanners :
        /\ \A d \in scan[s].mine : doc[d].cand \in scan[s].mine \/ Live(doc[d].cand)
        /\ \A p \in Touched(s) : scan[s].pend[p].doc # None =>
             scan[s].pend[p].doc \in scan[s].mine \/ Live(scan[s].pend[p].doc)

\* Reconciliation of one source has a single writer: for as long as a scan runs,
\* the rows it read at its start are the durable ones, except for the links a
\* delete has set to NULL (get_or_create_folder_source before the snapshot).
SnapshotFresh ==
    \A s \in Scanners : InTxn(s) =>
        \A p \in Library[Root[s]] :
            idx[p] \in {scan[s].snap[p], Unlinked(scan[s].snap[p])}

\* A scan works on what is true until it ends, though it parses for seconds
\* between what it reads and what it commits.
ScansStayCurrent == SnapshotFresh /\ PendingLinksLive

\* The last good import of a path survives: its document is only replaced by
\* another of the same candidate, and only lost with the candidate (D-013: a
\* failed re-import never clears a successful one, a missing file keeps it).
EvidenceKept ==
    [][\A p \in Paths : idx[p].doc # None =>
         IF idx'[p].doc = None THEN doc'[idx[p].doc].st = "gone"
         ELSE doc'[idx'[p].doc].cand = doc[idx[p].doc].cand]_vars

\* Every scan ends, whatever locks the scans and the deletes take in whatever
\* order: PostgreSQL breaks the cycle, the retries are bounded, and after the
\* last scan none is left running or waiting.
ScanEnds == <>[](\A s \in Scanners : scan[s].pc = "idle")
=============================================================================
