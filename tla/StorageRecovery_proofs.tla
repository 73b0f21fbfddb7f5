------------------------ MODULE StorageRecovery_proofs ------------------------
(***************************************************************************)
(* StorageRecovery for every number of keys, sessions, maintenance passes, *)
(* killed processes and failed system calls: the bytes of a live row are   *)
(* never lost, a session that settles leaves all or nothing, and a clean   *)
(* maintenance pass repairs whatever was left.  One inductive invariant    *)
(* (IInv) carries all of it: each conjunct is one agreement between the    *)
(* rows, the names on disk, the ledgers and the file operations under way. *)
(***************************************************************************)
EXTENDS StorageRecovery, TLAPS

Processes == Writers \cup {Keeper}
Steps == {"journaled", "linked", "remove", "restore", "unlink", "purge", "drop"}
KeeperFields == {"pc", "todo", "clean", "alone", "passes"}

WriterFields == {"pc", "op", "todo", "keys", "ledger"}

IsLedger(l) == l = [k \in Keys |-> l[k]] /\ \A k \in Keys : l[k] \in LedgerStates

IsWriter(x) ==
    /\ x = [f \in WriterFields |-> x[f]]
    /\ x.keys \subseteq Keys /\ x.todo \subseteq Keys /\ IsLedger(x.ledger)

NamesTyped ==
    /\ rows \in [Keys -> {"none", "live", "deleted"}]
    /\ used \subseteq Keys /\ files \subseteq used /\ trash \subseteq Refs /\ journals \subseteq Refs
    /\ mishaps \in Nat
WriterTyped == writer = [w \in Writers |-> writer[w]] /\ \A w \in Writers : IsWriter(writer[w])
FsTyped ==
    /\ fs = [a \in Processes |-> fs[a]]
    /\ \A a \in Processes :
          /\ Free(a) <=> fs[a].step = "none"
          /\ fs[a].step # "none" => fs[a].step \in Steps /\ fs[a].ref \in Refs
KeeperTyped == keeper = [f \in KeeperFields |-> keeper[f]]

Typed == NamesTyped /\ WriterTyped /\ FsTyped /\ KeeperTyped

\* A delete has the candidate to itself, and maintenance the storage root.
Exclusion ==
    /\ keeper.pc = "idle" => fs[Keeper].step = "none"
    /\ \A w \in Writers : InTxn(w) => keeper.pc = "idle" /\ writer[w].op \in {"upload", "delete"}
    /\ \A w, v \in Writers : w # v /\ InTxn(w) /\ writer[w].op = "delete" => ~InTxn(v)

\* Nothing refers to a key that was not generated yet.
KnownKeys ==
    /\ \A k \in Keys : rows[k] # "none" => k \in used
    /\ \A w \in Writers : /\ writer[w].keys \subseteq used
                          /\ \A k \in Keys : writer[w].ledger[k] # "none" => k \in used
    /\ \A a \in Processes : fs[a].step # "none" => fs[a].ref[2] \in used

Owned(w, k) ==
    /\ k \in files /\ rows[k] = "none"
    /\ \A v \in Writers \ {w} : writer[v].ledger[k] = "none" /\ k \notin writer[v].keys
    /\ \A a \in Processes : fs[a].step = "remove" => fs[a].ref[2] # k

\* What an open upload will commit is its own, is on disk and stays there.
Uploads ==
    \A w \in Writers : InTxn(w) /\ writer[w].op = "upload" =>
        \A k \in writer[w].keys : Owned(w, k)

Deletes ==
    \A w \in Writers : InTxn(w) /\ writer[w].op = "delete" =>
        /\ writer[w].todo \subseteq writer[w].keys
        /\ \A k \in writer[w].keys : rows[k] = "live"
        /\ \A k \in writer[w].todo : <<w, k>> \notin trash

\* What a ledger says of a key, and when.
Ledgers ==
    \A w \in Writers :
        /\ fs[w].step # "none" => InTxn(w) \/ writer[w].pc = "settling"
        /\ writer[w].pc = "idle" =>
              writer[w].ledger = NoLedger /\ \A k \in Keys : <<w, k>> \notin trash
        /\ ~InTxn(w) => writer[w].keys = {}
        /\ writer[w].pc = "settling" /\ fs[w].step # "none" => fs[w].ref[2] \notin writer[w].todo
        /\ \A k \in Keys :
              /\ writer[w].ledger[k] = "created" =>
                    InTxn(w) /\ k \in writer[w].keys /\ writer[w].op = "upload"
              /\ writer[w].ledger[k] = "staged" =>
                    InTxn(w) /\ k \in writer[w].keys /\ writer[w].op = "delete"
              /\ writer[w].ledger[k] \in {"staged", "stagedBack"} => rows[k] # "none"
              /\ writer[w].ledger[k] = "stagedDurable" => rows[k] = "deleted"
              /\ writer[w].pc = "settling" /\ k \in writer[w].todo => writer[w].ledger[k] # "none"

\* What a process in the middle of a file operation may rely on.
Justified(a) ==
        /\ fs[a].step # "none" /\ a \in Writers => fs[a].ref[1] = a
        /\ fs[a].step \in {"journaled", "linked"} =>
              /\ a \in Writers /\ writer[a].pc = "open" /\ writer[a].op = "delete"
              /\ fs[a].ref[2] \in writer[a].keys \ writer[a].todo
        /\ fs[a].step = "journaled" => fs[a].ref \in journals \ trash
        /\ fs[a].step = "linked" => fs[a].ref \in trash \cap journals /\ fs[a].ref[2] \in files
        /\ fs[a].step = "remove" => rows[fs[a].ref[2]] # "live"
        /\ fs[a].step = "purge" => rows[fs[a].ref[2]] = "deleted"
        /\ fs[a].step = "drop" => fs[a].ref \notin trash
        /\ fs[a].step \notin {"none", "remove"} => rows[fs[a].ref[2]] # "none"
        /\ fs[a].step = "remove" => a \in Writers /\ writer[a].ledger[fs[a].ref[2]] = "createdBack"

FileSteps == \A a \in Processes : Justified(a)

\* A link has its journal, and a journal means a row.
Journaled == trash \subseteq journals /\ \A ref \in journals : rows[ref[2]] # "none"

\* A staged link with its journal that nobody is about to drop.
Solid(w, k) ==
    /\ <<w, k>> \in trash \cap journals
    /\ \A a \in Processes : fs[a].ref = <<w, k>> => fs[a].step \notin {"unlink", "purge", "drop"}

BytesKept == \A k \in LiveKeys : k \in files \/ \E w \in Writers : Solid(w, k)

LinkTraced(w, k) ==
    <<w, k>> \in trash =>
        \/ writer[w].ledger[k] \in {"staged", "stagedBack", "stagedDurable"}
        \/ fs[w].step = "linked" /\ fs[w].ref = <<w, k>>

FileTraced(k) ==
    k \in files /\ rows[k] = "none" =>
        \E w \in Writers : writer[w].ledger[k] \in {"created", "createdBack"}

\* As long as nothing was killed and no call failed, some ledger answers for every
\* link and for every original without a row.
Traced ==
    mishaps = 0 =>
        (\A w \in Writers, k \in Keys : LinkTraced(w, k)) /\ \A k \in Keys : FileTraced(k)

\* What a pass that has met no trouble still has to look at.
Passing ==
    keeper.pc # "idle" /\ keeper.clean /\ keeper.alone =>
        /\ \A w \in Writers : ~InTxn(w) /\ writer[w].pc # "settling"
        /\ keeper.pc = "files" =>
              fs[Keeper].step = "none" /\ \A k \in files : rows[k] = "live" \/ k \in keeper.todo
        /\ keeper.pc # "files" =>
              /\ \A k \in files : rows[k] = "live"
              /\ \A ref \in journals :
                    ref \in keeper.todo \/ (fs[Keeper].step # "none" /\ fs[Keeper].ref = ref)
              /\ fs[Keeper].step = "restore" => rows[fs[Keeper].ref[2]] = "live"

IInv == Typed /\ Exclusion /\ KnownKeys /\ Uploads /\ Deletes /\ Ledgers /\ FileSteps /\ Journaled /\ BytesKept
        /\ Traced /\ Passing

----------------------------------------------------------------------------
\* What a step of one session or process leaves alone.
SameWriters(w) == \A v \in Writers \ {w} : writer'[v] = writer[v]
SameFs(a) == \A b \in Processes \ {a} : fs'[b] = fs[b]

LEMMA Members ==
    ASSUME StorageAssumption
    PROVE  /\ Keeper \in Processes /\ \A w \in Writers : w \in Processes /\ w # Keeper
           /\ \A a \in Processes : a = Keeper \/ a \in Writers
BY DEF StorageAssumption, Processes

LEMMA RefIsPair ==
    ASSUME NEW ref \in Refs
    PROVE  ref[1] \in Writers /\ ref[2] \in Keys /\ ref = <<ref[1], ref[2]>>
BY DEF Refs

LEMMA WriterMoves ==
    ASSUME WriterTyped, NEW w \in Writers, NEW r, IsWriter(r), writer' = [writer EXCEPT ![w] = r]
    PROVE  WriterTyped' /\ SameWriters(w) /\ writer'[w] = r
BY DEF WriterTyped, SameWriters

LEMMA DoesMoves ==
    ASSUME FsTyped, NEW a \in Processes, NEW s \in Steps, NEW ref \in Refs, Does(a, s, ref)
    PROVE  FsTyped' /\ SameFs(a) /\ fs'[a].step = s /\ fs'[a].ref = ref
<1> DEFINE x == [step |-> s, ref |-> ref]
<1>1. fs' = [fs EXCEPT ![a] = x] /\ x.step = s /\ x.ref = ref /\ x # Idle /\ s # "none"
  BY DEF Does, Idle, Steps
<1> HIDE DEF x
<1>2. SameFs(a) /\ fs'[a] = x /\ fs' = [b \in Processes |-> fs'[b]]
  BY <1>1 DEF FsTyped, SameFs
<1>3. \A b \in Processes :
        /\ Free(b)' <=> fs'[b].step = "none"
        /\ fs'[b].step # "none" => fs'[b].step \in Steps /\ fs'[b].ref \in Refs
  BY <1>1, <1>2 DEF FsTyped, SameFs, Free
<1> QED BY <1>1, <1>2, <1>3 DEF FsTyped

LEMMA RestsMoves ==
    ASSUME FsTyped, NEW a \in Processes, Rests(a)
    PROVE  FsTyped' /\ SameFs(a) /\ fs'[a].step = "none"
<1>1. fs' = [fs EXCEPT ![a] = Idle] /\ Idle.step = "none"
  BY DEF Rests, Idle
<1>2. SameFs(a) /\ fs'[a] = Idle /\ fs' = [b \in Processes |-> fs'[b]]
  BY <1>1 DEF FsTyped, SameFs
<1>3. \A b \in Processes :
        /\ Free(b)' <=> fs'[b].step = "none"
        /\ fs'[b].step # "none" => fs'[b].step \in Steps /\ fs'[b].ref \in Refs
  BY <1>1, <1>2 DEF FsTyped, SameFs, Free
<1> QED BY <1>1, <1>2, <1>3 DEF FsTyped

\* The end of a transaction: what becomes of the ledger.
LEMMA MarkedBack ==
    ASSUME NEW l, IsLedger(l)
    PROVE  /\ IsLedger(MarkBack(l))
           /\ \A k \in Keys :
                 \/ MarkBack(l)[k] = l[k] /\ l[k] \notin {"created", "staged"}
                 \/ l[k] = "created" /\ MarkBack(l)[k] = "createdBack"
                 \/ l[k] = "staged" /\ MarkBack(l)[k] = "stagedBack"
BY DEF MarkBack, IsLedger, LedgerStates

LEMMA MarkedCommitted ==
    ASSUME NEW l, IsLedger(l)
    PROVE  /\ IsLedger(MarkCommitted(l))
           /\ \A k \in Keys :
                 \/ MarkCommitted(l)[k] = l[k] /\ l[k] \notin {"created", "staged"}
                 \/ l[k] = "created" /\ MarkCommitted(l)[k] = "none"
                 \/ l[k] = "staged" /\ MarkCommitted(l)[k] = "stagedDurable"
BY DEF MarkCommitted, IsLedger, LedgerStates

LEMMA TxnEnds ==
    ASSUME WriterTyped, NEW w \in Writers, NEW l, IsLedger(l), EndTxn(w, l)
    PROVE  /\ WriterTyped' /\ SameWriters(w)
           /\ writer'[w].pc = "settling" /\ writer'[w].op = writer[w].op /\ writer'[w].keys = {}
           /\ writer'[w].ledger = l /\ \A k \in Keys : k \in writer'[w].todo <=> l[k] # "none"
<1> DEFINE r == [writer[w] EXCEPT !.pc = "settling", !.keys = {}, !.ledger = l, !.todo = Unsettled(l)]
<1>0. IsWriter(writer[w])
  BY DEF WriterTyped
<1>1. writer' = [writer EXCEPT ![w] = r]
  BY DEF EndTxn
<1>2. /\ r = [f \in WriterFields |-> r[f]]
      /\ r.pc = "settling" /\ r.op = writer[w].op /\ r.todo = Unsettled(l) /\ r.keys = {}
      /\ r.ledger = l
  BY <1>0 DEF IsWriter, WriterFields
<1> HIDE DEF r
<1>3. IsWriter(r)
  BY <1>0, <1>2 DEF IsWriter, Unsettled
<1> QED BY <1>1, <1>2, <1>3, WriterMoves DEF Unsettled

\* An entry that was resolved leaves the ledger; maintenance has none.
LEMMA LedgerClears ==
    ASSUME StorageAssumption, WriterTyped, NEW a \in Processes, NEW k \in Keys, Resolved(a, k)
    PROVE  /\ WriterTyped' /\ SameWriters(a)
           /\ a \in Writers =>
                 /\ writer'[a].ledger[k] = "none"
                 /\ \A j \in Keys \ {k} : writer'[a].ledger[j] = writer[a].ledger[j]
                 /\ writer'[a].pc = writer[a].pc /\ writer'[a].op = writer[a].op
                 /\ writer'[a].todo = writer[a].todo /\ writer'[a].keys = writer[a].keys
<1>1. CASE a = Keeper
  BY <1>1 DEF Resolved, WriterTyped, SameWriters, StorageAssumption
<1>2. CASE a # Keeper /\ a \in Writers
  <2> DEFINE r == [writer[a] EXCEPT !.ledger = [writer[a].ledger EXCEPT ![k] = "none"]]
  <2>0. IsWriter(writer[a])
    BY <1>2 DEF WriterTyped
  <2>1. writer' = [writer EXCEPT ![a] = r]
    BY <1>2 DEF Resolved
  <2>2. /\ r = [f \in WriterFields |-> r[f]]
        /\ r.pc = writer[a].pc /\ r.op = writer[a].op /\ r.todo = writer[a].todo
        /\ r.keys = writer[a].keys /\ r.ledger = [writer[a].ledger EXCEPT ![k] = "none"]
    BY <2>0 DEF IsWriter, WriterFields
  <2> HIDE DEF r
  <2>3. IsWriter(r)
    BY <2>0, <2>2 DEF IsWriter, IsLedger, LedgerStates
  <2>4. r.ledger[k] = "none" /\ \A j \in Keys \ {k} : r.ledger[j] = writer[a].ledger[j]
    BY <2>0, <2>2 DEF IsWriter, IsLedger
  <2> QED BY <1>2, <2>1, <2>2, <2>3, <2>4, WriterMoves
<1> QED BY <1>1, <1>2, Members

LEMMA BeginUploadIInv ==
    ASSUME StorageAssumption, IInv, NEW w \in Writers, BeginUpload(w) PROVE IInv'
<1> DEFINE r == [writer[w] EXCEPT !.pc = "open", !.op = "upload"]
<1>0. WriterTyped /\ FsTyped /\ NamesTyped /\ KeeperTyped /\ IsWriter(writer[w])
  BY DEF IInv, Typed, WriterTyped
<1>1. writer' = [writer EXCEPT ![w] = r]
  BY DEF BeginUpload
<1>2. /\ r = [f \in WriterFields |-> r[f]]
      /\ r.pc = "open"
      /\ r.op = "upload"
      /\ r.todo = writer[w].todo
      /\ r.keys = writer[w].keys
      /\ r.ledger = writer[w].ledger
  BY <1>0 DEF IsWriter, WriterFields
<1> HIDE DEF r
<1>3. IsWriter(r)
  BY <1>0, <1>2 DEF IsWriter, IsLedger, LedgerStates, LiveKeys, NoLedger
<1>4. /\ WriterTyped' /\ SameWriters(w)
      /\ writer'[w].pc = "open"
      /\ writer'[w].op = "upload"
      /\ writer'[w].todo = writer[w].todo
      /\ writer'[w].keys = writer[w].keys
      /\ writer'[w].ledger = writer[w].ledger
  BY <1>0, <1>1, <1>2, <1>3, WriterMoves
<1>5. FsTyped' /\ fs' = fs
  BY <1>0 DEF BeginUpload, FsTyped, Free
<1>6. /\ writer[w].pc = "idle" /\ keeper.pc = "idle"
      /\ \A v \in Writers : ~(InTxn(v) /\ writer[v].op = "delete")
      /\ UNCHANGED <<rows, used, files, trash, journals, keeper>>
      /\ mishaps' = mishaps
  BY <1>0 DEF BeginUpload, KeeperAway, NoDeleter, CandidateLives
<1>7. Typed'
  <2>1. NamesTyped'
    BY <1>0, <1>6 DEF NamesTyped
  <2>2. KeeperTyped'
    BY <1>0, <1>6 DEF KeeperTyped, KeeperFields
  <2> QED BY <1>4, <1>5, <2>1, <2>2 DEF Typed
<1>8. Exclusion'
  BY <1>0, <1>4, <1>5, <1>6, Members DEF IInv, Exclusion, InTxn, SameWriters, SameFs
<1>9. KnownKeys'
  BY <1>0, <1>4, <1>5, <1>6, Members DEF IInv, KnownKeys, SameWriters, SameFs
<1>10. Uploads'
  <2> SUFFICES ASSUME NEW v \in Writers, writer'[v].pc \in {"open", "failed"}, writer'[v].op = "upload",
                      NEW j \in writer'[v].keys
               PROVE  Owned(v, j)'
    BY DEF Uploads, InTxn
  <2>0. j \in Keys
    BY <1>4 DEF WriterTyped, IsWriter
  <2>1. CASE v = w
    BY <1>0, <1>4, <1>5, <1>6, Members, <2>0, <2>1 DEF IInv, Uploads, Owned, InTxn, SameWriters, SameFs, Ledgers
  <2>2. CASE v # w
    BY <1>0, <1>4, <1>5, <1>6, Members, <2>0, <2>2 DEF IInv, Uploads, Owned, InTxn, SameWriters, SameFs, Ledgers
  <2> QED BY <2>1, <2>2
<1>11. Deletes'
  BY <1>0, <1>4, <1>5, <1>6, Members DEF IInv, Deletes, InTxn, SameWriters, SameFs
<1>12. Ledgers'
  BY <1>0, <1>4, <1>5, <1>6, Members DEF IInv, Ledgers, InTxn, NoLedger, SameWriters, SameFs
<1>13. FileSteps'
  <2> SUFFICES ASSUME NEW b \in Processes PROVE Justified(b)'
    BY DEF FileSteps
  <2>1. CASE b = w
    BY <1>0, <1>4, <1>5, <1>6, Members, <2>1 DEF IInv, FileSteps, Justified, SameWriters, SameFs, Free
  <2>2. CASE b # w
    BY <1>0, <1>4, <1>5, <1>6, Members, <2>2 DEF IInv, FileSteps, Justified, SameWriters, SameFs, Free
  <2> QED BY <2>1, <2>2
<1>14. Journaled'
  BY <1>0, <1>4, <1>5, <1>6, Members DEF IInv, Journaled, SameWriters, SameFs
<1>15. BytesKept'
  <2> SUFFICES ASSUME NEW j \in Keys, rows'[j] = "live"
               PROVE  j \in files' \/ \E v \in Writers : Solid(v, j)'
    BY DEF BytesKept, LiveKeys
  <2>1. CASE rows[j] = "live" /\ j \in files
    BY <1>0, <1>4, <1>5, <1>6, Members, <2>1 DEF IInv, SameWriters, SameFs, Solid
  <2>2. CASE rows[j] = "live" /\ \E v \in Writers : Solid(v, j)
    <3>1. PICK v \in Writers : Solid(v, j)
      BY <2>2
    <3>2. Solid(v, j)'
      BY <1>0, <1>4, <1>5, <1>6, Members, <3>1 DEF IInv, SameWriters, SameFs, Solid
    <3> QED BY <3>2
  <2>3. rows[j] = "live"
    BY <1>0, <1>4, <1>5, <1>6, Members DEF IInv, SameWriters, SameFs
  <2> QED BY <2>1, <2>2, <2>3 DEF IInv, BytesKept, LiveKeys
<1>16. Traced'
  <2>1. ASSUME mishaps = 0, NEW v \in Writers, NEW j \in Keys PROVE LinkTraced(v, j)'
    <3>1. CASE v = w
      BY <1>0, <1>4, <1>5, <1>6, Members, <2>1, <3>1 DEF IInv, Traced, LinkTraced, FileSteps, Justified, SameWriters, SameFs
    <3>2. CASE v # w
      BY <1>0, <1>4, <1>5, <1>6, Members, <2>1, <3>2 DEF IInv, Traced, LinkTraced, FileSteps, Justified, SameWriters, SameFs
    <3> QED BY <3>1, <3>2
  <2>2. ASSUME mishaps = 0, NEW j \in Keys, j \in files', rows'[j] = "none"
        PROVE  \E v \in Writers : writer'[v].ledger[j] \in {"created", "createdBack"}
    <3>1. CASE j \in files /\ rows[j] = "none"
      <4>1. PICK v \in Writers : writer[v].ledger[j] \in {"created", "createdBack"}
        BY <2>2, <3>1 DEF IInv, Traced, FileTraced
      <4>2. writer'[v].ledger[j] \in {"created", "createdBack"}
        BY <1>0, <1>4, <1>5, <1>6, Members, <2>2, <3>1, <4>1 DEF IInv, SameWriters, SameFs
      <4> QED BY <4>2
    <3>2. CASE ~(j \in files /\ rows[j] = "none")
      BY <1>0, <1>4, <1>5, <1>6, Members, <2>2, <3>2 DEF IInv, FileSteps, Justified, SameWriters, SameFs
    <3> QED BY <3>1, <3>2
  <2> QED BY <1>6, <2>1, <2>2 DEF Traced, FileTraced
<1>17. Passing'
  BY <1>0, <1>4, <1>5, <1>6, Members DEF IInv, Passing, InTxn, SameWriters, SameFs, Exclusion, Ledgers
<1> QED BY <1>7, <1>8, <1>9, <1>10, <1>11, <1>12, <1>13, <1>14, <1>15, <1>16, <1>17 DEF IInv

LEMMA SaveFileIInv ==
    ASSUME StorageAssumption, IInv, NEW w \in Writers, NEW k \in Keys, SaveFile(w, k) PROVE IInv'
<1> DEFINE r == [writer[w] EXCEPT !.keys = writer[w].keys \cup {k}, !.ledger = [writer[w].ledger EXCEPT ![k] = "created"]]
<1>0. WriterTyped /\ FsTyped /\ NamesTyped /\ KeeperTyped /\ IsWriter(writer[w])
  BY DEF IInv, Typed, WriterTyped
<1>1. writer' = [writer EXCEPT ![w] = r]
  BY DEF SaveFile
<1>2. /\ r = [f \in WriterFields |-> r[f]]
      /\ r.pc = writer[w].pc
      /\ r.op = writer[w].op
      /\ r.todo = writer[w].todo
      /\ r.keys = writer[w].keys \cup {k}
      /\ r.ledger = [writer[w].ledger EXCEPT ![k] = "created"]
  BY <1>0 DEF IsWriter, WriterFields
<1> HIDE DEF r
<1>3. IsWriter(r)
  BY <1>0, <1>2 DEF IsWriter, IsLedger, LedgerStates, LiveKeys, NoLedger
<1>b. r.ledger[k] = "created" /\ \A j \in Keys \ {k} : r.ledger[j] = writer[w].ledger[j]
  BY <1>0, <1>2 DEF IsWriter, IsLedger
<1>4. /\ WriterTyped' /\ SameWriters(w)
      /\ writer'[w].pc = writer[w].pc
      /\ writer'[w].op = writer[w].op
      /\ writer'[w].todo = writer[w].todo
      /\ writer'[w].keys = writer[w].keys \cup {k}
      /\ writer'[w].ledger[k] = "created"
      /\ \A j \in Keys \ {k} : writer'[w].ledger[j] = writer[w].ledger[j]
  BY <1>0, <1>1, <1>2, <1>3, <1>b, WriterMoves
<1>5. FsTyped' /\ fs' = fs
  BY <1>0 DEF SaveFile, FsTyped, Free
<1>6. /\ writer[w].pc = "open" /\ writer[w].op = "upload" /\ fs[w].step = "none" /\ k \notin used
      /\ used' = used \cup {k} /\ files' = files \cup {k}
      /\ UNCHANGED <<rows, trash, journals, keeper>>
      /\ mishaps' = mishaps
  BY <1>0, Members DEF SaveFile, FsTyped
<1>p. /\ \A v \in Writers : k \notin writer[v].keys /\ writer[v].ledger[k] = "none"
      /\ \A b \in Processes : fs[b].step # "none" => fs[b].ref[2] # k
      /\ rows[k] = "none"
  BY <1>6 DEF IInv, KnownKeys
<1>7. Typed'
  <2>1. NamesTyped'
    BY <1>0, <1>6 DEF NamesTyped
  <2>2. KeeperTyped'
    BY <1>0, <1>6 DEF KeeperTyped, KeeperFields
  <2> QED BY <1>4, <1>5, <2>1, <2>2 DEF Typed
<1>8. Exclusion'
  BY <1>0, <1>4, <1>5, <1>6, <1>p, Members DEF IInv, Exclusion, InTxn, SameWriters, SameFs
<1>9. KnownKeys'
  BY <1>0, <1>4, <1>5, <1>6, <1>p, Members DEF IInv, KnownKeys, SameWriters, SameFs
<1>10. Uploads'
  <2> SUFFICES ASSUME NEW v \in Writers, writer'[v].pc \in {"open", "failed"}, writer'[v].op = "upload",
                      NEW j \in writer'[v].keys
               PROVE  Owned(v, j)'
    BY DEF Uploads, InTxn
  <2>0. j \in Keys
    BY <1>4 DEF WriterTyped, IsWriter
  <2>1. CASE v = w
    BY <1>0, <1>4, <1>5, <1>6, <1>p, Members, <2>0, <2>1 DEF IInv, Uploads, Owned, InTxn, SameWriters, SameFs, KnownKeys
  <2>2. CASE v # w
    BY <1>0, <1>4, <1>5, <1>6, <1>p, Members, <2>0, <2>2 DEF IInv, Uploads, Owned, InTxn, SameWriters, SameFs, KnownKeys
  <2> QED BY <2>1, <2>2
<1>11. Deletes'
  BY <1>0, <1>4, <1>5, <1>6, <1>p, Members DEF IInv, Deletes, InTxn, SameWriters, SameFs
<1>12. Ledgers'
  BY <1>0, <1>4, <1>5, <1>6, <1>p, Members DEF IInv, Ledgers, InTxn, NoLedger, SameWriters, SameFs
<1>13. FileSteps'
  <2> SUFFICES ASSUME NEW b \in Processes PROVE Justified(b)'
    BY DEF FileSteps
  <2>1. CASE b = w
    BY <1>0, <1>4, <1>5, <1>6, <1>p, Members, <2>1 DEF IInv, FileSteps, Justified, SameWriters, SameFs
  <2>2. CASE b # w
    BY <1>0, <1>4, <1>5, <1>6, <1>p, Members, <2>2 DEF IInv, FileSteps, Justified, SameWriters, SameFs
  <2> QED BY <2>1, <2>2
<1>14. Journaled'
  BY <1>0, <1>4, <1>5, <1>6, <1>p, Members DEF IInv, Journaled, SameWriters, SameFs
<1>15. BytesKept'
  <2> SUFFICES ASSUME NEW j \in Keys, rows'[j] = "live"
               PROVE  j \in files' \/ \E v \in Writers : Solid(v, j)'
    BY DEF BytesKept, LiveKeys
  <2>1. CASE rows[j] = "live" /\ j \in files
    BY <1>0, <1>4, <1>5, <1>6, <1>p, Members, <2>1 DEF IInv, SameWriters, SameFs, Solid
  <2>2. CASE rows[j] = "live" /\ \E v \in Writers : Solid(v, j)
    <3>1. PICK v \in Writers : Solid(v, j)
      BY <2>2
    <3>2. Solid(v, j)'
      BY <1>0, <1>4, <1>5, <1>6, <1>p, Members, <3>1 DEF IInv, SameWriters, SameFs, Solid
    <3> QED BY <3>2
  <2>3. rows[j] = "live"
    BY <1>0, <1>4, <1>5, <1>6, <1>p, Members DEF IInv, SameWriters, SameFs
  <2> QED BY <2>1, <2>2, <2>3 DEF IInv, BytesKept, LiveKeys
<1>16. Traced'
  <2>1. ASSUME mishaps = 0, NEW v \in Writers, NEW j \in Keys PROVE LinkTraced(v, j)'
    <3>1. CASE v = w
      BY <1>0, <1>4, <1>5, <1>6, <1>p, Members, <2>1, <3>1 DEF IInv, Traced, LinkTraced, FileSteps, Justified, SameWriters, SameFs
    <3>2. CASE v # w
      BY <1>0, <1>4, <1>5, <1>6, <1>p, Members, <2>1, <3>2 DEF IInv, Traced, LinkTraced, FileSteps, Justified, SameWriters, SameFs
    <3> QED BY <3>1, <3>2
  <2>2. ASSUME mishaps = 0, NEW j \in Keys, j \in files', rows'[j] = "none"
        PROVE  \E v \in Writers : writer'[v].ledger[j] \in {"created", "createdBack"}
    <3>1. CASE j \in files /\ rows[j] = "none"
      <4>1. PICK v \in Writers : writer[v].ledger[j] \in {"created", "createdBack"}
        BY <2>2, <3>1 DEF IInv, Traced, FileTraced
      <4>2. writer'[v].ledger[j] \in {"created", "createdBack"}
        BY <1>0, <1>4, <1>5, <1>6, <1>p, Members, <2>2, <3>1, <4>1 DEF IInv, SameWriters, SameFs
      <4> QED BY <4>2
    <3>2. CASE ~(j \in files /\ rows[j] = "none")
      BY <1>0, <1>4, <1>5, <1>6, <1>p, Members, <2>2, <3>2 DEF IInv, FileSteps, Justified, SameWriters, SameFs
    <3> QED BY <3>1, <3>2
  <2> QED BY <1>6, <2>1, <2>2 DEF Traced, FileTraced
<1>17. Passing'
  BY <1>0, <1>4, <1>5, <1>6, <1>p, Members DEF IInv, Passing, InTxn, SameWriters, SameFs, Exclusion, Ledgers
<1> QED BY <1>7, <1>8, <1>9, <1>10, <1>11, <1>12, <1>13, <1>14, <1>15, <1>16, <1>17 DEF IInv

LEMMA AbandonSaveIInv ==
    ASSUME StorageAssumption, IInv, NEW w \in Writers, NEW k \in Keys, AbandonSave(w, k) PROVE IInv'
<1>0. WriterTyped /\ FsTyped /\ NamesTyped /\ KeeperTyped /\ IsWriter(writer[w])
  BY DEF IInv, Typed, WriterTyped
<1>1. PICK pc \in {"open", "failed"} :
        writer' = [writer EXCEPT ![w].keys = @ \ {k}, ![w].ledger[k] = "createdBack", ![w].pc = pc]
  BY DEF AbandonSave
<1> DEFINE r == [writer[w] EXCEPT !.keys = writer[w].keys \ {k}, !.pc = pc,
                                  !.ledger = [writer[w].ledger EXCEPT ![k] = "createdBack"]]
<1>2. writer' = [writer EXCEPT ![w] = r]
  BY <1>0, <1>1 DEF WriterTyped, IsWriter, WriterFields
<1>3. /\ r = [f \in WriterFields |-> r[f]]
      /\ r.pc = pc /\ r.op = writer[w].op /\ r.todo = writer[w].todo /\ r.keys = writer[w].keys \ {k}
      /\ r.ledger = [writer[w].ledger EXCEPT ![k] = "createdBack"]
  BY <1>0 DEF IsWriter, WriterFields
<1> HIDE DEF r
<1>a. IsWriter(r)
  BY <1>0, <1>3 DEF IsWriter, IsLedger, LedgerStates
<1>b. r.ledger[k] = "createdBack" /\ \A j \in Keys \ {k} : r.ledger[j] = writer[w].ledger[j]
  BY <1>0, <1>3 DEF IsWriter, IsLedger
<1>4. /\ WriterTyped' /\ SameWriters(w)
      /\ writer'[w].pc \in {"open", "failed"} /\ writer'[w].op = writer[w].op
      /\ writer'[w].todo = writer[w].todo /\ writer'[w].keys = writer[w].keys \ {k}
      /\ writer'[w].ledger[k] = "createdBack"
      /\ \A j \in Keys \ {k} : writer'[w].ledger[j] = writer[w].ledger[j]
  BY <1>0, <1>2, <1>3, <1>a, <1>b, WriterMoves
<1>5. /\ FsTyped' /\ SameFs(w)
      /\ fs'[w].step = "remove" /\ fs'[w].ref = <<w, k>> /\ fs'[w].ref[1] = w /\ fs'[w].ref[2] = k
  BY <1>0, Members, DoesMoves DEF AbandonSave, Refs, Steps
<1>6. /\ writer[w].pc = "open" /\ writer[w].ledger[k] = "created" /\ fs[w].step = "none"
      /\ UNCHANGED <<rows, used, files, trash, journals, keeper>>
      /\ mishaps' = mishaps
  BY <1>0 DEF AbandonSave, FsTyped, Processes
<1>p. writer[w].op = "upload" /\ k \in writer[w].keys /\ rows[k] = "none"
  BY <1>6 DEF IInv, Ledgers, Uploads, Owned, InTxn
<1>7. Typed'
  <2>1. NamesTyped'
    BY <1>0, <1>6 DEF NamesTyped
  <2>2. KeeperTyped'
    BY <1>0, <1>6 DEF KeeperTyped, KeeperFields
  <2> QED BY <1>4, <1>5, <2>1, <2>2 DEF Typed
<1>8. Exclusion'
  BY <1>0, <1>4, <1>5, <1>6, <1>p, Members DEF IInv, Exclusion, InTxn, SameWriters, SameFs
<1>9. KnownKeys'
  BY <1>0, <1>4, <1>5, <1>6, <1>p, Members DEF IInv, KnownKeys, SameWriters, SameFs
<1>10. Uploads'
  <2> SUFFICES ASSUME NEW v \in Writers, writer'[v].pc \in {"open", "failed"}, writer'[v].op = "upload",
                      NEW j \in writer'[v].keys
               PROVE  Owned(v, j)'
    BY DEF Uploads, InTxn
  <2>0. j \in Keys
    BY <1>4 DEF WriterTyped, IsWriter
  <2>1. CASE v = w
    BY <1>0, <1>4, <1>5, <1>6, <1>p, Members, <2>0, <2>1 DEF IInv, Uploads, Owned, InTxn, SameWriters, SameFs
  <2>2. CASE v # w
    BY <1>0, <1>4, <1>5, <1>6, <1>p, Members, <2>0, <2>2 DEF IInv, Uploads, Owned, InTxn, SameWriters, SameFs
  <2> QED BY <2>1, <2>2
<1>11. Deletes'
  BY <1>0, <1>4, <1>5, <1>6, <1>p, Members DEF IInv, Deletes, InTxn, SameWriters, SameFs
<1>12. Ledgers'
  BY <1>0, <1>4, <1>5, <1>6, <1>p, Members DEF IInv, Ledgers, InTxn, NoLedger, SameWriters, SameFs
<1>13. FileSteps'
  <2> SUFFICES ASSUME NEW b \in Processes PROVE Justified(b)'
    BY DEF FileSteps
  <2>1. CASE b = w
    BY <1>0, <1>4, <1>5, <1>6, <1>p, Members, <2>1 DEF IInv, FileSteps, Justified, SameWriters, SameFs
  <2>2. CASE b # w
    BY <1>0, <1>4, <1>5, <1>6, <1>p, Members, <2>2 DEF IInv, FileSteps, Justified, SameWriters, SameFs
  <2> QED BY <2>1, <2>2
<1>14. Journaled'
  BY <1>0, <1>4, <1>5, <1>6, <1>p, Members DEF IInv, Journaled, SameWriters, SameFs
<1>15. BytesKept'
  <2> SUFFICES ASSUME NEW j \in Keys, rows'[j] = "live"
               PROVE  j \in files' \/ \E v \in Writers : Solid(v, j)'
    BY DEF BytesKept, LiveKeys
  <2>1. CASE rows[j] = "live" /\ j \in files
    BY <1>0, <1>4, <1>5, <1>6, <1>p, Members, <2>1 DEF IInv, SameWriters, SameFs, Solid
  <2>2. CASE rows[j] = "live" /\ \E v \in Writers : Solid(v, j)
    <3>1. PICK v \in Writers : Solid(v, j)
      BY <2>2
    <3>2. Solid(v, j)'
      BY <1>0, <1>4, <1>5, <1>6, <1>p, Members, <3>1 DEF IInv, SameWriters, SameFs, Solid
    <3> QED BY <3>2
  <2>3. rows[j] = "live"
    BY <1>0, <1>4, <1>5, <1>6, <1>p, Members DEF IInv, SameWriters, SameFs
  <2> QED BY <2>1, <2>2, <2>3 DEF IInv, BytesKept, LiveKeys
<1>16. Traced'
  <2>1. ASSUME mishaps = 0, NEW v \in Writers, NEW j \in Keys PROVE LinkTraced(v, j)'
    <3>1. CASE v = w
      BY <1>0, <1>4, <1>5, <1>6, <1>p, Members, <2>1, <3>1 DEF IInv, Traced, LinkTraced, FileSteps, Justified, SameWriters, SameFs
    <3>2. CASE v # w
      BY <1>0, <1>4, <1>5, <1>6, <1>p, Members, <2>1, <3>2 DEF IInv, Traced, LinkTraced, FileSteps, Justified, SameWriters, SameFs
    <3> QED BY <3>1, <3>2
  <2>2. ASSUME mishaps = 0, NEW j \in Keys, j \in files', rows'[j] = "none"
        PROVE  \E v \in Writers : writer'[v].ledger[j] \in {"created", "createdBack"}
    <3>1. CASE j \in files /\ rows[j] = "none"
      <4>1. PICK v \in Writers : writer[v].ledger[j] \in {"created", "createdBack"}
        BY <2>2, <3>1 DEF IInv, Traced, FileTraced
      <4>2. writer'[v].ledger[j] \in {"created", "createdBack"}
        BY <1>0, <1>4, <1>5, <1>6, <1>p, Members, <2>2, <3>1, <4>1 DEF IInv, SameWriters, SameFs
      <4> QED BY <4>2
    <3>2. CASE ~(j \in files /\ rows[j] = "none")
      BY <1>0, <1>4, <1>5, <1>6, <1>p, Members, <2>2, <3>2 DEF IInv, FileSteps, Justified, SameWriters, SameFs
    <3> QED BY <3>1, <3>2
  <2> QED BY <1>6, <2>1, <2>2 DEF Traced, FileTraced
<1>17. Passing'
  BY <1>0, <1>4, <1>5, <1>6, <1>p, Members DEF IInv, Passing, InTxn, SameWriters, SameFs, Exclusion, Ledgers
<1> QED BY <1>7, <1>8, <1>9, <1>10, <1>11, <1>12, <1>13, <1>14, <1>15, <1>16, <1>17 DEF IInv

LEMMA BeginDeleteIInv ==
    ASSUME StorageAssumption, IInv, NEW w \in Writers, BeginDelete(w) PROVE IInv'
<1> DEFINE r == [writer[w] EXCEPT !.pc = "open", !.op = "delete", !.keys = LiveKeys, !.todo = LiveKeys]
<1>0. WriterTyped /\ FsTyped /\ NamesTyped /\ KeeperTyped /\ IsWriter(writer[w])
  BY DEF IInv, Typed, WriterTyped
<1>1. writer' = [writer EXCEPT ![w] = r]
  BY DEF BeginDelete
<1>2. /\ r = [f \in WriterFields |-> r[f]]
      /\ r.pc = "open"
      /\ r.op = "delete"
      /\ r.todo = LiveKeys
      /\ r.keys = LiveKeys
      /\ r.ledger = writer[w].ledger
  BY <1>0 DEF IsWriter, WriterFields
<1> HIDE DEF r
<1>3. IsWriter(r)
  BY <1>0, <1>2 DEF IsWriter, IsLedger, LedgerStates, LiveKeys, NoLedger
<1>4. /\ WriterTyped' /\ SameWriters(w)
      /\ writer'[w].pc = "open"
      /\ writer'[w].op = "delete"
      /\ writer'[w].todo = LiveKeys
      /\ writer'[w].keys = LiveKeys
      /\ writer'[w].ledger = writer[w].ledger
  BY <1>0, <1>1, <1>2, <1>3, WriterMoves
<1>5. FsTyped' /\ fs' = fs
  BY <1>0 DEF BeginDelete, FsTyped, Free
<1>6. /\ writer[w].pc = "idle" /\ keeper.pc = "idle"
      /\ \A v \in Writers : ~InTxn(v)
      /\ UNCHANGED <<rows, used, files, trash, journals, keeper>>
      /\ mishaps' = mishaps
  BY <1>0 DEF BeginDelete, KeeperAway, NoWriter
<1>7. Typed'
  <2>1. NamesTyped'
    BY <1>0, <1>6 DEF NamesTyped
  <2>2. KeeperTyped'
    BY <1>0, <1>6 DEF KeeperTyped, KeeperFields
  <2> QED BY <1>4, <1>5, <2>1, <2>2 DEF Typed
<1>8. Exclusion'
  BY <1>0, <1>4, <1>5, <1>6, Members DEF IInv, Exclusion, InTxn, SameWriters, SameFs
<1>9. KnownKeys'
  BY <1>0, <1>4, <1>5, <1>6, Members DEF IInv, KnownKeys, SameWriters, SameFs, LiveKeys
<1>10. Uploads'
  <2> SUFFICES ASSUME NEW v \in Writers, writer'[v].pc \in {"open", "failed"}, writer'[v].op = "upload",
                      NEW j \in writer'[v].keys
               PROVE  Owned(v, j)'
    BY DEF Uploads, InTxn
  <2>0. j \in Keys
    BY <1>4 DEF WriterTyped, IsWriter
  <2>1. CASE v = w
    BY <1>0, <1>4, <1>5, <1>6, Members, <2>0, <2>1 DEF IInv, Uploads, Owned, InTxn, SameWriters, SameFs
  <2>2. CASE v # w
    BY <1>0, <1>4, <1>5, <1>6, Members, <2>0, <2>2 DEF IInv, Uploads, Owned, InTxn, SameWriters, SameFs
  <2> QED BY <2>1, <2>2
<1>11. Deletes'
  BY <1>0, <1>4, <1>5, <1>6, Members DEF IInv, Deletes, InTxn, SameWriters, SameFs, LiveKeys, Ledgers
<1>12. Ledgers'
  BY <1>0, <1>4, <1>5, <1>6, Members DEF IInv, Ledgers, InTxn, NoLedger, SameWriters, SameFs, LiveKeys
<1>13. FileSteps'
  <2> SUFFICES ASSUME NEW b \in Processes PROVE Justified(b)'
    BY DEF FileSteps
  <2>1. CASE b = w
    BY <1>0, <1>4, <1>5, <1>6, Members, <2>1 DEF IInv, FileSteps, Justified, SameWriters, SameFs
  <2>2. CASE b # w
    BY <1>0, <1>4, <1>5, <1>6, Members, <2>2 DEF IInv, FileSteps, Justified, SameWriters, SameFs
  <2> QED BY <2>1, <2>2
<1>14. Journaled'
  BY <1>0, <1>4, <1>5, <1>6, Members DEF IInv, Journaled, SameWriters, SameFs
<1>15. BytesKept'
  <2> SUFFICES ASSUME NEW j \in Keys, rows'[j] = "live"
               PROVE  j \in files' \/ \E v \in Writers : Solid(v, j)'
    BY DEF BytesKept, LiveKeys
  <2>1. CASE rows[j] = "live" /\ j \in files
    BY <1>0, <1>4, <1>5, <1>6, Members, <2>1 DEF IInv, SameWriters, SameFs, Solid
  <2>2. CASE rows[j] = "live" /\ \E v \in Writers : Solid(v, j)
    <3>1. PICK v \in Writers : Solid(v, j)
      BY <2>2
    <3>2. Solid(v, j)'
      BY <1>0, <1>4, <1>5, <1>6, Members, <3>1 DEF IInv, SameWriters, SameFs, Solid
    <3> QED BY <3>2
  <2>3. rows[j] = "live"
    BY <1>0, <1>4, <1>5, <1>6, Members DEF IInv, SameWriters, SameFs
  <2> QED BY <2>1, <2>2, <2>3 DEF IInv, BytesKept, LiveKeys
<1>16. Traced'
  <2>1. ASSUME mishaps = 0, NEW v \in Writers, NEW j \in Keys PROVE LinkTraced(v, j)'
    <3>1. CASE v = w
      BY <1>0, <1>4, <1>5, <1>6, Members, <2>1, <3>1 DEF IInv, Traced, LinkTraced, FileSteps, Justified, SameWriters, SameFs
    <3>2. CASE v # w
      BY <1>0, <1>4, <1>5, <1>6, Members, <2>1, <3>2 DEF IInv, Traced, LinkTraced, FileSteps, Justified, SameWriters, SameFs
    <3> QED BY <3>1, <3>2
  <2>2. ASSUME mishaps = 0, NEW j \in Keys, j \in files', rows'[j] = "none"
        PROVE  \E v \in Writers : writer'[v].ledger[j] \in {"created", "createdBack"}
    <3>1. CASE j \in files /\ rows[j] = "none"
      <4>1. PICK v \in Writers : writer[v].ledger[j] \in {"created", "createdBack"}
        BY <2>2, <3>1 DEF IInv, Traced, FileTraced
      <4>2. writer'[v].ledger[j] \in {"created", "createdBack"}
        BY <1>0, <1>4, <1>5, <1>6, Members, <2>2, <3>1, <4>1 DEF IInv, SameWriters, SameFs
      <4> QED BY <4>2
    <3>2. CASE ~(j \in files /\ rows[j] = "none")
      BY <1>0, <1>4, <1>5, <1>6, Members, <2>2, <3>2 DEF IInv, FileSteps, Justified, SameWriters, SameFs
    <3> QED BY <3>1, <3>2
  <2> QED BY <1>6, <2>1, <2>2 DEF Traced, FileTraced
<1>17. Passing'
  BY <1>0, <1>4, <1>5, <1>6, Members DEF IInv, Passing, InTxn, SameWriters, SameFs, Exclusion, Ledgers
<1> QED BY <1>7, <1>8, <1>9, <1>10, <1>11, <1>12, <1>13, <1>14, <1>15, <1>16, <1>17 DEF IInv

LEMMA StageJournalIInv ==
    ASSUME StorageAssumption, IInv, NEW w \in Writers, NEW k \in Keys, StageJournal(w, k) PROVE IInv'
<1> DEFINE r == [writer[w] EXCEPT !.todo = writer[w].todo \ {k}]
<1>0. WriterTyped /\ FsTyped /\ NamesTyped /\ KeeperTyped /\ IsWriter(writer[w])
  BY DEF IInv, Typed, WriterTyped
<1>1. writer' = [writer EXCEPT ![w] = r]
  BY DEF StageJournal
<1>2. /\ r = [f \in WriterFields |-> r[f]]
      /\ r.pc = writer[w].pc
      /\ r.op = writer[w].op
      /\ r.todo = writer[w].todo \ {k}
      /\ r.keys = writer[w].keys
      /\ r.ledger = writer[w].ledger
  BY <1>0 DEF IsWriter, WriterFields
<1> HIDE DEF r
<1>3. IsWriter(r)
  BY <1>0, <1>2 DEF IsWriter, IsLedger, LedgerStates, LiveKeys, NoLedger
<1>4. /\ WriterTyped' /\ SameWriters(w)
      /\ writer'[w].pc = writer[w].pc
      /\ writer'[w].op = writer[w].op
      /\ writer'[w].todo = writer[w].todo \ {k}
      /\ writer'[w].keys = writer[w].keys
      /\ writer'[w].ledger = writer[w].ledger
  BY <1>0, <1>1, <1>2, <1>3, WriterMoves
<1>5. /\ FsTyped' /\ SameFs(w)
      /\ \/ /\ k \in files /\ journals' = journals \cup {<<w, k>>}
            /\ fs'[w].step = "journaled" /\ fs'[w].ref = <<w, k>> /\ fs'[w].ref[1] = w /\ fs'[w].ref[2] = k
         \/ journals' = journals /\ fs'[w] = fs[w]
  <2>1. CASE k \in files
    BY <1>0, <2>1, Members, DoesMoves DEF StageJournal, Refs, Steps
  <2>2. CASE k \notin files
    BY <1>0, <2>2 DEF StageJournal, FsTyped, SameFs, Free
  <2> QED BY <2>1, <2>2
<1>6. /\ writer[w].pc = "open" /\ writer[w].op = "delete" /\ fs[w].step = "none" /\ k \in writer[w].todo
      /\ UNCHANGED <<rows, used, files, trash, keeper>>
      /\ mishaps' = mishaps
  BY <1>0 DEF StageJournal, Staging, FsTyped, Processes
<1>p. /\ k \in writer[w].keys /\ rows[k] = "live" /\ <<w, k>> \notin trash /\ <<w, k>> \in Refs
      /\ k \in used /\ <<w, k>>[2] = k
  BY <1>6 DEF IInv, Deletes, KnownKeys, InTxn, Refs
<1>7. Typed'
  <2>1. NamesTyped'
    BY <1>0, <1>6, <1>5, <1>p DEF NamesTyped
  <2>2. KeeperTyped'
    BY <1>0, <1>6 DEF KeeperTyped, KeeperFields
  <2> QED BY <1>4, <1>5, <2>1, <2>2 DEF Typed
<1>8. Exclusion'
  BY <1>0, <1>4, <1>5, <1>6, <1>p, Members DEF IInv, Exclusion, InTxn, SameWriters, SameFs
<1>9. KnownKeys'
  BY <1>0, <1>4, <1>5, <1>6, <1>p, Members DEF IInv, KnownKeys, SameWriters, SameFs
<1>10. Uploads'
  <2> SUFFICES ASSUME NEW v \in Writers, writer'[v].pc \in {"open", "failed"}, writer'[v].op = "upload",
                      NEW j \in writer'[v].keys
               PROVE  Owned(v, j)'
    BY DEF Uploads, InTxn
  <2>0. j \in Keys
    BY <1>4 DEF WriterTyped, IsWriter
  <2>1. CASE v = w
    BY <1>0, <1>4, <1>5, <1>6, <1>p, Members, <2>0, <2>1 DEF IInv, Uploads, Owned, InTxn, SameWriters, SameFs
  <2>2. CASE v # w
    BY <1>0, <1>4, <1>5, <1>6, <1>p, Members, <2>0, <2>2 DEF IInv, Uploads, Owned, InTxn, SameWriters, SameFs
  <2> QED BY <2>1, <2>2
<1>11. Deletes'
  BY <1>0, <1>4, <1>5, <1>6, <1>p, Members DEF IInv, Deletes, InTxn, SameWriters, SameFs
<1>12. Ledgers'
  BY <1>0, <1>4, <1>5, <1>6, <1>p, Members DEF IInv, Ledgers, InTxn, NoLedger, SameWriters, SameFs
<1>13. FileSteps'
  <2> SUFFICES ASSUME NEW b \in Processes PROVE Justified(b)'
    BY DEF FileSteps
  <2>1. CASE b = w
    BY <1>0, <1>4, <1>5, <1>6, <1>p, Members, <2>1 DEF IInv, FileSteps, Justified, SameWriters, SameFs
  <2>2. CASE b # w
    BY <1>0, <1>4, <1>5, <1>6, <1>p, Members, <2>2 DEF IInv, FileSteps, Justified, SameWriters, SameFs
  <2> QED BY <2>1, <2>2
<1>14. Journaled'
  BY <1>0, <1>4, <1>5, <1>6, <1>p, Members DEF IInv, Journaled, SameWriters, SameFs
<1>15. BytesKept'
  <2> SUFFICES ASSUME NEW j \in Keys, rows'[j] = "live"
               PROVE  j \in files' \/ \E v \in Writers : Solid(v, j)'
    BY DEF BytesKept, LiveKeys
  <2>1. CASE rows[j] = "live" /\ j \in files
    BY <1>0, <1>4, <1>5, <1>6, <1>p, Members, <2>1 DEF IInv, SameWriters, SameFs, Solid
  <2>2. CASE rows[j] = "live" /\ \E v \in Writers : Solid(v, j)
    <3>1. PICK v \in Writers : Solid(v, j)
      BY <2>2
    <3>2. Solid(v, j)'
      BY <1>0, <1>4, <1>5, <1>6, <1>p, Members, <3>1 DEF IInv, SameWriters, SameFs, Solid
    <3> QED BY <3>2
  <2>3. rows[j] = "live"
    BY <1>0, <1>4, <1>5, <1>6, <1>p, Members DEF IInv, SameWriters, SameFs
  <2> QED BY <2>1, <2>2, <2>3 DEF IInv, BytesKept, LiveKeys
<1>16. Traced'
  <2>1. ASSUME mishaps = 0, NEW v \in Writers, NEW j \in Keys PROVE LinkTraced(v, j)'
    <3>1. CASE v = w
      BY <1>0, <1>4, <1>5, <1>6, <1>p, Members, <2>1, <3>1 DEF IInv, Traced, LinkTraced, FileSteps, Justified, SameWriters, SameFs
    <3>2. CASE v # w
      BY <1>0, <1>4, <1>5, <1>6, <1>p, Members, <2>1, <3>2 DEF IInv, Traced, LinkTraced, FileSteps, Justified, SameWriters, SameFs
    <3> QED BY <3>1, <3>2
  <2>2. ASSUME mishaps = 0, NEW j \in Keys, j \in files', rows'[j] = "none"
        PROVE  \E v \in Writers : writer'[v].ledger[j] \in {"created", "createdBack"}
    <3>1. CASE j \in files /\ rows[j] = "none"
      <4>1. PICK v \in Writers : writer[v].ledger[j] \in {"created", "createdBack"}
        BY <2>2, <3>1 DEF IInv, Traced, FileTraced
      <4>2. writer'[v].ledger[j] \in {"created", "createdBack"}
        BY <1>0, <1>4, <1>5, <1>6, <1>p, Members, <2>2, <3>1, <4>1 DEF IInv, SameWriters, SameFs
      <4> QED BY <4>2
    <3>2. CASE ~(j \in files /\ rows[j] = "none")
      BY <1>0, <1>4, <1>5, <1>6, <1>p, Members, <2>2, <3>2 DEF IInv, FileSteps, Justified, SameWriters, SameFs
    <3> QED BY <3>1, <3>2
  <2> QED BY <1>6, <2>1, <2>2 DEF Traced, FileTraced
<1>17. Passing'
  BY <1>0, <1>4, <1>5, <1>6, <1>p, Members DEF IInv, Passing, InTxn, SameWriters, SameFs, Exclusion, Ledgers
<1> QED BY <1>7, <1>8, <1>9, <1>10, <1>11, <1>12, <1>13, <1>14, <1>15, <1>16, <1>17 DEF IInv

LEMMA StageLinkIInv ==
    ASSUME StorageAssumption, IInv, NEW w \in Writers, StageLink(w) PROVE IInv'
<1>0. WriterTyped /\ FsTyped /\ NamesTyped /\ KeeperTyped
  BY DEF IInv, Typed, WriterTyped
<1>1. fs[w].step = "journaled"
  BY DEF StageLink
<1>2. PICK u \in Writers, k \in Keys : fs[w].ref = <<u, k>>
  BY <1>0, <1>1, Members DEF FsTyped, Refs
<1>3. fs[w].ref[1] = u /\ fs[w].ref[2] = k /\ <<u, k>> \in Refs
  BY <1>2 DEF Refs
<1>4. WriterTyped' /\ writer' = writer
  BY <1>0 DEF StageLink, WriterTyped
<1>5. /\ FsTyped' /\ SameFs(w)
      /\ \/ /\ k \in files /\ trash' = trash \cup {<<u, k>>} /\ journals' = journals
            /\ fs'[w].step = "linked" /\ fs'[w].ref = <<u, k>> /\ fs'[w].ref[1] = u /\ fs'[w].ref[2] = k
         \/ k \notin files /\ journals' = journals \ {<<u, k>>} /\ trash' = trash /\ fs'[w].step = "none"
  <2>1. CASE k \in files
    BY <1>0, <1>2, <1>3, <2>1, Members, DoesMoves DEF StageLink, Refs, Steps
  <2>2. CASE k \notin files
    BY <1>0, <1>2, <1>3, <2>2, Members, RestsMoves DEF StageLink
  <2> QED BY <2>1, <2>2
<1>6. /\ fs[w].step = "journaled" /\ fs[w].ref = <<u, k>>
      /\ UNCHANGED <<rows, used, files, keeper>>
      /\ mishaps' = mishaps
  BY <1>0, <1>1, <1>2 DEF StageLink
<1>p. /\ u = w /\ writer[w].pc = "open" /\ writer[w].op = "delete" /\ k \in writer[w].keys \ writer[w].todo
      /\ <<u, k>> \in journals \ trash /\ <<u, k>> \in Refs
  BY <1>0, <1>1, <1>2, <1>3, Members DEF IInv, FileSteps, Justified
<1>q. \A b \in Processes : b # w /\ fs[b].step # "none" => fs[b].ref[1] # w
  BY <1>0, <1>p, Members DEF IInv, FileSteps, Justified, Exclusion, InTxn
<1>7. Typed'
  <2>1. NamesTyped'
    BY <1>0, <1>6, <1>5, <1>p DEF NamesTyped
  <2>2. KeeperTyped'
    BY <1>0, <1>6 DEF KeeperTyped, KeeperFields
  <2> QED BY <1>4, <1>5, <2>1, <2>2 DEF Typed
<1>8. Exclusion'
  BY <1>0, <1>4, <1>5, <1>6, <1>p, <1>q, Members DEF IInv, Exclusion, InTxn, SameWriters, SameFs
<1>9. KnownKeys'
  BY <1>0, <1>4, <1>5, <1>6, <1>p, <1>q, Members DEF IInv, KnownKeys, SameWriters, SameFs
<1>10. Uploads'
  <2> SUFFICES ASSUME NEW v \in Writers, writer'[v].pc \in {"open", "failed"}, writer'[v].op = "upload",
                      NEW j \in writer'[v].keys
               PROVE  Owned(v, j)'
    BY DEF Uploads, InTxn
  <2>0. j \in Keys
    BY <1>4 DEF WriterTyped, IsWriter
  <2>1. CASE v = w
    BY <1>0, <1>4, <1>5, <1>6, <1>p, <1>q, Members, <2>0, <2>1 DEF IInv, Uploads, Owned, InTxn, SameWriters, SameFs
  <2>2. CASE v # w
    BY <1>0, <1>4, <1>5, <1>6, <1>p, <1>q, Members, <2>0, <2>2 DEF IInv, Uploads, Owned, InTxn, SameWriters, SameFs
  <2> QED BY <2>1, <2>2
<1>11. Deletes'
  BY <1>0, <1>4, <1>5, <1>6, <1>p, <1>q, Members DEF IInv, Deletes, InTxn, SameWriters, SameFs
<1>12. Ledgers'
  BY <1>0, <1>4, <1>5, <1>6, <1>p, <1>q, Members DEF IInv, Ledgers, InTxn, NoLedger, SameWriters, SameFs
<1>13. FileSteps'
  <2> SUFFICES ASSUME NEW b \in Processes PROVE Justified(b)'
    BY DEF FileSteps
  <2>1. CASE b = w
    BY <1>0, <1>4, <1>5, <1>6, <1>p, <1>q, Members, <2>1 DEF IInv, FileSteps, Justified, SameWriters, SameFs
  <2>2. CASE b # w
    BY <1>0, <1>4, <1>5, <1>6, <1>p, <1>q, Members, <2>2 DEF IInv, FileSteps, Justified, SameWriters, SameFs
  <2> QED BY <2>1, <2>2
<1>14. Journaled'
  BY <1>0, <1>4, <1>5, <1>6, <1>p, <1>q, Members DEF IInv, Journaled, SameWriters, SameFs
<1>15. BytesKept'
  <2> SUFFICES ASSUME NEW j \in Keys, rows'[j] = "live"
               PROVE  j \in files' \/ \E v \in Writers : Solid(v, j)'
    BY DEF BytesKept, LiveKeys
  <2>1. CASE rows[j] = "live" /\ j \in files
    BY <1>0, <1>4, <1>5, <1>6, <1>p, <1>q, Members, <2>1 DEF IInv, SameWriters, SameFs, Solid
  <2>2. CASE rows[j] = "live" /\ \E v \in Writers : Solid(v, j)
    <3>1. PICK v \in Writers : Solid(v, j)
      BY <2>2
    <3>2. Solid(v, j)'
      BY <1>0, <1>4, <1>5, <1>6, <1>p, <1>q, Members, <3>1 DEF IInv, SameWriters, SameFs, Solid
    <3> QED BY <3>2
  <2>3. rows[j] = "live"
    BY <1>0, <1>4, <1>5, <1>6, <1>p, <1>q, Members DEF IInv, SameWriters, SameFs
  <2> QED BY <2>1, <2>2, <2>3 DEF IInv, BytesKept, LiveKeys
<1>16. Traced'
  <2>1. ASSUME mishaps = 0, NEW v \in Writers, NEW j \in Keys PROVE LinkTraced(v, j)'
    <3>1. CASE v = w
      BY <1>0, <1>4, <1>5, <1>6, <1>p, <1>q, Members, <2>1, <3>1 DEF IInv, Traced, LinkTraced, FileSteps, Justified, SameWriters, SameFs
    <3>2. CASE v # w
      BY <1>0, <1>4, <1>5, <1>6, <1>p, <1>q, Members, <2>1, <3>2 DEF IInv, Traced, LinkTraced, FileSteps, Justified, SameWriters, SameFs
    <3> QED BY <3>1, <3>2
  <2>2. ASSUME mishaps = 0, NEW j \in Keys, j \in files', rows'[j] = "none"
        PROVE  \E v \in Writers : writer'[v].ledger[j] \in {"created", "createdBack"}
    <3>1. CASE j \in files /\ rows[j] = "none"
      <4>1. PICK v \in Writers : writer[v].ledger[j] \in {"created", "createdBack"}
        BY <2>2, <3>1 DEF IInv, Traced, FileTraced
      <4>2. writer'[v].ledger[j] \in {"created", "createdBack"}
        BY <1>0, <1>4, <1>5, <1>6, <1>p, <1>q, Members, <2>2, <3>1, <4>1 DEF IInv, SameWriters, SameFs
      <4> QED BY <4>2
    <3>2. CASE ~(j \in files /\ rows[j] = "none")
      BY <1>0, <1>4, <1>5, <1>6, <1>p, <1>q, Members, <2>2, <3>2 DEF IInv, FileSteps, Justified, SameWriters, SameFs
    <3> QED BY <3>1, <3>2
  <2> QED BY <1>6, <2>1, <2>2 DEF Traced, FileTraced
<1>17. Passing'
  BY <1>0, <1>4, <1>5, <1>6, <1>p, <1>q, Members DEF IInv, Passing, InTxn, SameWriters, SameFs, Exclusion, Ledgers
<1> QED BY <1>7, <1>8, <1>9, <1>10, <1>11, <1>12, <1>13, <1>14, <1>15, <1>16, <1>17 DEF IInv

LEMMA StageUnlinkIInv ==
    ASSUME StorageAssumption, IInv, NEW w \in Writers, StageUnlink(w) PROVE IInv'
<1>0. WriterTyped /\ FsTyped /\ NamesTyped /\ KeeperTyped /\ IsWriter(writer[w])
  BY DEF IInv, Typed, WriterTyped
<1>1. fs[w].step = "linked"
  BY DEF StageUnlink
<1>2. PICK u \in Writers, k \in Keys : fs[w].ref = <<u, k>>
  BY <1>0, <1>1, Members DEF FsTyped, Refs
<1>3. fs[w].ref[1] = u /\ fs[w].ref[2] = k /\ <<u, k>> \in Refs
  BY <1>2 DEF Refs
<1> DEFINE r == [writer[w] EXCEPT !.ledger = [writer[w].ledger EXCEPT ![k] = "staged"]]
<1>a. writer' = [writer EXCEPT ![w] = r]
  BY <1>0, <1>2, <1>3 DEF StageUnlink, WriterTyped, IsWriter, WriterFields
<1>b. /\ r = [f \in WriterFields |-> r[f]]
      /\ r.pc = writer[w].pc /\ r.op = writer[w].op /\ r.todo = writer[w].todo /\ r.keys = writer[w].keys
      /\ r.ledger = [writer[w].ledger EXCEPT ![k] = "staged"]
  BY <1>0 DEF IsWriter, WriterFields
<1> HIDE DEF r
<1>c. IsWriter(r)
  BY <1>0, <1>b DEF IsWriter, IsLedger, LedgerStates
<1>d. r.ledger[k] = "staged" /\ \A j \in Keys \ {k} : r.ledger[j] = writer[w].ledger[j]
  BY <1>0, <1>b DEF IsWriter, IsLedger
<1>4. /\ WriterTyped' /\ SameWriters(w)
      /\ writer'[w].pc = writer[w].pc /\ writer'[w].op = writer[w].op
      /\ writer'[w].todo = writer[w].todo /\ writer'[w].keys = writer[w].keys
      /\ writer'[w].ledger[k] = "staged"
      /\ \A j \in Keys \ {k} : writer'[w].ledger[j] = writer[w].ledger[j]
  BY <1>0, <1>a, <1>b, <1>c, <1>d, WriterMoves
<1>5. FsTyped' /\ SameFs(w) /\ fs'[w].step = "none"
  BY <1>0, Members, RestsMoves DEF StageUnlink
<1>6. /\ fs[w].step = "linked" /\ fs[w].ref = <<u, k>>
      /\ files' = files \ {k}
      /\ UNCHANGED <<rows, used, trash, journals, keeper>>
      /\ mishaps' = mishaps
  BY <1>0, <1>1, <1>2, <1>3 DEF StageUnlink
<1>p. /\ u = w /\ writer[w].pc = "open" /\ writer[w].op = "delete" /\ k \in writer[w].keys \ writer[w].todo
      /\ <<u, k>> \in journals \cap trash
  BY <1>0, <1>1, <1>2, <1>3, Members DEF IInv, FileSteps, Justified
<1>q. /\ \A b \in Processes : b # w /\ fs[b].step # "none" => fs[b].ref[1] # w
      /\ rows[k] = "live" /\ k \in used /\ \A v \in Writers \ {w} : ~InTxn(v)
  BY <1>0, <1>p, Members DEF IInv, FileSteps, Justified, Exclusion, InTxn, Deletes, KnownKeys
<1>7. Typed'
  <2>1. NamesTyped'
    BY <1>0, <1>6 DEF NamesTyped
  <2>2. KeeperTyped'
    BY <1>0, <1>6 DEF KeeperTyped, KeeperFields
  <2> QED BY <1>4, <1>5, <2>1, <2>2 DEF Typed
<1>8. Exclusion'
  BY <1>0, <1>4, <1>5, <1>6, <1>p, <1>q, Members DEF IInv, Exclusion, InTxn, SameWriters, SameFs
<1>9. KnownKeys'
  BY <1>0, <1>4, <1>5, <1>6, <1>p, <1>q, Members DEF IInv, KnownKeys, SameWriters, SameFs
<1>10. Uploads'
  <2> SUFFICES ASSUME NEW v \in Writers, writer'[v].pc \in {"open", "failed"}, writer'[v].op = "upload",
                      NEW j \in writer'[v].keys
               PROVE  Owned(v, j)'
    BY DEF Uploads, InTxn
  <2>0. j \in Keys
    BY <1>4 DEF WriterTyped, IsWriter
  <2>1. CASE v = w
    BY <1>0, <1>4, <1>5, <1>6, <1>p, <1>q, Members, <2>0, <2>1 DEF IInv, Uploads, Owned, InTxn, SameWriters, SameFs
  <2>2. CASE v # w
    BY <1>0, <1>4, <1>5, <1>6, <1>p, <1>q, Members, <2>0, <2>2 DEF IInv, Uploads, Owned, InTxn, SameWriters, SameFs
  <2> QED BY <2>1, <2>2
<1>11. Deletes'
  BY <1>0, <1>4, <1>5, <1>6, <1>p, <1>q, Members DEF IInv, Deletes, InTxn, SameWriters, SameFs
<1>12. Ledgers'
  BY <1>0, <1>4, <1>5, <1>6, <1>p, <1>q, Members DEF IInv, Ledgers, InTxn, NoLedger, SameWriters, SameFs
<1>13. FileSteps'
  <2> SUFFICES ASSUME NEW b \in Processes PROVE Justified(b)'
    BY DEF FileSteps
  <2>1. CASE b = w
    BY <1>0, <1>4, <1>5, <1>6, <1>p, <1>q, Members, <2>1 DEF IInv, FileSteps, Justified, SameWriters, SameFs, InTxn
  <2>2. CASE b # w
    BY <1>0, <1>4, <1>5, <1>6, <1>p, <1>q, Members, <2>2 DEF IInv, FileSteps, Justified, SameWriters, SameFs, InTxn
  <2> QED BY <2>1, <2>2
<1>14. Journaled'
  BY <1>0, <1>4, <1>5, <1>6, <1>p, <1>q, Members DEF IInv, Journaled, SameWriters, SameFs
<1>15. BytesKept'
  <2> SUFFICES ASSUME NEW j \in Keys, rows'[j] = "live"
               PROVE  j \in files' \/ \E v \in Writers : Solid(v, j)'
    BY DEF BytesKept, LiveKeys
  <2>1. CASE rows[j] = "live" /\ j \in files
    <3>1. CASE j = k
      <4>1. \A b \in Processes : fs'[b].step # "none" => fs'[b].ref # <<w, k>>
        BY <1>0, <1>5, <1>q, Members DEF SameFs
      <4>2. Solid(w, k)'
        BY <1>6, <1>p, <4>1 DEF Solid
      <4> QED BY <3>1, <4>2
    <3>2. CASE j # k
      BY <1>6, <2>1, <3>2
    <3> QED BY <3>1, <3>2
  <2>2. CASE rows[j] = "live" /\ \E v \in Writers : Solid(v, j)
    <3>1. PICK v \in Writers : Solid(v, j)
      BY <2>2
    <3>2. Solid(v, j)'
      BY <1>0, <1>4, <1>5, <1>6, <1>p, <1>q, Members, <3>1 DEF IInv, SameWriters, SameFs, Solid
    <3> QED BY <3>2
  <2>3. rows[j] = "live"
    BY <1>0, <1>4, <1>5, <1>6, <1>p, <1>q, Members DEF IInv, SameWriters, SameFs
  <2> QED BY <2>1, <2>2, <2>3 DEF IInv, BytesKept, LiveKeys
<1>16. Traced'
  <2>1. ASSUME mishaps = 0, NEW v \in Writers, NEW j \in Keys PROVE LinkTraced(v, j)'
    <3>1. CASE v = w
      BY <1>0, <1>4, <1>5, <1>6, <1>p, <1>q, Members, <2>1, <3>1 DEF IInv, Traced, LinkTraced, FileSteps, Justified, SameWriters, SameFs
    <3>2. CASE v # w
      BY <1>0, <1>4, <1>5, <1>6, <1>p, <1>q, Members, <2>1, <3>2 DEF IInv, Traced, LinkTraced, FileSteps, Justified, SameWriters, SameFs
    <3> QED BY <3>1, <3>2
  <2>2. ASSUME mishaps = 0, NEW j \in Keys, j \in files', rows'[j] = "none"
        PROVE  \E v \in Writers : writer'[v].ledger[j] \in {"created", "createdBack"}
    <3>1. CASE j \in files /\ rows[j] = "none"
      <4>1. PICK v \in Writers : writer[v].ledger[j] \in {"created", "createdBack"}
        BY <2>2, <3>1 DEF IInv, Traced, FileTraced
      <4>2. writer'[v].ledger[j] \in {"created", "createdBack"}
        BY <1>0, <1>4, <1>5, <1>6, <1>p, <1>q, Members, <2>2, <3>1, <4>1 DEF IInv, SameWriters, SameFs
      <4> QED BY <4>2
    <3>2. CASE ~(j \in files /\ rows[j] = "none")
      BY <1>0, <1>4, <1>5, <1>6, <1>p, <1>q, Members, <2>2, <3>2 DEF IInv, FileSteps, Justified, SameWriters, SameFs
    <3> QED BY <3>1, <3>2
  <2> QED BY <1>6, <2>1, <2>2 DEF Traced, FileTraced
<1>17. Passing'
  BY <1>0, <1>4, <1>5, <1>6, <1>p, <1>q, Members DEF IInv, Passing, InTxn, SameWriters, SameFs, Exclusion, Ledgers
<1> QED BY <1>7, <1>8, <1>9, <1>10, <1>11, <1>12, <1>13, <1>14, <1>15, <1>16, <1>17 DEF IInv

LEMMA StageFailsIInv ==
    ASSUME StorageAssumption, IInv, NEW w \in Writers, StageFails(w) PROVE IInv'
<1>0. WriterTyped /\ FsTyped /\ NamesTyped /\ KeeperTyped /\ IsWriter(writer[w])
  BY DEF IInv, Typed, WriterTyped
<1>1. fs[w].step \in {"journaled", "linked"}
  BY DEF StageFails
<1>2. PICK u \in Writers, k \in Keys : fs[w].ref = <<u, k>>
  BY <1>0, <1>1, Members DEF FsTyped, Refs
<1>3. fs[w].ref[1] = u /\ fs[w].ref[2] = k /\ <<u, k>> \in Refs
  BY <1>2 DEF Refs
<1> DEFINE r == [writer[w] EXCEPT !.pc = "failed"]
<1>a. writer' = [writer EXCEPT ![w] = r]
  BY DEF StageFails
<1>b. /\ r = [f \in WriterFields |-> r[f]]
      /\ r.pc = "failed" /\ r.op = writer[w].op /\ r.todo = writer[w].todo /\ r.keys = writer[w].keys
      /\ r.ledger = writer[w].ledger
  BY <1>0 DEF IsWriter, WriterFields
<1> HIDE DEF r
<1>c. IsWriter(r)
  BY <1>0, <1>b DEF IsWriter
<1>4. /\ WriterTyped' /\ SameWriters(w)
      /\ writer'[w].pc = "failed" /\ writer'[w].op = writer[w].op /\ writer'[w].todo = writer[w].todo
      /\ writer'[w].keys = writer[w].keys /\ writer'[w].ledger = writer[w].ledger
  BY <1>0, <1>a, <1>b, <1>c, WriterMoves
<1>5. /\ FsTyped' /\ SameFs(w)
      /\ \/ /\ fs[w].step = "journaled" /\ trash' = trash /\ journals' = journals \ {<<u, k>>}
            /\ fs'[w].step = "none"
         \/ /\ fs[w].step = "linked" /\ trash' = trash \ {<<u, k>>} /\ journals' = journals
            /\ fs'[w].step = "drop" /\ fs'[w].ref = <<u, k>> /\ fs'[w].ref[1] = u /\ fs'[w].ref[2] = k
         \/ trash' = trash /\ journals' = journals /\ fs'[w].step = "none"
  <2>1. CASE journals' = journals \ {fs[w].ref} /\ Rests(w) /\ trash' = trash /\ fs[w].step = "journaled"
    BY <1>0, <1>2, <1>3, <2>1, Members, RestsMoves
  <2>2. CASE /\ trash' = trash \ {fs[w].ref} /\ Does(w, "drop", fs[w].ref) /\ journals' = journals
             /\ fs[w].step = "linked"
    BY <1>0, <1>2, <1>3, <2>2, Members, DoesMoves DEF Steps
  <2>3. CASE Rests(w) /\ trash' = trash /\ journals' = journals
    BY <1>0, <2>3, Members, RestsMoves
  <2> QED BY <2>1, <2>2, <2>3 DEF StageFails
<1>6. /\ fs[w].step \in {"journaled", "linked"} /\ fs[w].ref = <<u, k>>
      /\ UNCHANGED <<rows, used, files, keeper>>
  BY <1>0, <1>1, <1>2, <1>3 DEF StageFails
<1>m. mishaps' \in Nat /\ mishaps' # 0
  BY <1>0 DEF StageFails, Mishap, NamesTyped
<1>p. /\ u = w /\ writer[w].pc = "open" /\ writer[w].op = "delete" /\ k \in writer[w].keys \ writer[w].todo
      /\ fs[w].step = "linked" => k \in files
      /\ fs[w].step = "journaled" => <<u, k>> \notin trash
  BY <1>0, <1>1, <1>2, <1>3, Members DEF IInv, FileSteps, Justified
<1>q. /\ \A b \in Processes : b # w /\ fs[b].step # "none" => fs[b].ref[1] # w
      /\ rows[k] = "live" /\ k \in used /\ \A v \in Writers \ {w} : ~InTxn(v)
  BY <1>0, <1>p, Members DEF IInv, FileSteps, Justified, Exclusion, InTxn, Deletes, KnownKeys
<1>7. Typed'
  <2>1. NamesTyped'
    BY <1>0, <1>6, <1>5, <1>m DEF NamesTyped
  <2>2. KeeperTyped'
    BY <1>0, <1>6 DEF KeeperTyped, KeeperFields
  <2> QED BY <1>4, <1>5, <2>1, <2>2 DEF Typed
<1>8. Exclusion'
  BY <1>0, <1>4, <1>5, <1>6, <1>p, <1>q, Members DEF IInv, Exclusion, InTxn, SameWriters, SameFs
<1>9. KnownKeys'
  BY <1>0, <1>4, <1>5, <1>6, <1>p, <1>q, Members DEF IInv, KnownKeys, SameWriters, SameFs
<1>10. Uploads'
  <2> SUFFICES ASSUME NEW v \in Writers, writer'[v].pc \in {"open", "failed"}, writer'[v].op = "upload",
                      NEW j \in writer'[v].keys
               PROVE  Owned(v, j)'
    BY DEF Uploads, InTxn
  <2>0. j \in Keys
    BY <1>4 DEF WriterTyped, IsWriter
  <2>1. CASE v = w
    BY <1>0, <1>4, <1>5, <1>6, <1>p, <1>q, Members, <2>0, <2>1 DEF IInv, Uploads, Owned, InTxn, SameWriters, SameFs
  <2>2. CASE v # w
    BY <1>0, <1>4, <1>5, <1>6, <1>p, <1>q, Members, <2>0, <2>2 DEF IInv, Uploads, Owned, InTxn, SameWriters, SameFs
  <2> QED BY <2>1, <2>2
<1>11. Deletes'
  BY <1>0, <1>4, <1>5, <1>6, <1>p, <1>q, Members DEF IInv, Deletes, InTxn, SameWriters, SameFs
<1>12. Ledgers'
  BY <1>0, <1>4, <1>5, <1>6, <1>p, <1>q, Members DEF IInv, Ledgers, InTxn, NoLedger, SameWriters, SameFs
<1>13. FileSteps'
  <2> SUFFICES ASSUME NEW b \in Processes PROVE Justified(b)'
    BY DEF FileSteps
  <2>1. CASE b = w
    BY <1>0, <1>4, <1>5, <1>6, <1>p, <1>q, Members, <2>1 DEF IInv, FileSteps, Justified, SameWriters, SameFs
  <2>2. CASE b # w
    BY <1>0, <1>4, <1>5, <1>6, <1>p, <1>q, Members, <2>2 DEF IInv, FileSteps, Justified, SameWriters, SameFs
  <2> QED BY <2>1, <2>2
<1>14. Journaled'
  BY <1>0, <1>4, <1>5, <1>6, <1>p, <1>q, Members DEF IInv, Journaled, SameWriters, SameFs
<1>15. BytesKept'
  <2> SUFFICES ASSUME NEW j \in Keys, rows'[j] = "live"
               PROVE  j \in files' \/ \E v \in Writers : Solid(v, j)'
    BY DEF BytesKept, LiveKeys
  <2>1. CASE rows[j] = "live" /\ j \in files
    BY <1>0, <1>4, <1>5, <1>6, <1>p, <1>q, Members, <2>1 DEF IInv, SameWriters, SameFs, Solid
  <2>2. CASE rows[j] = "live" /\ \E v \in Writers : Solid(v, j)
    <3>1. PICK v \in Writers : Solid(v, j)
      BY <2>2
    <3>2. CASE v = u /\ j = k
      BY <1>0, <1>4, <1>5, <1>6, <1>p, <1>q, Members, <3>1, <3>2 DEF IInv, SameWriters, SameFs, Solid
    <3>3. CASE ~(v = u /\ j = k)
      <4>1. Solid(v, j)'
        BY <1>0, <1>4, <1>5, <1>6, <1>p, <1>q, Members, <3>1, <3>3 DEF IInv, SameWriters, SameFs, Solid
      <4> QED BY <4>1
    <3> QED BY <3>2, <3>3
  <2>3. rows[j] = "live"
    BY <1>0, <1>4, <1>5, <1>6, <1>p, <1>q, Members DEF IInv, SameWriters, SameFs
  <2> QED BY <2>1, <2>2, <2>3 DEF IInv, BytesKept, LiveKeys
<1>16. Traced'
  BY <1>m DEF Traced
<1>17. Passing'
  BY <1>0, <1>4, <1>5, <1>6, <1>p, <1>q, Members DEF IInv, Passing, InTxn, SameWriters, SameFs, Exclusion, Ledgers
<1> QED BY <1>7, <1>8, <1>9, <1>10, <1>11, <1>12, <1>13, <1>14, <1>15, <1>16, <1>17 DEF IInv

LEMMA CommitIInv ==
    ASSUME StorageAssumption, IInv, NEW w \in Writers, Commit(w) PROVE IInv'
<1>0. WriterTyped /\ FsTyped /\ NamesTyped /\ KeeperTyped /\ IsWriter(writer[w]) /\ IsLedger(writer[w].ledger)
  BY DEF IInv, Typed, WriterTyped, IsWriter
<1>4. /\ WriterTyped' /\ SameWriters(w)
      /\ writer'[w].pc = "settling" /\ writer'[w].op = writer[w].op /\ writer'[w].keys = {}
      /\ \A j \in Keys :
            /\ j \in writer'[w].todo <=> writer'[w].ledger[j] # "none"
            /\ \/ writer'[w].ledger[j] = writer[w].ledger[j] /\ writer[w].ledger[j] \notin {"created", "staged"}
               \/ writer[w].ledger[j] = "created" /\ writer'[w].ledger[j] \in {"none", "createdBack"}
               \/ writer[w].ledger[j] = "staged" /\ writer'[w].ledger[j] \in {"stagedBack", "stagedDurable"}
  <2>1. CASE EndTxn(w, MarkCommitted(writer[w].ledger))
    BY <1>0, <2>1, MarkedCommitted, TxnEnds
  <2>2. CASE EndTxn(w, MarkBack(writer[w].ledger))
    BY <1>0, <2>2, MarkedBack, TxnEnds
  <2> QED BY <2>1, <2>2 DEF Commit
<1>5. FsTyped' /\ fs' = fs
  BY <1>0 DEF Commit, FsTyped, Free
<1>6. /\ writer[w].pc = "open" /\ fs[w].step = "none"
      /\ UNCHANGED <<used, files, trash, journals, keeper>>
      /\ mishaps' = mishaps
  BY <1>0 DEF Commit, Ready, FsTyped, Processes
<1>r. /\ rows' \in [Keys -> {"none", "live", "deleted"}]
      /\ \A j \in Keys : j \notin writer[w].keys => rows'[j] = rows[j]
      /\ writer[w].op = "upload" => \A j \in writer[w].keys : rows'[j] = "live"
      /\ writer[w].op = "delete" => \A j \in writer[w].keys : rows'[j] = "deleted"
  BY <1>0 DEF Commit, RowsWritten, NamesTyped, IsWriter
<1>p. /\ writer[w].keys \subseteq used /\ writer[w].keys \subseteq Keys
      /\ writer[w].op = "upload" \/ writer[w].op = "delete"
      /\ writer[w].op = "upload" => \A j \in writer[w].keys : Owned(w, j)
      /\ writer[w].op = "delete" => \A j \in writer[w].keys : rows[j] = "live"
      /\ \A v \in Writers \ {w} : InTxn(v) => writer[w].op = "upload" /\ writer[v].op = "upload"
      /\ \A v \in Writers \ {w} : InTxn(v) => \A j \in writer[v].keys : Owned(v, j)
      /\ \A j \in Keys : writer[w].ledger[j] = "staged" => j \in writer[w].keys /\ writer[w].op = "delete"
      /\ \A j \in Keys : writer[w].ledger[j] = "created" => j \in writer[w].keys
  BY <1>0, <1>6 DEF IInv, Exclusion, Deletes, Uploads, KnownKeys, Ledgers, InTxn, IsWriter
<1>q. /\ \A j \in Keys : rows[j] = "deleted" => rows'[j] = "deleted"
      /\ \A j \in Keys : rows[j] # "none" => rows'[j] # "none"
      /\ \A j \in Keys : rows'[j] # "none" => rows[j] # "none" \/ j \in used
      /\ \A j \in Keys : rows'[j] = "live" => rows[j] = "live" \/ j \in files
      /\ \A j \in Keys : writer[w].ledger[j] = "staged" => rows'[j] = "deleted"
      /\ \A b \in Processes : fs[b].step = "remove" /\ rows[fs[b].ref[2]] # "live"
                               => rows'[fs[b].ref[2]] # "live"
      /\ \A v \in Writers \ {w} : InTxn(v) =>
            writer[v].op = "upload" /\ \A j \in writer[v].keys : rows'[j] = rows[j]
      /\ \A j \in Keys : writer[w].ledger[j] = "created" => rows'[j] # "none"
      /\ \A b \in Processes : fs[b].step # "none" => fs[b].ref[2] \in Keys
      /\ \A ref \in journals : ref[2] \in Keys
  <2>0. /\ \A v \in Writers : writer[v].keys \subseteq Keys
        /\ \A b \in Processes : fs[b].step # "none" => fs[b].ref[2] \in Keys
        /\ \A ref \in journals : ref[2] \in Keys
    BY <1>0 DEF WriterTyped, IsWriter, FsTyped, NamesTyped, Refs
  <2>1. ASSUME NEW j \in Keys
        PROVE  /\ rows[j] = "deleted" => rows'[j] = "deleted"
               /\ rows[j] # "none" => rows'[j] # "none"
               /\ rows'[j] # "none" => rows[j] # "none" \/ j \in used
               /\ rows'[j] = "live" => rows[j] = "live" \/ j \in files
               /\ writer[w].ledger[j] = "staged" => rows'[j] = "deleted"
               /\ writer[w].ledger[j] = "created" => rows'[j] # "none"
    BY <1>p, <1>r DEF Owned
  <2>2. ASSUME NEW b \in Processes, fs[b].step = "remove", rows[fs[b].ref[2]] # "live"
        PROVE  rows'[fs[b].ref[2]] # "live"
    BY <1>p, <1>r, <2>0, <2>2 DEF Owned
  <2>3. ASSUME NEW v \in Writers \ {w}, InTxn(v), NEW j \in writer[v].keys
        PROVE  rows'[j] = rows[j]
    BY <1>p, <1>r, <2>0, <2>3 DEF Owned
  <2> QED BY <1>p, <2>0, <2>1, <2>2, <2>3
<1>7. Typed'
  <2>1. NamesTyped'
    BY <1>0, <1>6, <1>r DEF NamesTyped
  <2>2. KeeperTyped'
    BY <1>0, <1>6 DEF KeeperTyped, KeeperFields
  <2> QED BY <1>4, <1>5, <2>1, <2>2 DEF Typed
<1>8. Exclusion'
  BY <1>0, <1>4, <1>5, <1>6, <1>q, Members DEF IInv, Exclusion, InTxn, SameWriters, SameFs
<1>9. KnownKeys'
  BY <1>0, <1>4, <1>5, <1>6, <1>q, Members DEF IInv, KnownKeys, SameWriters, SameFs
<1>10. Uploads'
  <2> SUFFICES ASSUME NEW v \in Writers, writer'[v].pc \in {"open", "failed"}, writer'[v].op = "upload",
                      NEW j \in writer'[v].keys
               PROVE  Owned(v, j)'
    BY DEF Uploads, InTxn
  <2>0. j \in Keys
    BY <1>4 DEF WriterTyped, IsWriter
  <2>1. CASE v = w
    BY <1>0, <1>4, <1>5, <1>6, <1>q, Members, <2>0, <2>1 DEF IInv, Uploads, Owned, InTxn, SameWriters, SameFs
  <2>2. CASE v # w
    BY <1>0, <1>4, <1>5, <1>6, <1>q, Members, <2>0, <2>2 DEF IInv, Uploads, Owned, InTxn, SameWriters, SameFs
  <2> QED BY <2>1, <2>2
<1>11. Deletes'
  BY <1>0, <1>4, <1>5, <1>6, <1>q, Members DEF IInv, Deletes, InTxn, SameWriters, SameFs
<1>12. Ledgers'
  BY <1>0, <1>4, <1>5, <1>6, <1>q, Members DEF IInv, Ledgers, InTxn, NoLedger, SameWriters, SameFs
<1>13. FileSteps'
  <2> SUFFICES ASSUME NEW b \in Processes PROVE Justified(b)'
    BY DEF FileSteps
  <2>1. CASE b = w
    BY <1>0, <1>4, <1>5, <1>6, <1>q, Members, <2>1 DEF IInv, FileSteps, Justified, SameWriters, SameFs, InTxn
  <2>2. CASE b # w
    BY <1>0, <1>4, <1>5, <1>6, <1>q, Members, <2>2 DEF IInv, FileSteps, Justified, SameWriters, SameFs, InTxn
  <2> QED BY <2>1, <2>2
<1>14. Journaled'
  BY <1>0, <1>4, <1>5, <1>6, <1>q, Members DEF IInv, Journaled, SameWriters, SameFs
<1>15. BytesKept'
  <2> SUFFICES ASSUME NEW j \in Keys, rows'[j] = "live"
               PROVE  j \in files' \/ \E v \in Writers : Solid(v, j)'
    BY DEF BytesKept, LiveKeys
  <2>1. CASE rows[j] = "live" /\ j \in files
    BY <1>0, <1>4, <1>5, <1>6, <1>q, Members, <2>1 DEF IInv, SameWriters, SameFs, Solid
  <2>2. CASE rows[j] = "live" /\ \E v \in Writers : Solid(v, j)
    <3>1. PICK v \in Writers : Solid(v, j)
      BY <2>2
    <3>2. Solid(v, j)'
      BY <1>0, <1>4, <1>5, <1>6, <1>q, Members, <3>1 DEF IInv, SameWriters, SameFs, Solid
    <3> QED BY <3>2
  <2>3. CASE rows[j] # "live"
    BY <1>0, <1>4, <1>5, <1>6, <1>q, Members, <2>3 DEF IInv, SameWriters, SameFs
  <2> QED BY <2>1, <2>2, <2>3 DEF IInv, BytesKept, LiveKeys
<1>16. Traced'
  <2>1. ASSUME mishaps = 0, NEW v \in Writers, NEW j \in Keys PROVE LinkTraced(v, j)'
    <3>1. CASE v = w
      BY <1>0, <1>4, <1>5, <1>6, <1>q, Members, <2>1, <3>1 DEF IInv, Traced, LinkTraced, FileSteps, Justified, SameWriters, SameFs
    <3>2. CASE v # w
      BY <1>0, <1>4, <1>5, <1>6, <1>q, Members, <2>1, <3>2 DEF IInv, Traced, LinkTraced, FileSteps, Justified, SameWriters, SameFs
    <3> QED BY <3>1, <3>2
  <2>2. ASSUME mishaps = 0, NEW j \in Keys, j \in files', rows'[j] = "none"
        PROVE  \E v \in Writers : writer'[v].ledger[j] \in {"created", "createdBack"}
    <3>1. CASE j \in files /\ rows[j] = "none"
      <4>1. PICK v \in Writers : writer[v].ledger[j] \in {"created", "createdBack"}
        BY <2>2, <3>1 DEF IInv, Traced, FileTraced
      <4>2. writer'[v].ledger[j] \in {"created", "createdBack"}
        BY <1>0, <1>4, <1>5, <1>6, <1>q, Members, <2>2, <3>1, <4>1 DEF IInv, SameWriters, SameFs
      <4> QED BY <4>2
    <3>2. CASE ~(j \in files /\ rows[j] = "none")
      BY <1>0, <1>4, <1>5, <1>6, <1>q, Members, <2>2, <3>2 DEF IInv, FileSteps, Justified, SameWriters, SameFs
    <3> QED BY <3>1, <3>2
  <2> QED BY <1>6, <2>1, <2>2 DEF Traced, FileTraced
<1>17. Passing'
  BY <1>0, <1>4, <1>5, <1>6, <1>q, Members DEF IInv, Passing, InTxn, SameWriters, SameFs, Exclusion, Ledgers
<1> QED BY <1>7, <1>8, <1>9, <1>10, <1>11, <1>12, <1>13, <1>14, <1>15, <1>16, <1>17 DEF IInv

LEMMA RollbackIInv ==
    ASSUME StorageAssumption, IInv, NEW w \in Writers, Rollback(w) PROVE IInv'
<1>0. WriterTyped /\ FsTyped /\ NamesTyped /\ KeeperTyped /\ IsWriter(writer[w]) /\ IsLedger(writer[w].ledger)
  BY DEF IInv, Typed, WriterTyped, IsWriter
<1>4. /\ WriterTyped' /\ SameWriters(w)
      /\ writer'[w].pc = "settling" /\ writer'[w].op = writer[w].op /\ writer'[w].keys = {}
      /\ \A j \in Keys :
            /\ j \in writer'[w].todo <=> writer'[w].ledger[j] # "none"
            /\ \/ writer'[w].ledger[j] = writer[w].ledger[j] /\ writer[w].ledger[j] \notin {"created", "staged"}
               \/ writer[w].ledger[j] = "created" /\ writer'[w].ledger[j] \in {"createdBack"}
               \/ writer[w].ledger[j] = "staged" /\ writer'[w].ledger[j] \in {"stagedBack"}
  BY <1>0, MarkedBack, TxnEnds DEF Rollback
<1>5. FsTyped' /\ fs' = fs
  BY <1>0 DEF Rollback, FsTyped, Free
<1>6. /\ InTxn(w) /\ fs[w].step = "none"
      /\ UNCHANGED <<rows, used, files, trash, journals, keeper>>
      /\ mishaps' = mishaps
  BY <1>0 DEF Rollback, FsTyped, Processes
<1>7. Typed'
  <2>1. NamesTyped'
    BY <1>0, <1>6 DEF NamesTyped
  <2>2. KeeperTyped'
    BY <1>0, <1>6 DEF KeeperTyped, KeeperFields
  <2> QED BY <1>4, <1>5, <2>1, <2>2 DEF Typed
<1>8. Exclusion'
  BY <1>0, <1>4, <1>5, <1>6, Members DEF IInv, Exclusion, InTxn, SameWriters, SameFs
<1>9. KnownKeys'
  BY <1>0, <1>4, <1>5, <1>6, Members DEF IInv, KnownKeys, SameWriters, SameFs
<1>10. Uploads'
  <2> SUFFICES ASSUME NEW v \in Writers, writer'[v].pc \in {"open", "failed"}, writer'[v].op = "upload",
                      NEW j \in writer'[v].keys
               PROVE  Owned(v, j)'
    BY DEF Uploads, InTxn
  <2>0. j \in Keys
    BY <1>4 DEF WriterTyped, IsWriter
  <2>1. CASE v = w
    BY <1>0, <1>4, <1>5, <1>6, Members, <2>0, <2>1 DEF IInv, Uploads, Owned, InTxn, SameWriters, SameFs
  <2>2. CASE v # w
    BY <1>0, <1>4, <1>5, <1>6, Members, <2>0, <2>2 DEF IInv, Uploads, Owned, InTxn, SameWriters, SameFs
  <2> QED BY <2>1, <2>2
<1>11. Deletes'
  BY <1>0, <1>4, <1>5, <1>6, Members DEF IInv, Deletes, InTxn, SameWriters, SameFs
<1>12. Ledgers'
  BY <1>0, <1>4, <1>5, <1>6, Members DEF IInv, Ledgers, InTxn, NoLedger, SameWriters, SameFs
<1>13. FileSteps'
  <2> SUFFICES ASSUME NEW b \in Processes PROVE Justified(b)'
    BY DEF FileSteps
  <2>1. CASE b = w
    BY <1>0, <1>4, <1>5, <1>6, Members, <2>1 DEF IInv, FileSteps, Justified, SameWriters, SameFs
  <2>2. CASE b # w
    BY <1>0, <1>4, <1>5, <1>6, Members, <2>2 DEF IInv, FileSteps, Justified, SameWriters, SameFs
  <2> QED BY <2>1, <2>2
<1>14. Journaled'
  BY <1>0, <1>4, <1>5, <1>6, Members DEF IInv, Journaled, SameWriters, SameFs
<1>15. BytesKept'
  <2> SUFFICES ASSUME NEW j \in Keys, rows'[j] = "live"
               PROVE  j \in files' \/ \E v \in Writers : Solid(v, j)'
    BY DEF BytesKept, LiveKeys
  <2>1. CASE rows[j] = "live" /\ j \in files
    BY <1>0, <1>4, <1>5, <1>6, Members, <2>1 DEF IInv, SameWriters, SameFs, Solid
  <2>2. CASE rows[j] = "live" /\ \E v \in Writers : Solid(v, j)
    <3>1. PICK v \in Writers : Solid(v, j)
      BY <2>2
    <3>2. Solid(v, j)'
      BY <1>0, <1>4, <1>5, <1>6, Members, <3>1 DEF IInv, SameWriters, SameFs, Solid
    <3> QED BY <3>2
  <2>3. rows[j] = "live"
    BY <1>0, <1>4, <1>5, <1>6, Members DEF IInv, SameWriters, SameFs
  <2> QED BY <2>1, <2>2, <2>3 DEF IInv, BytesKept, LiveKeys
<1>16. Traced'
  <2>1. ASSUME mishaps = 0, NEW v \in Writers, NEW j \in Keys PROVE LinkTraced(v, j)'
    <3>1. CASE v = w
      BY <1>0, <1>4, <1>5, <1>6, Members, <2>1, <3>1 DEF IInv, Traced, LinkTraced, FileSteps, Justified, SameWriters, SameFs
    <3>2. CASE v # w
      BY <1>0, <1>4, <1>5, <1>6, Members, <2>1, <3>2 DEF IInv, Traced, LinkTraced, FileSteps, Justified, SameWriters, SameFs
    <3> QED BY <3>1, <3>2
  <2>2. ASSUME mishaps = 0, NEW j \in Keys, j \in files', rows'[j] = "none"
        PROVE  \E v \in Writers : writer'[v].ledger[j] \in {"created", "createdBack"}
    <3>1. CASE j \in files /\ rows[j] = "none"
      <4>1. PICK v \in Writers : writer[v].ledger[j] \in {"created", "createdBack"}
        BY <2>2, <3>1 DEF IInv, Traced, FileTraced
      <4>2. writer'[v].ledger[j] \in {"created", "createdBack"}
        BY <1>0, <1>4, <1>5, <1>6, Members, <2>2, <3>1, <4>1 DEF IInv, SameWriters, SameFs
      <4> QED BY <4>2
    <3>2. CASE ~(j \in files /\ rows[j] = "none")
      BY <1>0, <1>4, <1>5, <1>6, Members, <2>2, <3>2 DEF IInv, FileSteps, Justified, SameWriters, SameFs
    <3> QED BY <3>1, <3>2
  <2> QED BY <1>6, <2>1, <2>2 DEF Traced, FileTraced
<1>17. Passing'
  BY <1>0, <1>4, <1>5, <1>6, Members DEF IInv, Passing, InTxn, SameWriters, SameFs, Exclusion, Ledgers
<1> QED BY <1>7, <1>8, <1>9, <1>10, <1>11, <1>12, <1>13, <1>14, <1>15, <1>16, <1>17 DEF IInv

LEMMA CheckIInv ==
    ASSUME StorageAssumption, IInv, NEW w \in Writers, NEW k \in Keys, Check(w, k) PROVE IInv'
<1>0. WriterTyped /\ FsTyped /\ NamesTyped /\ KeeperTyped /\ IsWriter(writer[w]) /\ IsLedger(writer[w].ledger)
  BY DEF IInv, Typed, WriterTyped, IsWriter
<1> DEFINE st == writer[w].ledger[k]
           now == IF st = "createdBack" /\ rows[k] = "live" THEN "none" ELSE st
           r == [writer[w] EXCEPT !.todo = writer[w].todo \ {k}, !.ledger = [writer[w].ledger EXCEPT ![k] = now]]
<1>a. writer' = [writer EXCEPT ![w] = r]
  BY <1>0 DEF Check, WriterTyped, IsWriter, WriterFields
<1>s. st \in LedgerStates /\ (now = st \/ (st = "createdBack" /\ rows[k] = "live" /\ now = "none"))
  <2>1. st \in LedgerStates
    BY <1>0 DEF IsLedger
  <2>2. CASE st = "createdBack" /\ rows[k] = "live"
    BY <2>1, <2>2
  <2>3. CASE ~(st = "createdBack" /\ rows[k] = "live")
    BY <2>1, <2>3
  <2> QED BY <2>2, <2>3
<1> HIDE DEF st, now
<1>b. /\ r = [f \in WriterFields |-> r[f]]
      /\ r.pc = writer[w].pc /\ r.op = writer[w].op /\ r.todo = writer[w].todo \ {k}
      /\ r.keys = writer[w].keys /\ r.ledger = [writer[w].ledger EXCEPT ![k] = now]
  BY <1>0 DEF IsWriter, WriterFields
<1> HIDE DEF r
<1>c. IsWriter(r)
  BY <1>0, <1>s, <1>b DEF IsWriter, IsLedger, LedgerStates
<1>d. r.ledger[k] = now /\ \A j \in Keys \ {k} : r.ledger[j] = writer[w].ledger[j]
  BY <1>0, <1>b DEF IsWriter, IsLedger
<1>e. st = writer[w].ledger[k]
  BY DEF st
<1>4. /\ WriterTyped' /\ SameWriters(w)
      /\ writer'[w].pc = writer[w].pc /\ writer'[w].op = writer[w].op
      /\ writer'[w].todo = writer[w].todo \ {k} /\ writer'[w].keys = writer[w].keys
      /\ \/ writer'[w].ledger[k] = writer[w].ledger[k]
         \/ /\ writer[w].ledger[k] = "createdBack" /\ rows[k] = "live"
            /\ writer'[w].ledger[k] = "none"
      /\ \A j \in Keys \ {k} : writer'[w].ledger[j] = writer[w].ledger[j]
  BY <1>0, <1>a, <1>b, <1>c, <1>d, <1>e, <1>s, WriterMoves
<1>f. /\ writer[w].pc = "settling" /\ fs[w].step = "none" /\ k \in writer[w].todo
      /\ writer[w].ledger[k] \in {"createdBack", "stagedBack", "stagedDurable"}
      /\ writer[w].ledger[k] = "stagedBack" => rows[k] # "none"
      /\ writer[w].ledger[k] = "stagedDurable" => rows[k] = "deleted"
      /\ rows[k] \in {"none", "live", "deleted"} /\ k \in used
  <2>1. writer[w].pc = "settling" /\ fs[w].step = "none" /\ k \in writer[w].todo
    BY <1>0, Members DEF Check, FsTyped
  <2>2. writer[w].ledger[k] # "none" /\ ~InTxn(w)
    BY <2>1 DEF IInv, Ledgers, InTxn
  <2>3. writer[w].ledger[k] \in LedgerStates /\ writer[w].ledger[k] \notin {"created", "staged"}
    BY <1>0, <2>2 DEF IInv, Ledgers, IsLedger
  <2> QED BY <1>0, <2>1, <2>2, <2>3 DEF IInv, Ledgers, KnownKeys, NamesTyped, LedgerStates
<1>5. /\ FsTyped' /\ SameFs(w)
      /\ \/ fs'[w].step = "none"
         \/ /\ fs'[w].step \in {"remove", "restore", "purge"}
            /\ fs'[w].ref = <<w, k>> /\ fs'[w].ref[1] = w /\ fs'[w].ref[2] = k
            /\ fs'[w].step = "remove" => rows[k] # "live" /\ writer[w].ledger[k] = "createdBack"
            /\ fs'[w].step = "restore" => rows[k] = "live"
            /\ fs'[w].step = "purge" => rows[k] = "deleted"
  <2>0. <<w, k>> \in Refs /\ <<w, k>>[1] = w /\ <<w, k>>[2] = k
    BY DEF Refs
  <2>1. CASE fs' = fs
    BY <1>0, <1>f, <2>1 DEF FsTyped, SameFs, Free
  <2>2. CASE Does(w, "remove", <<w, k>>) /\ rows[k] # "live" /\ writer[w].ledger[k] = "createdBack"
    BY <1>0, <2>0, <2>2, Members, DoesMoves DEF Steps
  <2>3. CASE Does(w, "restore", <<w, k>>) /\ rows[k] = "live"
    BY <1>0, <2>0, <2>3, Members, DoesMoves DEF Steps
  <2>4. CASE Does(w, "purge", <<w, k>>) /\ rows[k] = "deleted"
    BY <1>0, <2>0, <2>4, Members, DoesMoves DEF Steps
  <2> QED BY <1>f, <2>1, <2>2, <2>3, <2>4 DEF Check
<1>6. /\ writer[w].pc = "settling" /\ fs[w].step = "none" /\ k \in writer[w].todo /\ k \in used
      /\ writer[w].ledger[k] # "none"
      /\ UNCHANGED <<rows, used, files, trash, journals, keeper>>
      /\ mishaps' = mishaps
  BY <1>0, <1>f DEF Check
<1>7. Typed'
  <2>1. NamesTyped'
    BY <1>0, <1>6 DEF NamesTyped
  <2>2. KeeperTyped'
    BY <1>0, <1>6 DEF KeeperTyped, KeeperFields
  <2> QED BY <1>4, <1>5, <2>1, <2>2 DEF Typed
<1>8. Exclusion'
  BY <1>0, <1>4, <1>5, <1>6, Members DEF IInv, Exclusion, InTxn, SameWriters, SameFs
<1>9. KnownKeys'
  BY <1>0, <1>4, <1>5, <1>6, Members DEF IInv, KnownKeys, SameWriters, SameFs
<1>10. Uploads'
  <2> SUFFICES ASSUME NEW v \in Writers, writer'[v].pc \in {"open", "failed"}, writer'[v].op = "upload",
                      NEW j \in writer'[v].keys
               PROVE  Owned(v, j)'
    BY DEF Uploads, InTxn
  <2>0. j \in Keys
    BY <1>4 DEF WriterTyped, IsWriter
  <2>1. CASE v = w
    BY <1>0, <1>4, <1>5, <1>6, Members, <2>0, <2>1 DEF IInv, Uploads, Owned, InTxn, SameWriters, SameFs
  <2>2. CASE v # w
    BY <1>0, <1>4, <1>5, <1>6, Members, <2>0, <2>2 DEF IInv, Uploads, Owned, InTxn, SameWriters, SameFs
  <2> QED BY <2>1, <2>2
<1>11. Deletes'
  BY <1>0, <1>4, <1>5, <1>6, Members DEF IInv, Deletes, InTxn, SameWriters, SameFs
<1>12. Ledgers'
  BY <1>0, <1>4, <1>5, <1>6, Members DEF IInv, Ledgers, InTxn, NoLedger, SameWriters, SameFs
<1>13. FileSteps'
  <2> SUFFICES ASSUME NEW b \in Processes PROVE Justified(b)'
    BY DEF FileSteps
  <2>1. CASE b = w
    BY <1>0, <1>4, <1>5, <1>6, Members, <2>1 DEF IInv, FileSteps, Justified, SameWriters, SameFs
  <2>2. CASE b # w
    BY <1>0, <1>4, <1>5, <1>6, Members, <2>2 DEF IInv, FileSteps, Justified, SameWriters, SameFs
  <2> QED BY <2>1, <2>2
<1>14. Journaled'
  BY <1>0, <1>4, <1>5, <1>6, Members DEF IInv, Journaled, SameWriters, SameFs
<1>15. BytesKept'
  <2> SUFFICES ASSUME NEW j \in Keys, rows'[j] = "live"
               PROVE  j \in files' \/ \E v \in Writers : Solid(v, j)'
    BY DEF BytesKept, LiveKeys
  <2>1. CASE rows[j] = "live" /\ j \in files
    BY <1>0, <1>4, <1>5, <1>6, Members, <2>1 DEF IInv, SameWriters, SameFs, Solid
  <2>2. CASE rows[j] = "live" /\ \E v \in Writers : Solid(v, j)
    <3>1. PICK v \in Writers : Solid(v, j)
      BY <2>2
    <3>2. Solid(v, j)'
      BY <1>0, <1>4, <1>5, <1>6, Members, <3>1 DEF IInv, SameWriters, SameFs, Solid
    <3> QED BY <3>2
  <2>3. rows[j] = "live"
    BY <1>0, <1>4, <1>5, <1>6, Members DEF IInv, SameWriters, SameFs
  <2> QED BY <2>1, <2>2, <2>3 DEF IInv, BytesKept, LiveKeys
<1>16. Traced'
  <2>1. ASSUME mishaps = 0, NEW v \in Writers, NEW j \in Keys PROVE LinkTraced(v, j)'
    <3>1. CASE v = w
      BY <1>0, <1>4, <1>5, <1>6, Members, <2>1, <3>1 DEF IInv, Traced, LinkTraced, FileSteps, Justified, SameWriters, SameFs
    <3>2. CASE v # w
      BY <1>0, <1>4, <1>5, <1>6, Members, <2>1, <3>2 DEF IInv, Traced, LinkTraced, FileSteps, Justified, SameWriters, SameFs
    <3> QED BY <3>1, <3>2
  <2>2. ASSUME mishaps = 0, NEW j \in Keys, j \in files', rows'[j] = "none"
        PROVE  \E v \in Writers : writer'[v].ledger[j] \in {"created", "createdBack"}
    <3>1. CASE j \in files /\ rows[j] = "none"
      <4>1. PICK v \in Writers : writer[v].ledger[j] \in {"created", "createdBack"}
        BY <2>2, <3>1 DEF IInv, Traced, FileTraced
      <4>2. writer'[v].ledger[j] \in {"created", "createdBack"}
        BY <1>0, <1>4, <1>5, <1>6, Members, <2>2, <3>1, <4>1 DEF IInv, SameWriters, SameFs
      <4> QED BY <4>2
    <3>2. CASE ~(j \in files /\ rows[j] = "none")
      BY <1>0, <1>4, <1>5, <1>6, Members, <2>2, <3>2 DEF IInv, FileSteps, Justified, SameWriters, SameFs
    <3> QED BY <3>1, <3>2
  <2> QED BY <1>6, <2>1, <2>2 DEF Traced, FileTraced
<1>17. Passing'
  BY <1>0, <1>4, <1>5, <1>6, Members DEF IInv, Passing, InTxn, SameWriters, SameFs, Exclusion, Ledgers
<1> QED BY <1>7, <1>8, <1>9, <1>10, <1>11, <1>12, <1>13, <1>14, <1>15, <1>16, <1>17 DEF IInv

LEMMA FinishIInv ==
    ASSUME StorageAssumption, IInv, NEW w \in Writers, Finish(w) PROVE IInv'
<1> DEFINE r == [writer[w] EXCEPT !.pc = "done"]
<1>0. WriterTyped /\ FsTyped /\ NamesTyped /\ KeeperTyped /\ IsWriter(writer[w])
  BY DEF IInv, Typed, WriterTyped
<1>1. writer' = [writer EXCEPT ![w] = r]
  BY DEF Finish
<1>2. /\ r = [f \in WriterFields |-> r[f]]
      /\ r.pc = "done"
      /\ r.op = writer[w].op
      /\ r.todo = writer[w].todo
      /\ r.keys = writer[w].keys
      /\ r.ledger = writer[w].ledger
  BY <1>0 DEF IsWriter, WriterFields
<1> HIDE DEF r
<1>3. IsWriter(r)
  BY <1>0, <1>2 DEF IsWriter, IsLedger, LedgerStates, LiveKeys, NoLedger
<1>4. /\ WriterTyped' /\ SameWriters(w)
      /\ writer'[w].pc = "done"
      /\ writer'[w].op = writer[w].op
      /\ writer'[w].todo = writer[w].todo
      /\ writer'[w].keys = writer[w].keys
      /\ writer'[w].ledger = writer[w].ledger
  BY <1>0, <1>1, <1>2, <1>3, WriterMoves
<1>5. FsTyped' /\ fs' = fs
  BY <1>0 DEF Finish, FsTyped, Free
<1>6. /\ writer[w].pc = "settling" /\ fs[w].step = "none"
      /\ UNCHANGED <<rows, used, files, trash, journals, keeper>>
      /\ mishaps' = mishaps
  BY <1>0 DEF Finish, FsTyped, Processes
<1>7. Typed'
  <2>1. NamesTyped'
    BY <1>0, <1>6 DEF NamesTyped
  <2>2. KeeperTyped'
    BY <1>0, <1>6 DEF KeeperTyped, KeeperFields
  <2> QED BY <1>4, <1>5, <2>1, <2>2 DEF Typed
<1>8. Exclusion'
  BY <1>0, <1>4, <1>5, <1>6, Members DEF IInv, Exclusion, InTxn, SameWriters, SameFs
<1>9. KnownKeys'
  BY <1>0, <1>4, <1>5, <1>6, Members DEF IInv, KnownKeys, SameWriters, SameFs
<1>10. Uploads'
  <2> SUFFICES ASSUME NEW v \in Writers, writer'[v].pc \in {"open", "failed"}, writer'[v].op = "upload",
                      NEW j \in writer'[v].keys
               PROVE  Owned(v, j)'
    BY DEF Uploads, InTxn
  <2>0. j \in Keys
    BY <1>4 DEF WriterTyped, IsWriter
  <2>1. CASE v = w
    BY <1>0, <1>4, <1>5, <1>6, Members, <2>0, <2>1 DEF IInv, Uploads, Owned, InTxn, SameWriters, SameFs
  <2>2. CASE v # w
    BY <1>0, <1>4, <1>5, <1>6, Members, <2>0, <2>2 DEF IInv, Uploads, Owned, InTxn, SameWriters, SameFs
  <2> QED BY <2>1, <2>2
<1>11. Deletes'
  BY <1>0, <1>4, <1>5, <1>6, Members DEF IInv, Deletes, InTxn, SameWriters, SameFs
<1>12. Ledgers'
  BY <1>0, <1>4, <1>5, <1>6, Members DEF IInv, Ledgers, InTxn, NoLedger, SameWriters, SameFs
<1>13. FileSteps'
  <2> SUFFICES ASSUME NEW b \in Processes PROVE Justified(b)'
    BY DEF FileSteps
  <2>1. CASE b = w
    BY <1>0, <1>4, <1>5, <1>6, Members, <2>1 DEF IInv, FileSteps, Justified, SameWriters, SameFs
  <2>2. CASE b # w
    BY <1>0, <1>4, <1>5, <1>6, Members, <2>2 DEF IInv, FileSteps, Justified, SameWriters, SameFs
  <2> QED BY <2>1, <2>2
<1>14. Journaled'
  BY <1>0, <1>4, <1>5, <1>6, Members DEF IInv, Journaled, SameWriters, SameFs
<1>15. BytesKept'
  <2> SUFFICES ASSUME NEW j \in Keys, rows'[j] = "live"
               PROVE  j \in files' \/ \E v \in Writers : Solid(v, j)'
    BY DEF BytesKept, LiveKeys
  <2>1. CASE rows[j] = "live" /\ j \in files
    BY <1>0, <1>4, <1>5, <1>6, Members, <2>1 DEF IInv, SameWriters, SameFs, Solid
  <2>2. CASE rows[j] = "live" /\ \E v \in Writers : Solid(v, j)
    <3>1. PICK v \in Writers : Solid(v, j)
      BY <2>2
    <3>2. Solid(v, j)'
      BY <1>0, <1>4, <1>5, <1>6, Members, <3>1 DEF IInv, SameWriters, SameFs, Solid
    <3> QED BY <3>2
  <2>3. rows[j] = "live"
    BY <1>0, <1>4, <1>5, <1>6, Members DEF IInv, SameWriters, SameFs
  <2> QED BY <2>1, <2>2, <2>3 DEF IInv, BytesKept, LiveKeys
<1>16. Traced'
  <2>1. ASSUME mishaps = 0, NEW v \in Writers, NEW j \in Keys PROVE LinkTraced(v, j)'
    <3>1. CASE v = w
      BY <1>0, <1>4, <1>5, <1>6, Members, <2>1, <3>1 DEF IInv, Traced, LinkTraced, FileSteps, Justified, SameWriters, SameFs
    <3>2. CASE v # w
      BY <1>0, <1>4, <1>5, <1>6, Members, <2>1, <3>2 DEF IInv, Traced, LinkTraced, FileSteps, Justified, SameWriters, SameFs
    <3> QED BY <3>1, <3>2
  <2>2. ASSUME mishaps = 0, NEW j \in Keys, j \in files', rows'[j] = "none"
        PROVE  \E v \in Writers : writer'[v].ledger[j] \in {"created", "createdBack"}
    <3>1. CASE j \in files /\ rows[j] = "none"
      <4>1. PICK v \in Writers : writer[v].ledger[j] \in {"created", "createdBack"}
        BY <2>2, <3>1 DEF IInv, Traced, FileTraced
      <4>2. writer'[v].ledger[j] \in {"created", "createdBack"}
        BY <1>0, <1>4, <1>5, <1>6, Members, <2>2, <3>1, <4>1 DEF IInv, SameWriters, SameFs
      <4> QED BY <4>2
    <3>2. CASE ~(j \in files /\ rows[j] = "none")
      BY <1>0, <1>4, <1>5, <1>6, Members, <2>2, <3>2 DEF IInv, FileSteps, Justified, SameWriters, SameFs
    <3> QED BY <3>1, <3>2
  <2> QED BY <1>6, <2>1, <2>2 DEF Traced, FileTraced
<1>17. Passing'
  BY <1>0, <1>4, <1>5, <1>6, Members DEF IInv, Passing, InTxn, SameWriters, SameFs, Exclusion, Ledgers
<1> QED BY <1>7, <1>8, <1>9, <1>10, <1>11, <1>12, <1>13, <1>14, <1>15, <1>16, <1>17 DEF IInv

LEMMA SettleLeftoversIInv ==
    ASSUME StorageAssumption, IInv, NEW w \in Writers, SettleLeftovers(w) PROVE IInv'
<1> DEFINE r == [writer[w] EXCEPT !.pc = "settling", !.todo = Unsettled(writer[w].ledger)]
<1>0. WriterTyped /\ FsTyped /\ NamesTyped /\ KeeperTyped /\ IsWriter(writer[w])
  BY DEF IInv, Typed, WriterTyped
<1>1. writer' = [writer EXCEPT ![w] = r]
  BY DEF SettleLeftovers
<1>2. /\ r = [f \in WriterFields |-> r[f]]
      /\ r.pc = "settling"
      /\ r.op = writer[w].op
      /\ r.todo = Unsettled(writer[w].ledger)
      /\ r.keys = writer[w].keys
      /\ r.ledger = writer[w].ledger
  BY <1>0 DEF IsWriter, WriterFields
<1> HIDE DEF r
<1>3. IsWriter(r)
  BY <1>0, <1>2 DEF IsWriter, IsLedger, LedgerStates, Unsettled
<1>4. /\ WriterTyped' /\ SameWriters(w)
      /\ writer'[w].pc = "settling"
      /\ writer'[w].op = writer[w].op
      /\ writer'[w].todo = Unsettled(writer[w].ledger)
      /\ writer'[w].keys = writer[w].keys
      /\ writer'[w].ledger = writer[w].ledger
  BY <1>0, <1>1, <1>2, <1>3, WriterMoves
<1>5. FsTyped' /\ fs' = fs
  BY <1>0 DEF SettleLeftovers, FsTyped, Free
<1>6. /\ writer[w].pc = "done"
      /\ keeper'.pc = keeper.pc /\ KeeperTyped' /\ ~keeper'.alone
      /\ \A j \in Unsettled(writer[w].ledger) : writer[w].ledger[j] # "none"
      /\ UNCHANGED <<rows, used, files, trash, journals>>
      /\ mishaps' = mishaps
  BY <1>0 DEF SettleLeftovers, KeeperTyped, KeeperFields, Unsettled
<1>7. Typed'
  <2>1. NamesTyped'
    BY <1>0, <1>6 DEF NamesTyped
  <2>2. KeeperTyped'
    BY <1>6
  <2> QED BY <1>4, <1>5, <2>1, <2>2 DEF Typed
<1>8. Exclusion'
  BY <1>0, <1>4, <1>5, <1>6, Members DEF IInv, Exclusion, InTxn, SameWriters, SameFs
<1>9. KnownKeys'
  BY <1>0, <1>4, <1>5, <1>6, Members DEF IInv, KnownKeys, SameWriters, SameFs
<1>10. Uploads'
  <2> SUFFICES ASSUME NEW v \in Writers, writer'[v].pc \in {"open", "failed"}, writer'[v].op = "upload",
                      NEW j \in writer'[v].keys
               PROVE  Owned(v, j)'
    BY DEF Uploads, InTxn
  <2>0. j \in Keys
    BY <1>4 DEF WriterTyped, IsWriter
  <2>1. CASE v = w
    BY <1>0, <1>4, <1>5, <1>6, Members, <2>0, <2>1 DEF IInv, Uploads, Owned, InTxn, SameWriters, SameFs
  <2>2. CASE v # w
    BY <1>0, <1>4, <1>5, <1>6, Members, <2>0, <2>2 DEF IInv, Uploads, Owned, InTxn, SameWriters, SameFs
  <2> QED BY <2>1, <2>2
<1>11. Deletes'
  BY <1>0, <1>4, <1>5, <1>6, Members DEF IInv, Deletes, InTxn, SameWriters, SameFs
<1>12. Ledgers'
  BY <1>0, <1>4, <1>5, <1>6, Members DEF IInv, Ledgers, InTxn, NoLedger, SameWriters, SameFs
<1>13. FileSteps'
  <2> SUFFICES ASSUME NEW b \in Processes PROVE Justified(b)'
    BY DEF FileSteps
  <2>1. CASE b = w
    BY <1>0, <1>4, <1>5, <1>6, Members, <2>1 DEF IInv, FileSteps, Justified, SameWriters, SameFs
  <2>2. CASE b # w
    BY <1>0, <1>4, <1>5, <1>6, Members, <2>2 DEF IInv, FileSteps, Justified, SameWriters, SameFs
  <2> QED BY <2>1, <2>2
<1>14. Journaled'
  BY <1>0, <1>4, <1>5, <1>6, Members DEF IInv, Journaled, SameWriters, SameFs
<1>15. BytesKept'
  <2> SUFFICES ASSUME NEW j \in Keys, rows'[j] = "live"
               PROVE  j \in files' \/ \E v \in Writers : Solid(v, j)'
    BY DEF BytesKept, LiveKeys
  <2>1. CASE rows[j] = "live" /\ j \in files
    BY <1>0, <1>4, <1>5, <1>6, Members, <2>1 DEF IInv, SameWriters, SameFs, Solid
  <2>2. CASE rows[j] = "live" /\ \E v \in Writers : Solid(v, j)
    <3>1. PICK v \in Writers : Solid(v, j)
      BY <2>2
    <3>2. Solid(v, j)'
      BY <1>0, <1>4, <1>5, <1>6, Members, <3>1 DEF IInv, SameWriters, SameFs, Solid
    <3> QED BY <3>2
  <2>3. rows[j] = "live"
    BY <1>0, <1>4, <1>5, <1>6, Members DEF IInv, SameWriters, SameFs
  <2> QED BY <2>1, <2>2, <2>3 DEF IInv, BytesKept, LiveKeys
<1>16. Traced'
  <2>1. ASSUME mishaps = 0, NEW v \in Writers, NEW j \in Keys PROVE LinkTraced(v, j)'
    <3>1. CASE v = w
      BY <1>0, <1>4, <1>5, <1>6, Members, <2>1, <3>1 DEF IInv, Traced, LinkTraced, FileSteps, Justified, SameWriters, SameFs
    <3>2. CASE v # w
      BY <1>0, <1>4, <1>5, <1>6, Members, <2>1, <3>2 DEF IInv, Traced, LinkTraced, FileSteps, Justified, SameWriters, SameFs
    <3> QED BY <3>1, <3>2
  <2>2. ASSUME mishaps = 0, NEW j \in Keys, j \in files', rows'[j] = "none"
        PROVE  \E v \in Writers : writer'[v].ledger[j] \in {"created", "createdBack"}
    <3>1. CASE j \in files /\ rows[j] = "none"
      <4>1. PICK v \in Writers : writer[v].ledger[j] \in {"created", "createdBack"}
        BY <2>2, <3>1 DEF IInv, Traced, FileTraced
      <4>2. writer'[v].ledger[j] \in {"created", "createdBack"}
        BY <1>0, <1>4, <1>5, <1>6, Members, <2>2, <3>1, <4>1 DEF IInv, SameWriters, SameFs
      <4> QED BY <4>2
    <3>2. CASE ~(j \in files /\ rows[j] = "none")
      BY <1>0, <1>4, <1>5, <1>6, Members, <2>2, <3>2 DEF IInv, FileSteps, Justified, SameWriters, SameFs
    <3> QED BY <3>1, <3>2
  <2> QED BY <1>6, <2>1, <2>2 DEF Traced, FileTraced
<1>17. Passing'
  BY <1>0, <1>4, <1>5, <1>6, Members DEF IInv, Passing, InTxn, SameWriters, SameFs, Exclusion, Ledgers
<1> QED BY <1>7, <1>8, <1>9, <1>10, <1>11, <1>12, <1>13, <1>14, <1>15, <1>16, <1>17 DEF IInv

LEMMA RemoveFileIInv ==
    ASSUME StorageAssumption, IInv, NEW a \in Processes, RemoveFile(a) PROVE IInv'
<1>0. WriterTyped /\ FsTyped /\ NamesTyped /\ KeeperTyped
  BY DEF IInv, Typed, WriterTyped
<1>1. fs[a].step = "remove"
  BY DEF RemoveFile
<1>2. PICK u \in Writers, k \in Keys : fs[a].ref = <<u, k>>
  BY <1>0, <1>1, Members DEF FsTyped, Refs
<1>3. fs[a].ref[1] = u /\ fs[a].ref[2] = k /\ <<u, k>> \in Refs
  BY <1>2 DEF Refs
<1>a. Resolved(a, k)
  BY <1>2, <1>3 DEF RemoveFile
<1>4. /\ WriterTyped' /\ SameWriters(a)
      /\ a \in Writers =>
            /\ writer'[a].ledger[k] = "none"
            /\ \A j \in Keys \ {k} : writer'[a].ledger[j] = writer[a].ledger[j]
            /\ writer'[a].pc = writer[a].pc /\ writer'[a].op = writer[a].op
            /\ writer'[a].todo = writer[a].todo /\ writer'[a].keys = writer[a].keys
  BY <1>0, <1>a, LedgerClears
<1>5. FsTyped' /\ SameFs(a) /\ fs'[a].step = "none"
  BY <1>0, RestsMoves DEF RemoveFile
<1>6. /\ fs[a].step = "remove" /\ fs[a].ref = <<u, k>> /\ fs[a].ref[2] = k
      /\ files' = files \ {k}
      /\ UNCHANGED <<rows, used, trash, journals, keeper>>
      /\ mishaps' = mishaps
  BY <1>0, <1>1, <1>2, <1>3 DEF RemoveFile
<1>p. rows[k] # "live" /\ a # Keeper /\ \A b \in Processes : fs[b].step = "linked" => fs[b].ref[2] # k
  BY <1>1, <1>3, Members DEF IInv, FileSteps, Justified, Deletes, InTxn
<1>q. a \in Writers => writer[a].pc # "idle" /\ (writer[a].pc = "settling" => k \notin writer[a].todo)
  BY <1>1, <1>3 DEF IInv, Ledgers, InTxn
<1>7. Typed'
  <2>1. NamesTyped'
    BY <1>0, <1>6 DEF NamesTyped
  <2>2. KeeperTyped'
    BY <1>0, <1>6 DEF KeeperTyped, KeeperFields
  <2> QED BY <1>4, <1>5, <2>1, <2>2 DEF Typed
<1>8. Exclusion'
  BY <1>0, <1>4, <1>5, <1>6, <1>p, <1>q, Members DEF IInv, Exclusion, InTxn, SameWriters, SameFs
<1>9. KnownKeys'
  BY <1>0, <1>4, <1>5, <1>6, <1>p, <1>q, Members DEF IInv, KnownKeys, SameWriters, SameFs
<1>10. Uploads'
  <2> SUFFICES ASSUME NEW v \in Writers, writer'[v].pc \in {"open", "failed"}, writer'[v].op = "upload",
                      NEW j \in writer'[v].keys
               PROVE  Owned(v, j)'
    BY DEF Uploads, InTxn
  <2>0. j \in Keys
    BY <1>4 DEF WriterTyped, IsWriter
  <2> QED BY <1>0, <1>4, <1>5, <1>6, <1>p, <1>q, Members, <2>0 DEF IInv, Uploads, Owned, InTxn, SameWriters, SameFs
<1>11. Deletes'
  BY <1>0, <1>4, <1>5, <1>6, <1>p, <1>q, Members DEF IInv, Deletes, InTxn, SameWriters, SameFs
<1>12. Ledgers'
  BY <1>0, <1>4, <1>5, <1>6, <1>p, <1>q, Members DEF IInv, Ledgers, InTxn, NoLedger, SameWriters, SameFs
<1>13. FileSteps'
  <2> SUFFICES ASSUME NEW b \in Processes PROVE Justified(b)'
    BY DEF FileSteps
  <2>1. CASE b = a
    BY <1>0, <1>4, <1>5, <1>6, <1>p, <1>q, Members, <2>1 DEF IInv, FileSteps, Justified, SameWriters, SameFs
  <2>2. CASE b # a
    BY <1>0, <1>4, <1>5, <1>6, <1>p, <1>q, Members, <2>2 DEF IInv, FileSteps, Justified, SameWriters, SameFs
  <2> QED BY <2>1, <2>2
<1>14. Journaled'
  BY <1>0, <1>4, <1>5, <1>6, <1>p, <1>q, Members DEF IInv, Journaled, SameWriters, SameFs
<1>15. BytesKept'
  <2> SUFFICES ASSUME NEW j \in Keys, rows'[j] = "live"
               PROVE  j \in files' \/ \E v \in Writers : Solid(v, j)'
    BY DEF BytesKept, LiveKeys
  <2>1. CASE rows[j] = "live" /\ j \in files
    BY <1>0, <1>4, <1>5, <1>6, <1>p, <1>q, Members, <2>1 DEF IInv, SameWriters, SameFs, Solid
  <2>2. CASE rows[j] = "live" /\ \E v \in Writers : Solid(v, j)
    <3>1. PICK v \in Writers : Solid(v, j)
      BY <2>2
    <3>2. Solid(v, j)'
      BY <1>0, <1>4, <1>5, <1>6, <1>p, <1>q, Members, <3>1 DEF IInv, SameWriters, SameFs, Solid
    <3> QED BY <3>2
  <2>3. rows[j] = "live"
    BY <1>0, <1>4, <1>5, <1>6, <1>p, <1>q, Members DEF IInv, SameWriters, SameFs
  <2> QED BY <2>1, <2>2, <2>3 DEF IInv, BytesKept, LiveKeys
<1>16. Traced'
  <2>1. ASSUME mishaps = 0, NEW v \in Writers, NEW j \in Keys PROVE LinkTraced(v, j)'
    <3>1. CASE v = a
      BY <1>0, <1>4, <1>5, <1>6, <1>p, <1>q, Members, <2>1, <3>1 DEF IInv, Traced, LinkTraced, FileSteps, Justified, SameWriters, SameFs
    <3>2. CASE v # a
      BY <1>0, <1>4, <1>5, <1>6, <1>p, <1>q, Members, <2>1, <3>2 DEF IInv, Traced, LinkTraced, FileSteps, Justified, SameWriters, SameFs
    <3> QED BY <3>1, <3>2
  <2>2. ASSUME mishaps = 0, NEW j \in Keys, j \in files', rows'[j] = "none"
        PROVE  \E v \in Writers : writer'[v].ledger[j] \in {"created", "createdBack"}
    <3>1. CASE j \in files /\ rows[j] = "none"
      <4>1. PICK v \in Writers : writer[v].ledger[j] \in {"created", "createdBack"}
        BY <2>2, <3>1 DEF IInv, Traced, FileTraced
      <4>2. writer'[v].ledger[j] \in {"created", "createdBack"}
        BY <1>0, <1>4, <1>5, <1>6, <1>p, <1>q, Members, <2>2, <3>1, <4>1 DEF IInv, SameWriters, SameFs
      <4> QED BY <4>2
    <3>2. CASE ~(j \in files /\ rows[j] = "none")
      BY <1>0, <1>4, <1>5, <1>6, <1>p, <1>q, Members, <2>2, <3>2 DEF IInv, FileSteps, Justified, SameWriters, SameFs
    <3> QED BY <3>1, <3>2
  <2> QED BY <1>6, <2>1, <2>2 DEF Traced, FileTraced
<1>17. Passing'
  <2>1. CASE a = Keeper
    BY <1>0, <1>4, <1>5, <1>6, <1>p, <1>q, Members, <2>1 DEF IInv, Passing, InTxn, SameWriters, SameFs
  <2>2. CASE a # Keeper
    <3>1. a \in Writers /\ (fs[a].step # "none" => InTxn(a) \/ writer[a].pc = "settling")
      BY <2>2, Members DEF IInv, Ledgers
    <3> QED BY <1>0, <1>4, <1>5, <1>6, <1>p, <1>q, Members, <2>2, <3>1 DEF IInv, Passing, InTxn, Exclusion, SameWriters, SameFs
  <2> QED BY <2>1, <2>2
<1> QED BY <1>7, <1>8, <1>9, <1>10, <1>11, <1>12, <1>13, <1>14, <1>15, <1>16, <1>17 DEF IInv

LEMMA RestoreLinkIInv ==
    ASSUME StorageAssumption, IInv, NEW a \in Processes, RestoreLink(a) PROVE IInv'
<1>0. WriterTyped /\ FsTyped /\ NamesTyped /\ KeeperTyped
  BY DEF IInv, Typed, WriterTyped
<1>1. fs[a].step = "restore"
  BY DEF RestoreLink
<1>2. PICK u \in Writers, k \in Keys : fs[a].ref = <<u, k>>
  BY <1>0, <1>1, Members DEF FsTyped, Refs
<1>3. fs[a].ref[1] = u /\ fs[a].ref[2] = k /\ <<u, k>> \in Refs
  BY <1>2 DEF Refs
<1>4. WriterTyped' /\ writer' = writer
  BY <1>0 DEF RestoreLink, WriterTyped
<1>5. /\ FsTyped' /\ SameFs(a)
      /\ \/ /\ <<u, k>> \in trash /\ files' = files \cup {k} /\ fs'[a].step = "unlink"
         \/ <<u, k>> \notin trash /\ files' = files /\ fs'[a].step = "drop"
      /\ fs'[a].ref = <<u, k>> /\ fs'[a].ref[1] = u /\ fs'[a].ref[2] = k
  <2>1. CASE <<u, k>> \in trash
    BY <1>0, <1>2, <1>3, <2>1, DoesMoves DEF RestoreLink, Steps
  <2>2. CASE <<u, k>> \notin trash
    BY <1>0, <1>2, <1>3, <2>2, DoesMoves DEF RestoreLink, Steps
  <2> QED BY <2>1, <2>2
<1>6. /\ fs[a].step = "restore" /\ fs[a].ref = <<u, k>> /\ fs[a].ref[1] = u /\ fs[a].ref[2] = k /\ k \in used
      /\ UNCHANGED <<rows, used, trash, journals, keeper>>
      /\ mishaps' = mishaps
  BY <1>0, <1>1, <1>2, <1>3 DEF RestoreLink, IInv, KnownKeys
<1>p. rows[k] # "none"
  BY <1>0, <1>1, <1>2, <1>3 DEF IInv, FileSteps, Justified
<1>7. Typed'
  <2>1. NamesTyped'
    BY <1>0, <1>6, <1>5 DEF NamesTyped
  <2>2. KeeperTyped'
    BY <1>0, <1>6 DEF KeeperTyped, KeeperFields
  <2> QED BY <1>4, <1>5, <2>1, <2>2 DEF Typed
<1>8. Exclusion'
  BY <1>0, <1>4, <1>5, <1>6, <1>p, Members DEF IInv, Exclusion, InTxn, SameWriters, SameFs
<1>9. KnownKeys'
  BY <1>0, <1>4, <1>5, <1>6, <1>p, Members DEF IInv, KnownKeys, SameWriters, SameFs
<1>10. Uploads'
  <2> SUFFICES ASSUME NEW v \in Writers, writer'[v].pc \in {"open", "failed"}, writer'[v].op = "upload",
                      NEW j \in writer'[v].keys
               PROVE  Owned(v, j)'
    BY DEF Uploads, InTxn
  <2>0. j \in Keys
    BY <1>4 DEF WriterTyped, IsWriter
  <2> QED BY <1>0, <1>4, <1>5, <1>6, <1>p, Members, <2>0 DEF IInv, Uploads, Owned, InTxn, SameWriters, SameFs
<1>11. Deletes'
  BY <1>0, <1>4, <1>5, <1>6, <1>p, Members DEF IInv, Deletes, InTxn, SameWriters, SameFs
<1>12. Ledgers'
  BY <1>0, <1>4, <1>5, <1>6, <1>p, Members DEF IInv, Ledgers, InTxn, NoLedger, SameWriters, SameFs
<1>13. FileSteps'
  <2> SUFFICES ASSUME NEW b \in Processes PROVE Justified(b)'
    BY DEF FileSteps
  <2>1. CASE b = a
    BY <1>0, <1>4, <1>5, <1>6, <1>p, Members, <2>1 DEF IInv, FileSteps, Justified, SameWriters, SameFs
  <2>2. CASE b # a
    BY <1>0, <1>4, <1>5, <1>6, <1>p, Members, <2>2 DEF IInv, FileSteps, Justified, SameWriters, SameFs
  <2> QED BY <2>1, <2>2
<1>14. Journaled'
  BY <1>0, <1>4, <1>5, <1>6, <1>p, Members DEF IInv, Journaled, SameWriters, SameFs
<1>15. BytesKept'
  <2> SUFFICES ASSUME NEW j \in Keys, rows'[j] = "live"
               PROVE  j \in files' \/ \E v \in Writers : Solid(v, j)'
    BY DEF BytesKept, LiveKeys
  <2>1. CASE rows[j] = "live" /\ j \in files
    BY <1>0, <1>4, <1>5, <1>6, <1>p, Members, <2>1 DEF IInv, SameWriters, SameFs, Solid
  <2>2. CASE rows[j] = "live" /\ \E v \in Writers : Solid(v, j)
    <3>1. PICK v \in Writers : Solid(v, j)
      BY <2>2
    <3>2. CASE v = u /\ j = k
      BY <1>0, <1>4, <1>5, <1>6, <1>p, Members, <3>1, <3>2 DEF IInv, SameWriters, SameFs, Solid
    <3>3. CASE ~(v = u /\ j = k)
      <4>1. Solid(v, j)'
        BY <1>0, <1>4, <1>5, <1>6, <1>p, Members, <3>1, <3>3 DEF IInv, SameWriters, SameFs, Solid
      <4> QED BY <4>1
    <3> QED BY <3>2, <3>3
  <2>3. rows[j] = "live"
    BY <1>0, <1>4, <1>5, <1>6, <1>p, Members DEF IInv, SameWriters, SameFs
  <2> QED BY <2>1, <2>2, <2>3 DEF IInv, BytesKept, LiveKeys
<1>16. Traced'
  <2>1. ASSUME mishaps = 0, NEW v \in Writers, NEW j \in Keys PROVE LinkTraced(v, j)'
    <3>1. CASE v = a
      BY <1>0, <1>4, <1>5, <1>6, <1>p, Members, <2>1, <3>1 DEF IInv, Traced, LinkTraced, FileSteps, Justified, SameWriters, SameFs
    <3>2. CASE v # a
      BY <1>0, <1>4, <1>5, <1>6, <1>p, Members, <2>1, <3>2 DEF IInv, Traced, LinkTraced, FileSteps, Justified, SameWriters, SameFs
    <3> QED BY <3>1, <3>2
  <2>2. ASSUME mishaps = 0, NEW j \in Keys, j \in files', rows'[j] = "none"
        PROVE  \E v \in Writers : writer'[v].ledger[j] \in {"created", "createdBack"}
    <3>1. CASE j \in files /\ rows[j] = "none"
      <4>1. PICK v \in Writers : writer[v].ledger[j] \in {"created", "createdBack"}
        BY <2>2, <3>1 DEF IInv, Traced, FileTraced
      <4>2. writer'[v].ledger[j] \in {"created", "createdBack"}
        BY <1>0, <1>4, <1>5, <1>6, <1>p, Members, <2>2, <3>1, <4>1 DEF IInv, SameWriters, SameFs
      <4> QED BY <4>2
    <3>2. CASE ~(j \in files /\ rows[j] = "none")
      BY <1>0, <1>4, <1>5, <1>6, <1>p, Members, <2>2, <3>2 DEF IInv, FileSteps, Justified, SameWriters, SameFs
    <3> QED BY <3>1, <3>2
  <2> QED BY <1>6, <2>1, <2>2 DEF Traced, FileTraced
<1>17. Passing'
  <2>1. CASE a = Keeper
    BY <1>0, <1>4, <1>5, <1>6, <1>p, Members, <2>1 DEF IInv, Passing, InTxn, SameWriters, SameFs
  <2>2. CASE a # Keeper
    <3>1. a \in Writers /\ (fs[a].step # "none" => InTxn(a) \/ writer[a].pc = "settling")
      BY <2>2, Members DEF IInv, Ledgers
    <3> QED BY <1>0, <1>4, <1>5, <1>6, <1>p, Members, <2>2, <3>1 DEF IInv, Passing, InTxn, Exclusion, SameWriters, SameFs
  <2> QED BY <2>1, <2>2
<1> QED BY <1>7, <1>8, <1>9, <1>10, <1>11, <1>12, <1>13, <1>14, <1>15, <1>16, <1>17 DEF IInv

LEMMA DropLinkIInv ==
    ASSUME StorageAssumption, IInv, NEW a \in Processes, DropLink(a) PROVE IInv'
<1>0. WriterTyped /\ FsTyped /\ NamesTyped /\ KeeperTyped
  BY DEF IInv, Typed, WriterTyped
<1>1. fs[a].step \in {"unlink", "purge"}
  BY DEF DropLink
<1>2. PICK u \in Writers, k \in Keys : fs[a].ref = <<u, k>>
  BY <1>0, <1>1, Members DEF FsTyped, Refs
<1>3. fs[a].ref[1] = u /\ fs[a].ref[2] = k /\ <<u, k>> \in Refs
  BY <1>2 DEF Refs
<1>4. WriterTyped' /\ writer' = writer
  BY <1>0 DEF DropLink, WriterTyped
<1>5. /\ FsTyped' /\ SameFs(a)
      /\ fs'[a].step = "drop" /\ fs'[a].ref = <<u, k>> /\ fs'[a].ref[1] = u /\ fs'[a].ref[2] = k
  BY <1>0, <1>2, <1>3, DoesMoves DEF DropLink, Steps
<1>6. /\ fs[a].step \in {"unlink", "purge"} /\ fs[a].ref = <<u, k>> /\ fs[a].ref[1] = u /\ fs[a].ref[2] = k
      /\ trash' = trash \ {<<u, k>>}
      /\ UNCHANGED <<rows, used, files, journals, keeper>>
      /\ mishaps' = mishaps
  BY <1>0, <1>1, <1>2, <1>3 DEF DropLink
<1>p. \A b \in Processes : fs[b].step \in {"journaled", "linked"} => fs[b].ref # <<u, k>>
  <2> SUFFICES ASSUME NEW b \in Processes, fs[b].step \in {"journaled", "linked"}, fs[b].ref = <<u, k>>
               PROVE  FALSE
    OBVIOUS
  <2>1. b \in Writers /\ InTxn(b) /\ u = b /\ fs[Keeper].step = "none"
    BY Members DEF IInv, FileSteps, Justified, Exclusion, InTxn
  <2>2. a # b /\ (a \in Writers => u = a)
    BY <1>1, <1>2, <1>3 DEF IInv, FileSteps, Justified
  <2> QED BY <1>1, <2>1, <2>2, Members
<1>7. Typed'
  <2>1. NamesTyped'
    BY <1>0, <1>6 DEF NamesTyped
  <2>2. KeeperTyped'
    BY <1>0, <1>6 DEF KeeperTyped, KeeperFields
  <2> QED BY <1>4, <1>5, <2>1, <2>2 DEF Typed
<1>8. Exclusion'
  BY <1>0, <1>4, <1>5, <1>6, <1>p, Members DEF IInv, Exclusion, InTxn, SameWriters, SameFs
<1>9. KnownKeys'
  BY <1>0, <1>4, <1>5, <1>6, <1>p, Members DEF IInv, KnownKeys, SameWriters, SameFs
<1>10. Uploads'
  <2> SUFFICES ASSUME NEW v \in Writers, writer'[v].pc \in {"open", "failed"}, writer'[v].op = "upload",
                      NEW j \in writer'[v].keys
               PROVE  Owned(v, j)'
    BY DEF Uploads, InTxn
  <2>0. j \in Keys
    BY <1>4 DEF WriterTyped, IsWriter
  <2> QED BY <1>0, <1>4, <1>5, <1>6, <1>p, Members, <2>0 DEF IInv, Uploads, Owned, InTxn, SameWriters, SameFs
<1>11. Deletes'
  BY <1>0, <1>4, <1>5, <1>6, <1>p, Members DEF IInv, Deletes, InTxn, SameWriters, SameFs
<1>12. Ledgers'
  BY <1>0, <1>4, <1>5, <1>6, <1>p, Members DEF IInv, Ledgers, InTxn, NoLedger, SameWriters, SameFs
<1>13. FileSteps'
  <2> SUFFICES ASSUME NEW b \in Processes PROVE Justified(b)'
    BY DEF FileSteps
  <2>1. CASE b = a
    BY <1>0, <1>4, <1>5, <1>6, <1>p, Members, <2>1 DEF IInv, FileSteps, Justified, SameWriters, SameFs
  <2>2. CASE b # a
    BY <1>0, <1>4, <1>5, <1>6, <1>p, Members, <2>2 DEF IInv, FileSteps, Justified, SameWriters, SameFs
  <2> QED BY <2>1, <2>2
<1>14. Journaled'
  BY <1>0, <1>4, <1>5, <1>6, <1>p, Members DEF IInv, Journaled, SameWriters, SameFs
<1>15. BytesKept'
  <2> SUFFICES ASSUME NEW j \in Keys, rows'[j] = "live"
               PROVE  j \in files' \/ \E v \in Writers : Solid(v, j)'
    BY DEF BytesKept, LiveKeys
  <2>1. CASE rows[j] = "live" /\ j \in files
    BY <1>0, <1>4, <1>5, <1>6, <1>p, Members, <2>1 DEF IInv, SameWriters, SameFs, Solid
  <2>2. CASE rows[j] = "live" /\ \E v \in Writers : Solid(v, j)
    <3>1. PICK v \in Writers : Solid(v, j)
      BY <2>2
    <3>2. Solid(v, j)'
      BY <1>0, <1>4, <1>5, <1>6, <1>p, Members, <3>1 DEF IInv, SameWriters, SameFs, Solid
    <3> QED BY <3>2
  <2>3. rows[j] = "live"
    BY <1>0, <1>4, <1>5, <1>6, <1>p, Members DEF IInv, SameWriters, SameFs
  <2> QED BY <2>1, <2>2, <2>3 DEF IInv, BytesKept, LiveKeys
<1>16. Traced'
  <2>1. ASSUME mishaps = 0, NEW v \in Writers, NEW j \in Keys PROVE LinkTraced(v, j)'
    <3>1. CASE v = a
      BY <1>0, <1>4, <1>5, <1>6, <1>p, Members, <2>1, <3>1 DEF IInv, Traced, LinkTraced, FileSteps, Justified, SameWriters, SameFs
    <3>2. CASE v # a
      BY <1>0, <1>4, <1>5, <1>6, <1>p, Members, <2>1, <3>2 DEF IInv, Traced, LinkTraced, FileSteps, Justified, SameWriters, SameFs
    <3> QED BY <3>1, <3>2
  <2>2. ASSUME mishaps = 0, NEW j \in Keys, j \in files', rows'[j] = "none"
        PROVE  \E v \in Writers : writer'[v].ledger[j] \in {"created", "createdBack"}
    <3>1. CASE j \in files /\ rows[j] = "none"
      <4>1. PICK v \in Writers : writer[v].ledger[j] \in {"created", "createdBack"}
        BY <2>2, <3>1 DEF IInv, Traced, FileTraced
      <4>2. writer'[v].ledger[j] \in {"created", "createdBack"}
        BY <1>0, <1>4, <1>5, <1>6, <1>p, Members, <2>2, <3>1, <4>1 DEF IInv, SameWriters, SameFs
      <4> QED BY <4>2
    <3>2. CASE ~(j \in files /\ rows[j] = "none")
      BY <1>0, <1>4, <1>5, <1>6, <1>p, Members, <2>2, <3>2 DEF IInv, FileSteps, Justified, SameWriters, SameFs
    <3> QED BY <3>1, <3>2
  <2> QED BY <1>6, <2>1, <2>2 DEF Traced, FileTraced
<1>17. Passing'
  <2>1. CASE a = Keeper
    BY <1>0, <1>4, <1>5, <1>6, <1>p, Members, <2>1 DEF IInv, Passing, InTxn, SameWriters, SameFs
  <2>2. CASE a # Keeper
    <3>1. a \in Writers /\ (fs[a].step # "none" => InTxn(a) \/ writer[a].pc = "settling")
      BY <2>2, Members DEF IInv, Ledgers
    <3> QED BY <1>0, <1>4, <1>5, <1>6, <1>p, Members, <2>2, <3>1 DEF IInv, Passing, InTxn, Exclusion, SameWriters, SameFs
  <2> QED BY <2>1, <2>2
<1> QED BY <1>7, <1>8, <1>9, <1>10, <1>11, <1>12, <1>13, <1>14, <1>15, <1>16, <1>17 DEF IInv

LEMMA DropJournalIInv ==
    ASSUME StorageAssumption, IInv, NEW a \in Processes, DropJournal(a) PROVE IInv'
<1>0. WriterTyped /\ FsTyped /\ NamesTyped /\ KeeperTyped
  BY DEF IInv, Typed, WriterTyped
<1>1. fs[a].step = "drop"
  BY DEF DropJournal
<1>2. PICK u \in Writers, k \in Keys : fs[a].ref = <<u, k>>
  BY <1>0, <1>1, Members DEF FsTyped, Refs
<1>3. fs[a].ref[1] = u /\ fs[a].ref[2] = k /\ <<u, k>> \in Refs
  BY <1>2 DEF Refs
<1>a. Resolved(a, k)
  BY <1>2, <1>3 DEF DropJournal
<1>4. /\ WriterTyped' /\ SameWriters(a)
      /\ a \in Writers =>
            /\ writer'[a].ledger[k] = "none"
            /\ \A j \in Keys \ {k} : writer'[a].ledger[j] = writer[a].ledger[j]
            /\ writer'[a].pc = writer[a].pc /\ writer'[a].op = writer[a].op
            /\ writer'[a].todo = writer[a].todo /\ writer'[a].keys = writer[a].keys
  BY <1>0, <1>a, LedgerClears
<1>5. FsTyped' /\ SameFs(a) /\ fs'[a].step = "none"
  BY <1>0, RestsMoves DEF DropJournal
<1>6. /\ fs[a].step = "drop" /\ fs[a].ref = <<u, k>> /\ fs[a].ref[1] = u /\ fs[a].ref[2] = k
      /\ journals' = journals \ {<<u, k>>}
      /\ UNCHANGED <<rows, used, files, trash, keeper>>
      /\ mishaps' = mishaps
  BY <1>0, <1>1, <1>2, <1>3 DEF DropJournal
<1>p. \A b \in Processes : fs[b].step \in {"journaled", "linked"} => fs[b].ref # <<u, k>>
  <2> SUFFICES ASSUME NEW b \in Processes, fs[b].step \in {"journaled", "linked"}, fs[b].ref = <<u, k>>
               PROVE  FALSE
    OBVIOUS
  <2>1. b \in Writers /\ InTxn(b) /\ u = b /\ fs[Keeper].step = "none"
    BY Members DEF IInv, FileSteps, Justified, Exclusion, InTxn
  <2>2. a # b /\ (a \in Writers => u = a)
    BY <1>1, <1>2, <1>3 DEF IInv, FileSteps, Justified
  <2> QED BY <1>1, <2>1, <2>2, Members
<1>r. <<u, k>> \notin trash /\ rows[k] # "none"
  BY <1>0, <1>1, <1>2, <1>3 DEF IInv, FileSteps, Justified
<1>q. /\ <<u, k>> \notin trash /\ rows[k] # "none"
      /\ a \in Writers => writer[a].pc # "idle" /\ (writer[a].pc = "settling" => k \notin writer[a].todo)
  BY <1>1, <1>3, <1>r DEF IInv, Ledgers, InTxn
<1>7. Typed'
  <2>1. NamesTyped'
    BY <1>0, <1>6 DEF NamesTyped
  <2>2. KeeperTyped'
    BY <1>0, <1>6 DEF KeeperTyped, KeeperFields
  <2> QED BY <1>4, <1>5, <2>1, <2>2 DEF Typed
<1>8. Exclusion'
  BY <1>0, <1>4, <1>5, <1>6, <1>p, <1>q, Members DEF IInv, Exclusion, InTxn, SameWriters, SameFs
<1>9. KnownKeys'
  BY <1>0, <1>4, <1>5, <1>6, <1>p, <1>q, Members DEF IInv, KnownKeys, SameWriters, SameFs
<1>10. Uploads'
  <2> SUFFICES ASSUME NEW v \in Writers, writer'[v].pc \in {"open", "failed"}, writer'[v].op = "upload",
                      NEW j \in writer'[v].keys
               PROVE  Owned(v, j)'
    BY DEF Uploads, InTxn
  <2>0. j \in Keys
    BY <1>4 DEF WriterTyped, IsWriter
  <2> QED BY <1>0, <1>4, <1>5, <1>6, <1>p, <1>q, Members, <2>0 DEF IInv, Uploads, Owned, InTxn, SameWriters, SameFs
<1>11. Deletes'
  BY <1>0, <1>4, <1>5, <1>6, <1>p, <1>q, Members DEF IInv, Deletes, InTxn, SameWriters, SameFs
<1>12. Ledgers'
  BY <1>0, <1>4, <1>5, <1>6, <1>p, <1>q, Members DEF IInv, Ledgers, InTxn, NoLedger, SameWriters, SameFs
<1>13. FileSteps'
  <2> SUFFICES ASSUME NEW b \in Processes PROVE Justified(b)'
    BY DEF FileSteps
  <2>1. CASE b = a
    BY <1>0, <1>4, <1>5, <1>6, <1>p, <1>q, Members, <2>1 DEF IInv, FileSteps, Justified, SameWriters, SameFs
  <2>2. CASE b # a
    BY <1>0, <1>4, <1>5, <1>6, <1>p, <1>q, Members, <2>2 DEF IInv, FileSteps, Justified, SameWriters, SameFs
  <2> QED BY <2>1, <2>2
<1>14. Journaled'
  BY <1>0, <1>4, <1>5, <1>6, <1>p, <1>q, Members DEF IInv, Journaled, SameWriters, SameFs
<1>15. BytesKept'
  <2> SUFFICES ASSUME NEW j \in Keys, rows'[j] = "live"
               PROVE  j \in files' \/ \E v \in Writers : Solid(v, j)'
    BY DEF BytesKept, LiveKeys
  <2>1. CASE rows[j] = "live" /\ j \in files
    BY <1>0, <1>4, <1>5, <1>6, <1>p, <1>q, Members, <2>1 DEF IInv, SameWriters, SameFs, Solid
  <2>2. CASE rows[j] = "live" /\ \E v \in Writers : Solid(v, j)
    <3>1. PICK v \in Writers : Solid(v, j)
      BY <2>2
    <3>2. Solid(v, j)'
      BY <1>0, <1>4, <1>5, <1>6, <1>p, <1>q, Members, <3>1 DEF IInv, SameWriters, SameFs, Solid
    <3> QED BY <3>2
  <2>3. rows[j] = "live"
    BY <1>0, <1>4, <1>5, <1>6, <1>p, <1>q, Members DEF IInv, SameWriters, SameFs
  <2> QED BY <2>1, <2>2, <2>3 DEF IInv, BytesKept, LiveKeys
<1>16. Traced'
  <2>1. ASSUME mishaps = 0, NEW v \in Writers, NEW j \in Keys PROVE LinkTraced(v, j)'
    <3>1. CASE v = a
      BY <1>0, <1>4, <1>5, <1>6, <1>p, <1>q, Members, <2>1, <3>1 DEF IInv, Traced, LinkTraced, FileSteps, Justified, SameWriters, SameFs
    <3>2. CASE v # a
      BY <1>0, <1>4, <1>5, <1>6, <1>p, <1>q, Members, <2>1, <3>2 DEF IInv, Traced, LinkTraced, FileSteps, Justified, SameWriters, SameFs
    <3> QED BY <3>1, <3>2
  <2>2. ASSUME mishaps = 0, NEW j \in Keys, j \in files', rows'[j] = "none"
        PROVE  \E v \in Writers : writer'[v].ledger[j] \in {"created", "createdBack"}
    <3>1. CASE j \in files /\ rows[j] = "none"
      <4>1. PICK v \in Writers : writer[v].ledger[j] \in {"created", "createdBack"}
        BY <2>2, <3>1 DEF IInv, Traced, FileTraced
      <4>2. writer'[v].ledger[j] \in {"created", "createdBack"}
        BY <1>0, <1>4, <1>5, <1>6, <1>p, <1>q, Members, <2>2, <3>1, <4>1 DEF IInv, SameWriters, SameFs
      <4> QED BY <4>2
    <3>2. CASE ~(j \in files /\ rows[j] = "none")
      BY <1>0, <1>4, <1>5, <1>6, <1>p, <1>q, Members, <2>2, <3>2 DEF IInv, FileSteps, Justified, SameWriters, SameFs
    <3> QED BY <3>1, <3>2
  <2> QED BY <1>6, <2>1, <2>2 DEF Traced, FileTraced
<1>17. Passing'
  <2>1. CASE a = Keeper
    BY <1>0, <1>4, <1>5, <1>6, <1>p, <1>q, Members, <2>1 DEF IInv, Passing, InTxn, SameWriters, SameFs
  <2>2. CASE a # Keeper
    <3>1. a \in Writers /\ (fs[a].step # "none" => InTxn(a) \/ writer[a].pc = "settling")
      BY <2>2, Members DEF IInv, Ledgers
    <3> QED BY <1>0, <1>4, <1>5, <1>6, <1>p, <1>q, Members, <2>2, <3>1 DEF IInv, Passing, InTxn, Exclusion, SameWriters, SameFs
  <2> QED BY <2>1, <2>2
<1> QED BY <1>7, <1>8, <1>9, <1>10, <1>11, <1>12, <1>13, <1>14, <1>15, <1>16, <1>17 DEF IInv

LEMMA FsFailsIInv ==
    ASSUME StorageAssumption, IInv, NEW a \in Processes, FsFails(a) PROVE IInv'
<1>0. WriterTyped /\ FsTyped /\ NamesTyped /\ KeeperTyped
  BY DEF IInv, Typed, WriterTyped
<1>4. WriterTyped' /\ writer' = writer
  BY <1>0 DEF FsFails, WriterTyped
<1>5. FsTyped' /\ SameFs(a) /\ fs'[a].step = "none"
  BY <1>0, RestsMoves DEF FsFails
<1>6. /\ fs[a].step \in {"remove", "restore", "unlink", "purge", "drop"}
      /\ keeper'.pc = keeper.pc /\ KeeperTyped' /\ (a # Keeper => keeper' = keeper)
      /\ a = Keeper => ~keeper'.clean
      /\ UNCHANGED <<rows, used, files, trash, journals>>
  BY <1>0 DEF FsFails, KeeperTyped, KeeperFields
<1>m. mishaps' \in Nat /\ mishaps' # 0
  BY <1>0 DEF FsFails, Mishap, NamesTyped
<1>7. Typed'
  <2>1. NamesTyped'
    BY <1>0, <1>6, <1>m DEF NamesTyped
  <2>2. KeeperTyped'
    BY <1>6
  <2> QED BY <1>4, <1>5, <2>1, <2>2 DEF Typed
<1>8. Exclusion'
  BY <1>0, <1>4, <1>5, <1>6, Members DEF IInv, Exclusion, InTxn, SameWriters, SameFs
<1>9. KnownKeys'
  BY <1>0, <1>4, <1>5, <1>6, Members DEF IInv, KnownKeys, SameWriters, SameFs
<1>10. Uploads'
  <2> SUFFICES ASSUME NEW v \in Writers, writer'[v].pc \in {"open", "failed"}, writer'[v].op = "upload",
                      NEW j \in writer'[v].keys
               PROVE  Owned(v, j)'
    BY DEF Uploads, InTxn
  <2>0. j \in Keys
    BY <1>4 DEF WriterTyped, IsWriter
  <2> QED BY <1>0, <1>4, <1>5, <1>6, Members, <2>0 DEF IInv, Uploads, Owned, InTxn, SameWriters, SameFs
<1>11. Deletes'
  BY <1>0, <1>4, <1>5, <1>6, Members DEF IInv, Deletes, InTxn, SameWriters, SameFs
<1>12. Ledgers'
  BY <1>0, <1>4, <1>5, <1>6, Members DEF IInv, Ledgers, InTxn, NoLedger, SameWriters, SameFs
<1>13. FileSteps'
  <2> SUFFICES ASSUME NEW b \in Processes PROVE Justified(b)'
    BY DEF FileSteps
  <2>1. CASE b = a
    BY <1>0, <1>4, <1>5, <1>6, Members, <2>1 DEF IInv, FileSteps, Justified, SameWriters, SameFs
  <2>2. CASE b # a
    BY <1>0, <1>4, <1>5, <1>6, Members, <2>2 DEF IInv, FileSteps, Justified, SameWriters, SameFs
  <2> QED BY <2>1, <2>2
<1>14. Journaled'
  BY <1>0, <1>4, <1>5, <1>6, Members DEF IInv, Journaled, SameWriters, SameFs
<1>15. BytesKept'
  <2> SUFFICES ASSUME NEW j \in Keys, rows'[j] = "live"
               PROVE  j \in files' \/ \E v \in Writers : Solid(v, j)'
    BY DEF BytesKept, LiveKeys
  <2>1. CASE rows[j] = "live" /\ j \in files
    BY <1>0, <1>4, <1>5, <1>6, Members, <2>1 DEF IInv, SameWriters, SameFs, Solid
  <2>2. CASE rows[j] = "live" /\ \E v \in Writers : Solid(v, j)
    <3>1. PICK v \in Writers : Solid(v, j)
      BY <2>2
    <3>2. Solid(v, j)'
      BY <1>0, <1>4, <1>5, <1>6, Members, <3>1 DEF IInv, SameWriters, SameFs, Solid
    <3> QED BY <3>2
  <2>3. rows[j] = "live"
    BY <1>0, <1>4, <1>5, <1>6, Members DEF IInv, SameWriters, SameFs
  <2> QED BY <2>1, <2>2, <2>3 DEF IInv, BytesKept, LiveKeys
<1>16. Traced'
  BY <1>m DEF Traced
<1>17. Passing'
  <2>1. CASE a = Keeper
    BY <1>0, <1>4, <1>5, <1>6, Members, <2>1 DEF IInv, Passing, InTxn, SameWriters, SameFs
  <2>2. CASE a # Keeper
    <3>1. a \in Writers /\ (fs[a].step # "none" => InTxn(a) \/ writer[a].pc = "settling")
      BY <2>2, Members DEF IInv, Ledgers
    <3> QED BY <1>0, <1>4, <1>5, <1>6, Members, <2>2, <3>1 DEF IInv, Passing, InTxn, Exclusion, SameWriters, SameFs
  <2> QED BY <2>1, <2>2
<1> QED BY <1>7, <1>8, <1>9, <1>10, <1>11, <1>12, <1>13, <1>14, <1>15, <1>16, <1>17 DEF IInv

LEMMA KeeperStartIInv ==
    ASSUME StorageAssumption, IInv, KeeperStart PROVE IInv'
<1>0. WriterTyped /\ FsTyped /\ NamesTyped /\ KeeperTyped
  BY DEF IInv, Typed
<1>4. WriterTyped' /\ writer' = writer
  BY <1>0 DEF KeeperStart, WriterTyped
<1>5. FsTyped' /\ fs' = fs
  BY <1>0 DEF KeeperStart, FsTyped, Free
<1>6. /\ keeper.pc = "idle" /\ KeeperTyped' /\ keeper'.pc = "files" /\ keeper'.todo = files
      /\ keeper'.alone => \A v \in Writers : writer[v].pc # "settling"
      /\ \A v \in Writers : ~InTxn(v)
      /\ UNCHANGED <<rows, used, files, trash, journals>>
      /\ mishaps' = mishaps
  BY <1>0 DEF KeeperStart, TryLock, NoWriter, KeeperTyped, KeeperFields
<1>7. Typed'
  <2>1. NamesTyped'
    BY <1>0, <1>6 DEF NamesTyped
  <2>2. KeeperTyped'
    BY <1>6
  <2> QED BY <1>4, <1>5, <2>1, <2>2 DEF Typed
<1>8. Exclusion'
  BY <1>0, <1>4, <1>5, <1>6, Members DEF IInv, Exclusion, InTxn, SameWriters, SameFs
<1>9. KnownKeys'
  BY <1>0, <1>4, <1>5, <1>6, Members DEF IInv, KnownKeys, SameWriters, SameFs
<1>10. Uploads'
  <2> SUFFICES ASSUME NEW v \in Writers, writer'[v].pc \in {"open", "failed"}, writer'[v].op = "upload",
                      NEW j \in writer'[v].keys
               PROVE  Owned(v, j)'
    BY DEF Uploads, InTxn
  <2>0. j \in Keys
    BY <1>4 DEF WriterTyped, IsWriter
  <2> QED BY <1>0, <1>4, <1>5, <1>6, Members, <2>0 DEF IInv, Uploads, Owned, InTxn, SameWriters, SameFs
<1>11. Deletes'
  BY <1>0, <1>4, <1>5, <1>6, Members DEF IInv, Deletes, InTxn, SameWriters, SameFs
<1>12. Ledgers'
  BY <1>0, <1>4, <1>5, <1>6, Members DEF IInv, Ledgers, InTxn, NoLedger, SameWriters, SameFs
<1>13. FileSteps'
  <2> SUFFICES ASSUME NEW b \in Processes PROVE Justified(b)'
    BY DEF FileSteps
  <2>1. CASE b = Keeper
    BY <1>0, <1>4, <1>5, <1>6, Members, <2>1 DEF IInv, FileSteps, Justified, SameWriters, SameFs
  <2>2. CASE b # Keeper
    BY <1>0, <1>4, <1>5, <1>6, Members, <2>2 DEF IInv, FileSteps, Justified, SameWriters, SameFs
  <2> QED BY <2>1, <2>2
<1>14. Journaled'
  BY <1>0, <1>4, <1>5, <1>6, Members DEF IInv, Journaled, SameWriters, SameFs
<1>15. BytesKept'
  <2> SUFFICES ASSUME NEW j \in Keys, rows'[j] = "live"
               PROVE  j \in files' \/ \E v \in Writers : Solid(v, j)'
    BY DEF BytesKept, LiveKeys
  <2>1. CASE rows[j] = "live" /\ j \in files
    BY <1>0, <1>4, <1>5, <1>6, Members, <2>1 DEF IInv, SameWriters, SameFs, Solid
  <2>2. CASE rows[j] = "live" /\ \E v \in Writers : Solid(v, j)
    <3>1. PICK v \in Writers : Solid(v, j)
      BY <2>2
    <3>2. Solid(v, j)'
      BY <1>0, <1>4, <1>5, <1>6, Members, <3>1 DEF IInv, SameWriters, SameFs, Solid
    <3> QED BY <3>2
  <2>3. rows[j] = "live"
    BY <1>0, <1>4, <1>5, <1>6, Members DEF IInv, SameWriters, SameFs
  <2> QED BY <2>1, <2>2, <2>3 DEF IInv, BytesKept, LiveKeys
<1>16. Traced'
  <2>1. ASSUME mishaps = 0, NEW v \in Writers, NEW j \in Keys PROVE LinkTraced(v, j)'
    <3>1. CASE v = Keeper
      BY <1>0, <1>4, <1>5, <1>6, Members, <2>1, <3>1 DEF IInv, Traced, LinkTraced, FileSteps, Justified, SameWriters, SameFs
    <3>2. CASE v # Keeper
      BY <1>0, <1>4, <1>5, <1>6, Members, <2>1, <3>2 DEF IInv, Traced, LinkTraced, FileSteps, Justified, SameWriters, SameFs
    <3> QED BY <3>1, <3>2
  <2>2. ASSUME mishaps = 0, NEW j \in Keys, j \in files', rows'[j] = "none"
        PROVE  \E v \in Writers : writer'[v].ledger[j] \in {"created", "createdBack"}
    <3>1. CASE j \in files /\ rows[j] = "none"
      <4>1. PICK v \in Writers : writer[v].ledger[j] \in {"created", "createdBack"}
        BY <2>2, <3>1 DEF IInv, Traced, FileTraced
      <4>2. writer'[v].ledger[j] \in {"created", "createdBack"}
        BY <1>0, <1>4, <1>5, <1>6, Members, <2>2, <3>1, <4>1 DEF IInv, SameWriters, SameFs
      <4> QED BY <4>2
    <3>2. CASE ~(j \in files /\ rows[j] = "none")
      BY <1>0, <1>4, <1>5, <1>6, Members, <2>2, <3>2 DEF IInv, FileSteps, Justified, SameWriters, SameFs
    <3> QED BY <3>1, <3>2
  <2> QED BY <1>6, <2>1, <2>2 DEF Traced, FileTraced
<1>17. Passing'
  BY <1>0, <1>4, <1>5, <1>6, Members DEF IInv, Passing, InTxn, SameWriters, SameFs, Exclusion
<1> QED BY <1>7, <1>8, <1>9, <1>10, <1>11, <1>12, <1>13, <1>14, <1>15, <1>16, <1>17 DEF IInv

LEMMA KeeperSkipsIInv ==
    ASSUME StorageAssumption, IInv, NEW entry \in Keys \cup Refs, KeeperSkips(entry) PROVE IInv'
<1>0. WriterTyped /\ FsTyped /\ NamesTyped /\ KeeperTyped
  BY DEF IInv, Typed
<1>4. WriterTyped' /\ writer' = writer
  BY <1>0 DEF KeeperSkips, WriterTyped
<1>5. FsTyped' /\ fs' = fs
  BY <1>0 DEF KeeperSkips, FsTyped, Free
<1>6. /\ keeper'.pc = keeper.pc /\ KeeperTyped'
      /\ ~keeper'.clean
      /\ UNCHANGED <<rows, used, files, trash, journals>>
      /\ mishaps' = mishaps
  BY <1>0 DEF KeeperSkips, KeeperTyped, KeeperFields
<1>7. Typed'
  <2>1. NamesTyped'
    BY <1>0, <1>6 DEF NamesTyped
  <2>2. KeeperTyped'
    BY <1>6
  <2> QED BY <1>4, <1>5, <2>1, <2>2 DEF Typed
<1>8. Exclusion'
  BY <1>0, <1>4, <1>5, <1>6, Members DEF IInv, Exclusion, InTxn, SameWriters, SameFs
<1>9. KnownKeys'
  BY <1>0, <1>4, <1>5, <1>6, Members DEF IInv, KnownKeys, SameWriters, SameFs
<1>10. Uploads'
  <2> SUFFICES ASSUME NEW v \in Writers, writer'[v].pc \in {"open", "failed"}, writer'[v].op = "upload",
                      NEW j \in writer'[v].keys
               PROVE  Owned(v, j)'
    BY DEF Uploads, InTxn
  <2>0. j \in Keys
    BY <1>4 DEF WriterTyped, IsWriter
  <2> QED BY <1>0, <1>4, <1>5, <1>6, Members, <2>0 DEF IInv, Uploads, Owned, InTxn, SameWriters, SameFs
<1>11. Deletes'
  BY <1>0, <1>4, <1>5, <1>6, Members DEF IInv, Deletes, InTxn, SameWriters, SameFs
<1>12. Ledgers'
  BY <1>0, <1>4, <1>5, <1>6, Members DEF IInv, Ledgers, InTxn, NoLedger, SameWriters, SameFs
<1>13. FileSteps'
  <2> SUFFICES ASSUME NEW b \in Processes PROVE Justified(b)'
    BY DEF FileSteps
  <2>1. CASE b = Keeper
    BY <1>0, <1>4, <1>5, <1>6, Members, <2>1 DEF IInv, FileSteps, Justified, SameWriters, SameFs
  <2>2. CASE b # Keeper
    BY <1>0, <1>4, <1>5, <1>6, Members, <2>2 DEF IInv, FileSteps, Justified, SameWriters, SameFs
  <2> QED BY <2>1, <2>2
<1>14. Journaled'
  BY <1>0, <1>4, <1>5, <1>6, Members DEF IInv, Journaled, SameWriters, SameFs
<1>15. BytesKept'
  <2> SUFFICES ASSUME NEW j \in Keys, rows'[j] = "live"
               PROVE  j \in files' \/ \E v \in Writers : Solid(v, j)'
    BY DEF BytesKept, LiveKeys
  <2>1. CASE rows[j] = "live" /\ j \in files
    BY <1>0, <1>4, <1>5, <1>6, Members, <2>1 DEF IInv, SameWriters, SameFs, Solid
  <2>2. CASE rows[j] = "live" /\ \E v \in Writers : Solid(v, j)
    <3>1. PICK v \in Writers : Solid(v, j)
      BY <2>2
    <3>2. Solid(v, j)'
      BY <1>0, <1>4, <1>5, <1>6, Members, <3>1 DEF IInv, SameWriters, SameFs, Solid
    <3> QED BY <3>2
  <2>3. rows[j] = "live"
    BY <1>0, <1>4, <1>5, <1>6, Members DEF IInv, SameWriters, SameFs
  <2> QED BY <2>1, <2>2, <2>3 DEF IInv, BytesKept, LiveKeys
<1>16. Traced'
  <2>1. ASSUME mishaps = 0, NEW v \in Writers, NEW j \in Keys PROVE LinkTraced(v, j)'
    <3>1. CASE v = Keeper
      BY <1>0, <1>4, <1>5, <1>6, Members, <2>1, <3>1 DEF IInv, Traced, LinkTraced, FileSteps, Justified, SameWriters, SameFs
    <3>2. CASE v # Keeper
      BY <1>0, <1>4, <1>5, <1>6, Members, <2>1, <3>2 DEF IInv, Traced, LinkTraced, FileSteps, Justified, SameWriters, SameFs
    <3> QED BY <3>1, <3>2
  <2>2. ASSUME mishaps = 0, NEW j \in Keys, j \in files', rows'[j] = "none"
        PROVE  \E v \in Writers : writer'[v].ledger[j] \in {"created", "createdBack"}
    <3>1. CASE j \in files /\ rows[j] = "none"
      <4>1. PICK v \in Writers : writer[v].ledger[j] \in {"created", "createdBack"}
        BY <2>2, <3>1 DEF IInv, Traced, FileTraced
      <4>2. writer'[v].ledger[j] \in {"created", "createdBack"}
        BY <1>0, <1>4, <1>5, <1>6, Members, <2>2, <3>1, <4>1 DEF IInv, SameWriters, SameFs
      <4> QED BY <4>2
    <3>2. CASE ~(j \in files /\ rows[j] = "none")
      BY <1>0, <1>4, <1>5, <1>6, Members, <2>2, <3>2 DEF IInv, FileSteps, Justified, SameWriters, SameFs
    <3> QED BY <3>1, <3>2
  <2> QED BY <1>6, <2>1, <2>2 DEF Traced, FileTraced
<1>17. Passing'
  BY <1>0, <1>4, <1>5, <1>6, Members DEF IInv, Passing, InTxn, SameWriters, SameFs
<1> QED BY <1>7, <1>8, <1>9, <1>10, <1>11, <1>12, <1>13, <1>14, <1>15, <1>16, <1>17 DEF IInv

LEMMA KeeperFileIInv ==
    ASSUME StorageAssumption, IInv, NEW k \in Keys, KeeperFile(k) PROVE IInv'
<1>0. WriterTyped /\ FsTyped /\ NamesTyped /\ KeeperTyped
  BY DEF IInv, Typed
<1>4. WriterTyped' /\ writer' = writer
  BY <1>0 DEF KeeperFile, WriterTyped
<1>5. FsTyped' /\ fs' = fs
  BY <1>0 DEF KeeperFile, FsTyped, Free
<1>6. /\ keeper'.pc = keeper.pc /\ KeeperTyped'
      /\ keeper.pc = "files"
      /\ keeper'.todo = keeper.todo \ {k}
      /\ (keeper'.clean => keeper.clean) /\ (keeper'.alone => keeper.alone)
      /\ rows[k] # "live" => files' = files \ {k}
      /\ rows[k] = "live" => files' = files
      /\ UNCHANGED <<rows, used, trash, journals>>
      /\ mishaps' = mishaps
  BY <1>0 DEF KeeperFile, KeeperTyped, KeeperFields
<1>p. \A v \in Writers : ~InTxn(v) /\ fs[v].step \notin {"journaled", "linked"}
  BY <1>0, <1>6, Members DEF IInv, Exclusion, FileSteps, Justified, InTxn
<1>7. Typed'
  <2>1. NamesTyped'
    BY <1>0, <1>6 DEF NamesTyped
  <2>2. KeeperTyped'
    BY <1>6
  <2> QED BY <1>4, <1>5, <2>1, <2>2 DEF Typed
<1>8. Exclusion'
  BY <1>0, <1>4, <1>5, <1>6, <1>p, Members DEF IInv, Exclusion, InTxn, SameWriters, SameFs
<1>9. KnownKeys'
  BY <1>0, <1>4, <1>5, <1>6, <1>p, Members DEF IInv, KnownKeys, SameWriters, SameFs
<1>10. Uploads'
  <2> SUFFICES ASSUME NEW v \in Writers, writer'[v].pc \in {"open", "failed"}, writer'[v].op = "upload",
                      NEW j \in writer'[v].keys
               PROVE  Owned(v, j)'
    BY DEF Uploads, InTxn
  <2>0. j \in Keys
    BY <1>4 DEF WriterTyped, IsWriter
  <2> QED BY <1>0, <1>4, <1>5, <1>6, <1>p, Members, <2>0 DEF IInv, Uploads, Owned, InTxn, SameWriters, SameFs
<1>11. Deletes'
  BY <1>0, <1>4, <1>5, <1>6, <1>p, Members DEF IInv, Deletes, InTxn, SameWriters, SameFs
<1>12. Ledgers'
  BY <1>0, <1>4, <1>5, <1>6, <1>p, Members DEF IInv, Ledgers, InTxn, NoLedger, SameWriters, SameFs
<1>13. FileSteps'
  <2> SUFFICES ASSUME NEW b \in Processes PROVE Justified(b)'
    BY DEF FileSteps
  <2>1. CASE b = Keeper
    BY <1>0, <1>4, <1>5, <1>6, <1>p, Members, <2>1 DEF IInv, FileSteps, Justified, SameWriters, SameFs
  <2>2. CASE b # Keeper
    BY <1>0, <1>4, <1>5, <1>6, <1>p, Members, <2>2 DEF IInv, FileSteps, Justified, SameWriters, SameFs
  <2> QED BY <2>1, <2>2
<1>14. Journaled'
  BY <1>0, <1>4, <1>5, <1>6, <1>p, Members DEF IInv, Journaled, SameWriters, SameFs
<1>15. BytesKept'
  <2> SUFFICES ASSUME NEW j \in Keys, rows'[j] = "live"
               PROVE  j \in files' \/ \E v \in Writers : Solid(v, j)'
    BY DEF BytesKept, LiveKeys
  <2>1. CASE rows[j] = "live" /\ j \in files
    BY <1>0, <1>4, <1>5, <1>6, <1>p, Members, <2>1 DEF IInv, SameWriters, SameFs, Solid
  <2>2. CASE rows[j] = "live" /\ \E v \in Writers : Solid(v, j)
    <3>1. PICK v \in Writers : Solid(v, j)
      BY <2>2
    <3>2. Solid(v, j)'
      BY <1>0, <1>4, <1>5, <1>6, <1>p, Members, <3>1 DEF IInv, SameWriters, SameFs, Solid
    <3> QED BY <3>2
  <2>3. rows[j] = "live"
    BY <1>0, <1>4, <1>5, <1>6, <1>p, Members DEF IInv, SameWriters, SameFs
  <2> QED BY <2>1, <2>2, <2>3 DEF IInv, BytesKept, LiveKeys
<1>16. Traced'
  <2>1. ASSUME mishaps = 0, NEW v \in Writers, NEW j \in Keys PROVE LinkTraced(v, j)'
    <3>1. CASE v = Keeper
      BY <1>0, <1>4, <1>5, <1>6, <1>p, Members, <2>1, <3>1 DEF IInv, Traced, LinkTraced, FileSteps, Justified, SameWriters, SameFs
    <3>2. CASE v # Keeper
      BY <1>0, <1>4, <1>5, <1>6, <1>p, Members, <2>1, <3>2 DEF IInv, Traced, LinkTraced, FileSteps, Justified, SameWriters, SameFs
    <3> QED BY <3>1, <3>2
  <2>2. ASSUME mishaps = 0, NEW j \in Keys, j \in files', rows'[j] = "none"
        PROVE  \E v \in Writers : writer'[v].ledger[j] \in {"created", "createdBack"}
    <3>1. CASE j \in files /\ rows[j] = "none"
      <4>1. PICK v \in Writers : writer[v].ledger[j] \in {"created", "createdBack"}
        BY <2>2, <3>1 DEF IInv, Traced, FileTraced
      <4>2. writer'[v].ledger[j] \in {"created", "createdBack"}
        BY <1>0, <1>4, <1>5, <1>6, <1>p, Members, <2>2, <3>1, <4>1 DEF IInv, SameWriters, SameFs
      <4> QED BY <4>2
    <3>2. CASE ~(j \in files /\ rows[j] = "none")
      BY <1>0, <1>4, <1>5, <1>6, <1>p, Members, <2>2, <3>2 DEF IInv, FileSteps, Justified, SameWriters, SameFs
    <3> QED BY <3>1, <3>2
  <2> QED BY <1>6, <2>1, <2>2 DEF Traced, FileTraced
<1>17. Passing'
  BY <1>0, <1>4, <1>5, <1>6, <1>p, Members DEF IInv, Passing, InTxn, SameWriters, SameFs
<1> QED BY <1>7, <1>8, <1>9, <1>10, <1>11, <1>12, <1>13, <1>14, <1>15, <1>16, <1>17 DEF IInv

LEMMA KeeperTrashIInv ==
    ASSUME StorageAssumption, IInv, KeeperTrash PROVE IInv'
<1>0. WriterTyped /\ FsTyped /\ NamesTyped /\ KeeperTyped
  BY DEF IInv, Typed
<1>4. WriterTyped' /\ writer' = writer
  BY <1>0 DEF KeeperTrash, WriterTyped
<1>5. FsTyped' /\ fs' = fs
  BY <1>0 DEF KeeperTrash, FsTyped, Free
<1>6. /\ keeper.pc = "files" /\ keeper.todo = {} /\ keeper'.pc = "trash" /\ keeper'.todo = journals /\ KeeperTyped'
      /\ (keeper'.clean => keeper.clean) /\ (keeper'.alone => keeper.alone)
      /\ UNCHANGED <<rows, used, files, trash, journals>>
      /\ mishaps' = mishaps
  BY <1>0 DEF KeeperTrash, KeeperTyped, KeeperFields
<1>7. Typed'
  <2>1. NamesTyped'
    BY <1>0, <1>6 DEF NamesTyped
  <2>2. KeeperTyped'
    BY <1>6
  <2> QED BY <1>4, <1>5, <2>1, <2>2 DEF Typed
<1>8. Exclusion'
  BY <1>0, <1>4, <1>5, <1>6, Members DEF IInv, Exclusion, InTxn, SameWriters, SameFs
<1>9. KnownKeys'
  BY <1>0, <1>4, <1>5, <1>6, Members DEF IInv, KnownKeys, SameWriters, SameFs
<1>10. Uploads'
  <2> SUFFICES ASSUME NEW v \in Writers, writer'[v].pc \in {"open", "failed"}, writer'[v].op = "upload",
                      NEW j \in writer'[v].keys
               PROVE  Owned(v, j)'
    BY DEF Uploads, InTxn
  <2>0. j \in Keys
    BY <1>4 DEF WriterTyped, IsWriter
  <2> QED BY <1>0, <1>4, <1>5, <1>6, Members, <2>0 DEF IInv, Uploads, Owned, InTxn, SameWriters, SameFs
<1>11. Deletes'
  BY <1>0, <1>4, <1>5, <1>6, Members DEF IInv, Deletes, InTxn, SameWriters, SameFs
<1>12. Ledgers'
  BY <1>0, <1>4, <1>5, <1>6, Members DEF IInv, Ledgers, InTxn, NoLedger, SameWriters, SameFs
<1>13. FileSteps'
  <2> SUFFICES ASSUME NEW b \in Processes PROVE Justified(b)'
    BY DEF FileSteps
  <2>1. CASE b = Keeper
    BY <1>0, <1>4, <1>5, <1>6, Members, <2>1 DEF IInv, FileSteps, Justified, SameWriters, SameFs
  <2>2. CASE b # Keeper
    BY <1>0, <1>4, <1>5, <1>6, Members, <2>2 DEF IInv, FileSteps, Justified, SameWriters, SameFs
  <2> QED BY <2>1, <2>2
<1>14. Journaled'
  BY <1>0, <1>4, <1>5, <1>6, Members DEF IInv, Journaled, SameWriters, SameFs
<1>15. BytesKept'
  <2> SUFFICES ASSUME NEW j \in Keys, rows'[j] = "live"
               PROVE  j \in files' \/ \E v \in Writers : Solid(v, j)'
    BY DEF BytesKept, LiveKeys
  <2>1. CASE rows[j] = "live" /\ j \in files
    BY <1>0, <1>4, <1>5, <1>6, Members, <2>1 DEF IInv, SameWriters, SameFs, Solid
  <2>2. CASE rows[j] = "live" /\ \E v \in Writers : Solid(v, j)
    <3>1. PICK v \in Writers : Solid(v, j)
      BY <2>2
    <3>2. Solid(v, j)'
      BY <1>0, <1>4, <1>5, <1>6, Members, <3>1 DEF IInv, SameWriters, SameFs, Solid
    <3> QED BY <3>2
  <2>3. rows[j] = "live"
    BY <1>0, <1>4, <1>5, <1>6, Members DEF IInv, SameWriters, SameFs
  <2> QED BY <2>1, <2>2, <2>3 DEF IInv, BytesKept, LiveKeys
<1>16. Traced'
  <2>1. ASSUME mishaps = 0, NEW v \in Writers, NEW j \in Keys PROVE LinkTraced(v, j)'
    <3>1. CASE v = Keeper
      BY <1>0, <1>4, <1>5, <1>6, Members, <2>1, <3>1 DEF IInv, Traced, LinkTraced, FileSteps, Justified, SameWriters, SameFs
    <3>2. CASE v # Keeper
      BY <1>0, <1>4, <1>5, <1>6, Members, <2>1, <3>2 DEF IInv, Traced, LinkTraced, FileSteps, Justified, SameWriters, SameFs
    <3> QED BY <3>1, <3>2
  <2>2. ASSUME mishaps = 0, NEW j \in Keys, j \in files', rows'[j] = "none"
        PROVE  \E v \in Writers : writer'[v].ledger[j] \in {"created", "createdBack"}
    <3>1. CASE j \in files /\ rows[j] = "none"
      <4>1. PICK v \in Writers : writer[v].ledger[j] \in {"created", "createdBack"}
        BY <2>2, <3>1 DEF IInv, Traced, FileTraced
      <4>2. writer'[v].ledger[j] \in {"created", "createdBack"}
        BY <1>0, <1>4, <1>5, <1>6, Members, <2>2, <3>1, <4>1 DEF IInv, SameWriters, SameFs
      <4> QED BY <4>2
    <3>2. CASE ~(j \in files /\ rows[j] = "none")
      BY <1>0, <1>4, <1>5, <1>6, Members, <2>2, <3>2 DEF IInv, FileSteps, Justified, SameWriters, SameFs
    <3> QED BY <3>1, <3>2
  <2> QED BY <1>6, <2>1, <2>2 DEF Traced, FileTraced
<1>17. Passing'
  BY <1>0, <1>4, <1>5, <1>6, Members DEF IInv, Passing, InTxn, SameWriters, SameFs
<1> QED BY <1>7, <1>8, <1>9, <1>10, <1>11, <1>12, <1>13, <1>14, <1>15, <1>16, <1>17 DEF IInv

LEMMA KeeperJournalIInv ==
    ASSUME StorageAssumption, IInv, NEW ref \in Refs, KeeperJournal(ref) PROVE IInv'
<1>0. WriterTyped /\ FsTyped /\ NamesTyped /\ KeeperTyped
  BY DEF IInv, Typed
<1>1. ref[1] \in Writers /\ ref[2] \in Keys /\ ref = <<ref[1], ref[2]>>
  BY RefIsPair
<1>4. WriterTyped' /\ writer' = writer
  BY <1>0 DEF KeeperJournal, WriterTyped
<1>5. /\ FsTyped' /\ SameFs(Keeper)
      /\ \/ fs' = fs /\ (ref \notin journals \/ ~keeper'.clean)
         \/ /\ fs'[Keeper].step \in {"restore", "purge"} /\ fs'[Keeper].ref = ref
            /\ fs'[Keeper].step = "purge" => rows[ref[2]] # "live"
            /\ fs'[Keeper].step = "restore" => rows[ref[2]] = "live"
            /\ ref \in journals
  <2> DEFINE live == rows[ref[2]] = "live"
             lost == live /\ ref[2] \notin files /\ ref \notin trash
  <2>0. /\ keeper' = [keeper EXCEPT !.todo = @ \ {ref}, !.clean = @ /\ ~(ref \in journals /\ lost)]
        /\ IF ref \notin journals \/ lost THEN UNCHANGED fs
           ELSE Does(Keeper, IF live THEN "restore" ELSE "purge", ref)
    BY DEF KeeperJournal
  <2>c. keeper'.clean = (keeper.clean /\ ~(ref \in journals /\ lost))
    BY <1>0, <2>0 DEF KeeperTyped, KeeperFields
  <2>1. CASE ref \notin journals \/ lost
    BY <1>0, <2>0, <2>1, <2>c DEF FsTyped, SameFs, Free
  <2>2. CASE Does(Keeper, "restore", ref) /\ rows[ref[2]] = "live" /\ ref \in journals
    BY <1>0, <2>2, Members, DoesMoves DEF Steps
  <2>3. CASE Does(Keeper, "purge", ref) /\ rows[ref[2]] # "live" /\ ref \in journals
    BY <1>0, <2>3, Members, DoesMoves DEF Steps
  <2> QED BY <2>0, <2>1, <2>2, <2>3
<1>6. /\ keeper'.pc = keeper.pc /\ KeeperTyped'
      /\ keeper.pc = "trash" /\ fs[Keeper].step = "none"
      /\ keeper'.todo = keeper.todo \ {ref}
      /\ (keeper'.clean => keeper.clean) /\ (keeper'.alone => keeper.alone)
      /\ UNCHANGED <<rows, used, files, trash, journals>>
      /\ mishaps' = mishaps
  BY <1>0, Members DEF KeeperJournal, KeeperTyped, KeeperFields, FsTyped
<1>p. /\ ref \in journals => rows[ref[2]] # "none" /\ ref[2] \in used
      /\ rows[ref[2]] \in {"none", "live", "deleted"}
  BY <1>0, <1>1 DEF IInv, Journaled, KnownKeys, NamesTyped
<1>q. \A v \in Writers : \A j \in Keys : <<v, j>> = ref => j = ref[2]
  BY <1>1
<1>7. Typed'
  <2>1. NamesTyped'
    BY <1>0, <1>6 DEF NamesTyped
  <2>2. KeeperTyped'
    BY <1>6
  <2> QED BY <1>4, <1>5, <2>1, <2>2 DEF Typed
<1>8. Exclusion'
  BY <1>0, <1>4, <1>5, <1>6, <1>p, <1>q, Members DEF IInv, Exclusion, InTxn, SameWriters, SameFs
<1>9. KnownKeys'
  BY <1>0, <1>4, <1>5, <1>6, <1>p, <1>q, Members DEF IInv, KnownKeys, SameWriters, SameFs
<1>10. Uploads'
  <2> SUFFICES ASSUME NEW v \in Writers, writer'[v].pc \in {"open", "failed"}, writer'[v].op = "upload",
                      NEW j \in writer'[v].keys
               PROVE  Owned(v, j)'
    BY DEF Uploads, InTxn
  <2>0. j \in Keys
    BY <1>4 DEF WriterTyped, IsWriter
  <2> QED BY <1>0, <1>4, <1>5, <1>6, <1>p, <1>q, Members, <2>0 DEF IInv, Uploads, Owned, InTxn, SameWriters, SameFs
<1>11. Deletes'
  BY <1>0, <1>4, <1>5, <1>6, <1>p, <1>q, Members DEF IInv, Deletes, InTxn, SameWriters, SameFs
<1>12. Ledgers'
  BY <1>0, <1>4, <1>5, <1>6, <1>p, <1>q, Members DEF IInv, Ledgers, InTxn, NoLedger, SameWriters, SameFs
<1>13. FileSteps'
  <2> SUFFICES ASSUME NEW b \in Processes PROVE Justified(b)'
    BY DEF FileSteps
  <2>1. CASE b = Keeper
    BY <1>0, <1>4, <1>5, <1>6, <1>p, <1>q, Members, <2>1 DEF IInv, FileSteps, Justified, SameWriters, SameFs
  <2>2. CASE b # Keeper
    BY <1>0, <1>4, <1>5, <1>6, <1>p, <1>q, Members, <2>2 DEF IInv, FileSteps, Justified, SameWriters, SameFs
  <2> QED BY <2>1, <2>2
<1>14. Journaled'
  BY <1>0, <1>4, <1>5, <1>6, <1>p, <1>q, Members DEF IInv, Journaled, SameWriters, SameFs
<1>15. BytesKept'
  <2> SUFFICES ASSUME NEW j \in Keys, rows'[j] = "live"
               PROVE  j \in files' \/ \E v \in Writers : Solid(v, j)'
    BY DEF BytesKept, LiveKeys
  <2>1. CASE rows[j] = "live" /\ j \in files
    BY <1>0, <1>4, <1>5, <1>6, <1>p, <1>q, Members, <2>1 DEF IInv, SameWriters, SameFs, Solid
  <2>2. CASE rows[j] = "live" /\ \E v \in Writers : Solid(v, j)
    <3>1. PICK v \in Writers : Solid(v, j)
      BY <2>2
    <3>2. Solid(v, j)'
      BY <1>0, <1>4, <1>5, <1>6, <1>p, <1>q, Members, <3>1 DEF IInv, SameWriters, SameFs, Solid
    <3> QED BY <3>2
  <2>3. rows[j] = "live"
    BY <1>0, <1>4, <1>5, <1>6, <1>p, <1>q, Members DEF IInv, SameWriters, SameFs
  <2> QED BY <2>1, <2>2, <2>3 DEF IInv, BytesKept, LiveKeys
<1>16. Traced'
  <2>1. ASSUME mishaps = 0, NEW v \in Writers, NEW j \in Keys PROVE LinkTraced(v, j)'
    <3>1. CASE v = Keeper
      BY <1>0, <1>4, <1>5, <1>6, <1>p, <1>q, Members, <2>1, <3>1 DEF IInv, Traced, LinkTraced, FileSteps, Justified, SameWriters, SameFs
    <3>2. CASE v # Keeper
      BY <1>0, <1>4, <1>5, <1>6, <1>p, <1>q, Members, <2>1, <3>2 DEF IInv, Traced, LinkTraced, FileSteps, Justified, SameWriters, SameFs
    <3> QED BY <3>1, <3>2
  <2>2. ASSUME mishaps = 0, NEW j \in Keys, j \in files', rows'[j] = "none"
        PROVE  \E v \in Writers : writer'[v].ledger[j] \in {"created", "createdBack"}
    <3>1. CASE j \in files /\ rows[j] = "none"
      <4>1. PICK v \in Writers : writer[v].ledger[j] \in {"created", "createdBack"}
        BY <2>2, <3>1 DEF IInv, Traced, FileTraced
      <4>2. writer'[v].ledger[j] \in {"created", "createdBack"}
        BY <1>0, <1>4, <1>5, <1>6, <1>p, <1>q, Members, <2>2, <3>1, <4>1 DEF IInv, SameWriters, SameFs
      <4> QED BY <4>2
    <3>2. CASE ~(j \in files /\ rows[j] = "none")
      BY <1>0, <1>4, <1>5, <1>6, <1>p, <1>q, Members, <2>2, <3>2 DEF IInv, FileSteps, Justified, SameWriters, SameFs
    <3> QED BY <3>1, <3>2
  <2> QED BY <1>6, <2>1, <2>2 DEF Traced, FileTraced
<1>17. Passing'
  BY <1>0, <1>4, <1>5, <1>6, <1>p, <1>q, Members DEF IInv, Passing, InTxn, SameWriters, SameFs
<1> QED BY <1>7, <1>8, <1>9, <1>10, <1>11, <1>12, <1>13, <1>14, <1>15, <1>16, <1>17 DEF IInv

LEMMA KeeperEndIInv ==
    ASSUME StorageAssumption, IInv, KeeperEnd PROVE IInv'
<1>0. WriterTyped /\ FsTyped /\ NamesTyped /\ KeeperTyped
  BY DEF IInv, Typed
<1>4. WriterTyped' /\ writer' = writer
  BY <1>0 DEF KeeperEnd, WriterTyped
<1>5. FsTyped' /\ fs' = fs
  BY <1>0 DEF KeeperEnd, FsTyped, Free
<1>6. /\ fs[Keeper].step = "none" /\ keeper'.pc = "idle" /\ keeper.pc # "idle" /\ KeeperTyped'
      /\ UNCHANGED <<rows, used, files, trash, journals>>
      /\ mishaps' = mishaps
  BY <1>0, Members DEF KeeperEnd, KeeperTyped, KeeperFields, FsTyped
<1>7. Typed'
  <2>1. NamesTyped'
    BY <1>0, <1>6 DEF NamesTyped
  <2>2. KeeperTyped'
    BY <1>6
  <2> QED BY <1>4, <1>5, <2>1, <2>2 DEF Typed
<1>8. Exclusion'
  BY <1>0, <1>4, <1>5, <1>6, Members DEF IInv, Exclusion, InTxn, SameWriters, SameFs
<1>9. KnownKeys'
  BY <1>0, <1>4, <1>5, <1>6, Members DEF IInv, KnownKeys, SameWriters, SameFs
<1>10. Uploads'
  <2> SUFFICES ASSUME NEW v \in Writers, writer'[v].pc \in {"open", "failed"}, writer'[v].op = "upload",
                      NEW j \in writer'[v].keys
               PROVE  Owned(v, j)'
    BY DEF Uploads, InTxn
  <2>0. j \in Keys
    BY <1>4 DEF WriterTyped, IsWriter
  <2> QED BY <1>0, <1>4, <1>5, <1>6, Members, <2>0 DEF IInv, Uploads, Owned, InTxn, SameWriters, SameFs
<1>11. Deletes'
  BY <1>0, <1>4, <1>5, <1>6, Members DEF IInv, Deletes, InTxn, SameWriters, SameFs
<1>12. Ledgers'
  BY <1>0, <1>4, <1>5, <1>6, Members DEF IInv, Ledgers, InTxn, NoLedger, SameWriters, SameFs
<1>13. FileSteps'
  <2> SUFFICES ASSUME NEW b \in Processes PROVE Justified(b)'
    BY DEF FileSteps
  <2>1. CASE b = Keeper
    BY <1>0, <1>4, <1>5, <1>6, Members, <2>1 DEF IInv, FileSteps, Justified, SameWriters, SameFs
  <2>2. CASE b # Keeper
    BY <1>0, <1>4, <1>5, <1>6, Members, <2>2 DEF IInv, FileSteps, Justified, SameWriters, SameFs
  <2> QED BY <2>1, <2>2
<1>14. Journaled'
  BY <1>0, <1>4, <1>5, <1>6, Members DEF IInv, Journaled, SameWriters, SameFs
<1>15. BytesKept'
  <2> SUFFICES ASSUME NEW j \in Keys, rows'[j] = "live"
               PROVE  j \in files' \/ \E v \in Writers : Solid(v, j)'
    BY DEF BytesKept, LiveKeys
  <2>1. CASE rows[j] = "live" /\ j \in files
    BY <1>0, <1>4, <1>5, <1>6, Members, <2>1 DEF IInv, SameWriters, SameFs, Solid
  <2>2. CASE rows[j] = "live" /\ \E v \in Writers : Solid(v, j)
    <3>1. PICK v \in Writers : Solid(v, j)
      BY <2>2
    <3>2. Solid(v, j)'
      BY <1>0, <1>4, <1>5, <1>6, Members, <3>1 DEF IInv, SameWriters, SameFs, Solid
    <3> QED BY <3>2
  <2>3. rows[j] = "live"
    BY <1>0, <1>4, <1>5, <1>6, Members DEF IInv, SameWriters, SameFs
  <2> QED BY <2>1, <2>2, <2>3 DEF IInv, BytesKept, LiveKeys
<1>16. Traced'
  <2>1. ASSUME mishaps = 0, NEW v \in Writers, NEW j \in Keys PROVE LinkTraced(v, j)'
    <3>1. CASE v = Keeper
      BY <1>0, <1>4, <1>5, <1>6, Members, <2>1, <3>1 DEF IInv, Traced, LinkTraced, FileSteps, Justified, SameWriters, SameFs
    <3>2. CASE v # Keeper
      BY <1>0, <1>4, <1>5, <1>6, Members, <2>1, <3>2 DEF IInv, Traced, LinkTraced, FileSteps, Justified, SameWriters, SameFs
    <3> QED BY <3>1, <3>2
  <2>2. ASSUME mishaps = 0, NEW j \in Keys, j \in files', rows'[j] = "none"
        PROVE  \E v \in Writers : writer'[v].ledger[j] \in {"created", "createdBack"}
    <3>1. CASE j \in files /\ rows[j] = "none"
      <4>1. PICK v \in Writers : writer[v].ledger[j] \in {"created", "createdBack"}
        BY <2>2, <3>1 DEF IInv, Traced, FileTraced
      <4>2. writer'[v].ledger[j] \in {"created", "createdBack"}
        BY <1>0, <1>4, <1>5, <1>6, Members, <2>2, <3>1, <4>1 DEF IInv, SameWriters, SameFs
      <4> QED BY <4>2
    <3>2. CASE ~(j \in files /\ rows[j] = "none")
      BY <1>0, <1>4, <1>5, <1>6, Members, <2>2, <3>2 DEF IInv, FileSteps, Justified, SameWriters, SameFs
    <3> QED BY <3>1, <3>2
  <2> QED BY <1>6, <2>1, <2>2 DEF Traced, FileTraced
<1>17. Passing'
  BY <1>0, <1>4, <1>5, <1>6, Members DEF IInv, Passing, InTxn, SameWriters, SameFs
<1> QED BY <1>7, <1>8, <1>9, <1>10, <1>11, <1>12, <1>13, <1>14, <1>15, <1>16, <1>17 DEF IInv

LEMMA CrashWriterIInv ==
    ASSUME StorageAssumption, IInv, NEW w \in Writers, CrashWriter(w) PROVE IInv'
<1> DEFINE r == [writer[w] EXCEPT !.pc = "dead", !.keys = {}, !.todo = {}, !.ledger = NoLedger]
<1>0. WriterTyped /\ FsTyped /\ NamesTyped /\ KeeperTyped /\ IsWriter(writer[w])
  BY DEF IInv, Typed, WriterTyped
<1>1. writer' = [writer EXCEPT ![w] = r]
  BY DEF CrashWriter
<1>2. /\ r = [f \in WriterFields |-> r[f]]
      /\ r.pc = "dead"
      /\ r.op = writer[w].op
      /\ r.todo = {}
      /\ r.keys = {}
      /\ r.ledger = NoLedger
  BY <1>0 DEF IsWriter, WriterFields
<1> HIDE DEF r
<1>3. IsWriter(r)
  BY <1>0, <1>2 DEF IsWriter, IsLedger, LedgerStates, LiveKeys, NoLedger
<1>4. /\ WriterTyped' /\ SameWriters(w)
      /\ writer'[w].pc = "dead"
      /\ writer'[w].op = writer[w].op
      /\ writer'[w].todo = {}
      /\ writer'[w].keys = {}
      /\ writer'[w].ledger = NoLedger
  BY <1>0, <1>1, <1>2, <1>3, WriterMoves
<1>5. FsTyped' /\ SameFs(w) /\ fs'[w].step = "none"
  BY <1>0, Members, RestsMoves DEF CrashWriter
<1>6. /\ UNCHANGED <<rows, used, files, trash, journals, keeper>>
  BY <1>0 DEF CrashWriter
<1>m. mishaps' \in Nat /\ mishaps' # 0
  BY <1>0 DEF CrashWriter, Mishap, NamesTyped
<1>p. \A j \in Keys : writer'[w].ledger[j] = "none"
  BY <1>4 DEF NoLedger
<1>7. Typed'
  <2>1. NamesTyped'
    BY <1>0, <1>6, <1>m DEF NamesTyped
  <2>2. KeeperTyped'
    BY <1>0, <1>6 DEF KeeperTyped, KeeperFields
  <2> QED BY <1>4, <1>5, <2>1, <2>2 DEF Typed
<1>8. Exclusion'
  BY <1>0, <1>4, <1>5, <1>6, <1>p, Members DEF IInv, Exclusion, InTxn, SameWriters, SameFs
<1>9. KnownKeys'
  BY <1>0, <1>4, <1>5, <1>6, <1>p, Members DEF IInv, KnownKeys, SameWriters, SameFs
<1>10. Uploads'
  <2> SUFFICES ASSUME NEW v \in Writers, writer'[v].pc \in {"open", "failed"}, writer'[v].op = "upload",
                      NEW j \in writer'[v].keys
               PROVE  Owned(v, j)'
    BY DEF Uploads, InTxn
  <2>0. j \in Keys
    BY <1>4 DEF WriterTyped, IsWriter
  <2>1. CASE v = w
    BY <1>0, <1>4, <1>5, <1>6, <1>p, Members, <2>0, <2>1 DEF IInv, Uploads, Owned, InTxn, SameWriters, SameFs
  <2>2. CASE v # w
    BY <1>0, <1>4, <1>5, <1>6, <1>p, Members, <2>0, <2>2 DEF IInv, Uploads, Owned, InTxn, SameWriters, SameFs
  <2> QED BY <2>1, <2>2
<1>11. Deletes'
  BY <1>0, <1>4, <1>5, <1>6, <1>p, Members DEF IInv, Deletes, InTxn, SameWriters, SameFs
<1>12. Ledgers'
  BY <1>0, <1>4, <1>5, <1>6, <1>p, Members DEF IInv, Ledgers, InTxn, NoLedger, SameWriters, SameFs
<1>13. FileSteps'
  <2> SUFFICES ASSUME NEW b \in Processes PROVE Justified(b)'
    BY DEF FileSteps
  <2>1. CASE b = w
    BY <1>0, <1>4, <1>5, <1>6, <1>p, Members, <2>1 DEF IInv, FileSteps, Justified, SameWriters, SameFs
  <2>2. CASE b # w
    BY <1>0, <1>4, <1>5, <1>6, <1>p, Members, <2>2 DEF IInv, FileSteps, Justified, SameWriters, SameFs
  <2> QED BY <2>1, <2>2
<1>14. Journaled'
  BY <1>0, <1>4, <1>5, <1>6, <1>p, Members DEF IInv, Journaled, SameWriters, SameFs
<1>15. BytesKept'
  <2> SUFFICES ASSUME NEW j \in Keys, rows'[j] = "live"
               PROVE  j \in files' \/ \E v \in Writers : Solid(v, j)'
    BY DEF BytesKept, LiveKeys
  <2>1. CASE rows[j] = "live" /\ j \in files
    BY <1>0, <1>4, <1>5, <1>6, <1>p, Members, <2>1 DEF IInv, SameWriters, SameFs, Solid
  <2>2. CASE rows[j] = "live" /\ \E v \in Writers : Solid(v, j)
    <3>1. PICK v \in Writers : Solid(v, j)
      BY <2>2
    <3>2. Solid(v, j)'
      BY <1>0, <1>4, <1>5, <1>6, <1>p, Members, <3>1 DEF IInv, SameWriters, SameFs, Solid
    <3> QED BY <3>2
  <2>3. rows[j] = "live"
    BY <1>0, <1>4, <1>5, <1>6, <1>p, Members DEF IInv, SameWriters, SameFs
  <2> QED BY <2>1, <2>2, <2>3 DEF IInv, BytesKept, LiveKeys
<1>16. Traced'
  BY <1>m DEF Traced
<1>17. Passing'
  BY <1>0, <1>4, <1>5, <1>6, <1>p, Members DEF IInv, Passing, InTxn, SameWriters, SameFs, Exclusion, Ledgers
<1> QED BY <1>7, <1>8, <1>9, <1>10, <1>11, <1>12, <1>13, <1>14, <1>15, <1>16, <1>17 DEF IInv

LEMMA CrashKeeperIInv ==
    ASSUME StorageAssumption, IInv, CrashKeeper PROVE IInv'
<1>0. WriterTyped /\ FsTyped /\ NamesTyped /\ KeeperTyped
  BY DEF IInv, Typed
<1>4. WriterTyped' /\ writer' = writer
  BY <1>0 DEF CrashKeeper, WriterTyped
<1>5. FsTyped' /\ SameFs(Keeper) /\ fs'[Keeper].step = "none"
  BY <1>0, Members, RestsMoves DEF CrashKeeper
<1>6. /\ keeper'.pc = "idle" /\ keeper.pc # "idle" /\ KeeperTyped'
      /\ UNCHANGED <<rows, used, files, trash, journals>>
  BY <1>0 DEF CrashKeeper, KeeperTyped, KeeperFields
<1>m. mishaps' \in Nat /\ mishaps' # 0
  BY <1>0 DEF CrashKeeper, Mishap, NamesTyped
<1>7. Typed'
  <2>1. NamesTyped'
    BY <1>0, <1>6, <1>m DEF NamesTyped
  <2>2. KeeperTyped'
    BY <1>6
  <2> QED BY <1>4, <1>5, <2>1, <2>2 DEF Typed
<1>8. Exclusion'
  BY <1>0, <1>4, <1>5, <1>6, Members DEF IInv, Exclusion, InTxn, SameWriters, SameFs
<1>9. KnownKeys'
  BY <1>0, <1>4, <1>5, <1>6, Members DEF IInv, KnownKeys, SameWriters, SameFs
<1>10. Uploads'
  <2> SUFFICES ASSUME NEW v \in Writers, writer'[v].pc \in {"open", "failed"}, writer'[v].op = "upload",
                      NEW j \in writer'[v].keys
               PROVE  Owned(v, j)'
    BY DEF Uploads, InTxn
  <2>0. j \in Keys
    BY <1>4 DEF WriterTyped, IsWriter
  <2> QED BY <1>0, <1>4, <1>5, <1>6, Members, <2>0 DEF IInv, Uploads, Owned, InTxn, SameWriters, SameFs
<1>11. Deletes'
  BY <1>0, <1>4, <1>5, <1>6, Members DEF IInv, Deletes, InTxn, SameWriters, SameFs
<1>12. Ledgers'
  BY <1>0, <1>4, <1>5, <1>6, Members DEF IInv, Ledgers, InTxn, NoLedger, SameWriters, SameFs
<1>13. FileSteps'
  <2> SUFFICES ASSUME NEW b \in Processes PROVE Justified(b)'
    BY DEF FileSteps
  <2>1. CASE b = Keeper
    BY <1>0, <1>4, <1>5, <1>6, Members, <2>1 DEF IInv, FileSteps, Justified, SameWriters, SameFs
  <2>2. CASE b # Keeper
    BY <1>0, <1>4, <1>5, <1>6, Members, <2>2 DEF IInv, FileSteps, Justified, SameWriters, SameFs
  <2> QED BY <2>1, <2>2
<1>14. Journaled'
  BY <1>0, <1>4, <1>5, <1>6, Members DEF IInv, Journaled, SameWriters, SameFs
<1>15. BytesKept'
  <2> SUFFICES ASSUME NEW j \in Keys, rows'[j] = "live"
               PROVE  j \in files' \/ \E v \in Writers : Solid(v, j)'
    BY DEF BytesKept, LiveKeys
  <2>1. CASE rows[j] = "live" /\ j \in files
    BY <1>0, <1>4, <1>5, <1>6, Members, <2>1 DEF IInv, SameWriters, SameFs, Solid
  <2>2. CASE rows[j] = "live" /\ \E v \in Writers : Solid(v, j)
    <3>1. PICK v \in Writers : Solid(v, j)
      BY <2>2
    <3>2. Solid(v, j)'
      BY <1>0, <1>4, <1>5, <1>6, Members, <3>1 DEF IInv, SameWriters, SameFs, Solid
    <3> QED BY <3>2
  <2>3. rows[j] = "live"
    BY <1>0, <1>4, <1>5, <1>6, Members DEF IInv, SameWriters, SameFs
  <2> QED BY <2>1, <2>2, <2>3 DEF IInv, BytesKept, LiveKeys
<1>16. Traced'
  BY <1>m DEF Traced
<1>17. Passing'
  BY <1>0, <1>4, <1>5, <1>6, Members DEF IInv, Passing, InTxn, SameWriters, SameFs
<1> QED BY <1>7, <1>8, <1>9, <1>10, <1>11, <1>12, <1>13, <1>14, <1>15, <1>16, <1>17 DEF IInv

----------------------------------------------------------------------------
LEMMA InitIInv == ASSUME StorageAssumption, Init PROVE IInv
<1>1. PICK S \in SUBSET Keys :
        /\ rows = [k \in Keys |-> IF k \in S THEN "live" ELSE "none"]
        /\ used = S /\ files = S /\ trash = {} /\ journals = {}
        /\ writer = [w \in Writers |-> [pc |-> "idle", op |-> "none", todo |-> {},
                                         keys |-> {}, ledger |-> NoLedger]]
        /\ fs = [a \in Writers \cup {Keeper} |-> Idle]
        /\ keeper = [pc |-> "idle", todo |-> {}, clean |-> TRUE, alone |-> TRUE, passes |-> 0]
        /\ mishaps = 0
  BY DEF Init
<1>2. NamesTyped /\ KeeperTyped /\ keeper.pc = "idle"
  BY <1>1 DEF NamesTyped, KeeperTyped, KeeperFields
<1>3. /\ \A w \in Writers : /\ writer[w].pc = "idle" /\ writer[w].keys = {} /\ writer[w].todo = {}
                            /\ writer[w].ledger = NoLedger
                            /\ writer[w] = [f \in WriterFields |-> writer[w][f]]
      /\ writer = [w \in Writers |-> writer[w]]
  BY <1>1 DEF WriterFields
<1>4. IsLedger(NoLedger) /\ \A k \in Keys : NoLedger[k] = "none"
  BY DEF IsLedger, NoLedger, LedgerStates
<1>5. WriterTyped
  BY <1>3, <1>4 DEF WriterTyped, IsWriter
<1>6. /\ fs = [a \in Processes |-> fs[a]]
      /\ \A a \in Processes : Free(a) /\ fs[a].step = "none"
  BY <1>1 DEF Processes, Free, Idle
<1>7. Typed
  BY <1>2, <1>5, <1>6 DEF Typed, FsTyped
<1>8. Exclusion /\ Uploads /\ Deletes
  BY <1>2, <1>3, <1>6, Members DEF Exclusion, Uploads, Deletes, InTxn
<1>9. KnownKeys /\ Ledgers /\ FileSteps /\ Journaled
  BY <1>1, <1>3, <1>4, <1>6, Members DEF KnownKeys, Ledgers, FileSteps, Justified, Journaled, InTxn
<1>10. BytesKept
  BY <1>1 DEF BytesKept, LiveKeys
<1>11. Traced /\ Passing
  BY <1>1, <1>2 DEF Traced, LinkTraced, FileTraced, Passing
<1> QED BY <1>7, <1>8, <1>9, <1>10, <1>11 DEF IInv

LEMMA StutterIInv == ASSUME IInv, UNCHANGED vars PROVE IInv'
<1>1. UNCHANGED <<rows, used, files, trash, journals, writer, fs, keeper, mishaps>>
  BY DEF vars
<1>2. Typed'
  BY <1>1 DEF IInv, Typed, NamesTyped, WriterTyped, FsTyped, KeeperTyped, Free
<1>3. Exclusion' /\ KnownKeys' /\ Uploads' /\ Deletes'
  BY <1>1 DEF IInv, Exclusion, KnownKeys, Uploads, Owned, Deletes, InTxn
<1>4. Ledgers' /\ FileSteps' /\ Journaled'
  BY <1>1 DEF IInv, Ledgers, InTxn, FileSteps, Justified, Journaled
<1>5. BytesKept'
  BY <1>1 DEF IInv, BytesKept, LiveKeys, Solid
<1>6. Traced' /\ Passing'
  BY <1>1 DEF IInv, Traced, LinkTraced, FileTraced, Passing, InTxn
<1> QED BY <1>2, <1>3, <1>4, <1>5, <1>6 DEF IInv

LEMMA StepIInv == ASSUME StorageAssumption, IInv, [Next]_vars PROVE IInv'

<1>1. ASSUME NEW w \in Writers, BeginUpload(w) PROVE IInv'
  BY <1>1, BeginUploadIInv
<1>2. ASSUME NEW w \in Writers, BeginDelete(w) PROVE IInv'
  BY <1>2, BeginDeleteIInv
<1>3. ASSUME NEW w \in Writers, StageLink(w) PROVE IInv'
  BY <1>3, StageLinkIInv
<1>4. ASSUME NEW w \in Writers, StageUnlink(w) PROVE IInv'
  BY <1>4, StageUnlinkIInv
<1>5. ASSUME NEW w \in Writers, StageFails(w) PROVE IInv'
  BY <1>5, StageFailsIInv
<1>6. ASSUME NEW w \in Writers, Commit(w) PROVE IInv'
  BY <1>6, CommitIInv
<1>7. ASSUME NEW w \in Writers, Rollback(w) PROVE IInv'
  BY <1>7, RollbackIInv
<1>8. ASSUME NEW w \in Writers, Finish(w) PROVE IInv'
  BY <1>8, FinishIInv
<1>9. ASSUME NEW w \in Writers, SettleLeftovers(w) PROVE IInv'
  BY <1>9, SettleLeftoversIInv
<1>10. ASSUME NEW w \in Writers, CrashWriter(w) PROVE IInv'
  BY <1>10, CrashWriterIInv
<1>11. ASSUME NEW w \in Writers, NEW k \in Keys, SaveFile(w, k) PROVE IInv'
  BY <1>11, SaveFileIInv
<1>12. ASSUME NEW w \in Writers, NEW k \in Keys, AbandonSave(w, k) PROVE IInv'
  BY <1>12, AbandonSaveIInv
<1>13. ASSUME NEW w \in Writers, NEW k \in Keys, StageJournal(w, k) PROVE IInv'
  BY <1>13, StageJournalIInv
<1>14. ASSUME NEW w \in Writers, NEW k \in Keys, Check(w, k) PROVE IInv'
  BY <1>14, CheckIInv
<1>15. ASSUME NEW a \in Processes, RemoveFile(a) PROVE IInv'
  BY <1>15, RemoveFileIInv
<1>16. ASSUME NEW a \in Processes, RestoreLink(a) PROVE IInv'
  BY <1>16, RestoreLinkIInv
<1>17. ASSUME NEW a \in Processes, DropLink(a) PROVE IInv'
  BY <1>17, DropLinkIInv
<1>18. ASSUME NEW a \in Processes, DropJournal(a) PROVE IInv'
  BY <1>18, DropJournalIInv
<1>19. ASSUME NEW a \in Processes, FsFails(a) PROVE IInv'
  BY <1>19, FsFailsIInv
<1>20. ASSUME KeeperStart PROVE IInv'
  BY <1>20, KeeperStartIInv
<1>21. ASSUME KeeperTrash PROVE IInv'
  BY <1>21, KeeperTrashIInv
<1>22. ASSUME KeeperEnd PROVE IInv'
  BY <1>22, KeeperEndIInv
<1>23. ASSUME CrashKeeper PROVE IInv'
  BY <1>23, CrashKeeperIInv
<1>24. ASSUME NEW k \in Keys, KeeperFile(k) PROVE IInv'
  BY <1>24, KeeperFileIInv
<1>25. ASSUME NEW ref \in Refs, KeeperJournal(ref) PROVE IInv'
  BY <1>25, KeeperJournalIInv
<1>26. ASSUME NEW entry \in Keys \cup Refs, KeeperSkips(entry) PROVE IInv'
  BY <1>26, KeeperSkipsIInv
<1> QED BY <1>1, <1>2, <1>3, <1>4, <1>5, <1>6, <1>7, <1>8, <1>9, <1>10, <1>11, <1>12, <1>13, <1>14, <1>15, <1>16, <1>17, <1>18, <1>19, <1>20, <1>21, <1>22, <1>23, <1>24, <1>25, <1>26, StutterIInv DEF Next, FsStep, Processes

LEMMA SpecIInv == ASSUME StorageAssumption PROVE Spec => []IInv
<1>1. Init => IInv
  BY InitIInv
<1>2. IInv /\ [Next]_vars => IInv'
  BY StepIInv
<1> QED BY <1>1, <1>2, PTL DEF Spec

\* The bytes of a live row are never lost, whatever is killed or fails where
\* (candidate_document_service.py, staging.py, storage_recovery.py,
\* maintenance.py): the original name is there, or a staged link and its journal.
THEOREM StorageBytesSafe == Spec => []ReferencedBytesSafe
<1>1. IInv => ReferencedBytesSafe
  BY DEF IInv, BytesKept, Solid, ReferencedBytesSafe
<1> QED BY <1>1, SpecIInv, StorageAssumption, PTL

\* An upload that may still commit keeps its original: no compensation of another
\* session and no maintenance pass takes it for an orphan.
THEOREM StorageInFlightSafe == Spec => []InFlightSafe
<1>1. IInv => InFlightSafe
  BY DEF IInv, Uploads, Owned, InFlightSafe
<1> QED BY <1>1, SpecIInv, StorageAssumption, PTL

\* All or nothing without a restart: once every session has settled, a failed
\* delete has put every asset back and a failed upload has left nothing
\* (storage_recovery.py, settle and settle_leftovers).
THEOREM StorageCompensated == Spec => []Compensated
<1>1. IInv => Compensated
  <2> SUFFICES ASSUME IInv, AllSettled PROVE LiveKeys \subseteq files /\ \A k \in files : rows[k] # "none"
    BY DEF Compensated
  <2>0. files \subseteq Keys
    BY DEF IInv, Typed, NamesTyped
  <2>1. \A w \in Writers : fs[w].step = "none" /\ \A k \in Keys : writer[w].ledger[k] = "none"
    BY DEF IInv, AllSettled, Settled, NoLedger, Ledgers, InTxn
  <2>2. \A w \in Writers, k \in Keys : <<w, k>> \notin trash
    BY <2>1 DEF IInv, AllSettled, Traced, LinkTraced
  <2>3. LiveKeys \subseteq files
    BY <2>2 DEF IInv, BytesKept, LiveKeys, Solid
  <2>4. \A k \in files : rows[k] # "none"
    BY <2>0, <2>1 DEF IInv, AllSettled, Traced, FileTraced
  <2> QED BY <2>3, <2>4
<1> QED BY <1>1, SpecIInv, StorageAssumption, PTL

\* A maintenance pass that ends without an unresolved entry and with no session
\* settling beside it has repaired every earlier crash and failure
\* (maintenance.py, run_maintenance).
THEOREM StoragePassRepairs == Spec => PassRepairs
<1>1. IInv => (KeeperEnd /\ keeper.clean /\ keeper.alone => Tidy)
  <2> SUFFICES ASSUME IInv, KeeperEnd, keeper.clean, keeper.alone PROVE Tidy
    OBVIOUS
  <2>0. files \subseteq Keys /\ trash \subseteq journals
    BY DEF IInv, Typed, NamesTyped, Journaled
  <2>1. keeper.pc = "trash" /\ keeper.todo = {} /\ fs[Keeper].step = "none"
    BY Members, StorageAssumption DEF KeeperEnd, IInv, Typed, FsTyped
  <2>2. (\A k \in files : rows[k] = "live") /\ journals = {}
    BY <2>1 DEF IInv, Passing
  <2>3. LiveKeys \subseteq files
    BY <2>0, <2>2 DEF IInv, BytesKept, LiveKeys, Solid
  <2> QED BY <2>0, <2>2, <2>3 DEF Tidy, LiveKeys
<1> QED BY <1>1, SpecIInv, StorageAssumption, PTL DEF PassRepairs

==============================================================================
