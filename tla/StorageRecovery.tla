--------------------------- MODULE StorageRecovery ---------------------------
(***************************************************************************)
(* Originals on disk and the rows that reference them                      *)
(* (services/storage_recovery.py, storage/staging.py, the upload of        *)
(* services/candidate_document_service.py, the hard delete of              *)
(* services/candidate_service.py and the storage pass of                   *)
(* services/maintenance.py), for the assets of one candidate.              *)
(*                                                                         *)
(* File system and database commit separately.  A writer is one database   *)
(* session; it keeps a ledger of its file system effects, and once its     *)
(* transaction has ended it settles each of them against the rows as they  *)
(* are then.  The transaction's locks are gone by that time.  An action    *)
(* is one system call on the storage root, one query, or the end of a      *)
(* transaction: the process can be killed between any two of them.         *)
(***************************************************************************)
EXTENDS Naturals, FiniteSets

CONSTANTS
    Keys,        \* storage keys; each is generated once (uuid4)
    Writers,     \* database sessions that upload or delete
    Keeper,      \* the process that runs run_maintenance
    None,
    MaxMishaps,  \* bound: processes killed and system calls that fail
    MaxPasses    \* bound: maintenance passes that run to their end

ASSUME StorageAssumption ==
    /\ IsFiniteSet(Keys) /\ IsFiniteSet(Writers)
    /\ Keeper \notin Writers /\ None \notin Writers \X Keys
    /\ MaxMishaps \in Nat /\ MaxPasses \in Nat

VARIABLES
    rows,      \* key -> its durable row: none yet, live, deleted
    used,      \* the keys generated so far
    files,     \* the keys whose original name exists
    trash,     \* staged links, named by who staged what: <<writer, key>>
    journals,  \* the .json beside a staged link
    writer,    \* session -> its transaction and its ledger
    fs,        \* process -> the file operation it is in the middle of
    keeper,    \* the maintenance pass; "alone" remembers that no session was
               \* settling while it ran
    mishaps

vars == <<rows, used, files, trash, journals, writer, fs, keeper, mishaps>>

Refs == Writers \X Keys
LiveKeys == {k \in Keys : rows[k] = "live"}

Idle == [step |-> "none", ref |-> None]
NoLedger == [k \in Keys |-> "none"]

Init ==
    \E S \in SUBSET Keys :
        /\ rows = [k \in Keys |-> IF k \in S THEN "live" ELSE "none"]
        /\ used = S /\ files = S /\ trash = {} /\ journals = {}
        /\ writer = [w \in Writers |-> [pc |-> "idle", op |-> "none", todo |-> {},
                                         keys |-> {}, ledger |-> NoLedger]]
        /\ fs = [a \in Writers \cup {Keeper} |-> Idle]
        /\ keeper = [pc |-> "idle", todo |-> {}, clean |-> TRUE, alone |-> TRUE,
                    passes |-> 0]
        /\ mishaps = 0

Free(a) == fs[a] = Idle
Mishap == mishaps < MaxMishaps /\ mishaps' = mishaps + 1
Does(a, step, ref) == fs' = [fs EXCEPT ![a] = [step |-> step, ref |-> ref]]
Rests(a) == fs' = [fs EXCEPT ![a] = Idle]
InTxn(w) == writer[w].pc \in {"open", "failed"}

\* The tenant's advisory lock: shared by the writers' transactions, exclusive
\* for a maintenance pass.
KeeperAway == keeper.pc = "idle"

\* Locks of the Candidate row: SHARE for an upload, UPDATE for the delete.
NoDeleter == \A w \in Writers : ~(InTxn(w) /\ writer[w].op = "delete")
NoWriter == \A w \in Writers : ~InTxn(w)

TryLock == NoWriter
CandidateLives == \A k \in Keys : rows[k] # "deleted"

----------------------------------------------------------------------------
\* persist_candidate_document: save the original, track it, insert its rows in
\* a savepoint.
BeginUpload(w) ==
    /\ writer[w].pc = "idle" /\ CandidateLives /\ NoDeleter /\ KeeperAway
    /\ writer' = [writer EXCEPT ![w].pc = "open", ![w].op = "upload"]
    /\ UNCHANGED <<rows, used, files, trash, journals, fs, keeper, mishaps>>

SaveFile(w, k) ==
    /\ writer[w].pc = "open" /\ writer[w].op = "upload" /\ Free(w) /\ k \notin used
    /\ used' = used \cup {k}
    /\ files' = files \cup {k}
    /\ writer' = [writer EXCEPT ![w].keys = @ \cup {k}, ![w].ledger[k] = "created"]
    /\ UNCHANGED <<rows, trash, journals, fs, keeper, mishaps>>

\* abandon_created: the savepoint was rolled back; the caller goes on or fails.
AbandonSave(w, k) ==
    /\ writer[w].pc = "open" /\ Free(w) /\ writer[w].ledger[k] = "created"
    /\ Does(w, "remove", <<w, k>>)
    /\ \E pc \in {"open", "failed"} :
         writer' = [writer EXCEPT ![w].keys = @ \ {k}, ![w].ledger[k] = "createdBack",
                                  ![w].pc = pc]
    /\ UNCHANGED <<rows, used, files, trash, journals, keeper, mishaps>>

----------------------------------------------------------------------------
\* delete_candidate_cascade: every asset of the candidate is staged, then the
\* rows are deleted.
BeginDelete(w) ==
    /\ writer[w].pc = "idle" /\ CandidateLives /\ NoWriter /\ KeeperAway
    /\ LiveKeys # {}
    /\ writer' = [writer EXCEPT ![w].pc = "open", ![w].op = "delete",
                                ![w].keys = LiveKeys, ![w].todo = LiveKeys]
    /\ UNCHANGED <<rows, used, files, trash, journals, fs, keeper, mishaps>>

Staging(w) == writer[w].pc = "open" /\ writer[w].op = "delete"

\* stage_file: the journal is durable before the link, the link before the
\* original name goes.  An absent original stages to nothing.
StageJournal(w, k) ==
    /\ Staging(w) /\ Free(w) /\ k \in writer[w].todo
    /\ writer' = [writer EXCEPT ![w].todo = @ \ {k}]
    /\ IF k \in files THEN journals' = journals \cup {<<w, k>>} /\ Does(w, "journaled", <<w, k>>)
                      ELSE UNCHANGED <<journals, fs>>
    /\ UNCHANGED <<rows, used, files, trash, keeper, mishaps>>

\* The source vanished meanwhile: FileNotFoundError, the journal goes again.
StageLink(w) ==
    /\ fs[w].step = "journaled"
    /\ IF fs[w].ref[2] \in files
         THEN trash' = trash \cup {fs[w].ref} /\ Does(w, "linked", fs[w].ref)
              /\ UNCHANGED journals
         ELSE journals' = journals \ {fs[w].ref} /\ Rests(w) /\ UNCHANGED trash
    /\ UNCHANGED <<rows, used, files, writer, keeper, mishaps>>

StageUnlink(w) ==
    /\ fs[w].step = "linked"
    /\ files' = files \ {fs[w].ref[2]}
    /\ writer' = [writer EXCEPT ![w].ledger[fs[w].ref[2]] = "staged"]
    /\ Rests(w)
    /\ UNCHANGED <<rows, used, trash, journals, keeper, mishaps>>

\* A failed stage takes its own link and journal back, or leaves them to
\* maintenance (StorageStagingError); the transaction is lost either way.
StageFails(w) ==
    /\ Mishap /\ fs[w].step \in {"journaled", "linked"}
    /\ writer' = [writer EXCEPT ![w].pc = "failed"]
    /\ \/ /\ fs[w].step = "journaled"
          /\ journals' = journals \ {fs[w].ref} /\ Rests(w) /\ UNCHANGED trash
       \/ /\ fs[w].step = "linked"
          /\ trash' = trash \ {fs[w].ref} /\ Does(w, "drop", fs[w].ref) /\ UNCHANGED journals
       \/ fs[w].step = "linked" /\ Rests(w) /\ UNCHANGED <<trash, journals>>
    /\ UNCHANGED <<rows, used, files, keeper>>

----------------------------------------------------------------------------
\* _Ledger.mark, run by the session's after_commit and after_rollback events and
\* by rollback_with_recovery.
MarkCommitted(ledger) ==
    [k \in Keys |-> CASE ledger[k] = "created" -> "none"
                      [] ledger[k] = "staged" -> "stagedDurable"
                      [] OTHER -> ledger[k]]

\* Variant: the event handler also drops the originals of a lost transaction.
MarkBackDropsCreated(ledger) ==
    [k \in Keys |-> CASE ledger[k] = "created" -> "none"
                      [] ledger[k] = "staged" -> "stagedBack"
                      [] OTHER -> ledger[k]]

MarkBack(ledger) ==
    [k \in Keys |-> CASE ledger[k] = "created" -> "createdBack"
                      [] ledger[k] = "staged" -> "stagedBack"
                      [] OTHER -> ledger[k]]

Unsettled(ledger) == {k \in Keys : ledger[k] # "none"}

EndTxn(w, ledger) ==
    writer' = [writer EXCEPT ![w].pc = "settling", ![w].keys = {}, ![w].ledger = ledger,
                             ![w].todo = Unsettled(ledger)]

Ready(w) == writer[w].pc = "open" /\ Free(w) /\ (writer[w].op = "delete" => writer[w].todo = {})

RowsWritten(w) ==
    rows' = [k \in Keys |-> IF k \notin writer[w].keys THEN rows[k]
                            ELSE IF writer[w].op = "upload" THEN "live" ELSE "deleted"]

\* commit_with_recovery: the commit succeeds, or it is durable and the reply is
\* lost: the ledger is then marked rolled back.
Commit(w) ==
    /\ Ready(w)
    /\ RowsWritten(w)
    /\ \/ EndTxn(w, MarkCommitted(writer[w].ledger))
       \/ EndTxn(w, MarkBack(writer[w].ledger))
    /\ UNCHANGED <<used, files, trash, journals, fs, keeper, mishaps>>

\* rollback_with_recovery; the rollback event may be missing, which settles the
\* same way (UNKNOWN).
Rollback(w) ==
    /\ InTxn(w) /\ Free(w)
    /\ EndTxn(w, MarkBack(writer[w].ledger))
    /\ UNCHANGED <<rows, used, files, trash, journals, fs, keeper, mishaps>>

----------------------------------------------------------------------------
\* Variant: the original of a rolled-back upload goes without a look at the rows.
CheckTrustsEvent(w, k) ==
    /\ writer[w].pc = "settling" /\ Free(w) /\ k \in writer[w].todo
    /\ LET st == writer[w].ledger[k]
       IN /\ st = "createdBack" => Does(w, "remove", <<w, k>>)
          /\ st = "stagedBack" /\ rows[k] = "live" => Does(w, "restore", <<w, k>>)
          /\ st = "stagedBack" /\ rows[k] # "live" => Does(w, "purge", <<w, k>>)
          /\ st = "stagedDurable" => Does(w, "purge", <<w, k>>)
          /\ writer' = [writer EXCEPT ![w].todo = @ \ {k}]
    /\ UNCHANGED <<rows, used, files, trash, journals, keeper, mishaps>>

\* settle: one ledger entry is compared with the rows of a fresh transaction.
Check(w, k) ==
    /\ writer[w].pc = "settling" /\ Free(w) /\ k \in writer[w].todo
    /\ LET st == writer[w].ledger[k]
           kept == st = "createdBack" /\ rows[k] = "live"
       IN /\ kept => UNCHANGED fs
          /\ st = "createdBack" /\ rows[k] # "live" => Does(w, "remove", <<w, k>>)
          /\ st = "stagedBack" /\ rows[k] = "live" => Does(w, "restore", <<w, k>>)
          /\ st = "stagedBack" /\ rows[k] # "live" => Does(w, "purge", <<w, k>>)
          /\ st = "stagedDurable" => Does(w, "purge", <<w, k>>)
          /\ writer' = [writer EXCEPT ![w].todo = @ \ {k},
                          ![w].ledger[k] = IF kept THEN "none" ELSE st]
    /\ UNCHANGED <<rows, used, files, trash, journals, keeper, mishaps>>

\* The session ends, with or without unresolved entries.
Finish(w) ==
    /\ writer[w].pc = "settling" /\ Free(w) /\ writer[w].todo = {}
    /\ writer' = [writer EXCEPT ![w].pc = "done"]
    /\ UNCHANGED <<rows, used, files, trash, journals, fs, keeper, mishaps>>

\* settle_leftovers, and the second rollback_with_recovery of a failed delete.
SettleLeftovers(w) ==
    /\ writer[w].pc = "done" /\ Unsettled(writer[w].ledger) # {}
    /\ writer' = [writer EXCEPT ![w].pc = "settling", ![w].todo = Unsettled(writer[w].ledger)]
    /\ keeper' = [keeper EXCEPT !.alone = FALSE]
    /\ UNCHANGED <<rows, used, files, trash, journals, fs, mishaps>>

----------------------------------------------------------------------------
\* The file operations of a settling session or of a maintenance pass.  An entry
\* that was resolved leaves the ledger.
Resolved(a, k) ==
    writer' = IF a = Keeper THEN writer ELSE [writer EXCEPT ![a].ledger[k] = "none"]

RemoveFile(a) ==
    /\ fs[a].step = "remove"
    /\ files' = files \ {fs[a].ref[2]}
    /\ Resolved(a, fs[a].ref[2]) /\ Rests(a)
    /\ UNCHANGED <<rows, used, trash, journals, keeper, mishaps>>

\* restore_staged: back to the exact key, never over another object.  Without
\* the link there is nothing to restore (an earlier attempt did it).
RestoreLink(a) ==
    /\ fs[a].step = "restore"
    /\ IF fs[a].ref \in trash
         THEN files' = files \cup {fs[a].ref[2]} /\ Does(a, "unlink", fs[a].ref)
         ELSE UNCHANGED files /\ Does(a, "drop", fs[a].ref)
    /\ UNCHANGED <<rows, used, trash, journals, writer, keeper, mishaps>>

\* Variant: the journal goes before the link.
DropLinkLast(a) ==
    /\ fs[a].step \in {"unlink", "purge"}
    /\ journals' = journals \ {fs[a].ref}
    /\ Does(a, "drop", fs[a].ref)
    /\ UNCHANGED <<rows, used, files, trash, writer, keeper, mishaps>>

DropLink(a) ==
    /\ fs[a].step \in {"unlink", "purge"}
    /\ trash' = trash \ {fs[a].ref}
    /\ Does(a, "drop", fs[a].ref)
    /\ UNCHANGED <<rows, used, files, journals, writer, keeper, mishaps>>

DropJournal(a) ==
    /\ fs[a].step = "drop"
    /\ journals' = journals \ {fs[a].ref}
    /\ Resolved(a, fs[a].ref[2]) /\ Rests(a)
    /\ UNCHANGED <<rows, used, files, trash, keeper, mishaps>>

\* A system call fails: the entry stays in the ledger, or the pass is unresolved.
FsFails(a) ==
    /\ Mishap /\ fs[a].step \in {"remove", "restore", "unlink", "purge", "drop"}
    /\ Rests(a)
    /\ keeper' = IF a = Keeper THEN [keeper EXCEPT !.clean = FALSE] ELSE keeper
    /\ UNCHANGED <<rows, used, files, trash, journals, writer>>

FsStep(a) == RemoveFile(a) \/ RestoreLink(a) \/ DropLink(a) \/ DropJournal(a) \/ FsFails(a)

----------------------------------------------------------------------------
\* run_maintenance with apply: originals first, then journals.  Entries younger
\* than orphan_age_seconds are left for a later pass.
KeeperStart ==
    /\ keeper.pc = "idle" /\ keeper.passes < MaxPasses /\ TryLock
    /\ keeper' = [pc |-> "files", todo |-> files, clean |-> TRUE,
                  alone |-> \A w \in Writers : writer[w].pc # "settling",
                  passes |-> keeper.passes]
    /\ UNCHANGED <<rows, used, files, trash, journals, writer, fs, mishaps>>

KeeperSkips(entry) ==
    /\ keeper.pc # "idle" /\ Free(Keeper) /\ entry \in keeper.todo
    /\ keeper' = [keeper EXCEPT !.todo = @ \ {entry}, !.clean = FALSE]
    /\ UNCHANGED <<rows, used, files, trash, journals, writer, fs, mishaps>>

KeeperFile(k) ==
    /\ keeper.pc = "files" /\ Free(Keeper) /\ k \in keeper.todo
    /\ keeper' = [keeper EXCEPT !.todo = @ \ {k}]
    /\ files' = IF rows[k] = "live" THEN files ELSE files \ {k}
    /\ UNCHANGED <<rows, used, trash, journals, writer, fs, mishaps>>

\* Variant: a journal without its link is passed over.
KeeperTrashLinkedOnly ==
    /\ keeper.pc = "files" /\ keeper.todo = {}
    /\ keeper' = [keeper EXCEPT !.pc = "trash", !.todo = journals \cap trash]
    /\ UNCHANGED <<rows, used, files, trash, journals, writer, fs, mishaps>>

KeeperTrash ==
    /\ keeper.pc = "files" /\ keeper.todo = {}
    /\ keeper' = [keeper EXCEPT !.pc = "trash", !.todo = journals]
    /\ UNCHANGED <<rows, used, files, trash, journals, writer, fs, mishaps>>

\* A journal may go while the pass runs: a session settles it.
KeeperJournal(ref) ==
    /\ keeper.pc = "trash" /\ Free(Keeper) /\ ref \in keeper.todo
    /\ LET live == rows[ref[2]] = "live"
           lost == live /\ ref[2] \notin files /\ ref \notin trash
       IN /\ keeper' = [keeper EXCEPT !.todo = @ \ {ref},
                                      !.clean = @ /\ ~(ref \in journals /\ lost)]
          /\ IF ref \notin journals \/ lost THEN UNCHANGED fs
             ELSE Does(Keeper, IF live THEN "restore" ELSE "purge", ref)
    /\ UNCHANGED <<rows, used, files, trash, journals, writer, mishaps>>

KeeperEnd ==
    /\ keeper.pc = "trash" /\ keeper.todo = {} /\ Free(Keeper)
    /\ keeper' = [keeper EXCEPT !.pc = "idle", !.passes = @ + 1]
    /\ UNCHANGED <<rows, used, files, trash, journals, writer, fs, mishaps>>

\* The process is killed: the database rolls its transaction back and frees its
\* locks, the ledger is gone, the storage root stays as it is.
CrashWriter(w) ==
    /\ Mishap /\ writer[w].pc \in {"open", "failed", "settling"}
    /\ writer' = [writer EXCEPT ![w].pc = "dead", ![w].keys = {}, ![w].todo = {},
                                ![w].ledger = NoLedger]
    /\ Rests(w)
    /\ UNCHANGED <<rows, used, files, trash, journals, keeper>>

CrashKeeper ==
    /\ Mishap /\ keeper.pc # "idle"
    /\ keeper' = [keeper EXCEPT !.pc = "idle", !.todo = {}, !.clean = FALSE]
    /\ Rests(Keeper)
    /\ UNCHANGED <<rows, used, files, trash, journals, writer>>

----------------------------------------------------------------------------
Next ==
    \/ \E w \in Writers :
         \/ BeginUpload(w) \/ BeginDelete(w) \/ StageLink(w) \/ StageUnlink(w)
         \/ StageFails(w) \/ Commit(w) \/ Rollback(w) \/ Finish(w)
         \/ SettleLeftovers(w) \/ CrashWriter(w)
         \/ \E k \in Keys : SaveFile(w, k) \/ AbandonSave(w, k) \/ StageJournal(w, k)
                             \/ Check(w, k)
    \/ \E a \in Writers \cup {Keeper} : FsStep(a)
    \/ KeeperStart \/ KeeperTrash \/ KeeperEnd \/ CrashKeeper
    \/ \E k \in Keys : KeeperFile(k)
    \/ \E ref \in Refs : KeeperJournal(ref)
    \/ \E entry \in Keys \cup Refs : KeeperSkips(entry)

Spec == Init /\ [][Next]_vars

----------------------------------------------------------------------------
LedgerStates == {"none", "created", "createdBack", "staged", "stagedBack", "stagedDurable"}

TypeOK ==
    /\ rows \in [Keys -> {"none", "live", "deleted"}]
    /\ files \subseteq used /\ used \subseteq Keys
    /\ trash \subseteq Refs /\ journals \subseteq Refs
    /\ writer \in [Writers -> [pc : {"idle", "open", "failed", "settling", "done", "dead"},
                               op : {"none", "upload", "delete"}, todo : SUBSET Keys,
                               keys : SUBSET Keys, ledger : [Keys -> LedgerStates]]]
    /\ \A a \in Writers \cup {Keeper} :
          Free(a) \/ fs[a] \in [step : {"journaled", "linked", "remove", "restore", "unlink",
                                        "purge", "drop"}, ref : Refs]
    /\ keeper \in [pc : {"idle", "files", "trash"}, todo : SUBSET (Keys \cup Refs),
                   clean : BOOLEAN, alone : BOOLEAN, passes : 0..MaxPasses]
    /\ mishaps \in 0..MaxMishaps

\* The bytes of a live row are never lost, whatever is killed or fails where: if
\* the original name is gone, a staged link is there, and the journal that says
\* which key it belongs to.
ReferencedBytesSafe ==
    \A k \in LiveKeys : k \in files \/ \E w \in Writers : <<w, k>> \in trash \cap journals

\* A staged link never loses its journal: without it maintenance has to guess
\* the key from the content.
TrashIsJournaled == trash \subseteq journals

\* An upload that may still commit keeps its original: neither maintenance nor
\* another session's compensation takes it for an orphan.
InFlightSafe ==
    \A w \in Writers : InTxn(w) /\ writer[w].op = "upload" => writer[w].keys \subseteq files

\* The session has ended and resolved all it did.
Settled(w) == writer[w].pc \in {"idle", "done"} /\ writer[w].ledger = NoLedger
AllSettled == mishaps = 0 /\ \A w \in Writers : Settled(w)

\* All or nothing without a restart: when every session has settled, a failed
\* delete has put every asset back at its key and a failed upload left nothing.
Compensated ==
    AllSettled =>
        /\ LiveKeys \subseteq files
        /\ \A k \in files : rows[k] # "none"

\* A maintenance pass that reports no unresolved entry, had no session settling
\* beside it and left nothing out for its age has repaired every earlier crash
\* and failure: the original of each live row, and nothing else, is there.
Tidy == files = LiveKeys /\ trash = {} /\ journals = {}

PassRepairs ==
    [][KeeperEnd /\ keeper.clean /\ keeper.alone => Tidy]_vars

\* storage_recovery.py: the ledger re-checks the database before it compensates,
\* so a deleted candidate's bytes are never left behind.
DeletedBytesGone ==
    AllSettled => \A k \in files : rows[k] # "deleted"
============================================================================
