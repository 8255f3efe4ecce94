----------------------------- MODULE Artifacts -----------------------------
(***************************************************************************)
(* What the ingestion of one source leaves outside the database, and how   *)
(* it is cleaned up: the vectors in Pinecone (services/embedding_service), *)
(* the archived original in S3 (services/s3_service), the ledger of what   *)
(* failed attempts must take back (cleanup_tasks), the scheduler's runner  *)
(* over that ledger, and the deletion of the source.                       *)
(*                                                                         *)
(* An attempt is one run of a process_*_embeddings task or of _run_ocr:    *)
(* its name is the attempt token it was admitted under.  Capacity leases   *)
(* and counters are in Workers; here they are one more reason why a check  *)
(* or finalize may refuse.  The ledger itself is always written.           *)
(***************************************************************************)
EXTENDS Naturals, FiniteSets

CONSTANTS
  Attempt,     \* attempt tokens, each minted once
  Runner,      \* runs of retry_cleanup_tasks that may overlap
  Chunks,      \* upsert batches of the source's text
  Scenarios,   \* sets of events that a behaviour may have, of Event
  None

\* stall: a lease lapses under a worker that still runs.
\* write: the database raises on a row write of a worker that owns the row.
\* crash: a process dies.  delete: the reader deletes the source.
\* client: the Pinecone client cannot be built, which every call takes for there
\* being nothing to do.  answer: S3 has stored an upload, and answers an error.
Event == {"stall", "write", "crash", "delete", "client", "answer"}

ASSUME NamesAssumption ==
  /\ IsFiniteSet(Attempt) /\ IsFiniteSet(Runner)
  /\ Attempt \cap Runner = {} /\ None \notin Attempt \cup Runner
ASSUME ChunksAssumption == Chunks \in Nat \ {0}
ASSUME ScenariosAssumption == Scenarios \subseteq SUBSET Event

VARIABLES
  source,    \* the row of library_items
  vector,    \* whose vector Pinecone holds under each of the source's ids
  file,      \* the attempts whose archived original is in S3
  task,      \* cleanup_tasks, by attempt and artifact
  attempt,   \* the ingestion tasks
  runner,    \* the runs of retry_cleanup_tasks
  deleter,   \* the deletion of the source under way
  events

vars == <<source, vector, file, task, attempt, runner, deleter, events>>

Chunk == 1 .. Chunks
Kind == {"vectors", "s3"}
Claimant == Attempt \cup Runner

SourceRow == [state : {"present", "tombstoned", "gone"},
              last_processing_attempt_id : Attempt \cup {None},
              worker_attempt_id : Attempt \cup {None},
              live : BOOLEAN,                     \* its lease is ahead
              processed : BOOLEAN,
              file_url : Attempt \cup {None},     \* keys are attempt-scoped
              marked : Attempt \cup {None}]       \* cleanup_detail's attempt

\* The columns of cleanup_tasks.
Task == [state : {"none", "pending", "failed", "resolved"},
         claimed_by : Claimant \cup {None},
         leased : BOOLEAN]

AttemptState ==
  [pc : {"new", "archive", "store", "index", "upsert", "last", "finalize", "content",
         "record", "claim", "delete", "clear", "resolve", "release",
         "leave", "ended", "crashed"},
   archived : BOOLEAN,
   upserted : 0 .. Chunks,
   kind : Kind,              \* what is being cleaned up
   ok : BOOLEAN,             \* what the store answered
   handler : BOOLEAN]        \* the clean-up runs in the task's exception handler

RunnerState == [pc : {"idle", "delete", "resolve", "release"},
                attempt : Attempt \cup {None}, kind : Kind, ok : BOOLEAN]

Deleter == [pc : {"idle", "vectors", "file", "finish"}, ok : BOOLEAN]

NoTask == [state |-> "none", claimed_by |-> None, leased |-> FALSE]
NewAttempt == [pc |-> "new", archived |-> FALSE, upserted |-> 0, kind |-> "vectors",
               ok |-> FALSE, handler |-> FALSE]
IdleRunner == [pc |-> "idle", attempt |-> None, kind |-> "vectors", ok |-> FALSE]
IdleDeleter == [pc |-> "idle", ok |-> TRUE]

Init ==
  /\ source = [state |-> "present", last_processing_attempt_id |-> None,
               worker_attempt_id |-> None, live |-> FALSE, processed |-> FALSE,
               file_url |-> None, marked |-> None]
  /\ vector = [c \in Chunk |-> None]
  /\ file = {}
  /\ task = [a \in Attempt |-> [k \in Kind |-> NoTask]]
  /\ attempt = [a \in Attempt |-> NewAttempt]
  /\ runner = [r \in Runner |-> IdleRunner]
  /\ deleter = IdleDeleter
  /\ events \in Scenarios

-----------------------------------------------------------------------------
(* The attempts. *)

Goto(a, pc) == attempt' = [attempt EXCEPT ![a].pc = pc]

Ends(a, how) == attempt' = [attempt EXCEPT ![a] = [NewAttempt EXCEPT !.pc = how]]

\* _compensate_failed_attempt: the vectors, then what the attempt archived.
Compensate(a, handler) ==
  attempt' = [attempt EXCEPT ![a].pc = "record", ![a].upserted = 0, ![a].kind = "vectors",
                             ![a].ok = FALSE, ![a].handler = handler]

Running(a) == attempt[a].pc \notin {"new", "ended", "crashed"}

Exists == source.state # "gone"

\* The predicate of _atomic_ownership_write.
OwnsRow(a) == source.state = "present" /\ source.last_processing_attempt_id = a

\* renew_worker_attempt, which does not look at the tombstone.
RenewsAttempt(a) == Exists /\ source.worker_attempt_id = a

\* The first attempt comes with the upload, a later one with an OCR request,
\* which wants a stored original.
AdmitWorkerAttempt(a) ==
  /\ attempt[a].pc = "new"
  /\ source.state = "present" /\ ~source.processed
  /\ source.worker_attempt_id = None \/ ~source.live
  /\ source.last_processing_attempt_id = None \/ source.file_url # None
  /\ source' = [source EXCEPT !.last_processing_attempt_id = a,
                              !.worker_attempt_id = a, !.live = TRUE]
  /\ Goto(a, IF source.last_processing_attempt_id = None THEN "archive" ELSE "index")
  /\ UNCHANGED <<vector, file, task, runner, deleter, events>>

\* Archival is best effort, and a pasted text or a URL has none.  The attempt
\* knows of no file when the upload raised.
SkipArchive(a) ==
  /\ attempt[a].pc = "archive"
  /\ Goto(a, "index")
  /\ \/ UNCHANGED file
     \/ "answer" \in events /\ file' = file \cup {a}
  /\ UNCHANGED <<source, vector, task, runner, deleter, events>>

UploadFile(a) ==
  /\ attempt[a].pc = "archive"
  /\ file' = file \cup {a}
  /\ attempt' = [attempt EXCEPT ![a].pc = "store", ![a].archived = TRUE]
  /\ UNCHANGED <<source, vector, task, runner, deleter, events>>

StoreFileUrl(a) ==
  /\ attempt[a].pc = "store"
  /\ IF OwnsRow(a)
     THEN source' = [source EXCEPT !.file_url = a] /\ Goto(a, "index")
     ELSE Compensate(a, TRUE) /\ UNCHANGED source
  /\ UNCHANGED <<vector, file, task, runner, deleter, events>>

\* Taken for a failure of the archive, which nothing depends on.
StoreRaises(a) ==
  /\ "write" \in events
  /\ attempt[a].pc = "store"
  /\ Goto(a, "index")
  /\ UNCHANGED <<source, vector, file, task, runner, deleter, events>>

\* A scan: OCR is offered, and the attempt ends with its archive in place.  The
\* row is written as the last check left it, whoever has finished it since.
OfferOcr(a) ==
  /\ attempt[a].pc = "index" /\ attempt[a].upserted = 0 /\ attempt[a].archived
  /\ Exists
  /\ source' = [source EXCEPT !.processed = FALSE]
  /\ Goto(a, "leave")
  /\ UNCHANGED <<vector, file, task, runner, deleter, events>>

\* index_text asks the guard before each batch, and the row may change between.
CheckOwnership(a) ==
  /\ attempt[a].pc = "index"
  /\ RenewsAttempt(a)
  /\ source' = [source EXCEPT !.live = TRUE]
  /\ Goto(a, "upsert")
  /\ UNCHANGED <<vector, file, task, runner, deleter, events>>

\* index_text without a client: no check, no batch, and a count of 0 chunks.
IndexNothing(a) ==
  /\ "client" \in events
  /\ attempt[a].pc = "index" /\ attempt[a].upserted = 0
  /\ Goto(a, "last")
  /\ UNCHANGED <<source, vector, file, task, runner, deleter, events>>

\* Vector ids are deterministic: the batch replaces what is there.
Upsert(a) ==
  LET c == attempt[a].upserted + 1 IN
  /\ attempt[a].pc = "upsert"
  /\ vector' = [vector EXCEPT ![c] = a]
  /\ attempt' = [attempt EXCEPT ![a].upserted = c,
                                ![a].pc = IF c = Chunks THEN "last" ELSE "index"]
  /\ UNCHANGED <<source, file, task, runner, deleter, events>>

PassLastCheck(a) ==
  /\ attempt[a].pc = "last"
  /\ RenewsAttempt(a)
  /\ source' = [source EXCEPT !.live = TRUE]
  /\ Goto(a, "finalize")
  /\ UNCHANGED <<vector, file, task, runner, deleter, events>>

\* A check that refuses, the embedding service or the database: an exception.  A
\* text with nothing in it is cleaned up after on the spot.
AttemptFails(a) ==
  /\ attempt[a].pc \in {"archive", "index", "upsert", "last", "finalize"}
  /\ \/ Compensate(a, TRUE)
     \/ attempt[a].pc = "index" /\ attempt[a].upserted = 0 /\ Compensate(a, FALSE)
  /\ UNCHANGED <<source, vector, file, task, runner, deleter, events>>

FinalizeSuccessfulProcessing(a) ==
  /\ attempt[a].pc = "finalize"
  /\ IF OwnsRow(a) /\ ~source.processed
     THEN source' = [source EXCEPT !.processed = TRUE] /\ Goto(a, "content")
     ELSE Compensate(a, FALSE) /\ UNCHANGED source
  /\ UNCHANGED <<vector, file, task, runner, deleter, events>>

\* Whether the row takes the content or not, the task is over.
WriteContent(a) ==
  /\ attempt[a].pc = "content"
  /\ Goto(a, "leave")
  /\ UNCHANGED <<source, vector, file, task, runner, deleter, events>>

\* The handler of any exception takes the processed source for a failed one.
ContentRaises(a) ==
  /\ "write" \in events
  /\ attempt[a].pc = "content"
  /\ Compensate(a, TRUE)
  /\ UNCHANGED <<source, vector, file, task, runner, deleter, events>>

\* The finally block.
ReleaseWorkerAttempt(a) ==
  /\ attempt[a].pc = "leave"
  /\ source' = IF RenewsAttempt(a)
               THEN [source EXCEPT !.worker_attempt_id = None, !.live = FALSE]
               ELSE source
  /\ Ends(a, "ended")
  /\ UNCHANGED <<vector, file, task, runner, deleter, events>>

Heartbeat(a) ==
  /\ Running(a) /\ RenewsAttempt(a)
  /\ ~source.live
  /\ source' = [source EXCEPT !.live = TRUE]
  /\ UNCHANGED <<vector, file, task, attempt, runner, deleter, events>>

AttemptLapses ==
  /\ source.live
  /\ "stall" \in events \/ ~Running(source.worker_attempt_id)
  /\ source' = [source EXCEPT !.live = FALSE]
  /\ UNCHANGED <<vector, file, task, attempt, runner, deleter, events>>

Crash(a) ==
  /\ "crash" \in events
  /\ Running(a)
  /\ Ends(a, "crashed")
  /\ UNCHANGED <<source, vector, file, task, runner, deleter, events>>

-----------------------------------------------------------------------------
(* The stores and the ledger. *)

\* Mutant: the vectors of the source are deleted, whoever wrote them.
DeleteUnscoped(a, k) ==
  IF k = "vectors" THEN vector' = [c \in Chunk |-> None] /\ UNCHANGED file
  ELSE file' = file \ {a} /\ UNCHANGED vector

\* delete_item_vectors with the attempt's filter, delete_file of its own key.
DeleteArtifact(a, k) ==
  IF k = "vectors"
  THEN /\ vector' = [c \in Chunk |-> IF vector[c] = a THEN None ELSE vector[c]]
       /\ UNCHANGED file
  ELSE file' = file \ {a} /\ UNCHANGED vector

\* A yes without a call: delete_item_vectors when there is no client.
VectorsUnasked(k) == k = "vectors" /\ "client" \in events

\* The store may answer an error for what it has deleted, too.
Calls(a, k, ok) ==
  \/ DeleteArtifact(a, k)
  \/ (ok => VectorsUnasked(k)) /\ UNCHANGED <<vector, file>>

Unresolved(a, k) == task[a][k].state \in {"pending", "failed"}

\* Mutant: a claim that is held does not keep the next claimant out.
ClaimableHeld(a, k) == Unresolved(a, k)

\* Mutant: what failed is not tried again.
ClaimablePending(a, k) == task[a][k].state = "pending" /\ ~task[a][k].leased

Claimable(a, k) == Unresolved(a, k) /\ ~task[a][k].leased

Claims(a, k, claimant) ==
  task' = [task EXCEPT ![a][k].claimed_by = claimant, ![a][k].leased = TRUE]

\* Mutant: whoever resolves does, whether or not the claim is still its own.
ResolvesUnclaimed(a, k, claimant, ok) ==
  /\ task' = [task EXCEPT ![a][k].state = IF ok THEN "resolved" ELSE "failed"]
  /\ UNCHANGED source

\* Mutant: a file that is deleted stays in file_url.
ResolvesTaskOnly(a, k, claimant, ok) ==
  /\ task' = [task EXCEPT ![a][k].state =
                IF @ # "none" /\ task[a][k].claimed_by = claimant
                THEN IF ok THEN "resolved" ELSE "failed" ELSE @]
  /\ UNCHANGED source

\* _cleanup_ledger_resolve, with the row's copy of the attempt it names and
\* the key of the file it says is archived.
Resolves(a, k, claimant, ok) ==
  IF task[a][k].claimed_by # claimant THEN UNCHANGED <<task, source>>
  ELSE /\ task' = [task EXCEPT ![a][k].state = IF ok THEN "resolved" ELSE "failed"]
       /\ source' =
            [source EXCEPT
               !.marked = IF Exists /\ ok /\ @ = a THEN None ELSE @,
               !.file_url = IF Exists /\ ok /\ k = "s3" /\ @ = a THEN None ELSE @]

Releases(a, k, claimant) ==
  task' = IF task[a][k].claimed_by = claimant
          THEN [task EXCEPT ![a][k].claimed_by = None, ![a][k].leased = FALSE]
          ELSE task

Holding(claimant, a, k) ==
  \/ /\ claimant \in Attempt /\ claimant = a
     /\ attempt[a].pc \in {"delete", "clear", "resolve", "release"}
     /\ attempt[a].kind = k
  \/ /\ claimant \in Runner
     /\ runner[claimant].pc # "idle"
     /\ runner[claimant].attempt = a /\ runner[claimant].kind = k

ClaimLapses(a, k) ==
  /\ task[a][k].leased
  /\ "stall" \in events \/ ~Holding(task[a][k].claimed_by, a, k)
  /\ task' = [task EXCEPT ![a][k].leased = FALSE]
  /\ UNCHANGED <<source, vector, file, attempt, runner, deleter, events>>

-----------------------------------------------------------------------------
(* The compensation of an attempt, right after it failed. *)

NextKind(a) ==
  attempt' = IF attempt[a].kind = "vectors" /\ attempt[a].archived
             THEN [attempt EXCEPT ![a].pc = "record", ![a].kind = "s3", ![a].ok = FALSE]
             ELSE [attempt EXCEPT ![a].pc = "leave", ![a].kind = "vectors", ![a].ok = FALSE]

\* _cleanup_ledger_upsert_pending; the row is marked for its current attempt.
RecordPending(a) ==
  /\ attempt[a].pc = "record"
  /\ task' = [task EXCEPT ![a][attempt[a].kind].state = "pending"]
  /\ source' = IF Exists /\ source.last_processing_attempt_id = a
               THEN [source EXCEPT !.marked = a] ELSE source
  /\ Goto(a, "claim")
  /\ UNCHANGED <<vector, file, runner, deleter, events>>

\* A claim that somebody else holds is left to them.
ClaimDirect(a) ==
  LET k == attempt[a].kind IN
  /\ attempt[a].pc = "claim"
  /\ IF Claimable(a, k)
     THEN Claims(a, k, a) /\ Goto(a, "delete")
     ELSE NextKind(a) /\ UNCHANGED task
  /\ UNCHANGED <<source, vector, file, runner, deleter, events>>

DeleteDirect(a) ==
  /\ attempt[a].pc = "delete"
  /\ \E ok \in BOOLEAN :
       /\ Calls(a, attempt[a].kind, ok)
       /\ attempt' = [attempt EXCEPT ![a].ok = ok,
                        ![a].pc = IF ok /\ attempt[a].kind = "s3" THEN "clear" ELSE "resolve"]
  /\ UNCHANGED <<source, task, runner, deleter, events>>

\* The archive's own transaction, before the ledger's.
ClearFileUrl(a) ==
  /\ attempt[a].pc = "clear"
  /\ source' = IF Exists /\ source.file_url = a
               THEN [source EXCEPT !.file_url = None] ELSE source
  /\ Goto(a, "resolve")
  /\ UNCHANGED <<vector, file, task, runner, deleter, events>>

\* That transaction raises, past the ledger: the claim stays.  What ran in the
\* task's own block is taken by its handler, which cleans up from the start.
ClearRaises(a) ==
  /\ "write" \in events
  /\ attempt[a].pc = "clear"
  /\ IF attempt[a].handler THEN Ends(a, "leave") ELSE Compensate(a, TRUE)
  /\ UNCHANGED <<source, vector, file, task, runner, deleter, events>>

ResolveDirect(a) ==
  /\ attempt[a].pc = "resolve"
  /\ Resolves(a, attempt[a].kind, a, attempt[a].ok)
  /\ Goto(a, "release")
  /\ UNCHANGED <<vector, file, runner, deleter, events>>

ReleaseDirect(a) ==
  /\ attempt[a].pc = "release"
  /\ Releases(a, attempt[a].kind, a)
  /\ NextKind(a)
  /\ UNCHANGED <<source, vector, file, runner, deleter, events>>

Compensation(a) ==
  \/ RecordPending(a) \/ ClaimDirect(a) \/ DeleteDirect(a) \/ ClearFileUrl(a)
  \/ ClearRaises(a) \/ ResolveDirect(a) \/ ReleaseDirect(a)

-----------------------------------------------------------------------------
(* retry_cleanup_tasks. *)

RunnerClaims(r, a, k) ==
  /\ runner[r].pc = "idle"
  /\ Claimable(a, k)
  /\ Claims(a, k, r)
  /\ runner' = [runner EXCEPT ![r] = [IdleRunner EXCEPT !.pc = "delete", !.attempt = a, !.kind = k]]
  /\ UNCHANGED <<source, vector, file, attempt, deleter, events>>

RunnerDeletes(r, ok) ==
  /\ runner[r].pc = "delete"
  /\ Calls(runner[r].attempt, runner[r].kind, ok)
  /\ runner' = [runner EXCEPT ![r].pc = "resolve", ![r].ok = ok]
  /\ UNCHANGED <<source, task, attempt, deleter, events>>

RunnerResolves(r) ==
  /\ runner[r].pc = "resolve"
  /\ Resolves(runner[r].attempt, runner[r].kind, r, runner[r].ok)
  /\ runner' = [runner EXCEPT ![r].pc = "release", ![r].ok = FALSE]
  /\ UNCHANGED <<vector, file, attempt, deleter, events>>

RunnerReleases(r) ==
  /\ runner[r].pc = "release"
  /\ Releases(runner[r].attempt, runner[r].kind, r)
  /\ runner' = [runner EXCEPT ![r] = IdleRunner]
  /\ UNCHANGED <<source, vector, file, attempt, deleter, events>>

RunnerDies(r) ==
  /\ "crash" \in events
  /\ runner[r].pc # "idle"
  /\ runner' = [runner EXCEPT ![r] = IdleRunner]
  /\ UNCHANGED <<source, vector, file, task, attempt, deleter, events>>

-----------------------------------------------------------------------------
(* The deletion of the source: a tombstone, then _finish_item_deletion_     *)
(* cleanup, by the request or by retry_item_deletions.                      *)

DeleteLibraryItem ==
  /\ "delete" \in events
  /\ source.state = "present"
  /\ source' = [source EXCEPT !.state = "tombstoned"]
  /\ UNCHANGED <<vector, file, task, attempt, runner, deleter, events>>

\* All vectors of the source, whichever attempt wrote them.
DeletionVectors ==
  /\ deleter.pc = "idle" /\ source.state = "tombstoned"
  /\ \E ok \in BOOLEAN :
       /\ deleter' = [pc |-> "file", ok |-> ok]
       /\ \/ vector' = [c \in Chunk |-> None]
          \/ (ok => VectorsUnasked("vectors")) /\ UNCHANGED vector
  /\ UNCHANGED <<source, file, task, attempt, runner, events>>

DeletionFile ==
  /\ deleter.pc = "file"
  /\ \E ok \in BOOLEAN :
       /\ deleter' = [pc |-> "finish", ok |-> deleter.ok /\ ok]
       /\ \/ file' = file \ {source.file_url}
          \/ ~ok /\ UNCHANGED file
  /\ UNCHANGED <<source, vector, task, attempt, runner, events>>

\* Mutant: the row goes whatever the stores answered.
DeletionFinishAnyway ==
  /\ deleter.pc = "finish"
  /\ source' = [source EXCEPT !.state = "gone", !.live = FALSE]
  /\ deleter' = IdleDeleter
  /\ UNCHANGED <<vector, file, task, attempt, runner, events>>

\* The row goes once nothing it names is left, and stays for a retry before.
DeletionFinish ==
  /\ deleter.pc = "finish"
  /\ source' = IF deleter.ok THEN [source EXCEPT !.state = "gone", !.live = FALSE] ELSE source
  /\ deleter' = IdleDeleter
  /\ UNCHANGED <<vector, file, task, attempt, runner, events>>

\* The request or the scheduler dies on the way.
DeletionDies ==
  /\ "crash" \in events
  /\ deleter.pc # "idle"
  /\ deleter' = IdleDeleter
  /\ UNCHANGED <<source, vector, file, task, attempt, runner, events>>

-----------------------------------------------------------------------------
Works(a) ==
  \/ SkipArchive(a) \/ UploadFile(a) \/ StoreFileUrl(a) \/ StoreRaises(a) \/ OfferOcr(a)
  \/ CheckOwnership(a) \/ IndexNothing(a) \/ Upsert(a) \/ PassLastCheck(a) \/ AttemptFails(a)
  \/ FinalizeSuccessfulProcessing(a) \/ WriteContent(a) \/ ContentRaises(a)
  \/ ReleaseWorkerAttempt(a)
  \/ Compensation(a)

Next ==
  \/ \E a \in Attempt :
       \/ AdmitWorkerAttempt(a) \/ Works(a) \/ Heartbeat(a) \/ Crash(a)
       \/ \E k \in Kind :
            \/ ClaimLapses(a, k)
            \/ \E r \in Runner : RunnerClaims(r, a, k)
  \/ AttemptLapses
  \/ \E r \in Runner :
       \/ \E ok \in BOOLEAN : RunnerDeletes(r, ok)
       \/ RunnerResolves(r) \/ RunnerReleases(r) \/ RunnerDies(r)
  \/ DeleteLibraryItem \/ DeletionVectors \/ DeletionFile \/ DeletionFinish \/ DeletionDies

Spec == Init /\ [][Next]_vars

\* A running task goes on, a claim runs out, and the scheduler comes back to a
\* record until a run finds the store answering and lives to write it down.
Fairness ==
  /\ \A a \in Attempt :
       /\ WF_vars(Works(a))
       /\ \A k \in Kind :
            /\ WF_vars(ClaimLapses(a, k))
            /\ SF_vars(\E r \in Runner : RunnerClaims(r, a, k))
  /\ \A r \in Runner :
       /\ SF_vars(RunnerDeletes(r, TRUE))
       /\ SF_vars(runner[r].ok /\ RunnerResolves(r))
       /\ WF_vars(RunnerDeletes(r, FALSE) \/ RunnerResolves(r) \/ RunnerReleases(r))

FairSpec == Spec /\ Fairness

-----------------------------------------------------------------------------
(* What the clean-up must satisfy. *)

\* Every variable stays in its set.
TypeOK ==
  /\ source \in SourceRow
  /\ vector \in [Chunk -> Attempt \cup {None}]
  /\ file \subseteq Attempt
  /\ task \in [Attempt -> [Kind -> Task]]
  /\ attempt \in [Attempt -> AttemptState]
  /\ runner \in [Runner -> RunnerState]
  /\ deleter \in Deleter
  /\ events \in Scenarios

\* What an attempt has in a store.
Left(a, k) == IF k = "vectors" THEN \E c \in Chunk : vector[c] = a ELSE a \in file

\* What the program can tell of a store: nothing of the vectors when a call was
\* left out for want of a client, nor of a file whose upload answered an error.
Told(k) == IF k = "vectors" THEN "client" \notin events ELSE "answer" \notin events

\* _cleanup_ledger_resolve: a record is resolved only when its artifact is gone,
\* whichever of the attempt and the runners called the store, and in which order.
ResolvedIsGone ==
  \A a \in Attempt, k \in Kind :
    task[a][k].state = "resolved" /\ ~VectorsUnasked(k) => ~Left(a, k)

\* The attempts that came to their end as failed.
Failed(a) == attempt[a].pc = "ended" /\ task[a]["vectors"].state # "none"

\* _compensate_failed_attempt: what a failed attempt leaves in a store is on the
\* ledger, also when the row has gone or is another attempt's by now.
LeftIsOnLedger ==
  \A a \in Attempt, k \in Kind : Failed(a) /\ Told(k) /\ Left(a, k) => Unresolved(a, k)

\* The row names an archive that is not there only while its clean-up is on the
\* ledger: who cleared the key, and a crash in between, do not matter.
DanglingIsOnLedger ==
  \A a \in Attempt :
    source.state = "present" /\ source.file_url = a /\ a \notin file => Unresolved(a, "s3")

\* The ledger tells what of failed attempts is left, and what is gone.
LedgerTells == ResolvedIsGone /\ LeftIsOnLedger /\ DanglingIsOnLedger

\* With no stall, no write that raises and a client for every call, a processed
\* source keeps all its vectors while the clean-up of earlier attempts goes on.
FinishedKept ==
  events \subseteq {"crash", "delete"} /\ source.state = "present" /\ source.processed =>
    \A c \in Chunk : vector[c] = source.last_processing_attempt_id

\* delete_library_item, under the same conditions: once the row is gone nothing of
\* a finished attempt is left, and nothing of a failed one that is not on the ledger.
DeletedLeavesNothing ==
  events \subseteq {"crash", "delete"} /\ source.state = "gone" =>
    \A a \in Attempt, k \in Kind :
      attempt[a].pc = "ended" /\ Left(a, k) => Unresolved(a, k)

\* A result on the ledger is not overwritten by a claimant that comes late.  Only
\* the attempt records once more what it had resolved, when its clean-up raised.
ResolvedStays ==
  [][\A a \in Attempt, k \in Kind :
       task[a][k].state = "resolved" =>
         \/ task'[a][k].state = "resolved"
         \/ "write" \in events /\ attempt[a].pc = "record" /\ attempt[a].kind = k]_vars

\* While leases do not lapse under live claimants, one of them calls the store
\* for an artifact at a time.
OneCaller ==
  "stall" \notin events =>
    \A a \in Attempt, k \in Kind :
      Cardinality({x \in Claimant : Holding(x, a, k)}) <= 1

\* Whatever is put on the ledger is taken back some day.
EventuallyClean ==
  \A a \in Attempt, k \in Kind : Unresolved(a, k) ~> task[a][k].state = "resolved"

=============================================================================
