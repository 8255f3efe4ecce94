--------------------------- MODULE AccountErasure ---------------------------
(***************************************************************************)
(* The deletion of an account (routers/auth.py, entitlement_service.py):   *)
(* a request that can be cancelled during its grace period, the promotion  *)
(* that captures what has to be erased, attempts that erase one class of   *)
(* artifacts after the other, and the Sheet and e-mail that follow.        *)
(*                                                                         *)
(* The account's sources go on being uploaded and ingested meanwhile: only *)
(* requests meet the gate, and a request that has passed it goes on.  A    *)
(* source's key and its attempt's token are one name, and so are a         *)
(* source and its place in successful_sources_total.  Artifacts has the    *)
(* ingestion and its clean-up ledger in detail.                            *)
(***************************************************************************)
EXTENDS Naturals, FiniteSets

CONSTANTS
  Source,       \* the sources the account ever uploads, all archived
  Runner,       \* runs of the scheduler's erasure jobs that may overlap
  Request,      \* DELETE /auth/me requests that may run an attempt
  MaxRequests,  \* how often a deletion is scheduled
  Scenarios,    \* sets of events that a behaviour may have, of Event
  None

\* upload: sources are uploaded.  retap: the user asks again while the account
\* is being erased.  return: a token is used after the account has gone.
\* outage: providers answer with errors and processes die, until it ends.
\* client: the Pinecone client cannot be built, now and then.
Event == {"upload", "retap", "return", "outage", "client"}

ASSUME NamesAssumption ==
  /\ IsFiniteSet(Source) /\ None \notin Runner \cup Request
  /\ Runner \cap Request = {}
ASSUME MaxAssumption == MaxRequests \in Nat
ASSUME ScenariosAssumption == Scenarios \subseteq SUBSET Event

VARIABLES
  user,        \* the users row: of the account, none, or one made anew
  total,       \* the sources in its successful_sources_total
  guard,       \* the sources in email_account_history's total
  firebase,    \* whether the providers still know the account
  row,         \* its row of account_erasures
  scheduled,   \* how many such rows there have been
  sent,        \* what was confirmed of the Sheet row and e-mail of each
  item,        \* the sources with a row in library_items
  listed,      \* those whose file_url is set
  file, vector,\* the sources with an original in S3, with vectors in Pinecone
  owed,        \* the sources with unresolved records in cleanup_tasks
  worker,      \* the upload and ingestion of each source
  cancel,      \* whether a cancel request is past the gate
  job,         \* the runs and the requests that erase
  events

account == <<user, total, guard>>
library == <<item, listed, worker>>
store == <<file, vector, owed>>
vars == <<account, firebase, row, scheduled, sent, library, store, cancel, job, events>>

Id == 0 .. MaxRequests
Eraser == Runner \cup Request
Mirror == {"email", "sheet"}

Identity == [keys : SUBSET Source, ledger : SUBSET Source, total : SUBSET Source]
NoIdentity == [keys |-> {}, ledger |-> {}, total |-> {}]

\* The columns of account_erasures; id 0 is no row.
Row == [id : Id,
        state : {"none", "scheduled", "pending", "failed", "resolved"},
        due : BOOLEAN,                 \* the grace period is over
        identity : Identity,
        claimed_by : Runner \cup {None}, leased : BOOLEAN,
        progress : SUBSET Mirror]

NoRow == [id |-> 0, state |-> "none", due |-> FALSE, identity |-> NoIdentity,
          claimed_by |-> None, leased |-> FALSE, progress |-> {}]

Job == [pc : {"idle", "capture", "promote", "vectors", "files", "ledger", "providers",
              "settle", "release", "send", "note"},
        id : Id,                       \* the row it works on
        loaded : {"none", "scheduled", "pending", "failed", "resolved"},
        identity : Identity,           \* as captured
        cleared : SUBSET Source,       \* the ledger's records it resolves
        ok : BOOLEAN,                  \* every class so far was confirmed
        sweep : BOOLEAN,               \* of retry_unsynced_erasure_mirrors
        progress : SUBSET Mirror]

Idle == [pc |-> "idle", id |-> 0, loaded |-> "none", identity |-> NoIdentity,
         cleared |-> {}, ok |-> FALSE, sweep |-> FALSE, progress |-> {}]

Init ==
  /\ user = "present" /\ total = {} /\ guard = {} /\ firebase = TRUE
  /\ row = NoRow /\ scheduled = 0 /\ sent = [i \in Id |-> {}]
  /\ item = {} /\ listed = {} /\ file = {} /\ vector = {} /\ owed = {}
  /\ worker = [s \in Source |-> "none"]
  /\ cancel = FALSE
  /\ job = [j \in Eraser |-> Idle]
  /\ events \in Scenarios

-----------------------------------------------------------------------------
(* The account in use. *)

\* Without a client a deletion of vectors answers yes, and leaves them.
VectorsUnasked == "client" \in events

VectorsGo(of) ==
  \E gone \in SUBSET of : (gone = of \/ VectorsUnasked) /\ vector' = vector \ gone

\* Mutant: the new row starts from its defaults.
CreateUnseeded ==
  /\ "return" \in events /\ user = "gone"
  /\ user' = "reborn" /\ total' = {}
  /\ UNCHANGED <<guard, firebase, row, scheduled, sent, library, store, cancel, job, events>>

\* get_or_create_user: a token outlives the account, and the seed its e-mail.
GetOrCreateUser ==
  /\ "return" \in events /\ user = "gone"
  /\ user' = "reborn" /\ total' = guard
  /\ UNCHANGED <<guard, firebase, row, scheduled, sent, library, store, cancel, job, events>>

\* _erasure_gate, in the transaction of its own that starts every request.
Gate == user # "gone" /\ row.state \notin {"pending", "failed"}

WorkerAt(s, pc) == worker' = [worker EXCEPT ![s] = pc]

PassGate(s) ==
  /\ "upload" \in events /\ worker[s] = "none"
  /\ Gate
  /\ WorkerAt(s, "gated")
  /\ UNCHANGED <<account, firebase, row, scheduled, sent, item, listed, store, cancel, job, events>>

\* library_items refers to users.
CreateItem(s) ==
  /\ worker[s] = "gated"
  /\ IF user = "gone" THEN WorkerAt(s, "none") /\ UNCHANGED item
     ELSE WorkerAt(s, "archive") /\ item' = item \cup {s}
  /\ UNCHANGED <<account, firebase, row, scheduled, sent, listed, store, cancel, job, events>>

Archive(s) ==
  /\ worker[s] = "archive"
  /\ file' = file \cup {s}
  /\ WorkerAt(s, "store")
  /\ UNCHANGED <<account, firebase, row, scheduled, sent, item, listed, vector, owed, cancel, job, events>>

StoreUrl(s) ==
  /\ worker[s] = "store" /\ s \in item
  /\ listed' = listed \cup {s}
  /\ WorkerAt(s, "index")
  /\ UNCHANGED <<account, firebase, row, scheduled, sent, item, store, cancel, job, events>>

\* The row was there when the batch was checked.  Without a client there is no
\* batch, and the worker goes on as if there had been.
Index(s) ==
  /\ worker[s] = "index"
  /\ vector' = vector \cup {s} \/ (VectorsUnasked /\ UNCHANGED vector)
  /\ WorkerAt(s, "finalize")
  /\ UNCHANGED <<account, firebase, row, scheduled, sent, item, listed, file, owed, cancel, job, events>>

Finalize(s) ==
  /\ worker[s] = "finalize" /\ s \in item
  /\ total' = total \cup {s}
  /\ WorkerAt(s, "done")
  /\ UNCHANGED <<user, guard, firebase, row, scheduled, sent, item, listed, store, cancel, job, events>>

\* A worker that fails, or whose row has gone, takes back what it stored; what
\* it cannot take back is on the ledger.
Fail(s) ==
  /\ worker[s] \in {"archive", "store", "index", "finalize"}
  /\ WorkerAt(s, "failed")
  /\ \/ /\ file' = file \ {s} /\ VectorsGo({s}) /\ listed' = listed \ {s}
        /\ UNCHANGED owed
     \/ owed' = owed \cup {s} /\ UNCHANGED <<file, vector, listed>>
  /\ UNCHANGED <<account, firebase, row, scheduled, sent, item, cancel, job, events>>

RetryCleanup(s) ==
  /\ s \in owed
  /\ file' = file \ {s} /\ VectorsGo({s}) /\ listed' = listed \ {s}
  /\ owed' = owed \ {s}
  /\ UNCHANGED <<account, firebase, row, scheduled, sent, item, worker, cancel, job, events>>

-----------------------------------------------------------------------------
(* The requests. *)

\* delete_account with no row yet: nothing external is touched.
Schedule ==
  /\ user # "gone" /\ row.state = "none"
  /\ scheduled < MaxRequests
  /\ scheduled' = scheduled + 1
  /\ row' = [NoRow EXCEPT !.id = scheduled + 1, !.state = "scheduled"]
  /\ UNCHANGED <<account, firebase, sent, library, store, cancel, job, events>>

GraceEnds ==
  /\ row.state = "scheduled" /\ ~row.due
  /\ row' = [row EXCEPT !.due = TRUE]
  /\ UNCHANGED <<account, firebase, scheduled, sent, library, store, cancel, job, events>>

CancelPassesGate ==
  /\ Gate /\ row.state = "scheduled" /\ ~cancel
  /\ cancel' = TRUE
  /\ UNCHANGED <<account, firebase, row, scheduled, sent, library, store, job, events>>

\* cancel_deletion, once it has the row's lock.
CancelDeletion ==
  /\ cancel
  /\ cancel' = FALSE
  /\ row' = IF row.state = "scheduled" THEN NoRow ELSE row
  /\ UNCHANGED <<account, firebase, scheduled, sent, library, store, job, events>>

-----------------------------------------------------------------------------
(* The promotion of a request whose grace period is over. *)

Claimable(states) == row.state \in states /\ ~row.leased

\* One claim protocol for the three jobs of the scheduler.
Claims(r) == row' = [row EXCEPT !.claimed_by = r, !.leased = TRUE]

ClaimScheduled(r) ==
  /\ job[r].pc = "idle"
  /\ Claimable({"scheduled"}) /\ row.due
  /\ IF user = "gone" THEN row' = NoRow /\ UNCHANGED job
     ELSE /\ Claims(r)
          /\ job' = [job EXCEPT ![r] = [Idle EXCEPT !.pc = "capture", !.id = row.id]]
  /\ UNCHANGED <<account, firebase, scheduled, sent, library, store, cancel, events>>

\* _capture_erasure_identity, with no lock held.
CaptureIdentity(r) ==
  /\ job[r].pc = "capture"
  /\ job' = [job EXCEPT ![r].pc = "promote",
               ![r].identity = [keys |-> listed \cap item, ledger |-> owed, total |-> total]]
  /\ UNCHANGED <<account, firebase, row, scheduled, sent, library, store, cancel, events>>

\* Mutant: the row is found again by its user, not by its id.
PromoteAnyRow(r) ==
  /\ job[r].pc = "promote"
  /\ row' = IF row.state = "scheduled"
            THEN [row EXCEPT !.state = "pending", !.identity = job[r].identity,
                             !.claimed_by = None, !.leased = FALSE]
            ELSE row
  /\ job' = [job EXCEPT ![r] = Idle]
  /\ UNCHANGED <<account, firebase, scheduled, sent, library, store, cancel, events>>

\* A request that was cancelled meanwhile is left alone, whoever holds the claim.
Promote(r) ==
  /\ job[r].pc = "promote"
  /\ row' = IF row.id = job[r].id /\ row.state = "scheduled"
            THEN [row EXCEPT !.state = "pending", !.identity = job[r].identity,
                             !.claimed_by = None, !.leased = FALSE]
            ELSE row
  /\ job' = [job EXCEPT ![r] = Idle]
  /\ UNCHANGED <<account, firebase, scheduled, sent, library, store, cancel, events>>

-----------------------------------------------------------------------------
(* _attempt_account_erasure_cleanup, by a run of the scheduler under a claim *)
(* or by a DELETE request under none.                                        *)

Starts(j) ==
  job' = [job EXCEPT ![j] = [Idle EXCEPT !.pc = "vectors", !.id = row.id, !.loaded = row.state,
                               !.identity = row.identity, !.ok = TRUE,
                               !.progress = row.progress]]

ClaimErasure(r) ==
  /\ job[r].pc = "idle"
  /\ Claimable({"pending", "failed"})
  /\ Claims(r)
  /\ Starts(r)
  /\ UNCHANGED <<account, firebase, scheduled, sent, library, store, cancel, events>>

\* delete_account of an account that is past its grace period.
RequestErasure(q) ==
  /\ "retap" \in events /\ job[q].pc = "idle"
  /\ user # "gone" /\ row.state \in {"pending", "failed"}
  /\ Starts(q)
  /\ UNCHANGED <<account, firebase, row, scheduled, sent, library, store, cancel, events>>

\* Mutant: only the last class's answer is kept.
ReachesWithLast(j, pc, ok) == job' = [job EXCEPT ![j].pc = pc, ![j].ok = ok]

Reaches(j, pc, ok) == job' = [job EXCEPT ![j].pc = pc, ![j].ok = @ /\ ok]

\* The whole namespace.  A provider that answers with an error may have deleted
\* all the same.
EraseVectors(j, ok) ==
  /\ job[j].pc = "vectors"
  /\ vector' = {} \/ ((ok => VectorsUnasked) /\ UNCHANGED vector)
  /\ Reaches(j, "files", ok)
  /\ UNCHANGED <<account, firebase, row, scheduled, sent, library, file, owed, cancel, events>>

\* The originals, the extracted images and the avatar.
EraseFiles(j, ok) ==
  /\ job[j].pc = "files"
  /\ file' = file \ job[j].identity.keys \/ (~ok /\ UNCHANGED file)
  /\ Reaches(j, "ledger", ok)
  /\ UNCHANGED <<account, firebase, row, scheduled, sent, library, vector, owed, cancel, events>>

\* The captured records that are still unresolved.  What is deleted is resolved
\* with the attempt's commit; the rows keep their file_url.
EraseLedger(j, ok) ==
  LET mine == job[j].identity.ledger \cap owed IN
  /\ job[j].pc = "ledger"
  /\ \E gone \in SUBSET mine : \E confirmed \in SUBSET gone :
       /\ ok = (confirmed = mine)
       /\ file' = file \ gone /\ VectorsGo(gone)
       /\ job' = [job EXCEPT ![j].pc = "providers", ![j].ok = @ /\ ok, ![j].cleared = confirmed]
  /\ UNCHANGED <<account, firebase, row, scheduled, sent, library, owed, cancel, events>>

\* Mutant: Firebase's answer that it knows no such user is a failure.
EraseProvidersOnce(j, ok) ==
  /\ job[j].pc = "providers"
  /\ firebase' = FALSE \/ (~ok /\ UNCHANGED firebase)
  /\ Reaches(j, "settle", ok /\ firebase)
  /\ UNCHANGED <<account, row, scheduled, sent, library, store, cancel, events>>

\* RevenueCat, Mixpanel and Firebase: one they do not know is erased.
EraseProviders(j, ok) ==
  /\ job[j].pc = "providers"
  /\ firebase' = FALSE \/ (~ok /\ UNCHANGED firebase)
  /\ Reaches(j, "settle", ok)
  /\ UNCHANGED <<account, row, scheduled, sent, library, store, cancel, events>>

Erase(j) ==
  \E ok \in BOOLEAN :
    /\ ok \/ "outage" \in events
    /\ EraseVectors(j, ok) \/ EraseFiles(j, ok) \/ EraseLedger(j, ok) \/ EraseProviders(j, ok)

\* One commit: the row, the e-mail's guard and the user with all that refers to
\* it.  A row that has gone by then raises, and nothing is committed.
SettleErased(j) ==
  /\ job[j].pc = "settle" /\ job[j].ok /\ row.id = job[j].id
  /\ row' = [row EXCEPT !.state = "resolved", !.progress = job[j].progress]
  /\ guard' = IF user = "gone" THEN guard ELSE guard \cup job[j].identity.total
  /\ user' = "gone" /\ total' = {} /\ item' = {} /\ listed' = {}
  /\ owed' = owed \ job[j].cleared
  /\ job' = [job EXCEPT ![j] = [Idle EXCEPT !.pc = "send", !.id = job[j].id]]
  /\ UNCHANGED <<firebase, scheduled, sent, worker, file, vector, cancel, events>>

\* The state goes into the UPDATE when it differs from the one loaded.
SettleFailed(j) ==
  /\ job[j].pc = "settle" /\ ~(job[j].ok /\ row.id = job[j].id)
  /\ row' = IF row.id = job[j].id
            THEN [row EXCEPT !.state = IF job[j].loaded = "failed" THEN @ ELSE "failed",
                             !.progress = job[j].progress]
            ELSE row
  /\ owed' = IF row.id = job[j].id THEN owed \ job[j].cleared ELSE owed
  /\ job' = [job EXCEPT ![j] = IF j \in Runner
                               THEN [Idle EXCEPT !.pc = "release", !.id = job[j].id] ELSE Idle]
  /\ UNCHANGED <<account, firebase, scheduled, sent, library, file, vector, cancel, events>>

\* retry_account_erasures after an attempt that failed.
ReleaseClaim(r) ==
  /\ job[r].pc = "release"
  /\ row' = IF row.id = job[r].id /\ row.claimed_by = r
            THEN [row EXCEPT !.claimed_by = None, !.leased = FALSE] ELSE row
  /\ job' = [job EXCEPT ![r] = Idle]
  /\ UNCHANGED <<account, firebase, scheduled, sent, library, store, cancel, events>>

-----------------------------------------------------------------------------
(* The Sheet row and the e-mail, after the commit. *)

ClaimUnsynced(r) ==
  /\ job[r].pc = "idle"
  /\ Claimable({"resolved"})
  /\ Claims(r)
  /\ job' = [job EXCEPT ![r] = [Idle EXCEPT !.pc = "send", !.id = row.id, !.sweep = TRUE,
                                  !.progress = row.progress]]
  /\ UNCHANGED <<account, firebase, scheduled, sent, library, store, cancel, events>>

\* The attempt tries both, the sweep those that are missing.
Send(j, confirmed) ==
  /\ job[j].pc = "send"
  /\ confirmed = Mirror \/ "outage" \in events
  /\ sent' = [sent EXCEPT ![job[j].id] = @ \cup confirmed]
  /\ job' = [job EXCEPT ![j].pc = "note",
               ![j].progress = IF job[j].sweep THEN @ \cup confirmed ELSE confirmed]
  /\ UNCHANGED <<account, firebase, row, scheduled, library, store, cancel, events>>

\* Mutant: one of the two is enough to let the row go.
NoteEither(j) ==
  /\ job[j].pc = "note"
  /\ row' = IF row.id # job[j].id \/ (job[j].sweep /\ row.claimed_by # j) THEN row
            ELSE IF job[j].progress # {} THEN NoRow
            ELSE [row EXCEPT !.progress = job[j].progress]
  /\ job' = [job EXCEPT ![j] = Idle]
  /\ UNCHANGED <<account, firebase, scheduled, sent, library, store, cancel, events>>

\* The sweep writes under its claim, the attempt whatever the claim.
Note(j) ==
  LET mirrored == job[j].progress = Mirror IN
  /\ job[j].pc = "note"
  /\ row' = IF row.id # job[j].id \/ (job[j].sweep /\ row.claimed_by # j) THEN row
            ELSE IF mirrored THEN NoRow
            ELSE IF job[j].sweep
            THEN [row EXCEPT !.progress = job[j].progress, !.claimed_by = None, !.leased = FALSE]
            ELSE [row EXCEPT !.progress = job[j].progress]
  /\ job' = [job EXCEPT ![j] = Idle]
  /\ UNCHANGED <<account, firebase, scheduled, sent, library, store, cancel, events>>

\* A claim is for five minutes and nothing renews it, so it also lapses under a
\* run that is at work.
ClaimLapses ==
  /\ row.leased
  /\ row' = [row EXCEPT !.leased = FALSE]
  /\ UNCHANGED <<account, firebase, scheduled, sent, library, store, cancel, job, events>>

Dies(j) ==
  /\ "outage" \in events
  /\ job[j].pc # "idle"
  /\ job' = [job EXCEPT ![j] = Idle]
  /\ UNCHANGED <<account, firebase, row, scheduled, sent, library, store, cancel, events>>

OutageEnds ==
  /\ "outage" \in events
  /\ events' = events \ {"outage"}
  /\ UNCHANGED <<account, firebase, row, scheduled, sent, library, store, cancel, job>>

-----------------------------------------------------------------------------
Ingestion(s) ==
  \/ PassGate(s) \/ CreateItem(s) \/ Archive(s) \/ StoreUrl(s) \/ Index(s) \/ Finalize(s)
  \/ Fail(s) \/ RetryCleanup(s)

Scheduler(r) ==
  \/ ClaimScheduled(r) \/ CaptureIdentity(r) \/ Promote(r)
  \/ ClaimErasure(r) \/ ReleaseClaim(r) \/ ClaimUnsynced(r)

Attempt(j) ==
  \/ Erase(j)
  \/ SettleErased(j) \/ SettleFailed(j)
  \/ \E confirmed \in SUBSET Mirror : Send(j, confirmed)
  \/ Note(j)

Next ==
  \/ GetOrCreateUser
  \/ \E s \in Source : Ingestion(s)
  \/ Schedule \/ GraceEnds \/ CancelPassesGate \/ CancelDeletion
  \/ \E r \in Runner : Scheduler(r)
  \/ \E q \in Request : RequestErasure(q)
  \/ \E j \in Eraser : Attempt(j) \/ Dies(j)
  \/ ClaimLapses \/ OutageEnds

Spec == Init /\ [][Next]_vars

\* The scheduler comes back every few minutes, and some day every provider
\* answers and its runs come to their end.
Fairness ==
  /\ WF_vars(GraceEnds) /\ WF_vars(ClaimLapses) /\ WF_vars(OutageEnds)
  /\ \A r \in Runner : WF_vars(Scheduler(r) \/ Attempt(r))

FairSpec == Spec /\ Fairness

-----------------------------------------------------------------------------
(* What the deletion of an account must satisfy. *)

\* Every variable stays in its set.
TypeOK ==
  /\ user \in {"present", "gone", "reborn"}
  /\ total \subseteq Source /\ guard \subseteq Source
  /\ firebase \in BOOLEAN
  /\ row \in Row /\ scheduled \in Id /\ sent \in [Id -> SUBSET Mirror]
  /\ item \subseteq Source /\ listed \subseteq Source
  /\ file \subseteq Source /\ vector \subseteq Source /\ owed \subseteq Source
  /\ worker \in [Source -> {"none", "gated", "archive", "store", "index", "finalize",
                            "done", "failed"}]
  /\ cancel \in BOOLEAN
  /\ job \in [Eraser -> Job]
  /\ events \in SUBSET Event

\* delete_account and cancel_deletion: an account whose deletion is scheduled,
\* was cancelled or was never asked for has everything it had, also when the
\* cancellation met the promotion.  Vectors there are if there was a client.
GraceKeepsAll ==
  user = "present" /\ row.state \in {"none", "scheduled"} =>
    /\ firebase
    /\ \A s \in Source :
         worker[s] = "done" =>
           s \in item \cap listed \cap file /\ (s \in vector \/ VectorsUnasked)

\* promote_scheduled_erasures: a request is promoted after its own grace period,
\* not after that of one that was cancelled while its identity was captured.
GraceIsItsOwn == row.state \notin {"none", "scheduled"} => row.due

\* The grace period is granted in full, and nothing is lost before it is over.
GraceKept == GraceKeepsAll /\ GraceIsItsOwn

\* _attempt_account_erasure_cleanup: the users row goes last, when all that the
\* identity names is confirmed as gone, whoever else attempts the same.
UserGoesLast ==
  [][user = "present" /\ user' = "gone" =>
       /\ ~firebase'
       /\ row.identity.keys \cap file' = {}
       /\ row.identity.ledger \cap owed' = {}]_vars

\* A source that had been ingested when the identity was captured is wholly
\* erased with the account, and counts for the e-mail's free uploads for ever.
\* Its vectors may stay when a call was answered for want of a client.
CountedIsErased == \A s \in guard : s \notin file /\ (s \notin vector \/ VectorsUnasked)

\* EmailAccountHistory: an account made anew starts from the uploads of the old.
UploadsCarryOver == user # "gone" => guard \subseteq total

\* The row is there until both its Sheet row and its e-mail were confirmed, also
\* when a failed attempt, or a sweep, ends after another has resolved it.
MirroredBeforeForgotten ==
  [][row.state \in {"pending", "failed", "resolved"} /\ row'.id # row.id =>
       sent[row.id] = Mirror /\ user # "present"]_vars

\* The order of an erasure: the stores, then the user, then the record of it.
ErasedInOrder == UserGoesLast /\ MirroredBeforeForgotten

\* A request ends: it is cancelled, or the account is erased and mirrored.
ErasureEnds == row.state # "none" ~> row.state = "none"

-----------------------------------------------------------------------------
(* What the documentation says and the code does not keep. *)

\* delete_account answers "Account and all associated data have been
\* permanently deleted": the file of no source whose worker has ended is left,
\* but for what the ledger still has to delete.
ErasedIsGone ==
  user = "gone" =>
    \A s \in Source : worker[s] \in {"done", "failed"} /\ s \notin owed => s \notin file

=============================================================================
