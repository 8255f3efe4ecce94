---------------------------- MODULE ErasureProofs ----------------------------
(***************************************************************************)
(* What the deletion of an account keeps, for any number of sources, of    *)
(* runs and requests that overlap, and of deletions that are scheduled,    *)
(* whatever events occur.  Steps are Onward for the sources and change the *)
(* row in one of three ways (RowMoves); under these two, what holds of the *)
(* jobs that do not take the step goes on holding (OthersFit).             *)
(***************************************************************************)
EXTENDS AccountErasure, TLAPS

Promoting == {"capture", "promote"}
Erasing == {"vectors", "files", "ledger", "providers", "settle"}
Mirroring == {"send", "note"}

Grace == {"none", "scheduled"}
Past == {"pending", "failed", "resolved"}

\* Nothing of the source is left, as far as the calls that were made can tell.
Erased(s) == s \notin file /\ (s \notin vector \/ VectorsUnasked)

\* Whether there is a client for every call is settled at the start.
ClientStays == VectorsUnasked' <=> VectorsUnasked

USE DEF Erased, ClientStays

\* A source whose original is archived, by a worker that may have ended.
Archived == {"index", "finalize", "done", "failed"}

\* The tables agree with how far the worker of a source has come.
SourceFits(s) ==
  /\ s \in listed => worker[s] \in Archived
  /\ s \in owed => worker[s] = "failed"
  /\ s \in item => worker[s] \notin {"none", "gated"}
  /\ s \in item /\ worker[s] \in {"index", "finalize", "done"} => s \in listed
  /\ s \in total => /\ worker[s] = "done"
                    /\ s \in listed \cap item \/ Erased(s)
  /\ s \in guard => worker[s] = "done" /\ Erased(s)

\* Nothing of the source is lost.
Kept(s) ==
  /\ worker[s] \notin {"none", "gated", "failed"} => s \in item
  /\ worker[s] \in {"store", "index", "finalize", "done"} => s \in file
  /\ worker[s] \in {"index", "finalize", "done"} => s \in listed
  /\ worker[s] \in {"finalize", "done"} => s \in vector \/ VectorsUnasked

InGrace == user = "present" /\ row.state \in Grace => firebase /\ \A s \in Source : Kept(s)

\* An identity names files that nobody archives again, records that nobody
\* adds again, and counts sources whose file it names unless that has gone.
Captured(i) ==
  /\ \A s \in i.keys : worker[s] \in Archived
  /\ \A s \in i.ledger : worker[s] = "failed"
  /\ \A s \in i.total : worker[s] = "done" /\ (s \in i.keys \/ Erased(s))

RowFits ==
  /\ row.id \in 0 .. scheduled
  /\ row.id = 0 <=> row.state = "none"
  /\ row.state \in Past => row.due
  /\ row.state = "resolved" => user # "present"
  /\ row.progress \subseteq sent[row.id]
  /\ Captured(row.identity)

\* What is true of a job that works on the row that is there, or on its own.
Belongs(j) ==
  /\ job[j].id \in 0 .. scheduled
  /\ job[j].pc # "idle" => job[j].id # 0
  /\ job[j].pc \in Promoting /\ row.id = job[j].id => row.due
  /\ job[j].pc \notin Promoting \cup {"idle"} /\ row.id = job[j].id => row.state # "scheduled"
  /\ job[j].pc \in Erasing /\ row.id = job[j].id => job[j].identity = row.identity
  /\ job[j].pc \in Erasing /\ user = "present" => row.id = job[j].id
  /\ job[j].pc \in Mirroring => user # "present"
  /\ job[j].progress \subseteq sent[job[j].id]
  /\ Captured(job[j].identity)

\* What an attempt has confirmed stays erased until it settles.
Confirmed(j) ==
  job[j].ok =>
    /\ job[j].pc \in Erasing
    /\ job[j].pc # "vectors" => VectorsUnasked \/ job[j].identity.total \cap vector = {}
    /\ job[j].pc \notin {"vectors", "files"} => job[j].identity.keys \cap file = {}
    /\ job[j].pc \in {"providers", "settle"} =>
         job[j].identity.ledger \cap owed \subseteq job[j].cleared
    /\ job[j].pc = "settle" => ~firebase

JobFits(j) == Belongs(j) /\ Confirmed(j)

ErasureInv ==
  /\ TypeOK
  /\ \A s \in Source : SourceFits(s)
  /\ InGrace /\ RowFits /\ UploadsCarryOver
  /\ \A j \in Eraser : JobFits(j)

-----------------------------------------------------------------------------
(* The sets of the variables. *)

LEMMA NameFacts ==
  /\ None \notin Eraser /\ Runner \subseteq Eraser /\ Request \subseteq Eraser
  /\ 0 \in Id /\ MaxRequests \in Nat
  BY NamesAssumption, MaxAssumption DEF Eraser, Id

LEMMA NoIdentityFacts ==
  /\ NoIdentity \in Identity
  /\ NoIdentity.keys = {} /\ NoIdentity.ledger = {} /\ NoIdentity.total = {}
  BY DEF NoIdentity, Identity

LEMMA NoRowFacts ==
  /\ NoRow \in Row
  /\ NoRow.id = 0 /\ NoRow.state = "none" /\ NoRow.due = FALSE
  /\ NoRow.identity = NoIdentity /\ NoRow.progress = {}
  BY NameFacts, NoIdentityFacts DEF NoRow, Row

LEMMA IdleFacts ==
  /\ Idle \in Job
  /\ Idle.pc = "idle" /\ Idle.id = 0 /\ Idle.ok = FALSE /\ Idle.identity = NoIdentity
  /\ Idle.progress = {}
  BY NameFacts, NoIdentityFacts DEF Idle, Job

LEMMA RowField ==
  ASSUME NEW x \in Row
  PROVE  /\ x.id \in Id /\ x.state \in {"none", "scheduled", "pending", "failed", "resolved"}
         /\ x.due \in BOOLEAN /\ x.identity \in Identity
         /\ x.claimed_by \in Runner \cup {None} /\ x.leased \in BOOLEAN
         /\ x.progress \subseteq Mirror
  BY DEF Row

LEMMA JobField ==
  ASSUME NEW x \in Job
  PROVE  /\ x.id \in Id /\ x.identity \in Identity
         /\ x.loaded \in {"none", "scheduled", "pending", "failed", "resolved"}
         /\ x.cleared \subseteq Source /\ x.ok \in BOOLEAN /\ x.sweep \in BOOLEAN
         /\ x.progress \subseteq Mirror
  BY DEF Job

LEMMA JobSet ==
  ASSUME job \in [Eraser -> Job], NEW j \in Eraser, NEW x \in Job, job' = [job EXCEPT ![j] = x]
  PROVE  /\ job' \in [Eraser -> Job]
         /\ job'[j] = x
         /\ \A k \in Eraser : k # j => job'[k] = job[k]
  OBVIOUS

LEMMA WorkerSet ==
  ASSUME TypeOK, NEW s \in Source,
         NEW pc \in {"none", "gated", "archive", "store", "index", "finalize", "done", "failed"},
         WorkerAt(s, pc)
  PROVE  /\ worker' \in [Source -> {"none", "gated", "archive", "store", "index", "finalize",
                                     "done", "failed"}]
         /\ worker'[s] = pc
         /\ \A t \in Source : t # s => worker'[t] = worker[t]
  BY DEF TypeOK, WorkerAt

LEMMA InitType == Init => TypeOK
  BY NameFacts, NoRowFacts, IdleFacts, ScenariosAssumption DEF Init, TypeOK

\* The account, its sources and the requests.
LEMMA SourceType ==
  ASSUME TypeOK, NEW s \in Source, Ingestion(s)
  PROVE  TypeOK'
<1>1. CASE PassGate(s)
  BY <1>1, WorkerSet DEF TypeOK, PassGate, account, store
<1>2. CASE CreateItem(s)
  <2>1. CASE user = "gone"
    BY <1>2, <2>1, WorkerSet DEF TypeOK, CreateItem, account, store
  <2>2. CASE user # "gone"
    BY <1>2, <2>2, WorkerSet DEF TypeOK, CreateItem, account, store
  <2> QED BY <2>1, <2>2
<1>3. CASE Archive(s)
  BY <1>3, WorkerSet DEF TypeOK, Archive, account
<1>4. CASE StoreUrl(s)
  BY <1>4, WorkerSet DEF TypeOK, StoreUrl, account, store
<1>5. CASE Index(s)
  BY <1>5, WorkerSet DEF TypeOK, Index, account
<1>6. CASE Finalize(s)
  BY <1>6, WorkerSet DEF TypeOK, Finalize, store
<1>7. CASE Fail(s)
  BY <1>7, WorkerSet DEF TypeOK, Fail, VectorsGo, account
<1>8. CASE RetryCleanup(s)
  BY <1>8 DEF TypeOK, RetryCleanup, VectorsGo, account
<1> QED BY <1>1, <1>2, <1>3, <1>4, <1>5, <1>6, <1>7, <1>8 DEF Ingestion

LEMMA RequestType ==
  ASSUME TypeOK,
         GetOrCreateUser \/ Schedule \/ GraceEnds \/ CancelPassesGate \/ CancelDeletion
           \/ ClaimLapses \/ OutageEnds
  PROVE  TypeOK'
<1>1. CASE GetOrCreateUser
  BY <1>1 DEF TypeOK, GetOrCreateUser, library, store
<1>2. CASE Schedule
  <2>1. scheduled + 1 \in Id
    BY <1>2, NameFacts DEF Schedule, TypeOK, Id
  <2>2. [NoRow EXCEPT !.id = scheduled + 1, !.state = "scheduled"] \in Row
    BY <2>1, NoRowFacts DEF Row
  <2> QED BY <1>2, <2>1, <2>2 DEF TypeOK, Schedule, account, library, store
<1>3. CASE GraceEnds
  <2>1. [row EXCEPT !.due = TRUE] \in Row
    BY DEF TypeOK, Row
  <2> QED BY <1>3, <2>1 DEF TypeOK, GraceEnds, account, library, store
<1>4. CASE CancelPassesGate
  BY <1>4 DEF TypeOK, CancelPassesGate, account, library, store
<1>5. CASE CancelDeletion
  BY <1>5, NoRowFacts DEF TypeOK, CancelDeletion, account, library, store
<1>6. CASE ClaimLapses
  <2>1. [row EXCEPT !.leased = FALSE] \in Row
    BY DEF TypeOK, Row
  <2> QED BY <1>6, <2>1 DEF TypeOK, ClaimLapses, account, library, store
<1>7. CASE OutageEnds
  BY <1>7 DEF TypeOK, OutageEnds, account, library, store
<1> QED BY <1>1, <1>2, <1>3, <1>4, <1>5, <1>6, <1>7

\* The runs and the requests that erase.
LEMMA ClaimSet ==
  ASSUME TypeOK, NEW r \in Runner, Claims(r)
  PROVE  /\ row' \in Row
         /\ row'.id = row.id /\ row'.state = row.state /\ row'.due = row.due
         /\ row'.identity = row.identity /\ row'.progress = row.progress
  BY DEF TypeOK, Claims, Row

LEMMA StartSet ==
  ASSUME TypeOK, NEW j \in Eraser, Starts(j)
  PROVE  /\ job' \in [Eraser -> Job]
         /\ \A k \in Eraser : k # j => job'[k] = job[k]
         /\ job'[j].pc = "vectors" /\ job'[j].id = row.id /\ job'[j].loaded = row.state
         /\ job'[j].identity = row.identity /\ job'[j].progress = row.progress
<1> DEFINE new == [Idle EXCEPT !.pc = "vectors", !.id = row.id, !.loaded = row.state,
                     !.identity = row.identity, !.ok = TRUE, !.progress = row.progress]
<1>1. row \in Row
  BY DEF TypeOK
<1>2. /\ new \in Job
      /\ new.pc = "vectors" /\ new.id = row.id /\ new.loaded = row.state
      /\ new.identity = row.identity /\ new.progress = row.progress
  BY <1>1, IdleFacts, RowField DEF Job
<1>3. job' = [job EXCEPT ![j] = new]
  BY DEF Starts
<1> HIDE DEF new
<1> QED BY <1>2, <1>3, JobSet DEF TypeOK

LEMMA ReachSet ==
  ASSUME TypeOK, NEW j \in Eraser, NEW ok \in BOOLEAN,
         NEW pc \in {"files", "ledger", "settle"}, Reaches(j, pc, ok)
  PROVE  /\ job' \in [Eraser -> Job]
         /\ \A k \in Eraser : k # j => job'[k] = job[k]
         /\ job'[j].pc = pc /\ job'[j].id = job[j].id /\ job'[j].progress = job[j].progress
         /\ job'[j].identity = job[j].identity /\ job'[j].cleared = job[j].cleared
         /\ job'[j].ok <=> (job[j].ok /\ ok)
<1> DEFINE new == [job[j] EXCEPT !.pc = pc, !.ok = @ /\ ok]
<1>1. job[j] \in Job
  BY DEF TypeOK
<1>2. (job[j].ok /\ ok) \in BOOLEAN
  OBVIOUS
<1>3. /\ new \in Job
      /\ new.pc = pc /\ new.id = job[j].id /\ new.progress = job[j].progress
      /\ new.identity = job[j].identity /\ new.cleared = job[j].cleared
      /\ new.ok = (job[j].ok /\ ok)
  BY <1>1, <1>2 DEF Job
<1>4. job' = [job EXCEPT ![j] = new]
  BY DEF Reaches, TypeOK
<1> HIDE DEF new
<1> QED BY <1>3, <1>4, JobSet DEF TypeOK

\* A job of its own that keeps only its number.
LEMMA NextSet ==
  ASSUME TypeOK, NEW j \in Eraser, NEW i \in Id, NEW pc \in {"capture", "send", "release"},
         job' = [job EXCEPT ![j] = [Idle EXCEPT !.pc = pc, !.id = i]]
  PROVE  /\ job' \in [Eraser -> Job]
         /\ \A k \in Eraser : k # j => job'[k] = job[k]
         /\ job'[j].pc = pc /\ job'[j].id = i /\ job'[j].progress = {} /\ ~job'[j].ok
         /\ job'[j].identity = NoIdentity
<1> DEFINE new == [Idle EXCEPT !.pc = pc, !.id = i]
<1>1. /\ new \in Job
      /\ new.pc = pc /\ new.id = i /\ new.progress = {} /\ new.ok = FALSE
      /\ new.identity = NoIdentity
  BY IdleFacts DEF Job
<1>2. job' = [job EXCEPT ![j] = new]
  OBVIOUS
<1> HIDE DEF new
<1> QED BY <1>1, <1>2, JobSet DEF TypeOK

LEMMA CaptureSet ==
  ASSUME TypeOK, NEW r \in Runner, CaptureIdentity(r)
  PROVE  /\ job' \in [Eraser -> Job]
         /\ \A k \in Eraser : k # r => job'[k] = job[k]
         /\ job'[r].pc = "promote" /\ job'[r].id = job[r].id /\ job'[r].progress = job[r].progress
         /\ job'[r].identity.keys = listed \cap item /\ job'[r].identity.ledger = owed
         /\ job'[r].identity.total = total /\ job'[r].ok = job[r].ok
<1> DEFINE i == [keys |-> listed \cap item, ledger |-> owed, total |-> total]
           new == [job[r] EXCEPT !.pc = "promote", !.identity = i]
<1>1. /\ i \in Identity
      /\ i.keys = listed \cap item /\ i.ledger = owed /\ i.total = total
  BY DEF TypeOK, Identity
<1>2. job' = [job EXCEPT ![r] = new]
  BY NameFacts DEF TypeOK, CaptureIdentity
<1> HIDE DEF i
<1>3. job[r] \in Job
  BY NameFacts DEF TypeOK
<1>4. /\ new \in Job
      /\ new.pc = "promote" /\ new.id = job[r].id /\ new.progress = job[r].progress
      /\ new.identity = i /\ new.ok = job[r].ok
  BY <1>1, <1>3 DEF Job
<1> HIDE DEF new
<1> QED BY <1>1, <1>2, <1>4, JobSet, NameFacts DEF TypeOK

LEMMA UnsyncedSet ==
  ASSUME TypeOK, NEW r \in Runner, ClaimUnsynced(r)
  PROVE  /\ job' \in [Eraser -> Job]
         /\ \A k \in Eraser : k # r => job'[k] = job[k]
         /\ job'[r].pc = "send" /\ job'[r].id = row.id /\ job'[r].progress = row.progress
         /\ ~job'[r].ok /\ job'[r].identity = NoIdentity
<1> DEFINE new == [Idle EXCEPT !.pc = "send", !.id = row.id, !.sweep = TRUE,
                     !.progress = row.progress]
<1>1. row \in Row
  BY DEF TypeOK
<1>2. /\ new \in Job
      /\ new.pc = "send" /\ new.id = row.id /\ new.progress = row.progress
      /\ new.ok = FALSE /\ new.identity = NoIdentity
  BY <1>1, IdleFacts, RowField DEF Job
<1>3. job' = [job EXCEPT ![r] = new]
  BY DEF ClaimUnsynced
<1> HIDE DEF new
<1> QED BY <1>2, <1>3, JobSet, NameFacts DEF TypeOK

LEMMA SendSet ==
  ASSUME TypeOK, NEW j \in Eraser, NEW c \in SUBSET Mirror, Send(j, c)
  PROVE  /\ job' \in [Eraser -> Job]
         /\ \A k \in Eraser : k # j => job'[k] = job[k]
         /\ job'[j].pc = "note" /\ job'[j].id = job[j].id
         /\ job'[j].progress \subseteq job[j].progress \cup c
         /\ job'[j].identity = job[j].identity /\ job'[j].ok = job[j].ok
         /\ sent' \in [Id -> SUBSET Mirror]
         /\ sent'[job[j].id] = sent[job[j].id] \cup c
         /\ \A i \in Id : sent[i] \subseteq sent'[i]
<1> DEFINE p == IF job[j].sweep THEN job[j].progress \cup c ELSE c
           new == [job[j] EXCEPT !.pc = "note", !.progress = p]
<1>1. job[j] \in Job
  BY DEF TypeOK
<1>2. job[j].id \in Id /\ job[j].progress \subseteq Mirror
  BY <1>1, JobField
<1>3. p \subseteq Mirror /\ p \subseteq job[j].progress \cup c
  BY <1>2
<1>4. job' = [job EXCEPT ![j] = new]
  BY DEF TypeOK, Send
<1> HIDE DEF p
<1>5. /\ new \in Job
      /\ new.pc = "note" /\ new.id = job[j].id /\ new.progress = p
      /\ new.identity = job[j].identity /\ new.ok = job[j].ok
  BY <1>1, <1>3 DEF Job
<1> HIDE DEF new
<1>6. sent' = [sent EXCEPT ![job[j].id] = @ \cup c]
  BY DEF Send
<1>7. /\ sent' \in [Id -> SUBSET Mirror]
      /\ sent'[job[j].id] = sent[job[j].id] \cup c
      /\ \A i \in Id : sent[i] \subseteq sent'[i]
  BY <1>2, <1>6 DEF TypeOK
<1> QED BY <1>3, <1>4, <1>5, <1>7, JobSet DEF TypeOK

LEMMA LedgerSet ==
  ASSUME TypeOK, NEW j \in Eraser, NEW ok \in BOOLEAN, EraseLedger(j, ok)
  PROVE  /\ job' \in [Eraser -> Job]
         /\ \A k \in Eraser : k # j => job'[k] = job[k]
         /\ job'[j].pc = "providers" /\ job'[j].id = job[j].id
         /\ job'[j].progress = job[j].progress /\ job'[j].identity = job[j].identity
         /\ job'[j].ok => job[j].ok /\ job'[j].cleared = job[j].identity.ledger \cap owed
         /\ file' \subseteq file /\ vector' \subseteq vector
<1> DEFINE mine == job[j].identity.ledger \cap owed
<1>1. PICK gone \in SUBSET mine : \E confirmed \in SUBSET gone :
        /\ ok = (confirmed = mine)
        /\ file' = file \ gone /\ VectorsGo(gone)
        /\ job' = [job EXCEPT ![j].pc = "providers", ![j].ok = @ /\ ok, ![j].cleared = confirmed]
  BY DEF EraseLedger
<1>2. PICK confirmed \in SUBSET gone :
        /\ ok = (confirmed = mine)
        /\ job' = [job EXCEPT ![j].pc = "providers", ![j].ok = @ /\ ok, ![j].cleared = confirmed]
  BY <1>1
<1> DEFINE new == [job[j] EXCEPT !.pc = "providers", !.ok = @ /\ ok, !.cleared = confirmed]
<1>3. confirmed \subseteq Source
  BY DEF TypeOK
<1> HIDE DEF mine
<1>4. job[j] \in Job /\ (job[j].ok /\ ok) \in BOOLEAN
  BY DEF TypeOK
<1>5. /\ new \in Job
      /\ new.pc = "providers" /\ new.id = job[j].id /\ new.progress = job[j].progress
      /\ new.identity = job[j].identity /\ new.cleared = confirmed
      /\ new.ok = (job[j].ok /\ ok)
  BY <1>3, <1>4 DEF Job
<1>6. job' = [job EXCEPT ![j] = new]
  BY <1>2 DEF TypeOK
<1> HIDE DEF new
<1>7. file' \subseteq file /\ vector' \subseteq vector
  BY <1>1 DEF VectorsGo
<1>8. /\ job' \in [Eraser -> Job] /\ job'[j] = new
      /\ \A k \in Eraser : k # j => job'[k] = job[k]
  BY <1>5, <1>6, JobSet DEF TypeOK
<1>9. job'[j].ok => job[j].ok /\ job'[j].cleared = mine
  BY <1>2, <1>5, <1>8
<1> QED BY <1>5, <1>7, <1>8, <1>9 DEF mine

LEMMA RunType ==
  ASSUME TypeOK, NEW r \in Runner, Scheduler(r)
  PROVE  TypeOK'
<1>1. r \in Eraser /\ row \in Row
  BY NameFacts DEF TypeOK
<1>2. CASE ClaimScheduled(r)
  <2>1. CASE user = "gone"
    BY <1>2, <2>1, NoRowFacts DEF TypeOK, ClaimScheduled, account, library, store
  <2>2. CASE user # "gone"
    <3>1. job' \in [Eraser -> Job]
      BY <1>1, <1>2, <2>2, RowField, NextSet DEF ClaimScheduled
    <3> QED BY <1>2, <2>2, <3>1, ClaimSet DEF TypeOK, ClaimScheduled, account, library, store
  <2> QED BY <2>1, <2>2
<1>3. CASE CaptureIdentity(r)
  BY <1>3, CaptureSet DEF TypeOK, CaptureIdentity, account, library, store
<1>4. CASE Promote(r)
  <2>1. job' \in [Eraser -> Job]
    BY <1>1, <1>4, IdleFacts, JobSet DEF Promote, TypeOK
  <2>2. job[r].identity \in Identity
    BY <1>1, JobField DEF TypeOK
  <2>3. [row EXCEPT !.state = "pending", !.identity = job[r].identity,
                    !.claimed_by = None, !.leased = FALSE] \in Row
    BY <1>1, <2>2 DEF Row
  <2> QED BY <1>1, <1>4, <2>1, <2>3 DEF TypeOK, Promote, account, library, store
<1>5. CASE ClaimErasure(r)
  BY <1>1, <1>5, StartSet, ClaimSet DEF TypeOK, ClaimErasure, account, library, store
<1>6. CASE ReleaseClaim(r)
  <2>1. job' \in [Eraser -> Job]
    BY <1>1, <1>6, IdleFacts, JobSet DEF ReleaseClaim, TypeOK
  <2>2. [row EXCEPT !.claimed_by = None, !.leased = FALSE] \in Row
    BY <1>1 DEF Row
  <2> QED BY <1>1, <1>6, <2>1, <2>2 DEF TypeOK, ReleaseClaim, account, library, store
<1>7. CASE ClaimUnsynced(r)
  BY <1>7, UnsyncedSet, ClaimSet DEF TypeOK, ClaimUnsynced, account, library, store
<1> QED BY <1>2, <1>3, <1>4, <1>5, <1>6, <1>7 DEF Scheduler

LEMMA EraseType ==
  ASSUME TypeOK, NEW j \in Eraser, NEW ok \in BOOLEAN,
         EraseVectors(j, ok) \/ EraseFiles(j, ok) \/ EraseLedger(j, ok) \/ EraseProviders(j, ok)
  PROVE  TypeOK'
<1>1. CASE EraseVectors(j, ok)
  BY <1>1, ReachSet DEF TypeOK, EraseVectors, account, library
<1>2. CASE EraseFiles(j, ok)
  BY <1>2, ReachSet DEF TypeOK, EraseFiles, account, library
<1>3. CASE EraseLedger(j, ok)
  BY <1>3, LedgerSet DEF TypeOK, EraseLedger, account, library
<1>4. CASE EraseProviders(j, ok)
  BY <1>4, ReachSet DEF TypeOK, EraseProviders, account, library, store
<1> QED BY <1>1, <1>2, <1>3, <1>4

LEMMA AttemptType ==
  ASSUME TypeOK, NEW j \in Eraser, Attempt(j)
  PROVE  TypeOK'
<1>1. row \in Row /\ job[j] \in Job
  BY DEF TypeOK
<1>2. CASE Erase(j)
  BY <1>2, EraseType DEF Erase
<1>3. CASE SettleErased(j)
  <2>1. job[j].id \in Id /\ job[j].progress \subseteq Mirror /\ job[j].identity \in Identity
    BY <1>1, JobField
  <2>2. job' \in [Eraser -> Job]
    BY <1>3, <2>1, NextSet DEF SettleErased
  <2>3. [row EXCEPT !.state = "resolved", !.progress = job[j].progress] \in Row
    BY <1>1, <2>1 DEF Row
  <2>4. job[j].identity.total \subseteq Source
    BY <2>1 DEF Identity
  <2> QED BY <1>3, <2>2, <2>3, <2>4 DEF TypeOK, SettleErased
<1>4. CASE SettleFailed(j)
  <2>1. job[j].id \in Id /\ job[j].progress \subseteq Mirror
    BY <1>1, JobField
  <2>2. job' \in [Eraser -> Job]
    <3>1. CASE j \in Runner
      BY <1>4, <2>1, <3>1, NextSet DEF SettleFailed
    <3>2. CASE j \notin Runner
      BY <1>4, <3>2, IdleFacts, JobSet DEF SettleFailed, TypeOK
    <3> QED BY <3>1, <3>2
  <2>3. \A x \in {"failed", row.state} :
          [row EXCEPT !.state = x, !.progress = job[j].progress] \in Row
    BY <1>1, <2>1 DEF Row
  <2>4. row' \in Row
    BY <1>1, <1>4, <2>3 DEF SettleFailed
  <2> QED BY <1>4, <2>2, <2>4 DEF TypeOK, SettleFailed, account, library
<1>5. CASE \E c \in SUBSET Mirror : Send(j, c)
  BY <1>5, SendSet DEF TypeOK, Send, account, library, store
<1>6. CASE Note(j)
  <2>1. job' \in [Eraser -> Job]
    BY <1>6, IdleFacts, JobSet DEF Note, TypeOK
  <2>2. /\ [row EXCEPT !.progress = job[j].progress] \in Row
        /\ [row EXCEPT !.progress = job[j].progress, !.claimed_by = None, !.leased = FALSE] \in Row
    BY <1>1, JobField DEF Row
  <2>3. row' \in Row
    BY <1>1, <1>6, <2>2, NoRowFacts DEF Note
  <2> QED BY <1>6, <2>1, <2>3 DEF TypeOK, Note, account, library, store
<1> QED BY <1>2, <1>3, <1>4, <1>5, <1>6 DEF Attempt

LEMMA OthersType ==
  /\ \A q \in Request : TypeOK /\ RequestErasure(q) => TypeOK'
  /\ \A j \in Eraser : TypeOK /\ Dies(j) => TypeOK'
<1>1. ASSUME NEW q \in Request, TypeOK, RequestErasure(q)
      PROVE  TypeOK'
  BY <1>1, StartSet, NameFacts DEF TypeOK, RequestErasure, account, library, store
<1>2. ASSUME NEW j \in Eraser, TypeOK, Dies(j)
      PROVE  TypeOK'
  BY <1>2, IdleFacts, JobSet DEF TypeOK, Dies, account, library, store
<1> QED BY <1>1, <1>2

LEMMA StepType == TypeOK /\ [Next]_vars => TypeOK'
<1> SUFFICES ASSUME TypeOK, [Next]_vars
             PROVE  TypeOK'
  OBVIOUS
<1>1. CASE UNCHANGED vars
  BY <1>1 DEF TypeOK, vars, account, library, store
<1> QED BY <1>1, SourceType, RequestType, RunType, AttemptType, OthersType DEF Next

\* Every variable of an account's deletion stays in its set, for any number of
\* sources, of overlapping runs and requests, and of deletions in a row.
THEOREM ErasureTypeCorrect == Spec => []TypeOK
  BY InitType, StepType, PTL DEF Spec

-----------------------------------------------------------------------------
(* What every step does, and what follows from it. *)

\* Sources only go on, and only their own workers store anything for them.
Onward ==
  /\ \A s \in Source :
       /\ worker[s] \in Archived => worker'[s] \in Archived /\ (s \in file' => s \in file)
       /\ worker[s] \in {"done", "failed"} =>
            worker'[s] = worker[s] /\ (s \in vector' => s \in vector)
       /\ worker[s] = "failed" => (s \in owed' => s \in owed)
  /\ scheduled <= scheduled'
  /\ \A i \in Id : sent[i] \subseteq sent'[i]
  /\ firebase' => firebase
  /\ user' = "present" => user = "present"
  /\ ClientStays

\* The row goes on, goes, or is a new one.
RowMoves ==
  \/ /\ row'.id = row.id /\ (row.due => row'.due)
     /\ row'.state = "scheduled" => row.state = "scheduled"
     /\ row.state \in Past => row'.identity = row.identity
  \/ row'.id = 0 /\ (user # "present" \/ row.state \notin Past)
  \/ row'.id = scheduled + 1 /\ row.id = 0

LEMMA CapturedStays ==
  ASSUME Onward, NEW i \in Identity,
         \A s \in i.keys : worker[s] \in Archived,
         \A s \in i.ledger : worker[s] = "failed",
         \A s \in i.total : worker[s] = "done" /\ (s \in i.keys \/ Erased(s))
  PROVE  /\ \A s \in i.keys : worker'[s] \in Archived
         /\ \A s \in i.ledger : worker'[s] = "failed"
         /\ \A s \in i.total : worker'[s] = "done" /\ (s \in i.keys \/ Erased(s)')
<1>1. i.keys \subseteq Source /\ i.ledger \subseteq Source /\ i.total \subseteq Source
  BY DEF Identity
<1>2. \A s \in i.total : worker[s] \in Archived
  BY DEF Archived
<1> QED BY <1>1, <1>2 DEF Onward

LEMMA EmptyCaptured == Captured(NoIdentity)
  BY NoIdentityFacts DEF Captured

LEMMA JobIdentity ==
  ASSUME TypeOK, NEW j \in Eraser
  PROVE  /\ job[j] \in Job
         /\ job[j].id \in Id
         /\ job[j].identity \in Identity
         /\ job[j].identity.keys \subseteq Source
         /\ job[j].identity.ledger \subseteq Source
         /\ job[j].identity.total \subseteq Source
<1>1. job[j] \in Job
  BY DEF TypeOK
<1>2. job[j].identity \in Identity /\ job[j].id \in Id
  BY <1>1, JobField
<1> QED BY <1>1, <1>2 DEF Identity

\* A job's identity goes on naming what it named.
LEMMA JobCaptured ==
  ASSUME TypeOK, Onward, NEW j \in Eraser, Captured(job[j].identity),
         job'[j].identity = job[j].identity
  PROVE  Captured(job[j].identity)'
<1>1. job[j].identity \in Identity
  BY JobIdentity
<1> QED BY <1>1, CapturedStays DEF Captured

LEMMA RowCaptured ==
  ASSUME TypeOK, Onward, Captured(row.identity), row'.identity = row.identity
  PROVE  Captured(row.identity)'
<1>1. row.identity \in Identity
  BY RowField DEF TypeOK
<1> QED BY <1>1, CapturedStays DEF Captured

\* What holds of a job that takes no step goes on holding.
LEMMA OthersFit ==
  ASSUME TypeOK, TypeOK', RowFits, Onward, RowMoves,
         NEW k \in Eraser, JobFits(k), job'[k] = job[k]
  PROVE  JobFits(k)'
<1>1. /\ job[k].id \in Id /\ row.id \in Id /\ scheduled \in Nat /\ scheduled' \in Nat
      /\ row.state \in Grace \cup Past
  BY JobIdentity, RowField DEF TypeOK, Id, Grace, Past
<1>2. Belongs(k) /\ Confirmed(k)
  BY DEF JobFits
<1>3. Captured(job[k].identity)'
  BY <1>2, JobCaptured DEF Belongs
<1>4. /\ job'[k].id \in 0 .. scheduled'
      /\ job'[k].pc # "idle" => job'[k].id # 0
      /\ job'[k].pc \in Mirroring => user' # "present"
      /\ job'[k].progress \subseteq sent'[job'[k].id]
  BY <1>1, <1>2 DEF Belongs, Onward
<1>5. row'.id = job'[k].id =>
        /\ job'[k].pc \in Promoting => row'.due
        /\ job'[k].pc \notin Promoting \cup {"idle"} => row'.state # "scheduled"
        /\ job'[k].pc \in Erasing => job'[k].identity = row'.identity
  <2> SUFFICES ASSUME row'.id = job[k].id, job[k].id # 0
               PROVE  /\ job[k].pc \in Promoting => row'.due
                      /\ job[k].pc \notin Promoting \cup {"idle"} => row'.state # "scheduled"
                      /\ job[k].pc \in Erasing => job[k].identity = row'.identity
    BY <1>2 DEF Belongs, Promoting, Erasing
  <2>1. job[k].id # scheduled + 1
    BY <1>1, <1>2 DEF Belongs
  <2>2. /\ row'.id = row.id /\ (row.due => row'.due)
        /\ row'.state = "scheduled" => row.state = "scheduled"
        /\ row.state \in Past => row'.identity = row.identity
    BY <2>1 DEF RowMoves
  <2>3. row.state # "none"
    BY <2>2 DEF RowFits
  <2> QED BY <1>1, <1>2, <2>2, <2>3 DEF Belongs, Grace, Past, Promoting, Erasing
<1>6. job'[k].pc \in Erasing /\ user' = "present" => row'.id = job'[k].id
  <2> SUFFICES ASSUME job[k].pc \in Erasing, user' = "present"
               PROVE  row'.id = job[k].id
    OBVIOUS
  <2>1. user = "present" /\ row.id = job[k].id /\ job[k].id # 0
    BY <1>2 DEF Belongs, Onward, Erasing
  <2>2. row.state \in Past
    BY <1>1, <1>2, <2>1 DEF Belongs, RowFits, Grace, Erasing, Promoting
  <2> QED BY <2>1, <2>2 DEF RowMoves
<1>7. Belongs(k)'
  BY <1>3, <1>4, <1>5, <1>6 DEF Belongs
<1>8. Confirmed(k)'
  <2>1. /\ \A s \in job[k].identity.keys : worker[s] \in Archived
        /\ \A s \in job[k].identity.ledger : worker[s] = "failed"
        /\ \A s \in job[k].identity.total : worker[s] = "done"
    BY <1>2 DEF Belongs, Captured
  <2> QED BY <1>2, <2>1, JobIdentity DEF Confirmed, Onward
<1> QED BY <1>7, <1>8 DEF JobFits

\* Together: the step's own part of the invariant, and the jobs that take it.
LEMMA Assemble ==
  ASSUME ErasureInv, TypeOK', Onward, RowMoves,
         \A s \in Source : SourceFits(s)',
         InGrace', RowFits', UploadsCarryOver',
         \A j \in Eraser : job'[j] = job[j] \/ JobFits(j)'
  PROVE  ErasureInv'
<1>1. \A j \in Eraser : JobFits(j)'
  BY OthersFit DEF ErasureInv
<1> QED BY <1>1 DEF ErasureInv

LEMMA SourcesStay ==
  ASSUME \A s \in Source : SourceFits(s),
         UNCHANGED <<user, total, guard, item, listed, worker>>,
         owed' \subseteq owed, file' \subseteq file, vector' \subseteq vector, ClientStays
  PROVE  \A s \in Source : SourceFits(s)'
  BY DEF SourceFits

LEMMA RowStays ==
  ASSUME TypeOK, TypeOK', RowFits, Onward,
         row'.id = row.id, row'.state = row.state, row.due => row'.due,
         row'.identity = row.identity, row'.progress = row.progress
  PROVE  RowFits'
<1>1. row.id \in Id /\ scheduled \in Nat /\ scheduled' \in Nat
  BY RowField DEF TypeOK, Id
<1>2. Captured(row.identity)'
  BY RowCaptured DEF RowFits
<1> QED BY <1>1, <1>2 DEF RowFits, Onward

LEMMA NoRowFits ==
  ASSUME TypeOK, TypeOK', row' = NoRow
  PROVE  RowFits'
<1>1. scheduled' \in Nat
  BY DEF TypeOK, Id
<1>2. Captured(row.identity)'
  BY NoRowFacts, NoIdentityFacts DEF Captured
<1> QED BY <1>1, <1>2, NoRowFacts DEF RowFits, Past

\* A job that has ended, or that has confirmed nothing and names nothing.
LEMMA BareFits ==
  ASSUME TypeOK, TypeOK', RowFits', NEW j \in Eraser,
         ~job'[j].ok, job'[j].identity = NoIdentity, job'[j].pc \notin Erasing,
         job'[j].id \in 0 .. scheduled',
         job'[j].pc # "idle" => job'[j].id # 0,
         job'[j].pc \in Promoting /\ row'.id = job'[j].id => row'.due,
         job'[j].pc \notin Promoting \cup {"idle"} /\ row'.id = job'[j].id =>
           row'.state # "scheduled",
         job'[j].pc \in Mirroring => user' # "present",
         job'[j].progress \subseteq sent'[job'[j].id]
  PROVE  JobFits(j)'
<1>1. Captured(job[j].identity)'
  BY NoIdentityFacts DEF Captured
<1> QED BY <1>1 DEF JobFits, Belongs, Confirmed

LEMMA IdleFits ==
  ASSUME TypeOK, TypeOK', RowFits', NEW j \in Eraser, job' = [job EXCEPT ![j] = Idle]
  PROVE  JobFits(j)'
<1>1. job'[j] = Idle
  BY DEF TypeOK
<1>2. scheduled' \in Nat
  BY DEF TypeOK, Id
<1> QED BY <1>1, <1>2, BareFits, IdleFacts DEF Erasing, Promoting, Mirroring

LEMMA InitInv == Init => ErasureInv
<1> SUFFICES ASSUME Init
             PROVE  ErasureInv
  OBVIOUS
<1>1. TypeOK
  BY InitType
<1>2. /\ \A s \in Source : SourceFits(s)
      /\ InGrace /\ UploadsCarryOver
  BY DEF Init, SourceFits, InGrace, Kept, UploadsCarryOver
<1>3. RowFits
  BY NoRowFacts, EmptyCaptured DEF Init, RowFits, Past
<1>4. \A j \in Eraser : JobFits(j)
  BY IdleFacts, EmptyCaptured
     DEF Init, JobFits, Belongs, Confirmed, Promoting, Erasing, Mirroring
<1> QED BY <1>1, <1>2, <1>3, <1>4 DEF ErasureInv

-----------------------------------------------------------------------------
(* The steps of the sources. *)

LEMMA SourceStep ==
  ASSUME ErasureInv, TypeOK', ClientStays, NEW s \in Source, Ingestion(s)
  PROVE  ErasureInv'
<1>1. /\ TypeOK /\ InGrace /\ RowFits /\ UploadsCarryOver
      /\ \A t \in Source : SourceFits(t)
  BY DEF ErasureInv
<1>2. scheduled \in Nat
  BY <1>1 DEF TypeOK, Id
<1>3. CASE PassGate(s)
  <2>1. /\ worker'[s] = "gated" /\ worker[s] = "none"
        /\ \A t \in Source : t # s => worker'[t] = worker[t]
        /\ UNCHANGED <<account, firebase, row, scheduled, sent, item, listed, store, job>>
    BY <1>1, <1>3, WorkerSet DEF PassGate
  <2>2. Onward /\ RowMoves
    BY <1>2, <2>1 DEF Onward, RowMoves, Archived, account, store
  <2>3. \A t \in Source : SourceFits(t)'
    BY <1>1, <2>1 DEF SourceFits, Archived, account, store
  <2>4. InGrace'
    BY <1>1, <2>1 DEF InGrace, Kept, account, store
  <2> QED BY <1>1, <2>1, <2>2, <2>3, <2>4, RowStays, Assemble DEF UploadsCarryOver, account
<1>4. CASE CreateItem(s)
  <2>1. /\ worker'[s] \in {"none", "archive"} /\ worker[s] = "gated"
        /\ worker'[s] = "none" => item' = item
        /\ worker'[s] = "archive" => item' = item \cup {s}
        /\ \A t \in Source : t # s => worker'[t] = worker[t]
        /\ UNCHANGED <<account, firebase, row, scheduled, sent, listed, store, job>>
    BY <1>1, <1>4, WorkerSet DEF CreateItem
  <2>2. Onward /\ RowMoves
    BY <1>2, <2>1 DEF Onward, RowMoves, Archived, account, store
  <2>3. \A t \in Source : SourceFits(t)'
    BY <1>1, <2>1 DEF SourceFits, Archived, account, store
  <2>4. InGrace'
    BY <1>1, <2>1 DEF InGrace, Kept, account, store
  <2> QED BY <1>1, <2>1, <2>2, <2>3, <2>4, RowStays, Assemble DEF UploadsCarryOver, account
<1>5. CASE Archive(s)
  <2>1. /\ worker'[s] = "store" /\ worker[s] = "archive" /\ file' = file \cup {s}
        /\ \A t \in Source : t # s => worker'[t] = worker[t]
        /\ UNCHANGED <<account, firebase, row, scheduled, sent, item, listed, vector, owed, job>>
    BY <1>1, <1>5, WorkerSet DEF Archive
  <2>2. Onward /\ RowMoves
    BY <1>2, <2>1 DEF Onward, RowMoves, Archived, account
  <2>3. \A t \in Source : SourceFits(t)'
    BY <1>1, <2>1 DEF SourceFits, Archived, account
  <2>4. InGrace'
    BY <1>1, <2>1 DEF InGrace, Kept, account
  <2> QED BY <1>1, <2>1, <2>2, <2>3, <2>4, RowStays, Assemble DEF UploadsCarryOver, account
<1>6. CASE StoreUrl(s)
  <2>1. /\ worker'[s] = "index" /\ worker[s] = "store" /\ listed' = listed \cup {s}
        /\ \A t \in Source : t # s => worker'[t] = worker[t]
        /\ UNCHANGED <<account, firebase, row, scheduled, sent, item, store, job>>
    BY <1>1, <1>6, WorkerSet DEF StoreUrl
  <2>2. Onward /\ RowMoves
    BY <1>2, <2>1 DEF Onward, RowMoves, Archived, account, store
  <2>3. \A t \in Source : SourceFits(t)'
    BY <1>1, <2>1 DEF SourceFits, Archived, account, store
  <2>4. InGrace'
    BY <1>1, <2>1 DEF InGrace, Kept, account, store
  <2> QED BY <1>1, <2>1, <2>2, <2>3, <2>4, RowStays, Assemble DEF UploadsCarryOver, account
<1>7. CASE Index(s)
  <2>1. /\ worker'[s] = "finalize" /\ worker[s] = "index"
        /\ vector' = vector \cup {s} \/ (VectorsUnasked /\ vector' = vector)
        /\ \A t \in Source : t # s => worker'[t] = worker[t]
        /\ UNCHANGED <<account, firebase, row, scheduled, sent, item, listed, file, owed, job>>
    BY <1>1, <1>7, WorkerSet DEF Index
  <2>2. Onward /\ RowMoves
    BY <1>2, <2>1 DEF Onward, RowMoves, Archived, account
  <2>3. \A t \in Source : SourceFits(t)'
    BY <1>1, <2>1 DEF SourceFits, Archived, account
  <2>4. InGrace'
    BY <1>1, <2>1 DEF InGrace, Kept, account
  <2> QED BY <1>1, <2>1, <2>2, <2>3, <2>4, RowStays, Assemble DEF UploadsCarryOver, account
<1>8. CASE Finalize(s)
  <2>1. /\ worker'[s] = "done" /\ worker[s] = "finalize" /\ total' = total \cup {s} /\ s \in item
        /\ \A t \in Source : t # s => worker'[t] = worker[t]
        /\ UNCHANGED <<user, guard, firebase, row, scheduled, sent, item, listed, store, job>>
    BY <1>1, <1>8, WorkerSet DEF Finalize
  <2>2. Onward /\ RowMoves
    BY <1>2, <2>1 DEF Onward, RowMoves, Archived, store
  <2>3. \A t \in Source : SourceFits(t)'
    BY <1>1, <2>1 DEF SourceFits, Archived, store
  <2>4. InGrace'
    BY <1>1, <2>1 DEF InGrace, Kept, store
  <2> QED BY <1>1, <2>1, <2>2, <2>3, <2>4, RowStays, Assemble DEF UploadsCarryOver
<1>9. CASE Fail(s)
  <2>1. /\ worker'[s] = "failed" /\ worker[s] \in {"archive", "store", "index", "finalize"}
        /\ file' \subseteq file /\ vector' \subseteq vector
        /\ listed' \subseteq listed /\ owed' \subseteq owed \cup {s}
        /\ \A t \in Source \ {s} : t \in file => t \in file'
        /\ \A t \in Source \ {s} : t \in vector => t \in vector'
        /\ \A t \in Source \ {s} : t \in listed => t \in listed'
        /\ \A t \in Source : t # s => worker'[t] = worker[t]
        /\ UNCHANGED <<account, firebase, row, scheduled, sent, item, job>>
    BY <1>1, <1>9, WorkerSet DEF Fail, VectorsGo
  <2>2. Onward /\ RowMoves
    BY <1>2, <2>1 DEF Onward, RowMoves, Archived, account
  <2>3. \A t \in Source : SourceFits(t)'
    BY <1>1, <2>1 DEF SourceFits, Archived, account
  <2>4. InGrace'
    BY <1>1, <2>1 DEF InGrace, Kept, account
  <2>5. RowFits'
    BY <1>1, <2>1, <2>2, RowStays
  <2>6. UploadsCarryOver'
    BY <1>1, <2>1 DEF UploadsCarryOver, account
  <2> QED BY <2>1, <2>2, <2>3, <2>4, <2>5, <2>6, Assemble
<1>10. CASE RetryCleanup(s)
  <2>1. worker[s] = "failed"
    BY <1>1, <1>10 DEF RetryCleanup, SourceFits
  <2>2. /\ file' = file \ {s} /\ vector' \subseteq vector /\ vector \ {s} \subseteq vector'
        /\ listed' = listed \ {s} /\ owed' = owed \ {s}
        /\ UNCHANGED <<account, firebase, row, scheduled, sent, item, worker, job>>
    BY <1>10 DEF RetryCleanup, VectorsGo
  <2>3. Onward /\ RowMoves
    BY <1>2, <2>2 DEF Onward, RowMoves, account
  <2>4. \A t \in Source : SourceFits(t)'
    BY <1>1, <2>1, <2>2 DEF SourceFits, account
  <2>5. InGrace'
    BY <1>1, <2>1, <2>2 DEF InGrace, Kept, account
  <2> QED BY <1>1, <2>2, <2>3, <2>4, <2>5, RowStays, Assemble DEF UploadsCarryOver, account
<1> QED BY <1>3, <1>4, <1>5, <1>6, <1>7, <1>8, <1>9, <1>10 DEF Ingestion

-----------------------------------------------------------------------------
(* The steps of the requests, and of time. *)

LEMMA RequestStep ==
  ASSUME ErasureInv, TypeOK', ClientStays,
         GetOrCreateUser \/ Schedule \/ GraceEnds \/ CancelPassesGate \/ CancelDeletion
           \/ ClaimLapses \/ OutageEnds
  PROVE  ErasureInv'
<1>1. /\ TypeOK /\ InGrace /\ RowFits /\ UploadsCarryOver
      /\ \A t \in Source : SourceFits(t)
  BY DEF ErasureInv
<1>2. scheduled \in Nat /\ row \in Row /\ row.state \in Grace \cup Past /\ scheduled' \in Nat
  BY <1>1, RowField DEF TypeOK, Id, Grace, Past
<1>3. job' = job
  BY DEF GetOrCreateUser, Schedule, GraceEnds, CancelPassesGate, CancelDeletion, ClaimLapses,
         OutageEnds
<1>4. CASE GetOrCreateUser
  <2>1. /\ user = "gone" /\ user' = "reborn" /\ total' = guard
        /\ UNCHANGED <<guard, firebase, row, scheduled, sent, library, store>>
    BY <1>4 DEF GetOrCreateUser
  <2>2. Onward /\ RowMoves
    BY <1>2, <2>1 DEF Onward, RowMoves, library, store
  <2>3. \A t \in Source : SourceFits(t)'
    BY <1>1, <2>1 DEF SourceFits, library, store
  <2>4. InGrace' /\ UploadsCarryOver'
    BY <2>1 DEF InGrace, UploadsCarryOver
  <2> QED BY <1>1, <1>3, <2>1, <2>2, <2>3, <2>4, RowStays, Assemble
<1>5. CASE Schedule
  <2>1. /\ row.id = 0
        /\ scheduled' = scheduled + 1
        /\ row'.id = scheduled + 1 /\ row'.state = "scheduled" /\ row'.progress = {}
        /\ row'.identity = NoIdentity
        /\ UNCHANGED <<account, firebase, sent, library, store>>
    BY <1>1, <1>5, NoRowFacts DEF Schedule, RowFits, NoRow
  <2>2. Onward /\ RowMoves
    BY <1>2, <2>1 DEF Onward, RowMoves, account, library, store
  <2>3. \A t \in Source : SourceFits(t)'
    BY <1>1, <2>1, SourcesStay DEF account, library, store
  <2>4. InGrace' /\ UploadsCarryOver'
    BY <1>1, <1>5, <2>1
       DEF InGrace, Kept, UploadsCarryOver, Schedule, Grace, account, library, store
  <2>5. Captured(row.identity)'
    BY <2>1, NoIdentityFacts DEF Captured
  <2>6. RowFits'
    BY <1>2, <2>1, <2>5 DEF RowFits, Past
  <2> QED BY <1>3, <2>2, <2>3, <2>4, <2>6, Assemble
<1>6. CASE CancelDeletion
  <2>1. UNCHANGED <<account, firebase, scheduled, sent, library, store>>
    BY <1>6 DEF CancelDeletion
  <2>2. CASE row.state = "scheduled"
    <3>1. row' = NoRow
      BY <1>6, <2>2 DEF CancelDeletion
    <3>2. Onward /\ RowMoves
      BY <1>2, <2>1, <2>2, <3>1, NoRowFacts DEF Onward, RowMoves, Past, account, library, store
    <3>3. \A t \in Source : SourceFits(t)'
      BY <1>1, <2>1, SourcesStay DEF account, library, store
    <3>4. InGrace' /\ UploadsCarryOver'
      BY <1>1, <2>1, <2>2 DEF InGrace, Kept, UploadsCarryOver, Grace, account, library, store
    <3> QED BY <1>1, <1>3, <3>1, <3>2, <3>3, <3>4, NoRowFits, Assemble
  <2>3. CASE row.state # "scheduled"
    <3>1. row' = row
      BY <1>6, <2>3 DEF CancelDeletion
    <3>2. Onward /\ RowMoves
      BY <1>2, <2>1, <3>1 DEF Onward, RowMoves, account, library, store
    <3>3. \A t \in Source : SourceFits(t)'
      BY <1>1, <2>1, SourcesStay DEF account, library, store
    <3>4. InGrace' /\ UploadsCarryOver'
      BY <1>1, <2>1, <3>1 DEF InGrace, Kept, UploadsCarryOver, account, library, store
    <3> QED BY <1>1, <1>3, <3>1, <3>2, <3>3, <3>4, RowStays, Assemble
  <2> QED BY <2>2, <2>3
<1>7. CASE GraceEnds \/ CancelPassesGate \/ ClaimLapses \/ OutageEnds
  <2>1. /\ row'.id = row.id /\ row'.state = row.state
        /\ row.due => row'.due
        /\ row'.identity = row.identity /\ row'.progress = row.progress
        /\ UNCHANGED <<account, firebase, scheduled, sent, library, store>>
    BY <1>2, <1>7 DEF GraceEnds, CancelPassesGate, ClaimLapses, OutageEnds, Row
  <2>2. Onward /\ RowMoves
    BY <1>2, <2>1 DEF Onward, RowMoves, account, library, store
  <2>3. \A t \in Source : SourceFits(t)'
    BY <1>1, <2>1, SourcesStay DEF account, library, store
  <2>4. InGrace' /\ UploadsCarryOver'
    BY <1>1, <2>1 DEF InGrace, Kept, UploadsCarryOver, account, library, store
  <2> QED BY <1>1, <1>3, <2>1, <2>2, <2>3, <2>4, RowStays, Assemble
<1> QED BY <1>4, <1>5, <1>6, <1>7

-----------------------------------------------------------------------------
(* The steps of the runs and of the requests that erase. *)

\* A step that leaves the row's state, the account and its sources alone.
LEMMA QuietStep ==
  ASSUME ErasureInv, TypeOK', ClientStays, NEW j \in Eraser,
         row'.id = row.id, row'.state = row.state, row.due => row'.due,
         row'.identity = row.identity, row'.progress = row.progress,
         UNCHANGED <<account, firebase, scheduled, library, store>>,
         \A i \in Id : sent[i] \subseteq sent'[i],
         \A k \in Eraser : k # j => job'[k] = job[k],
         RowFits' => JobFits(j)'
  PROVE  ErasureInv'
<1>1. /\ TypeOK /\ InGrace /\ RowFits /\ UploadsCarryOver
      /\ \A t \in Source : SourceFits(t)
  BY DEF ErasureInv
<1>2. scheduled \in Nat
  BY <1>1 DEF TypeOK, Id
<1>3. Onward /\ RowMoves
  BY <1>2 DEF Onward, RowMoves, account, library, store
<1>4. \A t \in Source : SourceFits(t)'
  BY <1>1, SourcesStay DEF account, library, store
<1>5. InGrace' /\ UploadsCarryOver'
  BY <1>1 DEF InGrace, Kept, UploadsCarryOver, account, library, store
<1>6. RowFits'
  BY <1>1, <1>3, RowStays
<1> QED BY <1>3, <1>4, <1>5, <1>6, Assemble

\* A class of artifacts is erased: the row stays, and sources only lose theirs.
LEMMA EraseStep ==
  ASSUME ErasureInv, TypeOK', ClientStays, NEW j \in Eraser, job[j].pc \in Erasing,
         UNCHANGED <<account, row, scheduled, sent, library, owed>>,
         firebase' => firebase, file' \subseteq file, vector' \subseteq vector,
         \A k \in Eraser : k # j => job'[k] = job[k],
         job'[j].pc \in Erasing, job'[j].id = job[j].id, job'[j].progress = job[j].progress,
         job'[j].identity = job[j].identity, Confirmed(j)'
  PROVE  ErasureInv'
<1>1. /\ TypeOK /\ InGrace /\ RowFits /\ UploadsCarryOver
      /\ \A t \in Source : SourceFits(t)
      /\ Belongs(j)
  BY DEF ErasureInv, JobFits
<1>2. scheduled \in Nat /\ row.state \in Grace \cup Past
  BY <1>1, RowField DEF TypeOK, Id, Grace, Past
<1>3. Onward /\ RowMoves
  BY <1>2 DEF Onward, RowMoves, account, library
<1>4. \A t \in Source : SourceFits(t)'
  BY <1>1, SourcesStay DEF account, library
<1>5. user = "present" => row.state \notin Grace
  BY <1>1 DEF Belongs, RowFits, Grace, Erasing, Promoting
<1>6. InGrace' /\ UploadsCarryOver'
  BY <1>1, <1>5 DEF InGrace, UploadsCarryOver, account
<1>7. RowFits'
  BY <1>1, <1>3, RowStays
<1>8. Captured(job[j].identity)'
  BY <1>1, <1>3, JobCaptured DEF Belongs
<1>9. Belongs(j)'
  BY <1>1, <1>8 DEF Belongs, account, Erasing, Promoting, Mirroring
<1> QED BY <1>3, <1>4, <1>6, <1>7, <1>9, Assemble DEF JobFits

LEMMA ErasesStep ==
  ASSUME ErasureInv, TypeOK', ClientStays, NEW j \in Eraser, Erase(j)
  PROVE  ErasureInv'
<1>1. /\ TypeOK /\ RowFits
      /\ Belongs(j) /\ Confirmed(j)
      /\ \A s \in Source : SourceFits(s)
  BY DEF ErasureInv, JobFits
<1>2. PICK ok \in BOOLEAN :
        EraseVectors(j, ok) \/ EraseFiles(j, ok) \/ EraseLedger(j, ok) \/ EraseProviders(j, ok)
  BY DEF Erase
<1>3. /\ job[j].identity.keys \subseteq Source
      /\ job[j].identity.total \subseteq Source
  BY <1>1, JobIdentity
<1>4. CASE EraseVectors(j, ok)
  <2>1. /\ job[j].pc = "vectors"
        /\ vector' \subseteq vector /\ (ok => VectorsUnasked \/ vector' = {})
        /\ UNCHANGED <<account, firebase, row, scheduled, sent, library, file, owed>>
        /\ Reaches(j, "files", ok)
    BY <1>4 DEF EraseVectors
  <2>2. /\ \A k \in Eraser : k # j => job'[k] = job[k]
        /\ job'[j].pc = "files" /\ job'[j].id = job[j].id
        /\ job'[j].progress = job[j].progress /\ job'[j].identity = job[j].identity
        /\ job'[j].ok <=> (job[j].ok /\ ok)
    BY <1>1, <2>1, ReachSet
  <2>3. Confirmed(j)'
    BY <1>1, <2>1, <2>2 DEF Confirmed, Erasing
  <2> QED BY <2>1, <2>2, <2>3, EraseStep DEF Erasing
<1>5. CASE EraseFiles(j, ok)
  <2>1. /\ job[j].pc = "files"
        /\ file' \subseteq file /\ (ok => file' = file \ job[j].identity.keys)
        /\ UNCHANGED <<account, firebase, row, scheduled, sent, library, vector, owed>>
        /\ Reaches(j, "ledger", ok)
    BY <1>5 DEF EraseFiles
  <2>2. /\ \A k \in Eraser : k # j => job'[k] = job[k]
        /\ job'[j].pc = "ledger" /\ job'[j].id = job[j].id
        /\ job'[j].progress = job[j].progress /\ job'[j].identity = job[j].identity
        /\ job'[j].ok <=> (job[j].ok /\ ok)
    BY <1>1, <2>1, ReachSet
  <2>3. Confirmed(j)'
    BY <1>1, <2>1, <2>2 DEF Confirmed, Erasing
  <2> QED BY <2>1, <2>2, <2>3, EraseStep DEF Erasing
<1>6. CASE EraseLedger(j, ok)
  <2>1. /\ job[j].pc = "ledger"
        /\ UNCHANGED <<account, firebase, row, scheduled, sent, library, owed>>
    BY <1>6 DEF EraseLedger
  <2>2. /\ \A k \in Eraser : k # j => job'[k] = job[k]
        /\ job'[j].pc = "providers" /\ job'[j].id = job[j].id
        /\ job'[j].progress = job[j].progress /\ job'[j].identity = job[j].identity
        /\ job'[j].ok => job[j].ok /\ job'[j].cleared = job[j].identity.ledger \cap owed
        /\ file' \subseteq file /\ vector' \subseteq vector
    BY <1>1, <1>6, LedgerSet
  <2>3. Confirmed(j)'
    BY <1>1, <2>1, <2>2 DEF Confirmed, Erasing
  <2> QED BY <2>1, <2>2, <2>3, EraseStep DEF Erasing
<1>7. CASE EraseProviders(j, ok)
  <2>1. /\ job[j].pc = "providers"
        /\ firebase' => firebase
        /\ ok => ~firebase'
        /\ UNCHANGED <<account, row, scheduled, sent, library, store>>
        /\ Reaches(j, "settle", ok)
    BY <1>7 DEF EraseProviders
  <2>2. /\ \A k \in Eraser : k # j => job'[k] = job[k]
        /\ job'[j].pc = "settle" /\ job'[j].id = job[j].id
        /\ job'[j].progress = job[j].progress /\ job'[j].identity = job[j].identity
        /\ job'[j].cleared = job[j].cleared
        /\ job'[j].ok <=> (job[j].ok /\ ok)
    BY <1>1, <2>1, ReachSet
  <2>3. Confirmed(j)'
    BY <1>1, <2>1, <2>2 DEF Confirmed, Erasing, store
  <2> QED BY <2>1, <2>2, <2>3, EraseStep DEF Erasing, store
<1> QED BY <1>2, <1>4, <1>5, <1>6, <1>7

\* The commit that erases the user, and what the row goes on naming.
LEMMA SettleErasedStep ==
  ASSUME ErasureInv, TypeOK', ClientStays, NEW j \in Eraser, SettleErased(j)
  PROVE  ErasureInv'
<1>1. /\ TypeOK /\ RowFits /\ UploadsCarryOver
      /\ Belongs(j) /\ Confirmed(j)
      /\ \A s \in Source : SourceFits(s)
  BY DEF ErasureInv, JobFits
<1>2. /\ scheduled \in Nat /\ row \in Row /\ row.state \in Grace \cup Past
      /\ job[j].id \in Id /\ job[j].identity.total \subseteq Source
  BY <1>1, RowField, JobIdentity DEF TypeOK, Id, Grace, Past
<1>3. /\ job[j].pc = "settle" /\ job[j].ok /\ row.id = job[j].id
      /\ row' = [row EXCEPT !.state = "resolved", !.progress = job[j].progress]
      /\ guard' \subseteq guard \cup job[j].identity.total
      /\ user' = "gone" /\ total' = {} /\ item' = {} /\ listed' = {} /\ owed' \subseteq owed
      /\ UNCHANGED <<firebase, scheduled, sent, worker, file, vector>>
  BY DEF SettleErased
<1>4. /\ row'.id = row.id /\ row'.state = "resolved" /\ row'.due = row.due
      /\ row'.identity = row.identity /\ row'.progress = job[j].progress
  BY <1>2, <1>3 DEF Row
<1>5. row.state \in Past /\ row.id # 0
  BY <1>1, <1>2, <1>3 DEF Belongs, RowFits, Grace, Promoting
<1>6. Onward /\ RowMoves
  BY <1>2, <1>3, <1>4 DEF Onward, RowMoves
<1>7. \A s \in Source : SourceFits(s)'
  <2>1. \A s \in job[j].identity.total : worker[s] = "done" /\ Erased(s)
    BY <1>1, <1>3 DEF Belongs, Captured, Confirmed
  <2> QED BY <1>1, <1>3, <2>1 DEF SourceFits
<1>8. InGrace' /\ UploadsCarryOver'
  BY <1>3 DEF InGrace, UploadsCarryOver
<1>9. RowFits'
  <2>1. Captured(row.identity)'
    BY <1>1, <1>4, <1>6, RowCaptured DEF RowFits
  <2> QED BY <1>1, <1>3, <1>4, <1>5, <2>1 DEF RowFits, Belongs, Past
<1>10. /\ \A k \in Eraser : k # j => job'[k] = job[k]
       /\ job'[j].pc = "send" /\ job'[j].id = job[j].id /\ job'[j].progress = {} /\ ~job'[j].ok
       /\ job'[j].identity = NoIdentity
  BY <1>1, <1>2, NextSet DEF SettleErased
<1>11. JobFits(j)'
  BY <1>1, <1>3, <1>4, <1>5, <1>9, <1>10, BareFits DEF Belongs, Erasing, Promoting, Mirroring
<1> QED BY <1>6, <1>7, <1>8, <1>9, <1>10, <1>11, Assemble

\* A failed attempt writes its state, also over another's, past the grace period.
LEMMA SettleFailedStep ==
  ASSUME ErasureInv, TypeOK', ClientStays, NEW j \in Eraser, SettleFailed(j)
  PROVE  ErasureInv'
<1>1. /\ TypeOK /\ RowFits /\ UploadsCarryOver /\ InGrace
      /\ Belongs(j)
      /\ \A s \in Source : SourceFits(s)
  BY DEF ErasureInv, JobFits
<1>2. /\ scheduled \in Nat /\ scheduled' \in Nat /\ row \in Row /\ row.state \in Grace \cup Past
      /\ job[j].id \in Id
  BY <1>1, RowField, JobIdentity DEF TypeOK, Id, Grace, Past
<1>3. /\ job[j].pc = "settle" /\ owed' \subseteq owed
      /\ UNCHANGED <<account, firebase, scheduled, sent, library, file, vector>>
  BY DEF SettleFailed
<1>4. /\ row'.id = row.id /\ row'.due = row.due /\ row'.identity = row.identity
      /\ row.id # job[j].id => row' = row
      /\ row.id = job[j].id =>
           row'.state \in {"failed", row.state} /\ row'.progress = job[j].progress
  BY <1>2 DEF SettleFailed, Row
<1>5. row.id = job[j].id => row.state \in Past /\ row'.state \in Past
  BY <1>1, <1>2, <1>3, <1>4 DEF Belongs, RowFits, Grace, Past, Promoting
<1>6. Onward /\ RowMoves
  BY <1>2, <1>3, <1>4, <1>5 DEF Onward, RowMoves, Past, account, library
<1>7. \A s \in Source : SourceFits(s)'
  BY <1>1, <1>3, SourcesStay DEF account, library
<1>8. UploadsCarryOver'
  BY <1>1, <1>3 DEF UploadsCarryOver, account
<1>9. InGrace'
  BY <1>1, <1>3, <1>4, <1>5 DEF InGrace, Kept, Grace, Past, account, library
<1>10. RowFits'
  <2>1. Captured(row.identity)'
    BY <1>1, <1>4, <1>6, RowCaptured DEF RowFits
  <2> QED BY <1>1, <1>2, <1>3, <1>4, <1>5, <2>1
             DEF RowFits, Belongs, Past, account
<1>11. (\A k \in Eraser : k # j => job'[k] = job[k]) /\ JobFits(j)'
  <2>1. CASE j \in Runner
    <3>1. /\ \A k \in Eraser : k # j => job'[k] = job[k]
          /\ job'[j].pc = "release" /\ job'[j].id = job[j].id /\ job'[j].progress = {}
          /\ ~job'[j].ok /\ job'[j].identity = NoIdentity
      BY <1>1, <1>2, <2>1, NextSet DEF SettleFailed
    <3> QED BY <1>1, <1>3, <1>4, <1>5, <1>10, <3>1, BareFits
               DEF Belongs, Erasing, Promoting, Mirroring, Past
  <2>2. CASE j \notin Runner
    <3>1. job' = [job EXCEPT ![j] = Idle]
      BY <2>2 DEF SettleFailed
    <3> QED BY <1>1, <1>10, <3>1, IdleFacts, JobSet, IdleFits DEF TypeOK
  <2> QED BY <2>1, <2>2
<1> QED BY <1>6, <1>7, <1>8, <1>9, <1>10, <1>11, Assemble

LEMMA StartStep ==
  ASSUME ErasureInv, TypeOK', ClientStays, NEW j \in Eraser, Starts(j),
         row.state \in Past,
         row' = row \/ \E r \in Runner : Claims(r),
         UNCHANGED <<account, firebase, scheduled, sent, library, store>>
  PROVE  ErasureInv'
<1>1. TypeOK /\ RowFits
  BY DEF ErasureInv
<1>2. /\ row'.id = row.id /\ row'.state = row.state /\ row'.due = row.due
      /\ row'.identity = row.identity /\ row'.progress = row.progress
  BY <1>1, ClaimSet
<1>3. /\ \A k \in Eraser : k # j => job'[k] = job[k]
      /\ job'[j].pc = "vectors" /\ job'[j].id = row.id
      /\ job'[j].identity = row.identity /\ job'[j].progress = row.progress
  BY <1>1, StartSet
<1>4. ASSUME RowFits'
      PROVE  JobFits(j)'
  <2>1. Captured(job[j].identity)'
    BY <1>2, <1>3, <1>4 DEF RowFits, Captured
  <2>2. Belongs(j)'
    BY <1>2, <1>3, <1>4, <2>1 DEF RowFits, Belongs, Promoting, Mirroring, Past
  <2>3. Confirmed(j)'
    BY <1>3 DEF Confirmed, Erasing
  <2> QED BY <2>2, <2>3 DEF JobFits
<1> QED BY <1>2, <1>3, <1>4, QuietStep

LEMMA ScheduledStep ==
  ASSUME ErasureInv, TypeOK', ClientStays, NEW r \in Runner, ClaimScheduled(r)
  PROVE  ErasureInv'
<1>1. /\ TypeOK /\ RowFits /\ UploadsCarryOver
      /\ \A s \in Source : SourceFits(s)
  BY DEF ErasureInv
<1>2. /\ r \in Eraser /\ scheduled \in Nat /\ row.id \in Id
      /\ row.state = "scheduled" /\ row.due
      /\ UNCHANGED <<account, firebase, scheduled, sent, library, store>>
  BY <1>1, NameFacts, RowField DEF TypeOK, Id, ClaimScheduled, Claimable
<1>3. CASE user = "gone"
  <2>1. row' = NoRow /\ job' = job
    BY <1>3 DEF ClaimScheduled
  <2>2. Onward /\ RowMoves
    BY <1>2, <1>3, <2>1, NoRowFacts DEF Onward, RowMoves, account, library, store
  <2>3. \A s \in Source : SourceFits(s)'
    BY <1>1, <1>2, SourcesStay DEF account, library, store
  <2>4. InGrace' /\ UploadsCarryOver'
    BY <1>2, <1>3 DEF InGrace, UploadsCarryOver, account
  <2> QED BY <1>1, <2>1, <2>2, <2>3, <2>4, NoRowFits, Assemble
<1>4. CASE user # "gone"
  <2>1. Claims(r) /\ job' = [job EXCEPT ![r] = [Idle EXCEPT !.pc = "capture", !.id = row.id]]
    BY <1>4 DEF ClaimScheduled
  <2>2. /\ row'.id = row.id /\ row'.state = row.state /\ row'.due = row.due
        /\ row'.identity = row.identity /\ row'.progress = row.progress
    BY <1>1, <2>1, ClaimSet
  <2>3. /\ \A k \in Eraser : k # r => job'[k] = job[k]
        /\ job'[r].pc = "capture" /\ job'[r].id = row.id /\ job'[r].progress = {}
        /\ ~job'[r].ok /\ job'[r].identity = NoIdentity
    BY <1>1, <1>2, <2>1, NextSet
  <2>4. RowFits' => JobFits(r)'
    BY <1>1, <1>2, <2>2, <2>3, BareFits DEF RowFits, Erasing, Promoting, Mirroring
  <2> QED BY <1>2, <2>2, <2>3, <2>4, QuietStep
<1> QED BY <1>3, <1>4

LEMMA CaptureStep ==
  ASSUME ErasureInv, TypeOK', ClientStays, NEW r \in Runner, CaptureIdentity(r)
  PROVE  ErasureInv'
<1>1. /\ TypeOK /\ RowFits /\ Belongs(r) /\ Confirmed(r) /\ r \in Eraser
      /\ \A s \in Source : SourceFits(s)
  BY NameFacts DEF ErasureInv, JobFits
<1>2. /\ job[r].pc = "capture"
      /\ UNCHANGED <<account, firebase, row, scheduled, sent, library, store>>
  BY DEF CaptureIdentity
<1>3. /\ \A k \in Eraser : k # r => job'[k] = job[k]
      /\ job'[r].pc = "promote" /\ job'[r].id = job[r].id
      /\ job'[r].progress = job[r].progress
      /\ job'[r].identity.keys = listed \cap item /\ job'[r].identity.ledger = owed
      /\ job'[r].identity.total = total /\ job'[r].ok = job[r].ok
  BY <1>1, CaptureSet
<1>4. Captured(job[r].identity)'
  BY <1>1, <1>2, <1>3 DEF Captured, SourceFits, TypeOK, account, library, store
<1>5. JobFits(r)'
  BY <1>1, <1>2, <1>3, <1>4
     DEF JobFits, Belongs, Confirmed, Promoting, Erasing, Mirroring
<1> QED BY <1>1, <1>2, <1>3, <1>5, QuietStep

LEMMA PromoteStep ==
  ASSUME ErasureInv, TypeOK', ClientStays, NEW r \in Runner, Promote(r)
  PROVE  ErasureInv'
<1>1. /\ TypeOK /\ RowFits /\ UploadsCarryOver /\ InGrace /\ Belongs(r) /\ r \in Eraser
      /\ \A s \in Source : SourceFits(s)
  BY NameFacts DEF ErasureInv, JobFits
<1>2. /\ job[r].pc = "promote" /\ row \in Row /\ scheduled \in Nat /\ row.id \in Id
      /\ row.state \in Grace \cup Past
      /\ UNCHANGED <<account, firebase, scheduled, sent, library, store>>
      /\ job' = [job EXCEPT ![r] = Idle]
  BY <1>1, RowField DEF Promote, TypeOK, Id, Grace, Past
<1>3. \A k \in Eraser : k # r => job'[k] = job[k]
  BY <1>1, <1>2, IdleFacts, JobSet DEF TypeOK
<1>4. CASE row.id = job[r].id /\ row.state = "scheduled"
  <2>1. /\ row'.id = row.id /\ row'.state = "pending" /\ row'.due = row.due /\ row.due
        /\ row'.identity = job[r].identity /\ row'.progress = row.progress
    BY <1>1, <1>2, <1>4 DEF Promote, Row, Belongs, Promoting
  <2>2. Onward /\ RowMoves
    BY <1>2, <1>4, <2>1 DEF Onward, RowMoves, Past, account, library, store
  <2>3. \A s \in Source : SourceFits(s)'
    BY <1>1, <1>2, SourcesStay DEF account, library, store
  <2>4. InGrace' /\ UploadsCarryOver'
    BY <1>1, <1>2, <2>1 DEF InGrace, UploadsCarryOver, Grace, account
  <2>5. Captured(row.identity)'
    BY <1>1, <1>2, <2>1 DEF Belongs, Captured, library, store
  <2>6. RowFits'
    BY <1>1, <1>2, <1>4, <2>1, <2>5 DEF RowFits, Past, account
  <2>7. JobFits(r)'
    BY <1>1, <1>2, <2>6, IdleFits
  <2> QED BY <1>3, <2>2, <2>3, <2>4, <2>6, <2>7, Assemble
<1>5. CASE ~(row.id = job[r].id /\ row.state = "scheduled")
  <2>1. row' = row
    BY <1>5 DEF Promote
  <2>2. RowFits' => JobFits(r)'
    BY <1>1, <1>2, IdleFits
  <2> QED BY <1>1, <1>2, <1>3, <2>1, <2>2, QuietStep
<1> QED BY <1>4, <1>5

LEMMA UnsyncedStep ==
  ASSUME ErasureInv, TypeOK', ClientStays, NEW r \in Runner, ClaimUnsynced(r)
  PROVE  ErasureInv'
<1>1. TypeOK /\ RowFits /\ r \in Eraser
  BY NameFacts DEF ErasureInv
<1>2. /\ row.state = "resolved" /\ Claims(r)
      /\ UNCHANGED <<account, firebase, scheduled, sent, library, store>>
  BY DEF ClaimUnsynced, Claimable
<1>3. /\ row'.id = row.id /\ row'.state = row.state /\ row'.due = row.due
      /\ row'.identity = row.identity /\ row'.progress = row.progress
  BY <1>1, <1>2, ClaimSet
<1>4. /\ \A k \in Eraser : k # r => job'[k] = job[k]
      /\ job'[r].pc = "send" /\ job'[r].id = row.id /\ job'[r].progress = row.progress
      /\ ~job'[r].ok /\ job'[r].identity = NoIdentity
  BY <1>1, UnsyncedSet
<1>5. RowFits' => JobFits(r)'
  BY <1>1, <1>2, <1>3, <1>4, BareFits DEF RowFits, Erasing, Promoting, Mirroring, account
<1> QED BY <1>1, <1>2, <1>3, <1>4, <1>5, QuietStep

LEMMA SendStep ==
  ASSUME ErasureInv, TypeOK', ClientStays, NEW j \in Eraser, NEW c \in SUBSET Mirror, Send(j, c)
  PROVE  ErasureInv'
<1>1. TypeOK /\ RowFits /\ Belongs(j) /\ Confirmed(j)
  BY DEF ErasureInv, JobFits
<1>2. /\ job[j].pc = "send"
      /\ UNCHANGED <<account, firebase, row, scheduled, library, store>>
  BY DEF Send
<1>3. /\ \A k \in Eraser : k # j => job'[k] = job[k]
      /\ job'[j].pc = "note" /\ job'[j].id = job[j].id
      /\ job'[j].progress \subseteq job[j].progress \cup c
      /\ job'[j].identity = job[j].identity /\ job'[j].ok = job[j].ok
      /\ sent'[job[j].id] = sent[job[j].id] \cup c
      /\ \A i \in Id : sent[i] \subseteq sent'[i]
  BY <1>1, SendSet
<1>4. Captured(job[j].identity)'
  BY <1>1, <1>2, <1>3 DEF Belongs, Captured, library, store
<1>5. JobFits(j)'
  BY <1>1, <1>2, <1>3, <1>4
     DEF JobFits, Belongs, Confirmed, Promoting, Erasing, Mirroring, account
<1> QED BY <1>1, <1>2, <1>3, <1>5, QuietStep

\* What a job that notes its sending knows.
LEMMA NoteKnows ==
  ASSUME ErasureInv, NEW j \in Eraser, Note(j)
  PROVE  /\ user # "present"
         /\ row' = row \/ row.id = job[j].id
         /\ job[j].progress \subseteq sent[job[j].id]
         /\ row'.id # row.id => job[j].progress = Mirror /\ row' = NoRow
         /\ row'.id = row.id =>
              /\ row'.state = row.state /\ row'.due = row.due /\ row'.identity = row.identity
              /\ row'.progress \in {row.progress, job[j].progress}
<1>1. /\ Belongs(j) /\ row \in Row
      /\ row.id = 0 <=> row.state = "none"
      /\ job[j].pc = "note" /\ job[j].id # 0
  BY DEF ErasureInv, JobFits, Belongs, RowFits, TypeOK, Note
<1>2. user # "present" /\ job[j].progress \subseteq sent[job[j].id]
  BY <1>1 DEF Belongs, Mirroring
<1>3. \/ row' = row
      \/ row.id = job[j].id /\ job[j].progress = Mirror /\ row' = NoRow
      \/ row.id = job[j].id /\ row' = [row EXCEPT !.progress = job[j].progress]
      \/ /\ row.id = job[j].id
         /\ row' = [row EXCEPT !.progress = job[j].progress, !.claimed_by = None, !.leased = FALSE]
  BY DEF Note
<1> QED BY <1>1, <1>2, <1>3, NoRowFacts DEF Row

LEMMA NoteStep ==
  ASSUME ErasureInv, TypeOK', ClientStays, NEW j \in Eraser, Note(j)
  PROVE  ErasureInv'
<1>1. /\ TypeOK /\ RowFits /\ UploadsCarryOver
      /\ \A s \in Source : SourceFits(s)
  BY DEF ErasureInv
<1>2. /\ scheduled \in Nat
      /\ UNCHANGED <<account, firebase, scheduled, sent, library, store>>
      /\ job' = [job EXCEPT ![j] = Idle]
  BY <1>1 DEF Note, TypeOK, Id
<1>3. Onward /\ RowMoves
  <2>1. Onward
    BY <1>2 DEF Onward, account, library, store
  <2>2. RowMoves
    BY NoteKnows, NoRowFacts DEF RowMoves
  <2> QED BY <2>1, <2>2
<1>4. \A s \in Source : SourceFits(s)'
  BY <1>1, <1>2, SourcesStay DEF account, library, store
<1>5. InGrace' /\ UploadsCarryOver'
  BY <1>1, <1>2, NoteKnows DEF InGrace, UploadsCarryOver, account
<1>6. RowFits'
  <2>1. CASE row'.id # row.id
    BY <1>1, <2>1, NoteKnows, NoRowFits
  <2>2. CASE row'.id = row.id
    <3>1. Captured(row.identity)'
      BY <1>1, <1>3, <2>2, NoteKnows, RowCaptured DEF RowFits
    <3> QED BY <1>1, <1>2, <2>2, <3>1, NoteKnows DEF RowFits, account
  <2> QED BY <2>1, <2>2
<1>7. (\A k \in Eraser : k # j => job'[k] = job[k]) /\ JobFits(j)'
  BY <1>1, <1>2, <1>6, IdleFacts, JobSet, IdleFits DEF TypeOK
<1> QED BY <1>3, <1>4, <1>5, <1>6, <1>7, Assemble

\* A job that ends and leaves everything but the claim as it is.
LEMMA EndStep ==
  ASSUME ErasureInv, TypeOK', ClientStays, NEW j \in Eraser, job' = [job EXCEPT ![j] = Idle],
         row' = row \/ row' = [row EXCEPT !.claimed_by = None, !.leased = FALSE],
         UNCHANGED <<account, firebase, scheduled, sent, library, store>>
  PROVE  ErasureInv'
<1>1. TypeOK /\ row \in Row
  BY DEF ErasureInv, TypeOK
<1>2. /\ row'.id = row.id /\ row'.state = row.state /\ row'.due = row.due
      /\ row'.identity = row.identity /\ row'.progress = row.progress
  BY <1>1 DEF Row
<1>3. \A k \in Eraser : k # j => job'[k] = job[k]
  BY <1>1, IdleFacts, JobSet DEF TypeOK
<1>4. RowFits' => JobFits(j)'
  BY <1>1, IdleFits
<1> QED BY <1>2, <1>3, <1>4, QuietStep

LEMMA RunStep ==
  ASSUME ErasureInv, TypeOK', ClientStays, NEW r \in Runner, Scheduler(r)
  PROVE  ErasureInv'
<1>1. CASE ClaimErasure(r)
  BY <1>1, NameFacts, StartStep DEF ClaimErasure, Claimable, Past
<1>2. CASE ReleaseClaim(r)
  BY <1>2, NameFacts, EndStep DEF ReleaseClaim
<1> QED BY <1>1, <1>2, ScheduledStep, CaptureStep, PromoteStep, UnsyncedStep DEF Scheduler

LEMMA AttemptStep ==
  ASSUME ErasureInv, TypeOK', ClientStays, NEW j \in Eraser, Attempt(j) \/ Dies(j)
  PROVE  ErasureInv'
<1>1. CASE Dies(j)
  BY <1>1, EndStep DEF Dies
<1> QED BY <1>1, ErasesStep, SettleErasedStep, SettleFailedStep, SendStep, NoteStep DEF Attempt

LEMMA ClientKept ==
  ASSUME [Next]_vars
  PROVE  ClientStays
<1>1. ASSUME NEW s \in Source, Ingestion(s)
      PROVE  events' = events
  BY <1>1 DEF Ingestion, PassGate, CreateItem, Archive, StoreUrl, Index, Finalize, Fail,
              RetryCleanup
<1>2. ASSUME NEW r \in Runner, Scheduler(r)
      PROVE  events' = events
  BY <1>2 DEF Scheduler, ClaimScheduled, CaptureIdentity, Promote, ClaimErasure,
              ReleaseClaim, ClaimUnsynced
<1>3. ASSUME NEW j \in Eraser, Attempt(j) \/ Dies(j)
      PROVE  events' = events
  BY <1>3 DEF Attempt, Dies, Erase, EraseVectors, EraseFiles, EraseLedger, EraseProviders,
              SettleErased, SettleFailed, Send, Note
<1>4. ASSUME \/ GetOrCreateUser \/ Schedule \/ GraceEnds \/ CancelPassesGate \/ CancelDeletion
             \/ ClaimLapses \/ \E q \in Request : RequestErasure(q)
      PROVE  events' = events
  BY <1>4 DEF GetOrCreateUser, Schedule, GraceEnds, CancelPassesGate, CancelDeletion,
              ClaimLapses, RequestErasure
<1>5. CASE OutageEnds
  BY <1>5 DEF OutageEnds, VectorsUnasked
<1>6. CASE UNCHANGED vars
  BY <1>6 DEF vars, VectorsUnasked
<1> QED BY <1>1, <1>2, <1>3, <1>4, <1>5, <1>6 DEF Next, VectorsUnasked

LEMMA StepInv == ErasureInv /\ [Next]_vars => ErasureInv'
<1> SUFFICES ASSUME ErasureInv, [Next]_vars
             PROVE  ErasureInv'
  OBVIOUS
<1>1. TypeOK'
  BY StepType DEF ErasureInv
<1>0. ClientStays
  BY ClientKept
<1>2. CASE UNCHANGED vars
  BY <1>0, <1>2 DEF ErasureInv, TypeOK, SourceFits, InGrace, Kept, RowFits, UploadsCarryOver, JobFits,
              Belongs, Confirmed, Captured, vars, account, library, store
<1>3. ASSUME NEW q \in Request, RequestErasure(q)
      PROVE  ErasureInv'
  BY <1>0, <1>1, <1>3, NameFacts, StartStep DEF RequestErasure, Past
<1> QED BY <1>0, <1>1, <1>2, <1>3, SourceStep, RequestStep, RunStep, AttemptStep DEF Next

LEMMA Invariant == Spec => []ErasureInv
  BY InitInv, StepInv, PTL DEF Spec

-----------------------------------------------------------------------------
(* What follows. *)

LEMMA InvFacts ==
  ErasureInv => GraceKeepsAll /\ GraceIsItsOwn /\ CountedIsErased /\ UploadsCarryOver
<1> SUFFICES ASSUME ErasureInv
             PROVE  GraceKeepsAll /\ GraceIsItsOwn /\ CountedIsErased /\ UploadsCarryOver
  OBVIOUS
<1>1. GraceKeepsAll
  BY DEF ErasureInv, InGrace, Kept, Grace, GraceKeepsAll
<1>2. GraceIsItsOwn
  BY RowField DEF ErasureInv, TypeOK, RowFits, Past, GraceIsItsOwn
<1>3. CountedIsErased
  BY DEF ErasureInv, TypeOK, SourceFits, CountedIsErased
<1> QED BY <1>1, <1>2, <1>3 DEF ErasureInv

\* delete_account and cancel_deletion: as long as no deletion is past its grace
\* period, a cancellation at any moment leaves the account all it had, whatever
\* runs of the scheduler were at work on this or an earlier request.
LEMMA GraceLosesNothing == Spec => []GraceKeepsAll
  BY Invariant, InvFacts, PTL

\* promote_scheduled_erasures reads the row again by its id: no request is
\* promoted after the grace period of another.
LEMMA GraceOfItsOwn == Spec => []GraceIsItsOwn
  BY Invariant, InvFacts, PTL

\* promote_scheduled_erasures: nothing of the account goes during a grace period
\* that is its own request's.
THEOREM GraceIsKept == Spec => []GraceKept
BY GraceLosesNothing, GraceOfItsOwn, PTL DEF GraceKept

\* _attempt_account_erasure_cleanup: what counts for the e-mail of an erased
\* account has neither its file nor, with a client for every call, its vectors
\* left.
THEOREM CountedErased == Spec => []CountedIsErased
  BY Invariant, InvFacts, PTL

\* get_or_create_user: an account made anew has used up what the old ones had.
THEOREM UploadsCarried == Spec => []UploadsCarryOver
  BY Invariant, InvFacts, PTL

LEMMA OnlySettleErases ==
  ASSUME [Next]_vars, user' # user, user' = "gone"
  PROVE  \E j \in Eraser : SettleErased(j)
<1>1. account' # account
  BY DEF account
<1>2. ~UNCHANGED vars
  BY DEF vars, account
<1>3. \A s \in Source : ~Ingestion(s)
  BY DEF Ingestion, PassGate, CreateItem, Archive, StoreUrl, Index, Finalize, Fail,
         RetryCleanup, account
<1>4. ~(\/ GetOrCreateUser \/ Schedule \/ GraceEnds \/ CancelPassesGate \/ CancelDeletion
        \/ ClaimLapses \/ OutageEnds)
  BY <1>1 DEF GetOrCreateUser, Schedule, GraceEnds, CancelPassesGate, CancelDeletion,
              ClaimLapses, OutageEnds
<1>5. \A r \in Runner : ~Scheduler(r)
  BY <1>1 DEF Scheduler, ClaimScheduled, CaptureIdentity, Promote, ClaimErasure,
              ReleaseClaim, ClaimUnsynced
<1>6. \A q \in Request : ~RequestErasure(q)
  BY <1>1 DEF RequestErasure
<1>7. \A j \in Eraser : Attempt(j) \/ Dies(j) => SettleErased(j)
  BY <1>1 DEF Attempt, Dies, Erase, EraseVectors, EraseFiles, EraseLedger, EraseProviders,
              SettleFailed, Send, Note
<1> QED BY <1>2, <1>3, <1>4, <1>5, <1>6, <1>7 DEF Next

\* _attempt_account_erasure_cleanup: in the commit that erases the users row,
\* everything its identity names is confirmed as gone, however many attempts,
\* claimed or not, overlapped and whatever the providers answered to others.
LEMMA UserErasedLast == Spec => UserGoesLast
<1>1. ErasureInv /\ [Next]_vars =>
        [user = "present" /\ user' = "gone" =>
           /\ ~firebase'
           /\ row.identity.keys \cap file' = {}
           /\ row.identity.ledger \cap owed' = {}]_vars
  <2> SUFFICES ASSUME ErasureInv, [Next]_vars, user = "present", user' = "gone"
               PROVE  /\ ~firebase'
                      /\ row.identity.keys \cap file' = {}
                      /\ row.identity.ledger \cap owed' = {}
    OBVIOUS
  <2>1. PICK j \in Eraser : SettleErased(j)
    BY OnlySettleErases
  <2>2. /\ job[j].pc = "settle" /\ job[j].ok /\ row.id = job[j].id
        /\ owed' = owed \ job[j].cleared
        /\ UNCHANGED <<firebase, file>>
    BY <2>1 DEF SettleErased
  <2>3. /\ row.identity = job[j].identity /\ ~firebase
        /\ job[j].identity.keys \cap file = {}
        /\ job[j].identity.ledger \cap owed \subseteq job[j].cleared
    BY <2>2 DEF ErasureInv, JobFits, Belongs, Confirmed, Erasing
  <2> QED BY <2>2, <2>3
<1> QED BY <1>1, Invariant, PTL DEF Spec, UserGoesLast

LEMMA OnlyNoteForgets ==
  ASSUME ErasureInv, [Next]_vars, row.state \in Past, row'.id # row.id
  PROVE  \E j \in Eraser : Note(j)
<1>1. row \in Row /\ TypeOK /\ RowFits /\ row.id # 0
  BY DEF ErasureInv, TypeOK, RowFits, Past
<1>2. ~UNCHANGED vars
  BY DEF vars
<1>3. \A s \in Source : ~Ingestion(s)
  BY DEF Ingestion, PassGate, CreateItem, Archive, StoreUrl, Index, Finalize, Fail, RetryCleanup
<1>4. ~(GetOrCreateUser \/ Schedule \/ CancelPassesGate \/ CancelDeletion \/ OutageEnds)
  BY DEF GetOrCreateUser, Schedule, CancelPassesGate, CancelDeletion, OutageEnds, Past
<1>5. ~(GraceEnds \/ ClaimLapses)
  BY <1>1 DEF GraceEnds, ClaimLapses, Row
<1>6. \A r \in Runner : ~Scheduler(r)
  <2>1. \A r \in Runner : Claims(r) => row'.id = row.id
    BY <1>1, ClaimSet
  <2>2. \A r \in Runner : ~ClaimScheduled(r) /\ ~Promote(r)
    BY DEF ClaimScheduled, Promote, Claimable, Past
  <2>3. \A r \in Runner : ~ReleaseClaim(r)
    BY <1>1 DEF ReleaseClaim, Row
  <2> QED BY <2>1, <2>2, <2>3 DEF Scheduler, CaptureIdentity, ClaimErasure, ClaimUnsynced
<1>7. \A q \in Request : ~RequestErasure(q)
  BY DEF RequestErasure
<1>8. \A j \in Eraser : Attempt(j) \/ Dies(j) => Note(j)
  <2>1. \A j \in Eraser : ~SettleErased(j) /\ ~SettleFailed(j)
    BY <1>1 DEF SettleErased, SettleFailed, Row
  <2> QED BY <2>1 DEF Attempt, Dies, Erase, EraseVectors, EraseFiles, EraseLedger,
                      EraseProviders, Send
<1> QED BY <1>2, <1>3, <1>4, <1>5, <1>6, <1>7, <1>8 DEF Next

\* retry_unsynced_erasure_mirrors: past its grace period a row goes only when
\* its own Sheet row and e-mail were both confirmed and the account is erased.
LEMMA NothingForgotten == Spec => MirroredBeforeForgotten
<1>1. ErasureInv /\ [Next]_vars =>
        [row.state \in {"pending", "failed", "resolved"} /\ row'.id # row.id =>
           sent[row.id] = Mirror /\ user # "present"]_vars
  <2> SUFFICES ASSUME ErasureInv, [Next]_vars, row.state \in Past, row'.id # row.id
               PROVE  sent[row.id] = Mirror /\ user # "present"
    BY DEF Past
  <2>1. PICK j \in Eraser : Note(j)
    BY OnlyNoteForgets
  <2>2. /\ row.id = job[j].id /\ job[j].progress = Mirror /\ user # "present"
        /\ job[j].progress \subseteq sent[job[j].id]
    BY <2>1, NoteKnows
  <2>3. sent[row.id] \subseteq Mirror
    BY RowField DEF ErasureInv, TypeOK
  <2> QED BY <2>2, <2>3
<1> QED BY <1>1, Invariant, PTL DEF Spec, MirroredBeforeForgotten

\* The order an erasure keeps, whichever attempts and sweeps overlap: the users
\* row goes after all its identity names, and its record after the mirrors.
THEOREM ErasedInItsOrder == Spec => ErasedInOrder
BY UserErasedLast, NothingForgotten, PTL DEF ErasedInOrder

=============================================================================
