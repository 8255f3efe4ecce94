---------------------------- MODULE CutoverProofs ----------------------------
(***************************************************************************)
(* Theorems about Cutover: the accounting survives the release that brings *)
(* it, for every set of sources, workers, requests and overlapping         *)
(* processes, and every account the release may find.                      *)
(***************************************************************************)
EXTENDS BooksProofs, Cutover

Tasks == [Item -> Task]
Passes == [Runner -> RunnerState]

-----------------------------------------------------------------------------
(* What the old worker, the sweep and the runners do to the account.        *)

Unmoved == UNCHANGED <<user, item>>

Fencing(i) ==
  /\ i \in Owned /\ ~item[i].processed /\ item[i].entitlement_status = "none"
  /\ user' = user
  /\ item' = [item EXCEPT ![i].entitlement_status = "released"]

Reprocesses(i) ==
  /\ i \in Owned /\ i \in old
  /\ item[i].processed \/ item[i].entitlement_status # "none"
  /\ user' = user
  /\ item' = [item EXCEPT ![i].processed = TRUE]

Accounting(i) ==
  /\ i \in Owned /\ item[i].entitlement_status \in {"none", "released"}
  /\ Account(i)

LEMMA CutoverWrites ==
  ASSUME CutoverTypeOK, CutoverStep
  PROVE  /\ worker' = worker /\ request' = request /\ scenario' = scenario
         /\ Unmoved \/ \E i \in Item : Fencing(i) \/ Reprocesses(i) \/ Accounting(i)
<1>1. CASE \E i \in Item : OldWorkerFinishes(i) \/ OldWorkerStops(i)
  BY <1>1 DEF OldWorkerFinishes, OldWorkerStops, Fence, Unmoved, Fencing, Reprocesses
<1>2. CASE \E i \in Item : SweepOne(i) \/ ClaimLapses(i)
  BY <1>2 DEF SweepOne, ClaimLapses, Unaccounted, Unmoved, Accounting
<1>3. CASE SweepStarts \/ BootFails
  BY <1>3 DEF SweepStarts, BootFails, Unmoved
<1>4. CASE \E r \in Runner : Settle(r)
  BY <1>4 DEF Settle, Resolves, Fenced, Owned, Accounting
<1>5. CASE \E r \in Runner : \/ \E i \in Item : ClaimTask(r, i)
                             \/ FindMoot(r) \/ FailToResolve(r)
                             \/ Record(r) \/ RunnerDies(r)
  BY <1>5 DEF ClaimTask, FindMoot, FailToResolve, Record, RunnerDies, Resolves, Unmoved
<1> QED BY <1>1, <1>2, <1>3, <1>4, <1>5 DEF CutoverStep

\* The row a step of the cutover writes.
LEMMA FencedRow ==
  ASSUME TypeOK, NEW i \in Item, Fencing(i) \/ Reprocesses(i)
  PROVE  /\ user' = user /\ item' \in Rows
         /\ \A j \in Item \ {i} : item'[j] = item[j]
         /\ item'[i].row = item[i].row /\ item'[i].deletion_state = item[i].deletion_state
         /\ item'[i].is_unlocked_selection = item[i].is_unlocked_selection
         /\ Fencing(i) => /\ item'[i].entitlement_status = "released"
                          /\ item'[i].processed = item[i].processed
         /\ Reprocesses(i) => item'[i].entitlement_status = item[i].entitlement_status
<1>1. item \in Rows /\ item[i] \in ItemRow
  BY DEF TypeOK, Rows
<1>2. CASE Fencing(i)
  <2>1. item'[i] = [item[i] EXCEPT !.entitlement_status = "released"]
    BY <1>1, <1>2 DEF Fencing, Rows
  <2>2. item'[i] \in ItemRow
    BY <1>1, <2>1 DEF ItemRow, Status
  <2>3. item' = [item EXCEPT ![i] = item'[i]]
    BY <1>1, <1>2, <2>1 DEF Fencing, Rows
  <2>4. item' \in Rows
    BY <1>1, <2>2, <2>3 DEF Rows
  <2> QED BY <1>1, <1>2, <2>1, <2>4 DEF Fencing, Reprocesses, Rows, ItemRow
<1>3. CASE Reprocesses(i)
  <2>1. item'[i] = [item[i] EXCEPT !.processed = TRUE]
    BY <1>1, <1>3 DEF Reprocesses, Rows
  <2>2. item'[i] \in ItemRow
    BY <1>1, <2>1 DEF ItemRow
  <2>3. item' = [item EXCEPT ![i] = item'[i]]
    BY <1>1, <1>3, <2>1 DEF Reprocesses, Rows
  <2>4. item' \in Rows
    BY <1>1, <2>2, <2>3 DEF Rows
  <2>5. item'[i].entitlement_status = item[i].entitlement_status
    BY <1>1, <2>1 DEF ItemRow
  <2>6. ~Fencing(i) \/ item[i].processed = TRUE
    BY <1>3 DEF Reprocesses, Fencing
  <2> QED BY <1>1, <1>3, <2>1, <2>4, <2>5, <2>6 DEF Fencing, Reprocesses, Rows, ItemRow
<1> QED BY <1>2, <1>3

LEMMA AccountedRow ==
  ASSUME TypeOK, NEW i \in Item, Account(i)
  PROVE  /\ user' \in UserRow /\ item' \in Rows
         /\ \A j \in Item \ {i} : item'[j] = item[j]
         /\ item'[i].row = item[i].row /\ item'[i].deletion_state = item[i].deletion_state
         /\ item'[i].is_unlocked_selection = item[i].is_unlocked_selection
         /\ item'[i].processed
         /\ item'[i].entitlement_status = ReconciledStatus
         /\ user'.effective_premium = user.effective_premium
         /\ user'.lock = user.lock
         /\ user'.reserved_sources_count = user.reserved_sources_count
         /\ user'.successful_sources_total = user.successful_sources_total
              + (IF ReconciledStatus = "consumed" THEN 1 ELSE 0)
<1>1. item \in Rows /\ item[i] \in ItemRow /\ ReconciledStatus \in Status
  BY DEF TypeOK, Rows, ReconciledStatus, Status
<1>2. PICK status \in Status : status = ReconciledStatus
  BY <1>1
<1>3. item'[i] = [item[i] EXCEPT !.entitlement_status = status, !.processed = TRUE]
  BY <1>1, <1>2 DEF Account, Rows
<1>4. item'[i] \in ItemRow
  BY <1>1, <1>3 DEF ItemRow
<1>5. item' = [item EXCEPT ![i] = item'[i]]
  BY <1>1, <1>2, <1>3 DEF Account, Rows
<1>6. /\ item' \in Rows
      /\ \A j \in Item \ {i} : item'[j] = item[j]
  BY <1>1, <1>4, <1>5 DEF Rows
<1>7. /\ user' \in UserRow
      /\ user'.effective_premium = user.effective_premium
      /\ user'.lock = user.lock
      /\ user'.reserved_sources_count = user.reserved_sources_count
      /\ user'.successful_sources_total = user.successful_sources_total
           + (IF status = "consumed" THEN 1 ELSE 0)
  BY <1>2 DEF Account, TypeOK, UserRow
<1> QED BY <1>1, <1>2, <1>3, <1>6, <1>7 DEF ItemRow

-----------------------------------------------------------------------------
(* The type invariant. *)

LEMMA CutoverRowsTyped ==
  ASSUME CutoverTypeOK, CutoverStep, Remembers(FALSE)
  PROVE  TypeOK'
<1>1. TypeOK
  BY DEF CutoverTypeOK
<1>2. worker' = worker /\ request' = request
  BY CutoverWrites
<1>3. item' \in Rows /\ user' \in UserRow
  <2>1. CASE Unmoved
    BY <1>1, <2>1 DEF Unmoved, TypeOK, Rows
  <2>2. CASE \E i \in Item : Fencing(i) \/ Reprocesses(i)
    BY <1>1, <2>2, FencedRow DEF TypeOK
  <2>3. CASE \E i \in Item : Accounting(i)
    BY <1>1, <2>3, AccountedRow DEF Accounting
  <2> QED BY <2>1, <2>2, <2>3, CutoverWrites
<1>4. history' \in HistoryState
  BY <1>1, RemembersTyped
<1> QED BY <1>1, <1>2, <1>3, <1>4 DEF TypeOK, Rows

LEMMA TasksTyped ==
  ASSUME CutoverTypeOK, CutoverStep
  PROVE  /\ old' \subseteq Item /\ sweep' \subseteq Item
         /\ task' \in Tasks /\ runner' \in Passes
<1>0. /\ old \subseteq Item /\ sweep \subseteq Item
      /\ task \in Tasks /\ runner \in Passes
  BY DEF CutoverTypeOK, Tasks, Passes
<1>1. \A state \in {"pending", "failed", "resolved"} : [NoTask EXCEPT !.state = state] \in Task
  BY DEF NoTask, Task
<1>2. IdleRunner \in RunnerState
  BY DEF IdleRunner, RunnerState
<1>3. CASE \E i \in Item : OldWorkerFinishes(i) \/ OldWorkerStops(i)
  BY <1>0, <1>1, <1>3 DEF OldWorkerFinishes, OldWorkerStops, Fence, Tasks
<1>4. CASE (\E i \in Item : SweepOne(i)) \/ SweepStarts \/ BootFails
  BY <1>0, <1>4 DEF SweepOne, SweepStarts, BootFails
<1>5. CASE \E i \in Item : ClaimLapses(i)
  <2>1. PICK i \in Item : task' = [task EXCEPT ![i].leased = FALSE]
    BY <1>5 DEF ClaimLapses
  <2>2. [task[i] EXCEPT !.leased = FALSE] \in Task
    BY <1>0 DEF Tasks, Task
  <2> QED BY <1>0, <1>5, <2>1, <2>2 DEF Tasks, ClaimLapses
<1>6. CASE \E r \in Runner, i \in Item : ClaimTask(r, i)
  <2>1. PICK r \in Runner, i \in Item : ClaimTask(r, i)
    BY <1>6
  <2>2. /\ [task[i] EXCEPT !.claimed_by = r, !.leased = TRUE] \in Task
        /\ [pc |-> "resolve", item |-> i, ok |-> FALSE] \in RunnerState
    BY <1>0 DEF Tasks, Task, RunnerState
  <2> QED BY <1>0, <2>1, <2>2 DEF Tasks, Passes, ClaimTask
<1>7. CASE \E r \in Runner : Settle(r) \/ FindMoot(r) \/ FailToResolve(r)
  <2>1. PICK r \in Runner, ok \in BOOLEAN : Resolves(r, ok)
    BY <1>7 DEF Settle, FindMoot, FailToResolve
  <2>2. [runner[r] EXCEPT !.pc = "record", !.ok = ok] \in RunnerState
    BY <1>0 DEF Passes, RunnerState
  <2> QED BY <1>0, <2>1, <2>2 DEF Resolves, Passes
<1>8. CASE \E r \in Runner : Record(r)
  <2>1. PICK r \in Runner : Record(r)
    BY <1>8
  <2>2. PICK state \in {"resolved", "failed"} :
          task' = IF task[runner[r].item].claimed_by = r
                  THEN [task EXCEPT ![runner[r].item] = [NoTask EXCEPT !.state = state]]
                  ELSE task
    BY <2>1 DEF Record
  <2> QED BY <1>0, <1>1, <1>2, <2>1, <2>2 DEF Record, Tasks, Passes
<1>9. CASE \E r \in Runner : RunnerDies(r)
  <2>1. PICK r \in Runner : RunnerDies(r)
    BY <1>9
  <2>2. \A i \in Item : [task[i] EXCEPT !.claimed_by = None] \in Task
    BY <1>0 DEF Tasks, Task
  <2> QED BY <1>0, <1>2, <2>1, <2>2 DEF RunnerDies, Tasks, Passes
<1> QED BY <1>3, <1>4, <1>5, <1>6, <1>7, <1>8, <1>9 DEF CutoverStep

LEMMA CutoverNextTyped ==
  ASSUME CutoverTypeOK, [CutoverNext]_allVars
  PROVE  CutoverTypeOK'
<1>1. CASE NewRelease
  BY <1>1, NextTyped DEF NewRelease, cutoverVars, CutoverTypeOK
<1>2. CASE Alone(CutoverStep)
  <2>1. TypeOK' /\ scenario' = scenario
    BY <1>2, CutoverRowsTyped, CutoverWrites DEF Alone
  <2>2. /\ old' \subseteq Item /\ sweep' \subseteq Item
        /\ task' \in Tasks /\ runner' \in Passes
    BY <1>2, TasksTyped DEF Alone
  <2> QED BY <2>1, <2>2 DEF CutoverTypeOK, Tasks, Passes
<1>3. CASE UNCHANGED allVars
  BY <1>3 DEF allVars, CutoverTypeOK, TypeOK
<1> QED BY <1>1, <1>2, <1>3 DEF CutoverNext

LEMMA CutoverInitTyped ==
  ASSUME CutoverInit
  PROVE  CutoverTypeOK
<1>1. /\ scenario \in Scenarios
      /\ scenario.trial \in BOOLEAN /\ scenario.total \in Nat
      /\ scenario.origin \in [Item -> Origin]
  BY ScenariosAssumption, CarriedTotalsAssumption DEF CutoverInit
<1>2. user \in UserRow /\ history \in HistoryState
  <2>1. PICK trial \in BOOLEAN, total \in Nat : trial = scenario.trial /\ total = scenario.total
    BY <1>1
  <2>2. /\ user = [effective_premium |-> trial, successful_sources_total |-> total,
                   reserved_sources_count |-> 0,
                   lock |-> IF trial THEN "never" ELSE "settled"]
        /\ history = [carried |-> total, counted |-> {}, exempt |-> trial,
                      backfilled |-> FALSE]
    BY <2>1 DEF CutoverInit
  <2>3. user \in UserRow
    BY <2>1, <2>2 DEF UserRow
  <2> QED BY <2>2, <2>3 DEF HistoryState
<1>3. item \in Rows
  <2>1. [BlankRow("present") EXCEPT !.processed = TRUE] \in ItemRow
    BY BlankTyped DEF ItemRow
  <2>2. \A origin \in Origin : RowAtRelease(origin) \in ItemRow
    BY <2>1, BlankTyped DEF Origin, RowAtRelease
  <2> QED BY <1>1, <2>2 DEF CutoverInit, Rows
<1>4. worker \in Slots /\ request \in Sessions
  BY IdleTyped DEF CutoverInit, Slots, Sessions, IdleRequest, RequestState
<1>5. task \in Tasks /\ runner \in Passes /\ old \subseteq Item /\ sweep \subseteq Item
  BY DEF CutoverInit, Tasks, Passes, NoTask, Task, IdleRunner, RunnerState
<1> QED BY <1>1, <1>2, <1>3, <1>4, <1>5
        DEF CutoverTypeOK, TypeOK, Rows, Slots, Sessions, Tasks, Passes

\* Every variable of the cutover stays in its type, whichever of the two
\* releases' processes runs, and whatever tasks and claims they leave.
THEOREM CutoverTyped == CutoverSpec => []CutoverTypeOK
<1>1. CutoverInit => CutoverTypeOK
  BY CutoverInitTyped
<1>2. CutoverTypeOK /\ [CutoverNext]_allVars => CutoverTypeOK'
  BY CutoverNextTyped
<1> QED BY <1>1, <1>2, PTL DEF CutoverSpec

-----------------------------------------------------------------------------
(* The total never falls behind, and a downgrade settles as it should,      *)
(* whatever the old code leaves on the rows.                                *)

LEMMA CutoverPays ==
  ASSUME CutoverTypeOK, CutoverStep
  PROVE  \E S \in SUBSET Item : PaysFor(S)
<1>1. TypeOK
  BY DEF CutoverTypeOK
<1>2. CASE Unmoved
  BY <1>1, <1>2, NothingPaid DEF Unmoved, ConsumedRows
<1>3. CASE \E i \in Item : Fencing(i) \/ Reprocesses(i)
  <2>1. PICK i \in Item : Fencing(i) \/ Reprocesses(i)
    BY <1>3
  <2>2. /\ user' = user
        /\ \A j \in Item \ {i} : item'[j] = item[j]
        /\ item'[i].entitlement_status \in {item[i].entitlement_status, "released"}
    BY <1>1, <2>1, FencedRow
  <2>3. ConsumedRows' \subseteq ConsumedRows
    BY <2>2 DEF ConsumedRows
  <2> QED BY <1>1, <2>2, <2>3, NothingPaid
<1>4. CASE \E i \in Item : Accounting(i)
  <2>1. PICK i \in Item : Accounting(i)
    BY <1>4
  <2>2. /\ \A j \in Item \ {i} : item'[j] = item[j]
        /\ item'[i].entitlement_status = ReconciledStatus
        /\ user'.successful_sources_total = user.successful_sources_total
             + (IF ReconciledStatus = "consumed" THEN 1 ELSE 0)
    BY <1>1, <2>1, AccountedRow DEF Accounting
  <2>3. CASE ReconciledStatus = "consumed"
    <3>1. ConsumedRows' \subseteq ConsumedRows \cup {i} /\ Cardinality({i}) = 1
      BY <2>2, FS_Singleton DEF ConsumedRows
    <3> QED BY <2>2, <2>3, <3>1 DEF PaysFor
  <2>4. CASE ReconciledStatus # "consumed"
    <3>1. ConsumedRows' \subseteq ConsumedRows
      BY <2>2, <2>4 DEF ConsumedRows
    <3>2. user'.successful_sources_total = user.successful_sources_total
      BY <1>1, <2>2, <2>4, UserTyped
    <3> QED BY <1>1, <3>1, <3>2, NothingPaid
  <2> QED BY <2>3, <2>4
<1> QED BY <1>2, <1>3, <1>4, CutoverWrites

LEMMA CutoverNextPays ==
  ASSUME CutoverTypeOK, PaidInv, [CutoverNext]_allVars
  PROVE  PaidInv'
<1>1. CASE NewRelease
  BY <1>1, NextPays DEF NewRelease
<1>2. CASE Alone(CutoverStep)
  <2>1. TypeOK'
    BY CutoverNextTyped DEF CutoverTypeOK
  <2> QED BY <1>2, <2>1, CutoverPays, PayingKeepsPaid DEF Alone
<1>3. CASE UNCHANGED allVars
  <2>1. UNCHANGED vars
    BY <1>3 DEF allVars, vars
  <2> QED BY <2>1, NextPays
<1> QED BY <1>1, <1>2, <1>3 DEF CutoverNext

LEMMA CutoverInitPaid ==
  ASSUME CutoverInit
  PROVE  PaidInv
<1>1. TypeOK
  BY CutoverInitTyped DEF CutoverTypeOK
<1>2. history.counted = {} /\ user.successful_sources_total = history.carried
  BY DEF CutoverInit
<1>3. scenario.origin \in [Item -> Origin]
  BY ScenariosAssumption DEF CutoverInit
<1>4. \A origin \in Origin : RowAtRelease(origin).entitlement_status = "none"
  BY DEF Origin, RowAtRelease, BlankRow
<1>5. ConsumedRows = {}
  BY <1>3, <1>4 DEF CutoverInit, ConsumedRows
<1>6. Cardinality({}) = 0 /\ history.carried \in Nat
  BY <1>1, FS_EmptySet DEF TypeOK, HistoryState
<1> QED BY <1>1, <1>2, <1>5, <1>6 DEF PaidInv, NeverUndercharged, Accounted

\* The release included: however the old worker's writes, the sweep of each
\* boot and overlapping passes over the tasks interleave with the new code,
\* the lifetime total covers every source that was ever charged.
THEOREM CutoverNeverBehind == CutoverSpec => []NeverUndercharged
<1>1. CutoverInit => CutoverTypeOK /\ PaidInv
  BY CutoverInitTyped, CutoverInitPaid
<1>2. CutoverTypeOK /\ PaidInv /\ [CutoverNext]_allVars => (CutoverTypeOK /\ PaidInv)'
  BY CutoverNextTyped, CutoverNextPays
<1>3. PaidInv => NeverUndercharged
  BY DEF PaidInv
<1> QED BY <1>1, <1>2, <1>3, PTL DEF CutoverSpec

\* And settling a downgrade keeps its promise for an account on its trial when
\* the release comes, with grandfathered, fenced and unaccounted rows about.
THEOREM CutoverDowngradeKept == CutoverSpec => DowngradeSettles
<1> DEFINE Settling ==
      \A r \in Request : FinalizeLockSelection(r) =>
        /\ Cardinality(UnlockedRows') <= FreeLimit
        /\ \A i \in UnlockedRows' : item'[i].entitlement_status = "consumed"
        /\ user'.successful_sources_total
             <= LargerOf(FreeLimit, user.successful_sources_total)
        /\ \/ Cardinality(UnlockedRows') >= FreeLimit
           \/ Consumed(FallbackCandidates) \subseteq UnlockedRows'
<1>1. CutoverTypeOK /\ [CutoverNext]_allVars => [Settling]_vars
  BY Settled DEF CutoverTypeOK, allVars, vars
<1> QED BY <1>1, CutoverTyped, PTL DEF CutoverSpec, DowngradeSettles

-----------------------------------------------------------------------------
(* An account that was Free all along.  The rows the new release took in    *)
(* fit as they do without a cutover; those it found are never worked on,    *)
(* hold no slot and are accounted for by one transaction.                   *)

IsNew(i) == scenario.origin[i] = "new"

Most == LargerOf(FreeLimit, history.carried)

\* What the old code brought, and what the new one took, each fit the limit.
\* Balance less Brought is the total the account came with and Taken.
AccountFits ==
  /\ ~user.effective_premium /\ user.lock = "settled"
  /\ \A r \in Request : request[r].pc = "idle"
  /\ user.successful_sources_total = Accounted
  /\ history.carried + Brought <= Most
  /\ Balance - Brought <= Most

\* A row the release found: unfinished or legacy, fenced and queued, or
\* accounted for.
OldStatusFits(i, status) ==
  \/ /\ status = "none"
     /\ i \in Owned => /\ i \notin history.counted
                       /\ item[i].processed <=> scenario.origin[i] = "legacy"
  \/ status = "consumed" /\ item[i].processed /\ i \in history.counted
  \/ status = "grandfathered" /\ item[i].processed
  \/ status = "released" /\ ~item[i].processed /\ i \notin history.counted /\ Open(i)

OldRowFits(i) ==
  /\ item[i].row = "present" \/ (item[i].row = "deleted" /\ item[i].entitlement_status = "none")
  /\ ~item[i].is_unlocked_selection
  /\ i \in old => item[i].entitlement_status = "none"
  /\ OldStatusFits(i, item[i].entitlement_status)

RowsFit == \A i \in Item : IF IsNew(i) THEN RowFits(i) ELSE OldRowFits(i)

OnNew(w) == worker[w].pc # "idle" /\ worker[w].item \in Item => IsNew(worker[w].item)

WorkersFit == \A w \in Worker : WorkerFits(w) /\ OnNew(w)

\* Only what an old worker finished has a task.
TaskFits(i) ==
  /\ i \in old \/ task[i].state # "none" => scenario.origin[i] = "under way"
  /\ i \in old => task[i].state = "none"

\* A run that found nothing left to do, or did it, is right about it until it
\* says so.
RunnerFits(r) ==
  runner[r].pc # "idle" =>
    /\ runner[r].item \in Item /\ task[runner[r].item].state # "none"
    /\ runner[r].pc = "record" /\ runner[r].ok => ~Fenced(runner[r].item)

TasksFit ==
  /\ \A i \in Item : TaskFits(i)
  /\ \A r \in Runner : RunnerFits(r)

FreeRelease ==
  ~history.exempt => AccountFits /\ RowsFit /\ WorkersFit /\ TasksFit

\* What no step of the new release does to a row it found.
Stands(i) ==
  \/ item'[i] = BlankRow("deleted")
  \/ /\ item'[i].row = item[i].row
     /\ item'[i].processed = item[i].processed
     /\ item'[i].is_unlocked_selection = item[i].is_unlocked_selection
     /\ item'[i].entitlement_status = item[i].entitlement_status

-----------------------------------------------------------------------------
(* The steps of the new release. *)

LEMMA FreeTyped ==
  ASSUME CutoverTypeOK
  PROVE  /\ TypeOK /\ item \in Rows /\ worker \in Slots /\ request \in Sessions
         /\ task \in Tasks /\ runner \in Passes /\ scenario \in Scenarios
         /\ history.carried \in Nat /\ history.counted \subseteq Item
         /\ FreeLimit \in Nat /\ Most \in Nat
BY FreeLimitAssumption DEF CutoverTypeOK, TypeOK, Rows, Slots, Sessions, Tasks, Passes, HistoryState,
   Most, LargerOf

\* A worker writes its own source's row and those the reaper finds.
LEMMA OthersRowsKept ==
  ASSUME TypeOK, NEW w \in Worker, WorkerStep(w), NEW i \in Item,
         i # worker[w].item, ~Pending(i)
  PROVE  item'[i] = item[i]
<1> DEFINE mine == worker[w].item
<1>1. /\ item \in Rows /\ ReapedRows \in Rows
      /\ ReapedRows[i] = item[i]
  BY ReapTyped DEF TypeOK, Rows, ReapedRows, StaleReservations
<1>2. \A t : GrantPremium(mine, t) \/ GrantSlot(mine, t) \/ RefuseSlot(mine)
               => item'[i] = item[i]
  BY <1>1 DEF GrantPremium, GrantSlot, RefuseSlot, Rows
<1>3. \A lease : AdmitWorkerAttempt(w, lease) => item'[i] = item[i]
  BY <1>1 DEF AdmitWorkerAttempt, AdmitAttempt, AdmitOcrAttempt, RefuseAdmission, Rows
<1>4. Convert(mine) => item'[i] = item[i]
  BY <1>1 DEF Convert, ConvertPending, ConvertExempt, Rows
<1>5. item' = RenewedRows(w) => item'[i] = item[i]
  BY <1>1 DEF RenewedRows, Rows
<1>6. CASE Reserve(w) \/ Admit(w)
  BY <1>2, <1>3, <1>6 DEF Reserve, ReserveMissing, ReserveActive, ReserveNew, Admit
<1>7. CASE Finalize(w) \/ ConvertAfterReserve(w)
  BY <1>2, <1>4, <1>7
     DEF Finalize, FinalizeSkips, FinalizeAccepts, FinalizeReserves, ConvertAfterReserve
<1>8. CASE PassLastCheck(w) \/ LoseOwnership(w) \/ Heartbeat(w)
  BY <1>5, <1>8 DEF PassLastCheck, LoseOwnership, Heartbeat
<1>9. CASE BeginOcr(w) \/ ScanNeedsOcr(w) \/ WorkFails(w)
  BY <1>1, <1>9 DEF BeginOcr, ScanNeedsOcr, WorkFails, Rows
<1>10. CASE ReleaseAfterFailure(w) \/ ReleaseWorkerAttempt(w)
  BY <1>1, <1>10 DEF ReleaseAfterFailure, ReleaseReservation, ReleaseWorkerAttempt, Rows
<1> QED BY <1>6, <1>7, <1>8, <1>9, <1>10 DEF WorkerStep, Progress

\* A worker goes on with its source, or drops it.
LEMMA WorkerKeepsItem ==
  ASSUME TypeOK, NEW w \in Worker, WorkerStep(w)
  PROVE  /\ worker[w].pc # "idle"
         /\ worker'[w].pc = "idle" \/ worker'[w].item = worker[w].item
<1>1. worker \in Slots
  BY DEF TypeOK, Slots
<1>2. \A label : Goto(w, label) => worker'[w].item = worker[w].item
  BY <1>1 DEF Goto, Slots, WorkerState
<1>3. Leave(w) => worker'[w].item = worker[w].item
  BY <1>1 DEF Leave, Slots, WorkerState
<1>4. Finish(w) => worker'[w].pc = "idle"
  BY <1>1 DEF Finish, Idle, Slots
<1>5. \A lease : AdmitWorkerAttempt(w, lease) =>
        worker'[w].pc = "idle" \/ worker'[w].item = worker[w].item
  BY <1>1, <1>4 DEF AdmitWorkerAttempt, AdmitAttempt, AdmitOcrAttempt, RefuseAdmission, Slots,
     WorkerState
<1>6. CASE Reserve(w)
  BY <1>1, <1>2, <1>4, <1>5, <1>6 DEF Reserve, ReserveMissing, ReserveActive, ReserveNew, Slots,
     WorkerState
<1>7. CASE Admit(w) \/ BeginOcr(w)
  BY <1>1, <1>3, <1>4, <1>5, <1>7 DEF Admit, BeginOcr, Slots, WorkerState
<1>8. CASE Finalize(w) \/ ConvertAfterReserve(w)
  BY <1>2, <1>3, <1>8
     DEF Finalize, FinalizeSkips, FinalizeAccepts, FinalizeReserves, ConvertAfterReserve
<1>9. CASE \/ PassLastCheck(w) \/ LoseOwnership(w) \/ Heartbeat(w) \/ ScanNeedsOcr(w)
           \/ WorkFails(w) \/ ReleaseAfterFailure(w) \/ ReleaseWorkerAttempt(w)
  BY <1>2, <1>3, <1>4, <1>9 DEF PassLastCheck, LoseOwnership, Heartbeat, ScanNeedsOcr, WorkFails,
     ReleaseAfterFailure, ReleaseWorkerAttempt, Guarded
<1> QED BY <1>6, <1>7, <1>8, <1>9 DEF WorkerStep, Progress

LEMMA OldRowsAside ==
  ASSUME TypeOK, NEW i \in Item, OldRowFits(i)
  PROVE  ~Pending(i) /\ item[i].row # "absent"
BY DEF OldRowFits, OldStatusFits, Pending, Owned

\* What a step of the new release leaves of an account Free all along.
NewStepFits ==
  /\ BooksKept
  /\ \A r \in Request : request'[r].pc = "idle"
  /\ ChargesNothing \/ \E i \in Item : IsNew(i) /\ Charges(i)
  /\ scenario' = scenario => WorkersFit'
  /\ \A i \in Item : ~IsNew(i) => Stands(i)

LEMMA WorksFits ==
  ASSUME CutoverTypeOK, AccountFits, RowsFit, WorkersFit,
         history.counted \subseteq history'.counted, NEW w \in Worker, Works(w)
  PROVE  NewStepFits
<1>0. TypeOK /\ WorkerStep(w) /\ request' = request
  BY DEF CutoverTypeOK, Works
<1>1. /\ worker[w].pc # "idle"
      /\ worker'[w].pc = "idle" \/ worker'[w].item = worker[w].item
  BY <1>0, WorkerKeepsItem
<1>2. worker[w].item \in Item => IsNew(worker[w].item) /\ RowFits(worker[w].item)
  BY <1>1 DEF WorkersFit, OnNew, RowsFit
<1>3. /\ ChargesNothing \/ (worker[w].item \in Item /\ Charges(worker[w].item))
      /\ \A v \in Worker \ {w} : worker'[v] = worker[v]
      /\ WorkerFits(w)'
  BY <1>0, <1>2, WorkerCharges DEF WorkersFit, AccountFits
<1>4. \A v \in Worker : WorkerFits(v)'
  BY <1>0, <1>3, WorkersStayRight DEF WorkersFit
<1>5. scenario' = scenario => \A v \in Worker : OnNew(v)'
  BY <1>1, <1>3 DEF WorkersFit, OnNew, IsNew
<1>6. \A i \in Item : ~IsNew(i) => Stands(i)
  BY <1>0, <1>2, OldRowsAside, OthersRowsKept DEF RowsFit, Stands
<1>7. BooksKept
  BY <1>0, WorkerKeepsBooks
<1>8. scenario' = scenario => WorkersFit'
  BY <1>4, <1>5 DEF WorkersFit
<1> QED BY <1>0, <1>2, <1>3, <1>6, <1>7, <1>8 DEF NewStepFits, AccountFits

LEMMA StartsFits ==
  ASSUME CutoverTypeOK, AccountFits, RowsFit, WorkersFit,
         history.counted \subseteq history'.counted,
         NEW i \in Item, NEW w \in Worker, Uploads(i, w) \/ StartsOcr(i, w)
  PROVE  NewStepFits
<1>0. TypeOK /\ (CreateItem(i, w) \/ StartOcr(i, w)) /\ request' = request /\ user' = user
  BY DEF CutoverTypeOK, Uploads, StartsOcr, CreateItem, StartOcr
<1>1. IsNew(i)
  <2>1. item[i].row = "absent" \/ item[i].is_unlocked_selection
    BY <1>0 DEF CreateItem, StartOcr, IsSourceUnlocked, AccountFits
  <2> QED BY <1>0, <2>1 DEF RowsFit, OldRowFits
<1>2. ChargesNothing /\ \A v \in Worker : WorkerFits(v)'
  <2>1. i \notin history.counted => ~item[i].is_unlocked_selection
    BY <1>1 DEF RowsFit, RowFits, Uncharged
  <2> QED BY <1>0, <2>1, StartCharges DEF AccountFits, WorkersFit
<1>3. /\ worker'[w].item = i
      /\ \A v \in Worker \ {w} : worker'[v] = worker[v]
      /\ \A j \in Item \ {i} : item'[j] = item[j]
  <2>1. worker \in Slots /\ item \in Rows
    BY FreeTyped
  <2> QED BY <1>0, <2>1 DEF CreateItem, StartOcr, Idle, Slots, Rows
<1>4. scenario' = scenario => WorkersFit'
  BY <1>1, <1>2, <1>3 DEF WorkersFit, OnNew, IsNew
<1> QED BY <1>0, <1>1, <1>2, <1>3, <1>4, BooksUnchanged DEF NewStepFits, AccountFits, Stands

LEMMA OthersFit ==
  ASSUME CutoverTypeOK, AccountFits, RowsFit, WorkersFit,
         history.counted \subseteq history'.counted,
         \/ \E i \in Item : Deletes(i) \/ RetriesDeletion(i) \/ TimePasses(i)
         \/ Reaps
         \/ Restart
  PROVE  NewStepFits
<1>0. /\ TypeOK
      /\ worker' = worker \/ ProcessDies
      /\ request' = request \/ ProcessDies
  BY DEF CutoverTypeOK, Deletes, RetriesDeletion, TimePasses, Reaps, Restart
<1>1. /\ \A r \in Request : request'[r].pc = "idle"
      /\ scenario' = scenario => WorkersFit'
  <2>1. \A r \in Request : request'[r].pc = "idle"
    BY <1>0 DEF AccountFits, ProcessDies, IdleRequest
  <2>2. \A w \in Worker : WorkerFits(w)'
    BY <1>0, IdleOrSame DEF WorkersFit
  <2>3. scenario' = scenario => \A w \in Worker : OnNew(w)'
    BY <1>0 DEF ProcessDies, Idle, WorkersFit, OnNew, IsNew
  <2> QED BY <2>1, <2>2, <2>3 DEF WorkersFit
<1>2. CASE Reaps
  <2>1. ReapAllStaleReservations
    BY <1>2 DEF Reaps
  <2>2. ChargesNothing
    BY <1>0, <2>1, ReapChargesNothing
  <2>3. Item # {}
    BY <2>1 DEF ReapAllStaleReservations, StaleReservations, Owned
  <2>4. BooksKept
    BY <1>0, <2>1, <2>3, ReserveKeepsBooks
  <2>5. \A i \in Item : ~IsNew(i) => Stands(i)
    BY <1>0, <2>1, OldRowsAside
       DEF RowsFit, ReapAllStaleReservations, ReapedRows, StaleReservations, Stands
  <2> QED BY <1>1, <2>2, <2>4, <2>5 DEF NewStepFits
<1>3. CASE Restart
  BY <1>0, <1>1, <1>3, BooksUnchanged DEF Restart, ChargesNothing, NewStepFits, Stands
<1>4. CASE \E i \in Item : Deletes(i) \/ RetriesDeletion(i) \/ TimePasses(i)
  <2>1. PICK i \in Item : Deletes(i) \/ RetriesDeletion(i) \/ TimePasses(i)
    BY <1>4
  <2>2. \/ DeleteLibraryItem(i)
        \/ i \in Owned /\ (CleanupSucceeds(i) \/ CleanupFails(i))
        \/ LeaseExpires(i) \/ AttemptExpires(i)
    BY <2>1 DEF Deletes, RetriesDeletion, TimePasses, FinishItemDeletionCleanup,
       RetryItemDeletions
  <2>3. ChargesNothing
    BY <1>0, <2>2, OthersChargeNothing
  <2>4. BooksKept
    <3>1. CASE user' = user
      BY <1>0, <3>1, BooksUnchanged
    <3>2. CASE DeleteLibraryItem(i)
      BY <1>0, <3>2, GivingBackKeepsBooks
    <3> QED BY <2>2, <3>1, <3>2 DEF CleanupSucceeds, CleanupFails, LeaseExpires, AttemptExpires
  <2>5. \A j \in Item : Stands(j)
    <3>1. item \in Rows /\ item[i] \in ItemRow
      BY FreeTyped DEF Rows
    <3>2. \A j \in Item \ {i} : item'[j] = item[j]
      BY <2>2, <3>1 DEF DeleteLibraryItem, CleanupSucceeds, CleanupFails, LeaseExpires,
         AttemptExpires, Rows
    <3>3. \/ item'[i] = BlankRow("deleted")
          \/ \E state : item'[i] = [item[i] EXCEPT !.deletion_state = state]
          \/ item'[i] = [item[i] EXCEPT !.lease_live = FALSE]
          \/ item'[i] = [item[i] EXCEPT !.attempt_live = FALSE]
      BY <2>2, <3>1 DEF DeleteLibraryItem, CleanupSucceeds, CleanupFails, LeaseExpires,
         AttemptExpires, Rows
    <3>4. Stands(i)
      BY <3>1, <3>3 DEF Stands, ItemRow
    <3> QED BY <3>2, <3>4 DEF Stands
  <2> QED BY <1>1, <2>3, <2>4, <2>5 DEF NewStepFits
<1> QED BY <1>2, <1>3, <1>4

LEMMA NewStepFitsAll ==
  ASSUME CutoverTypeOK, AccountFits, RowsFit, WorkersFit, Next, ~history'.exempt
  PROVE  NewStepFits /\ Remembers(FALSE)
<1>1. TypeOK /\ ~user.effective_premium /\ user.lock = "settled"
  BY DEF CutoverTypeOK, AccountFits
<1>2. Step /\ Remembers(FALSE)
  BY <1>1 DEF Next, RestartBackfills, BackfillOne
<1>3. history.counted \subseteq history'.counted /\ ~user'.effective_premium
  BY <1>1, <1>2 DEF Remembers, TypeOK, HistoryState
<1>4. ASSUME NEW r \in Request, Selects(r)
      PROVE  FALSE
  <2>1. RequestStep(r)
    BY <1>4 DEF Selects
  <2> QED BY <1>1, <2>1 DEF AccountFits, RequestStep, Reconcile, StampPremium, FinalizeLockSelection,
         SetFreeSelection, ClearSelection, SetExplicitSelection, AbortSelection
<1>5. ~ChangesTier
  <2> SUFFICES ASSUME ChangesTier PROVE FALSE
    OBVIOUS
  <2>1. PremiumStarts
    BY <1>1 DEF ChangesTier, PremiumEnds
  <2>2. user'.effective_premium = TRUE
    BY <1>1, <2>1 DEF PremiumStarts, TypeOK, UserRow
  <2> QED BY <1>3, <2>2
<1> QED BY <1>2, <1>3, <1>4, <1>5, WorksFits, StartsFits, OthersFit DEF Step

-----------------------------------------------------------------------------
(* The new release keeps all four. *)

OldCounted == {i \in history.counted : ~IsNew(i)}

LEMMA BroughtOld == Brought = Cardinality(OldCounted)
BY DEF Brought, OldCounted, IsNew

LEMMA FreeCounts ==
  ASSUME CutoverTypeOK
  PROVE  /\ user.successful_sources_total \in Nat /\ user.reserved_sources_count \in Int
         /\ Balance \in Int /\ Brought \in Nat /\ Cardinality(history.counted) \in Nat
         /\ IsFiniteSet(history.counted) /\ IsFiniteSet(OldCounted)
         /\ Brought <= Cardinality(history.counted)
<1>1. /\ history.counted \in SUBSET Item /\ OldCounted \in SUBSET Item
      /\ OldCounted \subseteq history.counted
  BY FreeTyped DEF OldCounted
<1>2. /\ IsFiniteSet(history.counted) /\ IsFiniteSet(OldCounted)
      /\ Cardinality(history.counted) \in Nat /\ Cardinality(OldCounted) \in Nat
  BY <1>1, SourceSetsFinite
<1>3. Cardinality(OldCounted) <= Cardinality(history.counted)
  BY <1>1, <1>2, FS_Subset
<1> QED BY <1>2, <1>3, UserTyped, BroughtOld DEF CutoverTypeOK

\* Nothing becomes 'consumed' but what is charged.
LEMMA CountedByRows ==
  ASSUME CutoverTypeOK, RowsFit, NEW i \in Item, item[i].entitlement_status = "consumed"
  PROVE  i \in history.counted
BY DEF RowsFit, RowFits, Uncharged, OldRowFits, OldStatusFits

LEMMA CountedByNew ==
  ASSUME CutoverTypeOK, RowsFit, NewStepFits, Remembers(FALSE)
  PROVE  /\ history'.carried = history.carried
         /\ ChargesNothing => history'.counted = history.counted
         /\ \A i \in Item : IsNew(i) /\ Charges(i)
              => history'.counted = history.counted \cup {i} /\ i \notin history.counted
<1>1. /\ history.counted \subseteq Item
      /\ history'.carried = history.carried
      /\ history'.counted = history.counted
                              \cup {i \in Item : item'[i].entitlement_status = "consumed"}
  BY FreeTyped DEF Remembers, CutoverTypeOK, TypeOK, HistoryState
<1>2. ASSUME NEW j \in Item, j \notin history.counted, ~IsNew(j)
      PROVE  item'[j].entitlement_status # "consumed"
  BY <1>2, CountedByRows DEF NewStepFits, Stands, BlankRow
<1>3. ASSUME ChargesNothing, NEW j \in Item, j \notin history.counted, IsNew(j)
      PROVE  item'[j].entitlement_status # "consumed"
  BY <1>3 DEF RowsFit, RowFits, ChargesNothing, Uncharged
<1>4. ASSUME NEW i \in Item, Charges(i), NEW j \in Item \ {i}, j \notin history.counted
      PROVE  item'[j].entitlement_status # "consumed"
  BY <1>4, CountedByRows DEF Charges
<1> QED BY <1>1, <1>2, <1>3, <1>4 DEF Charges

LEMMA NewKeepsAccount ==
  ASSUME CutoverTypeOK, AccountFits, RowsFit, NewStepFits, Remembers(FALSE), ~history'.exempt,
         scenario' = scenario, CutoverTypeOK'
  PROVE  AccountFits' /\ OldCounted' = OldCounted
<1>1. history'.carried = history.carried /\ history.carried \in Nat /\ FreeLimit \in Nat
  BY CountedByNew, FreeTyped
<1>2. ~user'.effective_premium /\ user'.lock = "settled"
  BY DEF Remembers, CutoverTypeOK, TypeOK, HistoryState
<1>3. user'.successful_sources_total = Accounted' /\ OldCounted' = OldCounted
  <2>1. CASE ChargesNothing
    <3>1. /\ history'.counted = history.counted
          /\ user'.successful_sources_total = user.successful_sources_total
      BY <2>1, CountedByNew DEF ChargesNothing
    <3>2. Accounted' = Accounted
      BY <1>1, <3>1 DEF Accounted
    <3> QED BY <3>1, <3>2 DEF AccountFits, OldCounted, IsNew
  <2>2. CASE \E i \in Item : IsNew(i) /\ Charges(i)
    <3>1. PICK i \in Item : IsNew(i) /\ Charges(i)
      BY <2>2
    <3>2. history'.counted = history.counted \cup {i} /\ i \notin history.counted
      BY <3>1, CountedByNew
    <3>3. Cardinality(history'.counted) = Cardinality(history.counted) + 1
      BY <3>2, FreeCounts, FS_AddElement
    <3>4. OldCounted' = OldCounted
      BY <3>1, <3>2 DEF OldCounted, IsNew
    <3>5. /\ user.successful_sources_total = history.carried + Cardinality(history.counted)
          /\ user'.successful_sources_total = user.successful_sources_total + 1
      BY <3>1 DEF Charges, AccountFits, Accounted
    <3>6. Cardinality(history.counted) \in Nat
      BY FreeCounts
    <3>7. user'.successful_sources_total = Accounted'
      BY <1>1, <3>3, <3>5, <3>6 DEF Accounted
    <3> QED BY <3>4, <3>7
  <2> QED BY <2>1, <2>2 DEF NewStepFits
<1>4. Brought' = Brought
  BY <1>3 DEF Brought, OldCounted, IsNew
<1>5. Balance' - Brought' <= Most'
  <2>1. Balance' \in Int /\ Balance \in Int /\ Brought \in Nat
    BY FreeCounts DEF CutoverTypeOK, TypeOK, UserRow, Balance
  <2>2. Most' = Most /\ FreeLimit <= Most /\ Most \in Nat
    BY <1>1 DEF Most, LargerOf
  <2>3. Balance - Brought <= Most
    BY DEF AccountFits
  <2>4. Balance' <= Balance \/ Balance' <= FreeLimit
    BY DEF NewStepFits, BooksKept
  <2>5. PICK after \in Int, before \in Int, brought \in Nat, most \in Nat :
          /\ after = Balance' /\ before = Balance
          /\ brought = Brought /\ most = Most
    BY <2>1, <2>2
  <2>6. /\ before - brought <= most /\ FreeLimit <= most
        /\ after <= before \/ after <= FreeLimit
    BY <2>2, <2>3, <2>4, <2>5
  <2>7. after - brought <= most
    BY <1>1, <2>6
  <2> QED BY <1>4, <2>2, <2>5, <2>7
<1> QED BY <1>1, <1>2, <1>3, <1>4, <1>5 DEF AccountFits, NewStepFits, Most

LEMMA NewKeepsRows ==
  ASSUME CutoverTypeOK, RowsFit, TasksFit, NewStepFits, Remembers(FALSE),
         UNCHANGED cutoverVars, OldCounted' = OldCounted
  PROVE  RowsFit' /\ TasksFit'
<1>1. \A i \in Item : IsNew(i)' <=> IsNew(i)
  BY DEF cutoverVars, IsNew
<1>2. ASSUME NEW i \in Item, IsNew(i)
      PROVE  RowFits(i)'
  <2>1. RowFits(i)
    BY <1>2 DEF RowsFit
  <2>2. CASE ChargesNothing
    BY <2>1, <2>2, CountedByNew DEF RowFits, ChargesNothing
  <2>3. CASE \E j \in Item : IsNew(j) /\ Charges(j)
    BY <2>1, <2>3, CountedByNew DEF RowFits, Charges, Charged
  <2> QED BY <2>2, <2>3 DEF NewStepFits
<1>3. ASSUME NEW i \in Item, ~IsNew(i)
      PROVE  /\ OldRowFits(i)'
             /\ Fenced(i)' => Fenced(i)
  <2>1. OldRowFits(i) /\ Stands(i)
    BY <1>3 DEF RowsFit, NewStepFits
  <2>2. i \in history'.counted <=> i \in history.counted
    BY <1>1, <1>3 DEF OldCounted
  <2>3. task' = task /\ old' = old /\ scenario' = scenario
    BY DEF cutoverVars
  <2>4. CASE item'[i] = BlankRow("deleted")
    BY <2>3, <2>4, <2>1 DEF BlankRow, OldRowFits, OldStatusFits, Fenced, Owned
  <2>5. CASE item'[i] # BlankRow("deleted")
    <3>1. /\ item'[i].row = item[i].row
          /\ item'[i].processed = item[i].processed
          /\ item'[i].is_unlocked_selection = item[i].is_unlocked_selection
          /\ item'[i].entitlement_status = item[i].entitlement_status
      BY <2>1, <2>5 DEF Stands
    <3> QED BY <2>1, <2>2, <2>3, <3>1 DEF OldRowFits, OldStatusFits, Fenced, Owned, Open
  <2> QED BY <2>4, <2>5
<1>4. RowsFit'
  BY <1>1, <1>2, <1>3 DEF RowsFit
<1>5. TasksFit'
  <2>1. task' = task /\ old' = old /\ scenario' = scenario /\ runner' = runner
    BY DEF cutoverVars
  <2>2. \A i \in Item : TaskFits(i)'
    BY <2>1 DEF TasksFit, TaskFits
  <2>3. \A r \in Runner : RunnerFits(r)'
    BY <1>3, <2>1 DEF TasksFit, TaskFits, RunnerFits, IsNew
  <2> QED BY <2>2, <2>3 DEF TasksFit
<1> QED BY <1>4, <1>5

LEMMA NewReleaseKeeps ==
  ASSUME CutoverTypeOK, FreeRelease, NewRelease, CutoverTypeOK'
  PROVE  FreeRelease'
<1> SUFFICES ASSUME ~history'.exempt PROVE (AccountFits /\ RowsFit /\ WorkersFit /\ TasksFit)'
  BY DEF FreeRelease
<1>1. Next /\ UNCHANGED cutoverVars /\ scenario' = scenario
  BY DEF NewRelease, cutoverVars
<1>2. ~history.exempt
  BY <1>1 DEF Next, Remembers, CutoverTypeOK, TypeOK, HistoryState
<1>3. AccountFits /\ RowsFit /\ WorkersFit /\ TasksFit
  BY <1>2 DEF FreeRelease
<1>4. NewStepFits /\ Remembers(FALSE)
  BY <1>1, <1>3, NewStepFitsAll
<1>5. AccountFits' /\ OldCounted' = OldCounted
  BY <1>1, <1>3, <1>4, NewKeepsAccount
<1>6. RowsFit' /\ TasksFit'
  BY <1>1, <1>3, <1>4, <1>5, NewKeepsRows
<1> QED BY <1>1, <1>4, <1>5, <1>6 DEF NewStepFits

-----------------------------------------------------------------------------
(* The steps of the old code, the sweep and the runners keep all four. *)

\* A step that charges nothing.
LEMMA AccountLeft ==
  ASSUME CutoverTypeOK, AccountFits, RowsFit, Remembers(FALSE),
         user' = user, request' = request, scenario' = scenario,
         \A i \in Item : item'[i].entitlement_status = "consumed"
                           => item[i].entitlement_status = "consumed"
  PROVE  AccountFits' /\ history'.counted = history.counted
<1>1. /\ history'.carried = history.carried
      /\ history'.counted = history.counted
                              \cup {i \in Item : item'[i].entitlement_status = "consumed"}
  BY DEF Remembers, CutoverTypeOK, TypeOK, HistoryState
<1>2. history'.counted = history.counted
  BY <1>1, CountedByRows
<1>3. Accounted' = Accounted /\ Brought' = Brought /\ Most' = Most /\ Balance' = Balance
  BY <1>1, <1>2 DEF Accounted, Brought, Most, Balance
<1> QED BY <1>1, <1>2, <1>3 DEF AccountFits

\* And one that leaves the rows.
LEMMA RowsLeft ==
  ASSUME CutoverTypeOK, RowsFit, item' = item, history'.counted = history.counted,
         scenario' = scenario, old' \subseteq old,
         \A i \in Item : Open(i) => Open(i)' \/ ~Fenced(i)
  PROVE  RowsFit'
<1>1. \A i \in Item : IsNew(i)' <=> IsNew(i)
  BY DEF IsNew
<1>2. \A i \in Item : RowFits(i) => RowFits(i)'
  BY DEF RowFits
<1>3. ASSUME NEW i \in Item, OldRowFits(i)
      PROVE  OldRowFits(i)'
  <2>1. /\ Owned' = Owned
        /\ item[i].entitlement_status = "released" /\ ~item[i].processed /\ Open(i)
             => Open(i)'
    <3>1. i \in Owned \/ item[i].entitlement_status = "none"
      BY <1>3 DEF OldRowFits, Owned
    <3> QED BY <3>1 DEF Fenced, Owned
  <2> QED BY <1>3, <2>1 DEF OldRowFits, OldStatusFits
<1> QED BY <1>1, <1>2, <1>3 DEF RowsFit

LEMMA WorkersLeft ==
  ASSUME WorkersFit, worker' = worker, scenario' = scenario,
         history.counted \subseteq history'.counted
  PROVE  WorkersFit'
BY DEF WorkersFit, WorkerFits, OnNew, IsNew

\* A run that moves on is right about its source.
LEMMA TasksLeft ==
  ASSUME TasksFit, scenario' = scenario, old' \subseteq old,
         \A i \in Item : task'[i].state = "none" <=> task[i].state = "none",
         \A i \in Item : Fenced(i)' => Fenced(i),
         \A r \in Runner : \/ runner'[r] = runner[r]
                           \/ RunnerFits(r)'
  PROVE  TasksFit'
<1>1. \A i \in Item : TaskFits(i)'
  BY DEF TasksFit, TaskFits
<1>2. \A r \in Runner : RunnerFits(r)'
  BY DEF TasksFit, RunnerFits
<1> QED BY <1>1, <1>2 DEF TasksFit

\* The accounting both passes end in, for a source not counted yet.
LEMMA AccountKeeps ==
  ASSUME CutoverTypeOK, CutoverTypeOK', AccountFits, RowsFit, Remembers(FALSE),
         NEW i \in Item, ~IsNew(i), i \in Owned, i \notin history.counted, i \notin old,
         Account(i), request' = request, scenario' = scenario, old' = old, task' = task
  PROVE  /\ AccountFits' /\ RowsFit'
         /\ history.counted \subseteq history'.counted
         /\ \A j \in Item : Fenced(j)' => j # i /\ Fenced(j)
<1>1. /\ \A j \in Item \ {i} : item'[j] = item[j]
      /\ item'[i].row = item[i].row
      /\ item'[i].is_unlocked_selection = item[i].is_unlocked_selection
      /\ item'[i].processed
      /\ item'[i].entitlement_status = ReconciledStatus
      /\ user'.effective_premium = user.effective_premium
      /\ user'.lock = user.lock
      /\ user'.reserved_sources_count = user.reserved_sources_count
      /\ user'.successful_sources_total = user.successful_sources_total
           + (IF ReconciledStatus = "consumed" THEN 1 ELSE 0)
  BY AccountedRow DEF CutoverTypeOK
<1>2. /\ history'.carried = history.carried /\ history.carried \in Nat
      /\ history'.counted = history.counted
                              \cup {j \in Item : item'[j].entitlement_status = "consumed"}
      /\ FreeLimit \in Nat
  BY FreeTyped DEF Remembers, CutoverTypeOK, TypeOK, HistoryState
<1>3. Most' = Most /\ FreeLimit <= Most /\ Most \in Nat
  BY <1>2 DEF Most, LargerOf
<1>4. /\ user.successful_sources_total = history.carried + Cardinality(history.counted)
      /\ history.carried + Brought <= Most /\ Balance - Brought <= Most
  BY DEF AccountFits, Accounted
<1>5. /\ history.counted \subseteq history'.counted
      /\ \A j \in Item : Fenced(j)' => j # i /\ Fenced(j)
  BY <1>1, <1>2 DEF Fenced, Owned
<1>6. \A j \in Item : IsNew(j)' <=> IsNew(j)
  BY DEF IsNew
<1>7. ASSUME history'.counted \subseteq history.counted \cup {i},
             item'[i].entitlement_status = "consumed" => i \in history'.counted,
             item'[i].entitlement_status \in {"consumed", "grandfathered"}
      PROVE  RowsFit'
  <2>1. ASSUME NEW j \in Item, IsNew(j)
        PROVE  RowFits(j)'
    <3>1. RowFits(j) /\ item'[j] = item[j] /\ (j \in history'.counted <=> j \in history.counted)
      BY <1>1, <1>5, <1>7, <2>1 DEF RowsFit
    <3> QED BY <3>1 DEF RowFits
  <2>2. ASSUME NEW j \in Item \ {i}, ~IsNew(j)
        PROVE  OldRowFits(j)'
    <3>1. OldRowFits(j) /\ item'[j] = item[j] /\ (j \in history'.counted <=> j \in history.counted)
      BY <1>1, <1>5, <1>7, <2>2 DEF RowsFit
    <3> QED BY <3>1 DEF OldRowFits, OldStatusFits, Owned, Open
  <2>3. OldRowFits(i)'
    <3>1. OldRowFits(i)
      BY DEF RowsFit
    <3> QED BY <1>1, <1>7, <3>1 DEF OldRowFits, OldStatusFits, Owned
  <2> QED BY <1>6, <2>1, <2>2, <2>3 DEF RowsFit
<1>8. CASE ReconciledStatus = "consumed"
  <2>1. user.successful_sources_total < FreeLimit
    BY <1>8 DEF ReconciledStatus
  <2>2. history'.counted = history.counted \cup {i}
    BY <1>1, <1>2, <1>8, CountedByRows
  <2>3. Cardinality(history'.counted) = Cardinality(history.counted) + 1
    BY <2>2, FreeCounts, FS_AddElement
  <2>4. OldCounted' = OldCounted \cup {i} /\ i \notin OldCounted
    <3>1. history.counted \subseteq Item
      BY FreeTyped
    <3> QED BY <1>6, <2>2, <3>1 DEF OldCounted
  <2>5. Cardinality(OldCounted') = Cardinality(OldCounted) + 1
    BY <2>4, FreeCounts, FS_AddElement
  <2>6. Brought' = Brought + 1
    <3>1. Brought' = Cardinality(OldCounted')
      BY DEF Brought, OldCounted, IsNew
    <3> QED BY <2>5, <3>1, BroughtOld
  <2>7. PICK count \in Nat, brought \in Nat, balance \in Int :
          /\ count = Cardinality(history.counted) /\ brought = Brought /\ balance = Balance
          /\ brought <= count
    BY FreeCounts
  <2>8. user'.successful_sources_total = Accounted'
    BY <1>1, <1>2, <1>4, <1>8, <2>3, <2>7 DEF Accounted
  <2>9. history.carried + (brought + 1) <= Most
    BY <1>2, <1>3, <1>4, <2>1, <2>7
  <2>10. Balance' = balance + 1
    BY <1>1, <1>8, <2>7, FreeCounts DEF Balance
  <2>11. (balance + 1) - (brought + 1) <= Most
    BY <1>3, <1>4, <2>7
  <2>12. AccountFits'
    BY <1>1, <1>2, <1>3, <2>6, <2>7, <2>8, <2>9, <2>10, <2>11 DEF AccountFits
  <2>13. RowsFit'
    BY <1>1, <1>7, <1>8, <2>2
  <2> QED BY <1>5, <2>12, <2>13
<1>9. CASE ReconciledStatus # "consumed"
  <2>1. ReconciledStatus = "grandfathered"
    BY <1>9 DEF ReconciledStatus, AccountFits
  <2>2. history'.counted = history.counted
    BY <1>1, <1>2, <2>1, CountedByRows
  <2>3. user'.successful_sources_total = user.successful_sources_total
    BY <1>1, <1>9, FreeCounts
  <2>4. Accounted' = Accounted /\ Brought' = Brought /\ Balance' = Balance
    BY <1>1, <1>2, <2>2, <2>3 DEF Accounted, Brought, Balance
  <2>5. AccountFits'
    BY <1>1, <1>2, <1>3, <2>3, <2>4 DEF AccountFits
  <2>6. RowsFit'
    BY <1>1, <1>7, <2>1, <2>2
  <2> QED BY <1>5, <2>5, <2>6
<1> QED BY <1>8, <1>9

LEMMA CutoverStepKeeps ==
  ASSUME CutoverTypeOK, CutoverTypeOK', AccountFits, RowsFit, WorkersFit, TasksFit,
         CutoverStep, Remembers(FALSE)
  PROVE  (AccountFits /\ RowsFit /\ WorkersFit /\ TasksFit)'
<1>0. /\ worker' = worker /\ request' = request /\ scenario' = scenario
      /\ task \in Tasks /\ runner \in Passes /\ TypeOK
  BY CutoverWrites, FreeTyped
<1>1. ASSUME history.counted \subseteq history'.counted
      PROVE  WorkersFit'
  BY <1>0, <1>1, WorkersLeft
<1>2. ASSUME Unmoved, old' \subseteq old,
             \A i \in Item : task'[i].state = "none" <=> task[i].state = "none",
             \A i \in Item : Open(i) => Open(i)' \/ ~Fenced(i),
             \A r \in Runner : \/ runner'[r] = runner[r]
                               \/ RunnerFits(r)'
      PROVE  (AccountFits /\ RowsFit /\ WorkersFit /\ TasksFit)'
  <2>1. AccountFits' /\ history'.counted = history.counted
    BY <1>0, <1>2, AccountLeft DEF Unmoved
  <2>2. RowsFit'
    BY <1>0, <1>2, <2>1, RowsLeft DEF Unmoved
  <2>3. TasksFit'
    BY <1>0, <1>2, TasksLeft DEF Unmoved, Fenced, Owned
  <2> QED BY <1>1, <2>1, <2>2, <2>3
<1>3. ASSUME NEW i \in Item, OldWorkerFinishes(i)
      PROVE  (AccountFits /\ RowsFit /\ WorkersFit /\ TasksFit)'
  <2>1. /\ i \in old /\ old' = old \ {i} /\ user' = user /\ runner' = runner
        /\ ~IsNew(i) /\ task[i].state = "none"
        /\ OldRowFits(i) /\ item[i].entitlement_status = "none"
    BY <1>3 DEF OldWorkerFinishes, TasksFit, TaskFits, IsNew, RowsFit, OldRowFits
  <2>2. CASE UNCHANGED <<item, task>>
    BY <1>2, <2>1, <2>2 DEF Unmoved, Open
  <2>3. CASE i \in Owned
    <3>1. ~item[i].processed /\ i \notin history.counted
      BY <2>1, <2>3 DEF OldRowFits, OldStatusFits, TasksFit, TaskFits
    <3>2. Fencing(i) /\ task' = [task EXCEPT ![i] = [NoTask EXCEPT !.state = "pending"]]
      BY <1>3, <2>1, <2>3, <3>1 DEF OldWorkerFinishes, Fence, Fencing
    <3>3. /\ \A j \in Item \ {i} : item'[j] = item[j] /\ task'[j] = task[j]
          /\ item'[i].row = item[i].row /\ item'[i].processed = item[i].processed
          /\ item'[i].is_unlocked_selection = item[i].is_unlocked_selection
          /\ item'[i].entitlement_status = "released"
          /\ task'[i].state = "pending"
      BY <1>0, <3>2, FencedRow DEF Tasks, NoTask
    <3>4. AccountFits' /\ history'.counted = history.counted
      BY <1>0, <2>1, <3>3, AccountLeft
    <3>5. RowsFit'
      <4>1. \A j \in Item : IsNew(j)' <=> IsNew(j)
        BY <1>0 DEF IsNew
      <4>2. \A j \in Item : IsNew(j) => RowFits(j)'
        BY <2>1, <3>3, <3>4 DEF RowsFit, RowFits
      <4>3. \A j \in Item \ {i} : ~IsNew(j) => OldRowFits(j)'
        BY <1>0, <2>1, <3>3, <3>4 DEF RowsFit, OldRowFits, OldStatusFits, Owned, Open
      <4>4. OldRowFits(i)'
        BY <1>0, <2>1, <2>3, <3>1, <3>3, <3>4 DEF OldRowFits, OldStatusFits, Owned, Open
      <4> QED BY <2>1, <4>1, <4>2, <4>3, <4>4 DEF RowsFit
    <3>6. TasksFit'
      <4>1. \A j \in Item : TaskFits(j)'
        BY <1>0, <2>1, <3>3 DEF TasksFit, TaskFits
      <4>2. \A r \in Runner : RunnerFits(r)'
        BY <2>1, <3>3 DEF TasksFit, RunnerFits, Fenced, Owned
      <4> QED BY <4>1, <4>2 DEF TasksFit
    <3> QED BY <1>1, <3>4, <3>5, <3>6
  <2> QED BY <1>3, <2>2, <2>3 DEF OldWorkerFinishes
<1>4. ASSUME NEW i \in Item, ~IsNew(i), i \in Owned, i \notin history.counted, i \notin old,
             Account(i), old' = old, task' = task,
             \A r \in Runner : \/ runner'[r] = runner[r]
                               \/ runner'[r].item = i /\ task[i].state # "none"
      PROVE  (AccountFits /\ RowsFit /\ WorkersFit /\ TasksFit)'
  <2>1. /\ AccountFits' /\ RowsFit'
        /\ history.counted \subseteq history'.counted
        /\ \A j \in Item : Fenced(j)' => j # i /\ Fenced(j)
    BY <1>0, <1>4, AccountKeeps
  <2>2. TasksFit'
    BY <1>0, <1>4, <2>1, TasksLeft DEF RunnerFits
  <2> QED BY <1>1, <2>1, <2>2
<1>5. ASSUME NEW i \in Item, SweepOne(i)
      PROVE  (AccountFits /\ RowsFit /\ WorkersFit /\ TasksFit)'
  <2>1. CASE UNCHANGED <<user, item>>
    BY <1>2, <1>5, <2>1 DEF SweepOne, Unmoved, Open
  <2>2. CASE Unaccounted(i) /\ Account(i)
    <3>1. ~IsNew(i)
      BY <2>2 DEF Unaccounted, RowsFit, RowFits, Charged, Uncharged, Owned
    <3>2. i \notin history.counted /\ scenario.origin[i] = "legacy"
      BY <2>2, <3>1 DEF Unaccounted, RowsFit, OldRowFits, OldStatusFits
    <3>3. i \notin old
      BY <3>2 DEF TasksFit, TaskFits
    <3> QED BY <1>4, <1>5, <2>2, <3>1, <3>2, <3>3 DEF Unaccounted, SweepOne
  <2> QED BY <1>5, <2>1, <2>2 DEF SweepOne
<1>6. ASSUME NEW r \in Runner, Settle(r)
      PROVE  (AccountFits /\ RowsFit /\ WorkersFit /\ TasksFit)'
  <2>1. PICK i \in Item : i = runner[r].item /\ task[i].state # "none" /\ Fenced(i) /\ Account(i)
    BY <1>6 DEF Settle, Resolves, TasksFit, RunnerFits
  <2>2. ~IsNew(i) /\ i \notin old
    BY <2>1 DEF TasksFit, TaskFits, IsNew
  <2>3. i \in Owned /\ i \notin history.counted
    BY <2>1, <2>2 DEF RowsFit, OldRowFits, OldStatusFits, Fenced
  <2>4. \A q \in Runner : \/ runner'[q] = runner[q]
                          \/ runner'[q].item = i /\ task[i].state # "none"
    BY <1>0, <1>6, <2>1 DEF Settle, Resolves, Passes, RunnerState
  <2> QED BY <1>4, <1>6, <2>1, <2>2, <2>3, <2>4 DEF Settle, Resolves
<1>7. ASSUME NEW r \in Runner, FindMoot(r) \/ FailToResolve(r)
      PROVE  (AccountFits /\ RowsFit /\ WorkersFit /\ TasksFit)'
  <2>1. /\ Unmoved /\ task' = task /\ old' = old /\ runner[r].pc = "resolve"
        /\ \A q \in Runner \ {r} : runner'[q] = runner[q]
        /\ runner'[r].item = runner[r].item
        /\ runner'[r].ok => ~Fenced(runner[r].item)
    BY <1>0, <1>7 DEF FindMoot, FailToResolve, Resolves, Unmoved, Passes, RunnerState
  <2>2. RunnerFits(r)'
    BY <2>1 DEF TasksFit, RunnerFits, Unmoved, Fenced, Owned
  <2> QED BY <1>2, <2>1, <2>2 DEF Open
<1>8. ASSUME NEW r \in Runner, Record(r)
      PROVE  (AccountFits /\ RowsFit /\ WorkersFit /\ TasksFit)'
  <2>1. PICK i \in Item : i = runner[r].item /\ task[i].state # "none"
                            /\ (runner[r].ok => ~Fenced(i))
    BY <1>8 DEF Record, TasksFit, RunnerFits
  <2>2. /\ Unmoved /\ old' = old
        /\ \A q \in Runner \ {r} : runner'[q] = runner[q]
        /\ runner'[r].pc = "idle"
    BY <1>0, <1>8 DEF Record, Unmoved, Passes, IdleRunner
  <2>3. /\ \A j \in Item \ {i} : task'[j] = task[j]
        /\ task'[i] = task[i]
             \/ task'[i].state = IF runner[r].ok THEN "resolved" ELSE "failed"
    BY <1>0, <1>8, <2>1 DEF Record, Tasks, Task, NoTask
  <2>4. RunnerFits(r)'
    BY <2>2 DEF RunnerFits
  <2>5. \A j \in Item : Open(j) => Open(j)' \/ ~Fenced(j)
    BY <2>1, <2>3 DEF Open
  <2> QED BY <1>2, <2>1, <2>2, <2>3, <2>4, <2>5
<1>9. ASSUME NEW r \in Runner, NEW i \in Item, ClaimTask(r, i)
      PROVE  (AccountFits /\ RowsFit /\ WorkersFit /\ TasksFit)'
  <2>1. /\ Unmoved /\ old' = old
        /\ \A j \in Item : task'[j].state = task[j].state
        /\ \A q \in Runner \ {r} : runner'[q] = runner[q]
        /\ runner'[r].pc = "resolve" /\ runner'[r].item = i
        /\ task[i].state # "none"
    BY <1>0, <1>9 DEF ClaimTask, Unmoved, Tasks, Task, Passes, Open
  <2>2. RunnerFits(r)'
    BY <2>1 DEF RunnerFits
  <2> QED BY <1>2, <2>1, <2>2 DEF Open
<1>10. ASSUME NEW r \in Runner, RunnerDies(r)
       PROVE  (AccountFits /\ RowsFit /\ WorkersFit /\ TasksFit)'
  <2>1. /\ Unmoved /\ old' = old
        /\ \A j \in Item : task'[j].state = task[j].state
        /\ \A q \in Runner \ {r} : runner'[q] = runner[q]
        /\ runner'[r].pc = "idle"
    BY <1>0, <1>10 DEF RunnerDies, Unmoved, Tasks, Task, Passes, IdleRunner
  <2>2. RunnerFits(r)'
    BY <2>1 DEF RunnerFits
  <2> QED BY <1>2, <2>1, <2>2 DEF Open
<1>11. CASE SweepStarts \/ BootFails
  BY <1>2, <1>11 DEF SweepStarts, BootFails, Unmoved, Open
<1>12. ASSUME NEW i \in Item, OldWorkerStops(i) \/ ClaimLapses(i)
       PROVE  (AccountFits /\ RowsFit /\ WorkersFit /\ TasksFit)'
  <2>1. /\ Unmoved /\ old' \subseteq old /\ runner' = runner
        /\ \A j \in Item : task'[j].state = task[j].state
    BY <1>0, <1>12 DEF OldWorkerStops, ClaimLapses, Unmoved, Tasks, Task
  <2> QED BY <1>2, <2>1 DEF Open
<1> QED BY <1>3, <1>5, <1>6, <1>7, <1>8, <1>9, <1>10, <1>11, <1>12 DEF CutoverStep

-----------------------------------------------------------------------------
(* The account the release finds, and what follows for every step from it. *)

LEMMA CutoverInitFree ==
  ASSUME CutoverInit
  PROVE  FreeRelease
<1> SUFFICES ASSUME ~history.exempt
             PROVE  AccountFits /\ RowsFit /\ WorkersFit /\ TasksFit
  BY DEF FreeRelease
<1>1. CutoverTypeOK
  BY CutoverInitTyped
<1>2. /\ scenario.origin \in [Item -> Origin]
      /\ \A i \in Item : item[i] = RowAtRelease(scenario.origin[i])
  BY ScenariosAssumption DEF CutoverInit
<1>3. /\ history.counted = {}
      /\ user.successful_sources_total = history.carried
      /\ user.reserved_sources_count = 0
      /\ ~user.effective_premium /\ user.lock = "settled"
  BY DEF CutoverInit
<1>4. AccountFits
  <2>1. PICK carried \in Nat : carried = history.carried
    BY <1>1, FreeTyped
  <2>2. Accounted = carried /\ Brought = 0 /\ Balance = carried
    BY <1>3, <2>1, FS_EmptySet DEF Accounted, Brought, Balance
  <2>3. carried <= Most /\ Most \in Nat
    BY <2>1, FreeLimitAssumption DEF Most, LargerOf
  <2>4. \A r \in Request : request[r].pc = "idle"
    BY DEF CutoverInit, IdleRequest
  <2>5. carried + Brought <= Most /\ Balance - Brought <= Most
    BY <2>2, <2>3
  <2> QED BY <1>3, <2>1, <2>2, <2>4, <2>5 DEF AccountFits
<1>5. RowsFit
  <2>1. ASSUME NEW i \in Item, IsNew(i)
        PROVE  RowFits(i)
    <3>1. item[i] = BlankRow("absent")
      BY <1>2, <2>1 DEF IsNew, RowAtRelease
    <3>2. Uncharged(item[i])
      BY <3>1 DEF Uncharged, BlankRow
    <3> QED BY <1>3, <3>2 DEF RowFits
  <2>2. ASSUME NEW i \in Item, ~IsNew(i)
        PROVE  OldRowFits(i)
    <3>1. scenario.origin[i] \in {"under way", "legacy", "unused"}
      BY <1>2, <2>2 DEF IsNew, Origin
    <3>2. /\ item[i].entitlement_status = "none" /\ ~item[i].is_unlocked_selection
          /\ item[i].row = IF scenario.origin[i] = "unused" THEN "deleted" ELSE "present"
          /\ item[i].processed <=> scenario.origin[i] = "legacy"
      <4>1. CASE scenario.origin[i] = "under way"
        <5>1. item[i] = BlankRow("present")
          BY <1>2, <4>1 DEF RowAtRelease
        <5>2. /\ item[i].entitlement_status = "none" /\ item[i].row = "present"
              /\ ~item[i].is_unlocked_selection /\ ~item[i].processed
          BY <5>1 DEF BlankRow
        <5>3. scenario.origin[i] # "legacy" /\ scenario.origin[i] # "unused"
          BY <4>1
        <5> QED BY <5>2, <5>3
      <4>2. CASE scenario.origin[i] = "legacy"
        <5>1. item[i] = [BlankRow("present") EXCEPT !.processed = TRUE]
          BY <1>2, <4>2 DEF RowAtRelease
        <5> QED BY <4>2, <5>1 DEF BlankRow
      <4>3. CASE scenario.origin[i] = "unused"
        <5>1. item[i] = BlankRow("deleted")
          BY <1>2, <4>3 DEF RowAtRelease
        <5> QED BY <4>3, <5>1 DEF BlankRow
      <4> QED BY <3>1, <4>1, <4>2, <4>3
    <3> QED BY <1>3, <3>1, <3>2 DEF OldRowFits, OldStatusFits
  <2> QED BY <2>1, <2>2 DEF RowsFit
<1>6. WorkersFit
  BY DEF CutoverInit, WorkersFit, WorkerFits, OnNew, Idle
<1>7. TasksFit
  BY DEF CutoverInit, TasksFit, TaskFits, RunnerFits, NoTask, IdleRunner
<1> QED BY <1>4, <1>5, <1>6, <1>7

LEMMA CutoverNextFree ==
  ASSUME CutoverTypeOK, FreeRelease, [CutoverNext]_allVars
  PROVE  FreeRelease'
<1>1. CutoverTypeOK'
  BY CutoverNextTyped
<1>2. CASE NewRelease
  BY <1>1, <1>2, NewReleaseKeeps
<1>3. CASE Alone(CutoverStep)
  <2> SUFFICES ASSUME ~history'.exempt
               PROVE  (AccountFits /\ RowsFit /\ WorkersFit /\ TasksFit)'
    BY DEF FreeRelease
  <2>1. CutoverStep /\ Remembers(FALSE)
    BY <1>3 DEF Alone
  <2>2. ~history.exempt
    BY <2>1 DEF Remembers, CutoverTypeOK, TypeOK, HistoryState
  <2>3. AccountFits /\ RowsFit /\ WorkersFit /\ TasksFit
    BY <2>2 DEF FreeRelease
  <2> QED BY <1>1, <2>1, <2>3, CutoverStepKeeps
<1>4. CASE UNCHANGED allVars
  <2>1. /\ user' = user /\ item' = item /\ worker' = worker /\ request' = request
        /\ history' = history /\ scenario' = scenario /\ old' = old /\ task' = task
        /\ runner' = runner
    BY <1>4 DEF allVars
  <2>2. AccountFits' <=> AccountFits
    BY <2>1 DEF AccountFits, Most, Accounted, Brought, Balance
  <2>3. RowsFit' <=> RowsFit
    BY <2>1 DEF RowsFit, IsNew, RowFits, OldRowFits, OldStatusFits, Owned, Open
  <2>4. WorkersFit' <=> WorkersFit
    BY <2>1 DEF WorkersFit, WorkerFits, OnNew, IsNew
  <2>5. TasksFit' <=> TasksFit
    BY <2>1 DEF TasksFit, TaskFits, RunnerFits, Fenced, Owned
  <2> QED BY <2>1, <2>2, <2>3, <2>4, <2>5 DEF FreeRelease
<1> QED BY <1>2, <1>3, <1>4 DEF CutoverNext

FreeCutover == CutoverTypeOK /\ FreeRelease

LEMMA FreeCutoverHolds == CutoverSpec => []FreeCutover
<1>1. CutoverInit => FreeCutover
  BY CutoverInitTyped, CutoverInitFree DEF FreeCutover
<1>2. FreeCutover /\ [CutoverNext]_allVars => FreeCutover'
  BY CutoverNextTyped, CutoverNextFree DEF FreeCutover
<1> QED BY <1>1, <1>2, PTL DEF CutoverSpec

\* The total of an account that was Free all along is what it came with and
\* one for each source ever charged: the sweep, a run over the tasks and a
\* worker of the new code never charge the same source, or each its own time.
THEOREM CutoverChargedOnce == CutoverSpec => []ChargedExactlyOnce
<1>1. FreeCutover => ChargedExactlyOnce
  BY DEF FreeCutover, FreeRelease, AccountFits, ChargedExactlyOnce
<1> QED BY <1>1, FreeCutoverHolds, PTL

\* Reconciliation counts up to the limit and uploads reserve up to it, and the
\* two together exceed it by no more than the smaller of what each took.
THEOREM CutoverCapped == CutoverSpec => []CappedReconciliation
<1>1. ASSUME FreeCutover
      PROVE  CappedReconciliation
  <2> SUFFICES ASSUME ~history.exempt
               PROVE  user.successful_sources_total + user.reserved_sources_count
                        <= LargerOf(FreeLimit, history.carried) + SmallerOf(Brought, Taken)
    BY DEF CappedReconciliation
  <2> DEFINE newCounted == {i \in history.counted : scenario.origin[i] = "new"}
  <2>1. CutoverTypeOK /\ AccountFits
    BY <1>1 DEF FreeCutover, FreeRelease
  <2>2. Cardinality(history.counted) = Brought + Cardinality(newCounted)
        /\ Cardinality(newCounted) \in Nat
    <3>1. /\ IsFiniteSet(OldCounted) /\ newCounted \subseteq history.counted
          /\ IsFiniteSet(history.counted)
      BY <2>1, FreeCounts
    <3>2. IsFiniteSet(newCounted) /\ Cardinality(newCounted) \in Nat
      BY <3>1, FS_Subset, FS_CardinalityType
    <3>3. OldCounted \cup newCounted = history.counted /\ OldCounted \cap newCounted = {}
      BY DEF OldCounted, IsNew
    <3> HIDE DEF newCounted
    <3>4. Cardinality(OldCounted \cup newCounted)
            = Cardinality(OldCounted) + Cardinality(newCounted)
              - Cardinality(OldCounted \cap newCounted)
      BY <3>1, <3>2, FS_Union
    <3>5. Cardinality(history.counted) = Brought + Cardinality(newCounted) - Cardinality({})
      BY <3>3, <3>4, BroughtOld
    <3>6. Brought \in Nat /\ Cardinality({}) = 0
      BY <2>1, FreeCounts, FS_EmptySet
    <3> QED BY <3>2, <3>5, <3>6
  <2>3. PICK total \in Nat, reserved \in Int, carried \in Nat, most \in Nat,
             brought \in Nat, new \in Nat :
          /\ total = user.successful_sources_total /\ carried = history.carried
          /\ reserved = user.reserved_sources_count /\ most = Most
          /\ brought = Brought /\ new = Cardinality(newCounted)
    BY <2>1, <2>2, FreeCounts, FreeTyped
  <2>4. /\ total = carried + (brought + new) /\ carried + brought <= most
        /\ (total + reserved) - brought <= most
    BY <2>1, <2>2, <2>3 DEF AccountFits, Accounted, Balance
  <2>5. Taken = reserved + new
    BY <2>3 DEF Taken
  <2>6. total + reserved <= most + brought /\ total + reserved <= most + (reserved + new)
    BY <2>4
  <2> QED BY <2>3, <2>5, <2>6 DEF SmallerOf, Most
<1> QED BY <1>1, FreeCutoverHolds, PTL

\* A reader that knows only `processed` never shows a source nobody has
\* accounted for, wherever the old worker's last write falls.
THEOREM CutoverFenced == CutoverSpec => []FencedUntilAccounted
<1>1. ASSUME FreeCutover
      PROVE  FencedUntilAccounted
  <2> SUFFICES ASSUME ~history.exempt, NEW i \in Owned, item[i].processed,
                      scenario.origin[i] # "legacy"
               PROVE  i \in history.counted \/ item[i].entitlement_status = "grandfathered"
    BY DEF FencedUntilAccounted
  <2>1. RowsFit /\ i \in Item
    BY <1>1 DEF FreeCutover, FreeRelease, Owned
  <2>2. CASE IsNew(i)
    BY <2>1, <2>2 DEF RowsFit, RowFits, Uncharged
  <2>3. CASE ~IsNew(i)
    BY <2>1, <2>3 DEF RowsFit, OldRowFits, OldStatusFits
  <2> QED BY <2>2, <2>3
<1> QED BY <1>1, FreeCutoverHolds, PTL

\* What an old worker finished stays queued until it is accounted for, however
\* many runs claimed its task, lost the claim, failed or died.
THEOREM CutoverQueued == CutoverSpec => []FencedIsQueued
<1>1. ASSUME FreeCutover
      PROVE  FencedIsQueued
  BY <1>1 DEF FreeCutover, FreeRelease, FencedIsQueued, RowsFit, IsNew, OldRowFits,
     OldStatusFits, Fenced
<1> QED BY <1>1, FreeCutoverHolds, PTL

=============================================================================
