------------------------------- MODULE Cutover -------------------------------
(***************************************************************************)
(* A release that brings the accounting, beside processes of the one that  *)
(* did not have it.  A worker of the old code ends with processed = TRUE   *)
(* and nothing else; the trigger of app/database.py turns that write into  *)
(* a hidden, 'released' row and queues a task, which the maintenance cycle *)
(* of a process (a Runner) resolves into real accounting.  Rows older than *)
(* the trigger are accounted for by the sweep at each boot.                *)
(*                                                                         *)
(* A row's generation is stamped where its task is made, and a row is      *)
(* fenced once, its status never being NULL again: the generations of the  *)
(* two never differ, and neither is a variable.  A dead run's claim        *)
(* belongs to nobody (None) until it lapses.                               *)
(***************************************************************************)
EXTENDS LibraryProperties

CONSTANTS
  Runner,      \* processes whose maintenance cycles overlap
  Scenarios    \* the accounts the release finds

(***************************************************************************)
(*   "new"     may be uploaded to the new release                          *)
(*   "under way" a worker of the old code has it                           *)
(*   "legacy"  finished by the old code before there was a trigger         *)
(*   "unused"  there is no such source                                     *)
(***************************************************************************)
Origin == {"new", "under way", "legacy", "unused"}

ASSUME ScenariosAssumption ==
  Scenarios \subseteq [origin : [Item -> Origin], trial : BOOLEAN, deletes : BOOLEAN,
                       purchases : BOOLEAN, total : CarriedTotals]

VARIABLES
  scenario,    \* one of Scenarios
  old,         \* the sources a worker of the old code is still at
  task,        \* reconciliation_tasks, by source
  runner,      \* each process's pass over the tasks
  sweep        \* the rows the sweep of a booting process has still to look at

cutoverVars == <<scenario, old, task, runner, sweep>>
allVars == <<user, item, worker, request, history, scenario, old, task, runner, sweep>>

Task == [state : {"none", "pending", "failed", "resolved"},
         claimed_by : Runner \cup {None}, leased : BOOLEAN]

RunnerState == [pc : {"idle", "resolve", "record"}, item : Item \cup {None}, ok : BOOLEAN]

NoTask == [state |-> "none", claimed_by |-> None, leased |-> FALSE]
IdleRunner == [pc |-> "idle", item |-> None, ok |-> FALSE]

RowAtRelease(origin) ==
  CASE origin = "new" -> BlankRow("absent")
    [] origin = "under way" -> BlankRow("present")
    [] origin = "legacy" -> [BlankRow("present") EXCEPT !.processed = TRUE]
    [] origin = "unused" -> BlankRow("deleted")

CutoverInit ==
  /\ scenario \in Scenarios
  /\ user = [effective_premium |-> scenario.trial,
             successful_sources_total |-> scenario.total,
             reserved_sources_count |-> 0,
             lock |-> IF scenario.trial THEN "never" ELSE "settled"]
  /\ history = [carried |-> scenario.total, counted |-> {},
                exempt |-> scenario.trial, backfilled |-> FALSE]
  /\ item = [i \in Item |-> RowAtRelease(scenario.origin[i])]
  /\ worker = [w \in Worker |-> Idle]
  /\ request = [r \in Request |-> IdleRequest]
  /\ old = {i \in Item : scenario.origin[i] = "under way"}
  /\ task = [i \in Item |-> NoTask]
  /\ runner = [r \in Runner |-> IdleRunner]
  /\ sweep = {}

NewRelease ==
  /\ Next
  /\ ~scenario.deletes => \A i \in Item : Tombstoned(i)' => Tombstoned(i)
  /\ ~scenario.purchases /\ user'.effective_premium => user.effective_premium
  /\ UNCHANGED cutoverVars

-----------------------------------------------------------------------------
(* The worker of the old code, and the trigger its last write meets. *)

\* Mutant: only the status is fenced, as the trigger's first design had it.
FenceStatusOnly(i) ==
  /\ item' = [item EXCEPT ![i].entitlement_status = "released", ![i].processed = TRUE]
  /\ task' = [task EXCEPT ![i] = [NoTask EXCEPT !.state = "pending"]]

\* fence_unaccounted_processed_items: hidden, and queued in the same commit.
Fence(i) ==
  /\ item' = [item EXCEPT ![i].entitlement_status = "released"]
  /\ task' = [task EXCEPT ![i] = [NoTask EXCEPT !.state = "pending"]]

\* The trigger fires when processed turns TRUE on a row without a status.
OldWorkerFinishes(i) ==
  /\ i \in old
  /\ old' = old \ {i}
  /\ \/ /\ i \in Owned /\ ~item[i].processed /\ item[i].entitlement_status = "none"
        /\ Fence(i)
     \/ /\ i \in Owned /\ (item[i].processed \/ item[i].entitlement_status # "none")
        /\ item' = [item EXCEPT ![i].processed = TRUE]
        /\ UNCHANGED task
     \/ i \notin Owned /\ UNCHANGED <<item, task>>
  /\ UNCHANGED <<user, worker, request, scenario, runner, sweep>>

\* It fails, or its process is replaced.
OldWorkerStops(i) ==
  /\ i \in old
  /\ old' = old \ {i}
  /\ UNCHANGED <<user, item, worker, request, scenario, task, runner, sweep>>

-----------------------------------------------------------------------------
(* The accounting both passes end in, under the account's and the row's lock. *)

\* Mutant: the old code's sources are counted without a limit.
StatusWithoutLimit == IF user.effective_premium THEN "premium" ELSE "consumed"

\* Slots reserved by sources still processing do not count.
ReconciledStatus ==
  IF user.effective_premium THEN "premium"
  ELSE IF user.successful_sources_total < FreeLimit THEN "consumed"
  ELSE "grandfathered"

Account(i) ==
  /\ item' = [item EXCEPT ![i].entitlement_status = ReconciledStatus, ![i].processed = TRUE]
  /\ user' = IF ReconciledStatus = "consumed"
             THEN [user EXCEPT !.successful_sources_total = @ + 1] ELSE user

-----------------------------------------------------------------------------
(* reconcile_unaccounted_processed_items, at each boot. *)

Unaccounted(i) ==
  i \in Owned /\ item[i].processed /\ item[i].entitlement_status \in {"none", "released"}

SweepStarts ==
  /\ sweep = {}
  /\ \E i \in Item : Unaccounted(i)
  /\ sweep' = {i \in Item : Unaccounted(i)}
  /\ UNCHANGED <<user, item, worker, request, scenario, old, task, runner>>

\* _reconcile_one_unaccounted_item: one row, looked at again under its lock.
SweepOne(i) ==
  /\ i \in sweep
  /\ sweep' = sweep \ {i}
  /\ \/ Unaccounted(i) /\ Account(i)
     \/ ~Unaccounted(i) /\ UNCHANGED <<user, item>>
  /\ UNCHANGED <<worker, request, scenario, old, task, runner>>

\* A row that raises fails the boot, and the process dies.
BootFails ==
  /\ sweep # {} /\ sweep' = {}
  /\ UNCHANGED <<user, item, worker, request, scenario, old, task, runner>>

-----------------------------------------------------------------------------
(* retry_reconciliation_tasks: claim, resolve, record, each its own commit. *)

Open(i) == task[i].state \in {"pending", "failed"}

ClaimTask(r, i) ==
  /\ runner[r].pc = "idle"
  /\ Open(i) /\ ~task[i].leased
  /\ task' = [task EXCEPT ![i].claimed_by = r, ![i].leased = TRUE]
  /\ runner' = [runner EXCEPT ![r] = [pc |-> "resolve", item |-> i, ok |-> FALSE]]
  /\ UNCHANGED <<user, item, worker, request, scenario, old, sweep>>

Fenced(i) ==
  i \in Owned /\ item[i].entitlement_status = "released" /\ ~item[i].processed

Resolves(r, ok) ==
  /\ runner[r].pc = "resolve"
  /\ runner' = [runner EXCEPT ![r].pc = "record", ![r].ok = ok]
  /\ UNCHANGED <<worker, request, scenario, old, task, sweep>>

\* Mutant: the row is not looked at again.
SettleUnseen(r) ==
  LET i == runner[r].item
  IN  /\ i \in Owned
      /\ task[i].claimed_by = r /\ task[i].leased
      /\ Account(i)
      /\ Resolves(r, TRUE)

\* _resolve_one_reconciliation_task: the row is still fenced and the claim held.
Settle(r) ==
  LET i == runner[r].item
  IN  /\ Fenced(i)
      /\ task[i].claimed_by = r /\ task[i].leased
      /\ Account(i)
      /\ Resolves(r, TRUE)

\* Nothing is left to do: the row is gone, or others have accounted for it.
FindMoot(r) ==
  /\ ~Fenced(runner[r].item)
  /\ Resolves(r, TRUE)
  /\ UNCHANGED <<user, item>>

\* The claim has lapsed or is another's, or the transaction raised.
FailToResolve(r) ==
  /\ Resolves(r, FALSE)
  /\ UNCHANGED <<user, item>>

\* Mutant: a failed run closes the task.
RecordResolved(r) ==
  LET i == runner[r].item
  IN  /\ runner[r].pc = "record"
      /\ task' = IF task[i].claimed_by = r
                 THEN [task EXCEPT ![i] = [NoTask EXCEPT !.state = "resolved"]]
                 ELSE task
      /\ runner' = [runner EXCEPT ![r] = IdleRunner]
      /\ UNCHANGED <<user, item, worker, request, scenario, old, sweep>>

\* Only the run that still has the claim says what became of the task.
Record(r) ==
  LET i == runner[r].item
  IN  /\ runner[r].pc = "record"
      /\ task' = IF task[i].claimed_by = r
                 THEN [task EXCEPT ![i] =
                         [NoTask EXCEPT !.state = IF runner[r].ok THEN "resolved" ELSE "failed"]]
                 ELSE task
      /\ runner' = [runner EXCEPT ![r] = IdleRunner]
      /\ UNCHANGED <<user, item, worker, request, scenario, old, sweep>>

ClaimLapses(i) ==
  /\ task[i].leased
  /\ task' = [task EXCEPT ![i].leased = FALSE]
  /\ UNCHANGED <<user, item, worker, request, scenario, old, runner, sweep>>

RunnerDies(r) ==
  /\ runner[r].pc # "idle"
  /\ runner' = [runner EXCEPT ![r] = IdleRunner]
  /\ task' = [i \in Item |-> IF task[i].claimed_by = r
                             THEN [task[i] EXCEPT !.claimed_by = None] ELSE task[i]]
  /\ UNCHANGED <<user, item, worker, request, scenario, old, sweep>>

-----------------------------------------------------------------------------
CutoverStep ==
  \/ \E i \in Item :
       \/ OldWorkerFinishes(i) \/ OldWorkerStops(i)
       \/ SweepOne(i) \/ ClaimLapses(i)
  \/ SweepStarts \/ BootFails
  \/ \E r \in Runner :
       \/ \E i \in Item : ClaimTask(r, i)
       \/ Settle(r) \/ FindMoot(r) \/ FailToResolve(r)
       \/ Record(r) \/ RunnerDies(r)

CutoverNext ==
  \/ NewRelease
  \/ Alone(CutoverStep)

CutoverSpec == CutoverInit /\ [][CutoverNext]_allVars

-----------------------------------------------------------------------------
(* What the release must not break. *)

\* Every variable of the cutover stays in its set; LibraryProperties has the
\* others.
CutoverTypeOK ==
  /\ TypeOK
  /\ scenario \in Scenarios
  /\ old \subseteq Item
  /\ task \in [Item -> Task]
  /\ runner \in [Runner -> RunnerState]
  /\ sweep \subseteq Item

\* Slots taken by what the old code brought, and by what the new one took in.
Brought == Cardinality({i \in history.counted : scenario.origin[i] # "new"})
Taken == user.reserved_sources_count
           + Cardinality({i \in history.counted : scenario.origin[i] = "new"})

SmallerOf(m, n) == IF m < n THEN m ELSE n

\* reconciliation is "capped at the limit" (entitlement_service.py): what the
\* old code brought and what the new takes are each within it, so that the two
\* together pass it by no more than the smaller of them.
CappedReconciliation ==
  ~history.exempt =>
    user.successful_sources_total + user.reserved_sources_count
      <= LargerOf(FreeLimit, history.carried)
           + SmallerOf(Brought, Taken)

\* A reader that knows only `processed` never finds a source that is neither
\* counted nor grandfathered, however the old worker's last write falls among
\* the runs that account for it.  Rows older than the trigger wait for the sweep.
FencedUntilAccounted ==
  ~history.exempt =>
    \A i \in Owned :
      item[i].processed /\ scenario.origin[i] # "legacy" =>
        i \in history.counted \/ item[i].entitlement_status = "grandfathered"

\* What a worker of the old code finished is given back to the reader: until it
\* is, its task is open, whichever runs overlapped, lost their claims or died.
FencedIsQueued ==
  ~history.exempt =>
    \A i \in Item : Fenced(i) /\ scenario.origin[i] = "under way" => Open(i)

=============================================================================
