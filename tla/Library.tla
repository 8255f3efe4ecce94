------------------------------- MODULE Library -------------------------------
(***************************************************************************)
(* One account's library: ingestion workers, lock selection, deletion and  *)
(* the maintenance scheduler, interleaved at transaction boundaries, with  *)
(* crashes of the process that runs them all.                              *)
(*                                                                         *)
(* Mutual exclusion comes from the account's row lock: every step that     *)
(* reads and then writes the counters holds it from the read to the commit *)
(* and is therefore one action.  What a caller remembers across two of     *)
(* those transactions is in `worker` and `request`.                        *)
(***************************************************************************)
EXTENDS Workers, LockSelection

CONSTANTS
  Trials,        \* whether a new account may open on the signup trial
  CarriedTotals, \* lifetime totals EmailAccountHistory may carry into it
  Events         \* what may happen to it: see EventKinds

EventKinds == {"purchase", "delete", "crash"}

ASSUME TrialsAssumption == Trials \subseteq BOOLEAN
ASSUME CarriedTotalsAssumption == CarriedTotals \subseteq Nat
ASSUME EventsAssumption == Events \subseteq EventKinds

(***************************************************************************)
(* history is not in the program; the properties speak through it.         *)
(*   carried     the lifetime total the account started with               *)
(*   counted     the sources that have ever been 'consumed'                *)
(*   exempt      the account was Premium, or unreconciled, at some time    *)
(*   backfilled  the boot-time backfill rewrote its counters               *)
(***************************************************************************)
VARIABLE history

vars == <<user, item, worker, request, history>>

HistoryState == [carried : Nat, counted : SUBSET Item,
                 exempt : BOOLEAN, backfilled : BOOLEAN]

\* get_or_create_user, then the first authenticated request: one that opens
\* Free is reconciled at once, one on the trial is never stamped.
Init ==
  /\ \E premium \in Trials, total \in CarriedTotals :
       /\ user = [effective_premium |-> premium,
                  successful_sources_total |-> total,
                  reserved_sources_count |-> 0,
                  lock |-> IF premium THEN "never" ELSE "settled"]
       /\ history = [carried |-> total, counted |-> {},
                     exempt |-> premium, backfilled |-> FALSE]
  /\ item = [i \in Item |-> BlankRow("absent")]
  /\ worker = [w \in Worker |-> Idle]
  /\ request = [r \in Request |-> IdleRequest]

-----------------------------------------------------------------------------
(* Who runs what. *)

Works(w) == WorkerStep(w) /\ UNCHANGED request

Uploads(i, w) == CreateItem(i, w) /\ UNCHANGED request

StartsOcr(i, w) == StartOcr(i, w) /\ UNCHANGED request

Selects(r) == RequestStep(r) /\ UNCHANGED worker

ChangesTier ==
  /\ \/ "purchase" \in Events /\ PremiumStarts
     \/ PremiumEnds
  /\ UNCHANGED worker

Deletes(i) ==
  /\ "delete" \in Events
  /\ DeleteLibraryItem(i) \/ FinishItemDeletionCleanup(i)
  /\ UNCHANGED <<worker, request>>

\* The maintenance cycle of the scheduler, every five minutes.
RetriesDeletion(i) == RetryItemDeletions(i) /\ UNCHANGED <<worker, request>>

Reaps == ReapAllStaleReservations /\ UNCHANGED <<worker, request>>

TimePasses(i) == (LeaseExpires(i) \/ AttemptExpires(i)) /\ UNCHANGED <<worker, request>>

ProcessDies ==
  /\ worker' = [w \in Worker |-> Idle]
  /\ request' = [r \in Request |-> IdleRequest]

\* The process dies with every task and request in it.
Restart ==
  /\ "crash" \in Events
  /\ ProcessDies
  /\ UNCHANGED <<user, item>>

\* At boot the backfill runs over accounts never reconciled.
RestartBackfills ==
  /\ "crash" \in Events
  /\ ProcessDies
  /\ BackfillOne

Step ==
  \/ \E w \in Worker : Works(w)
  \/ \E i \in Item, w \in Worker : Uploads(i, w) \/ StartsOcr(i, w)
  \/ \E r \in Request : Selects(r)
  \/ ChangesTier
  \/ \E i \in Item : Deletes(i) \/ RetriesDeletion(i) \/ TimePasses(i)
  \/ Reaps
  \/ Restart

Remembers(backfills) ==
  history' = [history EXCEPT
    !.counted = @ \cup {i \in Item : item'[i].entitlement_status = "consumed"},
    !.exempt = @ \/ user'.effective_premium \/ user'.lock # "settled",
    !.backfilled = @ \/ backfills]

Next ==
  \/ Step /\ RowLocks /\ Remembers(FALSE)
  \/ RestartBackfills /\ Remembers(TRUE)

Spec == Init /\ [][Next]_vars

-----------------------------------------------------------------------------
(* What the scheduling justifies.  A background task runs on until it ends  *)
(* or the process dies; APScheduler keeps running the maintenance cycle; a  *)
(* deadline no live guard renews passes; and the providers, called again    *)
(* every cycle, answer eventually.                                          *)

Alone(A) == A /\ RowLocks /\ Remembers(FALSE)

TaskProceeds(w) == Alone(Progress(w) /\ UNCHANGED request)

UnattendedLeaseExpires(i) ==
  /\ \A w \in Worker : Guarded(w) => worker[w].item # i
  /\ Alone(LeaseExpires(i) /\ UNCHANGED <<worker, request>>)

DeletionCompletes(i) ==
  Alone(RetriesDeletion(i) /\ item'[i].row = "deleted")

Fairness ==
  /\ \A w \in Worker : WF_vars(TaskProceeds(w))
  /\ \A i \in Item : WF_vars(UnattendedLeaseExpires(i))
  /\ \A i \in Item : WF_vars(DeletionCompletes(i))
  /\ WF_vars(Alone(Reaps))

FairSpec == Spec /\ Fairness

=============================================================================
