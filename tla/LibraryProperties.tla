-------------------------- MODULE LibraryProperties --------------------------
(***************************************************************************)
(* What the account's books must satisfy.  The documentation the           *)
(* properties come from is the header of                                   *)
(* app/services/entitlement_service.py and the docstrings it points to.    *)
(***************************************************************************)
EXTENDS Library

\* Every variable stays in its set.  reserved_sources_count is an Int: the
\* column is a plain integer, and a deletion can give one slot back twice
\* (DeleteItem releases it and leaves the status pending).
TypeOK ==
  /\ user \in UserRow
  /\ item \in [Item -> ItemRow]
  /\ worker \in [Worker -> WorkerState]
  /\ request \in [Request -> RequestState]
  /\ history \in HistoryState

LargerOf(m, n) == IF m < n THEN n ELSE m

\* The lifetime total the account's own history accounts for.
Accounted == history.carried + Cardinality(history.counted)

\* Rows whose slot reserved_sources_count stands for, and rows a DELETE left
\* 'pending' after giving their slot back.
Held == {i \in Owned : Pending(i) /\ ~Tombstoned(i)}
Orphaned == {i \in Owned : Pending(i) /\ Tombstoned(i)}

Drift == user.reserved_sources_count - Cardinality(Held)

-----------------------------------------------------------------------------
(* The books of an account that was Free all along. *)

\* reserve_free_capacity never lets slots charged and slots reserved exceed
\* the limit (or the total the account came with), whoever else reserves,
\* reaps, releases, converts or deletes meanwhile.
FreeCap ==
  ~history.exempt =>
    user.successful_sources_total + user.reserved_sources_count
      <= LargerOf(FreeLimit, history.carried)

\* finalize_successful_processing charges a source once: not again after a
\* retry, a crash, a superseded attempt or a deletion, and nothing refunds it.
ChargedExactlyOnce == ~history.exempt => user.successful_sources_total = Accounted

\* No source becomes usable without having been charged, however its
\* reservation was reaped, released or taken over while it was processed.
NoFreeRide ==
  ~history.exempt =>
    \A i \in Owned : item[i].processed => i \in history.counted

\* reserved_sources_count moves with the rows that hold a slot.  It departs
\* from them only on a tombstoned row, by one: up when such a row reserves
\* again, down when its slot, already given back, is given back again.
ReservationLedger ==
  [][~history.exempt' =>
       Drift' - Drift =
         Cardinality(Orphaned' \ (Orphaned \cup Held))
         - Cardinality({i \in Orphaned : i \in Owned' /\ i \notin Orphaned'})]_vars

\* The reservation protocol is a pool of FreeLimit slots.
Pool == INSTANCE SlotPool WITH carried <- history.carried,
                               held <- Held,
                               charged <- history.counted

PoolStep ==
  /\ ~history.exempt'
  /\ (\A i \in Owned : ~Tombstoned(i))'
  /\ (\A i \in Item : item[i].row # "deleted")'
  => [Pool!PoolNext]_(Pool!poolVars)

\* Until a source is deleted, every step of a Free account's library takes,
\* gives back or charges a slot as the pool allows, or leaves the pool alone.
SlotPoolRefined == Pool!PoolInit /\ [][PoolStep]_vars

-----------------------------------------------------------------------------
(* Any account. *)

CurrentAttempt(w) ==
  /\ worker[w].attempt_token # None
  /\ item[worker[w].item].last_processing_attempt_id = worker[w].attempt_token

\* Of all the workers ever admitted for a source, at most one still running
\* holds the attempt id finalize_successful_processing will accept.
AtMostOneOwner ==
  \A v, w \in Worker :
    /\ CurrentAttempt(v)
    /\ CurrentAttempt(w)
    /\ worker[v].item = worker[w].item
    => v = w

\* While an attempt is live, a step of somebody else neither takes it over
\* nor ends it, short of the row going.
LiveAttemptKept ==
  [][\A w \in Worker :
       /\ Guarded(w)
       /\ RenewsAttempt(w)
       /\ item[worker[w].item].attempt_live
       /\ worker'[w] = worker[w]
       => \/ item'[worker[w].item].row # "present"
          \/ item'[worker[w].item].worker_attempt_id = worker[w].attempt_token]_vars

\* A lifetime total never falls behind the sources that were charged, unless
\* the boot-time backfill rewrote it.
NeverUndercharged ==
  ~history.backfilled => user.successful_sources_total >= Accounted

\* Settling a downgrade leaves at most FreeLimit sources unlocked, all of them
\* counted, never raises the total past the limit by itself, and leaves no slot
\* locked while a counted source that could fill it for free exists.
DowngradeSettles ==
  [][\A r \in Request : FinalizeLockSelection(r) =>
       /\ Cardinality(UnlockedRows') <= FreeLimit
       /\ \A i \in UnlockedRows' : item'[i].entitlement_status = "consumed"
       /\ user'.successful_sources_total
            <= LargerOf(FreeLimit, user.successful_sources_total)
       /\ \/ Cardinality(UnlockedRows') >= FreeLimit
          \/ Consumed(FallbackCandidates) \subseteq UnlockedRows']_vars

-----------------------------------------------------------------------------
(* What must eventually happen. *)

\* A reservation never ties up a slot for good: its worker, the reaper or the
\* deletion resolves it, even if the process dies.  And a source the user
\* deleted is eventually gone, whatever failed at first.
NothingHangs ==
  \A i \in Item :
    /\ Pending(i) ~> ~Pending(i)
    /\ (i \in Owned /\ Tombstoned(i)) ~> item[i].row = "deleted"

-----------------------------------------------------------------------------
(* What the documentation says and the code does not keep. *)

\* entitlement_service.py: when access ends, "exactly three of the account's
\* successfully processed sources stay unlocked", so an account that becomes
\* settled with slots to spare has as many unlocked as it has sources to fill.
LimitStaysUnlocked ==
  [][/\ ~user.effective_premium
     /\ user.lock # "settled" /\ user'.lock = "settled"
     /\ user'.successful_sources_total < FreeLimit
     => Cardinality(CurrentValidSelection')
          >= AtMost(FreeLimit, FallbackCandidates)']_vars

=============================================================================
