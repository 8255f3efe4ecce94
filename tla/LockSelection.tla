---------------------------- MODULE LockSelection ----------------------------
(***************************************************************************)
(* Which sources a Free account may keep using: the entitlement changes of *)
(* app/models/user.py, the reconciliation every authenticated request runs *)
(* first (app/middleware/auth.py), and the user's own choice.  A request   *)
(* reads effective_premium without a lock and acts on it later.            *)
(*                                                                         *)
(* is_active and the recency columns only order candidates: the order is   *)
(* left open, so any subset of the right size may be the one retained.     *)
(***************************************************************************)
EXTENDS EntitlementRows, FiniteSetsExt

CONSTANT Request    \* slots for concurrently running requests

VARIABLE request    \* each slot's program counter and what it read

RequestState == [pc : {"idle", "stamp", "lock", "select", "apply"},
                 chosen : SUBSET Item,      \* the ids asked for
                 cleared : SUBSET Item]     \* rows written, not yet committed

IdleRequest == [pc |-> "idle", chosen |-> {}, cleared |-> {}]

RequestGoto(r, label) == request' = [request EXCEPT ![r].pc = label]
RequestEnds(r) == request' = [request EXCEPT ![r] = IdleRequest]

\* Rows another request has written wait for its commit.
RowsFree(r, rows) ==
  \A q \in Request \ {r} : request[q].pc = "apply" => request[q].cleared \cap rows = {}

UnlockedRows == {i \in Owned : item[i].is_unlocked_selection}

\* The smaller of a limit and what there is to limit.
AtMost(limit, S) == IF limit < Cardinality(S) THEN limit ELSE Cardinality(S)

-----------------------------------------------------------------------------
(* effective_premium changes under the account: a purchase or a grant, an   *)
(* expiration event, or the clock alone, which leaves the token as it is.   *)

PremiumStarts ==
  /\ ~user.effective_premium
  /\ user' = [user EXCEPT !.effective_premium = TRUE,
                          !.lock = IF @ = "settled" THEN "retokened" ELSE @]
  /\ UNCHANGED <<item, request>>

PremiumEnds ==
  /\ user.effective_premium
  /\ \E lock \in {user.lock}
                   \cup (IF user.lock \in {"settled", "retokened"}
                         THEN {"settled", "retokened"} ELSE {}) :
       user' = [user EXCEPT !.effective_premium = FALSE, !.lock = lock]
  /\ UNCHANGED <<item, request>>

-----------------------------------------------------------------------------
(* reconcile_free_lock_state, on the row get_current_user loaded.           *)

Reconcile(r) ==
  /\ request[r].pc = "idle"
  /\ \/ user.effective_premium /\ user.lock # "premium" /\ RequestGoto(r, "stamp")
     \/ ~user.effective_premium /\ user.lock # "settled" /\ RequestGoto(r, "lock")
  /\ UNCHANGED <<user, item>>

StampPremium(r) ==
  /\ request[r].pc = "stamp"
  /\ user' = [user EXCEPT !.lock = IF @ = "never" THEN @ ELSE "premium"]
  /\ RequestEnds(r)
  /\ UNCHANGED item

-----------------------------------------------------------------------------
(* finalize_lock_selection, once it holds the account's row lock.           *)

\* As many members of S as the limit lets be taken, whichever they are.
Take(limit, S) == kSubset(AtMost(limit, S), S)

\* What it starts from: the valid selection, cut to the limit, filled up
\* from the fallback candidates.
Keeps == Take(FreeLimit, CurrentValidSelection)

Fills(kept) == Take(FreeLimit - Cardinality(kept), FallbackCandidates \ kept)

Consumed(S) == {i \in S : item[i].entitlement_status = "consumed"}

\* Mutant: what was charged before is not subtracted.
CapacityUnspent == FreeLimit

\* successful_sources_total alone decides: slots held by rows still
\* processing are not counted.
CapacityAvailable ==
  IF user.successful_sources_total < FreeLimit
  THEN FreeLimit - user.successful_sources_total
  ELSE 0

\* Not yet counted sources to count now, those already selected first.
Promotions(kept, fill) ==
  LET needs == (kept \cup fill) \ Consumed(kept \cup fill)
  IN  {P \in Take(CapacityAvailable, needs) :
         P \cap fill # {} => needs \cap kept \subseteq P}

\* When capacity ran out, any other consumed source takes the open slot.
\* This query, unlike the other two, does not look at deletion_state.
TopUps(pool, promoted) ==
  LET final == Consumed(pool) \cup promoted
      spare == {i \in Consumed(Owned) \ final : item[i].processed}
      open  == FreeLimit - Cardinality(final)
  IN  IF promoted = pool \ Consumed(pool)
      THEN {{}}
      ELSE Take(open, spare)

\* _apply_selection: exactly `chosen` is unlocked.
Selecting(rows, chosen) ==
  [i \in Item |-> [rows[i] EXCEPT !.is_unlocked_selection = i \in chosen]]

\* Mutant: every candidate is marked as counted, not only those promoted.
AllCandidatesPromoted(promotions) ==
  [i \in Item |-> IF i \in FallbackCandidates
                  THEN [item[i] EXCEPT !.entitlement_status = "consumed",
                                       !.reservation_lease_token = None,
                                       !.lease_live = FALSE]
                  ELSE item[i]]

Promoted(promotions) ==
  [i \in Item |-> IF i \in promotions
                  THEN [item[i] EXCEPT !.entitlement_status = "consumed",
                                       !.reservation_lease_token = None,
                                       !.lease_live = FALSE]
                  ELSE item[i]]

FinalizeLockSelection(r) ==
  /\ request[r].pc = "lock"
  /\ RowsFree(r, Item)
  /\ \E kept \in Keeps :
     \E fill \in Fills(kept) :
     \E promoted \in Promotions(kept, fill) :
     \E extra \in TopUps(kept \cup fill, promoted) :
       /\ item' = Selecting(Promoted(promoted),
                            Consumed(kept \cup fill) \cup promoted \cup extra)
       /\ user' = [user EXCEPT !.successful_sources_total = @ + Cardinality(promoted),
                               !.lock = "settled"]
  /\ RequestEnds(r)

-----------------------------------------------------------------------------
(* set_free_selection: checked first, applied later.  set_explicit_selection *)
(* does not take the account's lock: its first UPDATE clears the rows it    *)
(* sees selected, its second selects the chosen ones, then it commits.      *)

SetFreeSelection(r) ==
  /\ request[r].pc = "idle"
  /\ user.effective_premium
  /\ \E chosen \in SUBSET FallbackCandidates :
       /\ Cardinality(chosen) <= FreeLimit
       /\ request' = [request EXCEPT ![r].pc = "select", ![r].chosen = chosen]
  /\ UNCHANGED <<user, item>>

ClearSelection(r) ==
  /\ request[r].pc = "select"
  /\ RowsFree(r, UnlockedRows)
  /\ request' = [request EXCEPT ![r].pc = "apply", ![r].cleared = UnlockedRows]
  /\ UNCHANGED <<user, item>>

SetExplicitSelection(r) ==
  /\ request[r].pc = "apply"
  /\ RowsFree(r, request[r].chosen)
  /\ item' = [i \in Item |->
       IF i \in Owned \cap (request[r].chosen \cup request[r].cleared)
       THEN [item[i] EXCEPT !.is_unlocked_selection = i \in request[r].chosen]
       ELSE item[i]]
  /\ RequestEnds(r)
  /\ UNCHANGED user

\* The transaction is rolled back: a deadlock's victim, a lost connection.
AbortSelection(r) ==
  /\ request[r].pc = "apply"
  /\ RequestEnds(r)
  /\ UNCHANGED <<user, item>>

\* No worker, deletion or pass writes a row this request has written and not committed.
RowLocks ==
  \A r \in Request :
    request[r].pc = "apply" /\ request'[r] = request[r]
      => \A i \in request[r].cleared : item'[i] = item[i]

RequestStep(r) ==
  \/ Reconcile(r)
  \/ StampPremium(r)
  \/ FinalizeLockSelection(r)
  \/ SetFreeSelection(r)
  \/ ClearSelection(r)
  \/ SetExplicitSelection(r)
  \/ AbortSelection(r)

-----------------------------------------------------------------------------
(* _backfill_one: the boot-time pass over accounts never reconciled.        *)

Backfilled(chosen) ==
  [i \in Item |->
     [item[i] EXCEPT !.entitlement_status =
        IF i \in chosen THEN "consumed"
        ELSE IF i \in Owned /\ item[i].processed THEN "grandfathered" ELSE @]]

BackfillOne ==
  /\ user.lock = "never"
  /\ \E chosen \in Take(FreeLimit, FallbackCandidates) :
       /\ item' = Selecting(Backfilled(chosen), chosen)
       /\ user' = [user EXCEPT
            !.successful_sources_total = Cardinality(chosen),
            !.reserved_sources_count = 0,
            !.lock = IF user.effective_premium THEN "premium" ELSE "settled"]

=============================================================================
