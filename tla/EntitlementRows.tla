--------------------------- MODULE EntitlementRows ---------------------------
(***************************************************************************)
(* One account's row of `users` and its rows of `library_items`, with the  *)
(* primitives of app/services/entitlement_service.py that read and write   *)
(* both under the account's row lock.  Each primitive is one transaction,  *)
(* so each is one step; the modules that extend this one say who calls it. *)
(*                                                                         *)
(* Abstractions.  A uuid4 is a member of Token and is only ever compared   *)
(* for equality.  A deadline is a Boolean: lease_live and attempt_live say *)
(* that reservation_lease_expires_at and worker_attempt_expires_at are     *)
(* still in the future.  "none" stands for SQL NULL.                       *)
(***************************************************************************)
EXTENDS Integers, FiniteSets

CONSTANTS
  Item,        \* the ids the account's sources may get
  Token,       \* the supply of uuid4 values
  None,        \* NULL in a token column
  FreeLimit    \* settings.free_upload_limit

ASSUME ItemAssumption == IsFiniteSet(Item)
ASSUME FreeLimitAssumption == FreeLimit \in Nat
ASSUME NoneAssumption == None \notin Token

VARIABLES
  user,        \* the account's row of `users`
  item         \* the account's rows of `library_items`, by id

Status == {"none", "pending", "consumed", "premium", "released", "rejected",
           "grandfathered"}

(***************************************************************************)
(* `lock` abstracts free_lock_state_token and                              *)
(* free_lock_last_effective_premium together:                              *)
(*   "never"     the token is NULL: the account was never reconciled;      *)
(*   "settled"   it was stamped Free for the current entitlement token;    *)
(*   "retokened" stamped Free, but the entitlement token has changed since; *)
(*   "premium"   a request has seen the account Premium since the stamp.   *)
(***************************************************************************)
UserRow == [effective_premium : BOOLEAN,
            successful_sources_total : Nat,
            reserved_sources_count : Int,
            lock : {"never", "settled", "retokened", "premium"}]

ItemRow == [row : {"absent", "present", "deleted"},
            entitlement_status : Status,
            processed : BOOLEAN,
            reservation_lease_token : Token \cup {None},
            lease_live : BOOLEAN,
            last_processing_attempt_id : Token \cup {None},
            worker_attempt_id : Token \cup {None},
            attempt_live : BOOLEAN,
            deletion_state : {"none", "pending", "failed"},
            is_unlocked_selection : BOOLEAN]

BlankRow(row) == [row |-> row,
                  entitlement_status |-> "none",
                  processed |-> FALSE,
                  reservation_lease_token |-> None,
                  lease_live |-> FALSE,
                  last_processing_attempt_id |-> None,
                  worker_attempt_id |-> None,
                  attempt_live |-> FALSE,
                  deletion_state |-> "none",
                  is_unlocked_selection |-> FALSE]

-----------------------------------------------------------------------------
(* What the service reads off the rows. *)

Owned == {i \in Item : item[i].row = "present"}

Tombstoned(i) == item[i].deletion_state # "none"

Pending(i) == i \in Owned /\ item[i].entitlement_status = "pending"

\* The rows both selection queries look at: processed and not tombstoned.
FallbackCandidates == {i \in Owned : item[i].processed /\ ~Tombstoned(i)}

CurrentValidSelection ==
  {i \in FallbackCandidates : item[i].is_unlocked_selection}

IsSourceUnlocked(i) ==
  /\ i \in Owned
  /\ ~Tombstoned(i)
  /\ ~(item[i].processed /\ item[i].entitlement_status = "released")
  /\ user.effective_premium \/ item[i].is_unlocked_selection

CanAcceptNewUpload ==
  user.effective_premium \/ user.successful_sources_total < FreeLimit

-----------------------------------------------------------------------------
(* _reap_stale_reservations: every 'pending' row whose lease has run out    *)
(* becomes 'released', whatever its deletion_state, and its token stays.    *)

\* Mutant: a row whose worker never gave its attempt back is left alone.
StaleUnattended == {i \in Owned :
  Pending(i) /\ ~item[i].lease_live /\ item[i].worker_attempt_id = None}

StaleReservations == {i \in Owned : Pending(i) /\ ~item[i].lease_live}

ReapedRows ==
  [i \in Item |-> IF i \in StaleReservations
                  THEN [item[i] EXCEPT !.entitlement_status = "released"]
                  ELSE item[i]]

\* Mutant: one slot given back per pass, not per row.
ReservedAfterOneReap ==
  IF StaleReservations = {} THEN user.reserved_sources_count
  ELSE user.reserved_sources_count - 1

ReservedAfterReap ==
  user.reserved_sources_count - Cardinality(StaleReservations)

ReapAllStaleReservations ==
  /\ StaleReservations # {}
  /\ item' = ReapedRows
  /\ user' = [user EXCEPT !.reserved_sources_count = ReservedAfterReap]

-----------------------------------------------------------------------------
(* reserve_free_capacity, for a row with no active reservation yet.         *)

HasActiveReservation(i) ==
  item[i].entitlement_status \in {"pending", "consumed", "premium"}

GrantPremium(i, t) ==
  /\ user.effective_premium
  /\ item' = [ReapedRows EXCEPT ![i].entitlement_status = "premium",
                                ![i].reservation_lease_token = None,
                                ![i].lease_live = FALSE,
                                ![i].last_processing_attempt_id = t]
  /\ user' = [user EXCEPT !.reserved_sources_count = ReservedAfterReap]

\* Mutant: one slot too many.
SlotFreeInclusive == user.successful_sources_total + ReservedAfterReap <= FreeLimit

\* Mutant: slots held by sources still processing are not counted.
SlotFreeIgnoringPending == user.successful_sources_total < FreeLimit

SlotFree == user.successful_sources_total + ReservedAfterReap < FreeLimit

GrantSlot(i, t) ==
  /\ ~user.effective_premium
  /\ SlotFree
  /\ item' = [ReapedRows EXCEPT ![i].entitlement_status = "pending",
                                ![i].reservation_lease_token = t,
                                ![i].lease_live = TRUE,
                                ![i].last_processing_attempt_id = t]
  /\ user' = [user EXCEPT !.reserved_sources_count = ReservedAfterReap + 1]

RefuseSlot(i) ==
  /\ ~user.effective_premium
  /\ ~SlotFree
  /\ item' = [ReapedRows EXCEPT ![i].entitlement_status = "rejected"]
  /\ user' = [user EXCEPT !.reserved_sources_count = ReservedAfterReap]

-----------------------------------------------------------------------------
(* release_reservation and the conversion at the end of                     *)
(* finalize_successful_processing.                                          *)

MayRelease(i, lease) ==
  /\ Pending(i)
  /\ lease = None \/ item[i].reservation_lease_token = lease

ReleaseReservation(i, lease) ==
  /\ MayRelease(i, lease)
  /\ item' = [item EXCEPT ![i].entitlement_status = "released",
                          ![i].reservation_lease_token = None,
                          ![i].lease_live = FALSE]
  /\ user' = [user EXCEPT !.reserved_sources_count = @ - 1]

\* maybe_auto_unlock_new_source: room left in the Free selection.
AutoUnlocks ==
  ~user.effective_premium /\ Cardinality(CurrentValidSelection) < FreeLimit

ConvertPending(i) ==
  /\ item[i].entitlement_status = "pending"
  /\ item' = [item EXCEPT ![i].processed = TRUE,
                          ![i].reservation_lease_token = None,
                          ![i].lease_live = FALSE,
                          ![i].entitlement_status = "consumed",
                          ![i].is_unlocked_selection = @ \/ AutoUnlocks]
  /\ user' = [user EXCEPT !.reserved_sources_count = @ - 1,
                          !.successful_sources_total = @ + 1,
                          !.lock = IF AutoUnlocks THEN "settled" ELSE @]

\* Any other status ends 'premium': created while entitled, never counted.
ConvertExempt(i) ==
  /\ item[i].entitlement_status # "pending"
  /\ item' = [item EXCEPT ![i].processed = TRUE,
                          ![i].reservation_lease_token = None,
                          ![i].lease_live = FALSE,
                          ![i].entitlement_status = "premium"]
  /\ UNCHANGED user

Convert(i) == ConvertPending(i) \/ ConvertExempt(i)

-----------------------------------------------------------------------------
(* delete_library_item and retry_item_deletions. *)

\* Mutant: deleting a source that was charged refunds the charge.
DeleteRefunds(i) ==
  /\ i \in Owned
  /\ ~Tombstoned(i)
  /\ item' = [item EXCEPT ![i].deletion_state = "pending"]
  /\ user' = IF Pending(i)
             THEN [user EXCEPT !.reserved_sources_count = @ - 1]
             ELSE IF item[i].entitlement_status = "consumed"
             THEN [user EXCEPT !.successful_sources_total = @ - 1]
             ELSE user

\* Mutant: deleting any source that holds no slot refunds a charge.
DeleteRefundsAny(i) ==
  /\ i \in Owned
  /\ ~Tombstoned(i)
  /\ item' = [item EXCEPT ![i].deletion_state = "pending"]
  /\ user' = IF Pending(i)
             THEN [user EXCEPT !.reserved_sources_count = @ - 1]
             ELSE [user EXCEPT !.successful_sources_total = @ - 1]

\* PHASE 1: the slot of a 'pending' row is given back and the row is
\* tombstoned; its entitlement_status is left as it was.
DeleteLibraryItem(i) ==
  /\ i \in Owned
  /\ ~Tombstoned(i)
  /\ item' = [item EXCEPT ![i].deletion_state = "pending"]
  /\ user' = IF Pending(i)
             THEN [user EXCEPT !.reserved_sources_count = @ - 1]
             ELSE user

\* PHASE 2: the row goes once vectors, file and images are all gone.
CleanupSucceeds(i) ==
  /\ item' = [item EXCEPT ![i] = BlankRow("deleted")]
  /\ UNCHANGED user

CleanupFails(i) ==
  /\ item' = [item EXCEPT ![i].deletion_state = "failed"]
  /\ UNCHANGED user

\* PHASE 2 in the DELETE request itself, or in a repeated DELETE.
FinishItemDeletionCleanup(i) ==
  /\ i \in Owned
  /\ Tombstoned(i)
  /\ CleanupSucceeds(i) \/ CleanupFails(i)

\* The maintenance cycle's pass over tombstoned rows.
RetryItemDeletions(i) ==
  /\ i \in Owned
  /\ item[i].deletion_state \in {"pending", "failed"}
  /\ CleanupSucceeds(i) \/ CleanupFails(i)

-----------------------------------------------------------------------------
(* Time: a deadline nothing renewed passes. *)

LeaseExpires(i) ==
  /\ Pending(i)
  /\ item[i].lease_live
  /\ item' = [item EXCEPT ![i].lease_live = FALSE]
  /\ UNCHANGED user

AttemptExpires(i) ==
  /\ item[i].worker_attempt_id # None
  /\ item[i].attempt_live
  /\ item' = [item EXCEPT ![i].attempt_live = FALSE]
  /\ UNCHANGED user

=============================================================================
