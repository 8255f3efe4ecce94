---------------------------- MODULE LibraryProofs ----------------------------
(***************************************************************************)
(* Theorems about Library for every set of sources, workers and requests,  *)
(* every limit and every mix of events: the types, and who owns a source's *)
(* attempt and for how long.                                               *)
(***************************************************************************)
EXTENDS LibraryProperties, FiniteSetTheorems, TLAPS

Rows == [Item -> ItemRow]
Tokens == Token \cup {None}

-----------------------------------------------------------------------------
(* Cardinalities of sets of sources are natural numbers. *)

LEMMA SourceSetsFinite ==
  ASSUME NEW S \in SUBSET Item
  PROVE  IsFiniteSet(S) /\ Cardinality(S) \in Nat
  BY ItemAssumption, FS_Subset, FS_CardinalityType

-----------------------------------------------------------------------------
(* What one transaction writes stays in the type of its table.  Each lemma  *)
(* first types the row that is written, then the table around it.           *)

LEMMA RowWritten ==
  ASSUME NEW rows \in Rows, NEW i \in Item, NEW r \in ItemRow
  PROVE  [rows EXCEPT ![i] = r] \in Rows
  BY DEF Rows

LEMMA ReapTyped ==
  ASSUME TypeOK
  PROVE  ReapedRows \in Rows /\ ReservedAfterReap \in Int
<1>1. ReapedRows \in Rows
  <2>1. \A i \in Item : [item[i] EXCEPT !.entitlement_status = "released"] \in ItemRow
    BY DEF TypeOK, ItemRow, Status
  <2> QED BY <2>1 DEF TypeOK, ReapedRows, Rows
<1>2. Cardinality(StaleReservations) \in Nat
  BY SourceSetsFinite DEF StaleReservations, Owned
<1> QED BY <1>1, <1>2 DEF TypeOK, UserRow, ReservedAfterReap

LEMMA ReapAllTyped ==
  ASSUME TypeOK, ReapAllStaleReservations
  PROVE  item' \in Rows /\ user' \in UserRow
  BY ReapTyped DEF TypeOK, ReapAllStaleReservations, UserRow

LEMMA GrantPremiumTyped ==
  ASSUME TypeOK, NEW i \in Item, NEW t \in Token, GrantPremium(i, t)
  PROVE  item' \in Rows /\ user' \in UserRow
<1> DEFINE rows == ReapedRows
           r == [rows[i] EXCEPT !.entitlement_status = "premium",
                                !.reservation_lease_token = None,
                                !.lease_live = FALSE,
                                !.last_processing_attempt_id = t]
<1>1. rows \in Rows /\ ReservedAfterReap \in Int
  BY ReapTyped
<1>2. r \in ItemRow
  <2>1. rows[i] \in ItemRow
    BY <1>1 DEF Rows
  <2> HIDE DEF rows
  <2> QED BY <2>1 DEF ItemRow, Status
<1>3. item' = [rows EXCEPT ![i] = r]
  <2>1. item' = [rows EXCEPT ![i].entitlement_status = "premium",
                             ![i].reservation_lease_token = None,
                             ![i].lease_live = FALSE,
                             ![i].last_processing_attempt_id = t]
    BY DEF GrantPremium
  <2> HIDE DEF rows
  <2> QED BY <2>1, <1>1 DEF Rows
<1>4. user' \in UserRow
  BY <1>1 DEF TypeOK, GrantPremium, UserRow
<1> HIDE DEF rows, r
<1> QED BY <1>1, <1>2, <1>3, <1>4, RowWritten

LEMMA GrantSlotTyped ==
  ASSUME TypeOK, NEW i \in Item, NEW t \in Token, GrantSlot(i, t)
  PROVE  item' \in Rows /\ user' \in UserRow
<1> DEFINE rows == ReapedRows
           r == [rows[i] EXCEPT !.entitlement_status = "pending",
                                !.reservation_lease_token = t,
                                !.lease_live = TRUE,
                                !.last_processing_attempt_id = t]
<1>1. rows \in Rows /\ ReservedAfterReap \in Int
  BY ReapTyped
<1>2. r \in ItemRow
  <2>1. rows[i] \in ItemRow
    BY <1>1 DEF Rows
  <2> HIDE DEF rows
  <2> QED BY <2>1 DEF ItemRow, Status
<1>3. item' = [rows EXCEPT ![i] = r]
  <2>1. item' = [rows EXCEPT ![i].entitlement_status = "pending",
                             ![i].reservation_lease_token = t,
                             ![i].lease_live = TRUE,
                             ![i].last_processing_attempt_id = t]
    BY DEF GrantSlot
  <2> HIDE DEF rows
  <2> QED BY <2>1, <1>1 DEF Rows
<1>4. user' \in UserRow
  BY <1>1 DEF TypeOK, GrantSlot, UserRow
<1> HIDE DEF rows, r
<1> QED BY <1>1, <1>2, <1>3, <1>4, RowWritten

LEMMA RefuseSlotTyped ==
  ASSUME TypeOK, NEW i \in Item, RefuseSlot(i)
  PROVE  item' \in Rows /\ user' \in UserRow
<1> DEFINE rows == ReapedRows
           r == [rows[i] EXCEPT !.entitlement_status = "rejected"]
<1>1. rows \in Rows /\ ReservedAfterReap \in Int
  BY ReapTyped
<1>2. r \in ItemRow
  <2>1. rows[i] \in ItemRow
    BY <1>1 DEF Rows
  <2> HIDE DEF rows
  <2> QED BY <2>1 DEF ItemRow, Status
<1>3. item' = [rows EXCEPT ![i] = r]
  <2>1. item' = [rows EXCEPT ![i].entitlement_status = "rejected"]
    BY DEF RefuseSlot
  <2> HIDE DEF rows
  <2> QED BY <2>1, <1>1 DEF Rows
<1>4. user' \in UserRow
  BY <1>1 DEF TypeOK, RefuseSlot, UserRow
<1> HIDE DEF rows, r
<1> QED BY <1>1, <1>2, <1>3, <1>4, RowWritten

LEMMA ReleaseTyped ==
  ASSUME TypeOK, NEW i \in Item, NEW lease, ReleaseReservation(i, lease)
  PROVE  item' \in Rows /\ user' \in UserRow
<1> DEFINE r == [item[i] EXCEPT !.entitlement_status = "released",
                                !.reservation_lease_token = None,
                                !.lease_live = FALSE]
<1>1. r \in ItemRow
  BY DEF TypeOK, ItemRow, Status
<1>2. item' = [item EXCEPT ![i] = r]
  BY DEF ReleaseReservation, TypeOK
<1>3. user' \in UserRow
  BY DEF ReleaseReservation, TypeOK, UserRow
<1> HIDE DEF r
<1> QED BY <1>1, <1>2, <1>3, RowWritten DEF TypeOK, Rows

LEMMA ConvertTyped ==
  ASSUME TypeOK, NEW i \in Item, Convert(i)
  PROVE  item' \in Rows /\ user' \in UserRow
<1>1. CASE ConvertPending(i)
  <2> DEFINE unlocked == item[i].is_unlocked_selection \/ AutoUnlocks
             r == [item[i] EXCEPT !.processed = TRUE,
                                  !.reservation_lease_token = None,
                                  !.lease_live = FALSE,
                                  !.entitlement_status = "consumed",
                                  !.is_unlocked_selection = unlocked]
  <2>1. item[i] \in ItemRow /\ unlocked \in BOOLEAN
    BY DEF TypeOK, ItemRow
  <2>2. item' = [item EXCEPT ![i] = r]
    BY <1>1 DEF ConvertPending, TypeOK
  <2>3. r \in ItemRow
    <3> HIDE DEF unlocked
    <3> QED BY <2>1 DEF ItemRow, Status
  <2>4. user' \in UserRow
    <3> DEFINE stamp == IF AutoUnlocks THEN "settled" ELSE user.lock
    <3>1. stamp \in {"never", "settled", "retokened", "premium"}
      BY DEF TypeOK, UserRow
    <3>2. user' = [user EXCEPT !.reserved_sources_count = @ - 1,
                               !.successful_sources_total = @ + 1,
                               !.lock = stamp]
      BY <1>1 DEF ConvertPending
    <3> DEFINE counted == [user EXCEPT !.reserved_sources_count = @ - 1,
                                       !.successful_sources_total = @ + 1]
    <3>3. counted \in UserRow
      <4>1. user \in UserRow
        BY DEF TypeOK
      <4>2. /\ user.reserved_sources_count - 1 \in Int
            /\ user.successful_sources_total + 1 \in Nat
        BY <4>1 DEF UserRow
      <4> QED BY <4>1, <4>2 DEF UserRow
    <3>4. user' = [counted EXCEPT !.lock = stamp]
      BY <3>2
    <3> HIDE DEF stamp, counted
    <3> QED BY <3>1, <3>3, <3>4 DEF UserRow
  <2> HIDE DEF unlocked, r
  <2> QED BY <2>2, <2>3, <2>4, RowWritten DEF TypeOK, Rows
<1>2. CASE ConvertExempt(i)
  <2> DEFINE r == [item[i] EXCEPT !.processed = TRUE,
                                  !.reservation_lease_token = None,
                                  !.lease_live = FALSE,
                                  !.entitlement_status = "premium"]
  <2>1. r \in ItemRow
    BY DEF TypeOK, ItemRow, Status
  <2>2. item' = [item EXCEPT ![i] = r] /\ user' = user
    BY <1>2 DEF ConvertExempt, TypeOK
  <2> HIDE DEF r
  <2> QED BY <2>1, <2>2, RowWritten DEF TypeOK, Rows
<1> QED BY <1>1, <1>2 DEF Convert

LEMMA DeleteTyped ==
  ASSUME TypeOK, NEW i \in Item, DeleteLibraryItem(i)
  PROVE  item' \in Rows /\ user' \in UserRow
  BY DEF DeleteLibraryItem, TypeOK, ItemRow, UserRow, Rows

LEMMA BlankTyped ==
  ASSUME NEW row \in {"absent", "present", "deleted"}
  PROVE  BlankRow(row) \in ItemRow
  BY DEF BlankRow, ItemRow, Status

LEMMA CleanupTyped ==
  ASSUME TypeOK, NEW i \in Item, CleanupSucceeds(i) \/ CleanupFails(i)
  PROVE  item' \in Rows /\ user' \in UserRow
<1>1. CASE CleanupSucceeds(i)
  BY <1>1, BlankTyped, RowWritten DEF CleanupSucceeds, TypeOK, Rows
<1>2. CASE CleanupFails(i)
  <2> DEFINE r == [item[i] EXCEPT !.deletion_state = "failed"]
  <2>1. r \in ItemRow
    BY DEF TypeOK, ItemRow
  <2>2. item' = [item EXCEPT ![i] = r] /\ user' = user
    BY <1>2 DEF CleanupFails, TypeOK
  <2> HIDE DEF r
  <2> QED BY <2>1, <2>2, RowWritten DEF TypeOK, Rows
<1> QED BY <1>1, <1>2

LEMMA TimeTyped ==
  ASSUME TypeOK, NEW i \in Item, LeaseExpires(i) \/ AttemptExpires(i)
  PROVE  item' \in Rows /\ user' \in UserRow
<1>1. /\ [item[i] EXCEPT !.lease_live = FALSE] \in ItemRow
      /\ [item[i] EXCEPT !.attempt_live = FALSE] \in ItemRow
  BY DEF TypeOK, ItemRow
<1>2. \/ item' = [item EXCEPT ![i] = [item[i] EXCEPT !.lease_live = FALSE]]
      \/ item' = [item EXCEPT ![i] = [item[i] EXCEPT !.attempt_live = FALSE]]
  BY DEF LeaseExpires, AttemptExpires, TypeOK
<1>3. user' = user
  BY DEF LeaseExpires, AttemptExpires
<1> QED BY <1>1, <1>2, <1>3, RowWritten DEF TypeOK, Rows

-----------------------------------------------------------------------------
(* The workers' steps. *)

Slots == [Worker -> WorkerState]

Labels == {"idle", "reserve", "admit", "begin", "work", "finalize", "convert",
           "fail", "exit"}

LEMMA SlotWritten ==
  ASSUME TypeOK, NEW w \in Worker, NEW s \in WorkerState
  PROVE  [worker EXCEPT ![w] = s] \in Slots
  BY DEF TypeOK, Slots

LEMMA LeaseTaken ==
  ASSUME TypeOK, NEW w \in Worker, NEW label \in Labels, NEW lease \in Tokens,
         NEW attempt \in Tokens,
         worker' = [worker EXCEPT ![w].pc = label, ![w].lease_token = lease,
                                  ![w].attempt_token = attempt]
  PROVE  worker' \in Slots
<1> DEFINE s == [worker[w] EXCEPT !.pc = label, !.lease_token = lease,
                                  !.attempt_token = attempt]
<1>1. s \in WorkerState
  BY DEF TypeOK, WorkerState, Labels, Tokens
<1>2. worker' = [worker EXCEPT ![w] = s]
  BY DEF TypeOK
<1> HIDE DEF s
<1> QED BY <1>1, <1>2, SlotWritten

LEMMA SlotTyped ==
  ASSUME TypeOK, NEW w \in Worker
  PROVE  /\ worker[w] \in WorkerState
         /\ worker[w].lease_token \in Tokens
         /\ worker[w].attempt_token \in Tokens
  BY DEF TypeOK, WorkerState, Tokens

LEMMA GotoTyped ==
  ASSUME TypeOK, NEW w \in Worker, NEW label \in Labels, Goto(w, label)
  PROVE  worker' \in Slots
<1> DEFINE s == [worker[w] EXCEPT !.pc = label]
<1>1. s \in WorkerState
  BY DEF TypeOK, WorkerState, Labels
<1>2. worker' = [worker EXCEPT ![w] = s]
  BY DEF TypeOK, Goto
<1> HIDE DEF s
<1> QED BY <1>1, <1>2, SlotWritten

LEMMA LeaveTyped ==
  ASSUME TypeOK, NEW w \in Worker, Leave(w)
  PROVE  worker' \in Slots
<1> DEFINE s == [worker[w] EXCEPT !.pc = "exit", !.lease_token = None]
<1>1. s \in WorkerState
  BY DEF TypeOK, WorkerState
<1>2. worker' = [worker EXCEPT ![w] = s]
  BY DEF TypeOK, Leave
<1> HIDE DEF s
<1> QED BY <1>1, <1>2, SlotWritten

LEMMA IdleTyped == Idle \in WorkerState
  BY DEF Idle, WorkerState

LEMMA FinishTyped ==
  ASSUME TypeOK, NEW w \in Worker, Finish(w)
  PROVE  worker' \in Slots
  BY IdleTyped, SlotWritten DEF Finish

LEMMA AdmitTyped ==
  ASSUME TypeOK, NEW w \in Worker, NEW lease \in Tokens, AdmitWorkerAttempt(w, lease)
  PROVE  item' \in Rows /\ user' \in UserRow /\ worker' \in Slots
<1> DEFINE i == worker[w].item
           t == NewToken(i)
           r == [item[i] EXCEPT !.worker_attempt_id = t, !.attempt_live = TRUE,
                                !.last_processing_attempt_id = t]
<1>1. CASE RefuseAdmission(w)
  BY <1>1, FinishTyped DEF RefuseAdmission, TypeOK, Rows
<1>2. ASSUME i \in Owned, t \in Token,
             item' = [item EXCEPT ![i].worker_attempt_id = t, ![i].attempt_live = TRUE,
                                  ![i].last_processing_attempt_id = t]
      PROVE  item' \in Rows
  <2> HIDE DEF i, t
  <2>1. i \in Item
    BY <1>2 DEF Owned
  <2>2. r \in ItemRow
    BY <1>2, <2>1 DEF TypeOK, ItemRow
  <2>3. item' = [item EXCEPT ![i] = r]
    BY <1>2, <2>1 DEF TypeOK
  <2> HIDE DEF r
  <2> QED BY <2>1, <2>2, <2>3, RowWritten DEF TypeOK, Rows
<1>3. CASE AdmitAttempt(w, lease)
  <2>1. i \in Owned /\ t \in Token /\ user' = user
    BY <1>3 DEF AdmitAttempt, Admissible, MintsFresh
  <2>2. item' \in Rows
    BY <1>3, <2>1, <1>2 DEF AdmitAttempt
  <2>3. worker' \in Slots
    BY <1>3, <2>1, LeaseTaken DEF AdmitAttempt, Labels, Tokens
  <2> QED BY <2>1, <2>2, <2>3 DEF TypeOK
<1>4. CASE AdmitOcrAttempt(w)
  <2>1. i \in Owned /\ t \in Token /\ user' = user
    BY <1>4 DEF AdmitOcrAttempt, Admissible, MintsFresh
  <2>2. item' \in Rows
    BY <1>4, <2>1, <1>2 DEF AdmitOcrAttempt
  <2>3. worker' \in Slots
    <3> DEFINE s == [worker[w] EXCEPT !.pc = "begin", !.attempt_token = t]
    <3>1. worker' = [worker EXCEPT ![w] = s]
      BY <1>4 DEF AdmitOcrAttempt, TypeOK
    <3>2. s \in WorkerState
      <4> HIDE DEF t
      <4> QED BY <2>1 DEF TypeOK, WorkerState
    <3> HIDE DEF s
    <3> QED BY <3>1, <3>2, SlotWritten
  <2> QED BY <2>1, <2>2, <2>3 DEF TypeOK
<1> QED BY <1>1, <1>3, <1>4 DEF AdmitWorkerAttempt

LEMMA ReserveTyped ==
  ASSUME TypeOK, NEW w \in Worker, Reserve(w)
  PROVE  item' \in Rows /\ user' \in UserRow /\ worker' \in Slots
<1>1. CASE ReserveMissing(w)
  BY <1>1, FinishTyped DEF ReserveMissing, TypeOK, Rows
<1>2. CASE ReserveActive(w)
  <2> DEFINE i == worker[w].item
  <2>1. i \in Item /\ AdmitWorkerAttempt(w, item[i].reservation_lease_token)
    BY <1>2 DEF ReserveActive, Owned
  <2> HIDE DEF i
  <2>2. item[i].reservation_lease_token \in Tokens
    BY <2>1 DEF TypeOK, ItemRow, Tokens
  <2> QED BY <2>1, <2>2, AdmitTyped
<1>3. CASE ReserveNew(w)
  <2> DEFINE i == worker[w].item
             t == NewToken(i)
  <2>1. i \in Item /\ t \in Token
    BY <1>3 DEF ReserveNew, Owned, MintsFresh
  <2>2. CASE GrantPremium(i, t) /\ Goto(w, "admit")
    BY <2>1, <2>2, GrantPremiumTyped, GotoTyped DEF Labels
  <2>3. CASE RefuseSlot(i) /\ Finish(w)
    BY <2>1, <2>3, RefuseSlotTyped, FinishTyped
  <2>4. CASE GrantSlot(i, t) /\
             worker' = [worker EXCEPT
                 ![w].pc = "admit",
                 ![w].lease_token = IF worker[w].kind = "ocr" THEN None ELSE t]
    <3> DEFINE lease == IF worker[w].kind = "ocr" THEN None ELSE t
               s == [worker[w] EXCEPT !.pc = "admit", !.lease_token = lease]
    <3>1. item' \in Rows /\ user' \in UserRow
      BY <2>1, <2>4, GrantSlotTyped
    <3>2. lease \in Tokens
      BY <2>1 DEF Tokens
    <3>3. worker' = [worker EXCEPT ![w] = s]
      BY <2>4 DEF TypeOK
    <3>4. s \in WorkerState
      <4> HIDE DEF lease
      <4> QED BY <3>2 DEF TypeOK, WorkerState, Tokens
    <3> HIDE DEF s
    <3> QED BY <3>1, <3>3, <3>4, SlotWritten
  <2> QED BY <1>3, <2>2, <2>3, <2>4 DEF ReserveNew
<1> QED BY <1>1, <1>2, <1>3 DEF Reserve

LEMMA RenewedTyped ==
  ASSUME TypeOK, NEW w \in Worker
  PROVE  RenewedRows(w) \in Rows
<1> DEFINE i == worker[w].item
           attempt == item[i].attempt_live \/ RenewsAttempt(w)
           lease == item[i].lease_live \/ (worker[w].lease_token # None /\ RenewsLease(w))
           r == [item[i] EXCEPT !.attempt_live = attempt, !.lease_live = lease]
<1>1. attempt \in BOOLEAN /\ lease \in BOOLEAN
  OBVIOUS
<1>2. i \in Item => r \in ItemRow
  <2> HIDE DEF attempt, lease, i
  <2> QED BY <1>1 DEF TypeOK, ItemRow
<1>3. RenewedRows(w) = [item EXCEPT ![i] = r]
  BY DEF RenewedRows, TypeOK
<1> HIDE DEF r, i
<1> QED BY <1>2, <1>3 DEF TypeOK, Rows

LEMMA WorkTyped ==
  ASSUME TypeOK, NEW w \in Worker,
         BeginOcr(w) \/ PassLastCheck(w) \/ LoseOwnership(w) \/ WorkFails(w) \/ Heartbeat(w)
  PROVE  item' \in Rows /\ user' \in UserRow /\ worker' \in Slots
<1>0. item \in Rows /\ user \in UserRow /\ worker \in Slots
  BY DEF TypeOK, Rows, Slots
<1>1. CASE BeginOcr(w)
  <2> DEFINE i == worker[w].item
             lease == item[i].reservation_lease_token
             s == [worker[w] EXCEPT !.pc = "work", !.lease_token = lease]
  <2>1. ASSUME i \in Owned,
               worker' = [worker EXCEPT ![w].pc = "work", ![w].lease_token = lease]
        PROVE  worker' \in Slots
    <3>1. i \in Item
      BY <2>1 DEF Owned
    <3>2. lease \in Tokens
      <4> HIDE DEF i
      <4> QED BY <3>1 DEF TypeOK, ItemRow, Tokens
    <3>3. worker' = [worker EXCEPT ![w] = s]
      BY <2>1 DEF TypeOK
    <3>4. s \in WorkerState
      <4> HIDE DEF lease
      <4> QED BY <3>2 DEF TypeOK, WorkerState, Tokens
    <3> HIDE DEF s
    <3> QED BY <3>3, <3>4, SlotWritten
  <2> QED BY <1>0, <1>1, <2>1, FinishTyped, LeaveTyped DEF BeginOcr
<1>2. CASE PassLastCheck(w)
  BY <1>0, <1>2, RenewedTyped, GotoTyped DEF PassLastCheck, Labels
<1>3. CASE LoseOwnership(w)
  BY <1>0, <1>3, RenewedTyped, LeaveTyped DEF LoseOwnership
<1>4. CASE WorkFails(w)
  BY <1>0, <1>4, GotoTyped DEF WorkFails, Labels
<1>5. CASE Heartbeat(w)
  BY <1>0, <1>5, RenewedTyped DEF Heartbeat
<1> QED BY <1>1, <1>2, <1>3, <1>4, <1>5

LEMMA ScanTyped ==
  ASSUME TypeOK, NEW w \in Worker, ScanNeedsOcr(w)
  PROVE  item' \in Rows /\ user' \in UserRow /\ worker' \in Slots
<1> DEFINE i == worker[w].item
<1>1. worker' \in Slots /\ user' = user /\ i \in Item
  BY LeaveTyped, GotoTyped DEF ScanNeedsOcr, Labels, Owned
<1>2. PICK p \in {item[i].processed, FALSE} : item' = [item EXCEPT ![i].processed = p]
  BY DEF ScanNeedsOcr
<1> DEFINE r == [item[i] EXCEPT !.processed = p]
<1>3. r \in ItemRow
  <2> HIDE DEF i
  <2> QED BY <1>1, <1>2 DEF TypeOK, ItemRow
<1>4. item' = [item EXCEPT ![i] = r]
  BY <1>2 DEF TypeOK
<1> HIDE DEF r, i
<1> QED BY <1>1, <1>3, <1>4, RowWritten DEF TypeOK, Rows

LEMMA FinalizeTyped ==
  ASSUME TypeOK, NEW w \in Worker, Finalize(w) \/ ConvertAfterReserve(w)
  PROVE  item' \in Rows /\ user' \in UserRow /\ worker' \in Slots
<1> DEFINE i == worker[w].item
           t == NewToken(i)
<1>0. item \in Rows /\ user \in UserRow
  BY DEF TypeOK, Rows
<1>1. CASE FinalizeAccepts(w)
  <2>1. i \in Item /\ Convert(i) /\ Leave(w)
    BY <1>1 DEF FinalizeAccepts, FinalizeRefused, Owned
  <2> QED BY <2>1, ConvertTyped, LeaveTyped
<1>2. CASE FinalizeReserves(w)
  <2>1. i \in Item /\ t \in Token
    BY <1>2 DEF FinalizeReserves, FinalizeRefused, Owned, MintsFresh
  <2>2. Goto(w, "convert") \/ Leave(w)
    BY <1>2 DEF FinalizeReserves
  <2>3. \/ item' = item /\ user' = user
        \/ GrantPremium(i, t)
        \/ GrantSlot(i, t)
        \/ RefuseSlot(i)
    BY <1>2 DEF FinalizeReserves
  <2> HIDE DEF i, t
  <2> QED BY <1>0, <2>1, <2>2, <2>3, GotoTyped, LeaveTyped, GrantPremiumTyped,
             GrantSlotTyped, RefuseSlotTyped DEF Labels
<1>3. CASE FinalizeSkips(w)
  BY <1>0, <1>3, LeaveTyped DEF FinalizeSkips
<1>4. CASE ConvertAfterReserve(w)
  <2>1. CASE i \in Owned /\ Convert(i) /\ Leave(w)
    BY <2>1, ConvertTyped, LeaveTyped DEF Owned
  <2>2. CASE Goto(w, "fail") /\ UNCHANGED <<user, item>>
    BY <1>0, <2>2, GotoTyped DEF Labels
  <2> QED BY <1>4, <2>1, <2>2 DEF ConvertAfterReserve
<1> QED BY <1>1, <1>2, <1>3, <1>4 DEF Finalize

LEMMA ExitTyped ==
  ASSUME TypeOK, NEW w \in Worker, ReleaseAfterFailure(w) \/ ReleaseWorkerAttempt(w)
  PROVE  item' \in Rows /\ user' \in UserRow /\ worker' \in Slots
<1> DEFINE i == worker[w].item
           r == [item[i] EXCEPT !.worker_attempt_id = None, !.attempt_live = FALSE]
<1>0. item \in Rows /\ user \in UserRow
  BY DEF TypeOK, Rows
<1>1. CASE ReleaseAfterFailure(w)
  <2>1. CASE ReleaseReservation(i, worker[w].lease_token)
    <3>1. i \in Item
      BY <2>1 DEF ReleaseReservation, MayRelease, Pending, Owned
    <3> QED BY <1>1, <2>1, <3>1, ReleaseTyped, LeaveTyped DEF ReleaseAfterFailure
  <2>2. CASE UNCHANGED <<user, item>>
    BY <1>0, <1>1, <2>2, LeaveTyped DEF ReleaseAfterFailure
  <2> QED BY <1>1, <2>1, <2>2 DEF ReleaseAfterFailure
<1>2. CASE ReleaseWorkerAttempt(w)
  <2>1. CASE RenewsAttempt(w) /\ worker[w].attempt_token # None
    <3>1. i \in Item
      BY <2>1 DEF RenewsAttempt, Owned
    <3>2. item' = [item EXCEPT ![i] = r]
      BY <1>2, <2>1 DEF ReleaseWorkerAttempt, TypeOK
    <3>3. r \in ItemRow
      <4> HIDE DEF i
      <4> QED BY <3>1 DEF TypeOK, ItemRow
    <3>4. Finish(w) /\ user' = user
      BY <1>2 DEF ReleaseWorkerAttempt
    <3> HIDE DEF r, i
    <3> QED BY <1>0, <3>1, <3>2, <3>3, <3>4, RowWritten, FinishTyped
  <2>2. CASE ~(RenewsAttempt(w) /\ worker[w].attempt_token # None)
    BY <1>0, <1>2, <2>2, FinishTyped DEF ReleaseWorkerAttempt
  <2> QED BY <2>1, <2>2
<1> QED BY <1>1, <1>2

LEMMA WorkerStepTyped ==
  ASSUME TypeOK, NEW w \in Worker, WorkerStep(w)
  PROVE  item' \in Rows /\ user' \in UserRow /\ worker' \in Slots
<1>1. CASE Reserve(w)
  BY <1>1, ReserveTyped
<1>2. CASE Admit(w)
  BY <1>2, AdmitTyped, SlotTyped DEF Admit
<1>3. CASE ScanNeedsOcr(w)
  BY <1>3, ScanTyped
<1>4. CASE Finalize(w) \/ ConvertAfterReserve(w)
  BY <1>4, FinalizeTyped
<1>5. CASE ReleaseAfterFailure(w) \/ ReleaseWorkerAttempt(w)
  BY <1>5, ExitTyped
<1> QED BY <1>1, <1>2, <1>3, <1>4, <1>5, WorkTyped DEF WorkerStep, Progress

LEMMA StartTyped ==
  ASSUME TypeOK, NEW i \in Item, NEW w \in Worker, CreateItem(i, w) \/ StartOcr(i, w)
  PROVE  item' \in Rows /\ user' \in UserRow /\ worker' \in Slots
<1>1. /\ [Idle EXCEPT !.pc = "reserve", !.item = i] \in WorkerState
      /\ [Idle EXCEPT !.pc = "reserve", !.kind = "ocr", !.item = i] \in WorkerState
  BY DEF Idle, WorkerState
<1>2. worker' \in Slots
  BY <1>1, SlotWritten DEF CreateItem, StartOcr
<1>3. item' \in Rows
  BY BlankTyped, RowWritten DEF CreateItem, StartOcr, TypeOK, Rows
<1> QED BY <1>2, <1>3 DEF CreateItem, StartOcr, TypeOK

-----------------------------------------------------------------------------
(* The requests' steps. *)

Sessions == [Request -> RequestState]

LEMMA SessionWritten ==
  ASSUME TypeOK, NEW r \in Request, NEW s \in RequestState
  PROVE  [request EXCEPT ![r] = s] \in Sessions
  BY DEF TypeOK, Sessions

LEMMA RequestMoves ==
  ASSUME TypeOK, NEW r \in Request,
         \/ RequestEnds(r)
         \/ RequestGoto(r, "stamp")
         \/ RequestGoto(r, "lock")
  PROVE  request' \in Sessions
<1>1. /\ IdleRequest \in RequestState
      /\ [request[r] EXCEPT !.pc = "stamp"] \in RequestState
      /\ [request[r] EXCEPT !.pc = "lock"] \in RequestState
  BY DEF TypeOK, RequestState, IdleRequest
<1>2. \/ request' = [request EXCEPT ![r] = IdleRequest]
      \/ request' = [request EXCEPT ![r] = [request[r] EXCEPT !.pc = "stamp"]]
      \/ request' = [request EXCEPT ![r] = [request[r] EXCEPT !.pc = "lock"]]
  BY DEF RequestEnds, RequestGoto, TypeOK
<1> QED BY <1>1, <1>2, SessionWritten

LEMMA ChoiceWritten ==
  ASSUME NEW row \in ItemRow, NEW unlocked \in BOOLEAN
  PROVE  [row EXCEPT !.is_unlocked_selection = unlocked] \in ItemRow
  BY DEF ItemRow

LEMMA SelectingTyped ==
  ASSUME NEW rows \in Rows, NEW chosen
  PROVE  Selecting(rows, chosen) \in Rows
<1>1. ASSUME NEW i \in Item
      PROVE  [rows[i] EXCEPT !.is_unlocked_selection = i \in chosen] \in ItemRow
  <2>1. (i \in chosen) \in BOOLEAN /\ rows[i] \in ItemRow
    BY DEF Rows
  <2> QED BY <2>1, ChoiceWritten
<1> QED BY <1>1 DEF Selecting, Rows

LEMMA PromotedTyped ==
  ASSUME TypeOK, NEW P
  PROVE  Promoted(P) \in Rows
<1>1. ASSUME NEW i \in Item
      PROVE  [item[i] EXCEPT !.entitlement_status = "consumed",
                             !.reservation_lease_token = None,
                             !.lease_live = FALSE] \in ItemRow
  <2>1. item[i] \in ItemRow
    BY DEF TypeOK
  <2> QED BY <2>1 DEF ItemRow, Status
<1> QED BY <1>1 DEF Promoted, TypeOK, Rows

LEMMA PromotionsInItem ==
  ASSUME NEW kept \in Keeps, NEW fill \in Fills(kept), NEW P \in Promotions(kept, fill)
  PROVE  P \in SUBSET Item
  BY DEF Keeps, Fills, Promotions, Take, kSubset, CurrentValidSelection,
         FallbackCandidates, Owned, Consumed

LEMMA FinalizeLockTyped ==
  ASSUME TypeOK, NEW r \in Request, FinalizeLockSelection(r)
  PROVE  item' \in Rows /\ user' \in UserRow /\ request' \in Sessions
<1>1. PICK kept \in Keeps : \E fill \in Fills(kept) :
        \E promoted \in Promotions(kept, fill) :
        \E extra \in TopUps(kept \cup fill, promoted) :
          /\ item' = Selecting(Promoted(promoted),
                               Consumed(kept \cup fill) \cup promoted \cup extra)
          /\ user' = [user EXCEPT !.successful_sources_total = @ + Cardinality(promoted),
                                  !.lock = "settled"]
  BY DEF FinalizeLockSelection
<1>2. PICK fill \in Fills(kept) :
        \E promoted \in Promotions(kept, fill) :
        \E extra \in TopUps(kept \cup fill, promoted) :
          /\ item' = Selecting(Promoted(promoted),
                               Consumed(kept \cup fill) \cup promoted \cup extra)
          /\ user' = [user EXCEPT !.successful_sources_total = @ + Cardinality(promoted),
                                  !.lock = "settled"]
  BY <1>1
<1>3. PICK promoted \in Promotions(kept, fill) :
        \E extra \in TopUps(kept \cup fill, promoted) :
          /\ item' = Selecting(Promoted(promoted),
                               Consumed(kept \cup fill) \cup promoted \cup extra)
          /\ user' = [user EXCEPT !.successful_sources_total = @ + Cardinality(promoted),
                                  !.lock = "settled"]
  BY <1>2
<1>4. item' \in Rows
  BY <1>3, PromotedTyped, SelectingTyped
<1>5. user' \in UserRow
  <2>1. Cardinality(promoted) \in Nat
    BY PromotionsInItem, SourceSetsFinite
  <2>2. user \in UserRow
    BY DEF TypeOK
  <2>3. user.successful_sources_total + Cardinality(promoted) \in Nat
    BY <2>1, <2>2 DEF UserRow
  <2> QED BY <1>3, <2>2, <2>3 DEF UserRow
<1>6. request' \in Sessions
  BY RequestMoves DEF FinalizeLockSelection
<1> QED BY <1>4, <1>5, <1>6

LEMMA SelectionTyped ==
  ASSUME TypeOK, NEW r \in Request,
         \/ SetFreeSelection(r)
         \/ ClearSelection(r)
         \/ SetExplicitSelection(r)
         \/ AbortSelection(r)
  PROVE  item' \in Rows /\ user' \in UserRow /\ request' \in Sessions
<1>0. item \in Rows /\ user \in UserRow
  BY DEF TypeOK, Rows
<1>1. CASE SetFreeSelection(r)
  <2>1. PICK chosen \in SUBSET FallbackCandidates :
          request' = [request EXCEPT ![r].pc = "select", ![r].chosen = chosen]
    BY <1>1 DEF SetFreeSelection
  <2> DEFINE s == [request[r] EXCEPT !.pc = "select", !.chosen = chosen]
  <2>2. chosen \in SUBSET Item
    BY DEF FallbackCandidates, Owned
  <2>3. s \in RequestState
    BY <2>2 DEF TypeOK, RequestState
  <2>4. request' = [request EXCEPT ![r] = s]
    BY <2>1 DEF TypeOK
  <2> HIDE DEF s
  <2> QED BY <1>0, <1>1, <2>3, <2>4, SessionWritten DEF SetFreeSelection
<1>2. CASE ClearSelection(r)
  <2> DEFINE s == [request[r] EXCEPT !.pc = "apply", !.cleared = UnlockedRows]
  <2>1. UnlockedRows \in SUBSET Item
    BY DEF UnlockedRows, Owned
  <2>2. s \in RequestState
    BY <2>1 DEF TypeOK, RequestState
  <2>3. request' = [request EXCEPT ![r] = s]
    BY <1>2 DEF ClearSelection, TypeOK
  <2> HIDE DEF s
  <2> QED BY <1>0, <1>2, <2>2, <2>3, SessionWritten DEF ClearSelection
<1>3. CASE SetExplicitSelection(r)
  <2>1. ASSUME NEW i \in Item
        PROVE  [item[i] EXCEPT !.is_unlocked_selection = i \in request[r].chosen] \in ItemRow
    <3>1. (i \in request[r].chosen) \in BOOLEAN /\ item[i] \in ItemRow
      BY DEF TypeOK
    <3> QED BY <3>1, ChoiceWritten
  <2>2. item' \in Rows
    BY <1>0, <1>3, <2>1 DEF SetExplicitSelection, Rows
  <2> QED BY <1>0, <1>3, <2>2, RequestMoves DEF SetExplicitSelection
<1>4. CASE AbortSelection(r)
  BY <1>0, <1>4, RequestMoves DEF AbortSelection
<1> QED BY <1>1, <1>2, <1>3, <1>4

LEMMA RequestStepTyped ==
  ASSUME TypeOK, NEW r \in Request, RequestStep(r)
  PROVE  item' \in Rows /\ user' \in UserRow /\ request' \in Sessions
<1>1. CASE Reconcile(r)
  BY <1>1, RequestMoves DEF Reconcile, TypeOK, Rows
<1>2. CASE StampPremium(r)
  <2> DEFINE lock == IF user.lock = "never" THEN user.lock ELSE "premium"
  <2>1. lock \in {"never", "settled", "retokened", "premium"}
    OBVIOUS
  <2>2. user' = [user EXCEPT !.lock = lock] /\ user \in UserRow
    BY <1>2 DEF StampPremium, TypeOK
  <2> HIDE DEF lock
  <2>3. user' \in UserRow
    BY <2>1, <2>2 DEF UserRow
  <2> QED BY <1>2, <2>3, RequestMoves DEF StampPremium, TypeOK, Rows
<1> QED BY <1>1, <1>2, FinalizeLockTyped, SelectionTyped DEF RequestStep

LEMMA TierTyped ==
  ASSUME TypeOK, PremiumStarts \/ PremiumEnds
  PROVE  item' \in Rows /\ user' \in UserRow /\ request' \in Sessions
<1>1. user \in UserRow
  BY DEF TypeOK
<1>2. \E premium \in BOOLEAN, lock \in {"never", "settled", "retokened", "premium"} :
        user' = [user EXCEPT !.effective_premium = premium, !.lock = lock]
  <2>1. CASE PremiumStarts
    <3> DEFINE lock == IF user.lock = "settled" THEN "retokened" ELSE user.lock
    <3>1. lock \in {"never", "settled", "retokened", "premium"}
      BY <1>1 DEF UserRow
    <3>2. user' = [user EXCEPT !.effective_premium = TRUE, !.lock = lock]
      BY <2>1 DEF PremiumStarts
    <3> HIDE DEF lock
    <3> QED BY <3>1, <3>2
  <2>2. CASE PremiumEnds
    <3>1. PICK lock \in {user.lock} \cup (IF user.lock \in {"settled", "retokened"}
                                        THEN {"settled", "retokened"} ELSE {}) :
            user' = [user EXCEPT !.effective_premium = FALSE, !.lock = lock]
      BY <2>2 DEF PremiumEnds
    <3>2. lock \in {"never", "settled", "retokened", "premium"}
      BY <1>1, <3>1 DEF UserRow
    <3> QED BY <3>1, <3>2
  <2> QED BY <2>1, <2>2
<1>3. user' \in UserRow
  BY <1>1, <1>2 DEF UserRow
<1> QED BY <1>3 DEF PremiumStarts, PremiumEnds, TypeOK, Rows, Sessions

LEMMA BackfilledTyped ==
  ASSUME TypeOK, NEW chosen
  PROVE  Backfilled(chosen) \in Rows
<1>1. \A i \in Item, s \in Status : [item[i] EXCEPT !.entitlement_status = s] \in ItemRow
  BY DEF TypeOK, ItemRow
<1>2. \A i \in Item : item[i].entitlement_status \in Status
  BY DEF TypeOK, ItemRow
<1> DEFINE s(i) == IF i \in chosen THEN "consumed"
                   ELSE IF i \in Owned /\ item[i].processed THEN "grandfathered"
                   ELSE item[i].entitlement_status
<1>3. \A i \in Item : s(i) \in Status
  BY <1>2 DEF Status
<1>4. Backfilled(chosen) = [i \in Item |-> [item[i] EXCEPT !.entitlement_status = s(i)]]
  BY DEF Backfilled
<1> HIDE DEF s
<1> QED BY <1>1, <1>3, <1>4 DEF Rows

LEMMA BackfillTyped ==
  ASSUME TypeOK, BackfillOne
  PROVE  item' \in Rows /\ user' \in UserRow
<1>1. PICK chosen \in Take(FreeLimit, FallbackCandidates) :
        /\ item' = Selecting(Backfilled(chosen), chosen)
        /\ user' = [user EXCEPT
             !.successful_sources_total = Cardinality(chosen),
             !.reserved_sources_count = 0,
             !.lock = IF user.effective_premium THEN "premium" ELSE "settled"]
  BY DEF BackfillOne
<1>2. chosen \in SUBSET Item
  BY DEF Take, kSubset, FallbackCandidates, Owned
<1>3. Backfilled(chosen) \in Rows
  BY BackfilledTyped
<1>4. user' \in UserRow
  <2> DEFINE stamp == IF user.effective_premium THEN "premium" ELSE "settled"
             n == Cardinality(chosen)
             counted == [user EXCEPT !.successful_sources_total = n,
                                     !.reserved_sources_count = 0]
  <2>1. n \in Nat /\ stamp \in {"never", "settled", "retokened", "premium"}
    BY <1>2, SourceSetsFinite
  <2>2. user' = [counted EXCEPT !.lock = stamp]
    BY <1>1
  <2> HIDE DEF stamp, n
  <2>3. counted \in UserRow
    <3>1. user \in UserRow /\ 0 \in Int
      BY DEF TypeOK
    <3> QED BY <2>1, <3>1 DEF UserRow
  <2> HIDE DEF counted
  <2> QED BY <2>1, <2>2, <2>3 DEF UserRow
<1> QED BY <1>1, <1>3, <1>4, SelectingTyped

-----------------------------------------------------------------------------
(* The type invariant. *)

LEMMA RemembersTyped ==
  ASSUME TypeOK, NEW backfills \in BOOLEAN, Remembers(backfills)
  PROVE  history' \in HistoryState
<1> DEFINE now == {i \in Item : item'[i].entitlement_status = "consumed"}
           exempted == history.exempt \/ user'.effective_premium \/ user'.lock # "settled"
           refilled == history.backfilled \/ backfills
<1>1. exempted \in BOOLEAN /\ refilled \in BOOLEAN /\ now \in SUBSET Item
  OBVIOUS
<1>2. history' = [history EXCEPT !.counted = @ \cup now, !.exempt = exempted,
                                 !.backfilled = refilled]
  BY DEF Remembers
<1> HIDE DEF now, exempted, refilled
<1>3. history \in HistoryState
  BY DEF TypeOK
<1> QED BY <1>1, <1>2, <1>3 DEF HistoryState

LEMMA DeathTyped ==
  ASSUME ProcessDies
  PROVE  worker' \in Slots /\ request' \in Sessions
  BY IdleTyped DEF ProcessDies, Slots, Sessions, IdleRequest, RequestState

LEMMA StepTyped ==
  ASSUME TypeOK, Step
  PROVE  item' \in Rows /\ user' \in UserRow /\ worker' \in Slots /\ request' \in Sessions
<1>0. /\ item \in Rows
      /\ user \in UserRow
      /\ worker \in Slots
      /\ request \in Sessions
  BY DEF TypeOK, Rows, Slots, Sessions
<1>1. CASE \E w \in Worker : Works(w)
  BY <1>0, <1>1, WorkerStepTyped DEF Works
<1>2. CASE \E i \in Item, w \in Worker : Uploads(i, w) \/ StartsOcr(i, w)
  BY <1>0, <1>2, StartTyped DEF Uploads, StartsOcr
<1>3. CASE \E r \in Request : Selects(r)
  BY <1>0, <1>3, RequestStepTyped DEF Selects
<1>4. CASE ChangesTier
  BY <1>0, <1>4, TierTyped DEF ChangesTier
<1>5. CASE \E i \in Item : Deletes(i) \/ RetriesDeletion(i) \/ TimePasses(i)
  BY <1>0, <1>5, DeleteTyped, CleanupTyped, TimeTyped
     DEF Deletes, RetriesDeletion, TimePasses, FinishItemDeletionCleanup, RetryItemDeletions
<1>6. CASE Reaps
  BY <1>0, <1>6, ReapAllTyped DEF Reaps
<1>7. CASE Restart
  BY <1>0, <1>7, DeathTyped DEF Restart
<1> QED BY <1>1, <1>2, <1>3, <1>4, <1>5, <1>6, <1>7 DEF Step

LEMMA NextTyped ==
  ASSUME TypeOK, [Next]_vars
  PROVE  TypeOK'
<1>1. CASE UNCHANGED vars
  BY <1>1 DEF vars, TypeOK
<1>2. CASE Step /\ Remembers(FALSE)
  BY <1>2, StepTyped, RemembersTyped DEF TypeOK, Rows, Slots, Sessions
<1>3. CASE RestartBackfills /\ Remembers(TRUE)
  BY <1>3, DeathTyped, BackfillTyped, RemembersTyped
     DEF RestartBackfills, TypeOK, Rows, Slots, Sessions
<1> QED BY <1>1, <1>2, <1>3 DEF Next

LEMMA InitTyped ==
  ASSUME Init
  PROVE  TypeOK
<1>1. PICK premium \in Trials, total \in CarriedTotals :
        /\ user = [effective_premium |-> premium,
                   successful_sources_total |-> total,
                   reserved_sources_count |-> 0,
                   lock |-> IF premium THEN "never" ELSE "settled"]
        /\ history = [carried |-> total, counted |-> {},
                      exempt |-> premium, backfilled |-> FALSE]
  BY DEF Init
<1>2. premium \in BOOLEAN /\ total \in Nat
  BY TrialsAssumption, CarriedTotalsAssumption
<1>3. user \in UserRow /\ history \in HistoryState
  <2> DEFINE stamp == IF premium THEN "never" ELSE "settled"
  <2>1. stamp \in {"never", "settled", "retokened", "premium"}
    OBVIOUS
  <2>2. user = [effective_premium |-> premium, successful_sources_total |-> total,
                reserved_sources_count |-> 0, lock |-> stamp]
    BY <1>1
  <2> HIDE DEF stamp
  <2> QED BY <1>1, <1>2, <2>1, <2>2 DEF UserRow, HistoryState
<1>4. item \in Rows
  BY BlankTyped DEF Init, Rows
<1>5. worker \in Slots /\ request \in Sessions
  BY IdleTyped DEF Init, Slots, Sessions, IdleRequest, RequestState
<1> QED BY <1>3, <1>4, <1>5 DEF TypeOK, Rows, Slots, Sessions

\* Every row, program counter and counter stays in its type, whatever the
\* workers, requests, deletions, crashes and passes of the scheduler do; in
\* particular successful_sources_total never becomes negative.
THEOREM TypeCorrect == Spec => []TypeOK
<1>1. Init => TypeOK
  BY InitTyped
<1>2. TypeOK /\ [Next]_vars => TypeOK'
  BY NextTyped
<1> QED BY <1>1, <1>2, PTL DEF Spec

-----------------------------------------------------------------------------
(* Of all the workers ever admitted for a source, one owns it.  The proof   *)
(* sorts the steps by what they do to the two things the property relates,  *)
(* the attempt id on a row and the attempt ids workers hold.  An admission  *)
(* mints one id and gives it to both; any other step gives neither an id    *)
(* that the other has, so it cannot make a second owner.                    *)

\* A row's attempt id stays, goes, or becomes one no worker on it holds.
IdsFresh ==
  \A i \in Item :
    \/ item'[i].last_processing_attempt_id \in {item[i].last_processing_attempt_id, None}
    \/ item'[i].last_processing_attempt_id \notin TokensInUse(i)

\* A worker keeps its attempt id, and the source it is for, or drops it.
HandsKept ==
  \A w \in Worker :
    \/ worker'[w].attempt_token = None
    \/ /\ worker'[w].attempt_token = worker[w].attempt_token
       /\ worker'[w].item = worker[w].item

\* Worker w and the row of its source i get the same new id, nobody else any.
Admits(w, i) ==
  \E t \in Token \ TokensInUse(i) :
    /\ i \in Item
    /\ worker[w].item = i
    /\ worker'[w].item = i
    /\ worker'[w].attempt_token = t
    /\ \A v \in Worker \ {w} : worker'[v] = worker[v]
    /\ \A j \in Item : item'[j].last_processing_attempt_id =
         IF j = i THEN t ELSE item[j].last_processing_attempt_id

Admission == \E w \in Worker, i \in Item : Admits(w, i)

\* Without a source there is no attempt: ids are only compared on rows.
Attended == \A w \in Worker : worker[w].attempt_token # None => worker[w].item \in Item

OwnersInv == TypeOK /\ Attended /\ AtMostOneOwner

-----------------------------------------------------------------------------
(* The two kinds of steps keep the invariant. *)

LEMMA HeldInUse ==
  ASSUME NEW w \in Worker
  PROVE  worker[w].attempt_token \in TokensInUse(worker[w].item)
  BY DEF TokensInUse

LEMMA OthersKeepOwner ==
  ASSUME OwnersInv, IdsFresh, HandsKept
  PROVE  Attended' /\ AtMostOneOwner'
<1>1. ASSUME NEW w \in Worker, worker'[w].attempt_token # None
      PROVE  /\ worker'[w].attempt_token = worker[w].attempt_token
             /\ worker'[w].item = worker[w].item
             /\ worker[w].item \in Item
  BY <1>1 DEF OwnersInv, HandsKept, Attended
<1>2. ASSUME NEW w \in Worker, CurrentAttempt(w)'
      PROVE  CurrentAttempt(w) /\ worker'[w].item = worker[w].item
  <2> DEFINE i == worker[w].item
             id == item'[i].last_processing_attempt_id
  <2>1. /\ id = worker[w].attempt_token
        /\ id # None
        /\ worker'[w].item = i
        /\ i \in Item
    BY <1>1, <1>2 DEF CurrentAttempt
  <2>2. id \in TokensInUse(i)
    BY <2>1, HeldInUse
  <2>3. id = item[i].last_processing_attempt_id
    BY <2>1, <2>2 DEF IdsFresh
  <2> QED BY <2>1, <2>3 DEF CurrentAttempt
<1>3. Attended'
  BY <1>1 DEF Attended
<1>4. AtMostOneOwner'
  BY <1>2 DEF OwnersInv, AtMostOneOwner
<1> QED BY <1>3, <1>4

LEMMA AdmissionKeepsOwner ==
  ASSUME OwnersInv, NEW w \in Worker, NEW i \in Item, Admits(w, i)
  PROVE  Attended' /\ AtMostOneOwner'
<1>1. PICK t \in Token \ TokensInUse(i) :
        /\ worker[w].item = i
        /\ worker'[w].item = i
        /\ worker'[w].attempt_token = t
        /\ \A v \in Worker \ {w} : worker'[v] = worker[v]
        /\ \A j \in Item : item'[j].last_processing_attempt_id =
             IF j = i THEN t ELSE item[j].last_processing_attempt_id
  BY DEF Admits
<1>2. Attended'
  BY <1>1 DEF OwnersInv, Attended
<1>3. ASSUME NEW v \in Worker \ {w}, CurrentAttempt(v)'
      PROVE  CurrentAttempt(v) /\ worker'[v].item = worker[v].item /\ worker[v].item # i
  <2>1. worker'[v] = worker[v] /\ worker[v].item \in Item
    BY <1>1, <1>2, <1>3 DEF Attended, CurrentAttempt
  <2>2. worker[v].item # i
    <3>1. SUFFICES ASSUME worker[v].item = i PROVE FALSE
      OBVIOUS
    <3>2. worker[v].attempt_token = t
      BY <1>1, <1>3, <2>1, <3>1 DEF CurrentAttempt
    <3> QED BY <3>1, <3>2, HeldInUse
  <2> QED BY <1>1, <1>3, <2>1, <2>2 DEF CurrentAttempt
<1>4. AtMostOneOwner'
  <2>1. SUFFICES ASSUME NEW u \in Worker, NEW v \in Worker,
                        CurrentAttempt(u)', CurrentAttempt(v)',
                        worker'[u].item = worker'[v].item
                 PROVE  u = v
    BY DEF AtMostOneOwner
  <2>2. CASE u # w /\ v # w
    BY <1>3, <2>1, <2>2 DEF OwnersInv, AtMostOneOwner
  <2>3. CASE u = w \/ v = w
    BY <1>1, <1>3, <2>1, <2>3
  <2> QED BY <2>2, <2>3
<1> QED BY <1>2, <1>4

-----------------------------------------------------------------------------
(* What the transactions do to the attempt id on a row. *)

IdsKept ==
  \A i \in Item :
    item'[i].last_processing_attempt_id = item[i].last_processing_attempt_id

LEMMA KeptAreFresh == IdsKept => IdsFresh
  BY DEF IdsKept, IdsFresh

LEMMA ReapKeepsIds ==
  ASSUME TypeOK, NEW i \in Item
  PROVE  ReapedRows[i].last_processing_attempt_id = item[i].last_processing_attempt_id
  BY DEF TypeOK, ItemRow, ReapedRows

LEMMA GrantIds ==
  ASSUME TypeOK, NEW i \in Item, NEW t \in Token \ TokensInUse(i),
         GrantPremium(i, t) \/ GrantSlot(i, t)
  PROVE  IdsFresh
<1> DEFINE rows == ReapedRows
<1>1. rows \in Rows
  BY ReapTyped
<1>2. \A j \in Item : rows[j].last_processing_attempt_id = item[j].last_processing_attempt_id
  BY ReapKeepsIds
<1>3. \/ item' = [rows EXCEPT ![i].entitlement_status = "premium",
                              ![i].reservation_lease_token = None,
                              ![i].lease_live = FALSE,
                              ![i].last_processing_attempt_id = t]
      \/ item' = [rows EXCEPT ![i].entitlement_status = "pending",
                              ![i].reservation_lease_token = t,
                              ![i].lease_live = TRUE,
                              ![i].last_processing_attempt_id = t]
  BY DEF GrantPremium, GrantSlot
<1> HIDE DEF rows
<1>4. item'[i].last_processing_attempt_id = t
  BY <1>1, <1>3 DEF Rows, ItemRow
<1>5. \A j \in Item \ {i} : item'[j] = rows[j]
  BY <1>1, <1>3 DEF Rows
<1> QED BY <1>2, <1>4, <1>5 DEF IdsFresh

LEMMA RefuseIds ==
  ASSUME TypeOK, NEW i \in Item, RefuseSlot(i)
  PROVE  IdsKept
<1> DEFINE rows == ReapedRows
<1>1. rows \in Rows
  BY ReapTyped
<1>2. \A j \in Item : rows[j].last_processing_attempt_id = item[j].last_processing_attempt_id
  BY ReapKeepsIds
<1>3. item' = [rows EXCEPT ![i].entitlement_status = "rejected"]
  BY DEF RefuseSlot
<1> HIDE DEF rows
<1> QED BY <1>1, <1>2, <1>3 DEF Rows, ItemRow, IdsKept

LEMMA ReleaseIds ==
  ASSUME TypeOK, NEW i \in Item, NEW lease, ReleaseReservation(i, lease)
  PROVE  IdsKept
  BY DEF TypeOK, ItemRow, ReleaseReservation, IdsKept

LEMMA ConvertIds ==
  ASSUME TypeOK, NEW i \in Item, Convert(i)
  PROVE  IdsKept
<1> DEFINE room == AutoUnlocks
<1>1. \/ item' = [item EXCEPT ![i].processed = TRUE,
                              ![i].reservation_lease_token = None,
                              ![i].lease_live = FALSE,
                              ![i].entitlement_status = "consumed",
                              ![i].is_unlocked_selection = @ \/ room]
      \/ item' = [item EXCEPT ![i].processed = TRUE,
                              ![i].reservation_lease_token = None,
                              ![i].lease_live = FALSE,
                              ![i].entitlement_status = "premium"]
  BY DEF Convert, ConvertPending, ConvertExempt
<1> HIDE DEF room
<1> QED BY <1>1 DEF TypeOK, ItemRow, IdsKept

LEMMA BlankIds ==
  ASSUME TypeOK, NEW i \in Item, NEW row, item' = [item EXCEPT ![i] = BlankRow(row)]
  PROVE  IdsFresh
  BY DEF TypeOK, BlankRow, IdsFresh

LEMMA DeletionIds ==
  ASSUME TypeOK, NEW i \in Item,
         DeleteLibraryItem(i) \/ CleanupSucceeds(i) \/ CleanupFails(i)
  PROVE  IdsFresh
<1>1. CASE CleanupSucceeds(i)
  BY <1>1, BlankIds DEF CleanupSucceeds
<1>2. CASE DeleteLibraryItem(i) \/ CleanupFails(i)
  <2>1. IdsKept
    BY <1>2 DEF DeleteLibraryItem, CleanupFails, TypeOK, ItemRow, IdsKept
  <2> QED BY <2>1, KeptAreFresh
<1> QED BY <1>1, <1>2

LEMMA TimeIds ==
  ASSUME TypeOK, NEW i \in Item, LeaseExpires(i) \/ AttemptExpires(i)
  PROVE  IdsKept
  BY DEF LeaseExpires, AttemptExpires, TypeOK, ItemRow, IdsKept

LEMMA SelectingKeepsIds ==
  ASSUME NEW rows \in Rows, NEW chosen, NEW i \in Item
  PROVE  Selecting(rows, chosen)[i].last_processing_attempt_id =
           rows[i].last_processing_attempt_id
  BY DEF Selecting, Rows, ItemRow

LEMMA PromotedKeepsIds ==
  ASSUME TypeOK, NEW P, NEW i \in Item
  PROVE  Promoted(P)[i].last_processing_attempt_id = item[i].last_processing_attempt_id
  BY DEF Promoted, TypeOK, ItemRow

LEMMA SelectionIds ==
  ASSUME TypeOK, NEW r \in Request, RequestStep(r)
  PROVE  IdsKept
<1>1. CASE FinalizeLockSelection(r)
  <2>1. \E P, chosen : item' = Selecting(Promoted(P), chosen)
    BY <1>1 DEF FinalizeLockSelection
  <2> QED BY <2>1, PromotedTyped, PromotedKeepsIds, SelectingKeepsIds DEF IdsKept
<1>2. CASE SetExplicitSelection(r)
  BY <1>2 DEF SetExplicitSelection, TypeOK, ItemRow, IdsKept
<1>3. CASE UNCHANGED item
  BY <1>3 DEF IdsKept
<1> QED BY <1>1, <1>2, <1>3
        DEF RequestStep, Reconcile, StampPremium, SetFreeSelection, ClearSelection,
            AbortSelection

LEMMA BackfillIds ==
  ASSUME TypeOK, BackfillOne
  PROVE  IdsKept
<1>1. PICK chosen : item' = Selecting(Backfilled(chosen), chosen)
  BY DEF BackfillOne
<1>2. \A i \in Item : Backfilled(chosen)[i].last_processing_attempt_id =
                        item[i].last_processing_attempt_id
  BY DEF Backfilled, TypeOK, ItemRow
<1>3. Backfilled(chosen) \in Rows
  BY BackfilledTyped
<1> QED BY <1>1, <1>2, <1>3, SelectingKeepsIds DEF IdsKept

-----------------------------------------------------------------------------
(* What the workers' steps do to the attempt ids they hold. *)

\* A worker that goes on, or ends, mints no id for itself.
LEMMA MovesKeepHands ==
  ASSUME TypeOK, NEW w \in Worker, NEW label,
         Goto(w, label) \/ Leave(w) \/ Finish(w)
  PROVE  HandsKept
  BY DEF TypeOK, WorkerState, Goto, Leave, Finish, Idle, HandsKept

LEMMA LeaseKeepsHands ==
  ASSUME TypeOK, NEW w \in Worker, NEW label, NEW lease,
         worker' = [worker EXCEPT ![w].pc = label, ![w].lease_token = lease]
  PROVE  HandsKept
  BY DEF TypeOK, WorkerState, HandsKept

LEMMA StartKeepsHands ==
  ASSUME TypeOK, NEW i \in Item, NEW w \in Worker, CreateItem(i, w) \/ StartOcr(i, w)
  PROVE  HandsKept
  BY DEF TypeOK, WorkerState, CreateItem, StartOcr, Idle, HandsKept

LEMMA DeathKeepsHands ==
  ASSUME ProcessDies
  PROVE  HandsKept
  BY DEF ProcessDies, Idle, HandsKept

Kept == IdsFresh /\ HandsKept

LEMMA AdmitOwner ==
  ASSUME TypeOK, NEW w \in Worker, NEW lease, AdmitWorkerAttempt(w, lease)
  PROVE  Kept \/ Admission
<1> DEFINE i == worker[w].item
           t == NewToken(i)
<1>1. CASE RefuseAdmission(w)
  <2>1. IdsKept
    BY <1>1 DEF RefuseAdmission, IdsKept
  <2> QED BY <1>1, <2>1, MovesKeepHands, KeptAreFresh DEF RefuseAdmission, Kept
<1>2. CASE AdmitAttempt(w, lease) \/ AdmitOcrAttempt(w)
  <2>1. /\ i \in Item
        /\ t \in Token \ TokensInUse(i)
        /\ item' = [item EXCEPT ![i].worker_attempt_id = t,
                                ![i].attempt_live = TRUE,
                                ![i].last_processing_attempt_id = t]
    BY <1>2 DEF AdmitAttempt, AdmitOcrAttempt, Admissible, Owned, MintsFresh
  <2>2. \/ worker' = [worker EXCEPT ![w].pc = "work",
                                    ![w].lease_token = lease,
                                    ![w].attempt_token = t]
        \/ worker' = [worker EXCEPT ![w].pc = "begin", ![w].attempt_token = t]
    BY <1>2 DEF AdmitAttempt, AdmitOcrAttempt
  <2> HIDE DEF t
  <2>3. /\ worker'[w].item = i
        /\ worker'[w].attempt_token = t
        /\ \A v \in Worker \ {w} : worker'[v] = worker[v]
    BY <2>2 DEF TypeOK, WorkerState
  <2> HIDE DEF i
  <2>4. \A j \in Item : item'[j].last_processing_attempt_id =
          IF j = i THEN t ELSE item[j].last_processing_attempt_id
    BY <2>1 DEF TypeOK, ItemRow
  <2>5. worker[w].item = i
    BY DEF i
  <2> QED BY <2>1, <2>3, <2>4, <2>5 DEF Admits, Admission
<1> QED BY <1>1, <1>2 DEF AdmitWorkerAttempt

LEMMA ReserveOwner ==
  ASSUME TypeOK, NEW w \in Worker, Reserve(w)
  PROVE  Kept \/ Admission
<1> DEFINE i == worker[w].item
           t == NewToken(i)
<1>1. CASE ReserveMissing(w)
  <2>1. IdsKept
    BY <1>1 DEF ReserveMissing, IdsKept
  <2> QED BY <1>1, <2>1, MovesKeepHands, KeptAreFresh DEF ReserveMissing, Kept
<1>2. CASE ReserveActive(w)
  BY <1>2, AdmitOwner DEF ReserveActive
<1>3. CASE ReserveNew(w)
  <2>1. i \in Item /\ t \in Token \ TokensInUse(i)
    BY <1>3 DEF ReserveNew, Owned, MintsFresh
  <2>2. CASE GrantPremium(i, t) /\ Goto(w, "admit")
    BY <2>1, <2>2, GrantIds, MovesKeepHands DEF Kept
  <2>3. CASE RefuseSlot(i) /\ Finish(w)
    BY <2>1, <2>3, RefuseIds, KeptAreFresh, MovesKeepHands DEF Kept
  <2>4. CASE GrantSlot(i, t) /\
             worker' = [worker EXCEPT
                 ![w].pc = "admit",
                 ![w].lease_token = IF worker[w].kind = "ocr" THEN None ELSE t]
    <3>1. HandsKept
      BY <2>4, LeaseKeepsHands
    <3> QED BY <2>1, <2>4, <3>1, GrantIds DEF Kept
  <2> QED BY <1>3, <2>2, <2>3, <2>4 DEF ReserveNew
<1> QED BY <1>1, <1>2, <1>3 DEF Reserve

LEMMA RenewKeepsIds ==
  ASSUME TypeOK, NEW w \in Worker, item' = RenewedRows(w)
  PROVE  IdsKept
<1> DEFINE attempt == RenewsAttempt(w)
           lease == worker[w].lease_token # None /\ RenewsLease(w)
           i == worker[w].item
<1>1. item' = [item EXCEPT ![i].attempt_live = @ \/ attempt, ![i].lease_live = @ \/ lease]
  BY DEF RenewedRows
<1> HIDE DEF attempt, lease, i
<1> QED BY <1>1 DEF TypeOK, ItemRow, IdsKept

LEMMA WorkOwner ==
  ASSUME TypeOK, NEW w \in Worker,
         \/ Heartbeat(w)
         \/ BeginOcr(w)
         \/ PassLastCheck(w)
         \/ LoseOwnership(w)
         \/ ScanNeedsOcr(w)
         \/ WorkFails(w)
  PROVE  Kept
<1>1. IdsKept
  <2>1. CASE Heartbeat(w) \/ PassLastCheck(w) \/ LoseOwnership(w)
    <3>1. CASE item' = RenewedRows(w)
      BY <3>1, RenewKeepsIds
    <3>2. CASE UNCHANGED item
      BY <3>2 DEF IdsKept
    <3> QED BY <2>1, <3>1, <3>2 DEF Heartbeat, PassLastCheck, LoseOwnership
  <2>2. CASE ScanNeedsOcr(w)
    BY <2>2 DEF ScanNeedsOcr, TypeOK, ItemRow, IdsKept
  <2>3. CASE BeginOcr(w) \/ WorkFails(w)
    BY <2>3 DEF BeginOcr, WorkFails, IdsKept
  <2> QED BY <2>1, <2>2, <2>3
<1>2. HandsKept
  <2>1. CASE Heartbeat(w)
    BY <2>1 DEF Heartbeat, HandsKept
  <2>2. CASE BeginOcr(w)
    BY <2>2, MovesKeepHands, LeaseKeepsHands DEF BeginOcr
  <2>3. CASE PassLastCheck(w) \/ LoseOwnership(w) \/ ScanNeedsOcr(w) \/ WorkFails(w)
    BY <2>3, MovesKeepHands DEF PassLastCheck, LoseOwnership, ScanNeedsOcr, WorkFails
  <2> QED BY <2>1, <2>2, <2>3
<1> QED BY <1>1, <1>2, KeptAreFresh DEF Kept

LEMMA FinishOwner ==
  ASSUME TypeOK, NEW w \in Worker,
         \/ Finalize(w)
         \/ ConvertAfterReserve(w)
         \/ ReleaseAfterFailure(w)
         \/ ReleaseWorkerAttempt(w)
  PROVE  Kept
<1> DEFINE i == worker[w].item
           t == NewToken(i)
<1>1. CASE Finalize(w)
  <2>1. HandsKept
    BY <1>1, MovesKeepHands DEF Finalize, FinalizeAccepts, FinalizeReserves, FinalizeSkips
  <2>2. CASE UNCHANGED item
    BY <2>1, <2>2 DEF Kept, IdsFresh
  <2>3. CASE FinalizeAccepts(w)
    BY <2>1, <2>3, ConvertIds, KeptAreFresh DEF FinalizeAccepts, FinalizeRefused, Owned, Kept
  <2>4. CASE FinalizeReserves(w) /\ ~UNCHANGED item
    <3>1. i \in Item /\ t \in Token \ TokensInUse(i)
      BY <2>4 DEF FinalizeReserves, FinalizeRefused, Owned, MintsFresh
    <3>2. GrantPremium(i, t) \/ GrantSlot(i, t) \/ RefuseSlot(i)
      BY <2>4 DEF FinalizeReserves
    <3> QED BY <2>1, <3>1, <3>2, GrantIds, RefuseIds, KeptAreFresh DEF Kept
  <2> QED BY <1>1, <2>2, <2>3, <2>4 DEF Finalize, FinalizeSkips
<1>2. CASE ConvertAfterReserve(w)
  <2>1. HandsKept
    BY <1>2, MovesKeepHands DEF ConvertAfterReserve
  <2>2. IdsKept
    BY <1>2, ConvertIds DEF ConvertAfterReserve, Owned, IdsKept
  <2> QED BY <2>1, <2>2, KeptAreFresh DEF Kept
<1>3. CASE ReleaseAfterFailure(w)
  <2>1. HandsKept
    BY <1>3, MovesKeepHands DEF ReleaseAfterFailure
  <2>2. CASE ReleaseReservation(i, worker[w].lease_token)
    <3>1. i \in Item
      BY <2>2 DEF ReleaseReservation, MayRelease, Pending, Owned
    <3> QED BY <2>1, <2>2, <3>1, ReleaseIds, KeptAreFresh DEF Kept
  <2>3. CASE UNCHANGED item
    BY <2>1, <2>3 DEF Kept, IdsFresh
  <2> QED BY <1>3, <2>2, <2>3 DEF ReleaseAfterFailure
<1>4. CASE ReleaseWorkerAttempt(w)
  <2>1. HandsKept
    BY <1>4, MovesKeepHands DEF ReleaseWorkerAttempt
  <2>2. IdsKept
    BY <1>4 DEF ReleaseWorkerAttempt, TypeOK, ItemRow, IdsKept
  <2> QED BY <2>1, <2>2, KeptAreFresh DEF Kept
<1> QED BY <1>1, <1>2, <1>3, <1>4

LEMMA WorkerOwner ==
  ASSUME TypeOK, NEW w \in Worker, WorkerStep(w)
  PROVE  Kept \/ Admission
  BY ReserveOwner, AdmitOwner, WorkOwner, FinishOwner DEF WorkerStep, Progress, Admit

-----------------------------------------------------------------------------
(* The invariant. *)

LEMMA StepOwner ==
  ASSUME TypeOK, Next
  PROVE  Kept \/ Admission
<1>0. UNCHANGED worker => HandsKept
  BY DEF HandsKept
<1>1. CASE \E w \in Worker : Works(w)
  BY <1>1, WorkerOwner DEF Works
<1>2. CASE \E i \in Item, w \in Worker : Uploads(i, w) \/ StartsOcr(i, w)
  <2>1. PICK i \in Item, w \in Worker : CreateItem(i, w) \/ StartOcr(i, w)
    BY <1>2 DEF Uploads, StartsOcr
  <2>2. IdsFresh
    <3>1. CASE CreateItem(i, w)
      BY <3>1, BlankIds DEF CreateItem
    <3>2. CASE StartOcr(i, w)
      BY <3>2 DEF StartOcr, IdsFresh
    <3> QED BY <2>1, <3>1, <3>2
  <2> QED BY <2>1, <2>2, StartKeepsHands DEF Kept
<1>3. CASE \E r \in Request : Selects(r)
  BY <1>0, <1>3, SelectionIds, KeptAreFresh DEF Selects, Kept
<1>4. CASE ChangesTier
  BY <1>0, <1>4 DEF ChangesTier, PremiumStarts, PremiumEnds, Kept, IdsFresh
<1>5. CASE \E i \in Item : Deletes(i) \/ RetriesDeletion(i) \/ TimePasses(i)
  BY <1>0, <1>5, DeletionIds, TimeIds, KeptAreFresh
     DEF Deletes, RetriesDeletion, TimePasses, FinishItemDeletionCleanup,
         RetryItemDeletions, Kept
<1>6. CASE Reaps
  <2>1. IdsKept
    BY <1>6, ReapKeepsIds DEF Reaps, ReapAllStaleReservations, IdsKept
  <2> QED BY <1>0, <1>6, <2>1, KeptAreFresh DEF Reaps, Kept
<1>7. CASE Restart
  BY <1>7, DeathKeepsHands DEF Restart, Kept, IdsFresh
<1>8. CASE RestartBackfills
  BY <1>8, DeathKeepsHands, BackfillIds, KeptAreFresh DEF RestartBackfills, Kept
<1> QED BY <1>1, <1>2, <1>3, <1>4, <1>5, <1>6, <1>7, <1>8 DEF Next, Step

LEMMA InitOwner ==
  ASSUME Init
  PROVE  OwnersInv
<1>1. \A w \in Worker : worker[w].attempt_token = None
  BY DEF Init, Idle
<1> QED BY <1>1, InitTyped DEF OwnersInv, Attended, AtMostOneOwner, CurrentAttempt

LEMMA NextOwner ==
  ASSUME OwnersInv, [Next]_vars
  PROVE  OwnersInv'
<1>0. TypeOK /\ TypeOK'
  BY NextTyped DEF OwnersInv
<1>1. CASE UNCHANGED vars
  <2>1. IdsFresh /\ HandsKept
    BY <1>1 DEF vars, IdsFresh, HandsKept
  <2> QED BY <1>0, <2>1, OthersKeepOwner DEF OwnersInv
<1>2. CASE Next
  BY <1>0, <1>2, StepOwner, OthersKeepOwner, AdmissionKeepsOwner
     DEF OwnersInv, Kept, Admission
<1> QED BY <1>1, <1>2

\* However many workers are started, crash, lose their lease or are overtaken
\* for a source, at most one still running holds the attempt id under which
\* finalize_successful_processing may count it: for any number of sources,
\* workers and requests, any limit and any mix of events.
THEOREM OneOwner == Spec => []AtMostOneOwner
<1>1. Init => OwnersInv
  BY InitOwner
<1>2. OwnersInv /\ [Next]_vars => OwnersInv'
  BY NextOwner
<1>3. OwnersInv => AtMostOneOwner
  BY DEF OwnersInv
<1> QED BY <1>1, <1>2, <1>3, PTL DEF Spec

-----------------------------------------------------------------------------
(* A live attempt ends with its own worker.  Its id is on no other worker   *)
(* of the same source, so nobody else's release can match it, and nothing   *)
(* but an admission, which a live attempt keeps out, writes another.        *)

HandsDistinct ==
  \A v, w \in Worker :
    /\ v # w
    /\ worker[v].item = worker[w].item
    /\ worker[v].attempt_token # None
    => worker[v].attempt_token # worker[w].attempt_token

HandsInv == OwnersInv /\ HandsDistinct

LEMMA HandsStayDistinct ==
  ASSUME HandsInv, Kept \/ Admission
  PROVE  HandsDistinct'
<1> SUFFICES ASSUME NEW v \in Worker, NEW w \in Worker, v # w,
                    worker'[v].item = worker'[w].item,
                    worker'[v].attempt_token # None,
                    worker'[v].attempt_token = worker'[w].attempt_token
             PROVE  FALSE
  BY DEF HandsDistinct
<1>1. CASE Kept
  BY <1>1 DEF Kept, HandsKept, HandsInv, HandsDistinct
<1>2. CASE Admission
  <2>1. PICK u \in Worker, i \in Item : Admits(u, i)
    BY <1>2 DEF Admission
  <2>2. PICK t \in Token \ TokensInUse(i) :
          /\ worker[u].item = i /\ worker'[u].item = i /\ worker'[u].attempt_token = t
          /\ \A x \in Worker \ {u} : worker'[x] = worker[x]
    BY <2>1 DEF Admits
  <2>3. ASSUME NEW x \in Worker, worker[x].item = i
        PROVE  worker[x].attempt_token # t
    BY <2>2, <2>3, HeldInUse
  <2>4. CASE v # u /\ w # u
    BY <2>2, <2>4 DEF HandsInv, HandsDistinct
  <2>5. CASE v = u
    BY <2>2, <2>3, <2>5
  <2>6. CASE w = u
    BY <2>2, <2>3, <2>6
  <2> QED BY <2>4, <2>5, <2>6
<1> QED BY <1>1, <1>2

\* Rows that stay keep the attempt id they have.
GuardsKept ==
  \A i \in Item : i \in Owned /\ i \in Owned' =>
    item'[i].worker_attempt_id = item[i].worker_attempt_id

LEMMA ReservingKeepsGuards ==
  ASSUME TypeOK, NEW i \in Item, NEW t,
         GrantPremium(i, t) \/ GrantSlot(i, t) \/ RefuseSlot(i)
  PROVE  GuardsKept
<1> DEFINE rows == ReapedRows
<1>1. rows \in Rows
  BY ReapTyped
<1>2. \A j \in Item : rows[j].worker_attempt_id = item[j].worker_attempt_id
  BY DEF TypeOK, ItemRow, ReapedRows
<1>3. \/ item' = [rows EXCEPT ![i].entitlement_status = "premium",
                              ![i].reservation_lease_token = None,
                              ![i].lease_live = FALSE,
                              ![i].last_processing_attempt_id = t]
      \/ item' = [rows EXCEPT ![i].entitlement_status = "pending",
                              ![i].reservation_lease_token = t,
                              ![i].lease_live = TRUE,
                              ![i].last_processing_attempt_id = t]
      \/ item' = [rows EXCEPT ![i].entitlement_status = "rejected"]
  BY DEF GrantPremium, GrantSlot, RefuseSlot
<1> HIDE DEF rows
<1> QED BY <1>1, <1>2, <1>3 DEF Rows, ItemRow, GuardsKept

LEMMA FinishingKeepsGuards ==
  ASSUME TypeOK, NEW i \in Item, NEW lease, Convert(i) \/ ReleaseReservation(i, lease)
  PROVE  GuardsKept
<1> DEFINE room == AutoUnlocks
<1>1. \/ item' = [item EXCEPT ![i].processed = TRUE,
                              ![i].reservation_lease_token = None,
                              ![i].lease_live = FALSE,
                              ![i].entitlement_status = "consumed",
                              ![i].is_unlocked_selection = @ \/ room]
      \/ item' = [item EXCEPT ![i].processed = TRUE,
                              ![i].reservation_lease_token = None,
                              ![i].lease_live = FALSE,
                              ![i].entitlement_status = "premium"]
      \/ item' = [item EXCEPT ![i].entitlement_status = "released",
                              ![i].reservation_lease_token = None,
                              ![i].lease_live = FALSE]
  BY DEF Convert, ConvertPending, ConvertExempt, ReleaseReservation
<1> HIDE DEF room
<1> QED BY <1>1 DEF TypeOK, ItemRow, GuardsKept

LEMMA OthersKeepGuards ==
  ASSUME TypeOK, NEW i \in Item,
         \/ DeleteLibraryItem(i)
         \/ CleanupSucceeds(i)
         \/ CleanupFails(i)
         \/ LeaseExpires(i)
         \/ AttemptExpires(i)
         \/ item[i].row = "absent" /\ item' = [item EXCEPT ![i] = BlankRow("present")]
         \/ \E processed : item' = [item EXCEPT ![i].processed = processed]
  PROVE  GuardsKept
<1>1. CASE CleanupSucceeds(i)
  BY <1>1 DEF CleanupSucceeds, BlankRow, TypeOK, Owned, GuardsKept
<1>2. CASE item[i].row = "absent" /\ item' = [item EXCEPT ![i] = BlankRow("present")]
  BY <1>2 DEF TypeOK, Owned, GuardsKept
<1>3. CASE \E processed : item' = [item EXCEPT ![i].processed = processed]
  BY <1>3 DEF TypeOK, ItemRow, GuardsKept
<1>4. CASE DeleteLibraryItem(i) \/ CleanupFails(i) \/ LeaseExpires(i) \/ AttemptExpires(i)
  BY <1>4 DEF DeleteLibraryItem, CleanupFails, LeaseExpires, AttemptExpires, TypeOK, ItemRow,
     GuardsKept
<1> QED BY <1>1, <1>2, <1>3, <1>4

LEMMA RenewingKeepsGuards ==
  ASSUME TypeOK, NEW w \in Worker, item' = RenewedRows(w)
  PROVE  GuardsKept
<1> DEFINE attempt == RenewsAttempt(w)
           lease == worker[w].lease_token # None /\ RenewsLease(w)
           i == worker[w].item
<1>1. item' = [item EXCEPT ![i].attempt_live = @ \/ attempt, ![i].lease_live = @ \/ lease]
  BY DEF RenewedRows
<1> HIDE DEF attempt, lease, i
<1> QED BY <1>1 DEF TypeOK, ItemRow, GuardsKept

LEMMA SelectionKeepsGuards ==
  ASSUME TypeOK, NEW r \in Request, RequestStep(r)
  PROVE  GuardsKept
<1>1. CASE FinalizeLockSelection(r)
  <2>1. PICK P, chosen : item' = Selecting(Promoted(P), chosen)
    BY <1>1 DEF FinalizeLockSelection
  <2>2. Promoted(P) \in Rows
    BY PromotedTyped
  <2>3. \A i \in Item : Promoted(P)[i].worker_attempt_id = item[i].worker_attempt_id
    BY DEF Promoted, TypeOK, ItemRow
  <2>4. \A i \in Item : item'[i].worker_attempt_id = Promoted(P)[i].worker_attempt_id
    BY <2>1, <2>2 DEF Selecting, Rows, ItemRow
  <2> QED BY <2>3, <2>4 DEF GuardsKept
<1>2. CASE SetExplicitSelection(r)
  BY <1>2 DEF SetExplicitSelection, TypeOK, ItemRow, GuardsKept
<1>3. CASE UNCHANGED item
  BY <1>3 DEF GuardsKept
<1> QED BY <1>1, <1>2, <1>3
        DEF RequestStep, Reconcile, StampPremium, SetFreeSelection, ClearSelection,
            AbortSelection

\* An admission writes on a row without a live attempt, and a release on a row
\* whose attempt id the worker holds.
Admitting == \E i \in Item : ~AttemptIsLive(i) /\ \A j \in Item \ {i} : item'[j] = item[j]

Releasing ==
  \E w \in Worker :
    /\ worker[w].pc = "exit"
    /\ worker[w].attempt_token # None
    /\ RenewsAttempt(w)
    /\ \A j \in Item \ {worker[w].item} : item'[j] = item[j]

LEMMA AdmissionWrites ==
  ASSUME TypeOK, NEW w \in Worker, NEW lease, AdmitWorkerAttempt(w, lease)
  PROVE  GuardsKept \/ Admitting
<1> DEFINE i == worker[w].item
           t == NewToken(i)
<1>1. CASE RefuseAdmission(w)
  BY <1>1 DEF RefuseAdmission, GuardsKept
<1>2. CASE AdmitAttempt(w, lease) \/ AdmitOcrAttempt(w)
  <2>1. /\ i \in Item /\ ~AttemptIsLive(i)
        /\ item' = [item EXCEPT ![i].worker_attempt_id = t,
                                ![i].attempt_live = TRUE,
                                ![i].last_processing_attempt_id = t]
    BY <1>2 DEF AdmitAttempt, AdmitOcrAttempt, Admissible, Owned
  <2> HIDE DEF i, t
  <2>2. \A j \in Item \ {i} : item'[j] = item[j]
    BY <2>1 DEF TypeOK
  <2> QED BY <2>1, <2>2 DEF Admitting
<1> QED BY <1>1, <1>2 DEF AdmitWorkerAttempt

LEMMA WorkerWrites ==
  ASSUME TypeOK, NEW w \in Worker, WorkerStep(w)
  PROVE  GuardsKept \/ Admitting \/ Releasing
<1> DEFINE i == worker[w].item
           t == NewToken(i)
<1>0. UNCHANGED item => GuardsKept
  BY DEF GuardsKept
<1>1. CASE Reserve(w) \/ Admit(w)
  <2>1. \/ UNCHANGED item
        \/ \E lease : AdmitWorkerAttempt(w, lease)
        \/ i \in Item /\ (GrantPremium(i, t) \/ GrantSlot(i, t) \/ RefuseSlot(i))
    BY <1>1 DEF Reserve, Admit, ReserveMissing, ReserveActive, ReserveNew, Owned
  <2> HIDE DEF i, t
  <2> QED BY <1>0, <2>1, AdmissionWrites, ReservingKeepsGuards
<1>2. CASE Heartbeat(w) \/ PassLastCheck(w) \/ LoseOwnership(w)
  BY <1>0, <1>2, RenewingKeepsGuards DEF Heartbeat, PassLastCheck, LoseOwnership
<1>3. CASE ScanNeedsOcr(w)
  BY <1>3, OthersKeepGuards DEF ScanNeedsOcr, Owned
<1>4. CASE BeginOcr(w) \/ WorkFails(w)
  BY <1>0, <1>4 DEF BeginOcr, WorkFails
<1>5. CASE Finalize(w) \/ ConvertAfterReserve(w) \/ ReleaseAfterFailure(w)
  <2>1. \/ UNCHANGED item
        \/ i \in Item /\ Convert(i)
        \/ i \in Item /\ ReleaseReservation(i, worker[w].lease_token)
        \/ i \in Item /\ (GrantPremium(i, t) \/ GrantSlot(i, t) \/ RefuseSlot(i))
    BY <1>5 DEF Finalize, FinalizeSkips, FinalizeAccepts, FinalizeReserves, FinalizeRefused,
       ConvertAfterReserve, ReleaseAfterFailure, ReleaseReservation, MayRelease, Pending, Owned
  <2> HIDE DEF i, t
  <2> QED BY <1>0, <2>1, FinishingKeepsGuards, ReservingKeepsGuards
<1>6. CASE ReleaseWorkerAttempt(w)
  <2>1. CASE UNCHANGED item
    BY <1>0, <2>1
  <2>2. CASE ~UNCHANGED item
    <3>1. /\ worker[w].pc = "exit" /\ worker[w].attempt_token # None /\ RenewsAttempt(w)
          /\ item' = [item EXCEPT ![i].worker_attempt_id = None, ![i].attempt_live = FALSE]
      BY <1>6, <2>2 DEF ReleaseWorkerAttempt
    <3>2. \A j \in Item \ {i} : item'[j] = item[j]
      BY <3>1 DEF TypeOK
    <3> QED BY <3>1, <3>2 DEF Releasing
  <2> QED BY <2>1, <2>2
<1> QED BY <1>1, <1>2, <1>3, <1>4, <1>5, <1>6 DEF WorkerStep, Progress

LEMMA StepWrites ==
  ASSUME TypeOK, Step
  PROVE  GuardsKept \/ Admitting \/ Releasing
<1>0. UNCHANGED item => GuardsKept
  BY DEF GuardsKept
<1>1. CASE \E w \in Worker : Works(w)
  BY <1>1, WorkerWrites DEF Works
<1>2. CASE \E i \in Item, w \in Worker : Uploads(i, w) \/ StartsOcr(i, w)
  BY <1>0, <1>2, OthersKeepGuards DEF Uploads, StartsOcr, CreateItem, StartOcr
<1>3. CASE \E r \in Request : Selects(r)
  BY <1>3, SelectionKeepsGuards DEF Selects
<1>4. CASE \E i \in Item : Deletes(i) \/ RetriesDeletion(i) \/ TimePasses(i)
  BY <1>4, OthersKeepGuards DEF Deletes, RetriesDeletion, TimePasses,
     FinishItemDeletionCleanup, RetryItemDeletions
<1>5. CASE Reaps
  BY <1>5 DEF Reaps, ReapAllStaleReservations, ReapedRows, TypeOK, ItemRow, GuardsKept
<1>6. CASE ChangesTier \/ Restart
  BY <1>0, <1>6 DEF ChangesTier, PremiumStarts, PremiumEnds, Restart
<1> QED BY <1>1, <1>2, <1>3, <1>4, <1>5, <1>6 DEF Step

LEMMA NextHands ==
  ASSUME HandsInv, [Next]_vars
  PROVE  HandsInv'
<1>1. OwnersInv' /\ TypeOK
  BY NextOwner DEF HandsInv, OwnersInv
<1>2. CASE UNCHANGED vars
  BY <1>1, <1>2 DEF vars, HandsInv, HandsDistinct
<1>3. CASE Next
  BY <1>1, <1>3, StepOwner, HandsStayDistinct DEF HandsInv
<1> QED BY <1>2, <1>3

\* The lease on a running attempt does what it is for: while it is live, no
\* admission, release, reaper, deletion, selection or backfill takes the source
\* from the worker that holds it, unless the row goes.
THEOREM LiveAttemptSafe == Spec => LiveAttemptKept
<1> DEFINE Safe ==
      \A w \in Worker :
        /\ Guarded(w)
        /\ RenewsAttempt(w)
        /\ item[worker[w].item].attempt_live
        /\ worker'[w] = worker[w]
        => \/ item'[worker[w].item].row # "present"
           \/ item'[worker[w].item].worker_attempt_id = worker[w].attempt_token
<1>1. Init => HandsInv
  <2> SUFFICES ASSUME Init PROVE HandsInv
    OBVIOUS
  <2>1. \A w \in Worker : worker[w].attempt_token = None
    BY DEF Init, Idle
  <2> QED BY <2>1, InitOwner DEF HandsInv, HandsDistinct
<1>2. HandsInv /\ [Next]_vars => HandsInv'
  BY NextHands
<1>3. HandsInv /\ [Next]_vars => [Safe]_vars
  <2> SUFFICES ASSUME HandsInv, Next, NEW w \in Worker,
                      Guarded(w), RenewsAttempt(w), item[worker[w].item].attempt_live,
                      worker'[w] = worker[w], item'[worker[w].item].row = "present"
               PROVE  item'[worker[w].item].worker_attempt_id = worker[w].attempt_token
    OBVIOUS
  <2> DEFINE i == worker[w].item
  <2>1. /\ i \in Item /\ i \in Owned /\ item[i].worker_attempt_id = worker[w].attempt_token
        /\ worker[w].attempt_token # None /\ worker[w].pc \notin {"idle", "exit"}
        /\ AttemptIsLive(i)
    BY DEF RenewsAttempt, Guarded, Owned, AttemptIsLive
  <2>2. ~RestartBackfills
    BY <2>1 DEF RestartBackfills, ProcessDies, Idle
  <2>3. TypeOK /\ Step
    BY <2>2 DEF Next, HandsInv, OwnersInv
  <2>4. CASE GuardsKept
    BY <2>1, <2>4 DEF GuardsKept, Owned
  <2>5. CASE Admitting
    BY <2>1, <2>5 DEF Admitting
  <2>6. CASE Releasing
    <3>1. PICK v \in Worker :
            /\ worker[v].pc = "exit"
            /\ worker[v].attempt_token # None
            /\ RenewsAttempt(v)
            /\ \A j \in Item \ {worker[v].item} : item'[j] = item[j]
      BY <2>6 DEF Releasing
    <3>2. worker[v].item # i
      <4> SUFFICES ASSUME worker[v].item = i PROVE FALSE
        OBVIOUS
      <4>1. worker[v].attempt_token = worker[w].attempt_token
        BY <2>1, <3>1 DEF RenewsAttempt
      <4> QED BY <2>1, <3>1, <4>1 DEF HandsInv, HandsDistinct
    <3> QED BY <2>1, <3>1, <3>2
  <2> QED BY <2>3, <2>4, <2>5, <2>6, StepWrites
<1> QED BY <1>1, <1>2, <1>3, PTL DEF Spec, LiveAttemptKept

=============================================================================
