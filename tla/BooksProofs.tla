----------------------------- MODULE BooksProofs -----------------------------
(***************************************************************************)
(* The counters, for every number of sources, workers and requests.  Of an *)
(* account that was Free all along: what is charged and what is reserved   *)
(* never exceed the limit, each source is charged once, and the sources    *)
(* are slots of SlotPool.  Of any account: the total covers what was       *)
(* counted, reservations move as the ledger says, and a downgrade leaves   *)
(* no more than the limit unlocked.                                        *)
(***************************************************************************)
EXTENDS LibraryProofs

\* What the limit is compared with.
Balance == user.successful_sources_total + user.reserved_sources_count

\* What a transaction that is not a tier change or a settlement does to the
\* account: it gives slots back, or takes one while the limit has room.
BooksKept ==
  /\ user'.effective_premium = user.effective_premium
  /\ user'.lock = user.lock \/ user'.lock = "settled"
  /\ Balance' <= Balance \/ Balance' <= FreeLimit

\* FreeCap is not inductive alone: a purchase or a settlement would break it, so
\* an account that was Free all along must be shown to meet neither.
FreeBooks ==
  ~history.exempt =>
    /\ ~user.effective_premium
    /\ user.lock = "settled"
    /\ \A r \in Request : request[r].pc # "lock"
    /\ Balance <= LargerOf(FreeLimit, history.carried)

BooksInv == TypeOK /\ FreeBooks

-----------------------------------------------------------------------------
(* The transactions that move the counters. *)

LEMMA UserTyped ==
  ASSUME TypeOK
  PROVE  /\ user.successful_sources_total \in Nat
         /\ user.reserved_sources_count \in Int
         /\ Balance \in Int
         /\ FreeLimit \in Nat
  BY FreeLimitAssumption DEF TypeOK, UserRow, Balance

LEMMA BooksUnchanged ==
  ASSUME TypeOK, user' = user
  PROVE  BooksKept
<1>1. Balance' = Balance
  BY DEF Balance
<1> QED BY <1>1, UserTyped DEF BooksKept

LEMMA ReapFrees ==
  ASSUME TypeOK
  PROVE  /\ ReservedAfterReap \in Int
         /\ ReservedAfterReap <= user.reserved_sources_count
<1>1. Cardinality(StaleReservations) \in Nat
  BY SourceSetsFinite DEF StaleReservations, Owned
<1> QED BY <1>1, UserTyped DEF ReservedAfterReap

\* reserve_free_capacity and the reaper.
LEMMA ReserveKeepsBooks ==
  ASSUME TypeOK, NEW i \in Item, NEW t,
         \/ ReapAllStaleReservations
         \/ GrantPremium(i, t)
         \/ GrantSlot(i, t)
         \/ RefuseSlot(i)
  PROVE  BooksKept
<1> DEFINE n == user.reserved_sources_count
           m == user.successful_sources_total
           k == ReservedAfterReap
<1>1. user \in UserRow
  BY DEF TypeOK
<1>2. \/ user' = [user EXCEPT !.reserved_sources_count = k]
      \/ /\ m + k < FreeLimit
         /\ user' = [user EXCEPT !.reserved_sources_count = k + 1]
  BY DEF ReapAllStaleReservations, GrantPremium, GrantSlot, RefuseSlot, SlotFree
<1>3. /\ user'.effective_premium = user.effective_premium
      /\ user'.lock = user.lock
      /\ user'.successful_sources_total = m
      /\ \/ user'.reserved_sources_count = k
         \/ m + k < FreeLimit /\ user'.reserved_sources_count = k + 1
  <2> HIDE DEF k, m
  <2> QED BY <1>1, <1>2 DEF UserRow, m
<1>4. m \in Nat /\ n \in Int /\ k \in Int /\ k <= n
  BY UserTyped, ReapFrees
<1>5. Balance' = m + user'.reserved_sources_count /\ Balance = m + n
  BY <1>3 DEF Balance
<1> HIDE DEF k, m, n
<1> QED BY <1>3, <1>4, <1>5, FreeLimitAssumption DEF BooksKept

\* release_reservation and DELETE give a slot back.
LEMMA GivingBackKeepsBooks ==
  ASSUME TypeOK, NEW i \in Item, NEW lease,
         ReleaseReservation(i, lease) \/ DeleteLibraryItem(i)
  PROVE  BooksKept
<1>1. CASE user' = user
  BY <1>1, BooksUnchanged
<1>2. CASE user' = [user EXCEPT !.reserved_sources_count = @ - 1]
  <2>1. user \in UserRow
    BY DEF TypeOK
  <2>2. /\ user'.effective_premium = user.effective_premium
        /\ user'.lock = user.lock
        /\ user'.successful_sources_total = user.successful_sources_total
        /\ user'.reserved_sources_count = user.reserved_sources_count - 1
    BY <1>2, <2>1 DEF UserRow
  <2> QED BY <2>2, UserTyped DEF BooksKept, Balance
<1> QED BY <1>1, <1>2 DEF ReleaseReservation, DeleteLibraryItem

\* The conversion moves one slot from reserved to charged.
LEMMA ConvertKeepsBooks ==
  ASSUME TypeOK, NEW i \in Item, Convert(i)
  PROVE  BooksKept
<1>1. CASE ConvertExempt(i)
  BY <1>1, BooksUnchanged DEF ConvertExempt
<1>2. CASE ConvertPending(i)
  <2>1. user \in UserRow
    BY DEF TypeOK
  <2>2. user' = [user EXCEPT !.reserved_sources_count = @ - 1,
                             !.successful_sources_total = @ + 1,
                             !.lock = IF AutoUnlocks THEN "settled" ELSE @]
    BY <1>2 DEF ConvertPending
  <2>3. /\ user'.effective_premium = user.effective_premium
        /\ user'.lock = user.lock \/ user'.lock = "settled"
        /\ user'.successful_sources_total = user.successful_sources_total + 1
        /\ user'.reserved_sources_count = user.reserved_sources_count - 1
    BY <2>1, <2>2 DEF UserRow
  <2> QED BY <2>3, UserTyped DEF BooksKept, Balance
<1> QED BY <1>1, <1>2 DEF Convert

-----------------------------------------------------------------------------
(* The steps that are made of them. *)

LEMMA WorkerKeepsBooks ==
  ASSUME TypeOK, NEW w \in Worker, WorkerStep(w)
  PROVE  BooksKept
<1> DEFINE i == worker[w].item
           t == NewToken(i)
<1>1. CASE user' = user
  BY <1>1, BooksUnchanged
<1>2. CASE Reserve(w) \/ Finalize(w)
  <2>1. \/ user' = user
        \/ /\ i \in Item
           /\ GrantPremium(i, t) \/ GrantSlot(i, t) \/ RefuseSlot(i) \/ Convert(i)
    BY <1>2 DEF Reserve, ReserveMissing, ReserveActive, ReserveNew, AdmitWorkerAttempt,
       AdmitAttempt, AdmitOcrAttempt, RefuseAdmission, Finalize, FinalizeAccepts,
       FinalizeReserves, FinalizeSkips, FinalizeRefused, Owned
  <2> HIDE DEF i, t
  <2> QED BY <2>1, BooksUnchanged, ReserveKeepsBooks, ConvertKeepsBooks
<1>3. CASE ConvertAfterReserve(w)
  BY <1>3, BooksUnchanged, ConvertKeepsBooks DEF ConvertAfterReserve, Owned
<1>4. CASE ReleaseAfterFailure(w)
  BY <1>4, BooksUnchanged, GivingBackKeepsBooks
     DEF ReleaseAfterFailure, ReleaseReservation, MayRelease, Pending, Owned
<1>5. \/ user' = user
      \/ Reserve(w) \/ Finalize(w) \/ ConvertAfterReserve(w) \/ ReleaseAfterFailure(w)
  BY DEF WorkerStep, Progress, Admit, AdmitWorkerAttempt, AdmitAttempt, AdmitOcrAttempt,
     RefuseAdmission, BeginOcr, PassLastCheck, LoseOwnership, ScanNeedsOcr, WorkFails,
     ReleaseWorkerAttempt, Heartbeat
<1> QED BY <1>1, <1>2, <1>3, <1>4, <1>5

\* A transaction that keeps the books and leaves the requests alone or drops
\* them keeps FreeBooks.
LEMMA KeepingBooksSuffices ==
  ASSUME BooksInv, BooksKept, NEW backfills \in BOOLEAN, Remembers(backfills),
         TypeOK',
         request' = request \/ ProcessDies
  PROVE  FreeBooks'
<1> SUFFICES ASSUME ~history'.exempt
             PROVE  FreeBooks'
  BY DEF FreeBooks
<1>1. history'.carried = history.carried /\ ~history.exempt
  BY DEF Remembers, BooksInv, TypeOK, HistoryState
<1>2. \A r \in Request : request'[r].pc # "lock"
  BY <1>1 DEF ProcessDies, IdleRequest, BooksInv, FreeBooks
<1>3. Balance' <= LargerOf(FreeLimit, history'.carried)
  <2>1. history.carried \in Nat /\ Balance \in Int /\ Balance' \in Int /\ FreeLimit \in Nat
    BY UserTyped DEF BooksInv, TypeOK, HistoryState, UserRow, Balance
  <2> QED BY <1>1, <2>1 DEF BooksInv, FreeBooks, BooksKept, LargerOf
<1> QED BY <1>1, <1>2, <1>3 DEF BooksInv, FreeBooks, BooksKept

LEMMA RequestKeepsBooks ==
  ASSUME BooksInv, NEW r \in Request, RequestStep(r), Remembers(FALSE)
  PROVE  FreeBooks'
<1> SUFFICES ASSUME ~history'.exempt
             PROVE  FreeBooks'
  BY DEF FreeBooks
<1>1. /\ history'.carried = history.carried
      /\ ~history.exempt /\ ~user'.effective_premium /\ user'.lock = "settled"
  BY DEF Remembers, BooksInv, TypeOK, HistoryState
<1>2. /\ ~user.effective_premium
      /\ user.lock = "settled"
      /\ \A q \in Request : request[q].pc # "lock"
      /\ Balance <= LargerOf(FreeLimit, history.carried)
  BY <1>1 DEF BooksInv, FreeBooks
<1>3. request \in [Request -> RequestState]
  BY DEF BooksInv, TypeOK
<1>4. CASE StampPremium(r)
  <2>1. user.lock # "never" /\ user' = [user EXCEPT !.lock = "premium"]
    BY <1>2, <1>4 DEF StampPremium
  <2>2. user'.lock = "premium"
    BY <2>1 DEF BooksInv, TypeOK, UserRow
  <2> QED BY <1>1, <2>2
<1>5. CASE Reconcile(r) \/ FinalizeLockSelection(r)
  BY <1>2, <1>5 DEF Reconcile, FinalizeLockSelection
<1>6. CASE \/ SetFreeSelection(r)
           \/ ClearSelection(r)
           \/ SetExplicitSelection(r)
           \/ AbortSelection(r)
  <2>1. user' = user
    BY <1>6 DEF SetFreeSelection, ClearSelection, SetExplicitSelection, AbortSelection
  <2>2. \A q \in Request : request'[q].pc # "lock"
    BY <1>2, <1>3, <1>6 DEF SetFreeSelection, ClearSelection, SetExplicitSelection,
       AbortSelection, RequestEnds, IdleRequest, RequestState
  <2>3. Balance' = Balance
    BY <2>1 DEF Balance
  <2> QED BY <1>1, <1>2, <2>1, <2>2, <2>3 DEF FreeBooks
<1> QED BY <1>4, <1>5, <1>6 DEF RequestStep

LEMMA StepKeepsBooks ==
  ASSUME BooksInv, TypeOK', Step, Remembers(FALSE)
  PROVE  FreeBooks'
<1>0. TypeOK
  BY DEF BooksInv
<1>1. CASE \E w \in Worker : Works(w)
  BY <1>0, <1>1, WorkerKeepsBooks, KeepingBooksSuffices DEF Works
<1>2. CASE \E r \in Request : Selects(r)
  BY <1>2, RequestKeepsBooks DEF Selects
<1>3. CASE ChangesTier
  <2> SUFFICES ASSUME ~history'.exempt
               PROVE  FALSE
    BY DEF FreeBooks
  <2>1. ~history.exempt /\ ~user'.effective_premium
    BY DEF Remembers, BooksInv, TypeOK, HistoryState
  <2>2. ~user.effective_premium
    BY <2>1 DEF BooksInv, FreeBooks
  <2>3. PremiumStarts
    BY <1>3, <2>2 DEF ChangesTier, PremiumEnds
  <2>4. user'.effective_premium = TRUE
    BY <1>0, <2>3 DEF PremiumStarts, TypeOK, UserRow
  <2> QED BY <2>1, <2>4
<1>4. CASE Reaps
  <2>1. CASE Item = {}
    BY <1>4, <2>1 DEF Reaps, ReapAllStaleReservations, StaleReservations, Owned
  <2>2. CASE Item # {}
    BY <1>0, <1>4, <2>2, ReserveKeepsBooks, KeepingBooksSuffices DEF Reaps
  <2> QED BY <2>1, <2>2
<1>5. CASE \E i \in Item : DeleteLibraryItem(i) /\ UNCHANGED <<worker, request>>
  BY <1>0, <1>5, GivingBackKeepsBooks, KeepingBooksSuffices
<1>6. CASE user' = user /\ (request' = request \/ ProcessDies)
  BY <1>0, <1>6, BooksUnchanged, KeepingBooksSuffices
<1>7. \/ \E w \in Worker : Works(w)
      \/ \E r \in Request : Selects(r)
      \/ ChangesTier
      \/ Reaps
      \/ \E i \in Item : DeleteLibraryItem(i) /\ UNCHANGED <<worker, request>>
      \/ user' = user /\ (request' = request \/ ProcessDies)
  BY DEF Step, Uploads, StartsOcr, CreateItem, StartOcr, Deletes, FinishItemDeletionCleanup,
     RetriesDeletion, RetryItemDeletions, CleanupSucceeds, CleanupFails, TimePasses,
     LeaseExpires, AttemptExpires, Restart
<1> QED BY <1>1, <1>2, <1>3, <1>4, <1>5, <1>6, <1>7

LEMMA NextKeepsBooks ==
  ASSUME BooksInv, [Next]_vars
  PROVE  BooksInv'
<1>1. TypeOK'
  BY NextTyped DEF BooksInv
<1>2. CASE UNCHANGED vars
  BY <1>1, <1>2 DEF vars, BooksInv, FreeBooks, Balance
<1>3. CASE Step /\ Remembers(FALSE)
  BY <1>1, <1>3, StepKeepsBooks DEF BooksInv
<1>4. CASE RestartBackfills /\ Remembers(TRUE)
  <2>1. user.lock # "settled"
    BY <1>4 DEF RestartBackfills, BackfillOne
  <2>2. history.exempt
    BY <2>1 DEF BooksInv, FreeBooks
  <2>3. history'.exempt
    BY <1>4, <2>2 DEF Remembers, BooksInv, TypeOK, HistoryState
  <2> QED BY <1>1, <2>3 DEF BooksInv, FreeBooks
<1> QED BY <1>2, <1>3, <1>4 DEF Next

LEMMA InitBooks ==
  ASSUME Init
  PROVE  BooksInv
<1>1. PICK premium \in Trials, total \in CarriedTotals :
        /\ user = [effective_premium |-> premium,
                   successful_sources_total |-> total,
                   reserved_sources_count |-> 0,
                   lock |-> IF premium THEN "never" ELSE "settled"]
        /\ history = [carried |-> total, counted |-> {},
                      exempt |-> premium, backfilled |-> FALSE]
  BY DEF Init
<1>2. FreeBooks
  <2>1. total \in Nat /\ FreeLimit \in Nat
    BY CarriedTotalsAssumption, FreeLimitAssumption
  <2>2. Balance = total /\ history.carried = total
    BY <1>1, <2>1 DEF Balance
  <2>3. \A r \in Request : request[r].pc # "lock"
    BY DEF Init, IdleRequest
  <2> QED BY <1>1, <2>1, <2>2, <2>3 DEF FreeBooks, LargerOf
<1> QED BY <1>2, InitTyped DEF BooksInv

\* What is charged and what is reserved never exceed the limit of an account
\* that was Free all along, or the total it came with when that is larger:
\* reserve_free_capacity's check holds against every other transaction.
THEOREM FreeCapHolds == Spec => []FreeCap
<1>1. Init => BooksInv
  BY InitBooks
<1>2. BooksInv /\ [Next]_vars => BooksInv'
  BY NextKeepsBooks
<1>3. BooksInv => FreeCap
  BY DEF BooksInv, FreeBooks, FreeCap, Balance
<1> QED BY <1>1, <1>2, <1>3, PTL DEF Spec

-----------------------------------------------------------------------------
(* What is charged, and for what.  A row of an account Free all along is    *)
(* charged or not, and both survive every step but the conversion.          *)

\* A source that was never counted: not processed, so not selected either, and
\* with a lease whenever it holds a slot.
Uncharged(row) ==
  /\ ~row.processed /\ ~row.is_unlocked_selection
  /\ row.entitlement_status \in {"none", "pending", "released", "rejected"}
  /\ row.entitlement_status = "pending" => row.reservation_lease_token # None

\* A counted one stays 'consumed', or becomes 'premium' when OCR of a source
\* that was reset completes, until the row goes.
Charged(row) ==
  \/ row.row = "deleted"
  \/ row.row = "present" /\ row.entitlement_status \in {"consumed", "premium"}

RowFits(i) == IF i \in history.counted THEN Charged(item[i]) ELSE Uncharged(item[i])

\* Only the ingestion works on a source not yet counted, with a lease from the
\* moment it was given a slot: OCR wants the source unlocked.
WorkerFits(w) ==
  worker[w].pc # "idle" /\ worker[w].item \notin history.counted =>
    /\ worker[w].kind = "ingest"
    /\ worker[w].pc \notin {"begin", "convert"}
    /\ worker[w].pc \in {"admit", "work", "finalize"} => worker[w].lease_token # None

ChargesFit ==
  ~history.exempt =>
    /\ user.successful_sources_total = Accounted
    /\ \A i \in Item : RowFits(i)
    /\ \A w \in Worker : WorkerFits(w)
    /\ \A r \in Request : request[r].pc = "idle"

ChargesInv == BooksInv /\ ChargesFit

\* What a transaction that charges nothing does to the rows.
ChargesNothing ==
  /\ user'.successful_sources_total = user.successful_sources_total
  /\ \A i \in Item : /\ Charged(item[i]) => Charged(item'[i])
                     /\ Uncharged(item[i]) => Uncharged(item'[i])

\* And the conversion of a source not yet counted.
Charges(i) ==
  /\ user'.successful_sources_total = user.successful_sources_total + 1
  /\ i \notin history.counted
  /\ item'[i].row = "present" /\ item'[i].entitlement_status = "consumed"
  /\ \A j \in Item \ {i} : item'[j] = item[j]

LEMMA ChargedOrNot ==
  ASSUME NEW row
  PROVE  /\ row = BlankRow("present") \/ row = BlankRow("deleted") => Uncharged(row)
         /\ row = BlankRow("deleted") => Charged(row)
         /\ Uncharged(row) => row.entitlement_status # "consumed"
BY DEF Uncharged, Charged, BlankRow

\* Both kinds of transaction leave the rows, and what they add up to, right.
LEMMA RowsStayRight ==
  ASSUME TypeOK, NEW b \in BOOLEAN, Remembers(b),
         user.successful_sources_total = Accounted,
         \A i \in Item : RowFits(i),
         ChargesNothing \/ \E i \in Item : Charges(i)
  PROVE  /\ user'.successful_sources_total = Accounted'
         /\ \A i \in Item : RowFits(i)'
         /\ history.counted \subseteq history'.counted
<1>1. /\ history.counted \subseteq Item
      /\ history'.carried = history.carried
      /\ history'.counted = history.counted
                              \cup {i \in Item : item'[i].entitlement_status = "consumed"}
  BY DEF Remembers, TypeOK, HistoryState
<1>2. CASE ChargesNothing
  <2>1. history'.counted = history.counted
    BY <1>1, <1>2, ChargedOrNot DEF ChargesNothing, RowFits
  <2> QED BY <1>1, <1>2, <2>1 DEF ChargesNothing, RowFits, Accounted
<1>3. CASE \E i \in Item : Charges(i)
  <2>1. PICK i \in Item : Charges(i)
    BY <1>3
  <2>2. history'.counted = history.counted \cup {i}
    BY <1>1, <2>1, ChargedOrNot DEF Charges, RowFits
  <2>3. IsFiniteSet(history.counted)
    BY <1>1, SourceSetsFinite
  <2>4. Cardinality(history'.counted) = Cardinality(history.counted) + 1
    BY <2>1, <2>2, <2>3, FS_AddElement DEF Charges
  <2>5. Cardinality(history.counted) \in Nat /\ history.carried \in Nat
    BY <1>1, SourceSetsFinite DEF TypeOK, HistoryState
  <2>6. user'.successful_sources_total = Accounted'
    BY <1>1, <2>1, <2>4, <2>5 DEF Charges, Accounted
  <2>7. \A j \in Item : RowFits(j)'
    BY <2>1, <2>2 DEF Charges, RowFits, Charged
  <2> QED BY <2>2, <2>6, <2>7
<1> QED BY <1>2, <1>3

-----------------------------------------------------------------------------
(* The transactions, one by one. *)

\* Rows of which a step changes neither the accounting nor the selection.
LEMMA SameAccounting ==
  ASSUME NEW row, NEW after,
         after.row = row.row, after.processed = row.processed,
         after.is_unlocked_selection = row.is_unlocked_selection,
         after.entitlement_status = row.entitlement_status,
         after.reservation_lease_token = row.reservation_lease_token
  PROVE  /\ Charged(row) => Charged(after)
         /\ Uncharged(row) => Uncharged(after)
BY DEF Charged, Uncharged

LEMMA ReapedFits ==
  ASSUME TypeOK, NEW i \in Item
  PROVE  /\ Charged(item[i]) => Charged(ReapedRows[i])
         /\ Uncharged(item[i]) => Uncharged(ReapedRows[i])
         /\ ReapedRows[i].row = item[i].row
<1>1. item[i] \in ItemRow
  BY DEF TypeOK
<1>2. CASE i \in StaleReservations
  <2>1. /\ item[i].entitlement_status = "pending" /\ item[i].row = "present"
        /\ ReapedRows[i] = [item[i] EXCEPT !.entitlement_status = "released"]
    BY <1>2 DEF StaleReservations, Pending, Owned, ReapedRows
  <2> QED BY <1>1, <2>1 DEF Charged, Uncharged, ItemRow
<1>3. CASE i \notin StaleReservations
  BY <1>3 DEF ReapedRows
<1> QED BY <1>2, <1>3

LEMMA ReapChargesNothing ==
  ASSUME TypeOK, ReapAllStaleReservations
  PROVE  ChargesNothing
<1>1. user'.successful_sources_total = user.successful_sources_total
  BY DEF ReapAllStaleReservations, TypeOK, UserRow
<1> QED BY <1>1, ReapedFits DEF ReapAllStaleReservations, ChargesNothing

\* reserve_free_capacity for a row without a reservation.
LEMMA ReserveChargesNothing ==
  ASSUME TypeOK, ~user.effective_premium, NEW i \in Owned, ~HasActiveReservation(i),
         NEW t \in Token, GrantPremium(i, t) \/ GrantSlot(i, t) \/ RefuseSlot(i)
  PROVE  ChargesNothing
<1>1. user'.successful_sources_total = user.successful_sources_total
  BY DEF GrantPremium, GrantSlot, RefuseSlot, TypeOK, UserRow
<1>2. i \in Item /\ ReapedRows \in Rows /\ ReapedRows[i].row = "present"
  BY ReapTyped, ReapedFits DEF Owned
<1>3. ~Charged(item[i])
  BY DEF Charged, Owned, HasActiveReservation
<1>4. \A j \in Item \ {i} : item'[j] = ReapedRows[j]
  BY <1>2 DEF GrantPremium, GrantSlot, RefuseSlot, Rows
<1>5. Uncharged(item[i]) => Uncharged(item'[i])
  <2>1. Uncharged(item[i]) => Uncharged(ReapedRows[i])
    BY <1>2, ReapedFits
  <2>2. \/ item'[i] = [ReapedRows[i] EXCEPT !.entitlement_status = "pending",
                                            !.reservation_lease_token = t,
                                            !.lease_live = TRUE,
                                            !.last_processing_attempt_id = t]
        \/ item'[i] = [ReapedRows[i] EXCEPT !.entitlement_status = "rejected"]
    BY <1>2 DEF GrantPremium, GrantSlot, RefuseSlot, Rows
  <2>3. ReapedRows[i] \in ItemRow
    BY <1>2 DEF Rows
  <2> QED BY <2>1, <2>2, <2>3, NoneAssumption DEF Uncharged, ItemRow
<1> QED BY <1>1, <1>3, <1>4, <1>5, ReapedFits DEF ChargesNothing

\* release_reservation, DELETE and its second phase, and time.
LEMMA OthersChargeNothing ==
  ASSUME TypeOK, NEW i \in Item,
         \/ \E lease \in Token \cup {None} : ReleaseReservation(i, lease)
         \/ DeleteLibraryItem(i)
         \/ i \in Owned /\ (CleanupSucceeds(i) \/ CleanupFails(i))
         \/ LeaseExpires(i)
         \/ AttemptExpires(i)
  PROVE  ChargesNothing
<1>1. item[i] \in ItemRow /\ item \in Rows
  BY DEF TypeOK, Rows
<1>2. user'.successful_sources_total = user.successful_sources_total
  BY DEF TypeOK, UserRow, ReleaseReservation, DeleteLibraryItem, CleanupSucceeds, CleanupFails,
     LeaseExpires, AttemptExpires
<1>3. \A j \in Item \ {i} : item'[j] = item[j]
  BY <1>1 DEF Rows, ReleaseReservation, DeleteLibraryItem, CleanupSucceeds, CleanupFails,
     LeaseExpires, AttemptExpires
<1>4. CASE \E lease \in Token \cup {None} : ReleaseReservation(i, lease)
  <2>1. /\ item[i].entitlement_status = "pending" /\ item[i].row = "present"
        /\ item'[i] = [item[i] EXCEPT !.entitlement_status = "released",
                                      !.reservation_lease_token = None,
                                      !.lease_live = FALSE]
    BY <1>1, <1>4 DEF ReleaseReservation, MayRelease, Pending, Owned, Rows
  <2>2. ~Charged(item[i]) /\ (Uncharged(item[i]) => Uncharged(item'[i]))
    BY <1>1, <2>1 DEF Charged, Uncharged, ItemRow
  <2> QED BY <1>2, <1>3, <2>2 DEF ChargesNothing
<1>5. CASE i \in Owned /\ CleanupSucceeds(i)
  <2>1. item'[i] = BlankRow("deleted")
    BY <1>1, <1>5 DEF CleanupSucceeds, Rows
  <2> QED BY <1>2, <1>3, <2>1, ChargedOrNot DEF ChargesNothing
<1>6. CASE DeleteLibraryItem(i) \/ CleanupFails(i) \/ LeaseExpires(i) \/ AttemptExpires(i)
  <2>1. \/ item'[i] = [item[i] EXCEPT !.deletion_state = "pending"]
        \/ item'[i] = [item[i] EXCEPT !.deletion_state = "failed"]
        \/ item'[i] = [item[i] EXCEPT !.lease_live = FALSE]
        \/ item'[i] = [item[i] EXCEPT !.attempt_live = FALSE]
    BY <1>1, <1>6 DEF DeleteLibraryItem, CleanupFails, LeaseExpires, AttemptExpires, Rows
  <2>2. /\ item'[i].row = item[i].row /\ item'[i].processed = item[i].processed
        /\ item'[i].is_unlocked_selection = item[i].is_unlocked_selection
        /\ item'[i].entitlement_status = item[i].entitlement_status
        /\ item'[i].reservation_lease_token = item[i].reservation_lease_token
    BY <1>1, <2>1 DEF ItemRow
  <2> QED BY <1>2, <1>3, <2>2, SameAccounting DEF ChargesNothing
<1> QED BY <1>4, <1>5, <1>6

\* The conversion charges a source that holds a slot, and only that.
LEMMA ConvertCharges ==
  ASSUME TypeOK, NEW i \in Owned, Convert(i), RowFits(i),
         i \in history.counted \/ Pending(i)
  PROVE  ChargesNothing \/ Charges(i)
<1>1. i \in Item /\ item[i] \in ItemRow /\ item \in Rows /\ item[i].row = "present"
  BY DEF TypeOK, Rows, Owned
<1>2. CASE ConvertPending(i)
  <2>1. i \notin history.counted
    BY <1>1, <1>2 DEF ConvertPending, RowFits, Charged
  <2>2. user'.successful_sources_total = user.successful_sources_total + 1
    BY <1>2 DEF ConvertPending, TypeOK, UserRow
  <2>3. item'[i] = [item[i] EXCEPT !.processed = TRUE,
                                   !.reservation_lease_token = None,
                                   !.lease_live = FALSE,
                                   !.entitlement_status = "consumed",
                                   !.is_unlocked_selection = @ \/ AutoUnlocks]
    BY <1>1, <1>2 DEF ConvertPending, Rows
  <2>4. item'[i].row = "present" /\ item'[i].entitlement_status = "consumed"
    BY <1>1, <2>3 DEF ItemRow
  <2>5. \A j \in Item \ {i} : item'[j] = item[j]
    BY <1>1, <1>2 DEF ConvertPending, Rows
  <2> QED BY <2>1, <2>2, <2>4, <2>5 DEF Charges
<1>3. CASE ConvertExempt(i)
  <2>1. i \in history.counted
    BY <1>3 DEF ConvertExempt, Pending
  <2>2. item'[i] = [item[i] EXCEPT !.processed = TRUE,
                                   !.reservation_lease_token = None,
                                   !.lease_live = FALSE,
                                   !.entitlement_status = "premium"]
    BY <1>1, <1>3 DEF ConvertExempt, Rows
  <2>3. Charged(item'[i]) /\ ~Uncharged(item[i])
    BY <1>1, <2>1, <2>2 DEF Charged, Uncharged, RowFits, ItemRow
  <2>4. \A j \in Item \ {i} : item'[j] = item[j]
    BY <1>1, <1>3 DEF ConvertExempt, Rows
  <2> QED BY <1>3, <2>3, <2>4 DEF ChargesNothing, ConvertExempt
<1> QED BY <1>2, <1>3 DEF Convert

-----------------------------------------------------------------------------
(* The tasks. *)

\* The task's next state is one of a source it may work on.
LEMMA WorkersStayRight ==
  ASSUME TypeOK, NEW w \in Worker, history.counted \subseteq history'.counted,
         \A v \in Worker : WorkerFits(v),
         \A v \in Worker \ {w} : worker'[v] = worker[v],
         WorkerFits(w)'
  PROVE  \A v \in Worker : WorkerFits(v)'
BY DEF WorkerFits

\* A task whose source was not counted is as WorkerFits has it.
LEMMA OnUncounted ==
  ASSUME TypeOK, NEW w \in Worker, WorkerFits(w), worker[w].item \notin history.counted,
         worker[w].item \in Item, RowFits(worker[w].item), worker[w].pc # "idle"
  PROVE  /\ worker[w].kind = "ingest" /\ worker[w].pc \notin {"begin", "convert"}
         /\ worker[w].pc \in {"admit", "work", "finalize"} => worker[w].lease_token # None
         /\ Uncharged(item[worker[w].item])
BY DEF WorkerFits, RowFits

\* Tasks that end, leave, fail or only move on.
LEMMA MovesFit ==
  ASSUME TypeOK, NEW w \in Worker, WorkerFits(w), history.counted \subseteq history'.counted,
         \/ Finish(w)
         \/ worker[w].pc # "idle" /\ Leave(w)
         \/ worker[w].pc # "idle" /\ Goto(w, "fail")
         \/ worker[w].pc = "work" /\ Goto(w, "finalize")
         \/ worker[w].pc = "finalize" /\ worker[w].item \in history.counted /\ Goto(w, "convert")
         \/ UNCHANGED worker
  PROVE  /\ \A v \in Worker \ {w} : worker'[v] = worker[v]
         /\ WorkerFits(w)'
<1>1. worker \in [Worker -> WorkerState]
  BY DEF TypeOK
<1> QED BY <1>1 DEF Finish, Leave, Goto, Idle, WorkerFits, WorkerState

\* Admission: a lease goes with the attempt of a source not yet counted.
LEMMA AdmissionFits ==
  ASSUME TypeOK, NEW w \in Worker, worker[w].pc # "idle", WorkerFits(w), NEW lease,
         worker[w].item \notin history.counted => lease # None,
         history.counted \subseteq history'.counted,
         AdmitWorkerAttempt(w, lease)
  PROVE  /\ \A v \in Worker \ {w} : worker'[v] = worker[v]
         /\ WorkerFits(w)'
         /\ ChargesNothing
<1>1. worker \in [Worker -> WorkerState] /\ item \in Rows
  BY DEF TypeOK, Rows
<1>2. CASE RefuseAdmission(w)
  BY <1>2, MovesFit DEF RefuseAdmission, ChargesNothing
<1>3. CASE \/ worker[w].kind = "ingest" /\ AdmitAttempt(w, lease)
           \/ worker[w].kind = "ocr" /\ AdmitOcrAttempt(w)
  <2> DEFINE i == worker[w].item
             t == NewToken(i)
  <2>1. /\ i \in Item
        /\ item' = [item EXCEPT ![i].worker_attempt_id = t,
                                ![i].attempt_live = TRUE,
                                ![i].last_processing_attempt_id = t]
        /\ UNCHANGED user
    BY <1>3 DEF AdmitAttempt, AdmitOcrAttempt, Admissible, Owned
  <2>2. /\ \A j \in Item \ {i} : item'[j] = item[j]
        /\ item'[i] = [item[i] EXCEPT !.worker_attempt_id = t, !.attempt_live = TRUE,
                                      !.last_processing_attempt_id = t]
    BY <1>1, <2>1 DEF Rows
  <2>3. /\ item'[i].row = item[i].row /\ item'[i].processed = item[i].processed
        /\ item'[i].is_unlocked_selection = item[i].is_unlocked_selection
        /\ item'[i].entitlement_status = item[i].entitlement_status
        /\ item'[i].reservation_lease_token = item[i].reservation_lease_token
    BY <1>1, <2>1, <2>2 DEF Rows, ItemRow
  <2>4. ChargesNothing
    BY <2>1, <2>2, <2>3, SameAccounting DEF ChargesNothing
  <2>5. /\ \A v \in Worker \ {w} : worker'[v] = worker[v]
        /\ worker'[w].item = worker[w].item /\ worker'[w].kind = worker[w].kind
        /\ \/ worker[w].kind = "ingest" /\ worker'[w].pc = "work" /\ worker'[w].lease_token = lease
           \/ worker[w].kind = "ocr"
    BY <1>1, <1>3 DEF AdmitAttempt, AdmitOcrAttempt, WorkerState
  <2> HIDE DEF i, t
  <2> QED BY <2>4, <2>5 DEF WorkerFits
<1> QED BY <1>2, <1>3 DEF AdmitWorkerAttempt

\* The rows after a guard's renewal or a task's last writes count as before.
LEMMA RenewalChargesNothing ==
  ASSUME TypeOK, NEW w \in Worker, user' = user,
         \/ item' = item
         \/ item' = RenewedRows(w)
         \/ ReleaseWorkerAttempt(w)
  PROVE  ChargesNothing
<1>1. item \in Rows
  BY DEF TypeOK, Rows
<1> SUFFICES ASSUME NEW j \in Item
             PROVE  /\ Charged(item[j]) => Charged(item'[j])
                    /\ Uncharged(item[j]) => Uncharged(item'[j])
  BY DEF ChargesNothing
<1>2. item[j] \in ItemRow
  BY <1>1 DEF Rows
<1>3. CASE item'[j] = item[j]
  BY <1>3
<1>4. CASE \E attempt, lease \in BOOLEAN :
             item'[j] = [item[j] EXCEPT !.attempt_live = attempt, !.lease_live = lease]
  BY <1>2, <1>4, SameAccounting DEF ItemRow
<1>5. CASE item'[j] = [item[j] EXCEPT !.worker_attempt_id = None, !.attempt_live = FALSE]
  BY <1>2, <1>5, SameAccounting DEF ItemRow
<1>6. CASE item' = RenewedRows(w)
  <2> DEFINE attempt == item[j].attempt_live \/ RenewsAttempt(w)
             lease == item[j].lease_live
                        \/ (worker[w].lease_token # None /\ RenewsLease(w))
  <2>1. CASE j # worker[w].item
    BY <1>1, <1>3, <1>6, <2>1 DEF RenewedRows, Rows
  <2>2. CASE j = worker[w].item
    <3>1. attempt \in BOOLEAN /\ lease \in BOOLEAN
      BY DEF RenewsAttempt, RenewsLease, Pending
    <3>2. item'[j] = [item[j] EXCEPT !.attempt_live = attempt, !.lease_live = lease]
      BY <1>1, <1>6, <2>2 DEF RenewedRows, Rows
    <3> HIDE DEF attempt, lease
    <3> QED BY <1>4, <3>1, <3>2
  <2> QED BY <2>1, <2>2
<1>7. CASE ReleaseWorkerAttempt(w)
  <2>1. CASE item' = item
    BY <1>3, <2>1
  <2>2. CASE item' = [item EXCEPT ![worker[w].item].worker_attempt_id = None,
                                  ![worker[w].item].attempt_live = FALSE]
    <3>1. CASE j # worker[w].item
      BY <1>1, <1>3, <2>2, <3>1 DEF Rows
    <3>2. CASE j = worker[w].item
      BY <1>1, <1>5, <2>2, <3>2 DEF Rows
    <3> QED BY <3>1, <3>2
  <2> QED BY <1>7, <2>1, <2>2 DEF ReleaseWorkerAttempt
<1> QED BY <1>3, <1>6, <1>7

LEMMA ScanChargesNothing ==
  ASSUME TypeOK, NEW w \in Worker, ScanNeedsOcr(w)
  PROVE  ChargesNothing
<1> DEFINE i == worker[w].item
<1>1. PICK processed \in {item[i].processed, FALSE} :
        item' = [item EXCEPT ![i].processed = processed]
  BY DEF ScanNeedsOcr
<1>2. i \in Item /\ item \in Rows /\ user' = user
  BY DEF ScanNeedsOcr, Owned, TypeOK, Rows
<1> HIDE DEF i
<1>3. /\ \A j \in Item \ {i} : item'[j] = item[j]
      /\ item'[i] = [item[i] EXCEPT !.processed = processed]
  BY <1>1, <1>2 DEF Rows
<1>4. /\ item'[i].row = item[i].row /\ item'[i].processed = processed
      /\ item'[i].is_unlocked_selection = item[i].is_unlocked_selection
      /\ item'[i].entitlement_status = item[i].entitlement_status
      /\ item'[i].reservation_lease_token = item[i].reservation_lease_token
  <2>1. item[i] \in ItemRow
    BY <1>2 DEF Rows
  <2> QED BY <1>3, <2>1 DEF ItemRow
<1>5. /\ Charged(item[i]) => Charged(item'[i])
      /\ Uncharged(item[i]) => Uncharged(item'[i])
  <2>1. ~item[i].processed => ~item'[i].processed
    BY <1>1, <1>4
  <2> QED BY <1>4, <2>1 DEF Charged, Uncharged
<1> QED BY <1>2, <1>3, <1>5 DEF ChargesNothing

\* What one step of a task leaves, on an account Free all along.
LEMMA WorkerCharges ==
  ASSUME TypeOK, NEW w \in Worker, WorkerStep(w), ~user.effective_premium,
         worker[w].item \in Item => RowFits(worker[w].item), WorkerFits(w),
         history.counted \subseteq history'.counted
  PROVE  /\ ChargesNothing \/ (worker[w].item \in Item /\ Charges(worker[w].item))
         /\ \A v \in Worker \ {w} : worker'[v] = worker[v]
         /\ WorkerFits(w)'
<1> DEFINE i == worker[w].item
           t == NewToken(i)
<1>1. /\ worker \in [Worker -> WorkerState] /\ worker[w] \in WorkerState
      /\ WorkerFits(w) /\ item \in Rows
  BY DEF TypeOK, Rows
<1>2. CASE Reserve(w)
  <2>1. CASE ReserveMissing(w)
    BY <1>1, <2>1, MovesFit DEF ReserveMissing, ChargesNothing
  <2>2. CASE ReserveActive(w)
    <3>1. /\ i \in Item /\ RowFits(i) /\ HasActiveReservation(i)
          /\ AdmitWorkerAttempt(w, item[i].reservation_lease_token)
      BY <2>2 DEF ReserveActive, Owned
    <3>2. i \notin history.counted => item[i].reservation_lease_token # None
      BY <3>1 DEF RowFits, Uncharged, HasActiveReservation
    <3>3. worker[w].pc # "idle"
      BY <1>2 DEF Reserve
    <3> HIDE DEF i
    <3> QED BY <1>1, <3>1, <3>2, <3>3, AdmissionFits DEF i
  <2>3. CASE ReserveNew(w)
    <3>1. /\ i \in Owned /\ ~HasActiveReservation(i) /\ t \in Token
          /\ GrantPremium(i, t) \/ GrantSlot(i, t) \/ RefuseSlot(i)
          /\ worker[w].pc = "reserve"
      BY <1>2, <2>3 DEF ReserveNew, MintsFresh, Reserve
    <3>2. \/ worker' = [worker EXCEPT ![w].pc = "admit",
                          ![w].lease_token = IF worker[w].kind = "ocr" THEN None ELSE t]
          \/ Finish(w)
      BY <2>3 DEF ReserveNew, GrantPremium
    <3> HIDE DEF i, t
    <3>3. ChargesNothing
      BY <3>1, ReserveChargesNothing
    <3>4. CASE Finish(w)
      BY <1>1, <3>3, <3>4, MovesFit
    <3>5. CASE worker' = [worker EXCEPT ![w].pc = "admit",
                            ![w].lease_token = IF worker[w].kind = "ocr" THEN None ELSE t]
      BY <1>1, <3>1, <3>3, <3>5, NoneAssumption DEF WorkerFits, WorkerState
    <3> QED BY <3>2, <3>4, <3>5
  <2> QED BY <1>2, <2>1, <2>2, <2>3 DEF Reserve
<1>3. CASE Admit(w)
  <2>1. /\ worker[w].pc = "admit" /\ AdmitWorkerAttempt(w, worker[w].lease_token)
        /\ worker[w].item \notin history.counted => worker[w].lease_token # None
    BY <1>1, <1>3 DEF Admit, WorkerFits
  <2> QED BY <1>1, <2>1, AdmissionFits
<1>4. CASE BeginOcr(w)
  <2>1. worker[w].pc = "begin" /\ i \in history.counted /\ UNCHANGED <<user, item>>
    BY <1>1, <1>4 DEF BeginOcr, WorkerFits
  <2>2. \/ Finish(w) \/ Leave(w)
        \/ worker' = [worker EXCEPT ![w].pc = "work",
                                    ![w].lease_token = item[i].reservation_lease_token]
    BY <1>4 DEF BeginOcr
  <2>3. /\ \A v \in Worker \ {w} : worker'[v] = worker[v]
        /\ worker'[w].pc = "idle" \/ worker'[w].item = i
    BY <1>1, <2>2 DEF Finish, Leave, Idle, WorkerState
  <2> QED BY <2>1, <2>3 DEF WorkerFits, ChargesNothing
<1>5. CASE PassLastCheck(w) \/ LoseOwnership(w) \/ WorkFails(w) \/ Heartbeat(w)
           \/ ReleaseWorkerAttempt(w)
  <2>1. ChargesNothing
    BY <1>5, RenewalChargesNothing DEF PassLastCheck, LoseOwnership, WorkFails, Heartbeat,
       ReleaseWorkerAttempt
  <2>2. \/ Finish(w)
        \/ worker[w].pc # "idle" /\ Leave(w)
        \/ worker[w].pc # "idle" /\ Goto(w, "fail")
        \/ worker[w].pc = "work" /\ Goto(w, "finalize")
        \/ UNCHANGED worker
    BY <1>5 DEF PassLastCheck, LoseOwnership, WorkFails, Heartbeat, ReleaseWorkerAttempt
  <2> QED BY <1>1, <2>1, <2>2, MovesFit
<1>6. CASE ScanNeedsOcr(w)
  BY <1>1, <1>6, ScanChargesNothing, MovesFit DEF ScanNeedsOcr
<1>7. CASE Finalize(w)
  <2>1. CASE FinalizeSkips(w)
    BY <1>1, <1>7, <2>1, MovesFit DEF FinalizeSkips, Finalize, ChargesNothing
  <2>2. CASE FinalizeAccepts(w)
    <3>1. /\ i \in Owned /\ Convert(i) /\ Leave(w) /\ worker[w].pc = "finalize"
          /\ item[i].entitlement_status \in {"pending", "premium"}
      BY <1>7, <2>2 DEF FinalizeAccepts, FinalizeRefused, Finalize
    <3>2. RowFits(i) /\ (i \in history.counted \/ Pending(i))
      BY <3>1 DEF RowFits, Uncharged, Pending, Owned
    <3> HIDE DEF i
    <3>3. ChargesNothing \/ Charges(i)
      BY <3>1, <3>2, ConvertCharges
    <3> QED BY <1>1, <3>1, <3>3, MovesFit DEF Owned, i
  <2>3. CASE FinalizeReserves(w)
    <3>1. /\ i \in Owned /\ ~item[i].processed /\ worker[w].pc = "finalize"
          /\ item[i].entitlement_status \notin {"pending", "premium"}
          /\ worker[w].lease_token = None \/ RenewsLease(w)
      BY <1>7, <2>3 DEF FinalizeReserves, FinalizeRefused, Finalize
    <3>2. i \in history.counted
      BY <1>1, <3>1 DEF RenewsLease, Pending, WorkerFits
    <3>3. HasActiveReservation(i)
      BY <3>1, <3>2 DEF RowFits, Charged, Owned, HasActiveReservation
    <3>4. Goto(w, "convert") /\ UNCHANGED <<user, item>>
      BY <2>3, <3>3 DEF FinalizeReserves
    <3> QED BY <1>1, <3>1, <3>2, <3>4, MovesFit DEF ChargesNothing
  <2> QED BY <1>7, <2>1, <2>2, <2>3 DEF Finalize
<1>8. CASE ConvertAfterReserve(w)
  <2>1. worker[w].pc = "convert" /\ i \in history.counted
    BY <1>1, <1>8 DEF ConvertAfterReserve, WorkerFits
  <2>2. CASE i \in Owned /\ Convert(i) /\ Leave(w)
    <3>1. RowFits(i)
      BY <2>2 DEF Owned
    <3> HIDE DEF i
    <3>2. ChargesNothing \/ Charges(i)
      BY <2>1, <2>2, <3>1, ConvertCharges
    <3> QED BY <1>1, <2>1, <2>2, <3>2, MovesFit DEF Owned, i
  <2>3. CASE Goto(w, "fail") /\ UNCHANGED <<user, item>>
    BY <1>1, <2>1, <2>3, MovesFit DEF ChargesNothing
  <2> QED BY <1>8, <2>2, <2>3 DEF ConvertAfterReserve
<1>9. CASE ReleaseAfterFailure(w)
  <2>1. worker[w].pc = "fail" /\ Leave(w)
    BY <1>9 DEF ReleaseAfterFailure
  <2>2. ChargesNothing
    <3>1. CASE UNCHANGED <<user, item>>
      BY <3>1 DEF ChargesNothing
    <3>2. CASE ReleaseReservation(i, worker[w].lease_token)
      <4>1. i \in Item /\ worker[w].lease_token \in Token \cup {None}
        BY <1>1, <3>2 DEF ReleaseReservation, MayRelease, Pending, Owned, WorkerState
      <4> HIDE DEF i
      <4> QED BY <3>2, <4>1, OthersChargeNothing
    <3> QED BY <1>9, <3>1, <3>2 DEF ReleaseAfterFailure
  <2> QED BY <1>1, <2>1, <2>2, MovesFit
<1> QED BY <1>2, <1>3, <1>4, <1>5, <1>6, <1>7, <1>8, <1>9 DEF WorkerStep, Progress

-----------------------------------------------------------------------------
(* Every step, and the two results. *)

\* ChargesFit holds of the next state too, once the rows and tasks do.
LEMMA StepSuffices ==
  ASSUME ChargesInv, NEW b \in BOOLEAN, Remembers(b), ~history'.exempt,
         ChargesNothing \/ \E i \in Item : Charges(i),
         history.counted \subseteq history'.counted => \A w \in Worker : WorkerFits(w)',
         request' = request \/ ProcessDies
  PROVE  ChargesFit'
<1>1. ~history.exempt
  BY DEF Remembers, ChargesInv, BooksInv, TypeOK, HistoryState
<1>2. \A r \in Request : request'[r].pc = "idle"
  BY <1>1 DEF ProcessDies, IdleRequest, ChargesInv, ChargesFit
<1> QED BY <1>1, <1>2, RowsStayRight DEF ChargesInv, BooksInv, ChargesFit

\* The tasks when none of them moves, or all die.
LEMMA IdleOrSame ==
  ASSUME TypeOK, \A w \in Worker : WorkerFits(w), worker' = worker \/ ProcessDies,
         history.counted \subseteq history'.counted
  PROVE  \A w \in Worker : WorkerFits(w)'
BY DEF WorkerFits, ProcessDies, Idle

LEMMA StartCharges ==
  ASSUME TypeOK, NEW i \in Item, NEW w \in Worker, CreateItem(i, w) \/ StartOcr(i, w),
         ~user.effective_premium, i \notin history.counted => ~item[i].is_unlocked_selection,
         \A v \in Worker : WorkerFits(v), history.counted \subseteq history'.counted
  PROVE  ChargesNothing /\ \A v \in Worker : WorkerFits(v)'
<1>1. /\ worker \in [Worker -> WorkerState] /\ item \in Rows
      /\ \A v \in Worker \ {w} : worker'[v] = worker[v]
  BY DEF TypeOK, Rows, CreateItem, StartOcr
<1>2. CASE CreateItem(i, w)
  <2>1. ~Charged(item[i])
    BY <1>2 DEF CreateItem, Charged
  <2>2. item'[i] = BlankRow("present") /\ \A j \in Item \ {i} : item'[j] = item[j]
    BY <1>1, <1>2 DEF CreateItem, Rows
  <2>3. ChargesNothing
    BY <1>2, <2>1, <2>2, ChargedOrNot DEF ChargesNothing, CreateItem
  <2>4. worker'[w].kind = "ingest" /\ worker'[w].pc = "reserve"
    BY <1>1, <1>2 DEF CreateItem, Idle
  <2>5. WorkerFits(w)'
    BY <2>4 DEF WorkerFits
  <2> QED BY <1>1, <2>3, <2>5, WorkersStayRight
<1>3. CASE StartOcr(i, w)
  <2>1. i \in history.counted
    BY <1>3 DEF StartOcr, IsSourceUnlocked
  <2>2. worker'[w].item = i
    BY <1>1, <1>3 DEF StartOcr, Idle
  <2>3. WorkerFits(w)'
    BY <2>1, <2>2 DEF WorkerFits
  <2>4. ChargesNothing
    BY <1>3 DEF StartOcr, ChargesNothing
  <2> QED BY <1>1, <2>3, <2>4, WorkersStayRight
<1> QED BY <1>2, <1>3

LEMMA StepKeepsCharges ==
  ASSUME ChargesInv, Step, Remembers(FALSE)
  PROVE  ChargesFit'
<1> SUFFICES ASSUME ~history'.exempt PROVE ChargesFit'
  BY DEF ChargesFit
<1>1. /\ TypeOK /\ ~history.exempt /\ ~user'.effective_premium
      /\ ~user.effective_premium /\ user.lock = "settled"
  BY DEF Remembers, ChargesInv, BooksInv, FreeBooks, TypeOK, HistoryState
<1>2. /\ user.successful_sources_total = Accounted
      /\ \A i \in Item : RowFits(i)
      /\ \A w \in Worker : WorkerFits(w)
      /\ \A r \in Request : request[r].pc = "idle"
  BY <1>1 DEF ChargesInv, ChargesFit
<1>3. CASE \E w \in Worker : Works(w)
  <2>1. PICK w \in Worker : WorkerStep(w) /\ request' = request
    BY <1>3 DEF Works
  <2>2. history.counted \subseteq history'.counted
    BY DEF Remembers, ChargesInv, BooksInv, TypeOK, HistoryState
  <2>3. /\ ChargesNothing \/ \E i \in Item : Charges(i)
        /\ \A v \in Worker \ {w} : worker'[v] = worker[v]
        /\ WorkerFits(w)'
    BY <1>1, <1>2, <2>1, <2>2, WorkerCharges
  <2>4. \A v \in Worker : WorkerFits(v)'
    BY <1>1, <1>2, <2>2, <2>3, WorkersStayRight
  <2> QED BY <2>1, <2>3, <2>4, StepSuffices
<1>4. CASE \E i \in Item, w \in Worker : Uploads(i, w) \/ StartsOcr(i, w)
  <2>1. PICK i \in Item, w \in Worker : (CreateItem(i, w) \/ StartOcr(i, w)) /\ request' = request
    BY <1>4 DEF Uploads, StartsOcr
  <2>2. history.counted \subseteq history'.counted
    BY DEF Remembers, ChargesInv, BooksInv, TypeOK, HistoryState
  <2>3. ChargesNothing /\ \A v \in Worker : WorkerFits(v)'
    BY <1>1, <1>2, <2>1, <2>2, StartCharges DEF RowFits, Uncharged
  <2> QED BY <2>1, <2>3, StepSuffices
<1>5. CASE \E r \in Request : Selects(r)
  <2>1. PICK r \in Request : RequestStep(r)
    BY <1>5 DEF Selects
  <2>2. FALSE
    BY <1>1, <1>2, <2>1 DEF RequestStep, Reconcile, StampPremium, FinalizeLockSelection,
       SetFreeSelection, ClearSelection, SetExplicitSelection, AbortSelection
  <2> QED BY <2>2
<1>6. CASE ChangesTier
  <2>1. PremiumStarts
    BY <1>1, <1>6 DEF ChangesTier, PremiumEnds
  <2>2. user'.effective_premium = TRUE
    BY <1>1, <2>1 DEF PremiumStarts, TypeOK, UserRow
  <2> QED BY <1>1, <2>2
<1>7. CASE \/ \E i \in Item : Deletes(i) \/ RetriesDeletion(i) \/ TimePasses(i)
           \/ Reaps
           \/ Restart
  <2>1. ChargesNothing
    <3>1. CASE Reaps
      BY <1>1, <3>1, ReapChargesNothing DEF Reaps
    <3>2. CASE Restart
      BY <3>2 DEF Restart, ChargesNothing
    <3>3. CASE \E i \in Item : Deletes(i) \/ RetriesDeletion(i) \/ TimePasses(i)
      <4>1. PICK i \in Item : Deletes(i) \/ RetriesDeletion(i) \/ TimePasses(i)
        BY <3>3
      <4>2. \/ DeleteLibraryItem(i)
            \/ i \in Owned /\ (CleanupSucceeds(i) \/ CleanupFails(i))
            \/ LeaseExpires(i) \/ AttemptExpires(i)
        BY <4>1 DEF Deletes, RetriesDeletion, TimePasses, FinishItemDeletionCleanup,
           RetryItemDeletions
      <4> QED BY <1>1, <4>2, OthersChargeNothing
    <3> QED BY <1>7, <3>1, <3>2, <3>3
  <2>2. /\ worker' = worker \/ ProcessDies
        /\ request' = request \/ ProcessDies
    BY <1>7 DEF Deletes, RetriesDeletion, TimePasses, Reaps, Restart
  <2> QED BY <1>1, <1>2, <2>1, <2>2, IdleOrSame, StepSuffices
<1> QED BY <1>3, <1>4, <1>5, <1>6, <1>7 DEF Step

LEMMA InitCharges ==
  ASSUME Init
  PROVE  ChargesInv
<1>1. BooksInv
  BY InitBooks
<1>2. \A i \in Item : item[i] = BlankRow("absent")
  BY DEF Init
<1>3. history.counted = {} /\ user.successful_sources_total = history.carried
  BY DEF Init
<1>4. history.carried \in Nat
  BY <1>1 DEF BooksInv, TypeOK, HistoryState
<1>5. user.successful_sources_total = Accounted
  BY <1>3, <1>4, FS_EmptySet DEF Accounted
<1>6. \A i \in Item : RowFits(i)
  BY <1>2, <1>3 DEF RowFits, Uncharged, BlankRow
<1>7. /\ \A w \in Worker : WorkerFits(w)
      /\ \A r \in Request : request[r].pc = "idle"
  BY DEF Init, WorkerFits, Idle, IdleRequest
<1> QED BY <1>1, <1>5, <1>6, <1>7 DEF ChargesInv, ChargesFit

LEMMA NextCharges ==
  ASSUME ChargesInv, [Next]_vars
  PROVE  ChargesInv'
<1>1. BooksInv'
  BY NextKeepsBooks DEF ChargesInv
<1>2. CASE UNCHANGED vars
  BY <1>1, <1>2 DEF vars, ChargesInv, ChargesFit, Accounted, RowFits, WorkerFits
<1>3. CASE Step /\ Remembers(FALSE)
  BY <1>1, <1>3, StepKeepsCharges DEF ChargesInv
<1>4. CASE RestartBackfills /\ Remembers(TRUE)
  <2>1. history.exempt
    BY <1>4 DEF RestartBackfills, BackfillOne, ChargesInv, BooksInv, FreeBooks
  <2>2. history'.exempt
    BY <1>4, <2>1 DEF Remembers, ChargesInv, BooksInv, TypeOK, HistoryState
  <2> QED BY <1>1, <2>2 DEF ChargesInv, ChargesFit
<1> QED BY <1>2, <1>3, <1>4 DEF Next

LEMMA ChargesInvariant == Spec => []ChargesInv
  BY InitCharges, NextCharges, PTL DEF Spec

\* finalize_successful_processing charges each source of an account Free all
\* along once, whatever retries, restarts, lapses and deletions there were, and
\* nothing refunds it.
THEOREM ChargedOnce == Spec => []ChargedExactlyOnce
<1>1. ChargesInv => ChargedExactlyOnce
  BY DEF ChargesInv, ChargesFit, ChargedExactlyOnce
<1> QED BY <1>1, ChargesInvariant, PTL

\* And none is processed that was not charged.
THEOREM NothingForFree == Spec => []NoFreeRide
<1>1. ChargesInv => NoFreeRide
  BY DEF ChargesInv, ChargesFit, NoFreeRide, RowFits, Uncharged, Owned
<1> QED BY <1>1, ChargesInvariant, PTL

-----------------------------------------------------------------------------
(* What a step does to an account, of any tier: the transactions that move  *)
(* its counters, its statuses and its tombstones, and nothing else does.    *)

Quiet ==
  /\ user'.successful_sources_total = user.successful_sources_total
  /\ user'.reserved_sources_count = user.reserved_sources_count
  /\ \A i \in Item : /\ item'[i].row = item[i].row
                     /\ item'[i].deletion_state = item[i].deletion_state
                     /\ item'[i].entitlement_status = item[i].entitlement_status

Reserves ==
  \E i \in Owned, t \in Token :
    /\ ~HasActiveReservation(i)
    /\ GrantPremium(i, t) \/ GrantSlot(i, t) \/ RefuseSlot(i)

Converts == \E i \in Owned : Convert(i)

Releases == \E i \in Owned, lease \in Tokens : ReleaseReservation(i, lease)

Tombstones == \E i \in Item : DeleteLibraryItem(i)

Creates ==
  /\ user' = user
  /\ \E i \in Item : /\ item[i].row = "absent"
                     /\ item' = [item EXCEPT ![i] = BlankRow("present")]

Cleans == \E i \in Owned : Tombstoned(i) /\ (CleanupSucceeds(i) \/ CleanupFails(i))

Settles == \E r \in Request : FinalizeLockSelection(r)

LEMMA RowsRewritten ==
  ASSUME TypeOK, UNCHANGED user, NEW i \in Item, NEW r \in ItemRow,
         item' = [item EXCEPT ![i] = r],
         r.row = item[i].row, r.deletion_state = item[i].deletion_state,
         r.entitlement_status = item[i].entitlement_status
  PROVE  Quiet
<1>1. item \in Rows
  BY DEF TypeOK, Rows
<1>2. item'[i] = r /\ \A j \in Item \ {i} : item'[j] = item[j]
  BY <1>1 DEF Rows
<1> QED BY <1>2 DEF Quiet

LEMMA AdmissionQuiet ==
  ASSUME TypeOK, NEW w \in Worker, NEW lease, AdmitWorkerAttempt(w, lease)
  PROVE  Quiet
<1> DEFINE i == worker[w].item
           t == NewToken(i)
           r == [item[i] EXCEPT !.worker_attempt_id = t, !.attempt_live = TRUE,
                                !.last_processing_attempt_id = t]
<1>1. CASE RefuseAdmission(w)
  BY <1>1 DEF RefuseAdmission, Quiet
<1>2. CASE AdmitAttempt(w, lease) \/ AdmitOcrAttempt(w)
  <2>1. /\ i \in Item /\ t \in Token /\ UNCHANGED user
        /\ item' = [item EXCEPT ![i].worker_attempt_id = t,
                                ![i].attempt_live = TRUE,
                                ![i].last_processing_attempt_id = t]
    BY <1>2 DEF AdmitAttempt, AdmitOcrAttempt, Admissible, Owned, MintsFresh
  <2> HIDE DEF t, i
  <2>2. item' = [item EXCEPT ![i] = r]
    BY <2>1 DEF TypeOK
  <2>3. /\ r \in ItemRow /\ r.row = item[i].row /\ r.deletion_state = item[i].deletion_state
        /\ r.entitlement_status = item[i].entitlement_status
    BY <2>1 DEF TypeOK, ItemRow
  <2> HIDE DEF r
  <2> QED BY <2>1, <2>2, <2>3, RowsRewritten
<1> QED BY <1>1, <1>2 DEF AdmitWorkerAttempt

LEMMA RenewalQuiet ==
  ASSUME TypeOK, NEW w \in Worker, UNCHANGED user, item' = RenewedRows(w)
  PROVE  Quiet
<1> DEFINE attempt == RenewsAttempt(w)
           lease == worker[w].lease_token # None /\ RenewsLease(w)
           i == worker[w].item
<1>1. item' = [item EXCEPT ![i].attempt_live = @ \/ attempt, ![i].lease_live = @ \/ lease]
  BY DEF RenewedRows
<1> HIDE DEF attempt, lease, i
<1> QED BY <1>1 DEF TypeOK, ItemRow, Quiet

LEMMA SmallWritesQuiet ==
  ASSUME TypeOK, UNCHANGED user, NEW i,
         \/ UNCHANGED item
         \/ \E processed : item' = [item EXCEPT ![i].processed = processed]
         \/ item' = [item EXCEPT ![i].worker_attempt_id = None, ![i].attempt_live = FALSE]
         \/ item' = [item EXCEPT ![i].lease_live = FALSE]
         \/ item' = [item EXCEPT ![i].attempt_live = FALSE]
  PROVE  Quiet
<1>1. CASE UNCHANGED item
  BY <1>1 DEF Quiet
<1>2. CASE \E processed : item' = [item EXCEPT ![i].processed = processed]
  BY <1>2 DEF TypeOK, ItemRow, Quiet
<1>3. CASE item' = [item EXCEPT ![i].worker_attempt_id = None, ![i].attempt_live = FALSE]
  BY <1>3 DEF TypeOK, ItemRow, Quiet
<1>4. CASE \/ item' = [item EXCEPT ![i].lease_live = FALSE]
           \/ item' = [item EXCEPT ![i].attempt_live = FALSE]
  BY <1>4 DEF TypeOK, ItemRow, Quiet
<1> QED BY <1>1, <1>2, <1>3, <1>4

LEMMA WorkerAccount ==
  ASSUME TypeOK, NEW w \in Worker, WorkerStep(w)
  PROVE  Quiet \/ Reserves \/ Converts \/ Releases
<1> DEFINE i == worker[w].item
           t == NewToken(i)
<1>0. UNCHANGED <<user, item>> => Quiet
  BY SmallWritesQuiet
<1>1. CASE Reserve(w) \/ Admit(w)
  <2>1. \/ UNCHANGED <<user, item>>
        \/ \E lease : AdmitWorkerAttempt(w, lease)
        \/ /\ i \in Owned /\ ~HasActiveReservation(i) /\ t \in Token
           /\ GrantPremium(i, t) \/ GrantSlot(i, t) \/ RefuseSlot(i)
    BY <1>1 DEF Reserve, Admit, ReserveMissing, ReserveActive, ReserveNew, MintsFresh
  <2> HIDE DEF i, t
  <2> QED BY <1>0, <2>1, AdmissionQuiet DEF Reserves
<1>2. CASE Heartbeat(w) \/ PassLastCheck(w) \/ LoseOwnership(w)
  BY <1>0, <1>2, RenewalQuiet DEF Heartbeat, PassLastCheck, LoseOwnership
<1>3. CASE ScanNeedsOcr(w) \/ BeginOcr(w) \/ WorkFails(w) \/ ReleaseWorkerAttempt(w)
  <2>1. \/ UNCHANGED item
        \/ \E processed : item' = [item EXCEPT ![i].processed = processed]
        \/ item' = [item EXCEPT ![i].worker_attempt_id = None, ![i].attempt_live = FALSE]
    BY <1>3 DEF ScanNeedsOcr, BeginOcr, WorkFails, ReleaseWorkerAttempt
  <2>2. UNCHANGED user
    BY <1>3 DEF ScanNeedsOcr, BeginOcr, WorkFails, ReleaseWorkerAttempt
  <2> HIDE DEF i
  <2> QED BY <2>1, <2>2, SmallWritesQuiet
<1>4. CASE Finalize(w) \/ ConvertAfterReserve(w)
  <2>1. \/ UNCHANGED <<user, item>>
        \/ i \in Owned /\ Convert(i)
        \/ /\ i \in Owned /\ ~HasActiveReservation(i) /\ t \in Token
           /\ GrantPremium(i, t) \/ GrantSlot(i, t) \/ RefuseSlot(i)
    BY <1>4 DEF Finalize, FinalizeSkips, FinalizeAccepts, FinalizeReserves, FinalizeRefused,
       ConvertAfterReserve, MintsFresh
  <2> HIDE DEF i, t
  <2> QED BY <1>0, <2>1 DEF Reserves, Converts
<1>5. CASE ReleaseAfterFailure(w)
  <2>1. \/ UNCHANGED <<user, item>>
        \/ i \in Owned /\ ReleaseReservation(i, worker[w].lease_token)
    BY <1>5 DEF ReleaseAfterFailure, ReleaseReservation, MayRelease, Pending
  <2>2. worker[w].lease_token \in Tokens
    BY SlotTyped
  <2> HIDE DEF i
  <2> QED BY <1>0, <2>1, <2>2 DEF Releases
<1> QED BY <1>1, <1>2, <1>3, <1>4, <1>5 DEF WorkerStep, Progress

LEMMA RequestAccount ==
  ASSUME TypeOK, NEW r \in Request, RequestStep(r), ~FinalizeLockSelection(r)
  PROVE  Quiet
<1>1. CASE SetExplicitSelection(r)
  BY <1>1 DEF SetExplicitSelection, TypeOK, ItemRow, Quiet
<1>2. CASE StampPremium(r)
  BY <1>2 DEF StampPremium, TypeOK, UserRow, Quiet
<1>3. CASE UNCHANGED <<user, item>>
  BY <1>3, SmallWritesQuiet
<1> QED BY <1>1, <1>2, <1>3 DEF RequestStep, Reconcile, SetFreeSelection, ClearSelection,
        AbortSelection

LEMMA StepAccount ==
  ASSUME TypeOK, Step
  PROVE  \/ Quiet \/ Reserves \/ Converts \/ Releases \/ Tombstones \/ Creates \/ Cleans
         \/ Settles \/ ReapAllStaleReservations
<1>0. UNCHANGED <<user, item>> => Quiet
  BY SmallWritesQuiet
<1>1. CASE \E w \in Worker : Works(w)
  BY <1>1, WorkerAccount DEF Works
<1>2. CASE \E i \in Item, w \in Worker : Uploads(i, w) \/ StartsOcr(i, w)
  BY <1>0, <1>2 DEF Uploads, StartsOcr, CreateItem, StartOcr, Creates
<1>3. CASE \E r \in Request : Selects(r)
  BY <1>3, RequestAccount DEF Selects, Settles
<1>4. CASE ChangesTier
  BY <1>4 DEF ChangesTier, PremiumStarts, PremiumEnds, TypeOK, UserRow, Quiet
<1>5. CASE \E i \in Item : Deletes(i) \/ RetriesDeletion(i)
  BY <1>5 DEF Deletes, RetriesDeletion, FinishItemDeletionCleanup, RetryItemDeletions,
     Tombstones, Cleans, Tombstoned
<1>6. CASE \E i \in Item : TimePasses(i)
  BY <1>6, SmallWritesQuiet DEF TimePasses, LeaseExpires, AttemptExpires
<1>7. CASE Reaps \/ Restart
  BY <1>0, <1>7 DEF Reaps, Restart
<1> QED BY <1>1, <1>2, <1>3, <1>4, <1>5, <1>6, <1>7 DEF Step

-----------------------------------------------------------------------------
(* The total never falls behind what was charged, whatever the tier.        *)

ConsumedRows == {i \in Item : item[i].entitlement_status = "consumed"}

\* A step that makes the sources S 'consumed' raises the total by as many.
PaysFor(S) ==
  /\ user'.successful_sources_total = user.successful_sources_total + Cardinality(S)
  /\ ConsumedRows' \subseteq ConsumedRows \cup S

\* history.counted must be known to hold every row that is 'consumed' already.
PaidInv ==
  /\ TypeOK
  /\ ConsumedRows \subseteq history.counted
  /\ NeverUndercharged

LEMMA PayingKeepsPaid ==
  ASSUME PaidInv, NEW S \in SUBSET Item, PaysFor(S), Remembers(FALSE), TypeOK'
  PROVE  PaidInv'
<1>1. /\ history.counted \subseteq Item
      /\ history'.carried = history.carried /\ history.carried \in Nat
      /\ history'.backfilled = history.backfilled
      /\ history'.counted = history.counted \cup ConsumedRows'
  BY DEF Remembers, PaidInv, TypeOK, HistoryState, ConsumedRows
<1>2. history'.counted \subseteq history.counted \cup S
  BY <1>1 DEF PaidInv, PaysFor
<1>3. /\ IsFiniteSet(history.counted) /\ Cardinality(history.counted) \in Nat
      /\ IsFiniteSet(S) /\ Cardinality(S) \in Nat
      /\ IsFiniteSet(history.counted \cup S) /\ Cardinality(history.counted \cup S) \in Nat
      /\ IsFiniteSet(history'.counted) /\ Cardinality(history'.counted) \in Nat
  <2>1. history.counted \cup S \subseteq Item /\ history'.counted \subseteq Item
    BY <1>1, <1>2
  <2> QED BY <1>1, <2>1, SourceSetsFinite
<1>4. Cardinality(history'.counted) <= Cardinality(history.counted \cup S)
  BY <1>2, <1>3, FS_Subset
<1>5. Cardinality(history.counted \cup S) <= Cardinality(history.counted) + Cardinality(S)
  <2>1. /\ Cardinality(history.counted \cup S)
             = Cardinality(history.counted) + Cardinality(S)
                 - Cardinality(history.counted \cap S)
        /\ Cardinality(history.counted \cap S) \in Nat
    BY <1>3, FS_Union, FS_Intersection, FS_CardinalityType
  <2> QED BY <1>3, <2>1
<1>6. NeverUndercharged'
  BY <1>1, <1>3, <1>4, <1>5, UserTyped DEF PaidInv, PaysFor, NeverUndercharged, Accounted
<1> QED BY <1>1, <1>6 DEF PaidInv

LEMMA NothingPaid ==
  ASSUME TypeOK, user'.successful_sources_total = user.successful_sources_total,
         ConsumedRows' \subseteq ConsumedRows
  PROVE  PaysFor({})
<1>1. Cardinality({}) = 0
  BY FS_EmptySet
<1> QED BY <1>1, UserTyped DEF PaysFor

LEMMA ReapStatus ==
  ASSUME TypeOK, NEW i \in Item
  PROVE  /\ i \in StaleReservations =>
              /\ ReapedRows[i].entitlement_status = "released"
              /\ Pending(i)
         /\ i \notin StaleReservations => ReapedRows[i] = item[i]
         /\ ReapedRows[i].row = item[i].row
         /\ ReapedRows[i].deletion_state = item[i].deletion_state
  BY DEF ReapedRows, StaleReservations, TypeOK, ItemRow

\* reserve_free_capacity writes the row of its source, over the reaper's rows.
LEMMA ReservesRows ==
  ASSUME TypeOK, NEW i \in Item, NEW t \in Token,
         GrantPremium(i, t) \/ GrantSlot(i, t) \/ RefuseSlot(i)
  PROVE  /\ user'.successful_sources_total = user.successful_sources_total
         /\ \A j \in Item \ {i} : item'[j] = ReapedRows[j]
         /\ item'[i].row = item[i].row /\ item'[i].deletion_state = item[i].deletion_state
         /\ GrantPremium(i, t) => item'[i].entitlement_status = "premium"
         /\ GrantSlot(i, t) => item'[i].entitlement_status = "pending"
         /\ RefuseSlot(i) => item'[i].entitlement_status = "rejected"
<1>1. ReapedRows \in Rows /\ user \in UserRow
  BY ReapTyped DEF TypeOK
<1>2. ReapedRows[i].row = item[i].row /\ ReapedRows[i].deletion_state = item[i].deletion_state
  BY ReapStatus
<1>3. user'.successful_sources_total = user.successful_sources_total
  BY <1>1 DEF GrantPremium, GrantSlot, RefuseSlot, UserRow
<1> DEFINE rows == ReapedRows
<1>4. CASE GrantPremium(i, t)
  <2>1. item' = [rows EXCEPT ![i].entitlement_status = "premium",
                             ![i].reservation_lease_token = None,
                             ![i].lease_live = FALSE,
                             ![i].last_processing_attempt_id = t]
    BY <1>4 DEF GrantPremium
  <2>2. user.effective_premium
    BY <1>4 DEF GrantPremium
  <2> HIDE DEF rows
  <2>3. rows \in Rows /\ rows[i].row = item[i].row /\ rows[i].deletion_state = item[i].deletion_state
    BY <1>1, <1>2 DEF rows
  <2>4. /\ \A j \in Item \ {i} : item'[j] = rows[j]
        /\ item'[i].row = item[i].row /\ item'[i].deletion_state = item[i].deletion_state
        /\ item'[i].entitlement_status = "premium"
    BY <2>1, <2>3 DEF Rows, ItemRow
  <2> QED BY <1>3, <2>2, <2>4 DEF rows, GrantSlot, RefuseSlot
<1>5. CASE GrantSlot(i, t)
  <2>1. item' = [rows EXCEPT ![i].entitlement_status = "pending",
                             ![i].reservation_lease_token = t,
                             ![i].lease_live = TRUE,
                             ![i].last_processing_attempt_id = t]
    BY <1>5 DEF GrantSlot
  <2>2. ~user.effective_premium /\ SlotFree
    BY <1>5 DEF GrantSlot
  <2> HIDE DEF rows
  <2>3. rows \in Rows /\ rows[i].row = item[i].row /\ rows[i].deletion_state = item[i].deletion_state
    BY <1>1, <1>2 DEF rows
  <2>4. /\ \A j \in Item \ {i} : item'[j] = rows[j]
        /\ item'[i].row = item[i].row /\ item'[i].deletion_state = item[i].deletion_state
        /\ item'[i].entitlement_status = "pending"
    BY <2>1, <2>3 DEF Rows, ItemRow
  <2> QED BY <1>3, <2>2, <2>4 DEF rows, GrantPremium, RefuseSlot
<1>6. CASE RefuseSlot(i)
  <2>1. item' = [rows EXCEPT ![i].entitlement_status = "rejected"]
    BY <1>6 DEF RefuseSlot
  <2>2. ~user.effective_premium /\ ~SlotFree
    BY <1>6 DEF RefuseSlot
  <2> HIDE DEF rows
  <2>3. rows \in Rows /\ rows[i].row = item[i].row /\ rows[i].deletion_state = item[i].deletion_state
    BY <1>1, <1>2 DEF rows
  <2>4. /\ \A j \in Item \ {i} : item'[j] = rows[j]
        /\ item'[i].row = item[i].row /\ item'[i].deletion_state = item[i].deletion_state
        /\ item'[i].entitlement_status = "rejected"
    BY <2>1, <2>3 DEF Rows, ItemRow
  <2> QED BY <1>3, <2>2, <2>4 DEF rows, GrantPremium, GrantSlot
<1> QED BY <1>4, <1>5, <1>6

\* The conversion: of a slot, which is charged, or of a source that needs none.
LEMMA ConvertsRow ==
  ASSUME TypeOK, NEW i \in Item, Convert(i)
  PROVE  /\ \A j \in Item \ {i} : item'[j] = item[j]
         /\ item'[i].row = item[i].row /\ item'[i].deletion_state = item[i].deletion_state
         /\ \/ /\ item[i].entitlement_status = "pending"
               /\ item'[i].entitlement_status = "consumed"
               /\ user'.successful_sources_total = user.successful_sources_total + 1
               /\ user'.reserved_sources_count = user.reserved_sources_count - 1
            \/ /\ item[i].entitlement_status # "pending"
               /\ item'[i].entitlement_status = "premium"
               /\ user' = user
<1>1. item \in Rows /\ user \in UserRow
  BY DEF TypeOK, Rows
<1>2. CASE ConvertPending(i)
  <2> DEFINE room == AutoUnlocks
  <2>1. /\ item' = [item EXCEPT ![i].processed = TRUE,
                                ![i].reservation_lease_token = None,
                                ![i].lease_live = FALSE,
                                ![i].entitlement_status = "consumed",
                                ![i].is_unlocked_selection = @ \/ room]
        /\ user' = [user EXCEPT !.reserved_sources_count = @ - 1,
                                !.successful_sources_total = @ + 1,
                                !.lock = IF room THEN "settled" ELSE @]
        /\ item[i].entitlement_status = "pending"
    BY <1>2 DEF ConvertPending
  <2> HIDE DEF room
  <2>2. /\ \A j \in Item \ {i} : item'[j] = item[j]
        /\ item'[i].row = item[i].row /\ item'[i].deletion_state = item[i].deletion_state
        /\ item'[i].entitlement_status = "consumed"
    BY <1>1, <2>1 DEF Rows, ItemRow
  <2>3. /\ user'.successful_sources_total = user.successful_sources_total + 1
        /\ user'.reserved_sources_count = user.reserved_sources_count - 1
    BY <1>1, <2>1 DEF UserRow
  <2> QED BY <2>1, <2>2, <2>3
<1>3. CASE ConvertExempt(i)
  BY <1>1, <1>3 DEF ConvertExempt, Rows, ItemRow
<1> QED BY <1>2, <1>3 DEF Convert

LEMMA ReleasesRow ==
  ASSUME TypeOK, NEW i \in Item, NEW lease, ReleaseReservation(i, lease)
  PROVE  /\ \A j \in Item \ {i} : item'[j] = item[j]
         /\ item'[i].row = item[i].row /\ item'[i].deletion_state = item[i].deletion_state
         /\ Pending(i) /\ item'[i].entitlement_status = "released"
         /\ user'.successful_sources_total = user.successful_sources_total
         /\ user'.reserved_sources_count = user.reserved_sources_count - 1
<1>1. item \in Rows /\ user \in UserRow
  BY DEF TypeOK, Rows
<1>2. /\ item' = [item EXCEPT ![i].entitlement_status = "released",
                              ![i].reservation_lease_token = None,
                              ![i].lease_live = FALSE]
      /\ user' = [user EXCEPT !.reserved_sources_count = @ - 1]
      /\ Pending(i)
  BY DEF ReleaseReservation, MayRelease
<1> QED BY <1>1, <1>2 DEF Rows, ItemRow, UserRow

LEMMA TombstonesRow ==
  ASSUME TypeOK, NEW i \in Item, DeleteLibraryItem(i)
  PROVE  /\ \A j \in Item \ {i} : item'[j] = item[j]
         /\ i \in Owned /\ ~Tombstoned(i)
         /\ item'[i].row = item[i].row /\ item'[i].deletion_state = "pending"
         /\ item'[i].entitlement_status = item[i].entitlement_status
         /\ user'.successful_sources_total = user.successful_sources_total
         /\ user'.reserved_sources_count =
              IF Pending(i) THEN user.reserved_sources_count - 1
              ELSE user.reserved_sources_count
<1>1. item \in Rows /\ user \in UserRow
  BY DEF TypeOK, Rows
<1> QED BY <1>1 DEF DeleteLibraryItem, Rows, ItemRow, UserRow

LEMMA CleansRow ==
  ASSUME TypeOK, NEW i \in Owned, CleanupSucceeds(i) \/ CleanupFails(i)
  PROVE  /\ \A j \in Item \ {i} : item'[j] = item[j]
         /\ user' = user
         /\ \/ item'[i].row = "deleted" /\ item'[i].entitlement_status = "none"
            \/ /\ item'[i].row = item[i].row /\ item'[i].deletion_state = "failed"
               /\ item'[i].entitlement_status = item[i].entitlement_status
<1>1. item \in Rows /\ i \in Item
  BY DEF TypeOK, Rows, Owned
<1>2. CASE CleanupSucceeds(i)
  BY <1>1, <1>2 DEF CleanupSucceeds, Rows, BlankRow
<1>3. CASE CleanupFails(i)
  BY <1>1, <1>3 DEF CleanupFails, Rows, ItemRow
<1> QED BY <1>2, <1>3

LEMMA CreatesRow ==
  ASSUME TypeOK, NEW i \in Item, item' = [item EXCEPT ![i] = BlankRow("present")]
  PROVE  /\ \A j \in Item \ {i} : item'[j] = item[j]
         /\ item'[i].row = "present" /\ item'[i].entitlement_status = "none"
  BY DEF TypeOK, Rows, BlankRow

LEMMA SettlingPays ==
  ASSUME TypeOK, NEW r \in Request, FinalizeLockSelection(r)
  PROVE  \E S \in SUBSET Item : PaysFor(S)
<1>0. ASSUME NEW kept \in Keeps, NEW fill \in Fills(kept), NEW P \in Promotions(kept, fill)
      PROVE  P \in SUBSET Item
  BY PromotionsInItem
<1>1. PICK promoted \in SUBSET Item :
        /\ \E chosen : item' = Selecting(Promoted(promoted), chosen)
        /\ user' = [user EXCEPT !.successful_sources_total = @ + Cardinality(promoted),
                                !.lock = "settled"]
  BY <1>0 DEF FinalizeLockSelection
<1>3. user'.successful_sources_total = user.successful_sources_total + Cardinality(promoted)
  BY <1>1 DEF TypeOK, UserRow
<1>4. Promoted(promoted) \in Rows
  BY PromotedTyped
<1>5. ConsumedRows' \subseteq ConsumedRows \cup promoted
  <2> SUFFICES ASSUME NEW i \in Item, i \notin promoted,
                      item'[i].entitlement_status = "consumed"
               PROVE  item[i].entitlement_status = "consumed"
    BY DEF ConsumedRows
  <2>1. item'[i].entitlement_status = Promoted(promoted)[i].entitlement_status
    BY <1>1, <1>4 DEF Selecting, Rows, ItemRow
  <2>2. Promoted(promoted)[i] = item[i]
    BY DEF Promoted
  <2> QED BY <2>1, <2>2
<1> QED BY <1>3, <1>5 DEF PaysFor

LEMMA StepPays ==
  ASSUME TypeOK, Step
  PROVE  \E S \in SUBSET Item : PaysFor(S)
<1>1. CASE Quiet
  <2>1. ConsumedRows' \subseteq ConsumedRows
    BY <1>1 DEF Quiet, ConsumedRows
  <2> QED BY <1>1, <2>1, NothingPaid DEF Quiet
<1>2. CASE Reserves
  <2>1. PICK i \in Owned, t \in Token : GrantPremium(i, t) \/ GrantSlot(i, t) \/ RefuseSlot(i)
    BY <1>2 DEF Reserves
  <2>2. i \in Item
    BY DEF Owned
  <2>3. /\ user'.successful_sources_total = user.successful_sources_total
        /\ \A j \in Item \ {i} : item'[j] = ReapedRows[j]
        /\ item'[i].entitlement_status # "consumed"
    BY <2>1, <2>2, ReservesRows
  <2>4. ConsumedRows' \subseteq ConsumedRows
    BY <2>2, <2>3, ReapStatus DEF ConsumedRows
  <2> QED BY <2>3, <2>4, NothingPaid
<1>3. CASE Converts
  <2>1. PICK i \in Item : Convert(i)
    BY <1>3 DEF Converts, Owned
  <2>2. CASE user' = user /\ item'[i].entitlement_status # "consumed"
    <3>1. ConsumedRows' \subseteq ConsumedRows
      BY <2>1, <2>2, ConvertsRow DEF ConsumedRows
    <3> QED BY <2>2, <3>1, NothingPaid
  <2>3. CASE user'.successful_sources_total = user.successful_sources_total + 1
    <3>1. ConsumedRows' \subseteq ConsumedRows \cup {i}
      BY <2>1, ConvertsRow DEF ConsumedRows
    <3>2. Cardinality({i}) = 1
      BY FS_Singleton
    <3> QED BY <2>3, <3>1, <3>2 DEF PaysFor
  <2>4. \/ user' = user /\ item'[i].entitlement_status # "consumed"
        \/ user'.successful_sources_total = user.successful_sources_total + 1
    <3>1. "premium" # "consumed"
      OBVIOUS
    <3> QED BY <2>1, <3>1, ConvertsRow
  <2> QED BY <2>2, <2>3, <2>4
<1>4. CASE Settles
  BY <1>4, SettlingPays DEF Settles
<1>5. CASE ReapAllStaleReservations
  <2>1. user'.successful_sources_total = user.successful_sources_total
    BY <1>5 DEF ReapAllStaleReservations, TypeOK, UserRow
  <2>2. ConsumedRows' \subseteq ConsumedRows
    BY <1>5, ReapStatus DEF ReapAllStaleReservations, ConsumedRows
  <2> QED BY <2>1, <2>2, NothingPaid
<1>6. CASE Releases \/ Tombstones \/ Creates \/ Cleans
  <2>1. PICK i \in Item :
          \/ \E lease : ReleaseReservation(i, lease)
          \/ DeleteLibraryItem(i)
          \/ user' = user /\ item' = [item EXCEPT ![i] = BlankRow("present")]
          \/ i \in Owned /\ (CleanupSucceeds(i) \/ CleanupFails(i))
    BY <1>6 DEF Releases, Tombstones, Creates, Cleans, Owned
  <2>2. /\ \A j \in Item \ {i} : item'[j] = item[j]
        /\ user'.successful_sources_total = user.successful_sources_total
        /\ item'[i].entitlement_status \in {item[i].entitlement_status, "released", "none"}
    BY <2>1, ReleasesRow, TombstonesRow, CreatesRow, CleansRow
  <2>3. ConsumedRows' \subseteq ConsumedRows
    BY <2>2 DEF ConsumedRows
  <2> QED BY <2>2, <2>3, NothingPaid
<1> QED BY <1>1, <1>2, <1>3, <1>4, <1>5, <1>6, StepAccount

LEMMA NextPays ==
  ASSUME PaidInv, [Next]_vars
  PROVE  PaidInv'
<1>1. TypeOK /\ TypeOK'
  BY NextTyped DEF PaidInv
<1>2. CASE UNCHANGED vars
  BY <1>1, <1>2 DEF vars, PaidInv, ConsumedRows, NeverUndercharged, Accounted
<1>3. CASE Step /\ Remembers(FALSE)
  BY <1>1, <1>3, StepPays, PayingKeepsPaid
<1>4. CASE RestartBackfills /\ Remembers(TRUE)
  <2>1. history'.backfilled /\ history'.counted = history.counted \cup ConsumedRows'
    BY <1>1, <1>4 DEF Remembers, TypeOK, HistoryState, ConsumedRows
  <2> QED BY <1>1, <2>1 DEF PaidInv, NeverUndercharged
<1> QED BY <1>2, <1>3, <1>4 DEF Next

\* Whatever the tier, however often it changes and whoever settles it, the
\* lifetime total covers every source that was ever charged, until the boot-time
\* backfill rewrites it: no path marks a source counted without counting it.
THEOREM NeverBehind == Spec => []NeverUndercharged
<1>1. Init => PaidInv
  <2> SUFFICES ASSUME Init PROVE PaidInv
    OBVIOUS
  <2>1. history.counted = {} /\ user.successful_sources_total = history.carried
    BY DEF Init
  <2>2. ConsumedRows = {}
    BY DEF Init, BlankRow, ConsumedRows
  <2>3. Cardinality({}) = 0 /\ history.carried \in Nat
    BY FS_EmptySet, InitTyped DEF TypeOK, HistoryState
  <2> QED BY <2>1, <2>2, <2>3, InitTyped DEF PaidInv, NeverUndercharged, Accounted
<1>2. PaidInv /\ [Next]_vars => PaidInv'
  BY NextPays
<1>3. PaidInv => NeverUndercharged
  BY DEF PaidInv
<1> QED BY <1>1, <1>2, <1>3, PTL DEF Spec

-----------------------------------------------------------------------------
(* reserved_sources_count and the rows it stands for.  Slots that a step    *)
(* takes and gives back are counted against rows that are 'pending' before  *)
(* or after; a tombstone in between moves a row from Held to Orphaned.      *)

Slotted == {i \in Item : Pending(i)}

SlotsTaken == Slotted' \ Slotted
SlotsGiven == {i \in Slotted : i \in Owned' /\ i \notin Slotted'}

\* A step that moves reserved_sources_count with the slots, and leaves the
\* tombstones of the rows that hold one; only a tombstoned row may go.
SlotStep ==
  /\ user'.reserved_sources_count =
       user.reserved_sources_count + Cardinality(SlotsTaken) - Cardinality(SlotsGiven)
  /\ \A i \in Slotted : IF i \in Owned' THEN Tombstoned(i)' <=> Tombstoned(i)
                                        ELSE Tombstoned(i)

LEMMA DisjointCount ==
  ASSUME NEW A \in SUBSET Item, NEW B \in SUBSET Item, A \cap B = {}
  PROVE  /\ Cardinality(A \cup B) = Cardinality(A) + Cardinality(B)
         /\ Cardinality(A) \in Nat /\ Cardinality(B) \in Nat
         /\ Cardinality(A \cup B) \in Nat
<1>1. IsFiniteSet(A) /\ IsFiniteSet(B)
  BY SourceSetsFinite
<1>2. /\ Cardinality(A \cup B) = Cardinality(A) + Cardinality(B) - Cardinality(A \cap B)
      /\ Cardinality(A \cap B) = 0
  BY <1>1, FS_Union, FS_EmptySet
<1>3. A \cup B \in SUBSET Item
  OBVIOUS
<1> QED BY <1>2, <1>3, SourceSetsFinite

LEMMA SlotStepLedger ==
  ASSUME TypeOK, TypeOK', SlotStep
  PROVE  Drift' - Drift =
           Cardinality(Orphaned' \ (Orphaned \cup Held))
           - Cardinality({i \in Orphaned : i \in Owned' /\ i \notin Orphaned'})
<1> DEFINE TO == Orphaned' \ (Orphaned \cup Held)
           GO == {i \in Orphaned : i \in Owned' /\ i \notin Orphaned'}
           TH == SlotsTaken \ TO
           GH == SlotsGiven \ GO
           Stayed == Held \ GH
<1>1. /\ Held \subseteq Item /\ Held' \subseteq Item /\ SlotsTaken \subseteq Item
      /\ SlotsGiven \subseteq Item /\ TO \subseteq Item /\ GO \subseteq Item
  BY DEF Held, Orphaned, Owned, SlotsTaken, SlotsGiven, Slotted
<1>2. /\ Held = {i \in Item : Pending(i) /\ ~Tombstoned(i)}
      /\ Orphaned = {i \in Item : Pending(i) /\ Tombstoned(i)}
      /\ Held' = {i \in Item : Pending(i)' /\ ~Tombstoned(i)'}
      /\ Orphaned' = {i \in Item : Pending(i)' /\ Tombstoned(i)'}
  BY DEF Held, Orphaned, Owned, Pending
<1>3. /\ SlotsTaken = {i \in Item : Pending(i)' /\ ~Pending(i)}
      /\ SlotsGiven = {i \in Item : Pending(i) /\ i \in Owned' /\ ~Pending(i)'}
  BY DEF SlotsTaken, SlotsGiven, Slotted
<1>4. ASSUME NEW i \in Item, Pending(i)
      PROVE  IF i \in Owned' THEN Tombstoned(i)' <=> Tombstoned(i) ELSE Tombstoned(i)
  BY <1>4 DEF SlotStep, Slotted
<1>5. \A i \in Item : Pending(i)' => i \in Owned'
  BY DEF Pending
<1>6. TO \subseteq SlotsTaken
  BY <1>2, <1>3
<1>7. GO \subseteq SlotsGiven
  BY <1>2, <1>3, <1>4
<1>8. GH \subseteq Held
  BY <1>2, <1>3, <1>4
<1>9. Held' = Stayed \cup TH /\ Stayed \cap TH = {}
  <2>1. TH = {i \in Item : Pending(i)' /\ ~Pending(i) /\ ~Tombstoned(i)'}
    BY <1>2, <1>3
  <2>2. GH = {i \in Item : Pending(i) /\ i \in Owned' /\ ~Pending(i)' /\ ~Tombstoned(i)}
    BY <1>2, <1>3, <1>4
  <2> HIDE DEF TH, GH
  <2> QED BY <1>2, <1>4, <1>5, <2>1, <2>2
<1> HIDE DEF TO, GO, TH, GH, Stayed
<1>10. /\ Cardinality(SlotsTaken) = Cardinality(TO) + Cardinality(TH)
      /\ Cardinality(TO) \in Nat /\ Cardinality(TH) \in Nat
  <2>1. SlotsTaken = TO \cup TH /\ TO \cap TH = {} /\ TH \subseteq Item
    BY <1>1, <1>6 DEF TH
  <2> QED BY <1>1, <2>1, DisjointCount
<1>11. /\ Cardinality(SlotsGiven) = Cardinality(GO) + Cardinality(GH)
      /\ Cardinality(GO) \in Nat /\ Cardinality(GH) \in Nat
  <2>1. SlotsGiven = GO \cup GH /\ GO \cap GH = {} /\ GH \subseteq Item
    BY <1>1, <1>7 DEF GH
  <2> QED BY <1>1, <2>1, DisjointCount
<1>12. /\ Cardinality(Held) = Cardinality(GH) + Cardinality(Stayed)
      /\ Cardinality(Stayed) \in Nat
  <2>1. Held = GH \cup Stayed /\ GH \cap Stayed = {} /\ GH \subseteq Item /\ Stayed \subseteq Item
    BY <1>1, <1>8 DEF Stayed
  <2> QED BY <2>1, DisjointCount
<1>13. Cardinality(Held') = Cardinality(Stayed) + Cardinality(TH)
  <2>1. Stayed \subseteq Item /\ TH \subseteq Item
    BY <1>1, <1>9
  <2> QED BY <1>9, <2>1, DisjointCount
<1>14. Drift' = user'.reserved_sources_count - Cardinality(Held')
  BY DEF Drift
<1>15. /\ Drift' - Drift = Cardinality(TO) - Cardinality(GO)
  BY <1>10, <1>11, <1>12, <1>13, <1>14, UserTyped DEF SlotStep, Drift
<1> QED BY <1>15 DEF TO, GO

\* A step that changes no more than row i, whose tombstone it leaves, as far as
\* slots and tombstones go.
LEMMA OneRowSlotStep ==
  ASSUME TypeOK, NEW i \in Item,
         \A j \in Item \ {i} : item'[j].row = item[j].row
                                 /\ item'[j].entitlement_status = item[j].entitlement_status
                                 /\ item'[j].deletion_state = item[j].deletion_state,
         NEW takes \in BOOLEAN, NEW gives \in BOOLEAN,
         takes <=> i \in SlotsTaken, gives <=> i \in SlotsGiven,
         user'.reserved_sources_count = user.reserved_sources_count
           + (IF takes THEN 1 ELSE 0) - (IF gives THEN 1 ELSE 0),
         i \in Slotted => IF i \in Owned' THEN Tombstoned(i)' <=> Tombstoned(i)
                                          ELSE Tombstoned(i)
  PROVE  SlotStep
<1>1. /\ SlotsTaken = IF takes THEN {i} ELSE {}
      /\ SlotsGiven = IF gives THEN {i} ELSE {}
  BY DEF SlotsTaken, SlotsGiven, Slotted, Pending, Owned
<1>2. /\ Cardinality(SlotsTaken) = IF takes THEN 1 ELSE 0
      /\ Cardinality(SlotsGiven) = IF gives THEN 1 ELSE 0
  BY <1>1, FS_EmptySet, FS_Singleton
<1>3. \A j \in Slotted : IF j \in Owned' THEN Tombstoned(j)' <=> Tombstoned(j)
                                         ELSE Tombstoned(j)
  BY DEF Slotted, Pending, Owned, Tombstoned
<1> QED BY <1>2, <1>3, UserTyped DEF SlotStep

LEMMA QuietSlots ==
  ASSUME TypeOK, Quiet
  PROVE  SlotStep
<1>1. SlotsTaken = {} /\ SlotsGiven = {}
  BY DEF Quiet, SlotsTaken, SlotsGiven, Slotted, Pending, Owned
<1>2. Cardinality({}) = 0
  BY FS_EmptySet
<1>3. \A j \in Slotted : j \in Owned' /\ (Tombstoned(j)' <=> Tombstoned(j))
  BY DEF Quiet, Slotted, Pending, Owned, Tombstoned
<1> QED BY <1>1, <1>2, <1>3, UserTyped DEF Quiet, SlotStep

\* The reaper gives back every slot whose lease has run out.
LEMMA ReapSlots ==
  ASSUME TypeOK, ReapAllStaleReservations
  PROVE  SlotStep
<1>1. item' = ReapedRows /\ user'.reserved_sources_count = ReservedAfterReap
  BY DEF ReapAllStaleReservations, TypeOK, UserRow
<1>2. /\ StaleReservations \subseteq Slotted /\ StaleReservations \subseteq Item
      /\ \A j \in Item : j \in Owned' <=> j \in Owned
      /\ \A j \in Item : Pending(j)' <=> Pending(j) /\ j \notin StaleReservations
      /\ \A j \in Item : Tombstoned(j)' <=> Tombstoned(j)
  BY <1>1, ReapStatus DEF StaleReservations, Slotted, Owned, Pending, Tombstoned
<1>3. SlotsTaken = {} /\ SlotsGiven = StaleReservations
  BY <1>2 DEF SlotsTaken, SlotsGiven, Slotted, Owned, Pending
<1>4. Cardinality({}) = 0 /\ Cardinality(StaleReservations) \in Nat
  BY <1>2, FS_EmptySet, SourceSetsFinite
<1>5. user'.reserved_sources_count =
        user.reserved_sources_count + Cardinality(SlotsTaken) - Cardinality(SlotsGiven)
  BY <1>1, <1>3, <1>4, UserTyped DEF ReservedAfterReap
<1> QED BY <1>2, <1>5 DEF SlotStep, Slotted, Pending

\* reserve_free_capacity reaps first; then it takes at most one slot.
LEMMA ReserveSlots ==
  ASSUME TypeOK, NEW i \in Owned, NEW t \in Token, ~HasActiveReservation(i),
         GrantPremium(i, t) \/ GrantSlot(i, t) \/ RefuseSlot(i)
  PROVE  SlotStep /\ SlotsGiven = StaleReservations
                  /\ SlotsTaken = IF GrantSlot(i, t) THEN {i} ELSE {}
<1>1. i \in Item /\ ~Pending(i) /\ i \notin StaleReservations
  BY DEF Owned, HasActiveReservation, Pending, StaleReservations
<1>2. user'.reserved_sources_count =
        IF GrantSlot(i, t) THEN ReservedAfterReap + 1 ELSE ReservedAfterReap
  BY DEF GrantPremium, GrantSlot, RefuseSlot, TypeOK, UserRow
<1>3. /\ \A j \in Item \ {i} : item'[j] = ReapedRows[j]
      /\ item'[i].row = item[i].row /\ item'[i].deletion_state = item[i].deletion_state
      /\ Pending(i)' <=> GrantSlot(i, t)
  <2>1. "premium" # "pending" /\ "rejected" # "pending"
    OBVIOUS
  <2>2. i \in Owned'
    BY <1>1, ReservesRows DEF Owned
  <2> QED BY <1>1, <2>1, <2>2, ReservesRows DEF Pending
<1>4. /\ StaleReservations \subseteq Slotted /\ StaleReservations \subseteq Item
      /\ \A j \in Item : j \in Owned' <=> j \in Owned
      /\ \A j \in Item \ {i} : Pending(j)' <=> Pending(j) /\ j \notin StaleReservations
      /\ \A j \in Item : Tombstoned(j)' <=> Tombstoned(j)
  BY <1>1, <1>3, ReapStatus DEF StaleReservations, Slotted, Owned, Pending, Tombstoned
<1>5. /\ SlotsTaken = IF GrantSlot(i, t) THEN {i} ELSE {}
      /\ SlotsGiven = StaleReservations
  BY <1>1, <1>3, <1>4 DEF SlotsTaken, SlotsGiven, Slotted, Owned, Pending
<1>6. /\ Cardinality(SlotsTaken) = IF GrantSlot(i, t) THEN 1 ELSE 0
      /\ Cardinality(StaleReservations) \in Nat
  BY <1>4, <1>5, FS_EmptySet, FS_Singleton, SourceSetsFinite
<1>7. user'.reserved_sources_count =
        user.reserved_sources_count + Cardinality(SlotsTaken) - Cardinality(SlotsGiven)
  BY <1>2, <1>5, <1>6, UserTyped DEF ReservedAfterReap
<1> QED BY <1>4, <1>5, <1>7 DEF SlotStep, Slotted, Pending

LEMMA ConvertSlots ==
  ASSUME TypeOK, NEW i \in Owned, Convert(i)
  PROVE  SlotStep
<1>1. i \in Item /\ i \in Owned' /\ (Tombstoned(i)' <=> Tombstoned(i)) /\ ~Pending(i)'
  <2>1. "consumed" # "pending" /\ "premium" # "pending"
    OBVIOUS
  <2> QED BY <2>1, ConvertsRow DEF Owned, Tombstoned, Pending
<1>2. i \notin SlotsTaken /\ (i \in SlotsGiven <=> item[i].entitlement_status = "pending")
  BY <1>1 DEF SlotsTaken, SlotsGiven, Slotted, Pending
<1>3. user'.reserved_sources_count = user.reserved_sources_count + 0
        - (IF item[i].entitlement_status = "pending" THEN 1 ELSE 0)
  BY <1>1, ConvertsRow, UserTyped
<1> QED BY <1>1, <1>2, <1>3, ConvertsRow, OneRowSlotStep

LEMMA ReleaseSlots ==
  ASSUME TypeOK, NEW i \in Item, NEW lease, ReleaseReservation(i, lease)
  PROVE  SlotStep
<1>1. i \in Owned' /\ (Tombstoned(i)' <=> Tombstoned(i)) /\ ~Pending(i)' /\ Pending(i)
  <2>1. "released" # "pending"
    OBVIOUS
  <2> QED BY <2>1, ReleasesRow DEF Owned, Tombstoned, Pending
<1>2. i \notin SlotsTaken /\ i \in SlotsGiven
  BY <1>1 DEF SlotsTaken, SlotsGiven, Slotted
<1>3. user'.reserved_sources_count = user.reserved_sources_count + 0 - 1
  BY ReleasesRow, UserTyped
<1> QED BY <1>1, <1>2, <1>3, ReleasesRow, OneRowSlotStep

LEMMA CreateSlots ==
  ASSUME TypeOK, Creates
  PROVE  SlotStep
<1>1. PICK i \in Item : item[i].row = "absent" /\ item' = [item EXCEPT ![i] = BlankRow("present")]
  BY DEF Creates
<1>2. ~Pending(i) /\ ~Pending(i)'
  BY <1>1, CreatesRow DEF Pending, Owned
<1>3. i \notin SlotsTaken /\ i \notin SlotsGiven /\ i \notin Slotted
  BY <1>2 DEF SlotsTaken, SlotsGiven, Slotted
<1>4. user'.reserved_sources_count = user.reserved_sources_count + 0 - 0
  BY UserTyped DEF Creates
<1> QED BY <1>1, <1>3, <1>4, CreatesRow, OneRowSlotStep

LEMMA CleanSlots ==
  ASSUME TypeOK, NEW i \in Owned, Tombstoned(i), CleanupSucceeds(i) \/ CleanupFails(i)
  PROVE  SlotStep
<1>1. i \in Item
  BY DEF Owned
<1>2. i \in Owned' => Tombstoned(i)' /\ (Pending(i)' <=> Pending(i))
  BY <1>1, CleansRow DEF Owned, Tombstoned, Pending
<1>3. i \notin SlotsTaken /\ i \notin SlotsGiven
  BY <1>2 DEF SlotsTaken, SlotsGiven, Slotted, Pending
<1>4. user'.reserved_sources_count = user.reserved_sources_count + 0 - 0
  BY CleansRow, UserTyped
<1> QED BY <1>1, <1>2, <1>3, <1>4, CleansRow, OneRowSlotStep

\* A DELETE gives the slot back and tombstones the row, which keeps its status.
LEMMA DeleteLedger ==
  ASSUME TypeOK, NEW i \in Item, DeleteLibraryItem(i)
  PROVE  /\ Drift' = Drift
         /\ Orphaned' \ (Orphaned \cup Held) = {}
         /\ {j \in Orphaned : j \in Owned' /\ j \notin Orphaned'} = {}
<1>1. /\ i \in Owned /\ ~Tombstoned(i) /\ i \in Owned' /\ Tombstoned(i)'
      /\ Pending(i)' <=> Pending(i)
      /\ \A j \in Item \ {i} : item'[j] = item[j]
  <2>1. "pending" # "none"
    OBVIOUS
  <2> QED BY <2>1, TombstonesRow DEF Owned, Tombstoned, Pending
<1>2. /\ Orphaned' = IF Pending(i) THEN Orphaned \cup {i} ELSE Orphaned
      /\ Held' = IF Pending(i) THEN Held \ {i} ELSE Held
      /\ Pending(i) => i \in Held
  BY <1>1 DEF Orphaned, Held, Owned, Pending, Tombstoned
<1>3. Drift' = user'.reserved_sources_count - Cardinality(Held')
  BY DEF Drift
<1>4. Drift' = Drift
  <2>1. CASE Pending(i)
    <3> DEFINE rest == Held \ {i}
    <3>1. /\ Held = rest \cup {i} /\ rest \cap {i} = {}
          /\ rest \subseteq Item /\ {i} \subseteq Item
      BY <1>2, <2>1 DEF Held, Owned
    <3>2. Cardinality({i}) = 1
      BY FS_Singleton
    <3> HIDE DEF rest
    <3>3. Cardinality(Held) = Cardinality(rest) + 1 /\ Cardinality(rest) \in Nat
      BY <3>1, <3>2, DisjointCount
    <3>4. Held' = rest
      BY <1>2, <2>1 DEF rest
    <3> QED BY <1>3, <2>1, <3>3, <3>4, TombstonesRow, UserTyped DEF Drift
  <2>2. CASE ~Pending(i)
    BY <1>2, <1>3, <2>2, TombstonesRow DEF Drift
  <2> QED BY <2>1, <2>2
<1>5. \A j \in Orphaned : j \in Orphaned'
  BY <1>2
<1> QED BY <1>2, <1>4, <1>5

LEMMA StepSlots ==
  ASSUME TypeOK, Step, ~Settles
  PROVE  SlotStep \/ Tombstones
<1>1. CASE Reserves
  <2>1. PICK i \in Owned, t \in Token :
          /\ ~HasActiveReservation(i)
          /\ GrantPremium(i, t) \/ GrantSlot(i, t) \/ RefuseSlot(i)
    BY <1>1 DEF Reserves
  <2> QED BY <2>1, ReserveSlots
<1>2. CASE Converts \/ Releases \/ Cleans
  BY <1>2, ConvertSlots, ReleaseSlots, CleanSlots DEF Converts, Releases, Cleans, Owned
<1> QED BY <1>1, <1>2, QuietSlots, ReapSlots, CreateSlots, StepAccount

\* Of an account that was Free all along, reserved_sources_count moves with the
\* rows that hold a slot, in every step of everything that runs; what it misses
\* is exactly the slots a tombstoned row takes again or gives back a second time.
THEOREM LedgerMoves == Spec => ReservationLedger
<1> DEFINE Moves ==
      ~history.exempt' =>
        Drift' - Drift =
          Cardinality(Orphaned' \ (Orphaned \cup Held))
          - Cardinality({i \in Orphaned : i \in Owned' /\ i \notin Orphaned'})
<1>1. BooksInv /\ BooksInv' /\ [Next]_vars => [Moves]_vars
  <2> SUFFICES ASSUME BooksInv, BooksInv', Next, ~history'.exempt
               PROVE  Moves
    OBVIOUS
  <2>1. TypeOK /\ TypeOK'
    BY DEF BooksInv
  <2>2. ~history.exempt /\ ~Settles
    <3>1. ~history.exempt
      BY <2>1 DEF Next, Remembers, TypeOK, HistoryState
    <3>2. \A r \in Request : request[r].pc # "lock"
      BY <3>1 DEF BooksInv, FreeBooks
    <3> QED BY <3>1, <3>2 DEF Settles, FinalizeLockSelection
  <2>3. user.lock = "settled"
    BY <2>2 DEF BooksInv, FreeBooks
  <2>4. Step
    BY <2>3 DEF Next, RestartBackfills, BackfillOne
  <2>5. CASE Tombstones
    <3>1. PICK i \in Item : DeleteLibraryItem(i)
      BY <2>5 DEF Tombstones
    <3>2. /\ Drift' = Drift
          /\ Cardinality(Orphaned' \ (Orphaned \cup Held)) = 0
          /\ Cardinality({j \in Orphaned : j \in Owned' /\ j \notin Orphaned'}) = 0
      BY <2>1, <3>1, DeleteLedger, FS_EmptySet
    <3>3. Drift \in Int
      BY <2>1, UserTyped, SourceSetsFinite DEF Drift, Held, Owned
    <3> QED BY <3>2, <3>3
  <2> QED BY <2>1, <2>2, <2>4, <2>5, StepSlots, SlotStepLedger
<1>2. Spec => []BooksInv
  BY InitBooks, NextKeepsBooks, PTL DEF Spec
<1> QED BY <1>1, <1>2, PTL DEF Spec, ReservationLedger

-----------------------------------------------------------------------------
(* Reservations implement the pool of slots until a source is deleted.      *)

\* Nothing was ever deleted.
Untouched == \A i \in Item : item[i].row # "deleted" /\ (i \in Owned => ~Tombstoned(i))

\* The pool counts the rows that hold a slot, the code a column: until a
\* deletion they agree, and what was charged is what history.counted holds.
PoolInv ==
  /\ ChargesInv
  /\ ~history.exempt /\ Untouched => Drift = 0

\* A step that keeps every row, its tombstone or its absence of one.
ShelfKept ==
  \A i \in Item : item'[i].row = item[i].row /\ item'[i].deletion_state = item[i].deletion_state

LEMMA ReserveKeepsShelf ==
  ASSUME TypeOK, Reserves
  PROVE  ShelfKept
<1>1. PICK i \in Owned, t \in Token : GrantPremium(i, t) \/ GrantSlot(i, t) \/ RefuseSlot(i)
  BY DEF Reserves
<1>2. i \in Item
  BY DEF Owned
<1>3. /\ \A j \in Item \ {i} : item'[j] = ReapedRows[j]
      /\ item'[i].row = item[i].row /\ item'[i].deletion_state = item[i].deletion_state
  BY <1>1, <1>2, ReservesRows
<1> QED BY <1>3, ReapStatus DEF ShelfKept

LEMMA MostKeepShelf ==
  ASSUME TypeOK, Quiet \/ Reserves \/ Converts \/ Releases \/ ReapAllStaleReservations
  PROVE  ShelfKept
<1>1. CASE ReapAllStaleReservations
  BY <1>1, ReapStatus DEF ReapAllStaleReservations, ShelfKept
<1>2. CASE Converts \/ Releases
  BY <1>2, ConvertsRow, ReleasesRow DEF Converts, Releases, Owned, ShelfKept
<1> QED BY <1>1, <1>2, ReserveKeepsShelf DEF Quiet, ShelfKept

\* Nothing undoes a deletion.
LEMMA UntouchedBefore ==
  ASSUME TypeOK, Step, ~Settles, Untouched'
  PROVE  Untouched /\ ~Tombstones /\ ~Cleans
<1>1. ShelfKept => Untouched
  BY DEF ShelfKept, Untouched, Owned, Tombstoned
<1>2. ASSUME Creates PROVE Untouched
  <2>1. PICK i \in Item : item[i].row = "absent" /\ item' = [item EXCEPT ![i] = BlankRow("present")]
    BY <1>2 DEF Creates
  <2>2. \A j \in Item \ {i} : item'[j] = item[j]
    BY <2>1, CreatesRow
  <2> QED BY <2>1, <2>2 DEF Untouched, Owned, Tombstoned
<1>3. ~Tombstones
  <2> SUFFICES ASSUME NEW i \in Item, DeleteLibraryItem(i)
               PROVE  FALSE
    BY DEF Tombstones
  <2>1. item'[i].row = item[i].row /\ item'[i].deletion_state = "pending" /\ i \in Owned
    BY TombstonesRow
  <2> QED BY <2>1 DEF Untouched, Owned, Tombstoned
<1>4. ~Cleans
  <2> SUFFICES ASSUME NEW i \in Owned, CleanupSucceeds(i) \/ CleanupFails(i)
               PROVE  FALSE
    BY DEF Cleans
  <2>1. \/ item'[i].row = "deleted"
        \/ item'[i].row = item[i].row /\ item'[i].deletion_state = "failed"
    BY CleansRow
  <2> QED BY <2>1 DEF Untouched, Owned, Tombstoned
<1> QED BY <1>1, <1>2, <1>3, <1>4, StepAccount, MostKeepShelf

\* On an account that stays Free all along, every step is one of Step, and no
\* request settles it.
LEMMA FreeStep ==
  ASSUME BooksInv, Next, ~history'.exempt
  PROVE  ~history.exempt /\ Step /\ Remembers(FALSE) /\ ~Settles /\ ~user.effective_premium
<1>1. ~history.exempt
  BY DEF Next, Remembers, BooksInv, TypeOK, HistoryState
<1>2. user.lock = "settled" /\ ~user.effective_premium /\ \A r \in Request : request[r].pc # "lock"
  BY <1>1 DEF BooksInv, FreeBooks
<1> QED BY <1>1, <1>2 DEF Next, RestartBackfills, BackfillOne, Settles, FinalizeLockSelection

LEMMA PoolNextInv ==
  ASSUME PoolInv, [Next]_vars
  PROVE  PoolInv'
<1>1. ChargesInv'
  BY NextCharges DEF PoolInv
<1>2. CASE UNCHANGED vars
  BY <1>1, <1>2 DEF PoolInv, vars, Untouched, Owned, Tombstoned, Drift, Held, Pending
<1>3. CASE Next
  <2> SUFFICES ASSUME ~history'.exempt, Untouched'
               PROVE  Drift' = 0
    BY <1>1 DEF PoolInv
  <2>1. ~history.exempt /\ Step /\ ~Settles /\ TypeOK /\ TypeOK'
    BY <1>1, <1>3, FreeStep DEF PoolInv, ChargesInv, BooksInv
  <2>2. Untouched /\ ~Tombstones
    BY <2>1, UntouchedBefore
  <2>3. Drift = 0 /\ Drift' \in Int
    <3>1. Drift' = user'.reserved_sources_count - Cardinality(Held')
      BY DEF Drift
    <3>2. Held' \subseteq Item
      BY DEF Held, Owned
    <3>3. user'.reserved_sources_count \in Int
      BY <2>1 DEF TypeOK, UserRow
    <3> QED BY <2>1, <2>2, <3>1, <3>2, <3>3, SourceSetsFinite DEF PoolInv
  <2>4. Orphaned = {} /\ Orphaned' = {}
    BY <2>2 DEF Untouched, Orphaned, Owned
  <2>5. SlotStep
    BY <2>1, <2>2, StepSlots
  <2>6. Drift' - Drift = Cardinality({}) - Cardinality({})
    BY <2>1, <2>4, <2>5, SlotStepLedger
  <2> QED BY <2>3, <2>6, FS_EmptySet
<1> QED BY <1>2, <1>3

LEMMA InitPool ==
  ASSUME Init
  PROVE  PoolInv /\ Pool!PoolInit
<1>1. ChargesInv
  BY InitCharges
<1>2. Held = {} /\ history.counted = {} /\ history.carried \in Nat
  <2>1. \A i \in Item : item[i] = BlankRow("absent")
    BY DEF Init
  <2> QED BY <1>1, <2>1 DEF Held, Owned, BlankRow, Init, ChargesInv, BooksInv, TypeOK, HistoryState
<1>3. Drift = 0
  BY <1>2, FS_EmptySet DEF Drift, Init
<1> QED BY <1>1, <1>2, <1>3 DEF PoolInv, Pool!PoolInit

\* SlotPool's Cardinality is its own instance of FiniteSets'.
LEMMA PoolCardinality ==
  ASSUME NEW S
  PROVE  Pool!Cardinality(S) = Cardinality(S)
  BY DEF Pool!Cardinality, Cardinality, Pool!IsFiniteSet, IsFiniteSet

\* The steps of the pool.
LEMMA PoolFollowed ==
  ASSUME PoolInv, Step, Remembers(FALSE), ~Settles, ~history.exempt, ~user.effective_premium,
         Untouched, Untouched', ~Tombstones, ~Cleans
  PROVE  [Pool!PoolNext]_(Pool!poolVars)
<1>1. /\ TypeOK /\ ChargesFit /\ Drift = 0
      /\ ConsumedRows \subseteq history.counted
      /\ history.counted \subseteq Item /\ history.carried \in Nat
      /\ user.successful_sources_total = Accounted
  <2>1. TypeOK /\ ChargesFit /\ Drift = 0
    BY DEF PoolInv, ChargesInv, BooksInv
  <2>2. ConsumedRows \subseteq history.counted
    BY <2>1 DEF ConsumedRows, ChargesFit, RowFits, Uncharged
  <2> QED BY <2>1, <2>2 DEF TypeOK, HistoryState, ChargesFit
<1>2. /\ history'.carried = history.carried
      /\ history'.counted = history.counted \cup ConsumedRows'
  BY <1>1 DEF Remembers, TypeOK, HistoryState, ConsumedRows
<1>3. /\ Held = Slotted /\ Held' = Slotted' /\ Held \subseteq Item
      /\ Held' = (Held \ SlotsGiven) \cup SlotsTaken
      /\ SlotsTaken \cap Held = {} /\ SlotsGiven \subseteq Held
  <2>1. Held = Slotted /\ Held' = Slotted' /\ Held \subseteq Item
    BY DEF Untouched, Held, Slotted, Owned, Pending
  <2>2. \A i \in Item : i \in Owned => i \in Owned'
    <3>1. CASE ShelfKept
      BY <3>1 DEF ShelfKept, Owned
    <3>2. CASE Creates
      BY <1>1, <3>2, CreatesRow DEF Creates, Owned
    <3> QED BY <1>1, <3>1, <3>2, StepAccount, MostKeepShelf
  <2> QED BY <2>1, <2>2 DEF SlotsGiven, SlotsTaken, Slotted, Pending
<1>4. ASSUME ConsumedRows' \subseteq ConsumedRows, SlotsTaken = {}
      PROVE  Pool!GiveBack \/ UNCHANGED Pool!poolVars
  <2>1. history'.counted = history.counted
    BY <1>1, <1>2, <1>4
  <2>2. Held' = Held \ SlotsGiven
    BY <1>3, <1>4
  <2>3. CASE SlotsGiven = {}
    BY <1>2, <2>1, <2>2, <2>3 DEF Pool!poolVars
  <2>4. CASE SlotsGiven # {}
    BY <1>2, <1>3, <2>1, <2>2, <2>4 DEF Pool!GiveBack
  <2> QED BY <2>3, <2>4
<1>5. CASE Quiet
  <2>1. ConsumedRows' \subseteq ConsumedRows
    BY <1>5 DEF Quiet, ConsumedRows
  <2>2. SlotsTaken = {}
    BY <1>5 DEF Quiet, SlotsTaken, Slotted, Pending, Owned
  <2> QED BY <1>4, <2>1, <2>2 DEF Pool!PoolNext
<1>6. CASE Reserves
  <2>1. PICK i \in Owned, t \in Token :
          /\ ~HasActiveReservation(i)
          /\ GrantPremium(i, t) \/ GrantSlot(i, t) \/ RefuseSlot(i)
    BY <1>6 DEF Reserves
  <2>2. /\ i \in Item
        /\ SlotsGiven = StaleReservations
        /\ SlotsTaken = IF GrantSlot(i, t) THEN {i} ELSE {}
    BY <1>1, <2>1, ReserveSlots DEF Owned
  <2>3. ConsumedRows' \subseteq ConsumedRows
    <3>1. item'[i].entitlement_status # "consumed"
      BY <1>1, <2>1, <2>2, ReservesRows
    <3>2. \A j \in Item \ {i} : item'[j] = ReapedRows[j]
      BY <1>1, <2>1, <2>2, ReservesRows
    <3> QED BY <1>1, <3>1, <3>2, ReapStatus DEF ConsumedRows
  <2>4. CASE ~GrantSlot(i, t)
    BY <1>4, <2>2, <2>3, <2>4 DEF Pool!PoolNext
  <2>5. CASE GrantSlot(i, t)
    <3>1. i \notin history.counted
      BY <1>1, <2>1, <2>2 DEF ChargesFit, RowFits, Charged, Owned, HasActiveReservation
    <3>2. history'.counted = history.counted
      BY <1>1, <1>2, <2>3
    <3>3. SlotsGiven \subseteq Held /\ Held' = (Held \ SlotsGiven) \cup {i} /\ i \notin Held \ SlotsGiven
      BY <1>3, <2>2, <2>5
    <3>4. history.carried + Cardinality(history.counted) + Cardinality(Held \ SlotsGiven) < FreeLimit
      <4> DEFINE rest == Held \ SlotsGiven
      <4>1. /\ Held = rest \cup SlotsGiven /\ rest \cap SlotsGiven = {}
            /\ rest \subseteq Item /\ SlotsGiven \subseteq Item
        BY <1>3
      <4> HIDE DEF rest
      <4>2. /\ Cardinality(Held) = Cardinality(rest) + Cardinality(SlotsGiven)
            /\ Cardinality(rest) \in Nat /\ Cardinality(SlotsGiven) \in Nat
        BY <4>1, DisjointCount
      <4>3. user.successful_sources_total + ReservedAfterReap < FreeLimit
        BY <2>5 DEF GrantSlot, SlotFree
      <4>4. Cardinality(history.counted) \in Nat
        BY <1>1, SourceSetsFinite
      <4>5. ReservedAfterReap = Cardinality(rest)
        BY <1>1, <2>2, <4>2, UserTyped DEF ReservedAfterReap, Drift
      <4>6. history.carried + Cardinality(history.counted) + Cardinality(rest) < FreeLimit
        BY <1>1, <4>2, <4>3, <4>4, <4>5 DEF Accounted
      <4> QED BY <4>6 DEF rest
    <3>5. Pool!Acquire
      <4>1. /\ SlotsGiven \in SUBSET Held /\ i \in Item \ history.counted
            /\ history.carried + Pool!Cardinality(history.counted)
                 + Pool!Cardinality(Held \ SlotsGiven) < FreeLimit
        BY <2>2, <3>1, <3>3, <3>4, PoolCardinality
      <4> QED BY <1>2, <3>2, <3>3, <4>1 DEF Pool!Acquire
    <3> QED BY <3>5 DEF Pool!PoolNext
  <2> QED BY <2>4, <2>5
<1>7. CASE Converts
  <2>1. PICK i \in Owned : Convert(i)
    BY <1>7 DEF Converts
  <2>2. /\ i \in Item /\ i \in Owned' /\ item[i].row = "present"
        /\ \A j \in Item \ {i} : item'[j] = item[j]
    BY <1>1, <2>1, ConvertsRow DEF Owned
  <2>3. CASE /\ item[i].entitlement_status # "pending"
             /\ item'[i].entitlement_status = "premium"
    <3>1. ConsumedRows' \subseteq ConsumedRows
      BY <2>2, <2>3 DEF ConsumedRows
    <3>2. SlotsTaken = {}
      BY <2>2, <2>3 DEF SlotsTaken, Slotted, Pending, Owned
    <3> QED BY <1>4, <3>1, <3>2 DEF Pool!PoolNext
  <2>4. CASE /\ item[i].entitlement_status = "pending"
             /\ item'[i].entitlement_status = "consumed"
    <3>1. ConsumedRows' = ConsumedRows \cup {i}
      BY <2>2, <2>4 DEF ConsumedRows
    <3>2. SlotsTaken = {} /\ SlotsGiven = {i}
      BY <2>1, <2>2, <2>4 DEF SlotsTaken, SlotsGiven, Slotted, Pending, Owned
    <3>3. /\ history'.counted = history.counted \cup {i}
          /\ Held' = Held \ {i} /\ i \in Held
      BY <1>1, <1>2, <1>3, <3>1, <3>2
    <3>4. Pool!Charge
      BY <1>2, <3>3 DEF Pool!Charge
    <3> QED BY <3>4 DEF Pool!PoolNext
  <2> QED BY <1>1, <2>1, <2>2, <2>3, <2>4, ConvertsRow
<1>8. CASE Releases
  <2>1. PICK i \in Owned, lease \in Tokens : ReleaseReservation(i, lease)
    BY <1>8 DEF Releases
  <2>2. /\ i \in Item
        /\ \A j \in Item \ {i} : item'[j] = item[j]
        /\ item'[i].entitlement_status = "released"
    BY <1>1, <2>1, ReleasesRow DEF Owned
  <2>3. ConsumedRows' \subseteq ConsumedRows
    BY <2>2 DEF ConsumedRows
  <2>4. SlotsTaken = {}
    BY <2>2 DEF SlotsTaken, Slotted, Pending, Owned
  <2> QED BY <1>4, <2>3, <2>4 DEF Pool!PoolNext
<1>9. CASE Creates
  <2>1. PICK i \in Item : item' = [item EXCEPT ![i] = BlankRow("present")]
    BY <1>9 DEF Creates
  <2>2. /\ \A j \in Item \ {i} : item'[j] = item[j]
        /\ item'[i].entitlement_status = "none"
    BY <1>1, <2>1, CreatesRow
  <2>3. ConsumedRows' \subseteq ConsumedRows
    BY <2>2 DEF ConsumedRows
  <2>4. SlotsTaken = {}
    BY <2>2 DEF SlotsTaken, Slotted, Pending, Owned
  <2> QED BY <1>4, <2>3, <2>4 DEF Pool!PoolNext
<1>10. CASE ReapAllStaleReservations
  <2>1. ConsumedRows' \subseteq ConsumedRows
    BY <1>1, <1>10, ReapStatus DEF ReapAllStaleReservations, ConsumedRows
  <2>2. SlotsTaken = {}
    BY <1>1, <1>10, ReapStatus DEF ReapAllStaleReservations, SlotsTaken, Slotted, Pending, Owned
  <2> QED BY <1>4, <2>1, <2>2 DEF Pool!PoolNext
<1> QED BY <1>1, <1>5, <1>6, <1>7, <1>8, <1>9, <1>10, StepAccount

\* Until its first deletion, the library of an account Free all along is the
\* pool: every transaction, whoever runs it, takes, gives back or charges slots
\* as the pool allows, or does not touch them.
THEOREM ImplementsPool == Spec => SlotPoolRefined
<1>1. Init => PoolInv /\ Pool!PoolInit
  BY InitPool
<1>2. PoolInv /\ [Next]_vars => PoolInv'
  BY PoolNextInv
<1>3. PoolInv /\ [Next]_vars => [PoolStep]_vars
  <2> SUFFICES ASSUME PoolInv, Next, ~history'.exempt, Untouched'
               PROVE  [Pool!PoolNext]_(Pool!poolVars)
    BY DEF PoolStep, Untouched, Owned
  <2>1. BooksInv /\ TypeOK
    BY DEF PoolInv, ChargesInv, BooksInv
  <2> QED BY <2>1, FreeStep, UntouchedBefore, PoolFollowed
<1> QED BY <1>1, <1>2, <1>3, PTL DEF Spec, SlotPoolRefined

-----------------------------------------------------------------------------
(* finalize_lock_selection leaves what the downgrade promises.              *)

\* What can be taken is as many as the limit, or everything there is.
LEMMA TakenAll ==
  ASSUME NEW S \in SUBSET Item, NEW limit \in Nat, NEW T \in Take(limit, S)
  PROVE  /\ T \subseteq S
         /\ Cardinality(T) \in Nat
         /\ Cardinality(T) <= limit
         /\ Cardinality(T) = limit \/ T = S
<1>1. T \subseteq S /\ Cardinality(T) = AtMost(limit, S)
  BY DEF Take, kSubset
<1>2. IsFiniteSet(S) /\ Cardinality(S) \in Nat
  BY SourceSetsFinite
<1>3. CASE limit < Cardinality(S)
  BY <1>1, <1>3 DEF AtMost
<1>4. CASE ~(limit < Cardinality(S))
  <2>1. Cardinality(T) = Cardinality(S)
    BY <1>1, <1>4 DEF AtMost
  <2>2. T = S
    BY <1>1, <1>2, <2>1, FS_Subset
  <2> QED BY <1>1, <1>2, <1>4, <2>1, <2>2
<1> QED BY <1>3, <1>4

LEMMA UnionCount ==
  ASSUME NEW A \in SUBSET Item, NEW B \in SUBSET Item
  PROVE  /\ Cardinality(A) \in Nat /\ Cardinality(B) \in Nat
         /\ Cardinality(A \cup B) \in Nat
         /\ Cardinality(A \cup B) <= Cardinality(A) + Cardinality(B)
         /\ A \cap B = {} => Cardinality(A \cup B) = Cardinality(A) + Cardinality(B)
<1>1. IsFiniteSet(A) /\ IsFiniteSet(B) /\ Cardinality(A) \in Nat /\ Cardinality(B) \in Nat
  BY SourceSetsFinite
<1>2. A \cup B \in SUBSET Item /\ A \cap B \in SUBSET Item
  OBVIOUS
<1>3. Cardinality(A \cup B) = Cardinality(A) + Cardinality(B) - Cardinality(A \cap B)
  BY <1>1, FS_Union
<1>4. Cardinality(A \cup B) \in Nat /\ Cardinality(A \cap B) \in Nat
  BY <1>2, SourceSetsFinite
<1>5. A \cap B = {} => Cardinality(A \cap B) = 0
  BY FS_EmptySet
<1> QED BY <1>1, <1>3, <1>4, <1>5

LEMMA SubsetCount ==
  ASSUME NEW A \in SUBSET Item, NEW B \in SUBSET A
  PROVE  Cardinality(B) <= Cardinality(A)
  BY SourceSetsFinite, FS_Subset

\* What it starts from has FreeLimit sources, or all the candidates there are.
LEMMA PoolFilled ==
  ASSUME NEW kept \in Keeps, NEW fill \in Fills(kept)
  PROVE  /\ kept \cup fill \subseteq FallbackCandidates
         /\ Cardinality(kept \cup fill) \in Nat
         /\ Cardinality(kept \cup fill) <= FreeLimit
         /\ Cardinality(kept \cup fill) = FreeLimit \/ kept \cup fill = FallbackCandidates
<1>1. /\ CurrentValidSelection \subseteq FallbackCandidates
      /\ FallbackCandidates \in SUBSET Item /\ CurrentValidSelection \in SUBSET Item
  BY DEF CurrentValidSelection, FallbackCandidates, Owned
<1>2. /\ kept \subseteq CurrentValidSelection
      /\ Cardinality(kept) \in Nat /\ Cardinality(kept) <= FreeLimit
      /\ Cardinality(kept) = FreeLimit \/ kept = CurrentValidSelection
  <2>1. kept \in Take(FreeLimit, CurrentValidSelection)
    BY DEF Keeps
  <2> QED BY <1>1, <2>1, TakenAll, FreeLimitAssumption
<1> DEFINE open == FreeLimit - Cardinality(kept)
           others == FallbackCandidates \ kept
<1>3. /\ fill \subseteq others
      /\ Cardinality(fill) \in Nat /\ Cardinality(fill) <= open
      /\ Cardinality(fill) = open \/ fill = others
  <2>1. fill \in Take(open, others)
    BY DEF Fills
  <2>2. open \in Nat /\ others \in SUBSET Item
    BY <1>1, <1>2, FreeLimitAssumption
  <2> HIDE DEF open, others
  <2> QED BY <2>1, <2>2, TakenAll
<1>4. /\ Cardinality(kept \cup fill) = Cardinality(kept) + Cardinality(fill)
      /\ Cardinality(kept \cup fill) \in Nat
  <2>1. kept \in SUBSET Item /\ fill \in SUBSET Item /\ kept \cap fill = {}
    BY <1>1, <1>2, <1>3
  <2> QED BY <2>1, UnionCount
<1>5. kept \cup fill \subseteq FallbackCandidates
  BY <1>1, <1>2, <1>3
<1>6. CASE fill = others
  BY <1>2, <1>1, <1>3, <1>4, <1>5, <1>6, FreeLimitAssumption
<1>7. CASE Cardinality(fill) = open
  BY <1>2, <1>4, <1>5, <1>7, FreeLimitAssumption
<1> QED BY <1>3, <1>6, <1>7

\* What is unlocked is counted, or is now; there is no more of it than the limit,
\* and less only when no counted candidate is left; and the total is not raised
\* past the limit.
SettlesWell(promoted, chosen) ==
  /\ chosen \subseteq Owned
  /\ chosen \subseteq promoted \cup Consumed(Owned)
  /\ Cardinality(chosen) <= FreeLimit
  /\ \/ Cardinality(chosen) >= FreeLimit
     \/ Consumed(FallbackCandidates) \subseteq chosen
  /\ user.successful_sources_total + Cardinality(promoted)
       <= LargerOf(FreeLimit, user.successful_sources_total)

LEMMA ChosenWell ==
  ASSUME TypeOK, NEW kept \in Keeps, NEW fill \in Fills(kept),
         NEW promoted \in Promotions(kept, fill),
         NEW extra \in TopUps(kept \cup fill, promoted)
  PROVE  SettlesWell(promoted, Consumed(kept \cup fill) \cup promoted \cup extra)
<1> DEFINE pool == kept \cup fill
           final == Consumed(pool) \cup promoted
           needs == pool \ Consumed(pool)
           spare == {i \in Consumed(Owned) \ final : item[i].processed}
           open == FreeLimit - Cardinality(final)
           chosen == final \cup extra
<1>1. /\ pool \subseteq FallbackCandidates /\ pool \in SUBSET Item
      /\ Cardinality(pool) \in Nat /\ Cardinality(pool) <= FreeLimit
      /\ Cardinality(pool) = FreeLimit \/ pool = FallbackCandidates
      /\ FallbackCandidates \subseteq Owned
  BY PoolFilled DEF FallbackCandidates, Owned
<1>2. user.successful_sources_total \in Nat /\ FreeLimit \in Nat
  BY UserTyped
<1>3. promoted \in Take(CapacityAvailable, needs)
  BY DEF Promotions
<1>4. promoted \subseteq needs /\ Cardinality(promoted) \in Nat
      /\ Cardinality(promoted) <= CapacityAvailable
  <2>1. CapacityAvailable \in Nat /\ needs \in SUBSET Item
    BY <1>1, <1>2 DEF CapacityAvailable
  <2> HIDE DEF needs
  <2> QED BY <1>3, <2>1, TakenAll
<1>5. user.successful_sources_total + Cardinality(promoted)
        <= LargerOf(FreeLimit, user.successful_sources_total)
  BY <1>2, <1>4 DEF CapacityAvailable, LargerOf
<1>6. /\ final \subseteq pool /\ final \in SUBSET Item
      /\ Cardinality(final) \in Nat /\ Cardinality(final) <= FreeLimit
  <2>1. final \subseteq pool
    BY <1>4 DEF Consumed
  <2> HIDE DEF final
  <2>2. final \in SUBSET Item
    BY <1>1, <2>1
  <2> QED BY <1>1, <1>2, <2>1, <2>2, SubsetCount, SourceSetsFinite
<1>7. spare \in SUBSET Item /\ spare \subseteq Consumed(Owned) /\ spare \cap final = {}
      /\ Consumed(FallbackCandidates) \subseteq final \cup spare
  BY DEF Consumed, Owned, FallbackCandidates
<1>8. extra \in IF promoted = needs THEN {{}} ELSE Take(open, spare)
  BY DEF TopUps
<1>9. /\ extra \subseteq spare
      /\ Cardinality(extra) \in Nat /\ Cardinality(extra) <= open
      /\ promoted = needs \/ Cardinality(extra) = open \/ extra = spare
  <2>1. open \in Nat
    BY <1>2, <1>6
  <2>2. CASE promoted = needs
    <3>1. extra = {} /\ Cardinality(extra) = 0
      BY <1>8, <2>2, FS_EmptySet
    <3> HIDE DEF open
    <3> QED BY <2>1, <2>2, <3>1
  <2>3. CASE promoted # needs
    <3>1. extra \in Take(open, spare)
      BY <1>8, <2>3
    <3> HIDE DEF open, spare
    <3> QED BY <1>7, <2>1, <3>1, TakenAll
  <2> QED BY <2>2, <2>3
<1>10. /\ Cardinality(chosen) = Cardinality(final) + Cardinality(extra)
       /\ chosen \in SUBSET Item
  <2>1. extra \in SUBSET Item /\ extra \cap final = {}
    BY <1>7, <1>9
  <2> HIDE DEF final
  <2> QED BY <1>6, <2>1, UnionCount
<1>11. Cardinality(chosen) <= FreeLimit
  BY <1>2, <1>6, <1>9, <1>10
<1>12. \/ Cardinality(chosen) >= FreeLimit
       \/ Consumed(FallbackCandidates) \subseteq chosen
  <2>1. CASE promoted = needs
    <3>1. final = pool
      BY <2>1 DEF Consumed
    <3>2. CASE pool = FallbackCandidates
      BY <3>1, <3>2 DEF Consumed
    <3>3. CASE Cardinality(pool) = FreeLimit
      <4>1. Cardinality(final) = FreeLimit
        BY <3>1, <3>3
      <4> HIDE DEF final, chosen
      <4> QED BY <1>2, <1>9, <1>10, <4>1
    <3> QED BY <1>1, <3>2, <3>3
  <2>2. CASE Cardinality(extra) = open
    BY <1>2, <1>6, <1>10, <2>2
  <2>3. CASE extra = spare
    BY <1>7, <2>3
  <2> QED BY <1>9, <2>1, <2>2, <2>3
<1>13. chosen \subseteq Owned /\ chosen \subseteq promoted \cup Consumed(Owned)
  <2>1. final \subseteq Owned /\ Consumed(pool) \subseteq Consumed(Owned)
    BY <1>1, <1>6 DEF Consumed
  <2>2. extra \subseteq Consumed(Owned) /\ Consumed(Owned) \subseteq Owned
    BY <1>7, <1>9 DEF Consumed
  <2> QED BY <2>1, <2>2
<1> QED BY <1>5, <1>11, <1>12, <1>13 DEF SettlesWell

\* The rows and the total after it.
LEMMA Settled ==
  ASSUME TypeOK, NEW r \in Request, FinalizeLockSelection(r)
  PROVE  /\ Cardinality(UnlockedRows') <= FreeLimit
         /\ \A i \in UnlockedRows' : item'[i].entitlement_status = "consumed"
         /\ user'.successful_sources_total
              <= LargerOf(FreeLimit, user.successful_sources_total)
         /\ \/ Cardinality(UnlockedRows') >= FreeLimit
            \/ Consumed(FallbackCandidates) \subseteq UnlockedRows'
<1>1. PICK kept \in Keeps : \E fill \in Fills(kept) :
        \E promoted \in Promotions(kept, fill) :
        \E extra \in TopUps(kept \cup fill, promoted) :
          /\ item' = Selecting(Promoted(promoted),
                               Consumed(kept \cup fill) \cup promoted \cup extra)
          /\ user' = [user EXCEPT !.successful_sources_total = @ + Cardinality(promoted),
                                  !.lock = "settled"]
  BY DEF FinalizeLockSelection
<1>2. PICK fill \in Fills(kept) :
        \E promoted \in Promotions(kept, fill) :
        \E extra \in TopUps(kept \cup fill, promoted) :
          /\ item' = Selecting(Promoted(promoted),
                               Consumed(kept \cup fill) \cup promoted \cup extra)
          /\ user' = [user EXCEPT !.successful_sources_total = @ + Cardinality(promoted),
                                  !.lock = "settled"]
  BY <1>1
<1>3. PICK promoted, chosen :
        /\ item' = Selecting(Promoted(promoted), chosen)
        /\ user' = [user EXCEPT !.successful_sources_total = @ + Cardinality(promoted),
                                !.lock = "settled"]
        /\ SettlesWell(promoted, chosen)
  BY <1>2, ChosenWell
<1>4. Promoted(promoted) \in Rows
  BY PromotedTyped
<1>5. \A i \in Item : /\ item'[i].row = Promoted(promoted)[i].row
                      /\ item'[i].entitlement_status = Promoted(promoted)[i].entitlement_status
                      /\ item'[i].is_unlocked_selection <=> i \in chosen
  BY <1>3, <1>4 DEF Selecting, Rows, ItemRow
<1>6. \A i \in Item : /\ Promoted(promoted)[i].row = item[i].row
                      /\ i \in promoted => Promoted(promoted)[i].entitlement_status = "consumed"
                      /\ i \notin promoted => Promoted(promoted)[i] = item[i]
  BY DEF Promoted, TypeOK, ItemRow
<1>7. UnlockedRows' = chosen
  BY <1>3, <1>5, <1>6 DEF UnlockedRows, Owned, SettlesWell
<1>8. \A i \in chosen : item'[i].entitlement_status = "consumed"
  BY <1>3, <1>5, <1>6 DEF Consumed, Owned, SettlesWell
<1>9. user'.successful_sources_total = user.successful_sources_total + Cardinality(promoted)
  BY <1>3 DEF TypeOK, UserRow
<1> QED BY <1>3, <1>7, <1>8, <1>9 DEF SettlesWell

\* Settling a downgrade keeps its promise for every account: at most FreeLimit
\* unlocked sources, all of them counted, the total not raised past the limit,
\* and no slot locked that a counted candidate could fill.
THEOREM DowngradeKept == Spec => DowngradeSettles
<1> DEFINE Settle ==
      \A r \in Request : FinalizeLockSelection(r) =>
        /\ Cardinality(UnlockedRows') <= FreeLimit
        /\ \A i \in UnlockedRows' : item'[i].entitlement_status = "consumed"
        /\ user'.successful_sources_total
             <= LargerOf(FreeLimit, user.successful_sources_total)
        /\ \/ Cardinality(UnlockedRows') >= FreeLimit
           \/ Consumed(FallbackCandidates) \subseteq UnlockedRows'
<1>1. TypeOK /\ [Next]_vars => [Settle]_vars
  BY Settled
<1> QED BY <1>1, TypeCorrect, PTL DEF Spec, DowngradeSettles

=============================================================================
