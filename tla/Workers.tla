------------------------------- MODULE Workers -------------------------------
(***************************************************************************)
(* The ingestion workers of app/routers/library.py: the background tasks   *)
(* process_item/pdf/epub/url_embeddings and _run_ocr, the requests that    *)
(* start them, and the ownership guard they run under.  A worker keeps, in *)
(* local variables, the lease and attempt tokens it was given; the row may *)
(* have moved on by the time it presents them.                             *)
(***************************************************************************)
EXTENDS EntitlementRows

CONSTANT Worker     \* slots for concurrently running background tasks

VARIABLE worker     \* each slot's program counter and local variables

WorkerState == [pc : {"idle", "reserve", "admit", "begin", "work", "finalize",
                      "convert", "fail", "exit"},
                kind : {"ingest", "ocr"},
                item : Item \cup {None},
                lease_token : Token \cup {None},
                attempt_token : Token \cup {None}]

Idle == [pc |-> "idle", kind |-> "ingest", item |-> None,
         lease_token |-> None, attempt_token |-> None]

Goto(w, label) == worker' = [worker EXCEPT ![w].pc = label]

\* To the `finally` block, which only looks at the attempt token.
Leave(w) == worker' = [worker EXCEPT ![w].pc = "exit", ![w].lease_token = None]

Finish(w) == worker' = [worker EXCEPT ![w] = Idle]

\* str(uuid.uuid4()): a token that neither the row nor a worker on it holds.
\* Tokens of different rows are never compared, so the supply is per row.
TokensInUse(i) ==
  {item[i].reservation_lease_token, item[i].last_processing_attempt_id,
   item[i].worker_attempt_id}
    \cup UNION {{worker[w].lease_token, worker[w].attempt_token} :
                 w \in {v \in Worker : worker[v].item = i}}

NewToken(i) == CHOOSE t \in Token : t \notin TokensInUse(i)

MintsFresh(i) == NewToken(i) \in Token \ TokensInUse(i)

-----------------------------------------------------------------------------
(* Requests that start a worker. *)

\* add_library_item, upload_pdf, add_url: insert the row, enqueue the task.
CreateItem(i, w) ==
  /\ worker[w].pc = "idle"
  /\ item[i].row = "absent"
  /\ CanAcceptNewUpload
  /\ item' = [item EXCEPT ![i] = BlankRow("present")]
  /\ worker' = [worker EXCEPT ![w] = [Idle EXCEPT !.pc = "reserve", !.item = i]]
  /\ UNCHANGED user

\* start_ocr up to its first lock: every check here is an unlocked read.
StartOcr(i, w) ==
  /\ worker[w].pc = "idle"
  /\ i \in Owned
  /\ ~Tombstoned(i)
  /\ IsSourceUnlocked(i)
  /\ worker' = [worker EXCEPT ![w] = [Idle EXCEPT !.pc = "reserve",
                                                  !.kind = "ocr", !.item = i]]
  /\ UNCHANGED <<user, item>>

-----------------------------------------------------------------------------
(* admit_worker_attempt. *)

AttemptIsLive(i) == item[i].worker_attempt_id # None /\ item[i].attempt_live

\* Mutant: a live attempt does not keep the next one out.
AdmissibleWhileLive(i) ==
  /\ i \in Owned
  /\ ~Tombstoned(i)
  /\ ~item[i].processed

Admissible(i) ==
  /\ i \in Owned
  /\ ~Tombstoned(i)
  /\ ~item[i].processed
  /\ ~AttemptIsLive(i)

AdmitAttempt(w, lease) ==
  LET i == worker[w].item
      t == NewToken(i)
  IN  /\ Admissible(i)
      /\ MintsFresh(i)
      /\ item' = [item EXCEPT ![i].worker_attempt_id = t,
                              ![i].attempt_live = TRUE,
                              ![i].last_processing_attempt_id = t]
      /\ worker' = [worker EXCEPT ![w].pc = "work",
                                  ![w].lease_token = lease,
                                  ![w].attempt_token = t]
      /\ UNCHANGED user

\* Mutant: OCR goes on under the attempt id the row already has.
AdmitOcrUnderOldId(w) ==
  LET i == worker[w].item
      t == IF item[i].last_processing_attempt_id = None
           THEN NewToken(i) ELSE item[i].last_processing_attempt_id
  IN  /\ Admissible(i)
      /\ item' = [item EXCEPT ![i].worker_attempt_id = t,
                              ![i].attempt_live = TRUE,
                              ![i].last_processing_attempt_id = t]
      /\ worker' = [worker EXCEPT ![w].pc = "begin", ![w].attempt_token = t]
      /\ UNCHANGED user

\* start_ocr enqueues _run_ocr, which reads its lease token when it begins.
AdmitOcrAttempt(w) ==
  LET i == worker[w].item
      t == NewToken(i)
  IN  /\ Admissible(i)
      /\ MintsFresh(i)
      /\ item' = [item EXCEPT ![i].worker_attempt_id = t,
                              ![i].attempt_live = TRUE,
                              ![i].last_processing_attempt_id = t]
      /\ worker' = [worker EXCEPT ![w].pc = "begin", ![w].attempt_token = t]
      /\ UNCHANGED user

\* None: nothing was paid for, and the reservation is left to its owner.
RefuseAdmission(w) ==
  /\ ~Admissible(worker[w].item)
  /\ Finish(w)
  /\ UNCHANGED <<user, item>>

AdmitWorkerAttempt(w, lease) ==
  \/ worker[w].kind = "ingest" /\ AdmitAttempt(w, lease)
  \/ worker[w].kind = "ocr" /\ AdmitOcrAttempt(w)
  \/ RefuseAdmission(w)

-----------------------------------------------------------------------------
(* reserve_free_capacity as a worker or start_ocr calls it. *)

ReserveMissing(w) ==
  /\ worker[w].item \notin Owned
  /\ Finish(w)
  /\ UNCHANGED <<user, item>>

\* An active reservation is accepted without a commit, so the row locks are
\* still held when admission runs: the two are one transaction.
ReserveActive(w) ==
  LET i == worker[w].item
  IN  /\ i \in Owned
      /\ HasActiveReservation(i)
      /\ AdmitWorkerAttempt(w, item[i].reservation_lease_token)

ReserveNew(w) ==
  LET i == worker[w].item
      t == NewToken(i)
  IN  /\ i \in Owned
      /\ ~HasActiveReservation(i)
      /\ MintsFresh(i)
      /\ \/ GrantPremium(i, t) /\ Goto(w, "admit")
         \/ /\ GrantSlot(i, t)
            /\ worker' = [worker EXCEPT
                 ![w].pc = "admit",
                 ![w].lease_token = IF worker[w].kind = "ocr" THEN None ELSE t]
         \/ RefuseSlot(i) /\ Finish(w)

Reserve(w) ==
  /\ worker[w].pc = "reserve"
  /\ ReserveMissing(w) \/ ReserveActive(w) \/ ReserveNew(w)

Admit(w) ==
  /\ worker[w].pc = "admit"
  /\ AdmitWorkerAttempt(w, worker[w].lease_token)

\* start_ocr fails on a row that is gone and enqueues nothing; _run_ocr leaves
\* on no row or no stored original, and goes on with the row's lease.
BeginOcr(w) ==
  LET i == worker[w].item
  IN  /\ worker[w].pc = "begin"
      /\ \/ i \notin Owned /\ (Finish(w) \/ Leave(w))
         \/ i \in Owned /\ Leave(w)
         \/ /\ i \in Owned
            /\ worker' = [worker EXCEPT
                 ![w].pc = "work",
                 ![w].lease_token = item[i].reservation_lease_token]
      /\ UNCHANGED <<user, item>>

-----------------------------------------------------------------------------
(* _AttemptGuard.renew_now: renew_worker_attempt, then, with a lease,       *)
(* renew_reservation_lease, each on its own; both must hold.                *)

RenewsAttempt(w) ==
  LET i == worker[w].item
  IN  i \in Owned /\ item[i].worker_attempt_id = worker[w].attempt_token

\* Mutant: the token alone decides, and the reaper leaves it on the row.
RenewsLeaseByToken(w) ==
  LET i == worker[w].item
  IN  i \in Owned /\ item[i].reservation_lease_token = worker[w].lease_token

RenewsLease(w) ==
  LET i == worker[w].item
  IN  /\ Pending(i)
      /\ item[i].reservation_lease_token = worker[w].lease_token

GuardHolds(w) ==
  RenewsAttempt(w) /\ (worker[w].lease_token = None \/ RenewsLease(w))

RenewedRows(w) ==
  [item EXCEPT
     ![worker[w].item].attempt_live = @ \/ RenewsAttempt(w),
     ![worker[w].item].lease_live =
        @ \/ (worker[w].lease_token # None /\ RenewsLease(w))]

Guarded(w) ==
  /\ worker[w].pc \in {"work", "finalize", "convert", "fail"}
  /\ worker[w].attempt_token # None

\* The background thread's tick.  A failed one only shows at the next check.
Heartbeat(w) ==
  /\ Guarded(w)
  /\ item' = RenewedRows(w)
  /\ UNCHANGED <<user, worker>>

\* The check right before finalize passes.
PassLastCheck(w) ==
  /\ worker[w].pc = "work"
  /\ GuardHolds(w)
  /\ item' = RenewedRows(w)
  /\ Goto(w, "finalize")
  /\ UNCHANGED user

\* A check fails, or raises, which counts as failing: AttemptOwnershipLost
\* compensates but does not release the reservation.
LoseOwnership(w) ==
  /\ worker[w].pc = "work"
  /\ \/ ~GuardHolds(w) /\ item' = RenewedRows(w)
     \/ UNCHANGED item
  /\ Leave(w)
  /\ UNCHANGED user

\* process_pdf_embeddings finds no text.  It writes processed = False on a row
\* it does not own for certain, a write the ORM drops when the copy it loaded
\* says so already.  OCR is then offered, which keeps the reservation, or, with
\* no OCR engine, the failure is final.
ScanNeedsOcr(w) ==
  LET i == worker[w].item
  IN  /\ worker[w].pc = "work"
      /\ worker[w].kind = "ingest"
      /\ i \in Owned
      /\ \E processed \in {item[i].processed, FALSE} :
           item' = [item EXCEPT ![i].processed = processed]
      /\ Leave(w) \/ Goto(w, "fail")
      /\ UNCHANGED user

\* EmbeddingError or any other exception, caught by the worker's handler.
WorkFails(w) ==
  /\ \/ worker[w].pc \in {"work", "finalize", "convert"}
     \/ worker[w].kind = "ingest" /\ worker[w].pc \in {"reserve", "admit"}
     \/ worker[w].kind = "ocr" /\ worker[w].pc = "begin"
  /\ Goto(w, "fail")
  /\ UNCHANGED <<user, item>>

-----------------------------------------------------------------------------
(* finalize_successful_processing. *)

\* Gone, tombstoned, superseded, or holding a lease that is not current.
FinalizeRefused(w) ==
  LET i == worker[w].item
  IN  \/ i \notin Owned
      \/ Tombstoned(i)
      \/ item[i].last_processing_attempt_id # worker[w].attempt_token
      \/ /\ ~item[i].processed
         /\ worker[w].lease_token # None
         /\ ~RenewsLease(w)

FinalizeAccepts(w) ==
  LET i == worker[w].item
  IN  /\ ~FinalizeRefused(w)
      /\ ~item[i].processed
      /\ item[i].entitlement_status \in {"pending", "premium"}
      /\ Convert(i)
      /\ Leave(w)

\* No reservation at completion: reserve_free_capacity commits one, which
\* also drops both row locks before the conversion takes the item's again.
FinalizeReserves(w) ==
  LET i == worker[w].item
      t == NewToken(i)
  IN  /\ ~FinalizeRefused(w)
      /\ ~item[i].processed
      /\ item[i].entitlement_status \notin {"pending", "premium"}
      /\ MintsFresh(i)
      /\ \/ HasActiveReservation(i) /\ Goto(w, "convert") /\ UNCHANGED <<user, item>>
         \/ /\ ~HasActiveReservation(i)
            /\ \/ GrantPremium(i, t) /\ Goto(w, "convert")
               \/ GrantSlot(i, t) /\ Goto(w, "convert")
               \/ RefuseSlot(i) /\ Leave(w)

FinalizeSkips(w) ==
  /\ \/ FinalizeRefused(w)
     \/ item[worker[w].item].processed
  /\ Leave(w)
  /\ UNCHANGED <<user, item>>

Finalize(w) ==
  /\ worker[w].pc = "finalize"
  /\ FinalizeAccepts(w) \/ FinalizeReserves(w) \/ FinalizeSkips(w)

\* The row is locked again and converted; nothing is checked a second time.
\* A row that is gone raises.
ConvertAfterReserve(w) ==
  LET i == worker[w].item
  IN  /\ worker[w].pc = "convert"
      /\ \/ i \in Owned /\ Convert(i) /\ Leave(w)
         \/ i \notin Owned /\ Goto(w, "fail") /\ UNCHANGED <<user, item>>

-----------------------------------------------------------------------------
(* The ways out. *)

\* _release_reservation_after_failure, or the handler of _run_ocr.
ReleaseAfterFailure(w) ==
  LET i == worker[w].item
  IN  /\ worker[w].pc = "fail"
      /\ \/ ReleaseReservation(i, worker[w].lease_token)
         \/ ~MayRelease(i, worker[w].lease_token) /\ UNCHANGED <<user, item>>
      /\ Leave(w)

\* release_worker_attempt in the finally block, only while still the owner.
ReleaseWorkerAttempt(w) ==
  /\ worker[w].pc = "exit"
  /\ item' = IF RenewsAttempt(w) /\ worker[w].attempt_token # None
             THEN [item EXCEPT ![worker[w].item].worker_attempt_id = None,
                               ![worker[w].item].attempt_live = FALSE]
             ELSE item
  /\ Finish(w)
  /\ UNCHANGED user

\* Every step but the guard's ticks moves the task on.
Progress(w) ==
  \/ Reserve(w)
  \/ Admit(w)
  \/ BeginOcr(w)
  \/ PassLastCheck(w)
  \/ LoseOwnership(w)
  \/ ScanNeedsOcr(w)
  \/ WorkFails(w)
  \/ Finalize(w)
  \/ ConvertAfterReserve(w)
  \/ ReleaseAfterFailure(w)
  \/ ReleaseWorkerAttempt(w)

WorkerStep(w) == Progress(w) \/ Heartbeat(w)

=============================================================================
