# nibbler-backend: models and proofs

TLA+ models of the concurrent parts of the nibbler backend (a FastAPI service on
PostgreSQL with an in-process APScheduler), TLC configurations that check them
on small instances, and TLAPS proofs of what matters most for instances of any
size. The reference is the code under `src/`; paths below are relative to
`src/app/` and `map` in `PROJECT.json` names the lines each definition stands
for.

## The system

| Component | State it keeps | Operations | What is hard |
| --- | --- | --- | --- |
| Entitlement accounting (`services/entitlement_service.py`) | `users.successful_sources_total`, `reserved_sources_count`; `library_items.entitlement_status`, lease token and expiry | reserve, renew, reap, release, convert at finalize, auto-unlock | two counters and many rows move together, under row locks, from workers, requests, the reaper and deletion |
| Ingestion workers (`routers/library.py`) | attempt id and expiry on the row; tokens in local variables | upload, OCR request, five background tasks, heartbeat thread, last check, finalize, failure handler, `finally` | a worker presents tokens the row may have moved on from |
| Lock selection (`services/entitlement_service.py`, `middleware/auth.py`) | `is_unlocked_selection`, `free_lock_state_token`, `free_lock_last_effective_premium` | reconcile on every request, settle a downgrade, the user's own choice | reads before the lock, acts under it; two UPDATEs without a lock |
| Source deletion and its retries (`routers/library.py`, scheduler) | `deletion_state` | tombstone, clean up outside the transaction, remove, retry | providers fail, the process dies between the phases |
| Boot-time backfill and migrations (`database.py`) | the same rows, once per boot | `_do_backfill`, the fencing trigger, schema changes | runs at every boot, beside old processes |
| Fencing and reconciliation (`database.py`, `services/entitlement_service.py`) | `reconciliation_tasks`, hidden rows | the trigger queues an old process's write, a task or the sweep accounts for it | a deploy in which two releases write the same rows |
| Cleanup ledger (`routers/library.py`, `services/entitlement_service.py`) | `cleanup_tasks`, vectors, stored files | compensate a failed attempt, retry | a late compensation deletes what a later attempt wrote |
| Subscription events (`routers/revenuecat.py`, `routers/auth.py`, `models/user.py`) | `paid_premium_until`, `complimentary_until`, `premium_until`, `is_premium`, `last_webhook_event_*` | webhook grants and expirations, `sync-premium`, the clock | late, repeated and reordered events of two sources; a read before an HTTP call and a write after it |
| Daily delivery (`services/delivery_lifecycle.py`, `services/notification_service.py`) | `delivery_cycles`, the day's `daily_bites` | on-time pass, discovery, hold and recheck, generation, push, expiry | two processes during a deploy, leases, unknown push outcomes, restarts in mid-cycle |
| Session claims (`services/session_service.py`, `routers/bites.py`) | `daily_bites.claimed_by/claimed_until`, placeholder rows | claim, heartbeat, takeover, finalize, release | a generator that outlives its lease |
| Personalisation answers, chat turns (`routers/bites.py`, `routers/connect.py`) | claimed rows | claim, answer, finalize, takeover | a client's retry while the first answer is under way |
| Account erasure (`routers/auth.py`) | `account_erasures`, erased stores, the e-mail's history | request, grace period, cancel, promote, phased cleanup, mirrors | one store of several fails; the user comes back |
| Active line-up (`routers/library.py`) | `is_active` | activate, replace, upload | count, then set, without a lock |
| Growth profiles (`routers/profile.py`, `services/growth_merge.py`) | merged state with tombstones | merge of two devices' states | order of pushes, deletions |
| LLM router and breaker (`services/llm/`) | process-local breaker states | call, fall back, trip, probe | shared by threads |
| Streaks, sync, tokens, support | one row each | upserts | constraint-driven |
| Stores and providers (embeddings, S3, mail, OCR, text) | external | calls | succeed or fail |

How they interact. A request or the scheduler starts an ingestion worker, which
reserves a slot, is admitted as the source's only attempt, works, and finalizes
through the accounting service; what a failed one left outside the database goes
to the cleanup ledger. Subscription events change `User.effective_premium`, which
every gate reads and which the next request turns into a lock selection. The
scheduler's five-minute tick runs deletion retries, reaping, the cleanup ledger,
the reconciliation tasks, the erasures and the delivery ledger. Delivery
generates through the session claims, which the app's own requests share. All
components meet in rows of the database; the only locks are the account's and
the source's row locks, taken per transaction, and conditional UPDATEs.

What makes them correct, in one line each: no more slots than the limit and one
charge per source (accounting); one attempt may finish (workers); a downgrade
leaves the limit unlocked and no more (selection); the row says what the newest
event of each source says (subscriptions); a day's cycle moves forward, ends,
announces what exists and is complete only if the reader heard (delivery); one
generation per slot, whose result everybody is told (claims); nothing of the
attempt that finished is cleaned up, everything of the others is (ledger);
nothing the old release finished is shown before it is accounted for
(reconciliation); nothing goes before the grace period is over, the user goes
last (erasure).

## Modules

| Module | Models | State |
| --- | --- | --- |
| `EntitlementRows` | the locked primitives on the account's and the sources' rows | `user`, `item` |
| `Workers` | the background tasks, their guard, the requests that start them | `worker`: program counter, item, lease and attempt token of each task |
| `LockSelection` | tier changes, reconciliation, downgrade, the user's choice, backfill | `request`: what a request read or wrote and has not committed |
| `Library` | the three together with deletion, the maintenance cycle, time and restarts | `history`, for the properties |
| `LibraryProperties` | the properties of `Library` | |
| `SlotPool` | abstract specification: a pool of slots held, given back, or charged | `carried`, `held`, `charged` |
| `Cutover` | the library beside workers of the previous release, the trigger, the sweep, the reconciliation tasks | `scenario`, `old`, `task`, `runner`, `sweep` |
| `Artifacts` | what one source's attempts leave in the stores, the ledger, its runner, the deletion | `source`, `vector`, `file`, `task`, `attempt`, `runner`, `deleter`, `events` |
| `Entitlement` | the webhook, `sync-premium`, derived expiry, the trial | `user`, `sync`, `rc` (RevenueCat's own view), `events`, `now`, `history` |
| `DeliveryCycles` | one account's cycle of one day with the processes that advance it | `cycle`, `bites`, `writer`, `proc`, `now`, `earlier`, `enabled`, `selected`, `history` |
| `LeasedSlot` | abstract specification: slots leased, taken over when the lease is over, filled once | `holder`, `leased`, `filler` |
| `Claims` | sessions, answers to questions and chat turns, and the handlers that claim them | `row`, `card`, `story_progress`, `worker`, `told` |
| `AccountErasure` | one account's deletion, its attempts and mirrors, and the account made anew | `user`, `guard`, `row` (of `account_erasures`), `item`, `file`, `vector`, `owed`, `job`, `sent` |
| `MCLibrary`, `MCCutover`, `MCArtifacts`, `MCClaims`, `MCDelivery`, `MCErasure` | constant values and symmetry | |
| `LibraryProofs`, `BooksProofs`, `CutoverProofs`, `ArtifactsProofs`, `EntitlementProofs`, `DeliveryProofs`, `ClaimsProofs`, `ErasureProofs` | theorems | |

### Library

One action is one transaction: every step that reads and then writes the
counters holds the account's row lock from its read to its commit, so nothing
can come in between. What a caller carries from one transaction to the next (a
lease token read long ago, a tier read before a lock) is in `worker` and
`request`, and everything interleaves there. `Reserve`, `Admit`, `PassLastCheck`,
`Finalize`, `ConvertAfterReserve`, `ReleaseAfterFailure` and
`ReleaseWorkerAttempt` are the transactions of a task in their order;
`ConvertAfterReserve` is a step of its own because a reservation made inside
`finalize_successful_processing` commits and drops the locks. `Heartbeat` is the
guard's thread. Uuids are members of `Token` compared for equality; a deadline
is a Boolean that some step lets pass (`LeaseExpires`, `AttemptExpires`); `lock`
folds the two free-lock columns (the comment on `UserRow` gives the mapping).
`is_active` and recency only order candidates, so `Take` leaves the choice open.
The lease read immediately after the commit that minted it is taken to be that
one. `RowLocks` says that rows an uncommitted selection wrote wait for it.

### Cutover

`Cutover` extends the library with the processes of the release that did not
have the accounting. `OldWorkerFinishes` is such a worker's last write as the
trigger turns it (hidden, `released`, a task queued); `SweepStarts` and
`SweepOne` are `reconcile_unaccounted_processed_items` at a boot;
`ClaimTask`, `Settle`, `FindMoot`, `FailToResolve` and `Record` are
`retry_reconciliation_tasks`, in two processes whose leases lapse and which die.
A scenario says what the release finds: which sources are new, under way in the
old code, older than the trigger, or unused, whether the account is on its
trial, may subscribe, may delete, and what total it carries. A row is fenced
once (its status is never NULL again), so its generation never differs from its
task's and neither is a variable.

### Artifacts

One source, its attempts at being ingested, and what they leave in S3 and in
Pinecone. An attempt archives, indexes batch by batch with a check before each,
finalizes and writes the content (`UploadFile` to `WriteContent`); any failure
leads to `Compensation`, which records what has to go, claims the record, calls
the store, writes down the answer and releases the claim, first for the vectors,
then for the file. `RunnerClaims` to `RunnerReleases` are `retry_cleanup_tasks`.
`DeleteLibraryItem` and the `Deletion...` actions are a deletion from the
tombstone to the row's removal. A store that answers an error may have done what
it was asked. `events` says what a behaviour may contain: a process that dies
(`crash`), a lease that lapses under a live holder (`stall`), a row write that
raises (`write`), a deletion (`delete`), an upload that S3 has stored and
answers with an error (`answer`), and calls left out because the Pinecone client
could not be built (`client`): then `index_text` returns 0 and its attempt
finalizes without vectors (`IndexNothing`), and a deletion of vectors is
answered yes with nothing deleted (`VectorsUnasked`). A clean-up whose own write
raises (`ClearRaises`) leaves its claim behind; when it ran in the task's own
block, the task's handler cleans up a second time from the start. The accounting
of `Workers` is here one more reason for a check to refuse.

### Entitlement

`RevenuecatWebhook` handles any event ever sent, in any order and any number of
times. `Grants` and `Expires` are RevenueCat: what it sells or ends, with the
event it then owes. `sync-premium` is three steps (the row loaded, the answer of
the HTTP call, the write), because SQLAlchemy writes back only the columns that
changed since the row was loaded. The natural end of a grant may be reported a
tick before the server's clock reaches it (`Ends`). `NULL` is 0 and the clock starts at 1.
`StoreNamed` says whether events name their store; without it the webhook falls
back on `entitlement_source`. A paid grant always has an expiry.

### DeliveryCycles

A process runs one tick at a time (`max_instances=1`): the on-time pass
(`Prepare`, `ItemStarts`, `ItemEnds`), then discovery and the ledger's three
passes, each of which lists the row, claims it, checks it and writes a result:
`ListHeld`, `RecheckHeld`, `RecheckEnds`; `ListDue`, `GenerationPhase`,
`GenerationChecks`, `ReloadsRow`, `GenerationEnds`; `ListPush`, `PushPhase`,
`PushChecks`, `Send`, `PushEnds`. These are steps of their own because each
commits or makes a slow call (the model provider, Expo): leases run out,
processes die and others claim in between. A process decides on `copy`, the row
as its SQLAlchemy session holds it: `_try_claim` and `_finish` lock the row with
`with_for_update()` but without `populate_existing()`, so the query returns the
object loaded earlier with the values it had, until a commit or rollback of that
session expires it (`Expires`); the UPDATE then writes only the columns that
differ from the copy (`Written`). Where the handling of another account's row in
the same batch may have expired the copy, either is possible (`TryClaim`).
`attempts` counts up to `MaxAttempts`, which stands for all higher counts too.
`LeaseExpires` needs no dead owner: a slow worker loses its lease too. A process's
id dies with it, so its claim becomes `Dead`, which no process equals. A tick is five
minutes; `MaxTime` stands for all later ones. The reader reads decks
(`MarkBiteRead`), opens sources by hand under the cap (`GetOrCreateSession`) and
switches notifications. A placeholder is a row of `daily_bites` without a deck;
while its writer lives it keeps it (the heartbeat renews the claim), and a dead
writer's may be taken over.

Left out: the on-time push and the streak alert (they read this state and write
none of it), sources deleted in mid-cycle, the batch limit of 25, the midnight
after which a new cycle begins, and a placeholder taken from a live writer.

### Claims

Three tables use one idiom, `claimed_by` and `claimed_until` renewed by a
heartbeat thread, each with its own code: the day's deck of a book, the answer
to a personalisation question, a chat turn. `row` is the three of them; the
steps of a handler keep the order of the code, with the slow call between the
claim and the write, and the claim can lapse and be taken over there. What a row
contains is told by who wrote it. `told` remembers what a question's submitters
were answered. `timely` chooses between heartbeats that always come in time and
leases that lapse under live handlers. Each table's rows map to slots of
`LeasedSlot` (`SlotsRefined`).

### AccountErasure

One account: `DELETE /auth/me` schedules, a request may cancel during the grace
period, a run of the scheduler captures the identity and promotes, and the
attempts of runs and requests erase class by class (vectors, files, ledger,
providers), settle, and mirror to the Sheet and the e-mail. Sources go on being
uploaded and ingested by requests that have passed the gate before. A token that
outlives the account makes it anew (`GetOrCreateUser`). With `outage` in `events`
providers answer errors and processes die until the outage ends; with `client`,
calls to Pinecone may be left out, and be answered yes, for want of a client.

## Runs

| Run | Question | Bounds |
| --- | --- | --- |
| `FreeAccount` | do the books of an account that was Free all along stay right (`FreeCap`, `ChargedExactlyOnce`, `NoFreeRide`, `ReservationLedger`), does the protocol implement `SlotPool` (`SlotPoolRefined`), and does every reservation resolve and every deletion complete (`NothingHangs`)? | 2 sources, 2 tasks, limit 2, one carried over, deletions and crashes, fairness |
| `ContendedSource` | can two attempts of one source both finish, or a live one be pushed out (`AtMostOneOwner`, `LiveAttemptKept`)? | 1 source, 2 tasks, Free or on its trial, deletion, crashes, all deadlines |
| `Cutover` | is what the old release leaves counted once, hidden until it is accounted for, and always queued (`ChargedExactlyOnce`, `FencedUntilAccounted`, `FencedIsQueued`, `CappedReconciliation`), and what does the end of a trial count and unlock (`NeverUndercharged`, `DowngradeSettles`)? | 2 sources, 1 task, 1 request, 2 overlapping maintenance cycles, limit 2, 0 or 1 carried over, the scenarios of `MCCutover` |
| `Artifacts` | does the ledger tell what is left, does what finished stay, does a deletion leave nothing (`LedgerTells`, `FinishedKept`, `DeletedLeavesNothing`, `OneCaller`, `ResolvedStays`)? | 2 attempts, 1 runner, 2 batches, each kind of event alone, a deletion without a client |
| `Cleanup` | is everything on the ledger taken back some day (`EventuallyClean`)? | 1 attempt, 1 runner, 1 batch; crashes with a deletion, stalls, or raising writes; fairness |
| `Entitlement` | what do events of two sources, late, early and repeated, beside a sync leave (`DerivedSummary`, `NewestAppliedWins`, `TrialNeverResumes`, `ExpiryLeavesOther`)? | 3 events, times 1 to 3, 1 sync |
| `DeliveryOverlap` | what holds of a cycle while two processes claim over one another (`AnnouncesWritten`, `CompletedIsDelivered`)? | 2 processes, 2 sources of which the day selects one or none, window 0, limit of 3 attempts, 1 crash |
| `DeliveryResumes` | does an owed cycle always end, and never go back (`Resolves`, `LedgerForward`)? | 1 process that dies twice, 2 sources, window 2, limit of 3 attempts, fairness |
| `Claims` | one result for everybody, one payer, questions that fit, the cap (`AnswersAgree`, `OneGenerator`, `QuestionsFit`, `CapOvershoot`, `ProgressInTime`), and the three tables as one abstract slot (`SlotsRefined`) | 3 handlers over 2 days of a story, 2 books with questions, or 1 turn; cap 1, 2 portions; heartbeats in time or not |
| `Erasure` | nothing goes early, what is counted is erased, uploads carry over, the user goes last (`GraceKept`, `CountedIsErased`, `UploadsCarryOver`, `ErasedInOrder`), and does every deletion end (`ErasureEnds`)? | 1 source, 1 run, 1 request, 2 schedulings, the scenarios of `MCErasure`, fairness |
| `DowngradeSkipped` | violated: as many sources stay unlocked as the limit allows | 2 sources, 1 task, 1 request, limit 2 |
| `ErasureLeaves` | violated: nothing of an erased account is left | 1 source, 1 run, 1 request, 1 scheduling |

Why the bounds are enough for what they look for. The hazards of the library
concern two tasks on one row, or two rows and one slot: two of each, a limit they
compete for, and a supply of tokens (seven) larger than a row and the tasks on it
can hold. `Cutover` puts each pair of origins side by side, and its two
maintenance cycles are the process that lost a claim and the one that took it.
The hazards of `Artifacts` concern two attempts, one compensated while the other
works, and one artifact that the attempt and a runner both want; two batches let
an attempt fail between them. Three events of two sources contain each order of a
grant, its successor and the other source's. Two processes are a deploy and what
it replaces; a third only repeats what the second does to a claim. Three handlers
are an owner, who took over, and who waits. Two schedulings let a deletion be
cancelled and requested anew while a run holds the first. Numeric bounds
(`MaxTime`, `MaxEvents`, `MaxCrashes`, `MaxAttempts`, `MaxRequests`) are in the
guards and named. Where a theorem exists the bounds do not matter.

Deadlock is checked, except where the system may really stop because there is
nothing left to do: `ContendedSource` and `DowngradeSkipped` (the only sources
are deleted or finished), `Entitlement` (the last event has been sent and time is
up), `Claims` (all that was asked for is answered), `Artifacts` and `Cleanup` (the
attempts have ended and the ledger is empty), `Erasure` and `ErasureLeaves` (the
account and its records are gone).

Fairness. `FreeAccount` assumes that a background task runs on until it ends or
the process dies, that a lease nobody renews runs out, that APScheduler keeps
running the maintenance cycle, and that a provider called every five minutes
answers eventually. `Cleanup` assumes the same of tasks and claims, and that the
scheduler comes back to a record until a run finds the store answering and lives
to write it down. `DeliveryResumes` assumes that ticks keep coming, that a
platform restarts a process that died, that leases run out, that time passes, and
that the expiry of a claimed cycle, which every later tick tries to write, is not
refused by the database every time (`Expiry`).
`Erasure` assumes that the grace period ends, that claims lapse, that the
scheduler keeps running its jobs and that an outage ends; nothing of the user's
requests. Nothing is assumed of users, readers, RevenueCat or the success of a
provider's call in the delivery model: every call may fail every time.

## Proofs

TLAPS checks the theorems below for every value of the constants: any number of
sources, tasks, requests, processes, attempts, handlers and tokens, and every
limit. They cover every property the runs check except liveness. Each is
`Spec => []Invariant` or `Spec => [][Action]_vars`, proved from an inductive
invariant that TLC checked on the run's bounds first. The only
assumptions are the named `ASSUME`s of the constants (natural bounds, finite
sets, reserved names that are no id); every run evaluates those of its module.

**Library** (`LibraryProofs`: types and owners; `BooksProofs`: the counters).

- `TypeCorrect`: `TypeOK`, one lemma per component's actions.
  `reserved_sources_count` is only an integer, because a deletion can give one
  slot back twice (observations).
- `FreeCapHolds`: `FreeCap` alone is not inductive, since a purchase followed by a
  downgrade may exceed the limit. `BooksInv` adds that an account Free all along
  meets neither, so that no step but a reservation, which looks at the limit, can
  raise the balance. A conversion moves one from reserved to charged.
- `ChargedOnce` and `NothingForFree`: `ChargesInv` says which rows are charged.
  An uncounted row is not processed, not selected, and in one of the states a
  source passes before it is charged; a counted one is `consumed`, `premium`
  after an OCR of a reset source, or gone. On an uncounted source only ingestions
  work, each with a lease from its admission on (`WorkerFits`). Every step then
  either charges nothing or charges exactly one uncounted source.
- `OneOwner`: the steps are sorted by what they do to the two sides of the
  property. An admission (`Admission`) mints one id for a row and a worker; any
  other step leaves a row's id, clears it or makes it one no worker there holds
  (`IdsFresh`), and leaves a worker's or drops it (`HandsKept`). Neither makes a
  second owner.
- `LiveAttemptSafe`: an admission finds the attempt it replaces not live, and a
  release goes by the id it presents, so only another worker that holds the same
  id could take a row from the one whose attempt is live. `HandsInv` is the
  invariant that there is none.
- `NeverBehind`, for every tier: a step that turns rows `consumed` adds at least
  as many to the total (`PaysFor`), except the backfill, which `NeverUndercharged`
  excepts.
- `LedgerMoves`: `ReservationLedger` is about steps, and each transaction is shown
  to take (`SlotsTaken`) or give (`SlotsGiven`) as many slots as it moves rows in
  or out of those that hold one; reaping and backfill move several at once.
- `ImplementsPool`: `PoolInv` adds to `ChargesInv` that until a source is deleted
  the counter is the number of rows that hold a slot; every transaction is then a
  step of `SlotPool` or a stutter. The refinement is claimed of the steps after
  which the account is still Free all along and nothing was deleted: a deletion
  gives slots back in ways the pool has no step for (observations), and
  `ReservationLedger` says how far.
- `DowngradeKept`: `SettlesWell`, of one settlement: the rows kept were consumed
  already or are converted by it, conversions stop at the limit, and what remains
  locked is either over the limit or no counted candidate. No invariant beyond
  the types is needed.

**Cutover** (`CutoverProofs`): all properties of the run `Cutover`, on top of the
library's lemmas. A step of the new release is a step of `Library`, and its
lemmas are stated so that they apply row by row and worker by worker:
`ChargesInv` does not hold during a release, only its part about the rows the new
release took in.

- `CutoverTyped` (`CutoverTypeOK`); `CutoverNeverBehind` and
  `CutoverDowngradeKept`, which are `NeverBehind` and `DowngradeKept` with the
  steps of the old worker, the sweep and the runs over the tasks added: these
  move one row each (`CutoverWrites`).
- `CutoverChargedOnce`, `CutoverCapped`, `CutoverFenced`, `CutoverQueued` from
  `FreeRelease`. `RowsFit` divides the rows: those of the new release are as in
  `ChargesInv`; those the release found are unfinished or legacy, or fenced with
  an open task, or accounted for, never selected and never worked on again
  (`WorkersFit`), since only a selected row can be given to OCR. `TasksFit` says
  that only what an old worker finished has a task and that a run which will
  report success is right: its source is no longer fenced, and cannot become so
  again. `AccountFits` divides the total: what was carried over and brought by
  old sources fits the limit, and so does everything but what was brought. Each
  side is checked by its own code (`ReconciledStatus`, `SlotFree`) without
  looking at the other's share, so neither part is a bound on the sum, and their
  combination is exactly `CappedReconciliation`.

**Artifacts** (`ArtifactsProofs`): all properties of the run `Artifacts`.

- `LedgerTrue`, `ResolvedForGood`, `OneCallerAtATime`, `ArtifactsTypeCorrect`
  from `LedgerInv`. It says of each attempt what is on the ledger at which point
  (`TaskFits`: nothing before it failed, each kind once, the vectors first), how
  its file, its own knowledge of it and the row's key agree (`FilesFit`), and
  what a resolved record means (`LedgerFits`); of each claimant, that the store's
  yes, when the store was asked, means the artifact is gone, that a claim still
  held means the record is still unresolved, and that without stalls it still has
  its claim (`ClaimFits`). A step of an attempt touches its own part and keeps apart from
  the others' (`Keeps`); a runner's concerns one artifact (`RunnerStep`); the
  deletion only takes (`Outside`).
- `FinishedIsKept` and `DeletedForGood` are about behaviours with crashes and
  deletions, but no stall, raising write, missing client or wrong answer to an
  upload, and need more (`CalmInv`): at most one attempt works, the row's
  last, and it has the row's lease (`Alone`); only the first archives
  (`FirstArchives`); the batches counted as written are the attempt's own until a
  deletion (`BatchesFit`); a processed source is its last attempt's work, which
  has nothing on the ledger (`ProcessedFits`); and what a deletion has taken of
  finished attempts does not come back (`DeletionFits`). Clean-up steps take only
  what is recorded (`Cleans`); the steps of the one attempt that works are
  `Frame` and its own part `OwnCalm`.

**Entitlement** (`EntitlementProofs`): all properties of the run `Entitlement`
(`SummaryDerived`, `NewestWins`, `TrialIsOver`, `OtherGrantLeft`,
`EntitlementTypeCorrect`). `MarkInv` is what makes `TrialNeverResumes` inductive
under writes of a sync that overwrite an event: a row with no source and no
expiry never had a grant, and neither has the copy a request holds.

**DeliveryCycles** (`DeliveryProofs`): all safety properties (`NibbleWritten`,
`DeliveredWhenCompleted`, `NeverGoesBack`, `DeliveryTypeCorrect`). `DeliveryInv`
holds for any number of overlapping processes, whatever their copies say:
`RowInv` (a generated cycle names a nibble), `CopyInv` (a copy may be old, but a
nibble once in the row never leaves it, so who announces one has it), `WriterInv`
and `MadeInv` (what a process generates or brings back is on the rows),
`TicketInv` (an accepted push was recorded). `NeverGoesBack` is
`Spec /\ []OneAtATime => LedgerForward`: with one process at a time `SoloInv`
says that a copy is the row, and that the state is one the process can have left
it in (`Stands`). Without that condition the formula is false (observations).

**Claims** (`ClaimsProofs`): all properties of the run `Claims` (`OneAnswerTold`,
`OnePays`, `QuestionsHaveDecks`, `CapNearlyKept`, `ProgressWithDeck`,
`ClaimsAreLeases`, `ClaimsAreKept`, `ClaimsTypeCorrect`). `OneAnswerTold` is
about the submitters of one personalisation question; of sessions and chat turns
the theorems say what the stored row is. The invariant gives
each handler what it holds, placed, asks and works on; a step has one of six
effects on a row (`Deed`: take, write, release, orphan, heartbeat, none), each of
which leaves the others' claims and every finished row alone. The same six are
the steps of `LeasedSlot`, so the refinement holds for each table and, being
stated slot by slot, for any number of rows.

**AccountErasure** (`ErasureProofs`): all safety properties of the run `Erasure`
(`GraceIsKept`, `CountedErased`, `UploadsCarried`, `ErasedInItsOrder`,
`ErasureTypeCorrect`). `JobFits` says what an attempt in hand knows of the row
and of the stores (whose row it belongs to, what it has had confirmed), `RowFits`
where a row stands, `SourceFits` where a source (its vectors are gone, or a call
may have been answered for want of a client); steps only lead sources onward
and change the row in one of three ways (`RowMoves`).

Only model-checked: liveness (`NothingHangs`, `EventuallyClean`, `Resolves`,
`ErasureEnds`), because the prover has no rules for fairness and ENABLED; and the
two runs that end in a violation, which are findings.

Recursive definitions and induction over data are out of the prover's reach too;
the modules use none.

## Findings

Each is a run that TLC refutes.

- `DowngradeSkipped`: the first source finished after a downgrade stamps
  `free_lock_state_token`, so the request that would have settled the downgrade
  finds it settled: the sources of the trial stay locked with slots to spare.
- `ErasureLeaves`: `promote_scheduled_erasures` captures the account's keys with
  no lock. A source whose worker archives and finalizes after the capture is not
  in `source_keys`: its row goes with the user's by CASCADE and its file stays,
  named by nothing.

Further observations, found while modelling, without a run of their own. Of the
library:

- *Slot given back twice.* `release_reservation` gives back the slot of any row
  that is still `pending`, and a tombstoned row still is, although DELETE has
  given its slot back. A task that fails in between drives
  `reserved_sources_count` to −1 (`routers/library.py:1417`, "can never
  double-decrement"), which is one free source more later on.
- *Slot stranded.* `reserve_free_capacity` does not look at `deletion_state`
  (`services/entitlement_service.py:502`); a task queued before DELETE reserves
  on the tombstoned row, and phase 2 removes the row with the slot.
  `ReservationLedger` states this departure and the one before as the only two.
- *Carried total lost.* `_backfill_one` (`:1170`) runs at each boot on accounts
  never stamped; during the trial of a returning account it replaces the total
  carried over from `EmailAccountHistory` (`middleware/auth.py:65`).
- *Charged twice.* `process_pdf_embeddings` writes `processed = False`
  (`routers/library.py:2428`) without owning the attempt; with a downgrade in
  between the source is charged again.
- *Over the limit while Free.* Reservations made while Premium are charged when
  they finish after the downgrade, and `capacity_available` (`:854`) does not
  count slots held by rows still processing.
- *Stale downgrade.* The tier is read before the lock (`:935`); a purchase in
  between is followed by a downgrade stamped for the new entitlement.
- *Late selection.* `set_free_selection` checks in one transaction and applies in
  another (`routers/library.py:466`); applied after the downgrade it unlocks a
  source never counted. Its two UPDATEs (`:764`) leave room for an auto-unlock
  between them.
- *Tombstoned rows.* The top-up query (`:871`) and the conversion after an
  on-the-fly reservation (`:1097`) do not look at `deletion_state`.

Of the cutover:

- *Counted and locked.* The task's resolution charges a Free account's source and
  does not set `is_unlocked_selection` (`services/entitlement_service.py:1576`),
  though its docstring (`:1222`) calls the policy identical to `_backfill_one`'s,
  which does.
- *Together over the limit.* The resolution does not look at
  `reserved_sources_count`; `CappedReconciliation` bounds by how much the total
  may pass the limit. It does not look at `deletion_state` either.
- *Around the fence.* An old worker that writes on a row which already has a
  status is not fenced. On an account once Premium a fenced row reserved again by
  an OCR makes the task moot; if that worker fails, the old success is lost.

Of the stores and the ledger:

- *A processed source compensated.* An exception after finalize, while the text
  is written, runs the failure handler (`routers/library.py:2475`), which deletes
  the vectors and the file of a source that was counted. `FinishedKept` holds
  without such a raise.
- *Stale upsert.* Vector ids are deterministic (`services/embedding_service.py:164`):
  an attempt whose lease lapsed during an upsert overwrites what a later attempt
  finished, and its compensation deletes it. `FinishedKept` holds without stalls.
- *Left unrecorded.* What an attempt whose process died had archived or indexed
  is on no ledger, nor an upload that was stored but answered an error
  (`LedgerTells` excepts it), nor, once the attempt succeeds, a file whose key the
  row did not take because the write raised.
- *Nothing asked, nothing deleted.* When the Pinecone client could not be built
  (`services/embedding_service.py:145`) `delete_item_vectors` returns True without
  a call (`:477`), so a record is resolved and a deleted source's row goes with
  the vectors still there; `delete_user_namespace` does too (`:499`), against its
  docstring "Returns True only when the vectors are genuinely gone" (`:495`), so
  that an account counts as erased whose vectors stay. The comment there,
  "Nothing was indexed", is about a process that has never had a client; the
  vectors may be another process's or an earlier boot's.
- *Processed without vectors.* Without a client `index_text` returns 0 (`:199`) and
  `finalize_successful_processing` takes a `chunk_count` of 0
  (`services/entitlement_service.py:1106`): the source is processed and counted.
- *Resolved, then pending.* When the commit that clears `file_url` raises
  (`routers/library.py:2065`) in a clean-up of the task's own block, its handler
  (`:2502`) cleans up again, and `_cleanup_ledger_upsert_pending` (`:1674`) sets
  the vectors' record, resolved a moment ago, back to pending. Nothing is lost:
  the call is made once more. `ResolvedStays` names this as the only way back.
- *Processed without content.* A crash between finalize and the content's write.
- *Marked with nothing pending.* `models/library.py:159` says `cleanup_detail`
  None means nothing is pending; the ledger keeps records of earlier attempts
  when the row's mark is cleared (`routers/library.py:1619`).
- *Phase two without its lock.* `delete_library_item` runs the clean-up without
  the lock its docstring asks for.

Of subscriptions and delivery:

- *Event lost.* One `last_webhook_event_at_ms` serves two sources
  (`routers/revenuecat.py:108`, `models/user.py:53`): a late event of one is
  dropped when a newer one of the other was applied, and answered 200.
- *Sync overwrites.* `sync-premium` writes without the lock the webhook takes;
  columns loaded before the HTTP call can leave `premium_until` different from
  what its two sources say.
- *Held for nothing.* `_live_unread_query` takes a placeholder for an unread
  nibble (`services/notification_service.py:389`, `models/bite.py:48`): after a
  restart during generation the cycle is held for a deck never written.
- *Ownership on a copy.* `_try_claim` says it claims on a row "re-read under
  `with_for_update()`" (`services/delivery_lifecycle.py:175`) and `_finish` writes
  "ONLY if `worker_id` still owns the claim", so that a late worker "must never
  overwrite that someone else's own, possibly-newer result" (`:212`). Both compare
  the object their session already has (`:197`, `:220`), the failure that
  `routers/bites.py:518` describes of another table. Two processes that have
  listed one due row both claim it, the second over the first's live lease, and
  the first's `_finish` writes its result over the second's claim. A push worker
  whose lease ran out finds its own id in its copy and writes
  `push_submitted_unknown` over the `completed` of the one that took over: the
  cycle is open again and is pushed once more. TLC refutes `LedgerForward` with
  two processes by such behaviours (add the property to `DeliveryOverlap.cfg`);
  it is checked and proved for one process at a time.
- *Pushed twice.* When the on-time pass was held or failed, the ledger pushes
  five minutes before the slot and the slot's own push follows
  (`models/delivery.py:4`, "without losing, duplicating"). A crash between Expo's
  answer and the result sends again, without counting the attempt.
- *Open at midnight.* Every query of the ledger is for today, so a cycle still
  open at midnight never becomes `window_expired`. `Resolves` is checked with a
  day that outlasts the window.
- *A second set.* The ledger has no equivalent of the on-time pass's test of what
  the day already made (`services/notification_service.py:454`): a user who read
  a deck opened by hand gets another.
- *One attempt more.* Generation and push share `attempts`; with generation
  succeeding at the last one, push makes `MAX_ATTEMPTS + 1`.

Of the claims:

- *Progress without a deck.* A worker that lost its claim still commits the
  story's progress (`services/session_service.py:158`; the comment at 827 says it
  cannot). Only when heartbeats are late (`ProgressInTime`).
- *Over the daily cap.* The count is read before the claim
  (`routers/bites.py:339`); `CapOvershoot` bounds the excess.
- *One portion twice.* Two days of one story generated side by side may serve the
  same portion. `_roll_personalization` finds the session's own deck, so its
  `prior_exists` is always true (`services/session_service.py:321`).
- *A reply nobody keeps.* A superseded chat worker answers its own request with
  its own text (`routers/connect.py:827`), so that `AnswersAgree`, which is about
  answers to questions, would not hold of turns; gathering runs without a
  heartbeat and outside the handler's try. `_claim_chat_turn`'s docstring says it
  always commits; on a replay it does not.
- *Empty nibbles.* `get_daily_nibbles` returns placeholder rows.

Of the erasure:

- Sources finished after the capture are missing from `EmailAccountHistory`'s
  total too (`routers/auth.py:469`).
- A DELETE repeated with a token still valid makes the user anew and answers that
  everything is deleted (`:731`).
- The request's own attempt takes no claim: a late failure overwrites `resolved`,
  erases the progress and sends the confirmation twice, and a late delete of the
  namespace meets the account made anew. Claims last five minutes and are not
  renewed.
- With `account_deletion_automation_enabled` off, or without a RevenueCat key,
  rows never end.
- `_row_allocation_lock` (`services/deletion_sheets_service.py:273`) covers only
  the reading of the next empty row.

## Plan

Done: the library with its cutover, the stores and their ledger, subscriptions,
delivery, claims, the erasure, and a theorem for every safety property the runs
check. Left, in this order:

1. `ActiveLineup` (cap of five, checked and set), `GrowthMerge` (merge of two
   devices against a reference: commutative, idempotent, deletions win),
   `Circuit` (breaker and fallback order).
2. `LockOrder`: which row locks each transaction takes in which order, as
   resources, checked for circular waiting (`services/entitlement_service.py:1095`
   takes them against the documented order).

## Not modelled

Providers and stores beyond their answers, text extraction, prompts, schemas,
rate limits and configuration (pure functions and I/O); user-data sync, streaks
and support (one upsert each, decided by a constraint); authentication tokens;
the line-up, growth profiles and the model router (see the plan). Within modelled
parts: images (they follow the archive's path), a failure to write the cleanup
ledger itself, a commit whose outcome is unknown, the alert e-mail after five
failed erasures and the allocation of the Sheet's row. `PROJECT.json` lists each
component with its reason.
