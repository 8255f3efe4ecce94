---------------------------- MODULE DeliveryCycles ----------------------------
(***************************************************************************)
(* One account's delivery cycle of one day: the ledger row of              *)
(* services/delivery_lifecycle.py, the scheduler processes that advance it *)
(* (services/notification_service.py, _run_delivery_cycle every five       *)
(* minutes), the nibbles of the day, and a reader.  More than one process  *)
(* runs while a deploy overlaps the one it replaces; each has a worker id  *)
(* that dies with it.                                                      *)
(*                                                                         *)
(* A process sees the row through its database session, which keeps the    *)
(* copy it loaded until a commit or a rollback of its own expires it:      *)
(* with_for_update() locks the row but, without populate_existing(), does  *)
(* not load it again.  So _try_claim and _finish decide on the copy, and   *)
(* their UPDATE writes only the columns that differ from it.               *)
(*                                                                         *)
(* The on-time push (_notify_delivery_slot) and the streak alert read this *)
(* state and change none of it: they are left out.                         *)
(***************************************************************************)
EXTENDS Integers, FiniteSets

CONSTANTS
  Process,     \* slots for processes that run the scheduler
  Item,        \* the account's active, processed sources
  Selections,  \* what the day's rotation may have selected of them
  Cap,         \* nibbles a day (free_bites_per_day, premium_bites_per_day)
  Due,         \* the tick five minutes before the delivery time
  Window,      \* GENERATION_CATCHUP_WINDOW = PUSH_CATCHUP_WINDOW, in ticks
  DayEnd,      \* the first tick of the next day
  MaxTime,     \* the last tick, which stands for all later ones
  MaxAttempts, \* MAX_ATTEMPTS
  MaxCrashes   \* bound: processes that die

ASSUME TicksAssumption ==
  /\ Due \in Nat /\ Window \in Nat /\ DayEnd \in Nat
  /\ MaxTime \in Nat \ {0}
ASSUME AttemptsAssumption == MaxAttempts \in Nat \ {0} /\ MaxCrashes \in Nat
ASSUME SelectionsAssumption == Selections \subseteq SUBSET Item
ASSUME IdsAssumption == "none" \notin Process \cup Item /\ "dead" \notin Process

VARIABLES
  now,      \* the clock, in ticks
  cycle,    \* the row of delivery_cycles
  bites,    \* the day's row of daily_bites for each source
  writer,   \* claimed_by of an unfinished one
  earlier,  \* the nibble of an earlier day
  enabled,  \* whether the account has a push token with notifications on
  selected, \* _select_sources_for_today
  proc,     \* each process and the tick it runs
  history   \* not in the program: what the properties speak of

vars == <<now, cycle, bites, writer, earlier, enabled, selected, proc, history>>

None == "none"
Dead == "dead"    \* the id of a process that is gone

Terminal == {"completed", "terminal_failure", "window_expired"}
Generated == {"push_pending", "push_submitted_unknown"}
Ungenerated == {"due", "held_unread", "retryable_failure"}

Cycle == [state : {"absent"} \cup Ungenerated \cup Generated \cup Terminal,
          claimed_by : Process \cup {None, Dead},
          leased : BOOLEAN,                 \* claimed_until is ahead
          attempts : 0 .. MaxAttempts,      \* that many, or more
          daily_bite : Item \cup {None}]

\* A placeholder is a row inserted before its deck is written.
Bite == {"none", "placeholder", "unread", "read"}

Proc == [pc : {"down", "idle", "prepare", "preparing", "discover",
               "held", "recheck", "rechecked",
               "generation", "generate", "claimed", "generating", "generated",
               "push", "announce", "announcing", "sending", "sent"},
         at : 0 .. MaxTime,                 \* `now`, read when the tick began
         copy : Cycle,                      \* the row in the session's identity map
         left : SUBSET Item,
         item : Item \cup {None},           \* the source being generated
         made : Item \cup {None},
         ticket : {None, "ok", "error", "gone", "lost"}]

\* acked: Expo accepted a push.  muted: there was no token to push to.
HistoryState == [acked : BOOLEAN, muted : BOOLEAN, crashes : 0 .. MaxCrashes]

NoRow == [state |-> "absent", claimed_by |-> None, leased |-> FALSE,
          attempts |-> 0, daily_bite |-> None]

NoCopy == NoRow

Stopped(pc) == [pc |-> pc, at |-> 0, copy |-> NoCopy, left |-> {}, item |-> None,
                made |-> None, ticket |-> None]

Init ==
  /\ now = 1
  /\ cycle = NoRow
  /\ bites = [i \in Item |-> "none"]
  /\ writer = [i \in Item |-> None]
  /\ earlier \in {"none", "unread"}
  /\ enabled \in BOOLEAN
  /\ selected \in Selections
  /\ \E up \in SUBSET Process :
       proc = [p \in Process |-> Stopped(IF p \in up THEN "idle" ELSE "down")]
  /\ history = [acked |-> FALSE, muted |-> FALSE, crashes |-> 0]

-----------------------------------------------------------------------------
(* _try_claim and _finish, on the copy c of the row.                       *)

\* A copy of the row; its lease counts only when it is read.
Copied(row) == [row EXCEPT !.leased = FALSE]

\* The objects a query returns are the ones the session already has.
Listed(p) == IF proc[p].copy = NoCopy THEN Copied(cycle) ELSE proc[p].copy

\* What an UPDATE leaves in a column of the row: it is written only if the
\* value differs from the copy's.
Written(held, value, current) == IF held = value THEN current ELSE value

Claimed(p, c) == [cycle EXCEPT !.claimed_by = Written(c.claimed_by, p, @), !.leased = TRUE]

Claimable(p, c, states) ==
  /\ c.state \in states
  /\ ~c.leased \/ c.claimed_by = p

Becomes(p, r) == proc' = [proc EXCEPT ![p] = r]

Goto(p, pc) == Becomes(p, [proc[p] EXCEPT !.pc = pc])

\* A commit or a rollback of the session expires its copy.
Expires(p, pc) == Becomes(p, [proc[p] EXCEPT !.pc = pc, !.copy = NoCopy])

\* The handling of another account's row may have expired the copy.
TryClaim(p, states, claimed, skipped) ==
  \E c \in {proc[p].copy, cycle} :
    IF Claimable(p, c, states)
    THEN /\ cycle' = Claimed(p, c)
         /\ Becomes(p, [proc[p] EXCEPT !.pc = claimed, !.copy = Copied(Claimed(p, c))])
    ELSE UNCHANGED cycle /\ Expires(p, skipped)

Finished(p, c, state, attempts, bite) ==
  IF c.claimed_by # p THEN cycle
  ELSE [state |-> Written(c.state, state, cycle.state),
        claimed_by |-> None,
        leased |-> FALSE,
        attempts |-> attempts,
        daily_bite |-> Written(c.daily_bite, bite, cycle.daily_bite)]

\* A result that is only a state.
Settled(p, c, state) == Finished(p, c, state, cycle.attempts, c.daily_bite)

WindowExpired(p) == proc[p].at - Due > Window

Today(p) == proc[p].at < DayEnd

\* _live_unread_query: read_at IS NULL.
Unread == earlier = "unread" \/ \E i \in Item : bites[i] \in {"placeholder", "unread"}

-----------------------------------------------------------------------------
(* A tick begins with the on-time pass, _prepare_user_nibbles. *)

\* max_instances=1: one tick at a time, and one per five minutes.
TickStarts(p) ==
  /\ proc[p].pc = "idle"
  /\ proc[p].at < now \/ now = MaxTime
  /\ Becomes(p, [proc[p] EXCEPT !.pc = "prepare", !.at = now])
  /\ UNCHANGED <<now, cycle, bites, writer, earlier, enabled, selected, history>>

Prepares(p) ==
  /\ proc[p].at = Due
  /\ selected # {}
  /\ ~Unread
  /\ \A i \in Item : bites[i] = "none"

Prepare(p) ==
  /\ proc[p].pc = "prepare"
  /\ \/ /\ Prepares(p)
        /\ Becomes(p, [proc[p] EXCEPT !.pc = "preparing", !.left = selected])
     \/ ~Prepares(p) /\ Goto(p, "discover")
  /\ UNCHANGED <<now, cycle, bites, writer, earlier, enabled, selected, history>>

PrepareEnds(p) ==
  /\ proc[p].pc = "preparing"
  /\ proc[p].item = None
  /\ proc[p].left = {}
  /\ Goto(p, "discover")
  /\ UNCHANGED <<now, cycle, bites, writer, earlier, enabled, selected, history>>

-----------------------------------------------------------------------------
(* generate_session_for_item, from the on-time pass and from the ledger's;  *)
(* the ledger stops at the first nibble it gets.                            *)

Between(p) ==
  /\ proc[p].pc \in {"preparing", "generating"}
  /\ proc[p].item = None
  /\ proc[p].made = None

Passed(p, i) == [proc[p] EXCEPT !.left = @ \ {i}, !.item = None]

Got(p, i) ==
  IF proc[p].pc = "generating" THEN [Passed(p, i) EXCEPT !.made = i] ELSE Passed(p, i)

Complete(i) == bites[i] \in {"unread", "read"}

\* Mutant: any existing row is returned, a placeholder too.
GetsAnyRow(p, i) ==
  /\ bites[i] # "none"
  /\ Becomes(p, Got(p, i))
  /\ UNCHANGED <<bites, writer>>

GetsExisting(p, i) ==
  /\ Complete(i)
  /\ Becomes(p, Got(p, i))
  /\ UNCHANGED <<bites, writer>>

\* No row, or the placeholder of a writer that is gone.
Vacant(i) == bites[i] = "none" \/ (bites[i] = "placeholder" /\ writer[i] = Dead)

Claims(p, i) ==
  /\ Vacant(i)
  /\ bites' = [bites EXCEPT ![i] = "placeholder"]
  /\ writer' = [writer EXCEPT ![i] = p]
  /\ Becomes(p, [proc[p] EXCEPT !.item = i])

\* Another's claim, or a lease that has not run out: session_generating.
IsRefused(p, i) ==
  /\ bites[i] = "placeholder"
  /\ Becomes(p, Passed(p, i))
  /\ UNCHANGED <<bites, writer>>

ItemStarts(p) ==
  /\ Between(p)
  /\ \E i \in proc[p].left : GetsExisting(p, i) \/ Claims(p, i) \/ IsRefused(p, i)
  /\ UNCHANGED <<now, cycle, earlier, enabled, selected, history>>

\* The deck is written, or the provider failed and the placeholder goes.
ItemEnds(p) ==
  /\ proc[p].item # None
  /\ LET i == proc[p].item
     IN  /\ \/ bites' = [bites EXCEPT ![i] = "unread"] /\ Becomes(p, Got(p, i))
            \/ bites' = [bites EXCEPT ![i] = "none"] /\ Becomes(p, Passed(p, i))
         /\ writer' = [writer EXCEPT ![i] = None]
  /\ UNCHANGED <<now, cycle, earlier, enabled, selected, history>>

-----------------------------------------------------------------------------
(* reconcile_delivery_cycles.  Each of its three passes lists the row,      *)
(* claims it and writes a result; in between others may do the same.        *)

ToRecheck == {"held_unread"}

\* Mutant: a push without an answer is generated again.
ToGenerateAgain == {"due", "retryable_failure", "push_submitted_unknown"}

ToGenerate == {"due", "retryable_failure"}

ToPush == {"push_pending", "push_submitted_unknown"}

Lists(p, listed, pc) == Becomes(p, [proc[p] EXCEPT !.pc = pc, !.copy = listed])

Discovers(p) ==
  /\ enabled
  /\ cycle.state = "absent"
  /\ Today(p)
  /\ Due <= proc[p].at
  /\ ~WindowExpired(p)

\* discover_and_create_due_cycles
Discover(p) ==
  /\ proc[p].pc = "discover"
  /\ \/ Discovers(p) /\ cycle' = [cycle EXCEPT !.state = "due"]
     \/ ~Discovers(p) /\ UNCHANGED cycle
  /\ Goto(p, "held")
  /\ UNCHANGED <<now, bites, writer, earlier, enabled, selected, history>>

\* This query does not leave out leased rows; one another worker holds is not
\* claimable.
Recheckable(p) ==
  /\ Today(p)
  /\ cycle.state \in ToRecheck
  /\ ~cycle.leased \/ cycle.claimed_by = p

ListHeld(p) ==
  /\ proc[p].pc = "held"
  /\ \/ Recheckable(p) /\ Lists(p, Listed(p), "recheck")
     \/ ~Recheckable(p) /\ Goto(p, "generation")
  /\ UNCHANGED <<now, cycle, bites, writer, earlier, enabled, selected, history>>

\* A row still held is passed over; its copy stays in the session.
RecheckHeld(p) ==
  /\ proc[p].pc = "recheck"
  /\ IF ~WindowExpired(p) /\ Unread
     THEN UNCHANGED cycle /\ Goto(p, "generation")
     ELSE TryClaim(p, ToRecheck, "rechecked", "generation")
  /\ UNCHANGED <<now, bites, writer, earlier, enabled, selected, history>>

RecheckEnds(p) ==
  /\ proc[p].pc = "rechecked"
  /\ cycle' = Settled(p, proc[p].copy, IF WindowExpired(p) THEN "window_expired" ELSE "due")
  /\ Expires(p, "generation")
  /\ UNCHANGED <<now, bites, writer, earlier, enabled, selected, history>>

Generable(p) == Today(p) /\ cycle.state \in ToGenerate /\ ~cycle.leased

ListDue(p) ==
  /\ proc[p].pc = "generation"
  /\ \/ Generable(p) /\ Lists(p, Listed(p), "generate")
     \/ ~Generable(p) /\ Goto(p, "push")
  /\ UNCHANGED <<now, cycle, bites, writer, earlier, enabled, selected, history>>

\* Mutant: the window is checked, and _finish called, before the claim.
PhaseExpiresFirst(p) ==
  /\ proc[p].pc = "generate"
  /\ IF WindowExpired(p)
     THEN UNCHANGED cycle /\ Expires(p, "push")
     ELSE TryClaim(p, ToGenerate, "claimed", "push")
  /\ UNCHANGED <<now, bites, writer, earlier, enabled, selected, history>>

\* process_generation_phase: the claim.
GenerationPhase(p) ==
  /\ proc[p].pc = "generate"
  /\ TryClaim(p, ToGenerate, "claimed", "push")
  /\ UNCHANGED <<now, bites, writer, earlier, enabled, selected, history>>

\* The checks after it.  reconcile_free_lock_state may have committed, and
\* the first source generated always does.
GenerationChecks(p) ==
  /\ proc[p].pc = "claimed"
  /\ \/ /\ WindowExpired(p)
        /\ cycle' = Settled(p, proc[p].copy, "window_expired")
        /\ Expires(p, "push")
     \/ /\ ~WindowExpired(p)
        /\ \E c \in {proc[p].copy, Copied(cycle)} :
             \/ Unread /\ cycle' = Settled(p, c, "held_unread")
             \/ ~Unread /\ selected = {} /\ cycle' = Settled(p, c, "terminal_failure")
        /\ Expires(p, "push")
     \/ /\ ~WindowExpired(p) /\ ~Unread /\ selected # {}
        /\ UNCHANGED cycle
        /\ Becomes(p, [proc[p] EXCEPT !.pc = "generating", !.copy = NoCopy, !.left = selected])
  /\ UNCHANGED <<now, bites, writer, earlier, enabled, selected, history>>

GenerationDone(p) ==
  /\ proc[p].pc = "generating"
  /\ proc[p].item = None
  /\ proc[p].made # None \/ proc[p].left = {}

\* `cycle.attempts + 1` loads the row again.
ReloadsRow(p) ==
  /\ GenerationDone(p)
  /\ Becomes(p, [proc[p] EXCEPT !.pc = "generated", !.copy = Copied(cycle)])
  /\ UNCHANGED <<now, cycle, bites, writer, earlier, enabled, selected, history>>

\* The attempts so far and this one; all that counts is whether MaxAttempts
\* were made.
Attempt(c) == IF c.attempts < MaxAttempts THEN c.attempts + 1 ELSE MaxAttempts

Failed(c, state) == IF Attempt(c) = MaxAttempts THEN "terminal_failure" ELSE state

\* process_generation_phase: the result.
GenerationEnds(p) ==
  /\ proc[p].pc = "generated"
  /\ LET c == proc[p].copy
         made == proc[p].made
     IN  cycle' = IF made # None
                  THEN Finished(p, c, "push_pending", Attempt(c), made)
                  ELSE Finished(p, c, Failed(c, "retryable_failure"), Attempt(c), c.daily_bite)
  /\ Becomes(p, [Stopped("push") EXCEPT !.at = proc[p].at])
  /\ UNCHANGED <<now, bites, writer, earlier, enabled, selected, history>>

Pushable(p) == Today(p) /\ cycle.state \in ToPush /\ ~cycle.leased

Idles(p) == Becomes(p, [Stopped("idle") EXCEPT !.at = proc[p].at])

ListPush(p) ==
  /\ proc[p].pc = "push"
  /\ \/ Pushable(p) /\ Lists(p, Listed(p), "announce")
     \/ ~Pushable(p) /\ Idles(p)
  /\ UNCHANGED <<now, cycle, bites, writer, earlier, enabled, selected, history>>

\* process_push_phase: the claim.
PushPhase(p) ==
  /\ proc[p].pc = "announce"
  /\ TryClaim(p, ToPush, "announcing", "idle")
  /\ UNCHANGED <<now, bites, writer, earlier, enabled, selected, history>>

NothingOwed(c) == bites[c.daily_bite] = "read" \/ ~enabled

\* The checks after it, up to the call to Expo.
PushChecks(p) ==
  /\ proc[p].pc = "announcing"
  /\ LET c == proc[p].copy
     IN  \/ /\ WindowExpired(p)
            /\ cycle' = Settled(p, c, "window_expired")
            /\ Idles(p)
            /\ UNCHANGED history
         \/ /\ ~WindowExpired(p) /\ NothingOwed(c)
            /\ cycle' = Settled(p, c, "completed")
            /\ history' = [history EXCEPT !.muted = @ \/ ~enabled]
            /\ Idles(p)
         \/ /\ ~WindowExpired(p) /\ ~NothingOwed(c)
            /\ Goto(p, "sending")
            /\ UNCHANGED <<cycle, history>>
  /\ UNCHANGED <<now, bites, writer, earlier, enabled, selected>>

\* Expo's ticket: accepted, a retryable error, a dead device, or no answer.
Send(p) ==
  /\ proc[p].pc = "sending"
  /\ \E ticket \in {"ok", "error", "gone", "lost"} :
       /\ Becomes(p, [proc[p] EXCEPT !.pc = "sent", !.ticket = ticket])
       /\ history' = [history EXCEPT !.acked = @ \/ ticket = "ok"]
  /\ UNCHANGED <<now, cycle, bites, writer, earlier, enabled, selected>>

\* Mutant: an answer that never came counts as a delivery.
AnswerAssumed(c, ticket) ==
  IF ticket \in {"ok", "lost"} THEN "completed"
  ELSE IF ticket = "gone" THEN "terminal_failure"
  ELSE Failed(c, "push_submitted_unknown")

Answered(c, ticket) ==
  IF ticket = "ok" THEN "completed"
  ELSE IF ticket = "gone" THEN "terminal_failure"
  ELSE Failed(c, "push_submitted_unknown")

PushEnds(p) ==
  /\ proc[p].pc = "sent"
  /\ LET c == proc[p].copy
     IN  cycle' = Finished(p, c, Answered(c, proc[p].ticket), Attempt(c), c.daily_bite)
  /\ Idles(p)
  /\ UNCHANGED <<now, bites, writer, earlier, enabled, selected, history>>

\* A result cannot be written: the tick is given up, the claim stays.
TickRaises(p) ==
  /\ proc[p].pc \in {"rechecked", "claimed", "generated", "announcing", "sent"}
  /\ Idles(p)
  /\ UNCHANGED <<now, cycle, bites, writer, earlier, enabled, selected, history>>

-----------------------------------------------------------------------------
(* The lease, the clock, processes that die and start, the reader. *)

\* After CLAIM_LEASE_MINUTES, whether or not its owner is still at work.
LeaseExpires ==
  /\ cycle.leased
  /\ cycle' = [cycle EXCEPT !.leased = FALSE]
  /\ UNCHANGED <<now, bites, writer, earlier, enabled, selected, proc, history>>

Clock ==
  /\ now < MaxTime
  /\ now' = now + 1
  /\ UNCHANGED <<cycle, bites, writer, earlier, enabled, selected, proc, history>>

Crash(p) ==
  /\ proc[p].pc # "down"
  /\ history.crashes < MaxCrashes
  /\ Becomes(p, [Stopped("down") EXCEPT !.at = proc[p].at])
  /\ writer' = [i \in Item |-> IF writer[i] = p THEN Dead ELSE writer[i]]
  /\ cycle' = [cycle EXCEPT !.claimed_by = IF @ = p THEN Dead ELSE @]
  /\ history' = [history EXCEPT !.crashes = @ + 1]
  /\ UNCHANGED <<now, bites, earlier, enabled, selected>>

Boot(p) ==
  /\ proc[p].pc = "down"
  /\ Goto(p, "idle")
  /\ UNCHANGED <<now, cycle, bites, writer, earlier, enabled, selected, history>>

\* mark_bite_read: a deck of the day, or the earlier one.
MarkBiteRead ==
  /\ \/ /\ \E i \in Item : bites[i] = "unread" /\ bites' = [bites EXCEPT ![i] = "read"]
        /\ UNCHANGED earlier
     \/ earlier = "unread" /\ earlier' = "read" /\ UNCHANGED bites
  /\ UNCHANGED <<now, cycle, writer, enabled, selected, proc, history>>

\* get_or_create_session: a source opened by hand, under the cap.
GetOrCreateSession(i) ==
  /\ Vacant(i)
  /\ Cardinality({j \in Item : Complete(j)}) < Cap
  /\ bites' = [bites EXCEPT ![i] = "unread"]
  /\ writer' = [writer EXCEPT ![i] = None]
  /\ UNCHANGED <<now, cycle, earlier, enabled, selected, proc, history>>

SwitchNotifications ==
  /\ enabled' = ~enabled
  /\ UNCHANGED <<now, cycle, bites, writer, earlier, selected, proc, history>>

Works(p) ==
  \/ TickStarts(p) \/ Prepare(p) \/ PrepareEnds(p)
  \/ ItemStarts(p) \/ ItemEnds(p)
  \/ Discover(p)
  \/ ListHeld(p) \/ RecheckHeld(p) \/ RecheckEnds(p)
  \/ ListDue(p) \/ GenerationPhase(p) \/ GenerationChecks(p)
  \/ ReloadsRow(p) \/ GenerationEnds(p)
  \/ ListPush(p) \/ PushPhase(p) \/ PushChecks(p) \/ Send(p) \/ PushEnds(p)

Next ==
  \/ \E p \in Process : Works(p) \/ TickRaises(p) \/ Crash(p) \/ Boot(p)
  \/ LeaseExpires
  \/ Clock
  \/ MarkBiteRead
  \/ \E i \in Item : GetOrCreateSession(i)
  \/ SwitchNotifications

Spec == Init /\ [][Next]_vars

Expiry(p) == WindowExpired(p) /\ (RecheckEnds(p) \/ GenerationChecks(p) \/ PushChecks(p))

\* APScheduler keeps ticking, a platform restarts what died, leases and the
\* day run out, and the database takes an expiry that is written again and
\* again; nothing is assumed of the reader or the providers.
FairSpec ==
  /\ Spec
  /\ \A p \in Process : WF_vars(Works(p)) /\ WF_vars(Boot(p)) /\ SF_vars(Expiry(p))
  /\ WF_vars(LeaseExpires)
  /\ WF_vars(Clock)

-----------------------------------------------------------------------------
(* What the ledger must satisfy. *)

\* Every variable stays in its set.
TypeOK ==
  /\ now \in 1 .. MaxTime
  /\ cycle \in Cycle
  /\ bites \in [Item -> Bite]
  /\ writer \in [Item -> Process \cup {None, Dead}]
  /\ earlier \in {"none", "unread", "read"}
  /\ enabled \in BOOLEAN
  /\ selected \in Selections
  /\ proc \in [Process -> Proc]
  /\ history \in HistoryState

\* At most one process runs the scheduler, outside of a deploy.
OneAtATime ==
  \A p, q \in Process : proc[p].pc # "down" /\ proc[q].pc # "down" => p = q

\* A cycle never goes back: what is finished stays finished, and once its
\* nibble was made it is neither made again nor exchanged, whatever crashed or
\* was left claimed.  Processes that overlap do not keep this: a worker whose
\* copy of the row is out of date writes over what was done since.
LedgerForward ==
  [][/\ cycle.state \in Terminal => cycle'.state = cycle.state
     /\ cycle.daily_bite # None =>
          cycle'.daily_bite = cycle.daily_bite /\ cycle'.state \notin Ungenerated]_vars

\* The ledger announces only a nibble whose deck was written.
AnnouncesWritten == cycle.daily_bite # None => Complete(cycle.daily_bite)

\* A completed cycle is one the reader heard of: a push was accepted, a nibble
\* of the day was read, or the account had notifications off.
CompletedIsDelivered ==
  cycle.state = "completed" =>
    history.acked \/ history.muted \/ \E i \in Item : bites[i] = "read"

\* Once a cycle is owed it is completed, given up or expired, through crashes,
\* failures, held nibbles and answers that never come.
Resolves == cycle.state # "absent" ~> cycle.state \in Terminal

=============================================================================
