------------------------------- MODULE Claims -------------------------------
(***************************************************************************)
(* The requests of one account that pay for a model call, and the claims   *)
(* that keep two of them from paying for the same thing: a book's session  *)
(* of a day (services/session_service.py behind POST /bites/session), the  *)
(* answer to its personalization question (routers/bites.py), and a chat   *)
(* turn (routers/connect.py).                                              *)
(*                                                                         *)
(* The three tables use one idiom, a row with claimed_by and claimed_until *)
(* renewed by a heartbeat thread, each with its own code.  Every handler   *)
(* mints a new worker id, so the id a handler leaves behind matches no     *)
(* later one: it is Gone.  What a row contains is told by who wrote it.    *)
(*                                                                         *)
(* The sources are processed, unlocked and not deleted, the account may    *)
(* chat, and a turn id keeps its book and its question; the scheduler's    *)
(* calls of generate_session_for_item are in DeliveryCycles.               *)
(***************************************************************************)
EXTENDS Integers, FiniteSets

CONSTANTS
  Worker,     \* request handlers that may run at the same time
  Story,      \* rows of daily_bites for the days of one book in story mode
  Wisdom,     \* rows of daily_bites for books in wisdom mode
  Turn,       \* rows of chat_turns
  Dimension,  \* what a personalization question can ask about, DIMENSIONS
  Portions,   \* STORY_WORDS portions of the story book
  Cap,        \* generations a day
  Workloads,  \* sets of rows the reader may ask for
  Timeliness, \* whether heartbeats always come in time
  None,
  Gone        \* the id of a handler that has ended

Deck == Story \cup Wisdom

\* The question of a deck: uq_personalization_daily_bite.
AnswerTo(d) == <<"answer", d>>
Answer == {AnswerTo(d) : d \in Wisdom}

Row == Deck \cup Answer \cup Turn

ASSUME WorkersAssumption == IsFiniteSet(Worker) /\ None # Gone /\ {None, Gone} \cap Worker = {}
ASSUME RowsAssumption ==
  /\ IsFiniteSet(Deck)
  /\ Story \cap Wisdom = {}
  /\ Turn \cap Deck = {}
  /\ Answer \cap (Deck \cup Turn) = {}
  /\ None \notin Row
ASSUME DimensionAssumption == None \notin Dimension
ASSUME BoundsAssumption ==
  Portions \in Nat /\ Cap \in Nat \ {0} /\ Workloads \subseteq SUBSET Row
  /\ Timeliness \subseteq BOOLEAN

VARIABLES
  row,            \* the rows of the three tables
  card,           \* the dimension a deck's personalize card asks about
  story_progress, \* LibraryItem.story_progress, in portions
  worker,         \* the handlers
  told,           \* history: whose result a question's submitters were given
  asked,          \* the rows the reader asks for
  timely          \* whether a heartbeat ever misses the end of its lease

vars == <<row, card, story_progress, worker, told, asked, timely>>

\* none: no row.  open: 'pending' of a question, 'failed' of a turn.  claimed:
\* a row of daily_bites without cards, 'processing' of a question, 'pending' of
\* a turn.  done: with cards, 'answered', 'completed'.
RowState == [status : {"none", "open", "claimed", "done"},
             claimed_by : Worker \cup {None, Gone},
             leased : BOOLEAN,             \* claimed_until is ahead
             by : Worker \cup {None}]      \* who wrote what the row contains

NoRow == [status |-> "none", claimed_by |-> None, leased |-> FALSE, by |-> None]
OpenRow == [NoRow EXCEPT !.status = "open"]

WorkerState == [pc : {"idle", "admitted", "generate", "write", "persist", "wait",
                      "claim", "interpret", "gather", "chat"},
                row : Row \cup {None},
                read : 0 .. Portions,      \* story_progress when it was read
                asks : Dimension \cup {None}]

Idle == [pc |-> "idle", row |-> None, read |-> 0, asks |-> None]

At(w, r, pc) == worker' = [worker EXCEPT ![w] = [Idle EXCEPT !.pc = pc, !.row = r]]

Goto(w, pc) == worker' = [worker EXCEPT ![w].pc = pc]

Ends(w) == worker' = [worker EXCEPT ![w] = Idle]

Init ==
  /\ row = [r \in Row |-> NoRow]
  /\ card = [d \in Wisdom |-> None]
  /\ story_progress = 0
  /\ worker = [w \in Worker |-> Idle]
  /\ told = [r \in Answer |-> {}]
  /\ asked \in Workloads
  /\ timely \in Timeliness

-----------------------------------------------------------------------------
(* The claim on a row. *)

Claimed(w, r) == [row[r] EXCEPT !.status = "claimed", !.claimed_by = w, !.leased = TRUE]

Takes(w, r) == row' = [row EXCEPT ![r] = Claimed(w, r)]

\* Mutant: a claim is taken over whether or not its lease is over.
LapsedOrNot(r) == row[r].status = "claimed"

\* The lease of whoever claimed the row is over.
Lapsed(r) == row[r].status = "claimed" /\ ~row[r].leased

\* Mutant: a claim is finished by whoever comes, as by a blind write.
OwnsAny(w, r) == row[r].status = "claimed"

Owns(w, r) == row[r].status = "claimed" /\ row[r].claimed_by = w

Written(w) == [status |-> "done", claimed_by |-> None, leased |-> FALSE, by |-> w]

Writes(w, r) == row' = [row EXCEPT ![r] = Written(w)]

\* A claim given back, by its owner only: a session's placeholder is deleted,
\* a question is 'pending' again, a turn is 'failed'.
Released(r) == IF r \in Deck THEN NoRow ELSE OpenRow

ReleaseIfOwner(w, r) ==
  row' = IF Owns(w, r) THEN [row EXCEPT ![r] = Released(r)] ELSE row

\* Handlers blocked in a model call, whose heartbeat thread renews the lease.
Beating == {"generate", "write", "interpret", "chat"}

Heartbeat(w) ==
  /\ worker[w].pc \in Beating
  /\ Owns(w, worker[w].row)
  /\ row' = [row EXCEPT ![worker[w].row].leased = TRUE]
  /\ UNCHANGED <<card, story_progress, worker, told, asked, timely>>

\* A timely heartbeat renews long before claimed_until.
LeaseLapses(r) ==
  /\ row[r].status = "claimed" /\ row[r].leased
  /\ timely => ~\E w \in Worker : Owns(w, r) /\ worker[w].pc \in Beating
  /\ row' = [row EXCEPT ![r].leased = FALSE]
  /\ UNCHANGED <<card, story_progress, worker, told, asked, timely>>

\* What the end of a handler leaves of its claim.
Orphaned(w) ==
  [r \in Row |-> IF row[r].claimed_by = w THEN [row[r] EXCEPT !.claimed_by = Gone]
                 ELSE row[r]]

\* The process dies under the handler.
Crash(w) ==
  /\ worker[w].pc # "idle"
  /\ row' = Orphaned(w)
  /\ Ends(w)
  /\ UNCHANGED <<card, story_progress, told, asked, timely>>

-----------------------------------------------------------------------------
(* POST /bites/session *)

Generations == Cardinality({d \in Deck : row[d].status = "done"})

\* Mutant: the cap is not checked.
GetOrCreateUncapped(w, d) ==
  /\ worker[w].pc = "idle"
  /\ d \in asked
  /\ row[d].status # "done"
  /\ At(w, d, "admitted")
  /\ UNCHANGED <<row, card, story_progress, told, asked, timely>>

\* The day's generations are counted before anything is claimed.
GetOrCreateSession(w, d) ==
  /\ worker[w].pc = "idle"
  /\ d \in asked
  /\ row[d].status # "done"
  /\ Generations < Cap
  /\ At(w, d, "admitted")
  /\ UNCHANGED <<row, card, story_progress, told, asked, timely>>

\* The INSERT of a placeholder, or the takeover of one whose lease is over.
ClaimDailyBite(w) ==
  LET d == worker[w].row IN
  /\ worker[w].pc = "admitted"
  /\ IF row[d].status = "none" \/ Lapsed(d)
     THEN Takes(w, d) /\ Goto(w, "generate")
     ELSE Goto(w, "wait") /\ UNCHANGED row
  /\ UNCHANGED <<card, story_progress, told, asked, timely>>

\* Dimensions that questions of this profile asked about before.
AskedAbout == {card[d] : d \in {x \in Wisdom : row[AnswerTo(x)].status # "none"}}

\* A story deck is cut at the progress the source has now.
ReadProgress(w) ==
  /\ worker[w].pc = "generate"
  /\ worker[w].row \in Story
  /\ worker' = [worker EXCEPT ![w].pc = "write", ![w].read = story_progress]
  /\ UNCHANGED <<row, card, story_progress, told, asked, timely>>

\* A wisdom deck may carry a question about what was not asked yet.
RollPersonalization(w) ==
  /\ worker[w].pc = "generate"
  /\ worker[w].row \in Wisdom
  /\ \E ask \in {None} \cup (Dimension \ AskedAbout) :
       worker' = [worker EXCEPT ![w].pc = "write", ![w].asks = ask]
  /\ UNCHANGED <<row, card, story_progress, told, asked, timely>>

\* min(progress + n, len(words)), if the story was not finished before.
Advanced(w) ==
  IF worker[w].read < Portions THEN worker[w].read + 1 ELSE story_progress

\* The UPDATE of the placeholder and the pending story_progress are committed
\* together, whether the UPDATE matched the row or not.
FinalizeDailyBite(w) ==
  LET d == worker[w].row IN
  /\ worker[w].pc = "write"
  /\ story_progress' = IF d \in Story THEN Advanced(w) ELSE story_progress
  /\ IF Owns(w, d)
     THEN /\ Writes(w, d)
          /\ card' = IF d \in Wisdom THEN [card EXCEPT ![d] = worker[w].asks] ELSE card
          /\ IF worker[w].asks # None THEN Goto(w, "persist") ELSE Ends(w)
     ELSE Goto(w, "wait") /\ UNCHANGED <<row, card>>
  /\ UNCHANGED <<told, asked, timely>>

\* Mutant: the question that was new when it was written is inserted as it is.
PersistQuestion(w) ==
  /\ worker[w].pc = "persist"
  /\ row' = [row EXCEPT ![AnswerTo(worker[w].row)] = OpenRow]
  /\ Ends(w)
  /\ UNCHANGED <<card, story_progress, told, asked, timely>>

\* Under the account's lock: the question is asked if it is still new, and its
\* card taken out of the deck if it is not.
PersistNovelQuestion(w) ==
  LET d == worker[w].row IN
  /\ worker[w].pc = "persist"
  /\ IF worker[w].asks \notin AskedAbout
     THEN row' = [row EXCEPT ![AnswerTo(d)] = OpenRow] /\ UNCHANGED card
     ELSE card' = [card EXCEPT ![d] = None] /\ UNCHANGED row
  /\ Ends(w)
  /\ UNCHANGED <<story_progress, told, asked, timely>>

\* Mutant: the release commits what the session still holds.
FailSessionFlushes(w) ==
  /\ worker[w].pc \in {"generate", "write", "persist"}
  /\ ReleaseIfOwner(w, worker[w].row)
  /\ story_progress' = IF worker[w].pc = "write" /\ worker[w].row \in Story
                       THEN Advanced(w) ELSE story_progress
  /\ Ends(w)
  /\ UNCHANGED <<card, told, asked, timely>>

\* Anything raised on the way, after the deck was written too.
FailSession(w) ==
  /\ worker[w].pc \in {"generate", "write", "persist"}
  /\ ReleaseIfOwner(w, worker[w].row)
  /\ Ends(w)
  /\ UNCHANGED <<card, story_progress, told, asked, timely>>

-----------------------------------------------------------------------------
(* A handler that lost reads what is there: the winner's result, or a 409. *)

Given(w, r) ==
  IF r \in Answer /\ row[r].status = "done" THEN [told EXCEPT ![r] = @ \cup {row[r].by}]
  ELSE told

ReadResult(w) ==
  /\ worker[w].pc = "wait"
  /\ told' = Given(w, worker[w].row)
  /\ Ends(w)
  /\ UNCHANGED <<row, card, story_progress, asked, timely>>

-----------------------------------------------------------------------------
(* POST /bites/{id}/personalize-answer *)

SubmitAnswer(w, r) ==
  /\ worker[w].pc = "idle"
  /\ r \in asked
  /\ row[r].status # "none"
  /\ told' = Given(w, r)
  /\ IF row[r].status = "done" THEN UNCHANGED worker ELSE At(w, r, "claim")
  /\ UNCHANGED <<row, card, story_progress, asked, timely>>

ClaimPersonalizationRow(w) ==
  LET r == worker[w].row IN
  /\ worker[w].pc = "claim"
  /\ IF row[r].status = "open" \/ Lapsed(r)
     THEN Takes(w, r) /\ Goto(w, "interpret")
     ELSE Goto(w, "wait") /\ UNCHANGED row
  /\ UNCHANGED <<card, story_progress, told, asked, timely>>

\* Mutant: a superseded handler returns its own result.
FinalizeAndReply(w) ==
  LET r == worker[w].row IN
  /\ worker[w].pc = "interpret"
  /\ IF Owns(w, r) THEN Writes(w, r) ELSE UNCHANGED row
  /\ told' = [told EXCEPT ![r] = @ \cup {w}]
  /\ Ends(w)
  /\ UNCHANGED <<card, story_progress, asked, timely>>

\* A superseded handler does not return its own result.
FinalizePersonalizationAnswer(w) ==
  LET r == worker[w].row IN
  /\ worker[w].pc = "interpret"
  /\ IF Owns(w, r)
     THEN /\ Writes(w, r)
          /\ told' = [told EXCEPT ![r] = @ \cup {w}]
          /\ Ends(w)
     ELSE Goto(w, "wait") /\ UNCHANGED <<row, told>>
  /\ UNCHANGED <<card, story_progress, asked, timely>>

FailAnswer(w) ==
  /\ worker[w].pc = "interpret"
  /\ ReleaseIfOwner(w, worker[w].row)
  /\ Ends(w)
  /\ UNCHANGED <<card, story_progress, told, asked, timely>>

-----------------------------------------------------------------------------
(* POST /connect/chat *)

\* A completed turn is replayed and a live one refused: neither changes a row.
ClaimChatTurn(w, t) ==
  /\ worker[w].pc = "idle"
  /\ t \in asked
  /\ row[t].status \in {"none", "open"} \/ Lapsed(t)
  /\ Takes(w, t)
  /\ At(w, t, "gather")
  /\ UNCHANGED <<card, story_progress, told, asked, timely>>

\* The retrieval, before the heartbeat starts.
GatherChatExcerpts(w) ==
  /\ worker[w].pc = "gather"
  /\ Goto(w, "chat")
  /\ UNCHANGED <<row, card, story_progress, told, asked, timely>>

\* Nothing catches what the retrieval raises: the turn stays claimed.
GatherRaises(w) ==
  /\ worker[w].pc = "gather"
  /\ row' = Orphaned(w)
  /\ Ends(w)
  /\ UNCHANGED <<card, story_progress, told, asked, timely>>

CompleteChatTurn(w) ==
  LET t == worker[w].row IN
  /\ worker[w].pc = "chat"
  /\ IF Owns(w, t) THEN Writes(w, t) ELSE UNCHANGED row
  /\ Ends(w)
  /\ UNCHANGED <<card, story_progress, told, asked, timely>>

\* No excerpts, or no answer from any provider.
FailChatTurn(w) ==
  /\ worker[w].pc \in {"gather", "chat"}
  /\ ReleaseIfOwner(w, worker[w].row)
  /\ Ends(w)
  /\ UNCHANGED <<card, story_progress, told, asked, timely>>

-----------------------------------------------------------------------------
Handler(w) ==
  \/ ClaimDailyBite(w) \/ ReadProgress(w) \/ RollPersonalization(w)
  \/ FinalizeDailyBite(w) \/ PersistNovelQuestion(w) \/ FailSession(w)
  \/ ReadResult(w)
  \/ ClaimPersonalizationRow(w) \/ FinalizePersonalizationAnswer(w) \/ FailAnswer(w)
  \/ GatherChatExcerpts(w) \/ GatherRaises(w) \/ CompleteChatTurn(w) \/ FailChatTurn(w)

Next ==
  \/ \E w \in Worker :
       \/ \E d \in Deck : GetOrCreateSession(w, d)
       \/ \E r \in Answer : SubmitAnswer(w, r)
       \/ \E t \in Turn : ClaimChatTurn(w, t)
       \/ Handler(w)
       \/ Heartbeat(w)
       \/ Crash(w)
  \/ \E r \in Row : LeaseLapses(r)

Spec == Init /\ [][Next]_vars

-----------------------------------------------------------------------------
(* What the claims must satisfy. *)

\* Every variable stays in its set.
TypeOK ==
  /\ row \in [Row -> RowState]
  /\ card \in [Wisdom -> Dimension \cup {None}]
  /\ story_progress \in 0 .. Portions
  /\ worker \in [Worker -> WorkerState]
  /\ told \in [Answer -> SUBSET Worker]
  /\ asked \in Workloads
  /\ timely \in Timeliness

Slots == INSTANCE LeasedSlot WITH
  Slot <- Row, Nobody <- None, Dead <- Gone,
  holder <- [r \in Row |-> IF row[r].status = "claimed" THEN row[r].claimed_by ELSE None],
  leased <- [r \in Row |-> row[r].leased],
  filler <- [r \in Row |-> row[r].by]

\* _claim_or_find_daily_bite, _claim_personalization_row and _claim_chat_turn,
\* with the writes that follow them, are one lease: a row is taken when no lease
\* is ahead, written by its holder only, and never written again.
SlotsRefined == Slots!SlotSpec

\* Nobody else's claim, release, failure or heartbeat touches a claim whose
\* lease is ahead, however many handlers of the row are still running.
ClaimKept ==
  [][\A w \in Worker, r \in Row :
       /\ Owns(w, r) /\ row[r].leased
       /\ worker'[w] = worker[w]
       => row'[r].status = "claimed" /\ row'[r].claimed_by = w]_vars

\* submit_personalize_answer: every device that got an answer to a question got
\* the stored one, superseded submits and retries included.
AnswersAgree ==
  \A r \in Answer : told[r] \subseteq (IF row[r].status = "done" THEN {row[r].by} ELSE {})

\* A question can be answered only if a finished deck shows it: its deck was
\* neither released nor stripped of the card.
QuestionBehindDeck ==
  \A d \in Wisdom :
    row[AnswerTo(d)].status # "none" => row[d].status = "done" /\ card[d] # None

\* persist_novel_question: of the books that serve one profile, generated side
\* by side, no two ask about the same dimension.
DistinctDimensions ==
  \A c, d \in Wisdom :
    /\ row[AnswerTo(c)].status # "none" /\ row[AnswerTo(d)].status # "none"
    /\ card[c] = card[d]
    => c = d

\* A question is asked only behind its deck, and only about something new.
QuestionsFit == QuestionBehindDeck /\ DistinctDimensions

\* While heartbeats come in time, no two handlers pay for the same session or
\* for the interpretation of the same answer.
OneGenerator ==
  timely =>
    \A v, w \in Worker :
      /\ worker[v].pc \in {"generate", "write", "interpret"}
      /\ worker[w].pc \in {"generate", "write", "interpret"}
      /\ worker[v].row = worker[w].row
      => v = w

InFlight ==
  {w \in Worker : worker[w].pc \in {"admitted", "generate", "write"} /\ worker[w].row \in Deck}

\* The cap is checked before the claim, so it can be passed, but only by the
\* handlers that were let in before the last generation was counted.
CapOvershoot ==
  Generations + Cardinality(InFlight) < Cap + Cardinality(Worker)

\* session_service.py: story progress "must never be committed by a worker that
\* lost the claim".  While claims are renewed in time it moves only in a step
\* that writes a deck of the story, whatever fails or dies beside it.
ProgressInTime ==
  [][timely /\ story_progress' # story_progress =>
       \E d \in Story : row[d].status # "done" /\ row'[d].status = "done"]_vars

=============================================================================
