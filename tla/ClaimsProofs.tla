----------------------------- MODULE ClaimsProofs -----------------------------
(***************************************************************************)
(* What the claims keep, for any number of handlers and rows.  The steps   *)
(* of a handler are sorted by what they do to the rows: take one, write or *)
(* give back the one it owns, leave it to nobody, renew its lease, or      *)
(* nothing.  Each of them is Kind to the claims of the other handlers and  *)
(* to what is finished, and from that the invariant of the others follows  *)
(* once for all; what is left for each action is its own handler.          *)
(***************************************************************************)
EXTENDS Claims, FiniteSetTheorems, TLAPS

\* Where a handler may hold a claim.
Holding == {"generate", "write", "interpret", "gather", "chat"}

\* A row is claimed by somebody or nobody, and written by somebody or nobody.
RowShape ==
  \A r \in Row :
    /\ row[r].status # "claimed" => row[r].claimed_by = None /\ ~row[r].leased
    /\ row[r].status = "claimed" => row[r].claimed_by # None
    /\ row[r].status = "done" <=> row[r].by # None

\* What a handler holds is the row it works on.
Held(w) ==
  \A r \in Row :
    row[r].claimed_by = w => worker[w].row = r /\ worker[w].pc \in Holding

Placed(w) ==
  /\ worker[w].pc \in {"admitted", "generate", "write", "persist"} => worker[w].row \in Deck
  /\ worker[w].pc \in {"claim", "interpret"} => worker[w].row \in Answer
  /\ worker[w].pc \in {"gather", "chat"} => worker[w].row \in Turn
  /\ worker[w].pc = "wait" => worker[w].row \in Deck \cup Answer
  /\ worker[w].asks # None =>
       worker[w].pc \in {"write", "persist", "wait"} /\ worker[w].row \in Wisdom

\* A handler about to insert its question wrote the deck that shows it.
Asks(w) ==
  LET d == worker[w].row IN
  worker[w].pc = "persist" =>
    /\ worker[w].asks # None
    /\ row[d].status = "done" /\ row[d].by = w
    /\ card[d] = worker[w].asks
    /\ row[AnswerTo(d)].status = "none"

\* If heartbeats come in time, who works for a row owns it.
Works(w) ==
  timely /\ worker[w].pc \in {"generate", "write", "interpret"} =>
    Owns(w, worker[w].row) /\ row[worker[w].row].leased

Fit(w) == Held(w) /\ Placed(w) /\ Asks(w) /\ Works(w)

ClaimsInv ==
  /\ TypeOK /\ RowShape
  /\ \A w \in Worker : Fit(w)
  /\ QuestionBehindDeck /\ DistinctDimensions /\ AnswersAgree

-----------------------------------------------------------------------------
(* The constants. *)

LEMMA AnswerFacts ==
  /\ \A d \in Wisdom : AnswerTo(d) \in Answer
  /\ \A r \in Answer : \E d \in Wisdom : r = AnswerTo(d)
  /\ \A c, d \in Wisdom : AnswerTo(c) = AnswerTo(d) => c = d
  BY DEF AnswerTo, Answer

LEMMA RowFacts ==
  /\ Story \subseteq Deck /\ Wisdom \subseteq Deck
  /\ Deck \subseteq Row /\ Answer \subseteq Row /\ Turn \subseteq Row
  /\ Row \subseteq Deck \cup Answer \cup Turn
  /\ Deck \subseteq Story \cup Wisdom
  /\ Story \cap Wisdom = {} /\ Deck \cap Answer = {}
  /\ Deck \cap Turn = {} /\ Answer \cap Turn = {}
  /\ None \notin Row
  BY RowsAssumption DEF Row, Deck

LEMMA NameFacts ==
  /\ None \notin Worker /\ Gone \notin Worker /\ None # Gone
  /\ None \notin Dimension
  BY WorkersAssumption, DimensionAssumption

-----------------------------------------------------------------------------
(* What a step of handler w may do to the rows. *)

\* What is finished stays, and nobody else's claim is given, or taken early.
Kind(w) ==
  /\ row' \in [Row -> RowState]
  /\ RowShape'
  /\ \A r \in Row : row[r].status = "done" => row'[r] = row[r]
  /\ \A r \in Row, v \in Worker \ {w} :
       row'[r].claimed_by = v => row[r].claimed_by = v
  /\ \A r \in Row, v \in Worker \ {w} :
       Owns(v, r) /\ row[r].leased => row'[r] = row[r]

\* No question becomes answerable.
NoNewQuestion ==
  \A r \in Answer : row[r].status = "none" => row'[r].status = "none"

\* w holds no row but r, None for no row at all.
HoldsOnly(w, r) == \A q \in Row : row[q].claimed_by = w => q = r

LEMMA RowSet ==
  ASSUME TypeOK, NEW r \in Row, NEW x \in RowState, row' = [row EXCEPT ![r] = x]
  PROVE  /\ row' \in [Row -> RowState]
         /\ row'[r] = x
         /\ \A q \in Row : q # r => row'[q] = row[q]
  BY DEF TypeOK

LEMMA TakeIsKind ==
  ASSUME TypeOK, RowShape, NEW w \in Worker, HoldsOnly(w, None), NEW r \in Row, Takes(w, r),
         row[r].status \in {"none", "open"} \/ Lapsed(r)
  PROVE  /\ Kind(w)
         /\ HoldsOnly(w, r)'
         /\ Owns(w, r)' /\ row'[r].leased
         /\ (row[r].status # "none" \/ r \notin Answer) => NoNewQuestion
<1>1. row[r] \in RowState
  BY DEF TypeOK
<1>2. Claimed(w, r) \in RowState
  BY <1>1 DEF Claimed, RowState
<1>3. /\ row' \in [Row -> RowState]
      /\ row'[r] = Claimed(w, r)
      /\ \A q \in Row : q # r => row'[q] = row[q]
  BY <1>2, RowSet DEF Takes
<1>4. /\ row'[r].status = "claimed" /\ row'[r].claimed_by = w
      /\ row'[r].leased /\ row'[r].by = row[r].by
  BY <1>1, <1>3 DEF Claimed, RowState
<1>5. Kind(w)
  BY <1>3, <1>4, NameFacts DEF Kind, RowShape, Lapsed, Owns
<1>6. HoldsOnly(w, r)'
  BY <1>3, RowFacts DEF HoldsOnly
<1>7. NoNewQuestion \/ (row[r].status = "none" /\ r \in Answer)
  BY <1>3, <1>4, RowFacts DEF NoNewQuestion
<1> QED BY <1>4, <1>5, <1>6, <1>7 DEF Owns

LEMMA WriteIsKind ==
  ASSUME TypeOK, RowShape, NEW w \in Worker, NEW r \in Row, HoldsOnly(w, r),
         Owns(w, r), Writes(w, r)
  PROVE  /\ Kind(w)
         /\ HoldsOnly(w, None)'
         /\ NoNewQuestion
         /\ row'[r] = Written(w)
         /\ \A q \in Row : q # r => row'[q] = row[q]
<1>1. Written(w) \in RowState
  BY DEF Written, RowState
<1>2. /\ row' \in [Row -> RowState]
      /\ row'[r] = Written(w)
      /\ \A q \in Row : q # r => row'[q] = row[q]
  BY <1>1, RowSet DEF Writes
<1>3. /\ row'[r].status = "done" /\ row'[r].claimed_by = None
      /\ ~row'[r].leased /\ row'[r].by = w
  BY <1>2 DEF Written
<1>4. Kind(w)
  BY <1>2, <1>3, NameFacts DEF Kind, RowShape, Owns
<1>5. HoldsOnly(w, None)'
  BY <1>2, <1>3, NameFacts DEF HoldsOnly
<1>6. NoNewQuestion
  BY <1>2, <1>3, RowFacts DEF NoNewQuestion, Owns
<1> QED BY <1>2, <1>4, <1>5, <1>6

LEMMA ReleaseIsKind ==
  ASSUME TypeOK, RowShape, NEW w \in Worker, NEW r \in Row, HoldsOnly(w, r),
         ReleaseIfOwner(w, r)
  PROVE  Kind(w) /\ HoldsOnly(w, None)' /\ NoNewQuestion
<1>1. CASE Owns(w, r)
  <2>1. Released(r) \in RowState
    BY DEF Released, NoRow, OpenRow, RowState
  <2>2. /\ row' \in [Row -> RowState]
        /\ row'[r] = Released(r)
        /\ \A q \in Row : q # r => row'[q] = row[q]
    BY <1>1, <2>1, RowSet DEF ReleaseIfOwner
  <2>3. /\ row'[r].status \in {"none", "open"} /\ row'[r].claimed_by = None
        /\ ~row'[r].leased /\ row'[r].by = None
    BY <2>2 DEF Released, NoRow, OpenRow
  <2>4. Kind(w)
    BY <1>1, <2>2, <2>3, NameFacts DEF Kind, RowShape, Owns
  <2>5. HoldsOnly(w, None)'
    BY <2>2, <2>3, NameFacts DEF HoldsOnly
  <2>6. NoNewQuestion
    BY <1>1, <2>2, RowFacts DEF NoNewQuestion, Owns
  <2> QED BY <2>4, <2>5, <2>6
<1>2. CASE ~Owns(w, r)
  <2>1. row' = row
    BY <1>2 DEF ReleaseIfOwner
  <2>2. Kind(w) /\ NoNewQuestion
    BY <2>1 DEF Kind, RowShape, TypeOK, NoNewQuestion
  <2>3. HoldsOnly(w, None)'
    BY <1>2, <2>1, NameFacts DEF HoldsOnly, RowShape, Owns
  <2> QED BY <2>2, <2>3
<1> QED BY <1>1, <1>2

LEMMA OrphanIsKind ==
  ASSUME TypeOK, RowShape, NEW w \in Worker, row' = Orphaned(w)
  PROVE  Kind(w) /\ HoldsOnly(w, None)' /\ NoNewQuestion
<1>1. \A r \in Row : [row[r] EXCEPT !.claimed_by = Gone] \in RowState
  BY DEF TypeOK, RowState
<1>2. row' \in [Row -> RowState]
  BY <1>1 DEF Orphaned, TypeOK
<1>3. \A r \in Row :
        /\ row'[r].status = row[r].status /\ row'[r].leased = row[r].leased
        /\ row'[r].by = row[r].by
        /\ row[r].claimed_by = w => row'[r].claimed_by = Gone
        /\ row[r].claimed_by # w => row'[r] = row[r]
  BY DEF Orphaned, TypeOK, RowState
<1>4. Kind(w)
  BY <1>2, <1>3, NameFacts DEF Kind, RowShape, Owns
<1>5. HoldsOnly(w, None)' /\ NoNewQuestion
  BY <1>3, NameFacts, RowFacts DEF HoldsOnly, NoNewQuestion
<1> QED BY <1>4, <1>5

LEMMA SameIsKind ==
  ASSUME TypeOK, RowShape, NEW w \in Worker, row' = row
  PROVE  Kind(w) /\ NoNewQuestion /\ \A r : HoldsOnly(w, r) => HoldsOnly(w, r)'
  BY DEF Kind, RowShape, TypeOK, NoNewQuestion, HoldsOnly

-----------------------------------------------------------------------------
(* What such a step leaves alone. *)

\* The card of a finished deck stays as it was written.
CardsKept == \A d \in Wisdom : row[d].status = "done" => card'[d] = card[d]

OthersStay(w) == \A v \in Worker \ {w} : worker'[v] = worker[v]

Quiet(w) ==
  Kind(w) /\ NoNewQuestion /\ CardsKept /\ OthersStay(w) /\ timely' = timely

\* Nothing happens to the cards and questions of decks that others wrote.
OthersQuestionsStay(w) ==
  \A d \in Wisdom :
    row[d].status = "done" /\ row[d].by # w =>
      /\ card'[d] = card[d]
      /\ row[AnswerTo(d)].status = "none" => row'[AnswerTo(d)].status = "none"

LEMMA OthersFit ==
  ASSUME ClaimsInv, NEW w \in Worker, NEW v \in Worker \ {w},
         Kind(w), OthersStay(w), OthersQuestionsStay(w), timely' = timely
  PROVE  Fit(v)'
<1>1. worker'[v] = worker[v] /\ Fit(v) /\ timely' = timely
  BY DEF OthersStay, ClaimsInv
<1>2. Held(v)' /\ Placed(v)'
  BY <1>1 DEF Fit, Held, Placed, Kind
<1>3. Works(v)'
  <2>1. SUFFICES ASSUME timely, worker[v].pc \in {"generate", "write", "interpret"}
                 PROVE  Owns(v, worker[v].row)' /\ row'[worker[v].row].leased
    BY <1>1 DEF Works
  <2>2. Owns(v, worker[v].row) /\ row[worker[v].row].leased /\ worker[v].row \in Row
    BY <1>1, <2>1, RowFacts DEF Fit, Works, Placed
  <2> QED BY <1>1, <2>2 DEF Kind, Owns
<1>4. Asks(v)'
  <2> DEFINE d == worker[v].row
  <2>1. SUFFICES ASSUME worker[v].pc = "persist"
                 PROVE  /\ worker[v].asks # None
                        /\ row'[d].status = "done" /\ row'[d].by = v
                        /\ card'[d] = worker[v].asks
                        /\ row'[AnswerTo(d)].status = "none"
    BY <1>1 DEF Asks
  <2>2. /\ worker[v].asks # None /\ d \in Wisdom
        /\ row[d].status = "done" /\ row[d].by = v
        /\ card[d] = worker[v].asks
        /\ row[AnswerTo(d)].status = "none"
    BY <1>1, <2>1 DEF Fit, Asks, Placed
  <2> QED BY <2>2, RowFacts DEF Kind, OthersQuestionsStay
<1> QED BY <1>2, <1>3, <1>4 DEF Fit

LEMMA QuestionsStay ==
  ASSUME ClaimsInv, NEW w \in Worker, Quiet(w)
  PROVE  QuestionBehindDeck' /\ DistinctDimensions'
<1>1. ASSUME NEW d \in Wisdom, row'[AnswerTo(d)].status # "none"
      PROVE  /\ row[AnswerTo(d)].status # "none"
             /\ row'[d].status = "done" /\ card'[d] = card[d] /\ card[d] # None
  BY <1>1, AnswerFacts, RowFacts
     DEF ClaimsInv, QuestionBehindDeck, Quiet, Kind, NoNewQuestion, CardsKept
<1>2. QuestionBehindDeck'
  BY <1>1 DEF QuestionBehindDeck
<1>3. DistinctDimensions'
  BY <1>1 DEF ClaimsInv, DistinctDimensions
<1> QED BY <1>2, <1>3

LEMMA AnswersStay ==
  ASSUME ClaimsInv, NEW w \in Worker, Kind(w), told' = told
  PROVE  AnswersAgree'
<1>1. SUFFICES ASSUME NEW r \in Answer
               PROVE  told[r] \subseteq (IF row'[r].status = "done" THEN {row'[r].by} ELSE {})
  BY DEF AnswersAgree
<1>2. told[r] \subseteq (IF row[r].status = "done" THEN {row[r].by} ELSE {}) /\ r \in Row
  BY RowFacts DEF ClaimsInv, AnswersAgree
<1>3. CASE row[r].status = "done"
  BY <1>2, <1>3 DEF Kind
<1>4. CASE row[r].status # "done"
  BY <1>2, <1>4
<1> QED BY <1>3, <1>4

LEMMA StepKeeps ==
  ASSUME ClaimsInv, NEW w \in Worker, Quiet(w), TypeOK', Fit(w)', AnswersAgree'
  PROVE  ClaimsInv'
<1>0. OthersQuestionsStay(w)
  BY AnswerFacts DEF Quiet, CardsKept, NoNewQuestion, OthersQuestionsStay
<1>1. \A v \in Worker : Fit(v)'
  BY <1>0, OthersFit DEF Quiet
<1>2. RowShape'
  BY DEF Quiet, Kind
<1>3. (\A v \in Worker : Fit(v))'
  BY <1>1
<1> QED BY <1>2, <1>3, QuestionsStay DEF ClaimsInv

-----------------------------------------------------------------------------
(* What becomes of the handler. *)

Pc == {"idle", "admitted", "generate", "write", "persist", "wait",
       "claim", "interpret", "gather", "chat"}

LEMMA GotoFacts ==
  ASSUME TypeOK, NEW w \in Worker, NEW pc \in Pc, Goto(w, pc)
  PROVE  /\ worker' \in [Worker -> WorkerState]
         /\ OthersStay(w)
         /\ worker'[w].pc = pc /\ worker'[w].row = worker[w].row
         /\ worker'[w].asks = worker[w].asks
<1>1. worker \in [Worker -> WorkerState]
  BY DEF TypeOK
<1>2. [worker[w] EXCEPT !.pc = pc] \in WorkerState
  BY <1>1 DEF WorkerState, Pc
<1>3. worker' = [worker EXCEPT ![w] = [worker[w] EXCEPT !.pc = pc]]
  BY DEF Goto
<1>4. worker' \in [Worker -> WorkerState] /\ OthersStay(w)
  BY <1>1, <1>2, <1>3 DEF OthersStay
<1>5. worker'[w] = [worker[w] EXCEPT !.pc = pc]
  BY <1>1, <1>3
<1> QED BY <1>1, <1>4, <1>5 DEF WorkerState

LEMMA AtFacts ==
  ASSUME TypeOK, NEW w \in Worker, NEW pc \in Pc, NEW r \in Row, At(w, r, pc)
  PROVE  /\ worker' \in [Worker -> WorkerState]
         /\ OthersStay(w)
         /\ worker'[w].pc = pc /\ worker'[w].row = r /\ worker'[w].asks = None
<1>1. worker \in [Worker -> WorkerState]
  BY DEF TypeOK
<1> DEFINE new == [Idle EXCEPT !.pc = pc, !.row = r]
<1>0. Idle \in WorkerState /\ Idle.asks = None
  BY BoundsAssumption DEF Idle, WorkerState
<1>2. new \in WorkerState /\ new.pc = pc /\ new.row = r /\ new.asks = None
  BY <1>0 DEF WorkerState, Pc
<1>3. worker' = [worker EXCEPT ![w] = new]
  BY DEF At
<1> HIDE DEF new
<1> QED BY <1>1, <1>2, <1>3 DEF OthersStay

LEMMA EndsFacts ==
  ASSUME TypeOK, NEW w \in Worker, Ends(w)
  PROVE  /\ worker' \in [Worker -> WorkerState]
         /\ OthersStay(w)
         /\ worker'[w] = Idle
<1>1. Idle \in WorkerState
  BY BoundsAssumption DEF Idle, WorkerState
<1> QED BY <1>1 DEF TypeOK, Ends, OthersStay

LEMMA IdleFits ==
  ASSUME NEW w \in Worker, worker'[w] = Idle, HoldsOnly(w, None)'
  PROVE  Fit(w)'
  BY NameFacts, RowFacts DEF Fit, Held, Placed, Asks, Works, Idle, HoldsOnly

LEMMA HoldsFacts ==
  ASSUME ClaimsInv, NEW w \in Worker
  PROVE  /\ HoldsOnly(w, worker[w].row)
         /\ worker[w].pc \notin Holding => HoldsOnly(w, None)
  BY DEF ClaimsInv, Fit, Held, HoldsOnly

-----------------------------------------------------------------------------
(* The claims, writes and releases of the three handlers. *)

LEMMA ClaimDailyBiteKeeps ==
  ASSUME ClaimsInv, NEW w \in Worker, NEW d, d = worker[w].row, ClaimDailyBite(w)
  PROVE  ClaimsInv'
<1>1. /\ worker[w].pc = "admitted" /\ d \in Deck /\ d \in Row
      /\ worker[w].asks = None /\ HoldsOnly(w, None) /\ TypeOK /\ RowShape
      /\ card' = card /\ told' = told /\ timely' = timely
      /\ story_progress' = story_progress /\ asked' = asked
  BY HoldsFacts, RowFacts DEF ClaimsInv, Fit, Placed, ClaimDailyBite, Holding
<1>2. CASE row[d].status = "none" \/ Lapsed(d)
  <2>1. Takes(w, d) /\ Goto(w, "generate")
    BY <1>2 DEF ClaimDailyBite
  <2>2. /\ Kind(w) /\ NoNewQuestion
        /\ HoldsOnly(w, d)' /\ Owns(w, d)' /\ row'[d].leased
    BY <1>1, <1>2, <2>1, TakeIsKind, RowFacts
  <2>3. /\ worker' \in [Worker -> WorkerState] /\ OthersStay(w)
        /\ worker'[w].pc = "generate" /\ worker'[w].row = d /\ worker'[w].asks = None
    BY <1>1, <2>1, GotoFacts DEF Pc
  <2>4. TypeOK'
    BY <1>1, <2>2, <2>3 DEF TypeOK, Kind
  <2>5. Fit(w)'
    BY <1>1, <2>2, <2>3 DEF Fit, Held, HoldsOnly, Holding, Placed, Asks, Works
  <2>6. Quiet(w)
    BY <1>1, <2>2, <2>3 DEF Quiet, CardsKept
  <2> QED BY <1>1, <2>2, <2>4, <2>5, <2>6, StepKeeps, AnswersStay
<1>3. CASE ~(row[d].status = "none" \/ Lapsed(d))
  <2>1. row' = row /\ Goto(w, "wait")
    BY <1>3 DEF ClaimDailyBite
  <2>2. Kind(w) /\ NoNewQuestion /\ HoldsOnly(w, None)'
    BY <1>1, <2>1, SameIsKind
  <2>3. /\ worker' \in [Worker -> WorkerState] /\ OthersStay(w)
        /\ worker'[w].pc = "wait" /\ worker'[w].row = d /\ worker'[w].asks = None
    BY <1>1, <2>1, GotoFacts DEF Pc
  <2>4. TypeOK'
    BY <1>1, <2>2, <2>3 DEF TypeOK, Kind
  <2>5. Fit(w)'
    BY <1>1, <2>2, <2>3, RowFacts DEF Fit, Held, HoldsOnly, Holding, Placed, Asks, Works
  <2>6. Quiet(w)
    BY <1>1, <2>2, <2>3 DEF Quiet, CardsKept
  <2> QED BY <1>1, <2>2, <2>4, <2>5, <2>6, StepKeeps, AnswersStay
<1> QED BY <1>2, <1>3

LEMMA GetOrCreateSessionKeeps ==
  ASSUME ClaimsInv, NEW w \in Worker, NEW d \in Deck, GetOrCreateSession(w, d)
  PROVE  ClaimsInv'
<1>1. /\ d \in Row /\ HoldsOnly(w, None) /\ TypeOK /\ RowShape
      /\ row' = row /\ card' = card /\ told' = told /\ timely' = timely
      /\ story_progress' = story_progress /\ asked' = asked
      /\ At(w, d, "admitted")
  BY HoldsFacts, RowFacts DEF ClaimsInv, GetOrCreateSession, Holding
<1>2. Kind(w) /\ NoNewQuestion /\ HoldsOnly(w, None)'
  BY <1>1, SameIsKind
<1>3. /\ worker' \in [Worker -> WorkerState] /\ OthersStay(w)
      /\ worker'[w].pc = "admitted" /\ worker'[w].row = d /\ worker'[w].asks = None
  BY <1>1, AtFacts DEF Pc
<1>4. TypeOK'
  BY <1>1, <1>2, <1>3 DEF TypeOK, Kind
<1>5. Fit(w)'
  BY <1>1, <1>2, <1>3, RowFacts DEF Fit, Held, HoldsOnly, Placed, Asks, Works
<1>6. Quiet(w)
  BY <1>1, <1>2, <1>3 DEF Quiet, CardsKept
<1> QED BY <1>1, <1>2, <1>4, <1>5, <1>6, StepKeeps, AnswersStay

LEMMA ReadProgressKeeps ==
  ASSUME ClaimsInv, NEW w \in Worker, ReadProgress(w)
  PROVE  ClaimsInv'
<1> DEFINE new == [worker[w] EXCEPT !.pc = "write", !.read = story_progress]
<1>1. /\ worker[w] \in WorkerState /\ worker[w].pc = "generate" /\ worker[w].row \in Story
      /\ Fit(w) /\ worker[w].asks = None /\ TypeOK /\ RowShape
      /\ row' = row /\ card' = card /\ told' = told /\ timely' = timely
      /\ story_progress' = story_progress /\ asked' = asked
      /\ worker' = [worker EXCEPT ![w] = new]
  BY DEF ClaimsInv, TypeOK, Fit, Placed, ReadProgress
<1>2. /\ new \in WorkerState /\ new.pc = "write"
      /\ new.row = worker[w].row /\ new.asks = None
  BY <1>1 DEF TypeOK, WorkerState
<1> HIDE DEF new
<1>3. /\ worker' \in [Worker -> WorkerState] /\ OthersStay(w) /\ worker'[w] = new
  BY <1>1, <1>2 DEF TypeOK, OthersStay
<1>4. Kind(w) /\ NoNewQuestion
  BY <1>1, SameIsKind
<1>5. TypeOK'
  BY <1>1, <1>3 DEF TypeOK
<1>6. Fit(w)'
  BY <1>1, <1>2, <1>3, RowFacts DEF Fit, Held, Holding, Placed, Asks, Works, Owns
<1>7. Quiet(w)
  BY <1>1, <1>3, <1>4 DEF Quiet, CardsKept
<1> QED BY <1>1, <1>4, <1>5, <1>6, <1>7, StepKeeps, AnswersStay

LEMMA RollPersonalizationKeeps ==
  ASSUME ClaimsInv, NEW w \in Worker, RollPersonalization(w)
  PROVE  ClaimsInv'
<1>1. PICK ask \in {None} \cup Dimension :
        worker' = [worker EXCEPT ![w].pc = "write", ![w].asks = ask]
  BY DEF RollPersonalization
<1> DEFINE new == [worker[w] EXCEPT !.pc = "write", !.asks = ask]
<1>2. /\ worker[w] \in WorkerState /\ worker[w].pc = "generate" /\ worker[w].row \in Wisdom
      /\ Fit(w) /\ TypeOK /\ RowShape
      /\ row' = row /\ card' = card /\ told' = told /\ timely' = timely
      /\ story_progress' = story_progress /\ asked' = asked
      /\ worker' = [worker EXCEPT ![w] = new]
  BY <1>1 DEF ClaimsInv, TypeOK, RollPersonalization
<1>3. /\ new \in WorkerState /\ new.pc = "write" /\ new.row = worker[w].row
  BY <1>2 DEF WorkerState
<1> HIDE DEF new
<1>4. /\ worker' \in [Worker -> WorkerState] /\ OthersStay(w) /\ worker'[w] = new
  BY <1>2, <1>3 DEF TypeOK, OthersStay
<1>5. Kind(w) /\ NoNewQuestion
  BY <1>2, SameIsKind
<1>6. TypeOK'
  BY <1>2, <1>4 DEF TypeOK
<1>7. Fit(w)'
  BY <1>2, <1>3, <1>4, RowFacts DEF Fit, Held, Holding, Placed, Asks, Works, Owns
<1>8. Quiet(w)
  BY <1>2, <1>4, <1>5 DEF Quiet, CardsKept
<1> QED BY <1>2, <1>5, <1>6, <1>7, <1>8, StepKeeps, AnswersStay

LEMMA ProgressTyped ==
  ASSUME TypeOK, NEW w \in Worker
  PROVE  Advanced(w) \in 0 .. Portions
<1>1. worker[w].read \in 0 .. Portions /\ story_progress \in 0 .. Portions
  BY DEF TypeOK, WorkerState
<1> QED BY <1>1, BoundsAssumption DEF Advanced

LEMMA FinalizeDailyBiteKeeps ==
  ASSUME ClaimsInv, NEW w \in Worker, NEW d, d = worker[w].row, FinalizeDailyBite(w)
  PROVE  ClaimsInv'
<1>1. /\ worker[w] \in WorkerState /\ worker[w].pc = "write" /\ d \in Deck /\ d \in Row
      /\ Fit(w) /\ HoldsOnly(w, d) /\ TypeOK /\ RowShape
      /\ told' = told /\ timely' = timely /\ asked' = asked
  BY HoldsFacts, RowFacts DEF ClaimsInv, TypeOK, Fit, Placed, FinalizeDailyBite
<1>2. story_progress' \in 0 .. Portions
  BY <1>1, ProgressTyped DEF FinalizeDailyBite, TypeOK
<1>3. CASE Owns(w, d)
  <2>1. /\ Writes(w, d)
        /\ card' = IF d \in Wisdom THEN [card EXCEPT ![d] = worker[w].asks] ELSE card
        /\ IF worker[w].asks # None THEN Goto(w, "persist") ELSE Ends(w)
    BY <1>1, <1>3 DEF FinalizeDailyBite
  <2>2. /\ Kind(w) /\ NoNewQuestion /\ HoldsOnly(w, None)'
        /\ row'[d] = Written(w)
        /\ \A q \in Row : q # d => row'[q] = row[q]
    BY <1>1, <1>3, <2>1, WriteIsKind
  <2>3. card' \in [Wisdom -> Dimension \cup {None}]
    BY <1>1, <2>1 DEF TypeOK, WorkerState
  <2>4. CardsKept
    BY <1>1, <1>3, <2>1, <2>3 DEF CardsKept, Owns, TypeOK
  <2>5. /\ worker' \in [Worker -> WorkerState] /\ OthersStay(w)
    BY <1>1, <2>1, GotoFacts, EndsFacts DEF Pc
  <2>6. TypeOK'
    BY <1>1, <1>2, <2>2, <2>3, <2>5 DEF TypeOK, Kind
  <2>7. Fit(w)'
    <3>1. CASE worker[w].asks = None
      BY <1>1, <2>1, <2>2, <3>1, EndsFacts, IdleFits
    <3>2. CASE worker[w].asks # None
      <4>1. /\ worker'[w].pc = "persist" /\ worker'[w].row = d
            /\ worker'[w].asks = worker[w].asks
        BY <1>1, <2>1, <3>2, GotoFacts DEF Pc
      <4>2. d \in Wisdom /\ card'[d] = worker[w].asks
        BY <1>1, <2>1, <3>2 DEF Fit, Placed, TypeOK
      <4>3. row[AnswerTo(d)].status = "none" /\ AnswerTo(d) # d /\ AnswerTo(d) \in Row
        BY <1>3, <4>2, AnswerFacts, RowFacts DEF ClaimsInv, QuestionBehindDeck, Owns
      <4>4. Held(w)' /\ Placed(w)' /\ Works(w)'
        BY <1>1, <2>2, <4>1, <4>2, RowFacts DEF Held, HoldsOnly, Placed, Works
      <4>5. row'[d].status = "done" /\ row'[d].by = w
        BY <2>2 DEF Written
      <4>6. Asks(w)'
        BY <2>2, <3>2, <4>1, <4>2, <4>3, <4>5 DEF Asks
      <4> QED BY <4>4, <4>6 DEF Fit
    <3> QED BY <3>1, <3>2
  <2>8. Quiet(w)
    BY <1>1, <2>2, <2>4, <2>5 DEF Quiet
  <2> QED BY <1>1, <2>2, <2>6, <2>7, <2>8, StepKeeps, AnswersStay
<1>4. CASE ~Owns(w, d)
  <2>1. row' = row /\ card' = card /\ Goto(w, "wait")
    BY <1>1, <1>4 DEF FinalizeDailyBite
  <2>2. Kind(w) /\ NoNewQuestion
    BY <1>1, <2>1, SameIsKind
  <2>3. HoldsOnly(w, None)'
    BY <1>1, <1>4, <2>1, NameFacts DEF HoldsOnly, Owns, RowShape
  <2>4. /\ worker' \in [Worker -> WorkerState] /\ OthersStay(w)
        /\ worker'[w].pc = "wait" /\ worker'[w].row = d
        /\ worker'[w].asks = worker[w].asks
    BY <1>1, <2>1, GotoFacts DEF Pc
  <2>5. TypeOK'
    BY <1>1, <1>2, <2>1, <2>4 DEF TypeOK
  <2>6. Fit(w)'
    BY <1>1, <2>3, <2>4, RowFacts DEF Fit, Held, HoldsOnly, Placed, Asks, Works
  <2>7. Quiet(w)
    BY <1>1, <2>1, <2>2, <2>4 DEF Quiet, CardsKept
  <2> QED BY <1>1, <2>2, <2>5, <2>6, <2>7, StepKeeps, AnswersStay
<1> QED BY <1>3, <1>4

LEMMA ReleaseKeeps ==
  ASSUME ClaimsInv, NEW w \in Worker, NEW r \in Row, worker[w].row = r,
         ReleaseIfOwner(w, r), Ends(w),
         UNCHANGED <<card, story_progress, told, asked, timely>>
  PROVE  ClaimsInv'
<1>1. HoldsOnly(w, r) /\ TypeOK /\ RowShape
  BY HoldsFacts DEF ClaimsInv
<1>2. Kind(w) /\ HoldsOnly(w, None)' /\ NoNewQuestion
  BY <1>1, ReleaseIsKind
<1>3. worker' \in [Worker -> WorkerState] /\ OthersStay(w) /\ worker'[w] = Idle
  BY <1>1, EndsFacts
<1>4. TypeOK'
  BY <1>1, <1>2, <1>3 DEF TypeOK, Kind
<1>5. Quiet(w)
  BY <1>2, <1>3 DEF Quiet, CardsKept
<1> QED BY <1>2, <1>3, <1>4, <1>5, IdleFits, StepKeeps, AnswersStay

LEMMA PersistNovelQuestionKeeps ==
  ASSUME ClaimsInv, NEW w \in Worker, NEW d, d = worker[w].row, PersistNovelQuestion(w)
  PROVE  ClaimsInv'
<1> DEFINE a == AnswerTo(d)
           ask == worker[w].asks
<1>1. /\ worker[w].pc = "persist" /\ d \in Wisdom /\ ask # None
      /\ row[d].status = "done" /\ row[d].by = w /\ card[d] = ask
      /\ row[a].status = "none" /\ a \in Answer /\ a \in Row /\ d \in Row
      /\ HoldsOnly(w, None) /\ TypeOK /\ RowShape
      /\ told' = told /\ timely' = timely /\ asked' = asked
      /\ story_progress' = story_progress /\ Ends(w)
  BY HoldsFacts, RowFacts, AnswerFacts
     DEF ClaimsInv, Fit, Asks, Placed, Holding, PersistNovelQuestion
<1>2. worker' \in [Worker -> WorkerState] /\ OthersStay(w) /\ worker'[w] = Idle
  BY <1>1, EndsFacts
<1>3. CASE ask \notin AskedAbout
  <2>1. row' = [row EXCEPT ![a] = OpenRow] /\ card' = card
    BY <1>1, <1>3 DEF PersistNovelQuestion
  <2>2. OpenRow \in RowState
    BY DEF OpenRow, NoRow, RowState
  <2>3. /\ row' \in [Row -> RowState] /\ row'[a] = OpenRow
        /\ \A q \in Row : q # a => row'[q] = row[q]
    BY <1>1, <2>1, <2>2, RowSet
  <2>4. /\ row'[a].status = "open" /\ row'[a].claimed_by = None
        /\ ~row'[a].leased /\ row'[a].by = None
    BY <2>3 DEF OpenRow, NoRow
  <2>5. Kind(w) /\ HoldsOnly(w, None)'
    BY <1>1, <2>3, <2>4, NameFacts DEF Kind, HoldsOnly, RowShape, Owns
  <2>6. \A c \in Wisdom : c # d => row'[AnswerTo(c)] = row[AnswerTo(c)]
    BY <1>1, <2>3, AnswerFacts, RowFacts
  <2>7. OthersQuestionsStay(w)
    BY <1>1, <2>1, <2>6 DEF OthersQuestionsStay
  <2>8. \A v \in Worker : Fit(v)'
    BY <1>1, <1>2, <2>5, <2>7, OthersFit, IdleFits
  <2>9. \A c \in Wisdom : row'[c] = row[c]
    BY <1>1, <2>3, RowFacts
  <2>10. QuestionBehindDeck'
    BY <1>1, <2>1, <2>6, <2>9 DEF ClaimsInv, QuestionBehindDeck
  <2>11. \A c \in Wisdom : c # d /\ row'[AnswerTo(c)].status # "none" => card[c] # ask
    BY <1>3, <2>6 DEF AskedAbout
  <2>12. DistinctDimensions'
    BY <1>1, <2>1, <2>6, <2>11 DEF ClaimsInv, DistinctDimensions
  <2>13. TypeOK'
    BY <1>1, <1>2, <2>1, <2>3 DEF TypeOK
  <2>14. AnswersAgree'
    BY <1>1, <2>5, AnswersStay
  <2>15. RowShape'
    BY <2>5 DEF Kind
  <2>16. (\A v \in Worker : Fit(v))'
    BY <2>8
  <2> QED BY <2>10, <2>12, <2>13, <2>14, <2>15, <2>16 DEF ClaimsInv
<1>4. CASE ask \in AskedAbout
  <2>1. row' = row /\ card' = [card EXCEPT ![d] = None]
    BY <1>1, <1>4 DEF PersistNovelQuestion
  <2>2. card' \in [Wisdom -> Dimension \cup {None}] /\ \A c \in Wisdom : c # d => card'[c] = card[c]
    BY <1>1, <2>1 DEF TypeOK
  <2>3. Kind(w) /\ HoldsOnly(w, None)' /\ NoNewQuestion
    BY <1>1, <2>1, SameIsKind
  <2>4. OthersQuestionsStay(w)
    BY <1>1, <2>1, <2>2 DEF OthersQuestionsStay
  <2>5. \A v \in Worker : Fit(v)'
    BY <1>1, <1>2, <2>3, <2>4, OthersFit, IdleFits
  <2>6. QuestionBehindDeck' /\ DistinctDimensions'
    BY <1>1, <2>1, <2>2 DEF ClaimsInv, QuestionBehindDeck, DistinctDimensions
  <2>7. TypeOK'
    BY <1>1, <1>2, <2>1, <2>2 DEF TypeOK
  <2>8. RowShape' /\ AnswersAgree'
    BY <1>1, <2>3, AnswersStay DEF Kind
  <2>9. (\A v \in Worker : Fit(v))'
    BY <2>5
  <2> QED BY <2>6, <2>7, <2>8, <2>9 DEF ClaimsInv
<1> QED BY <1>3, <1>4

LEMMA FailuresKeep ==
  ASSUME ClaimsInv, NEW w \in Worker, FailSession(w) \/ FailAnswer(w) \/ FailChatTurn(w)
  PROVE  ClaimsInv'
<1>1. worker[w].row \in Row
  BY RowFacts DEF ClaimsInv, Fit, Placed, FailSession, FailAnswer, FailChatTurn
<1> QED BY <1>1, ReleaseKeeps DEF FailSession, FailAnswer, FailChatTurn

LEMMA OrphanKeeps ==
  ASSUME ClaimsInv, NEW w \in Worker, Crash(w) \/ GatherRaises(w)
  PROVE  ClaimsInv'
<1>1. /\ row' = Orphaned(w) /\ Ends(w) /\ TypeOK /\ RowShape
      /\ UNCHANGED <<card, story_progress, told, asked, timely>>
  BY DEF ClaimsInv, Crash, GatherRaises
<1>2. Kind(w) /\ HoldsOnly(w, None)' /\ NoNewQuestion
  BY <1>1, OrphanIsKind
<1>3. worker' \in [Worker -> WorkerState] /\ OthersStay(w) /\ worker'[w] = Idle
  BY <1>1, EndsFacts
<1>4. TypeOK'
  BY <1>1, <1>2, <1>3 DEF TypeOK, Kind
<1>5. Quiet(w)
  BY <1>1, <1>2, <1>3 DEF Quiet, CardsKept
<1> QED BY <1>1, <1>2, <1>3, <1>4, <1>5, IdleFits, StepKeeps, AnswersStay

-----------------------------------------------------------------------------
(* What a device is told. *)

LEMMA GivenAgrees ==
  ASSUME ClaimsInv, NEW w \in Worker, NEW r \in Row, row' = row, told' = Given(w, r)
  PROVE  AnswersAgree' /\ told' \in [Answer -> SUBSET Worker]
<1>1. CASE r \in Answer /\ row[r].status = "done"
  <2>1. row[r].by \in Worker
    BY <1>1 DEF ClaimsInv, TypeOK, RowShape, RowState
  <2> QED BY <1>1, <2>1 DEF ClaimsInv, TypeOK, AnswersAgree, Given
<1>2. CASE ~(r \in Answer /\ row[r].status = "done")
  BY <1>2 DEF ClaimsInv, TypeOK, AnswersAgree, Given
<1> QED BY <1>1, <1>2

LEMMA ReadResultKeeps ==
  ASSUME ClaimsInv, NEW w \in Worker, ReadResult(w)
  PROVE  ClaimsInv'
<1>1. /\ worker[w].row \in Row /\ HoldsOnly(w, None) /\ TypeOK /\ RowShape
      /\ row' = row /\ card' = card /\ timely' = timely
      /\ story_progress' = story_progress /\ asked' = asked
      /\ told' = Given(w, worker[w].row) /\ Ends(w)
  BY HoldsFacts, RowFacts DEF ClaimsInv, Fit, Placed, ReadResult, Holding
<1>2. AnswersAgree' /\ told' \in [Answer -> SUBSET Worker]
  BY <1>1, GivenAgrees
<1>3. Kind(w) /\ HoldsOnly(w, None)' /\ NoNewQuestion
  BY <1>1, SameIsKind
<1>4. worker' \in [Worker -> WorkerState] /\ OthersStay(w) /\ worker'[w] = Idle
  BY <1>1, EndsFacts
<1>5. TypeOK'
  BY <1>1, <1>2, <1>4 DEF TypeOK
<1>6. Quiet(w)
  BY <1>1, <1>3, <1>4 DEF Quiet, CardsKept
<1> QED BY <1>2, <1>3, <1>4, <1>5, <1>6, IdleFits, StepKeeps

LEMMA SubmitAnswerKeeps ==
  ASSUME ClaimsInv, NEW w \in Worker, NEW r \in Answer, SubmitAnswer(w, r)
  PROVE  ClaimsInv'
<1>1. /\ r \in Row /\ HoldsOnly(w, None) /\ TypeOK /\ RowShape
      /\ row' = row /\ card' = card /\ timely' = timely
      /\ story_progress' = story_progress /\ asked' = asked
      /\ told' = Given(w, r)
  BY HoldsFacts, RowFacts DEF ClaimsInv, SubmitAnswer, Holding
<1>2. AnswersAgree' /\ told' \in [Answer -> SUBSET Worker]
  BY <1>1, GivenAgrees
<1>3. Kind(w) /\ HoldsOnly(w, None)' /\ NoNewQuestion
  BY <1>1, SameIsKind
<1>4. worker' \in [Worker -> WorkerState] /\ OthersStay(w) /\ Fit(w)'
  <2>1. CASE row[r].status = "done"
    <3>1. worker' = worker
      BY <2>1 DEF SubmitAnswer
    <3> QED BY <1>1, <3>1 DEF ClaimsInv, TypeOK, OthersStay, Fit, Held, Placed, Asks, Works, Owns
  <2>2. CASE row[r].status # "done"
    <3>1. At(w, r, "claim")
      BY <2>2 DEF SubmitAnswer
    <3>2. /\ worker' \in [Worker -> WorkerState] /\ OthersStay(w)
          /\ worker'[w].pc = "claim" /\ worker'[w].row = r /\ worker'[w].asks = None
      BY <1>1, <3>1, AtFacts DEF Pc
    <3> QED BY <1>1, <1>3, <3>2, RowFacts DEF Fit, Held, HoldsOnly, Placed, Asks, Works
  <2> QED BY <2>1, <2>2
<1>5. TypeOK'
  BY <1>1, <1>2, <1>4 DEF TypeOK
<1>6. Quiet(w)
  BY <1>1, <1>3, <1>4 DEF Quiet, CardsKept
<1> QED BY <1>2, <1>4, <1>5, <1>6, StepKeeps

LEMMA ClaimPersonalizationRowKeeps ==
  ASSUME ClaimsInv, NEW w \in Worker, NEW r, r = worker[w].row, ClaimPersonalizationRow(w)
  PROVE  ClaimsInv'
<1>1. /\ worker[w].pc = "claim" /\ r \in Answer /\ r \in Row
      /\ worker[w].asks = None /\ HoldsOnly(w, None) /\ TypeOK /\ RowShape
      /\ card' = card /\ told' = told /\ timely' = timely
      /\ story_progress' = story_progress /\ asked' = asked
  BY HoldsFacts, RowFacts DEF ClaimsInv, Fit, Placed, ClaimPersonalizationRow, Holding
<1>2. CASE row[r].status = "open" \/ Lapsed(r)
  <2>1. Takes(w, r) /\ Goto(w, "interpret")
    BY <1>2 DEF ClaimPersonalizationRow
  <2>2. row[r].status # "none"
    BY <1>2 DEF Lapsed
  <2>3. /\ Kind(w) /\ NoNewQuestion
        /\ HoldsOnly(w, r)' /\ Owns(w, r)' /\ row'[r].leased
    BY <1>1, <1>2, <2>1, <2>2, TakeIsKind
  <2>4. /\ worker' \in [Worker -> WorkerState] /\ OthersStay(w)
        /\ worker'[w].pc = "interpret" /\ worker'[w].row = r /\ worker'[w].asks = None
    BY <1>1, <2>1, GotoFacts DEF Pc
  <2>5. TypeOK'
    BY <1>1, <2>3, <2>4 DEF TypeOK, Kind
  <2>6. Fit(w)'
    BY <1>1, <2>3, <2>4 DEF Fit, Held, HoldsOnly, Holding, Placed, Asks, Works
  <2>7. Quiet(w)
    BY <1>1, <2>3, <2>4 DEF Quiet, CardsKept
  <2> QED BY <1>1, <2>3, <2>5, <2>6, <2>7, StepKeeps, AnswersStay
<1>3. CASE ~(row[r].status = "open" \/ Lapsed(r))
  <2>1. row' = row /\ Goto(w, "wait")
    BY <1>3 DEF ClaimPersonalizationRow
  <2>2. Kind(w) /\ NoNewQuestion /\ HoldsOnly(w, None)'
    BY <1>1, <2>1, SameIsKind
  <2>3. /\ worker' \in [Worker -> WorkerState] /\ OthersStay(w)
        /\ worker'[w].pc = "wait" /\ worker'[w].row = r /\ worker'[w].asks = None
    BY <1>1, <2>1, GotoFacts DEF Pc
  <2>4. TypeOK'
    BY <1>1, <2>1, <2>3 DEF TypeOK
  <2>5. Fit(w)'
    BY <1>1, <2>2, <2>3, RowFacts DEF Fit, Held, HoldsOnly, Placed, Asks, Works
  <2>6. Quiet(w)
    BY <1>1, <2>2, <2>3 DEF Quiet, CardsKept
  <2> QED BY <1>1, <2>2, <2>4, <2>5, <2>6, StepKeeps, AnswersStay
<1> QED BY <1>2, <1>3

LEMMA FinalizePersonalizationAnswerKeeps ==
  ASSUME ClaimsInv, NEW w \in Worker, NEW r, r = worker[w].row,
         FinalizePersonalizationAnswer(w)
  PROVE  ClaimsInv'
<1>1. /\ worker[w].pc = "interpret" /\ r \in Answer /\ r \in Row
      /\ worker[w].asks = None /\ HoldsOnly(w, r) /\ TypeOK /\ RowShape
      /\ card' = card /\ timely' = timely
      /\ story_progress' = story_progress /\ asked' = asked
  BY HoldsFacts, RowFacts DEF ClaimsInv, Fit, Placed, FinalizePersonalizationAnswer
<1>2. CASE Owns(w, r)
  <2>1. Writes(w, r) /\ told' = [told EXCEPT ![r] = @ \cup {w}] /\ Ends(w)
    BY <1>2 DEF FinalizePersonalizationAnswer
  <2>2. /\ Kind(w) /\ NoNewQuestion /\ HoldsOnly(w, None)'
        /\ row'[r] = Written(w)
        /\ \A q \in Row : q # r => row'[q] = row[q]
    BY <1>1, <1>2, <2>1, WriteIsKind
  <2>3. worker' \in [Worker -> WorkerState] /\ OthersStay(w) /\ worker'[w] = Idle
    BY <1>1, <2>1, EndsFacts
  <2>4. told' \in [Answer -> SUBSET Worker]
    BY <1>1, <2>1 DEF TypeOK
  <2>5. TypeOK'
    BY <1>1, <2>2, <2>3, <2>4 DEF TypeOK, Kind
  <2>6. told[r] = {} /\ told'[r] = {w}
    BY <1>1, <1>2, <2>1 DEF ClaimsInv, AnswersAgree, Owns, TypeOK
  <2>7. \A q \in Answer : q # r => told'[q] = told[q] /\ row'[q] = row[q]
    BY <1>1, <2>1, <2>2, RowFacts DEF TypeOK
  <2>8. row'[r].status = "done" /\ row'[r].by = w
    BY <2>2 DEF Written
  <2>9. AnswersAgree'
    BY <2>6, <2>7, <2>8 DEF ClaimsInv, AnswersAgree
  <2>10. Quiet(w)
    BY <1>1, <2>2, <2>3 DEF Quiet, CardsKept
  <2> QED BY <2>2, <2>3, <2>5, <2>9, <2>10, IdleFits, StepKeeps
<1>3. CASE ~Owns(w, r)
  <2>1. row' = row /\ told' = told /\ Goto(w, "wait")
    BY <1>3 DEF FinalizePersonalizationAnswer
  <2>2. Kind(w) /\ NoNewQuestion
    BY <1>1, <2>1, SameIsKind
  <2>3. HoldsOnly(w, None)'
    BY <1>1, <1>3, <2>1, NameFacts DEF HoldsOnly, Owns, RowShape
  <2>4. /\ worker' \in [Worker -> WorkerState] /\ OthersStay(w)
        /\ worker'[w].pc = "wait" /\ worker'[w].row = r /\ worker'[w].asks = None
    BY <1>1, <2>1, GotoFacts DEF Pc
  <2>5. TypeOK'
    BY <1>1, <2>1, <2>4 DEF TypeOK
  <2>6. Fit(w)'
    BY <1>1, <2>3, <2>4, RowFacts DEF Fit, Held, HoldsOnly, Placed, Asks, Works
  <2>7. Quiet(w)
    BY <1>1, <2>2, <2>4 DEF Quiet, CardsKept
  <2> QED BY <2>1, <2>2, <2>5, <2>6, <2>7, StepKeeps, AnswersStay
<1> QED BY <1>2, <1>3

LEMMA ClaimChatTurnKeeps ==
  ASSUME ClaimsInv, NEW w \in Worker, NEW t \in Turn, ClaimChatTurn(w, t)
  PROVE  ClaimsInv'
<1>1. /\ t \in Row /\ t \notin Answer /\ HoldsOnly(w, None) /\ TypeOK /\ RowShape
      /\ card' = card /\ told' = told /\ timely' = timely
      /\ story_progress' = story_progress /\ asked' = asked
      /\ row[t].status \in {"none", "open"} \/ Lapsed(t)
      /\ Takes(w, t) /\ At(w, t, "gather")
  BY HoldsFacts, RowFacts DEF ClaimsInv, ClaimChatTurn, Holding
<1>2. /\ Kind(w) /\ NoNewQuestion /\ HoldsOnly(w, t)'
  BY <1>1, TakeIsKind
<1>3. /\ worker' \in [Worker -> WorkerState] /\ OthersStay(w)
      /\ worker'[w].pc = "gather" /\ worker'[w].row = t /\ worker'[w].asks = None
  BY <1>1, AtFacts DEF Pc
<1>4. TypeOK'
  BY <1>1, <1>2, <1>3 DEF TypeOK, Kind
<1>5. Fit(w)'
  BY <1>1, <1>2, <1>3 DEF Fit, Held, HoldsOnly, Holding, Placed, Asks, Works
<1>6. Quiet(w)
  BY <1>1, <1>2, <1>3 DEF Quiet, CardsKept
<1> QED BY <1>1, <1>2, <1>4, <1>5, <1>6, StepKeeps, AnswersStay

LEMMA GatherChatExcerptsKeeps ==
  ASSUME ClaimsInv, NEW w \in Worker, GatherChatExcerpts(w)
  PROVE  ClaimsInv'
<1>1. /\ worker[w].pc = "gather" /\ Fit(w) /\ TypeOK /\ RowShape
      /\ row' = row /\ card' = card /\ told' = told /\ timely' = timely
      /\ story_progress' = story_progress /\ asked' = asked /\ Goto(w, "chat")
  BY DEF ClaimsInv, GatherChatExcerpts
<1>2. Kind(w) /\ NoNewQuestion
  BY <1>1, SameIsKind
<1>3. /\ worker' \in [Worker -> WorkerState] /\ OthersStay(w)
      /\ worker'[w].pc = "chat" /\ worker'[w].row = worker[w].row
      /\ worker'[w].asks = worker[w].asks
  BY <1>1, GotoFacts DEF Pc
<1>4. TypeOK'
  BY <1>1, <1>3 DEF TypeOK
<1>5. Fit(w)'
  BY <1>1, <1>3 DEF Fit, Held, Holding, Placed, Asks, Works
<1>6. Quiet(w)
  BY <1>1, <1>2, <1>3 DEF Quiet, CardsKept
<1> QED BY <1>1, <1>2, <1>4, <1>5, <1>6, StepKeeps, AnswersStay

LEMMA CompleteChatTurnKeeps ==
  ASSUME ClaimsInv, NEW w \in Worker, NEW t, t = worker[w].row, CompleteChatTurn(w)
  PROVE  ClaimsInv'
<1>1. /\ t \in Turn /\ t \in Row /\ HoldsOnly(w, t) /\ TypeOK /\ RowShape
      /\ card' = card /\ told' = told /\ timely' = timely
      /\ story_progress' = story_progress /\ asked' = asked /\ Ends(w)
  BY HoldsFacts, RowFacts DEF ClaimsInv, Fit, Placed, CompleteChatTurn
<1>2. Kind(w) /\ NoNewQuestion /\ HoldsOnly(w, None)'
  <2>1. CASE Owns(w, t)
    BY <1>1, <2>1, WriteIsKind DEF CompleteChatTurn
  <2>2. CASE ~Owns(w, t)
    <3>1. row' = row
      BY <2>2, <1>1 DEF CompleteChatTurn
    <3>2. HoldsOnly(w, None)'
      BY <1>1, <2>2, <3>1, NameFacts DEF HoldsOnly, Owns, RowShape
    <3> QED BY <1>1, <3>1, <3>2, SameIsKind
  <2> QED BY <2>1, <2>2
<1>3. worker' \in [Worker -> WorkerState] /\ OthersStay(w) /\ worker'[w] = Idle
  BY <1>1, EndsFacts
<1>4. TypeOK'
  BY <1>1, <1>2, <1>3 DEF TypeOK, Kind
<1>5. Quiet(w)
  BY <1>1, <1>2, <1>3 DEF Quiet, CardsKept
<1> QED BY <1>1, <1>2, <1>3, <1>4, <1>5, IdleFits, StepKeeps, AnswersStay

-----------------------------------------------------------------------------
(* The leases. *)

LEMMA LeaseSet ==
  ASSUME TypeOK, RowShape, NEW r \in Row, NEW b \in BOOLEAN,
         row[r].status = "claimed", row' = [row EXCEPT ![r].leased = b]
  PROVE  /\ row' \in [Row -> RowState] /\ RowShape'
         /\ \A q \in Row : q # r => row'[q] = row[q]
         /\ row'[r].status = "claimed" /\ row'[r].leased = b
         /\ row'[r].claimed_by = row[r].claimed_by /\ row'[r].by = row[r].by
<1> DEFINE new == [row[r] EXCEPT !.leased = b]
<1>1. row[r] \in RowState
  BY DEF TypeOK
<1>2. /\ new \in RowState /\ new.status = "claimed" /\ new.leased = b
      /\ new.claimed_by = row[r].claimed_by /\ new.by = row[r].by
  BY <1>1 DEF RowState
<1>3. row' = [row EXCEPT ![r] = new]
  OBVIOUS
<1> HIDE DEF new
<1>4. /\ row' \in [Row -> RowState] /\ row'[r] = new
      /\ \A q \in Row : q # r => row'[q] = row[q]
  BY <1>2, <1>3, RowSet
<1>5. RowShape'
  BY <1>2, <1>4 DEF RowShape
<1> QED BY <1>2, <1>4, <1>5

LEMMA HeartbeatKeeps ==
  ASSUME ClaimsInv, NEW w \in Worker, NEW r, r = worker[w].row, Heartbeat(w)
  PROVE  ClaimsInv'
<1>1. /\ r \in Row /\ Fit(w) /\ Owns(w, r) /\ row[r].status = "claimed"
      /\ TypeOK /\ RowShape /\ worker[w].pc # "persist"
      /\ row' = [row EXCEPT ![r].leased = TRUE]
      /\ card' = card /\ told' = told /\ timely' = timely /\ worker' = worker
      /\ story_progress' = story_progress /\ asked' = asked
  BY RowFacts DEF ClaimsInv, Fit, Placed, Heartbeat, Beating, Owns
<1>2. /\ row' \in [Row -> RowState] /\ RowShape'
      /\ \A q \in Row : q # r => row'[q] = row[q]
      /\ row'[r].status = "claimed" /\ row'[r].leased
      /\ row'[r].claimed_by = row[r].claimed_by /\ row'[r].by = row[r].by
  BY <1>1, LeaseSet
<1>3. Kind(w) /\ NoNewQuestion
  BY <1>1, <1>2, RowFacts DEF Kind, NoNewQuestion, Owns
<1>4. TypeOK'
  BY <1>1, <1>2 DEF TypeOK
<1>5. Fit(w)'
  BY <1>1, <1>2, RowFacts DEF Fit, Held, Placed, Asks, Works, Owns
<1>6. Quiet(w)
  BY <1>1, <1>3 DEF Quiet, CardsKept, OthersStay
<1> QED BY <1>1, <1>3, <1>4, <1>5, <1>6, StepKeeps, AnswersStay

LEMMA LeaseLapsesKeeps ==
  ASSUME ClaimsInv, NEW r \in Row, LeaseLapses(r)
  PROVE  ClaimsInv'
<1>1. /\ row[r].status = "claimed" /\ TypeOK /\ RowShape
      /\ row' = [row EXCEPT ![r].leased = FALSE]
      /\ card' = card /\ told' = told /\ timely' = timely /\ worker' = worker
      /\ story_progress' = story_progress /\ asked' = asked
      /\ timely => ~\E w \in Worker : Owns(w, r) /\ worker[w].pc \in Beating
  BY DEF ClaimsInv, LeaseLapses
<1>2. /\ row' \in [Row -> RowState] /\ RowShape'
      /\ \A q \in Row : q # r => row'[q] = row[q]
      /\ row'[r].status = "claimed" /\ ~row'[r].leased
      /\ row'[r].claimed_by = row[r].claimed_by /\ row'[r].by = row[r].by
  BY <1>1, LeaseSet
<1>3. \A q \in Row :
        /\ row'[q].status = row[q].status /\ row'[q].by = row[q].by
        /\ row'[q].claimed_by = row[q].claimed_by
  BY <1>1, <1>2
<1>4. TypeOK'
  BY <1>1, <1>2 DEF TypeOK
<1>5. ASSUME NEW w \in Worker PROVE Fit(w)'
  <2>1. Fit(w)
    BY DEF ClaimsInv
  <2>2. Held(w)' /\ Placed(w)'
    BY <1>1, <1>3, <2>1 DEF Fit, Held, Placed
  <2>3. Asks(w)'
    BY <1>1, <1>3, <2>1, RowFacts, AnswerFacts DEF Fit, Asks, Placed
  <2>4. Works(w)'
    <3>1. SUFFICES ASSUME timely, worker[w].pc \in {"generate", "write", "interpret"}
                   PROVE  Owns(w, worker[w].row)' /\ row'[worker[w].row].leased
      BY <1>1 DEF Works
    <3>2. Owns(w, worker[w].row) /\ row[worker[w].row].leased /\ worker[w].row \in Row
      BY <2>1, <3>1, RowFacts DEF Fit, Works, Placed
    <3>3. worker[w].row # r
      BY <1>1, <3>1, <3>2 DEF Beating
    <3> QED BY <1>1, <1>2, <3>2, <3>3 DEF Owns
  <2> QED BY <2>2, <2>3, <2>4 DEF Fit
<1>6. QuestionBehindDeck' /\ DistinctDimensions'
  BY <1>1, <1>3, RowFacts, AnswerFacts DEF ClaimsInv, QuestionBehindDeck, DistinctDimensions
<1>7. AnswersAgree'
  BY <1>1, <1>3, RowFacts DEF ClaimsInv, AnswersAgree
<1>8. (\A w \in Worker : Fit(w))'
  BY <1>5
<1> QED BY <1>2, <1>4, <1>6, <1>7, <1>8 DEF ClaimsInv

-----------------------------------------------------------------------------
LEMMA InitInv == Init => ClaimsInv
<1>1. SUFFICES ASSUME Init PROVE ClaimsInv
  OBVIOUS
<1>2. TypeOK
  BY <1>1, BoundsAssumption DEF Init, TypeOK, RowState, NoRow, WorkerState, Idle
<1>3. RowShape
  BY <1>1 DEF Init, RowShape, NoRow
<1>4. \A w \in Worker : Fit(w)
  BY <1>1, NameFacts DEF Init, Fit, Held, Placed, Asks, Works, Idle, NoRow
<1>5. QuestionBehindDeck /\ DistinctDimensions /\ AnswersAgree
  BY <1>1, RowFacts, AnswerFacts
     DEF Init, QuestionBehindDeck, DistinctDimensions, AnswersAgree, NoRow
<1> QED BY <1>2, <1>3, <1>4, <1>5 DEF ClaimsInv

LEMMA NextKeeps == ClaimsInv /\ [Next]_vars => ClaimsInv'
<1>1. SUFFICES ASSUME ClaimsInv, [Next]_vars PROVE ClaimsInv'
  OBVIOUS
<1>2. ASSUME NEW w \in Worker, Handler(w) PROVE ClaimsInv'
  BY <1>1, <1>2, ClaimDailyBiteKeeps, ReadProgressKeeps, RollPersonalizationKeeps,
     FinalizeDailyBiteKeeps, PersistNovelQuestionKeeps, FailuresKeep, ReadResultKeeps,
     ClaimPersonalizationRowKeeps, FinalizePersonalizationAnswerKeeps,
     GatherChatExcerptsKeeps, OrphanKeeps, CompleteChatTurnKeeps DEF Handler
<1>3. ASSUME NEW w \in Worker, NEW d \in Deck, GetOrCreateSession(w, d) PROVE ClaimsInv'
  BY <1>1, <1>3, GetOrCreateSessionKeeps
<1>4. ASSUME NEW w \in Worker, NEW r \in Answer, SubmitAnswer(w, r) PROVE ClaimsInv'
  BY <1>1, <1>4, SubmitAnswerKeeps
<1>5. ASSUME NEW w \in Worker, NEW t \in Turn, ClaimChatTurn(w, t) PROVE ClaimsInv'
  BY <1>1, <1>5, ClaimChatTurnKeeps
<1>6. ASSUME NEW w \in Worker, Heartbeat(w) \/ Crash(w) PROVE ClaimsInv'
  BY <1>1, <1>6, HeartbeatKeeps, OrphanKeeps
<1>7. ASSUME NEW r \in Row, LeaseLapses(r) PROVE ClaimsInv'
  BY <1>1, <1>7, LeaseLapsesKeeps
<1>8. CASE UNCHANGED vars
  BY <1>1, <1>8 DEF ClaimsInv, vars, TypeOK, RowShape, Fit, Held, Placed, Asks, Works, Owns,
     QuestionBehindDeck, DistinctDimensions, AnswersAgree
<1> QED BY <1>1, <1>2, <1>3, <1>4, <1>5, <1>6, <1>7, <1>8 DEF Next

-----------------------------------------------------------------------------
(* Every handler's step is one of six things done to a row, or none. *)

Takeable(r) == row[r].status \in {"none", "open"} \/ Lapsed(r)

Deed(w) ==
  \/ row' = row
  \/ \E r \in Row : Owns(w, r) /\ row' = [row EXCEPT ![r].leased = TRUE]
  \/ /\ worker'[w] # worker[w]
     /\ \/ \E r \in Row : Takeable(r) /\ Takes(w, r)
        \/ \E r \in Row : Owns(w, r) /\ Writes(w, r)
        \/ \E r \in Row : Owns(w, r) /\ row' = [row EXCEPT ![r] = Released(r)]
        \/ row' = Orphaned(w)
        \/ \E d \in Wisdom : /\ row[AnswerTo(d)].status = "none"
                             /\ row' = [row EXCEPT ![AnswerTo(d)] = OpenRow]

LEMMA MovesOn ==
  ASSUME TypeOK, NEW w \in Worker, NEW pc \in Pc, worker[w].pc # pc,
         Goto(w, pc) \/ (Ends(w) /\ pc = "idle")
  PROVE  worker'[w] # worker[w]
  BY GotoFacts, EndsFacts DEF Idle

LEMMA HandlerDeeds ==
  ASSUME ClaimsInv, NEW w \in Worker, Handler(w)
  PROVE  Deed(w)
<1> DEFINE r == worker[w].row
<1>1. TypeOK /\ Fit(w)
  BY DEF ClaimsInv
<1>2. CASE ReadProgress(w) \/ RollPersonalization(w) \/ ReadResult(w) \/ GatherChatExcerpts(w)
  BY <1>2 DEF ReadProgress, RollPersonalization, ReadResult, GatherChatExcerpts, Deed
<1>3. CASE ClaimDailyBite(w)
  <2>1. worker[w].pc = "admitted" /\ r \in Row
    BY <1>1, <1>3, RowFacts DEF ClaimDailyBite, Fit, Placed
  <2>2. CASE row[r].status = "none" \/ Lapsed(r)
    <3>1. Takes(w, r) /\ Goto(w, "generate") /\ Takeable(r)
      BY <1>3, <2>2 DEF ClaimDailyBite, Takeable
    <3> QED BY <1>1, <2>1, <3>1, MovesOn DEF Deed, Pc
  <2>3. CASE ~(row[r].status = "none" \/ Lapsed(r))
    BY <1>3, <2>3 DEF ClaimDailyBite, Deed
  <2> QED BY <2>2, <2>3
<1>4. CASE ClaimPersonalizationRow(w)
  <2>1. worker[w].pc = "claim" /\ r \in Row
    BY <1>1, <1>4, RowFacts DEF ClaimPersonalizationRow, Fit, Placed
  <2>2. CASE row[r].status = "open" \/ Lapsed(r)
    <3>1. Takes(w, r) /\ Goto(w, "interpret") /\ Takeable(r)
      BY <1>4, <2>2 DEF ClaimPersonalizationRow, Takeable
    <3> QED BY <1>1, <2>1, <3>1, MovesOn DEF Deed, Pc
  <2>3. CASE ~(row[r].status = "open" \/ Lapsed(r))
    BY <1>4, <2>3 DEF ClaimPersonalizationRow, Deed
  <2> QED BY <2>2, <2>3
<1>5. CASE FinalizeDailyBite(w)
  <2>1. worker[w].pc = "write" /\ r \in Row
    BY <1>1, <1>5, RowFacts DEF FinalizeDailyBite, Fit, Placed
  <2>2. CASE Owns(w, r)
    <3>1. Writes(w, r) /\ (Goto(w, "persist") \/ Ends(w))
      BY <1>5, <2>2 DEF FinalizeDailyBite
    <3>2. worker'[w] # worker[w]
      BY <1>1, <2>1, <3>1, MovesOn DEF Pc
    <3> QED BY <2>1, <2>2, <3>1, <3>2 DEF Deed
  <2>3. CASE ~Owns(w, r)
    BY <1>5, <2>3 DEF FinalizeDailyBite, Deed
  <2> QED BY <2>2, <2>3
<1>6. CASE FinalizePersonalizationAnswer(w) \/ CompleteChatTurn(w)
  <2>1. worker[w].pc \in {"interpret", "chat"} /\ r \in Row
    BY <1>1, <1>6, RowFacts DEF FinalizePersonalizationAnswer, CompleteChatTurn, Fit, Placed
  <2>2. CASE Owns(w, r)
    <3>1. Writes(w, r) /\ Ends(w)
      BY <1>6, <2>2 DEF FinalizePersonalizationAnswer, CompleteChatTurn
    <3>2. worker'[w] # worker[w]
      BY <1>1, <2>1, <3>1, MovesOn DEF Pc
    <3> QED BY <2>1, <2>2, <3>1, <3>2 DEF Deed
  <2>3. CASE ~Owns(w, r)
    BY <1>6, <2>3 DEF FinalizePersonalizationAnswer, CompleteChatTurn, Deed
  <2> QED BY <2>2, <2>3
<1>7. CASE FailSession(w) \/ FailAnswer(w) \/ FailChatTurn(w)
  <2>1. /\ worker[w].pc # "idle" /\ r \in Row /\ ReleaseIfOwner(w, r) /\ Ends(w)
    BY <1>1, <1>7, RowFacts DEF FailSession, FailAnswer, FailChatTurn, Fit, Placed
  <2>2. worker'[w] # worker[w]
    BY <1>1, <2>1, MovesOn DEF Pc
  <2> QED BY <2>1, <2>2 DEF ReleaseIfOwner, Deed
<1>8. CASE GatherRaises(w)
  <2>1. worker'[w] # worker[w]
    BY <1>1, <1>8, MovesOn DEF Pc, GatherRaises
  <2> QED BY <1>8, <2>1 DEF GatherRaises, Deed
<1>9. CASE PersistNovelQuestion(w)
  <2>1. worker'[w] # worker[w]
    BY <1>1, <1>9, MovesOn DEF Pc, PersistNovelQuestion
  <2>2. r \in Wisdom /\ row[AnswerTo(r)].status = "none"
    BY <1>1, <1>9 DEF Fit, Asks, Placed, PersistNovelQuestion
  <2> QED BY <1>9, <2>1, <2>2 DEF PersistNovelQuestion, Deed
<1> QED BY <1>2, <1>3, <1>4, <1>5, <1>6, <1>7, <1>8, <1>9 DEF Handler

LEMMA StepDeeds ==
  ASSUME ClaimsInv, [Next]_vars
  PROVE  \/ \E w \in Worker : Deed(w)
         \/ \E r \in Row : row[r].status = "claimed" /\ row' = [row EXCEPT ![r].leased = FALSE]
         \/ row' = row
<1>1. ASSUME NEW w \in Worker, Handler(w) PROVE Deed(w)
  BY <1>1, HandlerDeeds
<1>2. ASSUME NEW w \in Worker, NEW d \in Deck, GetOrCreateSession(w, d) PROVE row' = row
  BY <1>2 DEF GetOrCreateSession
<1>3. ASSUME NEW w \in Worker, NEW r \in Answer, SubmitAnswer(w, r) PROVE row' = row
  BY <1>3 DEF SubmitAnswer
<1>4. ASSUME NEW w \in Worker, NEW t \in Turn, ClaimChatTurn(w, t) PROVE Deed(w)
  <2>1. worker'[w] # worker[w]
    BY <1>4, AtFacts, RowFacts DEF ClaimChatTurn, ClaimsInv, Pc
  <2> QED BY <1>4, <2>1, RowFacts DEF ClaimChatTurn, Deed, Takeable
<1>5. ASSUME NEW w \in Worker, Heartbeat(w) PROVE Deed(w)
  <2>1. worker[w].row \in Row
    BY <1>5, RowFacts DEF ClaimsInv, Fit, Placed, Heartbeat, Beating
  <2> QED BY <1>5, <2>1 DEF Heartbeat, Deed
<1>6. ASSUME NEW w \in Worker, Crash(w) PROVE Deed(w)
  <2>1. worker'[w] # worker[w]
    BY <1>6, MovesOn DEF Crash, ClaimsInv, Pc
  <2> QED BY <1>6, <2>1 DEF Crash, Deed
<1>7. CASE \E r \in Row : LeaseLapses(r)
  BY <1>7 DEF LeaseLapses
<1>8. CASE UNCHANGED vars
  BY <1>8 DEF vars
<1> QED BY <1>1, <1>2, <1>3, <1>4, <1>5, <1>6, <1>7, <1>8 DEF Next

LEMMA DeedsKeepClaims ==
  ASSUME ClaimsInv, NEW w \in Worker, Deed(w), NEW v \in Worker, NEW q \in Row,
         Owns(v, q), row[q].leased, worker'[v] = worker[v]
  PROVE  row'[q].status = "claimed" /\ row'[q].claimed_by = v
<1>1. /\ row \in [Row -> RowState] /\ row[q] \in RowState
      /\ row[q].status = "claimed" /\ row[q].claimed_by = v
  BY DEF ClaimsInv, TypeOK, Owns
<1>2. ASSUME NEW r \in Row, Owns(w, r), row' = [row EXCEPT ![r].leased = TRUE]
      PROVE  row'[q].status = "claimed" /\ row'[q].claimed_by = v
  BY <1>1, <1>2 DEF RowState
<1>3. ASSUME NEW r \in Row, Takeable(r), Takes(w, r)
      PROVE  row'[q] = row[q]
  BY <1>1, <1>3 DEF Takeable, Takes, Lapsed
<1>4. ASSUME NEW r \in Row, Owns(w, r), w # v,
             Writes(w, r) \/ row' = [row EXCEPT ![r] = Released(r)]
      PROVE  row'[q] = row[q]
  BY <1>1, <1>4 DEF Owns, Writes
<1>5. ASSUME row' = Orphaned(w), w # v
      PROVE  row'[q] = row[q]
  BY <1>1, <1>5 DEF Orphaned
<1>6. ASSUME NEW d \in Wisdom, row[AnswerTo(d)].status = "none",
             row' = [row EXCEPT ![AnswerTo(d)] = OpenRow]
      PROVE  row'[q] = row[q]
  BY <1>1, <1>6
<1> QED BY <1>1, <1>2, <1>3, <1>4, <1>5, <1>6 DEF Deed

LEMMA StepKeepsClaims ==
  ASSUME ClaimsInv, [Next]_vars, NEW v \in Worker, NEW q \in Row,
         Owns(v, q), row[q].leased, worker'[v] = worker[v]
  PROVE  row'[q].status = "claimed" /\ row'[q].claimed_by = v
<1>1. CASE \E w \in Worker : Deed(w)
  BY <1>1, DeedsKeepClaims
<1>2. ASSUME NEW r \in Row, row' = [row EXCEPT ![r].leased = FALSE]
      PROVE  row'[q].status = "claimed" /\ row'[q].claimed_by = v
  BY <1>2 DEF ClaimsInv, TypeOK, RowState, Owns
<1>3. CASE row' = row
  BY <1>3 DEF Owns
<1> QED BY <1>1, <1>2, <1>3, StepDeeds

-----------------------------------------------------------------------------
(* The rows are slots. *)

Holder == [r \in Row |-> IF row[r].status = "claimed" THEN row[r].claimed_by ELSE None]
Leased == [r \in Row |-> row[r].leased]
Filler == [r \in Row |-> row[r].by]

LEMMA Abstracted ==
  ASSUME TypeOK, RowShape
  PROVE  \A r \in Row : /\ Holder[r] = row[r].claimed_by
                        /\ Leased[r] = row[r].leased
                        /\ Filler[r] = row[r].by
  BY DEF RowShape, Holder, Leased, Filler

LEMMA AbstractedNext ==
  ASSUME TypeOK', RowShape'
  PROVE  \A r \in Row : /\ Holder'[r] = row'[r].claimed_by
                        /\ Leased'[r] = row'[r].leased
                        /\ Filler'[r] = row'[r].by
  BY DEF RowShape, Holder, Leased, Filler

\* The slots of one row that changed, if the others are as they were.
LEMMA AbstractSet ==
  ASSUME TypeOK, RowShape, TypeOK', RowShape', NEW r \in Row,
         \A q \in Row : q # r => row'[q] = row[q]
  PROVE  /\ Holder' = [Holder EXCEPT ![r] = row'[r].claimed_by]
         /\ Leased' = [Leased EXCEPT ![r] = row'[r].leased]
         /\ Filler' = [Filler EXCEPT ![r] = row'[r].by]
         /\ row'[r].claimed_by = row[r].claimed_by => Holder' = Holder
         /\ row'[r].leased = row[r].leased => Leased' = Leased
         /\ row'[r].by = row[r].by => Filler' = Filler
<1>1. Holder' = [Holder EXCEPT ![r] = row'[r].claimed_by]
  BY AbstractedNext DEF Holder
<1>2. Leased' = [Leased EXCEPT ![r] = row'[r].leased]
  BY AbstractedNext DEF Leased
<1>3. Filler' = [Filler EXCEPT ![r] = row'[r].by]
  BY AbstractedNext DEF Filler
<1>4. row'[r].claimed_by = row[r].claimed_by => Holder' = Holder
  BY Abstracted, AbstractedNext DEF Holder
<1>5. row'[r].leased = row[r].leased => Leased' = Leased
  BY Abstracted, AbstractedNext DEF Leased
<1>6. row'[r].by = row[r].by => Filler' = Filler
  BY Abstracted, AbstractedNext DEF Filler
<1> QED BY <1>1, <1>2, <1>3, <1>4, <1>5, <1>6

LEMMA DeedsOnSlots ==
  ASSUME ClaimsInv, ClaimsInv', NEW w \in Worker, Deed(w)
  PROVE  Slots!SlotNext \/ UNCHANGED Slots!slotVars
<1>1. /\ TypeOK /\ RowShape /\ TypeOK' /\ RowShape' /\ HoldsOnly(w, worker[w].row)
      /\ row \in [Row -> RowState]
  BY HoldsFacts DEF ClaimsInv, TypeOK
<1>2. CASE row' = row
  BY <1>2 DEF Slots!slotVars
<1>3. ASSUME Holder' = Holder, Leased' = Leased, Filler' = Filler
      PROVE  UNCHANGED Slots!slotVars
  BY <1>3 DEF Slots!slotVars, Holder, Leased, Filler
<1>4. ASSUME NEW r \in Row, Owns(w, r), row' = [row EXCEPT ![r].leased = TRUE]
      PROVE  Slots!Renew(r)
  <2>1. row[r] \in RowState /\ row[r].status = "claimed" /\ row[r].claimed_by = w
    BY <1>1, <1>4 DEF Owns
  <2>2. /\ row'[r].claimed_by = row[r].claimed_by /\ row'[r].leased = TRUE
        /\ row'[r].by = row[r].by /\ \A q \in Row : q # r => row'[q] = row[q]
    BY <1>1, <1>4, <2>1, LeaseSet
  <2>3. Holder' = Holder /\ Leased' = [Leased EXCEPT ![r] = TRUE] /\ Filler' = Filler
    BY <1>1, <2>2, AbstractSet
  <2>4. Holder[r] \in Worker
    BY <1>1, <2>1, Abstracted
  <2> QED BY <2>3, <2>4 DEF Slots!Renew, Holder, Leased, Filler
<1>5. ASSUME NEW r \in Row, Takeable(r), Takes(w, r)
      PROVE  Slots!Take(r, w)
  <2>1. row[r] \in RowState
    BY <1>1
  <2>2. /\ Claimed(w, r) \in RowState /\ Claimed(w, r).claimed_by = w
        /\ Claimed(w, r).leased = TRUE /\ Claimed(w, r).by = row[r].by
    BY <2>1 DEF Claimed, RowState
  <2>3. row'[r] = Claimed(w, r) /\ \A q \in Row : q # r => row'[q] = row[q]
    BY <1>1, <1>5, <2>2, RowSet DEF Takes
  <2>4. ~row[r].leased /\ row[r].by = None
    BY <1>1, <1>5 DEF Takeable, Lapsed, RowShape
  <2>5. /\ Holder' = [Holder EXCEPT ![r] = w] /\ Leased' = [Leased EXCEPT ![r] = TRUE]
        /\ Filler' = [Filler EXCEPT ![r] = row[r].by]
    BY <1>1, <2>2, <2>3, AbstractSet
  <2>6. Filler[r] = None /\ ~Leased[r] /\ Filler' = Filler
    BY <1>1, <2>4, <2>5, Abstracted DEF Filler
  <2> QED BY <2>5, <2>6 DEF Slots!Take, Holder, Leased, Filler
<1>6. ASSUME NEW r \in Row, Owns(w, r), Writes(w, r)
      PROVE  Slots!Fill(r)
  <2>1. /\ Written(w) \in RowState /\ Written(w).claimed_by = None
        /\ Written(w).leased = FALSE /\ Written(w).by = w
    BY DEF Written, RowState
  <2>2. row'[r] = Written(w) /\ \A q \in Row : q # r => row'[q] = row[q]
    BY <1>1, <1>6, <2>1, RowSet DEF Writes
  <2>3. /\ Holder' = [Holder EXCEPT ![r] = None] /\ Leased' = [Leased EXCEPT ![r] = FALSE]
        /\ Filler' = [Filler EXCEPT ![r] = w]
    BY <1>1, <2>1, <2>2, AbstractSet
  <2>4. Holder[r] = w
    BY <1>1, <1>6, Abstracted DEF Owns
  <2> QED BY <2>3, <2>4 DEF Slots!Fill, Holder, Leased, Filler
<1>7. ASSUME NEW r \in Row, Owns(w, r), row' = [row EXCEPT ![r] = Released(r)]
      PROVE  Slots!Drop(r)
  <2>1. /\ Released(r) \in RowState /\ Released(r).claimed_by = None
        /\ Released(r).leased = FALSE /\ Released(r).by = None
    BY DEF Released, OpenRow, NoRow, RowState
  <2>2. row'[r] = Released(r) /\ \A q \in Row : q # r => row'[q] = row[q]
    BY <1>1, <1>7, <2>1, RowSet
  <2>3. row[r].by = None /\ row[r].claimed_by = w
    BY <1>1, <1>7 DEF Owns, RowShape
  <2>4. /\ Holder' = [Holder EXCEPT ![r] = None] /\ Leased' = [Leased EXCEPT ![r] = FALSE]
        /\ Filler' = [Filler EXCEPT ![r] = None]
    BY <1>1, <2>1, <2>2, AbstractSet
  <2>5. Holder[r] = w /\ Filler' = Filler
    BY <1>1, <2>3, <2>4, Abstracted DEF Filler
  <2> QED BY <2>4, <2>5 DEF Slots!Drop, Holder, Leased, Filler
<1>8. ASSUME row' = Orphaned(w), NEW r \in Row, row[r].claimed_by = w
      PROVE  Slots!Die(r)
  <2>1. row[r] \in RowState /\ \A q \in Row : q # r => row[q].claimed_by # w
    BY <1>1, <1>8 DEF HoldsOnly
  <2>2. /\ row'[r].claimed_by = Gone /\ row'[r].leased = row[r].leased
        /\ row'[r].by = row[r].by /\ \A q \in Row : q # r => row'[q] = row[q]
    BY <1>8, <2>1 DEF Orphaned, RowState
  <2>3. /\ Holder' = [Holder EXCEPT ![r] = Gone] /\ Leased' = Leased /\ Filler' = Filler
    BY <1>1, <2>2, AbstractSet
  <2>4. Holder[r] \in Worker
    BY <1>1, <1>8, Abstracted
  <2> QED BY <2>3, <2>4 DEF Slots!Die, Holder, Leased, Filler
<1>9. ASSUME row' = Orphaned(w), \A r \in Row : row[r].claimed_by # w
      PROVE  row' = row
  BY <1>1, <1>9 DEF Orphaned
<1>10. ASSUME NEW d \in Wisdom, row[AnswerTo(d)].status = "none",
              row' = [row EXCEPT ![AnswerTo(d)] = OpenRow]
       PROVE  Holder' = Holder /\ Leased' = Leased /\ Filler' = Filler
  <2>1. AnswerTo(d) \in Row
    BY AnswerFacts, RowFacts
  <2>2. /\ OpenRow \in RowState /\ OpenRow.claimed_by = None
        /\ OpenRow.leased = FALSE /\ OpenRow.by = None
    BY DEF OpenRow, NoRow, RowState
  <2>3. /\ row'[AnswerTo(d)] = OpenRow
        /\ \A q \in Row : q # AnswerTo(d) => row'[q] = row[q]
    BY <1>1, <1>10, <2>1, <2>2, RowSet
  <2>4. /\ row[AnswerTo(d)].claimed_by = None /\ row[AnswerTo(d)].leased = FALSE
        /\ row[AnswerTo(d)].by = None
    BY <1>1, <1>10, <2>1 DEF RowShape, RowState
  <2> QED BY <1>1, <2>1, <2>2, <2>3, <2>4, AbstractSet
<1> QED BY <1>2, <1>3, <1>4, <1>5, <1>6, <1>7, <1>8, <1>9, <1>10 DEF Deed, Slots!SlotNext

LEMMA StepOnSlots ==
  ASSUME ClaimsInv, ClaimsInv', [Next]_vars
  PROVE  [Slots!SlotNext]_(Slots!slotVars)
<1>1. CASE \E w \in Worker : Deed(w)
  BY <1>1, DeedsOnSlots
<1>2. ASSUME NEW r \in Row, row[r].status = "claimed", row' = [row EXCEPT ![r].leased = FALSE]
      PROVE  Slots!Lapse(r)
  <2>1. TypeOK /\ RowShape /\ TypeOK' /\ RowShape'
    BY DEF ClaimsInv
  <2>2. /\ row'[r].claimed_by = row[r].claimed_by /\ row'[r].leased = FALSE
        /\ row'[r].by = row[r].by /\ \A q \in Row : q # r => row'[q] = row[q]
    BY <1>2, <2>1, LeaseSet
  <2>3. Holder' = Holder /\ Leased' = [Leased EXCEPT ![r] = FALSE] /\ Filler' = Filler
    BY <2>1, <2>2, AbstractSet
  <2> QED BY <2>3 DEF Slots!Lapse, Holder, Leased, Filler
<1>3. CASE row' = row
  BY <1>3 DEF Slots!slotVars
<1> QED BY <1>1, <1>2, <1>3, StepDeeds DEF Slots!SlotNext

LEMMA InitOnSlots == Init => Slots!SlotInit
  BY DEF Init, Slots!SlotInit, NoRow

-----------------------------------------------------------------------------
(* Generations counted, and generations under way. *)

Generated == {d \in Deck : row[d].status = "done"}

\* Handlers the count has not seen yet only become fewer.
FlightsEnd == Generated' \subseteq Generated /\ InFlight' \subseteq InFlight

\* A generation is counted when its handler is no longer under way.
FlightCounted ==
  \E w \in InFlight, d \in Deck :
    /\ Generated' \subseteq Generated \cup {d}
    /\ InFlight' \subseteq InFlight \ {w}

\* What a step does to the rows when it writes none.
Unwritten(w) ==
  \/ row' = row
  \/ row' = Orphaned(w)
  \/ \E r \in Row : Takes(w, r) \/ ReleaseIfOwner(w, r)
  \/ \E r \in Row, b \in BOOLEAN :
       row[r].status = "claimed" /\ row' = [row EXCEPT ![r].leased = b]
  \/ \E d \in Wisdom : row' = [row EXCEPT ![AnswerTo(d)] = OpenRow]

LEMMA UnwrittenCounts ==
  ASSUME ClaimsInv, NEW w \in Worker, Unwritten(w)
  PROVE  Generated' \subseteq Generated
<1>1. row \in [Row -> RowState] /\ Deck \subseteq Row
  BY RowFacts DEF ClaimsInv, TypeOK
<1>2. ASSUME NEW r \in Row, NEW b \in BOOLEAN, row[r].status = "claimed",
             row' = [row EXCEPT ![r].leased = b]
      PROVE  Generated' \subseteq Generated
  BY <1>1, <1>2 DEF Generated, RowState
<1>3. ASSUME NEW r \in Row, Takes(w, r) PROVE Generated' \subseteq Generated
  BY <1>1, <1>3 DEF Generated, RowState, Takes, Claimed
<1>4. ASSUME NEW r \in Row, ReleaseIfOwner(w, r) PROVE Generated' \subseteq Generated
  BY <1>1, <1>4 DEF Generated, ReleaseIfOwner, Released, OpenRow, NoRow
<1>5. ASSUME row' = Orphaned(w) PROVE Generated' \subseteq Generated
  <2>1. \A r \in Row : row'[r].status = row[r].status
    BY <1>1, <1>5 DEF Orphaned, RowState
  <2> QED BY <1>1, <2>1 DEF Generated
<1>6. ASSUME NEW d \in Wisdom, row' = [row EXCEPT ![AnswerTo(d)] = OpenRow]
      PROVE  Generated' \subseteq Generated
  BY <1>1, <1>6 DEF Generated, OpenRow, NoRow
<1>7. CASE row' = row
  BY <1>7 DEF Generated
<1> QED BY <1>2, <1>3, <1>4, <1>5, <1>6, <1>7 DEF Unwritten

LEMMA HandlersFly ==
  ASSUME ClaimsInv, NEW w \in Worker, Handler(w)
  PROVE  FlightsEnd \/ FlightCounted
<1> DEFINE d == worker[w].row
<1>1. TypeOK /\ Fit(w) /\ Deed(w) /\ worker \in [Worker -> WorkerState]
  BY HandlerDeeds DEF ClaimsInv, TypeOK
<1>2. InFlight' \subseteq InFlight
  <2>1. CASE Handler(w) /\ ~ReadProgress(w) /\ ~RollPersonalization(w)
    <3>1. \/ \E pc \in {"wait", "persist", "interpret", "chat"} : Goto(w, pc)
          \/ Ends(w)
          \/ worker[w].pc = "admitted" /\ Goto(w, "generate")
      BY <2>1 DEF Handler, ClaimDailyBite, FinalizeDailyBite, PersistNovelQuestion,
         FailSession, ReadResult, ClaimPersonalizationRow, FinalizePersonalizationAnswer,
         FailAnswer, GatherChatExcerpts, GatherRaises, CompleteChatTurn, FailChatTurn
    <3>2. CASE \E pc \in {"wait", "persist", "interpret", "chat"} : Goto(w, pc)
      BY <1>1, <3>2, GotoFacts DEF Pc, InFlight, OthersStay
    <3>3. CASE Ends(w)
      BY <1>1, <3>3, EndsFacts DEF Idle, InFlight, OthersStay
    <3>4. CASE worker[w].pc = "admitted" /\ Goto(w, "generate")
      BY <1>1, <3>4, GotoFacts DEF Pc, InFlight, OthersStay
    <3> QED BY <3>1, <3>2, <3>3, <3>4
  <2>2. CASE ReadProgress(w) \/ RollPersonalization(w)
    BY <1>1, <2>2 DEF ReadProgress, RollPersonalization, InFlight, WorkerState
  <2> QED BY <2>1, <2>2
<1>3. CASE FinalizeDailyBite(w)
  <2>1. worker[w].pc = "write" /\ d \in Deck /\ w \in InFlight
    BY <1>1, <1>3 DEF FinalizeDailyBite, Fit, Placed, InFlight
  <2>2. \E pc \in {"wait", "persist"} : Goto(w, pc) \/ Ends(w)
    BY <1>3 DEF FinalizeDailyBite
  <2>3. w \notin InFlight'
    BY <1>1, <2>2, GotoFacts, EndsFacts DEF Pc, Idle, InFlight
  <2>4. row' = row \/ Writes(w, d)
    BY <1>3 DEF FinalizeDailyBite
  <2>5. Generated' \subseteq Generated \cup {d}
    BY <1>1, <2>4, RowFacts DEF TypeOK, Generated, Writes
  <2> QED BY <1>2, <2>1, <2>3, <2>5 DEF FlightCounted
<1>4. CASE FinalizePersonalizationAnswer(w) \/ CompleteChatTurn(w)
  <2>1. d \notin Deck
    BY <1>1, <1>4, RowFacts DEF FinalizePersonalizationAnswer, CompleteChatTurn, Fit, Placed
  <2>2. row' = row \/ Writes(w, d)
    BY <1>4 DEF FinalizePersonalizationAnswer, CompleteChatTurn
  <2>3. Generated' \subseteq Generated
    BY <1>1, <2>1, <2>2, RowFacts DEF TypeOK, Generated, Writes
  <2> QED BY <1>2, <2>3 DEF FlightsEnd
<1>5. CASE Handler(w) /\ ~FinalizeDailyBite(w) /\ ~FinalizePersonalizationAnswer(w)
           /\ ~CompleteChatTurn(w)
  <2>1. ASSUME \/ ReadProgress(w) \/ RollPersonalization(w) \/ ReadResult(w)
               \/ GatherChatExcerpts(w) \/ GatherRaises(w)
        PROVE  Unwritten(w)
    BY <2>1 DEF ReadProgress, RollPersonalization, ReadResult, GatherChatExcerpts,
       GatherRaises, Unwritten
  <2>2. ASSUME ClaimDailyBite(w) \/ ClaimPersonalizationRow(w)
        PROVE  Unwritten(w)
    <3>1. d \in Row
      BY <1>1, <2>2, RowFacts DEF ClaimDailyBite, ClaimPersonalizationRow, Fit, Placed
    <3> QED BY <2>2, <3>1 DEF ClaimDailyBite, ClaimPersonalizationRow, Unwritten
  <2>3. ASSUME FailSession(w) \/ FailAnswer(w) \/ FailChatTurn(w)
        PROVE  Unwritten(w)
    <3>1. d \in Row
      BY <1>1, <2>3, RowFacts DEF FailSession, FailAnswer, FailChatTurn, Fit, Placed
    <3> QED BY <2>3, <3>1 DEF FailSession, FailAnswer, FailChatTurn, Unwritten
  <2>4. ASSUME PersistNovelQuestion(w)
        PROVE  Unwritten(w)
    <3>1. d \in Wisdom
      BY <1>1, <2>4 DEF PersistNovelQuestion, Fit, Asks, Placed
    <3> QED BY <2>4, <3>1 DEF PersistNovelQuestion, Unwritten
  <2>5. Unwritten(w)
    BY <1>5, <2>1, <2>2, <2>3, <2>4 DEF Handler
  <2> QED BY <1>2, <2>5, UnwrittenCounts DEF FlightsEnd
<1> QED BY <1>3, <1>4, <1>5

LEMMA CapKept ==
  ASSUME ClaimsInv, ClaimsInv', CapOvershoot, [Next]_vars
  PROVE  CapOvershoot'
<1> DEFINE G == Cardinality(Generated)
           F == Cardinality(InFlight)
<1>1. /\ IsFiniteSet(Generated) /\ IsFiniteSet(Generated')
      /\ IsFiniteSet(InFlight) /\ IsFiniteSet(InFlight')
      /\ G \in Nat /\ G' \in Nat /\ F \in Nat /\ F' \in Nat
      /\ Cardinality(Worker) \in Nat /\ F' <= Cardinality(Worker) /\ Cap \in Nat
  BY RowsAssumption, WorkersAssumption, BoundsAssumption, FS_Subset, FS_CardinalityType
     DEF Generated, InFlight
<1>2. Generations = G /\ Generations' = G'
  BY DEF Generations, Generated
<1>3. CASE FlightsEnd
  <2>1. G' <= G /\ F' <= F
    BY <1>1, <1>3, FS_Subset DEF FlightsEnd
  <2> QED BY <1>1, <1>2, <2>1 DEF CapOvershoot
<1>4. CASE FlightCounted
  <2>1. PICK w \in InFlight, d \in Deck :
          Generated' \subseteq Generated \cup {d} /\ InFlight' \subseteq InFlight \ {w}
    BY <1>4 DEF FlightCounted
  <2>2. /\ IsFiniteSet(Generated \cup {d})
        /\ Cardinality(Generated \cup {d}) = IF d \in Generated THEN G ELSE G + 1
    BY <1>1, FS_AddElement
  <2>3. /\ IsFiniteSet(InFlight \ {w})
        /\ Cardinality(InFlight \ {w}) = IF w \in InFlight THEN F - 1 ELSE F
    BY <1>1, FS_RemoveElement
  <2>4. /\ IsFiniteSet(Generated \cup {d}) /\ Cardinality(Generated \cup {d}) <= G + 1
        /\ IsFiniteSet(InFlight \ {w}) /\ Cardinality(InFlight \ {w}) = F - 1
    BY <1>1, <2>1, <2>2, <2>3
  <2>5. /\ G' <= Cardinality(Generated \cup {d}) /\ F' <= Cardinality(InFlight \ {w})
        /\ Cardinality(Generated \cup {d}) \in Nat
    BY <2>1, <2>4, FS_Subset, FS_CardinalityType
  <2>6. G' + F' <= G + F
    BY <1>1, <2>4, <2>5
  <2> QED BY <1>1, <1>2, <2>6 DEF CapOvershoot
<1>5. ASSUME NEW w \in Worker, NEW d \in Deck, GetOrCreateSession(w, d) PROVE CapOvershoot'
  <2>1. row' = row /\ Generations < Cap
    BY <1>5 DEF GetOrCreateSession
  <2>2. G' = G
    BY <2>1 DEF Generated
  <2> QED BY <1>1, <1>2, <2>1, <2>2 DEF CapOvershoot
<1>6. ASSUME NEW w \in Worker, Unwritten(w), OthersStay(w),
             worker'[w] = worker[w] \/ worker'[w].pc \in {"idle", "claim", "gather"}
      PROVE  FlightsEnd
  BY <1>6, UnwrittenCounts DEF FlightsEnd, OthersStay, InFlight
<1>7. ASSUME NEW w \in Worker, NEW r \in Answer, SubmitAnswer(w, r) PROVE FlightsEnd
  <2>1. row' = row /\ (worker' = worker \/ At(w, r, "claim"))
    BY <1>7 DEF SubmitAnswer
  <2>2. CASE worker' = worker
    BY <1>6, <2>1, <2>2 DEF Unwritten, OthersStay
  <2>3. CASE At(w, r, "claim")
    BY <1>6, <2>1, <2>3, AtFacts, RowFacts DEF Unwritten, ClaimsInv, Pc
  <2> QED BY <2>1, <2>2, <2>3
<1>8. ASSUME NEW w \in Worker, NEW t \in Turn, ClaimChatTurn(w, t) PROVE FlightsEnd
  BY <1>6, <1>8, AtFacts, RowFacts DEF ClaimChatTurn, Unwritten, ClaimsInv, Pc
<1>9. ASSUME NEW w \in Worker, Heartbeat(w) PROVE FlightsEnd
  <2>1. worker[w].row \in Row
    BY <1>9, RowFacts DEF ClaimsInv, Fit, Placed, Heartbeat, Beating
  <2> QED BY <1>6, <1>9, <2>1 DEF Heartbeat, Owns, Unwritten, OthersStay
<1>10. ASSUME NEW w \in Worker, Crash(w) PROVE FlightsEnd
  BY <1>6, <1>10, EndsFacts DEF Crash, Unwritten, ClaimsInv, Idle
<1>11. ASSUME NEW r \in Row, LeaseLapses(r) PROVE FlightsEnd
  <2>1. row[r].status = "claimed" /\ row' = [row EXCEPT ![r].leased = FALSE] /\ worker' = worker
    BY <1>11 DEF LeaseLapses
  <2>2. Generated' \subseteq Generated
    BY <2>1, RowFacts DEF ClaimsInv, TypeOK, RowState, Generated
  <2> QED BY <2>1, <2>2 DEF FlightsEnd, InFlight
<1>12. CASE UNCHANGED vars
  BY <1>3, <1>12 DEF vars, FlightsEnd, Generated, InFlight
<1>13. ASSUME NEW w \in Worker, Handler(w) PROVE FlightsEnd \/ FlightCounted
  BY <1>13, HandlersFly
<1> QED BY <1>3, <1>4, <1>5, <1>7, <1>8, <1>9, <1>10, <1>11, <1>12, <1>13 DEF Next

LEMMA InitUnderCap == Init => CapOvershoot
<1>1. SUFFICES ASSUME Init PROVE CapOvershoot
  OBVIOUS
<1>2. Generated = {} /\ InFlight = {}
  BY <1>1, RowFacts DEF Init, Generated, InFlight, NoRow, Idle
<1>3. Generations = 0 /\ Cardinality(InFlight) = 0
  BY <1>2, FS_EmptySet DEF Generations, Generated
<1>4. Cardinality(Worker) \in Nat /\ Cap \in Nat \ {0}
  BY WorkersAssumption, BoundsAssumption, FS_CardinalityType
<1> QED BY <1>3, <1>4 DEF CapOvershoot

LEMMA StepInTime ==
  ASSUME ClaimsInv, [Next]_vars, timely, story_progress' # story_progress
  PROVE  \E d \in Story : row[d].status # "done" /\ row'[d].status = "done"
<1>1. PICK w \in Worker : FinalizeDailyBite(w)
  BY DEF Next, Handler, vars, GetOrCreateSession, SubmitAnswer, ClaimChatTurn, Heartbeat,
     Crash, LeaseLapses, ClaimDailyBite, ReadProgress, RollPersonalization,
     PersistNovelQuestion, FailSession, ReadResult, ClaimPersonalizationRow,
     FinalizePersonalizationAnswer, FailAnswer, GatherChatExcerpts, GatherRaises,
     CompleteChatTurn, FailChatTurn
<1> DEFINE d == worker[w].row
<1>2. d \in Story /\ d \in Row /\ worker[w].pc = "write"
  BY <1>1, RowFacts DEF FinalizeDailyBite
<1>3. Owns(w, d)
  BY <1>2 DEF ClaimsInv, Fit, Works
<1>4. row' = [row EXCEPT ![d] = Written(w)]
  BY <1>1, <1>3 DEF FinalizeDailyBite, Writes
<1> QED BY <1>2, <1>3, <1>4 DEF ClaimsInv, TypeOK, Owns, Written

-----------------------------------------------------------------------------
\* Claims, every value of its constants: the variables stay in their sets, and
\* story_progress never passes the end of the story.
THEOREM ClaimsTypeCorrect == Spec => []TypeOK
<1>1. ClaimsInv => TypeOK
  BY DEF ClaimsInv
<1> QED BY <1>1, InitInv, NextKeeps, PTL DEF Spec

\* The claims of sessions, answers and chat turns, with the writes that follow
\* them, implement LeasedSlot: one lease per row.
THEOREM ClaimsAreLeases == Spec => SlotsRefined
<1>1. ClaimsInv /\ ClaimsInv' /\ [Next]_vars => [Slots!SlotNext]_(Slots!slotVars)
  BY StepOnSlots
<1> QED BY <1>1, InitInv, NextKeeps, InitOnSlots, PTL DEF Spec, SlotsRefined, Slots!SlotSpec

\* A claim whose lease is ahead is lost by its own handler's doing only.
THEOREM ClaimsAreKept == Spec => ClaimKept
<1>1. ClaimsInv /\ [Next]_vars =>
        [\A w \in Worker, r \in Row :
           /\ Owns(w, r) /\ row[r].leased
           /\ worker'[w] = worker[w]
           => row'[r].status = "claimed" /\ row'[r].claimed_by = w]_vars
  BY StepKeepsClaims
<1> QED BY <1>1, InitInv, NextKeeps, PTL DEF Spec, ClaimKept

\* Every device that got an answer to a question got the stored one.
THEOREM OneAnswerTold == Spec => []AnswersAgree
<1>1. ClaimsInv => AnswersAgree
  BY DEF ClaimsInv
<1> QED BY <1>1, InitInv, NextKeeps, PTL DEF Spec

\* An answerable question is on its deck's card, and no two ask about one
\* dimension.
THEOREM QuestionsHaveDecks == Spec => []QuestionsFit
<1>1. ClaimsInv => QuestionsFit
  BY DEF ClaimsInv, QuestionsFit
<1> QED BY <1>1, InitInv, NextKeeps, PTL DEF Spec

\* With timely heartbeats one handler at a time pays for a deck or an answer.
THEOREM OnePays == Spec => []OneGenerator
<1>1. ClaimsInv => OneGenerator
  BY DEF ClaimsInv, Fit, Works, Owns, OneGenerator
<1> QED BY <1>1, InitInv, NextKeeps, PTL DEF Spec

\* The cap is passed by the handlers already under way, and by no more.
THEOREM CapNearlyKept == Spec => []CapOvershoot
<1>1. ClaimsInv /\ ClaimsInv' /\ CapOvershoot /\ [Next]_vars => CapOvershoot'
  BY CapKept
<1> QED BY <1>1, InitInv, NextKeeps, InitUnderCap, PTL DEF Spec

\* With timely heartbeats the story moves on with a written deck only.
THEOREM ProgressWithDeck == Spec => ProgressInTime
<1>1. ClaimsInv /\ [Next]_vars =>
        [timely /\ story_progress' # story_progress =>
           \E d \in Story : row[d].status # "done" /\ row'[d].status = "done"]_vars
  BY StepInTime
<1> QED BY <1>1, InitInv, NextKeeps, PTL DEF Spec, ProgressInTime

=============================================================================
