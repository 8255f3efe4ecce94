-------------------------- MODULE ArtifactsProofs --------------------------
(***************************************************************************)
(* The safety properties of Artifacts, for any number of attempts, runs of *)
(* the clean-up and upsert batches, whatever crashes, lapses and raises.   *)
(***************************************************************************)
EXTENDS Artifacts, FiniteSetTheorems, TLAPS

Recorded(a, k) == task[a][k].state # "none"

\* Where an attempt is with what it must take back.
WorkPc == {"new", "archive", "store", "index", "upsert", "last", "finalize", "content"}
CleanPc == {"claim", "delete", "clear", "resolve", "release"}
HoldPc == {"delete", "clear", "resolve", "release"}

\* Nothing is recorded before the attempt has failed, and each kind once, the
\* vectors first, unless its clean-up raises.
TaskFits(a) ==
  /\ attempt[a].pc \in WorkPc =>
       attempt[a].kind = "vectors" /\ ~Recorded(a, "vectors") /\ ~Recorded(a, "s3")
  /\ attempt[a].pc \in CleanPc => Recorded(a, attempt[a].kind)
  /\ attempt[a].pc = "clear" => attempt[a].kind = "s3"
  /\ attempt[a].pc = "record" /\ "write" \notin events => ~Recorded(a, attempt[a].kind)
  /\ attempt[a].pc \in CleanPc \cup {"record"} /\ attempt[a].kind = "vectors" =>
       "write" \in events \/ ~Recorded(a, "s3")

\* The attempt knows what it archived, and a key in the row has its file unless
\* a clean-up of the file is on the ledger.
FilesFit(a) ==
  /\ attempt[a].pc \notin {"leave", "ended", "crashed"} /\ a \in file =>
       attempt[a].archived \/ "answer" \in events
  /\ attempt[a].pc = "store" /\ source.state = "present" => a \in file
  /\ attempt[a].pc \in {"leave", "ended"} /\ Recorded(a, "vectors") /\ a \in file =>
       Recorded(a, "s3") \/ "answer" \in events
  /\ source.state = "present" /\ source.file_url = a /\ a \notin file => Unresolved(a, "s3")

\* What a resolved record says is so.
LedgerFits(a) ==
  /\ \A k \in Kind : task[a][k].state = "resolved" /\ ~VectorsUnasked(k) => ~Left(a, k)
  /\ task[a]["s3"].state = "resolved" /\ Exists => source.file_url # a

\* A claimant that has the store's yes, or that still has its claim.
ClaimFits(x, a, k, called, resolving, ok) ==
  /\ called /\ ok /\ ~VectorsUnasked(k) => ~Left(a, k)
  /\ resolving /\ task[a][k].claimed_by = x => Unresolved(a, k)
  /\ "stall" \notin events => task[a][k].claimed_by = x /\ task[a][k].leased

AttemptFits(a) ==
  attempt[a].pc \in HoldPc =>
    ClaimFits(a, a, attempt[a].kind, attempt[a].pc \in {"clear", "resolve"},
              attempt[a].pc # "release", attempt[a].ok)

RunnerFits(r) ==
  runner[r].pc # "idle" =>
    /\ runner[r].attempt \in Attempt
    /\ Recorded(runner[r].attempt, runner[r].kind)
    /\ ClaimFits(r, runner[r].attempt, runner[r].kind, runner[r].pc = "resolve",
                 runner[r].pc # "release", runner[r].ok)

\* There is a batch left until the last one has been written.
BeforeLast == {"new", "archive", "store", "index", "upsert"}
BatchLeft(a) == attempt[a].pc \in BeforeLast => attempt[a].upserted < Chunks

Fits(a) == TaskFits(a) /\ FilesFit(a) /\ LedgerFits(a) /\ AttemptFits(a) /\ BatchLeft(a)

LedgerInv ==
  /\ TypeOK
  /\ \A a \in Attempt : Fits(a)
  /\ \A r \in Runner : RunnerFits(r)
  /\ deleter.pc # "idle" => source.state # "present"

-----------------------------------------------------------------------------
(* What a step makes of an attempt's own record. *)

USE DEF VectorsUnasked

Pc == {"new", "archive", "store", "index", "upsert", "last", "finalize", "content",
         "record", "claim", "delete", "clear", "resolve", "release",
         "leave", "ended", "crashed"}

\* The step leaves a with these fields, and the other attempts alone.
Becomes(a, pc, archived, upserted, kind, ok) ==
  /\ attempt' \in [Attempt -> AttemptState]
  /\ attempt'[a].pc = pc /\ attempt'[a].archived = archived
  /\ attempt'[a].upserted = upserted
  /\ attempt'[a].kind = kind /\ attempt'[a].ok = ok
  /\ \A b \in Attempt \ {a} : attempt'[b] = attempt[b]

LEMMA Fields ==
  ASSUME NEW s \in AttemptState
  PROVE  /\ s.pc \in Pc /\ s.archived \in BOOLEAN /\ s.upserted \in 0 .. Chunks
         /\ s.kind \in Kind /\ s.ok \in BOOLEAN /\ s.handler \in BOOLEAN
         /\ \A x \in Pc : LET t == [s EXCEPT !.pc = x] IN
              /\ t \in AttemptState
              /\ t.pc = x /\ t.archived = s.archived /\ t.upserted = s.upserted
              /\ t.kind = s.kind /\ t.ok = s.ok
         /\ \A x \in BOOLEAN : LET t == [s EXCEPT !.archived = x] IN
              /\ t \in AttemptState
              /\ t.pc = s.pc /\ t.archived = x /\ t.upserted = s.upserted
              /\ t.kind = s.kind /\ t.ok = s.ok
         /\ \A x \in 0 .. Chunks : LET t == [s EXCEPT !.upserted = x] IN
              /\ t \in AttemptState
              /\ t.pc = s.pc /\ t.archived = s.archived /\ t.upserted = x
              /\ t.kind = s.kind /\ t.ok = s.ok
         /\ \A x \in Kind : LET t == [s EXCEPT !.kind = x] IN
              /\ t \in AttemptState
              /\ t.pc = s.pc /\ t.archived = s.archived /\ t.upserted = s.upserted
              /\ t.kind = x /\ t.ok = s.ok
         /\ \A x \in BOOLEAN : LET t == [s EXCEPT !.ok = x] IN
              /\ t \in AttemptState
              /\ t.pc = s.pc /\ t.archived = s.archived /\ t.upserted = s.upserted
              /\ t.kind = s.kind /\ t.ok = x
         /\ \A x \in BOOLEAN : LET t == [s EXCEPT !.handler = x] IN
              /\ t \in AttemptState
              /\ t.pc = s.pc /\ t.archived = s.archived /\ t.upserted = s.upserted
              /\ t.kind = s.kind /\ t.ok = s.ok
  BY DEF AttemptState, Pc

LEMMA AttemptPut ==
  ASSUME TypeOK, NEW a \in Attempt, NEW new \in AttemptState,
         attempt' = [attempt EXCEPT ![a] = new]
  PROVE  Becomes(a, new.pc, new.archived, new.upserted, new.kind, new.ok)
  BY DEF TypeOK, Becomes

LEMMA GotoIs ==
  ASSUME TypeOK, NEW a \in Attempt, NEW pc \in Pc, Goto(a, pc)
  PROVE  Becomes(a, pc, attempt[a].archived, attempt[a].upserted, attempt[a].kind, attempt[a].ok)
<1> DEFINE new == [attempt[a] EXCEPT !.pc = pc]
<1>0. attempt[a] \in AttemptState
  BY DEF TypeOK
<1>1. new \in AttemptState /\ attempt' = [attempt EXCEPT ![a] = new]
  BY <1>0, Fields DEF Goto
<1>2. Becomes(a, new.pc, new.archived, new.upserted, new.kind, new.ok)
  BY <1>1, AttemptPut
<1> QED BY <1>0, <1>2, Fields

LEMMA CompensateIs ==
  ASSUME TypeOK, NEW a \in Attempt, NEW h \in BOOLEAN, Compensate(a, h)
  PROVE  Becomes(a, "record", attempt[a].archived, 0, "vectors", FALSE)
<1>0. attempt[a] \in AttemptState /\ 0 \in 0 .. Chunks /\ "vectors" \in Kind /\ "record" \in Pc
  BY ChunksAssumption DEF TypeOK, Kind, Pc
<1> DEFINE first == [attempt[a] EXCEPT !.pc = "record"]
           second == [first EXCEPT !.upserted = 0]
           third == [second EXCEPT !.kind = "vectors"]
           fourth == [third EXCEPT !.ok = FALSE]
           new == [fourth EXCEPT !.handler = h]
<1>1. attempt' = [attempt EXCEPT ![a] = new]
  BY DEF Compensate
<1>2. /\ first \in AttemptState /\ first.pc = "record" /\ first.archived = attempt[a].archived
  BY <1>0, Fields
<1> HIDE DEF first
<1>3. /\ second \in AttemptState
      /\ second.pc = first.pc /\ second.archived = first.archived /\ second.upserted = 0
  BY <1>0, <1>2, Fields
<1> HIDE DEF second
<1>4. /\ third \in AttemptState
      /\ third.pc = second.pc /\ third.archived = second.archived
      /\ third.upserted = second.upserted /\ third.kind = "vectors"
  BY <1>0, <1>3, Fields
<1> HIDE DEF third
<1>5. /\ fourth \in AttemptState
      /\ fourth.pc = third.pc /\ fourth.archived = third.archived
      /\ fourth.upserted = third.upserted /\ fourth.kind = third.kind /\ fourth.ok = FALSE
  BY <1>4, Fields
<1> HIDE DEF fourth
<1>6. /\ new \in AttemptState
      /\ new.pc = fourth.pc /\ new.archived = fourth.archived
      /\ new.upserted = fourth.upserted /\ new.kind = fourth.kind /\ new.ok = fourth.ok
  BY <1>5, Fields
<1> HIDE DEF new
<1>7. Becomes(a, new.pc, new.archived, new.upserted, new.kind, new.ok)
  BY <1>1, <1>6, AttemptPut
<1> QED BY <1>2, <1>3, <1>4, <1>5, <1>6, <1>7

LEMMA EndsIs ==
  ASSUME TypeOK, NEW a \in Attempt, NEW pc \in Pc, Ends(a, pc)
  PROVE  Becomes(a, pc, FALSE, 0, "vectors", FALSE)
<1> DEFINE new == [NewAttempt EXCEPT !.pc = pc]
<1>1. NewAttempt \in AttemptState
  BY ChunksAssumption DEF NewAttempt, AttemptState, Kind
<1>2. new \in AttemptState /\ attempt' = [attempt EXCEPT ![a] = new]
  BY <1>1, Fields DEF Ends
<1>3. Becomes(a, new.pc, new.archived, new.upserted, new.kind, new.ok)
  BY <1>2, AttemptPut
<1>4. /\ new.pc = pc /\ new.archived = FALSE /\ new.upserted = 0
      /\ new.kind = "vectors" /\ new.ok = FALSE
  BY <1>1, Fields DEF NewAttempt
<1> QED BY <1>3, <1>4

LEMMA UploadIs ==
  ASSUME TypeOK, NEW a \in Attempt, UploadFile(a)
  PROVE  Becomes(a, "store", TRUE, attempt[a].upserted, attempt[a].kind, attempt[a].ok)
<1> DEFINE mid == [attempt[a] EXCEPT !.pc = "store"]
           new == [mid EXCEPT !.archived = TRUE]
<1>0. attempt[a] \in AttemptState
  BY DEF TypeOK
<1>1. mid \in AttemptState
  BY <1>0, Fields DEF Pc
<1>2. new \in AttemptState
  BY <1>1, Fields
<1>3. attempt' = [attempt EXCEPT ![a] = new]
  BY DEF UploadFile
<1>4. Becomes(a, new.pc, new.archived, new.upserted, new.kind, new.ok)
  BY <1>2, <1>3, AttemptPut
<1>5. /\ new.pc = mid.pc /\ new.archived = TRUE /\ new.upserted = mid.upserted
      /\ new.kind = mid.kind /\ new.ok = mid.ok
  BY <1>1, Fields
<1>6. /\ mid.pc = "store" /\ mid.upserted = attempt[a].upserted
      /\ mid.kind = attempt[a].kind /\ mid.ok = attempt[a].ok
  BY <1>0, Fields DEF Pc
<1> HIDE DEF new, mid
<1> QED BY <1>4, <1>5, <1>6, Zenon

LEMMA UpsertIs ==
  ASSUME TypeOK, NEW a \in Attempt, NEW pc \in Pc, NEW c \in 0 .. Chunks,
         attempt' = [attempt EXCEPT ![a].upserted = c, ![a].pc = pc]
  PROVE  Becomes(a, pc, attempt[a].archived, c, attempt[a].kind, attempt[a].ok)
<1> DEFINE mid == [attempt[a] EXCEPT !.upserted = c]
           new == [mid EXCEPT !.pc = pc]
<1>0. attempt[a] \in AttemptState
  BY DEF TypeOK
<1>1. mid \in AttemptState
  BY <1>0, Fields
<1>2. new \in AttemptState
  BY <1>1, Fields
<1>3. attempt' = [attempt EXCEPT ![a] = new]
  OBVIOUS
<1>4. Becomes(a, new.pc, new.archived, new.upserted, new.kind, new.ok)
  BY <1>2, <1>3, AttemptPut
<1>5. /\ new.pc = pc /\ new.archived = mid.archived /\ new.upserted = mid.upserted
      /\ new.kind = mid.kind /\ new.ok = mid.ok
  BY <1>1, Fields
<1> QED BY <1>0, <1>4, <1>5, Fields

LEMMA AnswerIs ==
  ASSUME TypeOK, NEW a \in Attempt, NEW pc \in Pc, NEW ok \in BOOLEAN,
         attempt' = [attempt EXCEPT ![a].ok = ok, ![a].pc = pc]
  PROVE  Becomes(a, pc, attempt[a].archived, attempt[a].upserted, attempt[a].kind, ok)
<1> DEFINE mid == [attempt[a] EXCEPT !.ok = ok]
           new == [mid EXCEPT !.pc = pc]
<1>0. attempt[a] \in AttemptState
  BY DEF TypeOK
<1>1. mid \in AttemptState
  BY <1>0, Fields
<1>2. new \in AttemptState
  BY <1>1, Fields
<1>3. attempt' = [attempt EXCEPT ![a] = new]
  OBVIOUS
<1>4. Becomes(a, new.pc, new.archived, new.upserted, new.kind, new.ok)
  BY <1>2, <1>3, AttemptPut
<1>5. /\ new.pc = pc /\ new.archived = mid.archived /\ new.upserted = mid.upserted
      /\ new.kind = mid.kind /\ new.ok = mid.ok
  BY <1>1, Fields
<1> QED BY <1>0, <1>4, <1>5, Fields

LEMMA NextKindIs ==
  ASSUME TypeOK, NEW a \in Attempt, NextKind(a)
  PROVE  \/ /\ attempt[a].kind = "vectors" /\ attempt[a].archived
            /\ Becomes(a, "record", attempt[a].archived, attempt[a].upserted, "s3", FALSE)
         \/ /\ ~(attempt[a].kind = "vectors" /\ attempt[a].archived)
            /\ Becomes(a, "leave", attempt[a].archived, attempt[a].upserted, "vectors", FALSE)
<1>0. attempt[a] \in AttemptState
  BY DEF TypeOK
<1>1. ASSUME NEW pc \in Pc, NEW kind \in Kind,
             attempt' = [attempt EXCEPT ![a].pc = pc, ![a].kind = kind, ![a].ok = FALSE]
      PROVE  Becomes(a, pc, attempt[a].archived, attempt[a].upserted, kind, FALSE)
  <2> DEFINE first == [attempt[a] EXCEPT !.pc = pc]
             mid == [first EXCEPT !.kind = kind]
             new == [mid EXCEPT !.ok = FALSE]
  <2>1. /\ first \in AttemptState
        /\ first.pc = pc /\ first.archived = attempt[a].archived
        /\ first.upserted = attempt[a].upserted
    BY <1>0, Fields
  <2>2. mid \in AttemptState
    BY <2>1, Fields
  <2>3. /\ mid.pc = first.pc /\ mid.archived = first.archived
        /\ mid.upserted = first.upserted /\ mid.kind = kind
    BY <2>1, Fields
  <2>4. new \in AttemptState
    BY <2>2, Fields
  <2>5. /\ new.pc = mid.pc /\ new.archived = mid.archived /\ new.upserted = mid.upserted
        /\ new.kind = mid.kind /\ new.ok = FALSE
    BY <2>2, Fields
  <2>6. attempt' = [attempt EXCEPT ![a] = new]
    BY <1>1
  <2>7. Becomes(a, new.pc, new.archived, new.upserted, new.kind, new.ok)
    BY <2>4, <2>6, AttemptPut
  <2> QED BY <2>1, <2>3, <2>5, <2>7
<1>2. CASE attempt[a].kind = "vectors" /\ attempt[a].archived
  BY <1>1, <1>2 DEF NextKind, Pc, Kind
<1>3. CASE ~(attempt[a].kind = "vectors" /\ attempt[a].archived)
  BY <1>1, <1>3 DEF NextKind, Pc, Kind
<1> QED BY <1>2, <1>3

-----------------------------------------------------------------------------
(* What a step makes of the ledger. *)

\* The step leaves this record with these fields, and the other records alone.
Records(a, k, state, claimed_by, leased) ==
  /\ task' \in [Attempt -> [Kind -> Task]]
  /\ task'[a][k].state = state
  /\ task'[a][k].claimed_by = claimed_by /\ task'[a][k].leased = leased
  /\ \A j \in Kind \ {k} : task'[a][j] = task[a][j]
  /\ \A b \in Attempt \ {a} : task'[b] = task[b]

LEMMA TaskFields ==
  ASSUME TypeOK, NEW a \in Attempt, NEW k \in Kind
  PROVE  /\ task \in [Attempt -> [Kind -> Task]]
         /\ task[a] \in [Kind -> Task] /\ task[a][k] \in Task
         /\ task[a][k].state \in {"none", "pending", "failed", "resolved"}
         /\ task[a][k].claimed_by \in Claimant \cup {None}
         /\ task[a][k].leased \in BOOLEAN
<1>1. task \in [Attempt -> [Kind -> Task]]
  BY DEF TypeOK
<1>2. task[a][k] \in Task
  BY <1>1
<1> QED BY <1>1, <1>2 DEF Task

LEMMA TaskPut ==
  ASSUME TypeOK, NEW a \in Attempt, NEW k \in Kind, NEW new \in Task,
         task' = [task EXCEPT ![a][k] = new]
  PROVE  Records(a, k, new.state, new.claimed_by, new.leased)
<1>1. task \in [Attempt -> [Kind -> Task]]
  BY DEF TypeOK
<1> QED BY <1>1 DEF Records

LEMMA StateIs ==
  ASSUME TypeOK, NEW a \in Attempt, NEW k \in Kind,
         NEW state \in {"none", "pending", "failed", "resolved"},
         task' = [task EXCEPT ![a][k].state = state]
  PROVE  Records(a, k, state, task[a][k].claimed_by, task[a][k].leased)
<1> DEFINE new == [task[a][k] EXCEPT !.state = state]
<1>1. /\ new \in Task /\ new.state = state
      /\ new.claimed_by = task[a][k].claimed_by /\ new.leased = task[a][k].leased
  BY TaskFields DEF Task
<1>2. task' = [task EXCEPT ![a][k] = new]
  BY TaskFields
<1> QED BY <1>1, <1>2, TaskPut

LEMMA ClaimsIs ==
  ASSUME TypeOK, NEW a \in Attempt, NEW k \in Kind, NEW x \in Claimant, Claims(a, k, x)
  PROVE  Records(a, k, task[a][k].state, x, TRUE)
<1> DEFINE new == [task[a][k] EXCEPT !.claimed_by = x, !.leased = TRUE]
<1>1. new \in Task /\ new.state = task[a][k].state /\ new.claimed_by = x /\ new.leased = TRUE
  BY TaskFields DEF Task
<1>2. task' = [task EXCEPT ![a][k] = new]
  BY TaskFields DEF Claims
<1> QED BY <1>1, <1>2, TaskPut

LEMMA ReleasesIs ==
  ASSUME TypeOK, NEW a \in Attempt, NEW k \in Kind, NEW x \in Claimant, Releases(a, k, x)
  PROVE  \/ task[a][k].claimed_by # x /\ task' = task
         \/ task[a][k].claimed_by = x /\ Records(a, k, task[a][k].state, None, FALSE)
<1> DEFINE new == [task[a][k] EXCEPT !.claimed_by = None, !.leased = FALSE]
<1>1. new \in Task /\ new.state = task[a][k].state /\ new.claimed_by = None /\ new.leased = FALSE
  BY TaskFields DEF Task
<1>2. CASE task[a][k].claimed_by = x
  <2>1. task' = [task EXCEPT ![a][k] = new]
    BY <1>2, TaskFields DEF Releases
  <2> QED BY <1>1, <1>2, <2>1, TaskPut
<1>3. CASE task[a][k].claimed_by # x
  BY <1>3 DEF Releases
<1> QED BY <1>2, <1>3

LEMMA LapseIs ==
  ASSUME TypeOK, NEW a \in Attempt, NEW k \in Kind, ClaimLapses(a, k)
  PROVE  Records(a, k, task[a][k].state, task[a][k].claimed_by, FALSE)
<1> DEFINE new == [task[a][k] EXCEPT !.leased = FALSE]
<1>1. /\ new \in Task /\ new.state = task[a][k].state
      /\ new.claimed_by = task[a][k].claimed_by /\ new.leased = FALSE
  BY TaskFields DEF Task
<1>2. task' = [task EXCEPT ![a][k] = new]
  BY TaskFields DEF ClaimLapses
<1> QED BY <1>1, <1>2, TaskPut

\* A result that is written is the claimant's; else nothing is.
LEMMA ResolvesIs ==
  ASSUME TypeOK, NEW a \in Attempt, NEW k \in Kind, NEW x \in Claimant, NEW ok \in BOOLEAN,
         Resolves(a, k, x, ok)
  PROVE  \/ task[a][k].claimed_by # x /\ task' = task /\ source' = source
         \/ /\ task[a][k].claimed_by = x
            /\ Records(a, k, IF ok THEN "resolved" ELSE "failed", x, task[a][k].leased)
            /\ source' \in SourceRow
            /\ source'.state = source.state
            /\ \/ source'.file_url = source.file_url
               \/ source'.file_url = None
            /\ Exists /\ ok /\ k = "s3" => source'.file_url # a
<1>1. CASE task[a][k].claimed_by # x
  BY <1>1 DEF Resolves
<1>2. CASE task[a][k].claimed_by = x
  <2>1. Records(a, k, IF ok THEN "resolved" ELSE "failed", x, task[a][k].leased)
    BY <1>2, StateIs DEF Resolves
  <2>2. source' = [source EXCEPT
               !.marked = IF Exists /\ ok /\ @ = a THEN None ELSE @,
               !.file_url = IF Exists /\ ok /\ k = "s3" /\ @ = a THEN None ELSE @]
    BY <1>2 DEF Resolves
  <2>3. source \in SourceRow
    BY DEF TypeOK
  <2>4. source' \in SourceRow
    BY <2>2, <2>3 DEF SourceRow
  <2>5. /\ source'.state = source.state
        /\ source'.file_url = IF Exists /\ ok /\ k = "s3" /\ source.file_url = a
                              THEN None ELSE source.file_url
    BY <2>2, <2>3 DEF SourceRow
  <2> QED BY <1>2, <2>1, <2>4, <2>5, NamesAssumption
<1> QED BY <1>1, <1>2

-----------------------------------------------------------------------------
(* The part of an attempt in the invariant, when somebody else acts. *)

\* The step leaves a, its records and what it has in the stores as they are; a
\* deletion may take the latter.
Apart(a) ==
  /\ attempt'[a] = attempt[a]
  /\ task'[a] = task[a]
  /\ \A k \in Kind : Left(a, k)' => Left(a, k)
  /\ source'.state = "present" /\ a \in file => a \in file'

\* The row does not come back, and does not get the key of a's archive.
RowCalm(a) ==
  /\ source'.state = "present" => source.state = "present"
  /\ Exists' => Exists
  /\ source'.file_url = a => source.file_url = a

\* What claimant x relies on stays, while a's artifact k is on the ledger.
Leaves(x, a, k) ==
  /\ Recorded(a, k)'
  /\ Left(a, k)' => Left(a, k)
  /\ task'[a][k].claimed_by = x =>
       /\ task[a][k].claimed_by = x
       /\ Unresolved(a, k) => Unresolved(a, k)'
  /\ "stall" \notin events /\ task[a][k].claimed_by = x /\ task[a][k].leased =>
       task'[a][k].claimed_by = x /\ task'[a][k].leased

LEMMA ApartFits ==
  ASSUME NEW a \in Attempt, Fits(a), Apart(a), RowCalm(a), events' = events,
         attempt[a].kind \in Kind
  PROVE  Fits(a)'
<1>1. \A k \in Kind : /\ Recorded(a, k)' <=> Recorded(a, k)
                      /\ Unresolved(a, k)' <=> Unresolved(a, k)
  BY DEF Apart, Recorded, Unresolved
<1>2. "vectors" \in Kind /\ "s3" \in Kind
  BY DEF Kind
<1>3. a \in file' => a \in file
  BY <1>2 DEF Apart, Left
<1>4. TaskFits(a)'
  BY <1>1, <1>2 DEF Fits, TaskFits, Apart
<1>5. FilesFit(a)'
  BY <1>1, <1>2, <1>3 DEF Fits, FilesFit, Apart, RowCalm
<1>6. LedgerFits(a)'
  BY <1>2 DEF Fits, LedgerFits, Apart, RowCalm
<1>7. AttemptFits(a)'
  BY <1>1 DEF Fits, AttemptFits, ClaimFits, Apart
<1>8. BatchLeft(a)'
  BY DEF Fits, BatchLeft, Apart
<1> QED BY <1>4, <1>5, <1>6, <1>7, <1>8 DEF Fits

LEMMA ApartLeaves ==
  ASSUME NEW a \in Attempt, Apart(a), NEW k \in Kind, NEW x, Recorded(a, k)
  PROVE  Leaves(x, a, k)
  BY DEF Apart, Leaves, Recorded, Unresolved

LEMMA RunnerKept ==
  ASSUME NEW r \in Runner, RunnerFits(r), runner'[r] = runner[r], events' = events,
         runner[r].kind \in Kind,
         \A a \in Attempt, k \in Kind : Recorded(a, k) => Leaves(r, a, k)
  PROVE  RunnerFits(r)'
<1>1. CASE runner[r].pc = "idle"
  BY <1>1 DEF RunnerFits
<1>2. CASE runner[r].pc # "idle"
  <2> DEFINE a == runner[r].attempt
             k == runner[r].kind
  <2>1. a \in Attempt /\ Recorded(a, k)
    BY <1>2 DEF RunnerFits
  <2>2. Leaves(r, a, k)
    BY <2>1
  <2> QED BY <1>2, <2>1, <2>2 DEF RunnerFits, ClaimFits, Leaves
<1> QED BY <1>1, <1>2

-----------------------------------------------------------------------------
(* The steps of an attempt. *)

\* What a step of a must do.
Keeps(a) ==
  /\ TypeOK'
  /\ Fits(a)'
  /\ \A b \in Attempt \ {a} : Apart(b) /\ RowCalm(b)
  /\ \A r \in Runner, k \in Kind : Recorded(a, k) => Leaves(r, a, k)
  /\ source'.state = source.state
  /\ runner' = runner /\ deleter' = deleter /\ events' = events

\* A step of the ingestion proper: the ledger is not touched.
Ingests(a) ==
  /\ source' \in SourceRow /\ source'.state = source.state
  /\ source'.file_url = source.file_url
  /\ UNCHANGED <<task, runner, deleter, events>>

LEMMA TypedFields ==
  ASSUME TypeOK, NEW a \in Attempt
  PROVE  /\ attempt[a] \in AttemptState
         /\ attempt[a].pc \in Pc /\ attempt[a].kind \in Kind
         /\ "vectors" \in Kind /\ "s3" \in Kind /\ Kind = {"vectors", "s3"}
         /\ None \notin Attempt /\ None \notin Runner /\ a \notin Runner
         /\ a \in Claimant
<1>1. attempt[a] \in AttemptState
  BY DEF TypeOK
<1> QED BY <1>1, Fields, NamesAssumption DEF Kind, Claimant

\* An ingestion that leaves the stores alone.
LEMMA IngestKeeps ==
  ASSUME TypeOK, NEW a \in Attempt, Fits(a), Ingests(a), UNCHANGED <<vector, file>>,
         NEW pc \in Pc, NEW archived, NEW upserted, NEW kind, NEW ok,
         Becomes(a, pc, archived, upserted, kind, ok),
         \/ /\ pc \in WorkPc \ {"store"} /\ attempt[a].pc \in WorkPc
            /\ kind = attempt[a].kind
            /\ archived = attempt[a].archived
            /\ pc \in BeforeLast =>
                 attempt[a].pc \in BeforeLast /\ upserted = attempt[a].upserted
         \/ pc = "record" /\ attempt[a].pc \in WorkPc /\ kind = attempt[a].kind
            /\ archived = attempt[a].archived
         \/ pc = "leave" /\ attempt[a].pc \in WorkPc
         \/ pc = "ended" /\ attempt[a].pc = "leave"
         \/ pc = "crashed"
  PROVE  Keeps(a)
<1>1. TypeOK'
  BY DEF TypeOK, Ingests, Becomes
<1>2. \A b \in Attempt, k \in Kind : /\ Left(b, k)' <=> Left(b, k)
                                     /\ Recorded(b, k)' <=> Recorded(b, k)
                                     /\ Unresolved(b, k)' <=> Unresolved(b, k)
  BY DEF Ingests, Left, Recorded, Unresolved
<1>3. "vectors" \in Kind /\ "s3" \in Kind
  BY DEF Kind
<1>4. \A b \in Attempt \ {a} : Apart(b) /\ RowCalm(b)
  BY <1>2 DEF Apart, RowCalm, Ingests, Becomes, Exists
<1>5. \A r \in Runner, k \in Kind : Recorded(a, k) => Leaves(r, a, k)
  BY <1>2 DEF Leaves, Ingests
<1>6. TaskFits(a)'
  BY <1>2, <1>3 DEF Fits, TaskFits, Becomes, WorkPc, CleanPc
<1>7. FilesFit(a)'
  BY <1>2, <1>3 DEF Fits, TaskFits, FilesFit, Becomes, WorkPc, Ingests
<1>8. LedgerFits(a)'
  BY <1>2, <1>3 DEF Fits, LedgerFits, Ingests, Exists
<1>9. AttemptFits(a)'
  BY DEF AttemptFits, Becomes, HoldPc, WorkPc
<1>10. BatchLeft(a)'
  BY DEF Fits, BatchLeft, Becomes, BeforeLast
<1> QED BY <1>1, <1>4, <1>5, <1>6, <1>7, <1>8, <1>9, <1>10 DEF Keeps, Fits, Ingests

LEMMA GotoKeeps ==
  ASSUME TypeOK, NEW a \in Attempt, Fits(a), Ingests(a), UNCHANGED <<vector, file>>,
         NEW pc \in Pc, Goto(a, pc),
         \/ /\ pc \in WorkPc \ {"store"} /\ attempt[a].pc \in WorkPc
            /\ pc \in BeforeLast => attempt[a].pc \in BeforeLast
         \/ pc = "leave" /\ attempt[a].pc \in WorkPc
  PROVE  Keeps(a)
  BY GotoIs, IngestKeeps

LEMMA CompensateKeeps ==
  ASSUME TypeOK, NEW a \in Attempt, Fits(a), Ingests(a), UNCHANGED <<vector, file>>,
         attempt[a].pc \in WorkPc, NEW h \in BOOLEAN, Compensate(a, h)
  PROVE  Keeps(a)
<1>1. attempt[a].kind = "vectors"
  BY DEF Fits, TaskFits
<1>2. Becomes(a, "record", attempt[a].archived, 0, "vectors", FALSE)
  BY CompensateIs
<1> QED BY <1>1, <1>2, IngestKeeps DEF Pc

LEMMA WorkKeeps ==
  ASSUME TypeOK, NEW a \in Attempt, Fits(a),
         \/ AdmitWorkerAttempt(a) \/ IndexNothing(a) \/ StoreRaises(a) \/ OfferOcr(a)
         \/ CheckOwnership(a) \/ PassLastCheck(a) \/ AttemptFails(a)
         \/ FinalizeSuccessfulProcessing(a) \/ WriteContent(a) \/ ContentRaises(a)
         \/ ReleaseWorkerAttempt(a) \/ Crash(a)
  PROVE  Keeps(a)
<1>0. source \in SourceRow
  BY DEF TypeOK
<1>1. CASE AdmitWorkerAttempt(a)
  <2>1. Ingests(a)
    BY <1>0, <1>1 DEF AdmitWorkerAttempt, Ingests, SourceRow
  <2> QED BY <1>1, <2>1, GotoKeeps DEF AdmitWorkerAttempt, Pc, WorkPc, BeforeLast
<1>2. CASE IndexNothing(a) \/ StoreRaises(a) \/ WriteContent(a)
  <2>1. Ingests(a)
    BY <1>0, <1>2 DEF IndexNothing, StoreRaises, WriteContent, Ingests
  <2> QED BY <1>2, <2>1, GotoKeeps DEF IndexNothing, StoreRaises, WriteContent, Pc, WorkPc,
     BeforeLast
<1>3. CASE OfferOcr(a) \/ CheckOwnership(a) \/ PassLastCheck(a)
  <2>1. Ingests(a)
    BY <1>0, <1>3 DEF OfferOcr, CheckOwnership, PassLastCheck, Ingests, SourceRow
  <2> QED BY <1>3, <2>1, GotoKeeps DEF OfferOcr, CheckOwnership, PassLastCheck, Pc, WorkPc,
     BeforeLast
<1>4. CASE AttemptFails(a) \/ ContentRaises(a)
  <2>1. Ingests(a)
    BY <1>0, <1>4 DEF AttemptFails, ContentRaises, Ingests
  <2> QED BY <1>4, <2>1, CompensateKeeps DEF AttemptFails, ContentRaises, WorkPc
<1>5. CASE FinalizeSuccessfulProcessing(a)
  <2>1. Ingests(a)
    BY <1>0, <1>5 DEF FinalizeSuccessfulProcessing, Ingests, SourceRow
  <2> QED BY <1>5, <2>1, GotoKeeps, CompensateKeeps DEF FinalizeSuccessfulProcessing, Pc,
     WorkPc, BeforeLast
<1>6. CASE ReleaseWorkerAttempt(a)
  <2>1. Ingests(a)
    BY <1>0, <1>6 DEF ReleaseWorkerAttempt, Ingests, SourceRow
  <2>2. Becomes(a, "ended", FALSE, 0, "vectors", FALSE)
    BY <1>6, EndsIs DEF ReleaseWorkerAttempt, Pc
  <2> QED BY <1>6, <2>1, <2>2, IngestKeeps DEF ReleaseWorkerAttempt, Pc
<1>7. CASE Crash(a)
  <2>1. Ingests(a)
    BY <1>0, <1>7 DEF Crash, Ingests
  <2>2. Becomes(a, "crashed", FALSE, 0, "vectors", FALSE)
    BY <1>7, EndsIs DEF Crash, Pc
  <2> QED BY <1>7, <2>1, <2>2, IngestKeeps DEF Crash, Pc
<1> QED BY <1>1, <1>2, <1>3, <1>4, <1>5, <1>6, <1>7

\* The attempt goes on without its archive, whose upload may have been stored.
LEMMA SkipKeeps ==
  ASSUME TypeOK, NEW a \in Attempt, Fits(a), SkipArchive(a)
  PROVE  Keeps(a)
<1>0. /\ attempt[a].pc = "archive" /\ Goto(a, "index") /\ Kind = {"vectors", "s3"}
      /\ UNCHANGED <<source, vector, task, runner, deleter, events>>
  BY TypedFields DEF SkipArchive
<1>1. CASE UNCHANGED file
  <2>1. Ingests(a)
    BY <1>0 DEF Ingests, TypeOK
  <2> QED BY <1>0, <1>1, <2>1, GotoKeeps DEF Pc, WorkPc, BeforeLast
<1>2. CASE "answer" \in events /\ file' = file \cup {a}
  <2>1. Becomes(a, "index", attempt[a].archived, attempt[a].upserted, attempt[a].kind, attempt[a].ok)
    BY <1>0, GotoIs DEF Pc
  <2>2. attempt[a].kind = "vectors" /\ ~Recorded(a, "vectors") /\ ~Recorded(a, "s3")
    BY <1>0 DEF Fits, TaskFits, WorkPc
  <2>3. TypeOK'
    BY <1>0, <1>2, <2>1 DEF TypeOK, Becomes
  <2>4. \A b \in Attempt \ {a} : Apart(b) /\ RowCalm(b)
    BY <1>0, <1>2, <2>1 DEF Apart, RowCalm, Becomes, Left, Exists
  <2>5. \A k \in Kind : ~Recorded(a, k) /\ ~Recorded(a, k)'
    BY <1>0, <2>2 DEF Recorded
  <2>6. TaskFits(a)'
    BY <1>0, <2>1, <2>2, <2>5 DEF TaskFits, Becomes, CleanPc
  <2>7. FilesFit(a)'
    BY <1>0, <1>2, <2>1, <2>5 DEF FilesFit, Becomes
  <2>8. LedgerFits(a)'
    BY <1>0, <2>5 DEF LedgerFits, Recorded
  <2>9. AttemptFits(a)'
    BY <2>1 DEF AttemptFits, Becomes, HoldPc
  <2>10. BatchLeft(a)'
    BY <1>0, <2>1 DEF Fits, BatchLeft, Becomes, BeforeLast
  <2> QED BY <1>0, <2>3, <2>4, <2>5, <2>6, <2>7, <2>8, <2>9, <2>10 DEF Keeps, Fits
<1> QED BY <1>0, <1>1, <1>2 DEF SkipArchive

\* The stores get something only of an attempt that has nothing on the ledger.
LEMMA StoreKeeps ==
  ASSUME TypeOK, NEW a \in Attempt, Fits(a),
         UploadFile(a) \/ StoreFileUrl(a) \/ Upsert(a) \/ Heartbeat(a)
  PROVE  Keeps(a)
<1>0. /\ source \in SourceRow
      /\ attempt[a].pc \in Pc /\ attempt[a].kind \in Kind
      /\ Kind = {"vectors", "s3"}
      /\ None \notin Attempt
  BY TypedFields DEF TypeOK
<1>1. CASE UploadFile(a)
  <2>1. Becomes(a, "store", TRUE, attempt[a].upserted, attempt[a].kind, attempt[a].ok)
    BY <1>1, UploadIs
  <2>2. /\ attempt[a].pc = "archive" /\ file' = file \cup {a}
        /\ UNCHANGED <<source, vector, task, runner, deleter, events>>
    BY <1>1 DEF UploadFile
  <2>3. attempt[a].kind = "vectors" /\ ~Recorded(a, "vectors") /\ ~Recorded(a, "s3")
    BY <2>2 DEF Fits, TaskFits, WorkPc
  <2>4. TypeOK'
    BY <2>1, <2>2 DEF TypeOK, Becomes
  <2>5. \A b \in Attempt \ {a} : Apart(b) /\ RowCalm(b)
    BY <2>1, <2>2 DEF Apart, RowCalm, Becomes, Left, Exists
  <2>6. \A k \in Kind : ~Recorded(a, k) /\ ~Recorded(a, k)'
    BY <1>0, <2>2, <2>3 DEF Recorded
  <2>7. TaskFits(a)'
    BY <1>0, <2>1, <2>3, <2>6 DEF TaskFits, Becomes, CleanPc
  <2>8. FilesFit(a)'
    BY <1>0, <2>1, <2>2, <2>6 DEF FilesFit, Becomes
  <2>9. LedgerFits(a)'
    BY <1>0, <2>6 DEF LedgerFits, Recorded
  <2>10. AttemptFits(a)'
    BY <2>1 DEF AttemptFits, Becomes, HoldPc
  <2>11. BatchLeft(a)'
    BY <2>1, <2>2 DEF Fits, BatchLeft, Becomes, BeforeLast
  <2> QED BY <2>2, <2>4, <2>5, <2>6, <2>7, <2>8, <2>9, <2>10, <2>11 DEF Keeps, Fits
<1>2. CASE StoreFileUrl(a) /\ OwnsRow(a)
  <2>1. Becomes(a, "index", attempt[a].archived, attempt[a].upserted, attempt[a].kind, attempt[a].ok)
    BY <1>2, GotoIs DEF StoreFileUrl, Pc
  <2>2. /\ attempt[a].pc = "store" /\ source' = [source EXCEPT !.file_url = a]
        /\ source.state = "present"
        /\ UNCHANGED <<vector, file, task, runner, deleter, events>>
    BY <1>2 DEF StoreFileUrl, OwnsRow
  <2>3. /\ attempt[a].kind = "vectors" /\ ~Recorded(a, "vectors") /\ ~Recorded(a, "s3")
        /\ a \in file
    BY <2>2 DEF Fits, TaskFits, FilesFit, WorkPc
  <2>4. source' \in SourceRow /\ source'.state = source.state /\ source'.file_url = a
    BY <1>0, <2>2 DEF SourceRow
  <2>5. TypeOK'
    BY <2>1, <2>2, <2>4 DEF TypeOK, Becomes
  <2>6. \A b \in Attempt \ {a} : Apart(b) /\ RowCalm(b)
    BY <2>1, <2>2, <2>4 DEF Apart, RowCalm, Becomes, Left, Exists
  <2>7. \A k \in Kind : ~Recorded(a, k) /\ ~Recorded(a, k)'
    BY <1>0, <2>2, <2>3 DEF Recorded
  <2>8. TaskFits(a)'
    BY <1>0, <2>1, <2>3, <2>7 DEF TaskFits, Becomes, CleanPc
  <2>9. FilesFit(a)'
    BY <1>0, <2>1, <2>2, <2>3, <2>4, <2>7 DEF Fits, FilesFit, Becomes
  <2>10. LedgerFits(a)'
    BY <1>0, <2>7 DEF LedgerFits, Recorded
  <2>11. AttemptFits(a)'
    BY <2>1 DEF AttemptFits, Becomes, HoldPc
  <2>12. BatchLeft(a)'
    BY <2>1, <2>2 DEF Fits, BatchLeft, Becomes, BeforeLast
  <2> QED BY <2>2, <2>4, <2>5, <2>6, <2>7, <2>8, <2>9, <2>10, <2>11, <2>12 DEF Keeps, Fits
<1>3. CASE StoreFileUrl(a) /\ ~OwnsRow(a)
  <2>1. Ingests(a)
    BY <1>0, <1>3 DEF StoreFileUrl, Ingests
  <2> QED BY <1>3, <2>1, CompensateKeeps DEF StoreFileUrl, WorkPc
<1>4. CASE Upsert(a)
  <2> DEFINE c == attempt[a].upserted + 1
  <2>1. /\ attempt[a].pc = "upsert" /\ vector' = [vector EXCEPT ![c] = a]
        /\ attempt' = [attempt EXCEPT ![a].upserted = c,
                                      ![a].pc = IF c = Chunks THEN "last" ELSE "index"]
        /\ UNCHANGED <<source, file, task, runner, deleter, events>>
    BY <1>4 DEF Upsert
  <2>2. /\ attempt[a].kind = "vectors" /\ ~Recorded(a, "vectors") /\ ~Recorded(a, "s3")
        /\ a \in file => attempt[a].archived \/ "answer" \in events
        /\ attempt[a].upserted < Chunks
    BY <2>1 DEF Fits, TaskFits, FilesFit, BatchLeft, WorkPc, BeforeLast
  <2>3. attempt[a].upserted \in 0 .. Chunks
    BY <1>0, TypedFields, Fields
  <2>4. c \in Chunk /\ c \in 0 .. Chunks
    BY <2>2, <2>3, ChunksAssumption DEF Chunk
  <2>5. PICK pc \in {"last", "index"} :
          /\ pc = "index" => c # Chunks
          /\ Becomes(a, pc, attempt[a].archived, c, attempt[a].kind, attempt[a].ok)
    <3>1. CASE c = Chunks
      <4>1. attempt' = [attempt EXCEPT ![a].upserted = c, ![a].pc = "last"]
        BY <2>1, <3>1
      <4> QED BY <2>4, <3>1, <4>1, UpsertIs DEF Pc
    <3>2. CASE c # Chunks
      <4>1. attempt' = [attempt EXCEPT ![a].upserted = c, ![a].pc = "index"]
        BY <2>1, <3>2
      <4> QED BY <2>4, <3>2, <4>1, UpsertIs DEF Pc
    <3> QED BY <3>1, <3>2
  <2>6. /\ vector' \in [Chunk -> Attempt \cup {None}]
        /\ \A b \in Attempt \ {a}, k \in Kind : Left(b, k)' => Left(b, k)
    BY <1>0, <2>1, <2>4 DEF TypeOK, Left
  <2>7. TypeOK'
    BY <2>1, <2>5, <2>6 DEF TypeOK, Becomes
  <2>8. \A b \in Attempt \ {a} : Apart(b) /\ RowCalm(b)
    BY <2>1, <2>5, <2>6 DEF Apart, RowCalm, Becomes, Exists
  <2>9. \A k \in Kind : ~Recorded(a, k) /\ ~Recorded(a, k)'
    BY <1>0, <2>1, <2>2 DEF Recorded
  <2>10. TaskFits(a)'
    BY <1>0, <2>2, <2>5, <2>9 DEF TaskFits, Becomes, CleanPc
  <2>11. FilesFit(a)'
    BY <1>0, <2>1, <2>2, <2>5, <2>9 DEF Fits, FilesFit, Becomes, Unresolved
  <2>12. LedgerFits(a)'
    BY <1>0, <2>9 DEF LedgerFits, Recorded
  <2>13. AttemptFits(a)'
    BY <2>5 DEF AttemptFits, Becomes, HoldPc
  <2>14. BatchLeft(a)'
    <3>1. CASE pc = "last"
      BY <2>5, <3>1 DEF BatchLeft, Becomes, BeforeLast
    <3>2. CASE pc = "index"
      BY <2>4, <2>5, <3>2, ChunksAssumption DEF BatchLeft, Becomes
    <3> QED BY <2>5, <3>1, <3>2
  <2> QED BY <2>1, <2>7, <2>8, <2>9, <2>10, <2>11, <2>12, <2>13, <2>14 DEF Keeps, Fits
<1>5. CASE Heartbeat(a)
  <2>1. /\ source' = [source EXCEPT !.live = TRUE]
        /\ UNCHANGED <<vector, file, task, attempt, runner, deleter, events>>
    BY <1>5 DEF Heartbeat
  <2>2. source' \in SourceRow /\ source'.state = source.state /\ source'.file_url = source.file_url
    BY <1>0, <2>1 DEF SourceRow
  <2>3. TypeOK'
    BY <2>1, <2>2 DEF TypeOK
  <2>4. \A b \in Attempt : Apart(b) /\ RowCalm(b)
    BY <2>1, <2>2 DEF Apart, RowCalm, Left, Exists
  <2>5. Fits(a)'
    BY <1>0, <2>1, <2>4, ApartFits
  <2> QED BY <2>1, <2>2, <2>3, <2>4, <2>5, ApartLeaves DEF Keeps
<1> QED BY <1>1, <1>2, <1>3, <1>4, <1>5

-----------------------------------------------------------------------------
(* The steps that take back what a failed attempt left. *)

\* What a's records say afterwards.
LEMMA RecordsSay ==
  ASSUME NEW a \in Attempt, NEW k \in Kind, NEW state, NEW by, NEW leased,
         Records(a, k, state, by, leased)
  PROVE  /\ \A j \in Kind \ {k} : /\ task'[a][j] = task[a][j]
                                  /\ Recorded(a, j)' <=> Recorded(a, j)
                                  /\ Unresolved(a, j)' <=> Unresolved(a, j)
         /\ Recorded(a, k)' <=> state # "none"
         /\ Unresolved(a, k)' <=> state \in {"pending", "failed"}
         /\ \A b \in Attempt \ {a} : task'[b] = task[b]
<1>1. \A j \in Kind \ {k} : task'[a][j] = task[a][j]
  BY DEF Records
<1>2. \A j \in Kind \ {k} : /\ Recorded(a, j)' <=> Recorded(a, j)
                            /\ Unresolved(a, j)' <=> Unresolved(a, j)
  BY <1>1 DEF Recorded, Unresolved
<1>3. Recorded(a, k)' <=> state # "none"
  BY DEF Records, Recorded
<1>4. Unresolved(a, k)' <=> state \in {"pending", "failed"}
  BY DEF Records, Unresolved
<1> QED BY <1>1, <1>2, <1>3, <1>4 DEF Records

LEMMA RecordKeeps ==
  ASSUME TypeOK, NEW a \in Attempt, Fits(a), RecordPending(a)
  PROVE  Keeps(a)
<1> PICK k \in Kind : k = attempt[a].kind
  BY TypedFields
<1>0. /\ source \in SourceRow /\ Kind = {"vectors", "s3"}
      /\ a \in Claimant /\ None \notin Attempt
  BY TypedFields DEF TypeOK
<1>1. /\ attempt[a].pc = "record"
      /\ Becomes(a, "claim", attempt[a].archived, attempt[a].upserted, k, attempt[a].ok)
      /\ Records(a, k, "pending", task[a][k].claimed_by, task[a][k].leased)
      /\ UNCHANGED <<vector, file, runner, deleter, events>>
  BY <1>0, GotoIs, StateIs DEF RecordPending, Pc
<1>2. /\ source' \in SourceRow /\ source'.state = source.state
      /\ source'.file_url = source.file_url
  BY <1>0 DEF RecordPending, SourceRow
<1>3. /\ "write" \notin events => ~Recorded(a, k)
      /\ k = "vectors" => "write" \in events \/ ~Recorded(a, "s3")
      /\ a \in file => attempt[a].archived \/ "answer" \in events
      /\ source.state = "present" /\ source.file_url = a /\ a \notin file => Unresolved(a, "s3")
  BY <1>1 DEF Fits, TaskFits, FilesFit
<1>4. /\ \A j \in Kind \ {k} : /\ Recorded(a, j)' <=> Recorded(a, j)
                               /\ Unresolved(a, j)' <=> Unresolved(a, j)
                               /\ task'[a][j] = task[a][j]
      /\ Recorded(a, k)' /\ Unresolved(a, k)'
      /\ \A b \in Attempt \ {a} : task'[b] = task[b]
  BY <1>0, <1>1, RecordsSay
<1>5. TypeOK'
  BY <1>1, <1>2 DEF TypeOK, Becomes, Records
<1>6. \A b \in Attempt, j \in Kind : Left(b, j)' <=> Left(b, j)
  BY <1>1 DEF Left
<1>7. \A b \in Attempt \ {a} : Apart(b) /\ RowCalm(b)
  BY <1>1, <1>2, <1>4, <1>6 DEF Apart, RowCalm, Becomes, Exists
<1>8. \A r \in Runner, j \in Kind : Recorded(a, j) => Leaves(r, a, j)
  <2> SUFFICES ASSUME NEW r \in Runner, NEW j \in Kind, Recorded(a, j)
               PROVE  Leaves(r, a, j)
    OBVIOUS
  <2>1. CASE j # k
    BY <1>4, <1>6, <2>1 DEF Leaves
  <2>2. CASE j = k
    BY <1>1, <1>4, <1>6, <2>2 DEF Leaves, Records
  <2> QED BY <2>1, <2>2
<1>9. TaskFits(a)'
  BY <1>0, <1>1, <1>3, <1>4 DEF TaskFits, Becomes, WorkPc
<1>10. FilesFit(a)'
  BY <1>0, <1>1, <1>2, <1>3, <1>4 DEF FilesFit, Becomes
<1>11. LedgerFits(a)'
  BY <1>0, <1>1, <1>2, <1>3, <1>4, <1>6 DEF Fits, LedgerFits, Unresolved, Exists
<1>12. AttemptFits(a)'
  BY <1>1 DEF AttemptFits, Becomes, HoldPc
<1>13. BatchLeft(a)'
  BY <1>1 DEF BatchLeft, Becomes, BeforeLast
<1> QED BY <1>1, <1>2, <1>5, <1>7, <1>8, <1>9, <1>10, <1>11, <1>12, <1>13 DEF Keeps, Fits

\* A claimant's call of a store takes what is a's, and once answered it has.
LEMMA CallsTake ==
  ASSUME TypeOK, NEW a \in Attempt, NEW k \in Kind, NEW ok \in BOOLEAN, Calls(a, k, ok)
  PROVE  /\ vector' \in [Chunk -> Attempt \cup {None}]
         /\ file' \subseteq Attempt
         /\ \A b \in Attempt, j \in Kind : Left(b, j)' => Left(b, j)
         /\ ok /\ ~VectorsUnasked(k) => ~Left(a, k)'
         /\ \A b \in Attempt : b \in file => b \in file' \/ (b = a /\ k = "s3")
<1>0. /\ vector \in [Chunk -> Attempt \cup {None}] /\ file \subseteq Attempt
      /\ None \notin Attempt
  BY NamesAssumption DEF TypeOK
<1>1. CASE DeleteArtifact(a, k) /\ k = "vectors"
  <2>1. /\ vector' = [c \in Chunk |-> IF vector[c] = a THEN None ELSE vector[c]]
        /\ file' = file
    BY <1>1 DEF DeleteArtifact
  <2>2. \A c \in Chunk : vector'[c] # a /\ vector'[c] \in {None, vector[c]}
    BY <1>0, <2>1
  <2> QED BY <1>0, <1>1, <2>1, <2>2 DEF Left
<1>2. CASE DeleteArtifact(a, k) /\ k # "vectors"
  <2>1. file' = file \ {a} /\ vector' = vector /\ k = "s3"
    BY <1>2 DEF DeleteArtifact, Kind
  <2> QED BY <1>0, <2>1 DEF Left
<1>3. CASE (ok => VectorsUnasked(k)) /\ UNCHANGED <<vector, file>>
  BY <1>0, <1>3 DEF Left
<1> QED BY <1>1, <1>2, <1>3 DEF Calls

LEMMA LeftIsUnresolved ==
  ASSUME TypeOK, NEW a \in Attempt, NEW k \in Kind, LedgerFits(a), Recorded(a, k)
  PROVE  /\ Left(a, k) /\ ~VectorsUnasked(k) => Unresolved(a, k)
         /\ Unresolved(a, k) \/ task[a][k].state = "resolved"
  BY TaskFields DEF LedgerFits, Recorded, Unresolved

\* The next kind of artifact, or the end.
LEMMA NextKindFits ==
  ASSUME TypeOK, NEW a \in Attempt, Fits(a), attempt[a].pc \in CleanPc, NextKind(a),
         UNCHANGED <<source, file, vector, events>>,
         \A k \in Kind : task'[a][k].state = task[a][k].state
  PROVE  /\ Fits(a)'
         /\ attempt' \in [Attempt -> AttemptState]
         /\ \A b \in Attempt \ {a} : attempt'[b] = attempt[b]
<1>0. attempt[a].kind \in Kind /\ Kind = {"vectors", "s3"}
  BY TypedFields
<1>1. PICK pc \in {"record", "leave"}, kind \in Kind :
        /\ Becomes(a, pc, attempt[a].archived, attempt[a].upserted, kind, FALSE)
        /\ pc = "record" => attempt[a].kind = "vectors" /\ kind = "s3"
        /\ pc = "leave" => attempt[a].kind = "s3" \/ ~attempt[a].archived
  BY <1>0, NextKindIs
<1>2. \A k \in Kind : /\ Recorded(a, k)' <=> Recorded(a, k)
                      /\ Unresolved(a, k)' <=> Unresolved(a, k)
                      /\ Left(a, k)' <=> Left(a, k)
  BY DEF Recorded, Unresolved, Left
<1>3. /\ Recorded(a, attempt[a].kind)
      /\ attempt[a].kind = "vectors" => "write" \in events \/ ~Recorded(a, "s3")
      /\ a \in file => attempt[a].archived \/ "answer" \in events
      /\ source.state = "present" /\ source.file_url = a /\ a \notin file => Unresolved(a, "s3")
  BY DEF Fits, TaskFits, FilesFit, CleanPc
<1>4. TaskFits(a)'
  BY <1>0, <1>1, <1>2, <1>3 DEF TaskFits, Becomes, WorkPc, CleanPc
<1>5. FilesFit(a)'
  BY <1>0, <1>1, <1>2, <1>3 DEF FilesFit, Becomes
<1>6. LedgerFits(a)'
  BY <1>0, <1>2 DEF Fits, LedgerFits, Exists
<1>7. AttemptFits(a)'
  BY <1>1 DEF AttemptFits, Becomes, HoldPc
<1>8. BatchLeft(a)'
  BY <1>1 DEF BatchLeft, Becomes, BeforeLast
<1> QED BY <1>1, <1>4, <1>5, <1>6, <1>7, <1>8 DEF Fits, Becomes

\* A step of the clean-up keeps the others apart.
LEMMA CleanKeeps ==
  ASSUME TypeOK, TypeOK', NEW a \in Attempt, Fits(a)',
         \A b \in Attempt \ {a} : attempt'[b] = attempt[b] /\ task'[b] = task[b],
         \A b \in Attempt, j \in Kind : Left(b, j)' => Left(b, j),
         \A b \in Attempt \ {a} : b \in file => b \in file',
         source'.state = source.state, source'.file_url \in {source.file_url, None},
         \A r \in Runner, j \in Kind : Recorded(a, j) => Leaves(r, a, j),
         UNCHANGED <<runner, deleter, events>>
  PROVE  Keeps(a)
  BY NamesAssumption DEF Keeps, Apart, RowCalm, Exists

LEMMA ClaimKeeps ==
  ASSUME TypeOK, NEW a \in Attempt, Fits(a), ClaimDirect(a)
  PROVE  Keeps(a)
<1> PICK k \in Kind : k = attempt[a].kind
  BY TypedFields
<1>0. /\ Kind = {"vectors", "s3"} /\ a \in Claimant /\ a \notin Runner
      /\ attempt[a].pc = "claim" /\ UNCHANGED <<source, vector, file, runner, deleter, events>>
  BY TypedFields DEF ClaimDirect
<1>1. \A b \in Attempt, j \in Kind : Left(b, j)' <=> Left(b, j)
  BY <1>0 DEF Left
<1>2. CASE Claimable(a, k)
  <2>1. /\ Becomes(a, "delete", attempt[a].archived, attempt[a].upserted, k, attempt[a].ok)
        /\ Records(a, k, task[a][k].state, a, TRUE)
    BY <1>0, <1>2, GotoIs, ClaimsIs DEF ClaimDirect, Pc
  <2>2. /\ \A j \in Kind \ {k} : task'[a][j] = task[a][j]
        /\ \A j \in Kind : /\ Recorded(a, j)' <=> Recorded(a, j)
                           /\ Unresolved(a, j)' <=> Unresolved(a, j)
                           /\ task'[a][j].state = task[a][j].state
        /\ \A b \in Attempt \ {a} : task'[b] = task[b]
    BY <2>1 DEF Records, Recorded, Unresolved
  <2>3. Unresolved(a, k) /\ ~task[a][k].leased
    BY <1>2 DEF Claimable
  <2>4. /\ Recorded(a, k)
        /\ k = "vectors" => "write" \in events \/ ~Recorded(a, "s3")
        /\ a \in file => attempt[a].archived \/ "answer" \in events
    BY <1>0 DEF Fits, TaskFits, FilesFit, CleanPc
  <2>5. TypeOK'
    BY <1>0, <2>1 DEF TypeOK, Becomes, Records
  <2>6. TaskFits(a)'
    BY <1>0, <2>1, <2>2, <2>4 DEF TaskFits, Becomes, WorkPc
  <2>7. FilesFit(a)'
    BY <1>0, <2>1, <2>2, <2>4 DEF Fits, FilesFit, Becomes
  <2>8. LedgerFits(a)'
    BY <1>0, <1>1, <2>2 DEF Fits, LedgerFits, Exists
  <2>9. AttemptFits(a)'
    BY <1>0, <2>1, <2>2, <2>3 DEF AttemptFits, ClaimFits, Becomes, Records
  <2>10. BatchLeft(a)'
    BY <2>1 DEF BatchLeft, Becomes, BeforeLast
  <2>11. \A r \in Runner, j \in Kind : Recorded(a, j) => Leaves(r, a, j)
    <3> SUFFICES ASSUME NEW r \in Runner, NEW j \in Kind, Recorded(a, j)
                 PROVE  Leaves(r, a, j)
      OBVIOUS
    <3>1. CASE j = k
      BY <1>0, <1>1, <2>1, <2>2, <2>3, <3>1 DEF Leaves, Records
    <3>2. CASE j # k
      BY <1>0, <1>1, <2>2, <3>2 DEF Leaves
    <3> QED BY <3>1, <3>2
  <2> QED BY <1>0, <1>1, <2>1, <2>2, <2>5, <2>6, <2>7, <2>8, <2>9, <2>10, <2>11, CleanKeeps
       DEF Fits, Becomes
<1>3. CASE ~Claimable(a, k)
  <2>1. NextKind(a) /\ task' = task
    BY <1>3 DEF ClaimDirect
  <2>2. /\ Fits(a)' /\ attempt' \in [Attempt -> AttemptState]
        /\ \A b \in Attempt \ {a} : attempt'[b] = attempt[b]
    BY <1>0, <2>1, NextKindFits DEF CleanPc
  <2>3. TypeOK'
    BY <1>0, <2>1, <2>2 DEF TypeOK
  <2>4. \A r \in Runner, j \in Kind : Recorded(a, j) => Leaves(r, a, j)
    BY <1>1, <2>1 DEF Leaves, Recorded, Unresolved
  <2> QED BY <1>0, <1>1, <2>1, <2>2, <2>3, <2>4, CleanKeeps
<1> QED BY <1>2, <1>3

LEMMA DeleteKeeps ==
  ASSUME TypeOK, NEW a \in Attempt, Fits(a), DeleteDirect(a)
  PROVE  Keeps(a)
<1> PICK k \in Kind : k = attempt[a].kind
  BY TypedFields
<1>0. /\ Kind = {"vectors", "s3"}
      /\ attempt[a].pc = "delete" /\ UNCHANGED <<source, task, runner, deleter, events>>
  BY TypedFields DEF DeleteDirect
<1>1. PICK ok \in BOOLEAN :
        /\ Calls(a, k, ok)
        /\ attempt' = [attempt EXCEPT ![a].ok = ok,
                         ![a].pc = IF ok /\ attempt[a].kind = "s3" THEN "clear" ELSE "resolve"]
  BY DEF DeleteDirect
<1>2. PICK pc \in {"clear", "resolve"} :
        /\ pc = "clear" => k = "s3"
        /\ Becomes(a, pc, attempt[a].archived, attempt[a].upserted, k, ok)
  BY <1>1, AnswerIs DEF Pc
<1>3. /\ vector' \in [Chunk -> Attempt \cup {None}]
      /\ file' \subseteq Attempt
      /\ \A b \in Attempt, j \in Kind : Left(b, j)' => Left(b, j)
      /\ ok /\ ~VectorsUnasked(k) => ~Left(a, k)'
      /\ \A b \in Attempt : b \in file => b \in file' \/ (b = a /\ k = "s3")
  BY <1>1, CallsTake
<1>4. /\ Recorded(a, k)
      /\ k = "vectors" => "write" \in events \/ ~Recorded(a, "s3")
      /\ a \in file => attempt[a].archived \/ "answer" \in events
      /\ source.state = "present" /\ source.file_url = a /\ a \notin file => Unresolved(a, "s3")
      /\ task[a][k].claimed_by = a => Unresolved(a, k)
      /\ "stall" \notin events => task[a][k].claimed_by = a /\ task[a][k].leased
  BY <1>0 DEF Fits, TaskFits, FilesFit, AttemptFits, ClaimFits, CleanPc, HoldPc
<1>5. \A j \in Kind : /\ Recorded(a, j)' <=> Recorded(a, j)
                      /\ Unresolved(a, j)' <=> Unresolved(a, j)
  BY <1>0 DEF Recorded, Unresolved
<1>6. TypeOK'
  BY <1>0, <1>2, <1>3 DEF TypeOK, Becomes
<1>7. TaskFits(a)'
  BY <1>0, <1>2, <1>4, <1>5 DEF TaskFits, Becomes, WorkPc
<1>8. FilesFit(a)'
  <2>1. a \in file' => a \in file
    BY <1>0, <1>3 DEF Left
  <2>2. a \in file /\ a \notin file' => Unresolved(a, "s3")
    BY <1>0, <1>3, <1>4, LeftIsUnresolved DEF Fits, Left
  <2> QED BY <1>0, <1>2, <1>4, <1>5, <2>1, <2>2 DEF FilesFit, Becomes
<1>9. LedgerFits(a)'
  BY <1>0, <1>3 DEF Fits, LedgerFits, Exists
<1>10. AttemptFits(a)'
  BY <1>0, <1>2, <1>3, <1>4, <1>5 DEF AttemptFits, ClaimFits, Becomes
<1>11. BatchLeft(a)'
  BY <1>2 DEF BatchLeft, Becomes, BeforeLast
<1>12. \A r \in Runner, j \in Kind : Recorded(a, j) => Leaves(r, a, j)
  BY <1>0, <1>3, <1>5 DEF Leaves
<1> QED BY <1>0, <1>2, <1>3, <1>6, <1>7, <1>8, <1>9, <1>10, <1>11, <1>12, CleanKeeps
     DEF Fits, Becomes

LEMMA ClearKeeps ==
  ASSUME TypeOK, NEW a \in Attempt, Fits(a), ClearFileUrl(a)
  PROVE  Keeps(a)
<1> PICK k \in Kind : k = attempt[a].kind
  BY TypedFields
<1>0. /\ Kind = {"vectors", "s3"} /\ source \in SourceRow /\ None \notin Attempt
      /\ attempt[a].pc = "clear" /\ UNCHANGED <<vector, file, task, runner, deleter, events>>
  BY TypedFields DEF ClearFileUrl, TypeOK
<1>1. Becomes(a, "resolve", attempt[a].archived, attempt[a].upserted, k, attempt[a].ok)
  BY <1>0, GotoIs DEF ClearFileUrl, Pc
<1>2. /\ source' \in SourceRow /\ source'.state = source.state
      /\ source'.file_url \in {source.file_url, None}
  BY <1>0 DEF ClearFileUrl, SourceRow
<1>3. \A b \in Attempt, j \in Kind : /\ Left(b, j)' <=> Left(b, j)
                                     /\ Recorded(b, j)' <=> Recorded(b, j)
                                     /\ Unresolved(b, j)' <=> Unresolved(b, j)
  BY <1>0 DEF Left, Recorded, Unresolved
<1>4. TypeOK'
  BY <1>0, <1>1, <1>2 DEF TypeOK, Becomes
<1>5. TaskFits(a)'
  BY <1>0, <1>1, <1>3 DEF Fits, TaskFits, Becomes, WorkPc, CleanPc
<1>6. FilesFit(a)'
  BY <1>0, <1>1, <1>2, <1>3 DEF Fits, FilesFit, Becomes
<1>7. LedgerFits(a)'
  BY <1>0, <1>2, <1>3 DEF Fits, LedgerFits, Exists
<1>8. AttemptFits(a)'
  BY <1>0, <1>1, <1>3 DEF Fits, AttemptFits, ClaimFits, Becomes, HoldPc
<1>9. BatchLeft(a)'
  BY <1>1 DEF BatchLeft, Becomes, BeforeLast
<1>10. \A r \in Runner, j \in Kind : Recorded(a, j) => Leaves(r, a, j)
  BY <1>0, <1>3 DEF Leaves
<1> QED BY <1>0, <1>1, <1>2, <1>3, <1>4, <1>5, <1>6, <1>7, <1>8, <1>9, <1>10, CleanKeeps
     DEF Fits, Becomes

\* The transaction that clears the key raises: the attempt's clean-up ends, or
\* starts over with its vectors.
LEMMA RaiseKeeps ==
  ASSUME TypeOK, NEW a \in Attempt, Fits(a), ClearRaises(a)
  PROVE  Keeps(a)
<1>0. /\ Kind = {"vectors", "s3"} /\ "write" \in events
      /\ attempt[a].pc = "clear" /\ UNCHANGED <<source, vector, file, task, runner, deleter, events>>
  BY TypedFields DEF ClearRaises
<1>1. PICK pc \in {"record", "leave"}, archived \in BOOLEAN :
        /\ Becomes(a, pc, archived, 0, "vectors", FALSE)
        /\ pc = "record" => archived = attempt[a].archived
  <2>1. CASE attempt[a].handler
    BY <2>1, EndsIs DEF ClearRaises, Pc
  <2>2. CASE ~attempt[a].handler
    <3>1. Becomes(a, "record", attempt[a].archived, 0, "vectors", FALSE)
      BY <2>2, CompensateIs DEF ClearRaises
    <3>2. attempt[a].archived \in BOOLEAN
      BY TypedFields, Fields
    <3> QED BY <3>1, <3>2
  <2> QED BY <2>1, <2>2
<1>2. \A b \in Attempt, j \in Kind : /\ Left(b, j)' <=> Left(b, j)
                                     /\ Recorded(b, j)' <=> Recorded(b, j)
                                     /\ Unresolved(b, j)' <=> Unresolved(b, j)
  BY <1>0 DEF Left, Recorded, Unresolved
<1>3. /\ Recorded(a, "s3")
      /\ a \in file => attempt[a].archived \/ "answer" \in events
      /\ source.state = "present" /\ source.file_url = a /\ a \notin file => Unresolved(a, "s3")
  BY <1>0 DEF Fits, TaskFits, FilesFit, CleanPc
<1>4. TypeOK'
  BY <1>0, <1>1 DEF TypeOK, Becomes
<1>5. TaskFits(a)'
  BY <1>0, <1>1 DEF TaskFits, Becomes, WorkPc, CleanPc
<1>6. FilesFit(a)'
  BY <1>0, <1>1, <1>2, <1>3 DEF FilesFit, Becomes
<1>7. LedgerFits(a)'
  BY <1>0, <1>2 DEF Fits, LedgerFits, Exists
<1>8. AttemptFits(a)'
  BY <1>1 DEF AttemptFits, Becomes, HoldPc
<1>9. BatchLeft(a)'
  BY <1>1 DEF BatchLeft, Becomes, BeforeLast
<1>10. \A r \in Runner, j \in Kind : Recorded(a, j) => Leaves(r, a, j)
  BY <1>0, <1>2 DEF Leaves
<1>11. \A b \in Attempt \ {a} : attempt'[b] = attempt[b] /\ task'[b] = task[b]
  BY <1>0, <1>1 DEF Becomes
<1> QED BY <1>0, <1>2, <1>4, <1>5, <1>6, <1>7, <1>8, <1>9, <1>10, <1>11, CleanKeeps DEF Fits

LEMMA ResolveKeeps ==
  ASSUME TypeOK, NEW a \in Attempt, Fits(a), ResolveDirect(a)
  PROVE  Keeps(a)
<1> PICK k \in Kind : k = attempt[a].kind
  BY TypedFields
<1> PICK ok \in BOOLEAN : ok = attempt[a].ok
  BY TypedFields, Fields
<1>0. /\ Kind = {"vectors", "s3"} /\ source \in SourceRow /\ None \notin Attempt
      /\ a \in Claimant /\ a \notin Runner
      /\ attempt[a].pc = "resolve" /\ UNCHANGED <<vector, file, runner, deleter, events>>
  BY TypedFields DEF ResolveDirect, TypeOK
<1>1. /\ Becomes(a, "release", attempt[a].archived, attempt[a].upserted, k, ok)
      /\ Resolves(a, k, a, ok)
  BY <1>0, GotoIs DEF ResolveDirect, Pc
<1>2. \/ task[a][k].claimed_by # a /\ task' = task /\ source' = source
      \/ /\ task[a][k].claimed_by = a
         /\ Records(a, k, IF ok THEN "resolved" ELSE "failed", a, task[a][k].leased)
         /\ source' \in SourceRow
         /\ source'.state = source.state
         /\ source'.file_url = source.file_url \/ source'.file_url = None
         /\ Exists /\ ok /\ k = "s3" => source'.file_url # a
  BY <1>0, <1>1, ResolvesIs
<1>3. /\ Recorded(a, k)
      /\ k = "vectors" => "write" \in events \/ ~Recorded(a, "s3")
      /\ a \in file => attempt[a].archived \/ "answer" \in events
      /\ source.state = "present" /\ source.file_url = a /\ a \notin file => Unresolved(a, "s3")
      /\ ok /\ ~VectorsUnasked(k) => ~Left(a, k)
      /\ "stall" \notin events => task[a][k].claimed_by = a /\ task[a][k].leased
  BY <1>0 DEF Fits, TaskFits, FilesFit, AttemptFits, ClaimFits, CleanPc, HoldPc
<1>4. /\ source' \in SourceRow /\ source'.state = source.state
      /\ source'.file_url \in {source.file_url, None}
      /\ task' \in [Attempt -> [Kind -> Task]]
      /\ \A b \in Attempt \ {a} : task'[b] = task[b]
  BY <1>0, <1>2 DEF Records, TypeOK
<1>5. /\ \A b \in Attempt, j \in Kind : Left(b, j)' <=> Left(b, j)
      /\ \A j \in Kind : Recorded(a, j)' <=> Recorded(a, j)
  <2>1. \A b \in Attempt, j \in Kind : Left(b, j)' <=> Left(b, j)
    BY <1>0 DEF Left
  <2>2. \A j \in Kind : Recorded(a, j)' <=> Recorded(a, j)
    BY <1>2, <1>3 DEF Records, Recorded
  <2> QED BY <2>1, <2>2
<1>6. /\ \A j \in Kind \ {k} : task'[a][j] = task[a][j]
      /\ task'[a][k].claimed_by = task[a][k].claimed_by
      /\ task'[a][k].leased = task[a][k].leased
  BY <1>2 DEF Records
<1>7. \/ task'[a][k] = task[a][k] /\ source' = source
      \/ /\ task[a][k].claimed_by = a
         /\ task'[a][k].state = IF ok THEN "resolved" ELSE "failed"
         /\ Exists /\ ok /\ k = "s3" => source'.file_url # a
  BY <1>2 DEF Records
<1>8. TypeOK'
  BY <1>0, <1>1, <1>4 DEF TypeOK, Becomes
<1>9. TaskFits(a)'
  BY <1>0, <1>1, <1>3, <1>5 DEF TaskFits, Becomes, WorkPc
<1>10. FilesFit(a)'
  <2>1. source'.state = "present" /\ source'.file_url = a /\ a \notin file' => Unresolved(a, "s3")'
    <3>1. CASE k = "s3" /\ task'[a][k] # task[a][k]
      BY <1>0, <1>4, <1>7, <3>1 DEF Unresolved, Exists
    <3>2. CASE k # "s3" \/ task'[a][k] = task[a][k]
      <4>1. task'[a]["s3"] = task[a]["s3"]
        BY <1>0, <1>6, <3>2
      <4> QED BY <1>0, <1>3, <1>4, <4>1 DEF Unresolved
    <3> QED BY <3>1, <3>2
  <2> QED BY <1>0, <1>1, <1>3, <1>5, <2>1 DEF FilesFit, Becomes
<1>11. LedgerFits(a)'
  <2>1. ASSUME NEW j \in Kind, task'[a][j].state = "resolved", ~VectorsUnasked(j)
        PROVE  ~Left(a, j)'
    BY <1>3, <1>5, <1>6, <1>7, <2>1 DEF Fits, LedgerFits
  <2>2. task'[a]["s3"].state = "resolved" /\ source'.state # "gone" => source'.file_url # a
    BY <1>0, <1>4, <1>6, <1>7 DEF Fits, LedgerFits, Exists
  <2> QED BY <1>0, <2>1, <2>2 DEF LedgerFits, Exists
<1>12. AttemptFits(a)'
  BY <1>0, <1>1, <1>3, <1>6 DEF AttemptFits, ClaimFits, Becomes
<1>13. BatchLeft(a)'
  BY <1>1 DEF BatchLeft, Becomes, BeforeLast
<1>14. \A r \in Runner, j \in Kind : Recorded(a, j) => Leaves(r, a, j)
  <2> SUFFICES ASSUME NEW r \in Runner, NEW j \in Kind, Recorded(a, j)
               PROVE  Leaves(r, a, j)
    OBVIOUS
  <2>1. task'[a][j] = task[a][j] \/ (j = k /\ task[a][j].claimed_by = a)
    BY <1>6, <1>7
  <2>2. /\ task'[a][j].claimed_by = task[a][j].claimed_by
        /\ task'[a][j].leased = task[a][j].leased
    BY <1>6
  <2> QED BY <1>0, <1>5, <2>1, <2>2 DEF Leaves, Unresolved
<1> QED BY <1>0, <1>1, <1>4, <1>5, <1>8, <1>9, <1>10, <1>11, <1>12, <1>13, <1>14, CleanKeeps
     DEF Fits, Becomes

LEMMA ReleaseKeeps ==
  ASSUME TypeOK, NEW a \in Attempt, Fits(a), ReleaseDirect(a)
  PROVE  Keeps(a)
<1> PICK k \in Kind : k = attempt[a].kind
  BY TypedFields
<1>0. /\ a \in Claimant /\ a \notin Runner
      /\ attempt[a].pc = "release" /\ UNCHANGED <<source, vector, file, runner, deleter, events>>
      /\ NextKind(a)
  BY TypedFields DEF ReleaseDirect
<1>1. \/ task' = task
      \/ task[a][k].claimed_by = a /\ Records(a, k, task[a][k].state, None, FALSE)
  BY <1>0, ReleasesIs DEF ReleaseDirect
<1>2. /\ task' \in [Attempt -> [Kind -> Task]]
      /\ \A b \in Attempt \ {a} : task'[b] = task[b]
      /\ \A j \in Kind : task'[a][j].state = task[a][j].state
      /\ \A j \in Kind : \/ task'[a][j] = task[a][j]
                         \/ task[a][j].claimed_by = a /\ task'[a][j].claimed_by = None
  BY <1>1 DEF Records, TypeOK
<1>3. /\ Fits(a)' /\ attempt' \in [Attempt -> AttemptState]
      /\ \A b \in Attempt \ {a} : attempt'[b] = attempt[b]
  BY <1>0, <1>2, NextKindFits DEF CleanPc
<1>4. TypeOK'
  BY <1>0, <1>2, <1>3 DEF TypeOK
<1>5. \A b \in Attempt, j \in Kind : Left(b, j)' <=> Left(b, j)
  BY <1>0 DEF Left
<1>6. \A r \in Runner, j \in Kind : Recorded(a, j) => Leaves(r, a, j)
  <2> SUFFICES ASSUME NEW r \in Runner, NEW j \in Kind, Recorded(a, j)
               PROVE  Leaves(r, a, j)
    OBVIOUS
  <2>1. r # None /\ r # a
    BY <1>0, NamesAssumption
  <2> QED BY <1>2, <1>5, <2>1 DEF Leaves, Recorded, Unresolved
<1> QED BY <1>0, <1>2, <1>3, <1>4, <1>5, <1>6, CleanKeeps

LEMMA AttemptKeeps ==
  ASSUME TypeOK, NEW a \in Attempt, Fits(a),
         AdmitWorkerAttempt(a) \/ Works(a) \/ Heartbeat(a) \/ Crash(a)
  PROVE  Keeps(a)
  BY WorkKeeps, SkipKeeps, StoreKeeps, RecordKeeps, ClaimKeeps, DeleteKeeps, ClearKeeps,
     RaiseKeeps, ResolveKeeps, ReleaseKeeps
  DEF Works, Compensation

-----------------------------------------------------------------------------
(* The steps of the runners. *)

\* What a step of runner r with a's artifact k must do.
RunnerStep(r, a, k) ==
  /\ TypeOK'
  /\ UNCHANGED <<attempt, deleter, events>>
  /\ \A b \in Attempt \ {a} : task'[b] = task[b]
  /\ \A j \in Kind \ {k} : task'[a][j] = task[a][j]
  /\ Recorded(a, k) /\ Recorded(a, k)'
  /\ \A b \in Attempt, j \in Kind : Left(b, j)' => Left(b, j)
  /\ \A b \in Attempt : b \in file => b \in file' \/ (b = a /\ k = "s3")
  /\ source'.state = source.state
  /\ source'.file_url \in {source.file_url, None}
  /\ \/ task'[a][k].state = task[a][k].state
     \/ Unresolved(a, k)'
     \/ (Left(a, k) => VectorsUnasked(k)) /\ (k = "s3" /\ Exists => source'.file_url # a)
  /\ \A x \in Claimant \ {r} : Leaves(x, a, k)
  /\ \A q \in Runner \ {r} : runner'[q] = runner[q]
  /\ RunnerFits(r)'

LEMMA RunnerStepFits ==
  ASSUME TypeOK, NEW r \in Runner, NEW a \in Attempt, NEW k \in Kind, Fits(a),
         RunnerStep(r, a, k)
  PROVE  Fits(a)'
<1>0. /\ Kind = {"vectors", "s3"} /\ a \in Claimant /\ a # r /\ attempt' = attempt
      /\ attempt[a].kind \in Kind /\ events' = events
  BY TypedFields DEF RunnerStep
<1>1. \A j \in Kind : Recorded(a, j)' <=> Recorded(a, j)
  BY DEF RunnerStep, Recorded
<1>2. TaskFits(a)'
  BY <1>0, <1>1 DEF Fits, TaskFits
<1>3. LedgerFits(a)'
  <2>1. ASSUME NEW j \in Kind, task'[a][j].state = "resolved", ~VectorsUnasked(j)
        PROVE  ~Left(a, j)'
    BY <2>1 DEF RunnerStep, Fits, LedgerFits, Unresolved
  <2>2. task'[a]["s3"].state = "resolved" /\ source'.state # "gone" => source'.file_url # a
    <3>1. source'.file_url # a \/ source'.file_url = source.file_url
      BY NamesAssumption DEF RunnerStep
    <3> QED BY <1>0, <3>1 DEF RunnerStep, Fits, LedgerFits, Unresolved, Exists
  <2> QED BY <1>0, <2>1, <2>2 DEF LedgerFits, Exists
<1>4. FilesFit(a)'
  <2>1. a \in file' => a \in file
    BY <1>0 DEF RunnerStep, Left
  <2>2. attempt[a].pc = "store" /\ source'.state = "present" => a \in file'
    <3>1. attempt[a].pc # "store"
      BY <1>0 DEF Fits, TaskFits, RunnerStep, WorkPc
    <3> QED BY <3>1
  <2>3. source'.state = "present" /\ source'.file_url = a /\ a \notin file' => Unresolved(a, "s3")'
    <3> SUFFICES ASSUME source'.state = "present", source'.file_url = a, a \notin file'
                 PROVE  Unresolved(a, "s3")'
      OBVIOUS
    <3>1. source.state = "present" /\ source.file_url = a
      BY NamesAssumption DEF RunnerStep
    <3>2. Recorded(a, "s3")
      BY <1>0, <3>1 DEF RunnerStep, Fits, FilesFit, Recorded, Unresolved
    <3>3. Recorded(a, "s3")' /\ task'[a]["s3"].state # "resolved"
      BY <1>0, <1>1, <1>3, <3>2 DEF LedgerFits, Exists
    <3> QED BY <1>0, <3>3, TaskFields DEF RunnerStep, TypeOK, Task, Recorded, Unresolved
  <2> QED BY <1>0, <1>1, <2>1, <2>2, <2>3 DEF Fits, FilesFit
<1>5. AttemptFits(a)'
  <2> SUFFICES ASSUME attempt[a].pc \in HoldPc
               PROVE  AttemptFits(a)'
    BY <1>0 DEF AttemptFits
  <2>1. PICK j \in Kind : j = attempt[a].kind
    BY <1>0
  <2>2. Recorded(a, j)
    BY <2>1 DEF Fits, TaskFits, HoldPc, CleanPc
  <2>3. Leaves(a, a, j)
    BY <1>0, <1>1, <2>2 DEF RunnerStep, Leaves, Unresolved
  <2> QED BY <1>0, <2>1, <2>3 DEF Fits, AttemptFits, ClaimFits, Leaves
<1>6. BatchLeft(a)'
  BY <1>0 DEF Fits, BatchLeft
<1> QED BY <1>2, <1>3, <1>4, <1>5, <1>6 DEF Fits

\* The step leaves r with these fields, and the other runners alone.
Turns(r, pc, a, k, ok) ==
  /\ runner' \in [Runner -> RunnerState]
  /\ runner'[r].pc = pc /\ runner'[r].attempt = a
  /\ runner'[r].kind = k /\ runner'[r].ok = ok
  /\ \A q \in Runner \ {r} : runner'[q] = runner[q]

LEMMA RunnerPut ==
  ASSUME TypeOK, NEW r \in Runner, NEW new \in RunnerState,
         runner' = [runner EXCEPT ![r] = new]
  PROVE  Turns(r, new.pc, new.attempt, new.kind, new.ok)
  BY DEF TypeOK, Turns

LEMMA RunnerFields ==
  ASSUME TypeOK, NEW r \in Runner
  PROVE  /\ runner[r] \in RunnerState
         /\ runner[r].kind \in Kind /\ runner[r].ok \in BOOLEAN
         /\ r \in Claimant /\ None \notin Runner /\ r # None
         /\ Kind = {"vectors", "s3"}
<1>1. runner[r] \in RunnerState
  BY DEF TypeOK
<1> QED BY <1>1, NamesAssumption DEF RunnerState, Claimant, Kind

LEMMA RunnerGoes ==
  ASSUME TypeOK, NEW r \in Runner, NEW pc \in {"delete", "resolve", "release"},
         NEW ok \in BOOLEAN, runner' = [runner EXCEPT ![r].pc = pc, ![r].ok = ok]
  PROVE  Turns(r, pc, runner[r].attempt, runner[r].kind, ok)
<1> DEFINE new == [runner[r] EXCEPT !.pc = pc, !.ok = ok]
<1>0. runner[r] \in RunnerState
  BY RunnerFields
<1>1. /\ new \in RunnerState /\ new.pc = pc /\ new.attempt = runner[r].attempt
      /\ new.kind = runner[r].kind /\ new.ok = ok
  <2>1. new \in RunnerState
    BY <1>0 DEF RunnerState
  <2>2. new.pc = pc /\ new.attempt = runner[r].attempt /\ new.kind = runner[r].kind
    BY <1>0 DEF RunnerState
  <2>3. new.ok = ok
    BY <1>0 DEF RunnerState
  <2> QED BY <2>1, <2>2, <2>3
<1>2. runner' = [runner EXCEPT ![r] = new]
  OBVIOUS
<1> HIDE DEF new
<1>3. Turns(r, new.pc, new.attempt, new.kind, new.ok)
  BY <1>1, <1>2, RunnerPut
<1> QED BY <1>1, <1>3, Zenon

LEMMA ClaimStep ==
  ASSUME TypeOK, NEW r \in Runner, NEW a \in Attempt, NEW k \in Kind, Fits(a),
         RunnerClaims(r, a, k)
  PROVE  RunnerStep(r, a, k)
<1>0. /\ r \in Claimant /\ Unresolved(a, k) /\ ~task[a][k].leased
      /\ UNCHANGED <<source, vector, file, attempt, deleter, events>>
  BY RunnerFields DEF RunnerClaims, Claimable
<1>1. Records(a, k, task[a][k].state, r, TRUE)
  BY <1>0, ClaimsIs DEF RunnerClaims
<1>2. Turns(r, "delete", a, k, FALSE)
  <2> DEFINE new == [IdleRunner EXCEPT !.pc = "delete", !.attempt = a, !.kind = k]
  <2>1. /\ new \in RunnerState /\ new.pc = "delete" /\ new.attempt = a
        /\ new.kind = k /\ new.ok = FALSE
    BY DEF IdleRunner, RunnerState
  <2>2. runner' = [runner EXCEPT ![r] = new]
    BY DEF RunnerClaims
  <2> HIDE DEF new
  <2>3. Turns(r, new.pc, new.attempt, new.kind, new.ok)
    BY <2>1, <2>2, RunnerPut
  <2> QED BY <2>1, <2>3, Zenon
<1>3. TypeOK'
  BY <1>0, <1>1, <1>2 DEF TypeOK, Records, Turns
<1>4. /\ Recorded(a, k) /\ Recorded(a, k)' /\ Unresolved(a, k)'
      /\ \A b \in Attempt, j \in Kind : Left(b, j)' <=> Left(b, j)
  BY <1>0, <1>1 DEF Records, Recorded, Unresolved, Left
<1>5. \A x \in Claimant \ {r} : Leaves(x, a, k)
  BY <1>0, <1>1, <1>4 DEF Leaves, Records
<1>6. RunnerFits(r)'
  BY <1>1, <1>2, <1>4 DEF RunnerFits, ClaimFits, Turns, Records
<1> QED BY <1>0, <1>1, <1>2, <1>3, <1>4, <1>5, <1>6 DEF RunnerStep, Records, Turns

\* A runner at work is on the record of an attempt.
LEMMA RunnerWorks ==
  ASSUME TypeOK, NEW r \in Runner, RunnerFits(r), runner[r].pc # "idle"
  PROVE  \E a \in Attempt, k \in Kind :
           /\ a = runner[r].attempt /\ k = runner[r].kind
           /\ Recorded(a, k)
           /\ runner[r].pc = "resolve" /\ runner[r].ok /\ ~VectorsUnasked(k) => ~Left(a, k)
           /\ runner[r].pc # "release" /\ task[a][k].claimed_by = r => Unresolved(a, k)
           /\ "stall" \notin events => task[a][k].claimed_by = r /\ task[a][k].leased
  BY RunnerFields DEF RunnerFits, ClaimFits

LEMMA DeletesStep ==
  ASSUME TypeOK, NEW r \in Runner, NEW ok \in BOOLEAN, RunnerFits(r), RunnerDeletes(r, ok)
  PROVE  \E a \in Attempt, k \in Kind : RunnerStep(r, a, k)
<1>0. /\ runner[r].pc = "delete" /\ UNCHANGED <<source, task, attempt, deleter, events>>
      /\ runner' = [runner EXCEPT ![r].pc = "resolve", ![r].ok = ok]
      /\ Calls(runner[r].attempt, runner[r].kind, ok)
  BY DEF RunnerDeletes
<1>1. PICK a \in Attempt, k \in Kind :
        /\ a = runner[r].attempt /\ k = runner[r].kind
        /\ Recorded(a, k)
        /\ task[a][k].claimed_by = r => Unresolved(a, k)
        /\ "stall" \notin events => task[a][k].claimed_by = r /\ task[a][k].leased
  BY <1>0, RunnerWorks
<1>2. /\ vector' \in [Chunk -> Attempt \cup {None}]
      /\ file' \subseteq Attempt
      /\ \A b \in Attempt, j \in Kind : Left(b, j)' => Left(b, j)
      /\ ok /\ ~VectorsUnasked(k) => ~Left(a, k)'
      /\ \A b \in Attempt : b \in file => b \in file' \/ (b = a /\ k = "s3")
  BY <1>0, <1>1, CallsTake
<1>3. Turns(r, "resolve", a, k, ok)
  BY <1>0, <1>1, RunnerGoes
<1>4. TypeOK'
  BY <1>0, <1>2, <1>3 DEF TypeOK, Turns
<1>5. Recorded(a, k)' /\ (Unresolved(a, k)' <=> Unresolved(a, k))
  BY <1>0, <1>1 DEF Recorded, Unresolved
<1>6. \A x \in Claimant \ {r} : Leaves(x, a, k)
  BY <1>0, <1>2, <1>5 DEF Leaves
<1>7. RunnerFits(r)'
  BY <1>0, <1>1, <1>2, <1>3, <1>5 DEF RunnerFits, ClaimFits, Turns
<1>8. RunnerStep(r, a, k)
  BY <1>0, <1>1, <1>2, <1>3, <1>4, <1>5, <1>6, <1>7 DEF RunnerStep, Turns
<1> QED BY <1>8

LEMMA ResolvesStep ==
  ASSUME TypeOK, NEW r \in Runner, RunnerFits(r), RunnerResolves(r)
  PROVE  \E a \in Attempt, k \in Kind : RunnerStep(r, a, k)
<1>0. /\ runner[r].pc = "resolve" /\ UNCHANGED <<vector, file, attempt, deleter, events>>
      /\ runner' = [runner EXCEPT ![r].pc = "release", ![r].ok = FALSE]
      /\ Resolves(runner[r].attempt, runner[r].kind, r, runner[r].ok)
      /\ source \in SourceRow /\ r \in Claimant
  BY RunnerFields DEF RunnerResolves, TypeOK
<1>1. PICK a \in Attempt, k \in Kind :
        /\ a = runner[r].attempt /\ k = runner[r].kind
        /\ Recorded(a, k)
        /\ runner[r].ok /\ ~VectorsUnasked(k) => ~Left(a, k)
        /\ "stall" \notin events => task[a][k].claimed_by = r /\ task[a][k].leased
  BY <1>0, RunnerWorks
<1>2. PICK ok \in BOOLEAN : ok = runner[r].ok
  BY RunnerFields
<1>3. \/ task[a][k].claimed_by # r /\ task' = task /\ source' = source
      \/ /\ task[a][k].claimed_by = r
         /\ Records(a, k, IF ok THEN "resolved" ELSE "failed", r, task[a][k].leased)
         /\ source' \in SourceRow
         /\ source'.state = source.state
         /\ source'.file_url = source.file_url \/ source'.file_url = None
         /\ Exists /\ ok /\ k = "s3" => source'.file_url # a
  BY <1>0, <1>1, <1>2, ResolvesIs
<1>4. Turns(r, "release", a, k, FALSE)
  BY <1>0, <1>1, RunnerGoes
<1>5. /\ source' \in SourceRow /\ source'.state = source.state
      /\ source'.file_url \in {source.file_url, None}
      /\ task' \in [Attempt -> [Kind -> Task]]
      /\ \A b \in Attempt \ {a} : task'[b] = task[b]
      /\ \A j \in Kind \ {k} : task'[a][j] = task[a][j]
      /\ task'[a][k].claimed_by = task[a][k].claimed_by
      /\ task'[a][k].leased = task[a][k].leased
  BY <1>0, <1>3 DEF Records, TypeOK
<1>6. \/ task'[a][k] = task[a][k]
      \/ /\ task[a][k].claimed_by = r
         /\ task'[a][k].state = IF ok THEN "resolved" ELSE "failed"
         /\ Exists /\ ok /\ k = "s3" => source'.file_url # a
  BY <1>3 DEF Records
<1>7. TypeOK'
  BY <1>0, <1>4, <1>5 DEF TypeOK, Turns
<1>8. /\ Recorded(a, k)'
      /\ \A b \in Attempt, j \in Kind : Left(b, j)' <=> Left(b, j)
  BY <1>0, <1>1, <1>6 DEF Recorded, Left
<1>9. \A x \in Claimant \ {r} : Leaves(x, a, k)
  <2>1. task[a][k].claimed_by = r \/ (Unresolved(a, k)' <=> Unresolved(a, k))
    BY <1>6 DEF Unresolved
  <2> QED BY <1>0, <1>5, <1>8, <2>1 DEF Leaves
<1>10. RunnerFits(r)'
  BY <1>0, <1>1, <1>4, <1>5, <1>8 DEF RunnerFits, ClaimFits, Turns
<1>11. \/ task'[a][k].state = task[a][k].state
       \/ Unresolved(a, k)'
       \/ (Left(a, k) => VectorsUnasked(k)) /\ (k = "s3" /\ Exists => source'.file_url # a)
  BY <1>1, <1>2, <1>6 DEF Unresolved
<1>12. RunnerStep(r, a, k)
  BY <1>0, <1>1, <1>4, <1>5, <1>7, <1>8, <1>9, <1>10, <1>11 DEF RunnerStep, Turns
<1> QED BY <1>12

LEMMA IdleTurns ==
  ASSUME TypeOK, NEW r \in Runner, runner' = [runner EXCEPT ![r] = IdleRunner]
  PROVE  /\ runner' \in [Runner -> RunnerState]
         /\ RunnerFits(r)'
         /\ \A q \in Runner \ {r} : runner'[q] = runner[q]
<1>1. IdleRunner \in RunnerState /\ IdleRunner.pc = "idle"
  BY DEF IdleRunner, RunnerState, Kind
<1>2. Turns(r, IdleRunner.pc, IdleRunner.attempt, IdleRunner.kind, IdleRunner.ok)
  BY <1>1, RunnerPut
<1> QED BY <1>1, <1>2 DEF Turns, RunnerFits

LEMMA ReleasesStep ==
  ASSUME TypeOK, NEW r \in Runner, RunnerFits(r), RunnerReleases(r)
  PROVE  \E a \in Attempt, k \in Kind : RunnerStep(r, a, k)
<1>0. /\ runner[r].pc = "release" /\ UNCHANGED <<source, vector, file, attempt, deleter, events>>
      /\ runner' = [runner EXCEPT ![r] = IdleRunner]
      /\ Releases(runner[r].attempt, runner[r].kind, r)
      /\ r \in Claimant
  BY RunnerFields DEF RunnerReleases
<1>1. PICK a \in Attempt, k \in Kind :
        /\ a = runner[r].attempt /\ k = runner[r].kind
        /\ Recorded(a, k)
  BY <1>0, RunnerWorks
<1>2. \/ task' = task
      \/ task[a][k].claimed_by = r /\ Records(a, k, task[a][k].state, None, FALSE)
  BY <1>0, <1>1, ReleasesIs
<1>3. /\ task' \in [Attempt -> [Kind -> Task]]
      /\ \A b \in Attempt \ {a} : task'[b] = task[b]
      /\ \A j \in Kind \ {k} : task'[a][j] = task[a][j]
      /\ task'[a][k].state = task[a][k].state
      /\ \/ task'[a][k] = task[a][k]
         \/ task[a][k].claimed_by = r /\ task'[a][k].claimed_by = None
  BY <1>2 DEF Records, TypeOK
<1>4. /\ RunnerFits(r)' /\ runner' \in [Runner -> RunnerState]
      /\ \A q \in Runner \ {r} : runner'[q] = runner[q]
  BY <1>0, IdleTurns
<1>5. TypeOK'
  BY <1>0, <1>3, <1>4 DEF TypeOK
<1>6. /\ Recorded(a, k)' /\ (Unresolved(a, k)' <=> Unresolved(a, k))
      /\ \A b \in Attempt, j \in Kind : Left(b, j)' <=> Left(b, j)
  BY <1>0, <1>1, <1>3 DEF Recorded, Unresolved, Left
<1>7. \A x \in Claimant \ {r} : Leaves(x, a, k)
  BY <1>0, <1>3, <1>6, NamesAssumption DEF Leaves, Claimant
<1>8. RunnerStep(r, a, k)
  BY <1>0, <1>1, <1>3, <1>4, <1>5, <1>6, <1>7 DEF RunnerStep
<1> QED BY <1>8

LEMMA RunnerStepKeeps ==
  ASSUME LedgerInv, NEW r \in Runner, NEW a \in Attempt, NEW k \in Kind, RunnerStep(r, a, k)
  PROVE  LedgerInv'
<1>0. TypeOK /\ TypeOK' /\ attempt' = attempt /\ deleter' = deleter /\ events' = events
  BY DEF LedgerInv, RunnerStep
<1>1. Fits(a)'
  BY RunnerStepFits DEF LedgerInv
<1>2. ASSUME NEW b \in Attempt \ {a}
      PROVE  Apart(b) /\ RowCalm(b) /\ Fits(b)'
  <2>1. Apart(b)
    BY <1>0, <1>2 DEF RunnerStep, Apart
  <2>2. RowCalm(b)
    BY <1>2, NamesAssumption DEF RunnerStep, RowCalm, Exists
  <2> QED BY <1>0, <1>2, <2>1, <2>2, ApartFits, TypedFields DEF LedgerInv
<1>3. ASSUME NEW q \in Runner \ {r}
      PROVE  RunnerFits(q)'
  <2>1. ASSUME NEW b \in Attempt, NEW j \in Kind, Recorded(b, j)
        PROVE  Leaves(q, b, j)
    <3>1. CASE b # a
      BY <1>2, <2>1, <3>1, ApartLeaves
    <3>2. CASE b = a /\ j = k
      BY <1>3, <3>2, RunnerFields DEF RunnerStep, LedgerInv
    <3>3. CASE b = a /\ j # k
      BY <2>1, <3>3 DEF RunnerStep, Leaves, Recorded, Unresolved
    <3> QED BY <3>1, <3>2, <3>3
  <2> QED BY <1>0, <1>3, <2>1, RunnerKept, RunnerFields DEF LedgerInv, RunnerStep
<1>4. (deleter.pc # "idle" => source.state # "present")'
  BY <1>0 DEF LedgerInv, RunnerStep
<1> QED BY <1>0, <1>1, <1>2, <1>3, <1>4 DEF LedgerInv, RunnerStep

-----------------------------------------------------------------------------
(* The steps that are nobody's of these. *)

\* The ledger, the attempts and the runners are left alone.
Outside ==
  /\ UNCHANGED <<task, attempt, runner, events>>
  /\ \A a \in Attempt : Apart(a) /\ RowCalm(a)
  /\ deleter'.pc # "idle" => source'.state # "present"

LEMMA OutsideKeeps ==
  ASSUME LedgerInv, TypeOK', Outside
  PROVE  LedgerInv'
<1>1. \A a \in Attempt : Fits(a)'
  BY ApartFits, TypedFields DEF LedgerInv, Outside
<1>2. ASSUME NEW q \in Runner
      PROVE  RunnerFits(q)'
  <2>1. \A b \in Attempt, j \in Kind : Recorded(b, j) => Leaves(q, b, j)
    BY ApartLeaves DEF Outside
  <2> QED BY <2>1, RunnerKept, RunnerFields DEF LedgerInv, Outside
<1> QED BY <1>1, <1>2 DEF LedgerInv, Outside

LEMMA RestKeeps ==
  ASSUME LedgerInv,
         \/ AttemptLapses \/ DeleteLibraryItem \/ DeletionVectors \/ DeletionFile
         \/ DeletionFinish \/ DeletionDies
  PROVE  LedgerInv'
<1>0. /\ TypeOK /\ source \in SourceRow /\ vector \in [Chunk -> Attempt \cup {None}]
      /\ file \subseteq Attempt /\ deleter \in Deleter /\ None \notin Attempt
      /\ deleter.pc # "idle" => source.state # "present"
  BY NamesAssumption DEF LedgerInv, TypeOK
<1>1. CASE AttemptLapses
  <2>1. /\ source' = [source EXCEPT !.live = FALSE]
        /\ UNCHANGED <<vector, file, task, attempt, runner, deleter, events>>
    BY <1>1 DEF AttemptLapses
  <2>2. /\ source' \in SourceRow /\ source'.state = source.state
        /\ source'.file_url = source.file_url
    BY <1>0, <2>1 DEF SourceRow
  <2>3. TypeOK'
    BY <1>0, <2>1, <2>2 DEF TypeOK
  <2>4. Outside
    BY <1>0, <2>1, <2>2 DEF Outside, Apart, RowCalm, Left, Exists
  <2> QED BY <2>3, <2>4, OutsideKeeps
<1>2. CASE DeleteLibraryItem
  <2>1. /\ source' = [source EXCEPT !.state = "tombstoned"] /\ source.state = "present"
        /\ UNCHANGED <<vector, file, task, attempt, runner, deleter, events>>
    BY <1>2 DEF DeleteLibraryItem
  <2>2. /\ source' \in SourceRow /\ source'.state = "tombstoned"
        /\ source'.file_url = source.file_url
    BY <1>0, <2>1 DEF SourceRow
  <2>3. TypeOK'
    BY <1>0, <2>1, <2>2 DEF TypeOK
  <2>4. Outside
    BY <1>0, <2>1, <2>2 DEF Outside, Apart, RowCalm, Left, Exists
  <2> QED BY <2>3, <2>4, OutsideKeeps
<1>3. CASE DeletionVectors
  <2>1. PICK ok \in BOOLEAN :
          /\ deleter' = [pc |-> "file", ok |-> ok]
          /\ vector' = [c \in Chunk |-> None] \/ vector' = vector
    BY <1>3 DEF DeletionVectors
  <2>2. source.state = "tombstoned" /\ UNCHANGED <<source, file, task, attempt, runner, events>>
    BY <1>3 DEF DeletionVectors
  <2>3. TypeOK'
    BY <1>0, <2>1, <2>2 DEF TypeOK, Deleter
  <2>4. \A a \in Attempt, k \in Kind : Left(a, k)' => Left(a, k)
    BY <1>0, <2>1, <2>2 DEF Left
  <2>5. Outside
    BY <2>2, <2>4 DEF Outside, Apart, RowCalm, Exists
  <2> QED BY <2>3, <2>5, OutsideKeeps
<1>4. CASE DeletionFile
  <2>1. PICK ok \in BOOLEAN :
          /\ deleter' = [pc |-> "finish", ok |-> deleter.ok /\ ok]
          /\ file' \subseteq file
    BY <1>4 DEF DeletionFile
  <2>2. deleter.pc = "file" /\ UNCHANGED <<source, vector, task, attempt, runner, events>>
    BY <1>4 DEF DeletionFile
  <2>3. deleter' \in Deleter
    BY <1>0, <2>1 DEF Deleter
  <2>4. TypeOK'
    BY <1>0, <2>1, <2>2, <2>3 DEF TypeOK
  <2>5. \A a \in Attempt, k \in Kind : Left(a, k)' => Left(a, k)
    BY <1>0, <2>1, <2>2 DEF Left
  <2>6. Outside
    BY <1>0, <2>2, <2>5 DEF Outside, Apart, RowCalm, Exists
  <2> QED BY <2>4, <2>6, OutsideKeeps
<1>5. CASE DeletionFinish \/ DeletionDies
  <2>1. /\ deleter' = IdleDeleter /\ deleter.pc # "idle"
        /\ source' = [source EXCEPT !.state = "gone", !.live = FALSE] \/ source' = source
        /\ UNCHANGED <<vector, file, task, attempt, runner, events>>
    BY <1>5 DEF DeletionFinish, DeletionDies
  <2>2. /\ source' \in SourceRow /\ source'.state \in {source.state, "gone"}
        /\ source'.file_url = source.file_url
    BY <1>0, <2>1 DEF SourceRow
  <2>3. IdleDeleter \in Deleter /\ IdleDeleter.pc = "idle"
    BY DEF IdleDeleter, Deleter
  <2>4. TypeOK'
    BY <1>0, <2>1, <2>2, <2>3 DEF TypeOK
  <2>5. Outside
    BY <1>0, <2>1, <2>2, <2>3 DEF Outside, Apart, RowCalm, Left, Exists
  <2> QED BY <2>4, <2>5, OutsideKeeps
<1> QED BY <1>1, <1>2, <1>3, <1>4, <1>5

\* A claim that lapses under its holder takes an event that says so.
LEMMA LapseKeeps ==
  ASSUME LedgerInv, NEW a \in Attempt, NEW k \in Kind, ClaimLapses(a, k)
  PROVE  LedgerInv'
<1>0. /\ TypeOK /\ task[a][k].leased
      /\ UNCHANGED <<source, vector, file, attempt, runner, deleter, events>>
  BY DEF ClaimLapses, LedgerInv
<1>1. Records(a, k, task[a][k].state, task[a][k].claimed_by, FALSE)
  BY <1>0, LapseIs
<1>2. /\ task' \in [Attempt -> [Kind -> Task]]
      /\ \A b \in Attempt \ {a} : task'[b] = task[b]
      /\ \A j \in Kind \ {k} : task'[a][j] = task[a][j]
      /\ \A b \in Attempt, j \in Kind : /\ task'[b][j].state = task[b][j].state
                                        /\ task'[b][j].claimed_by = task[b][j].claimed_by
  BY <1>1 DEF Records
<1>3. TypeOK'
  BY <1>0, <1>2 DEF TypeOK
<1>4. \A b \in Attempt, j \in Kind : /\ Recorded(b, j)' <=> Recorded(b, j)
                                     /\ Unresolved(b, j)' <=> Unresolved(b, j)
                                     /\ Left(b, j)' <=> Left(b, j)
  BY <1>0, <1>2 DEF Recorded, Unresolved, Left
\* What is held while nothing stalls is not what lapsed.
<1>5. ASSUME NEW x \in Claimant, NEW b \in Attempt, NEW j \in Kind, "stall" \notin events,
             task[b][j].claimed_by = x, Holding(x, b, j)
      PROVE  task'[b][j] = task[b][j]
  <2>1. ~(b = a /\ j = k)
    BY <1>5 DEF ClaimLapses
  <2> QED BY <1>2, <2>1
<1>6. ASSUME NEW b \in Attempt
      PROVE  Fits(b)'
  <2>0. Fits(b) /\ attempt[b].kind \in Kind /\ Kind = {"vectors", "s3"} /\ b \in Claimant
    BY <1>0, TypedFields DEF LedgerInv
  <2>1. TaskFits(b)'
    BY <1>0, <1>4, <2>0 DEF Fits, TaskFits
  <2>2. FilesFit(b)'
    BY <1>0, <1>4, <2>0 DEF Fits, FilesFit
  <2>3. LedgerFits(b)'
    BY <1>0, <1>2, <1>4, <2>0 DEF Fits, LedgerFits, Exists
  <2>4. AttemptFits(b)'
    <3> SUFFICES ASSUME attempt[b].pc \in HoldPc
                 PROVE  AttemptFits(b)'
      BY <1>0 DEF AttemptFits
    <3>1. PICK j \in Kind : j = attempt[b].kind
      BY <2>0
    <3>2. /\ attempt[b].pc \in {"clear", "resolve"} /\ attempt[b].ok /\ ~VectorsUnasked(j) =>
               ~Left(b, j)
          /\ attempt[b].pc # "release" /\ task[b][j].claimed_by = b => Unresolved(b, j)
          /\ "stall" \notin events => task[b][j].claimed_by = b /\ task[b][j].leased
      BY <2>0, <3>1 DEF Fits, AttemptFits, ClaimFits
    <3>3. "stall" \notin events => task'[b][j] = task[b][j]
      BY <1>5, <2>0, <3>1, <3>2 DEF Holding, HoldPc
    <3> QED BY <1>0, <1>2, <1>4, <3>1, <3>2, <3>3 DEF AttemptFits, ClaimFits
  <2>5. BatchLeft(b)'
    BY <1>0, <2>0 DEF Fits, BatchLeft
  <2> QED BY <2>1, <2>2, <2>3, <2>4, <2>5 DEF Fits
<1>7. ASSUME NEW r \in Runner
      PROVE  RunnerFits(r)'
  <2>1. CASE runner[r].pc = "idle"
    BY <1>0, <2>1 DEF RunnerFits
  <2>2. CASE runner[r].pc # "idle"
    <3>1. PICK b \in Attempt, j \in Kind :
            /\ b = runner[r].attempt /\ j = runner[r].kind
            /\ Recorded(b, j)
            /\ runner[r].pc = "resolve" /\ runner[r].ok /\ ~VectorsUnasked(j) => ~Left(b, j)
            /\ runner[r].pc # "release" /\ task[b][j].claimed_by = r => Unresolved(b, j)
            /\ "stall" \notin events => task[b][j].claimed_by = r /\ task[b][j].leased
      BY <1>0, <2>2, RunnerWorks DEF LedgerInv
    <3>2. "stall" \notin events => task'[b][j] = task[b][j]
      BY <1>0, <1>5, <2>2, <3>1, RunnerFields DEF Holding
    <3> QED BY <1>0, <1>2, <1>4, <3>1, <3>2 DEF RunnerFits, ClaimFits
  <2> QED BY <2>1, <2>2
<1> QED BY <1>0, <1>3, <1>6, <1>7 DEF LedgerInv

-----------------------------------------------------------------------------
(* The invariant, and what it says. *)

LEMMA InitLedger ==
  ASSUME Init
  PROVE  LedgerInv
<1>1. TypeOK
  BY NamesAssumption, ChunksAssumption, ScenariosAssumption
  DEF Init, TypeOK, SourceRow, Task, NoTask, AttemptState, NewAttempt, RunnerState,
      IdleRunner, Deleter, IdleDeleter, Chunk, Kind, Claimant
<1>2. \A a \in Attempt : Fits(a)
  BY NamesAssumption, ChunksAssumption
  DEF Init, Fits, TaskFits, FilesFit, LedgerFits, AttemptFits, BatchLeft, Recorded, Unresolved,
      NoTask, NewAttempt, Kind, WorkPc, CleanPc, HoldPc, BeforeLast
<1>3. \A r \in Runner : RunnerFits(r)
  BY DEF Init, RunnerFits, IdleRunner
<1> QED BY <1>1, <1>2, <1>3 DEF LedgerInv, Init, IdleDeleter

LEMMA KeepsInv ==
  ASSUME LedgerInv, NEW a \in Attempt, Keeps(a)
  PROVE  LedgerInv'
<1>1. \A b \in Attempt \ {a} : Fits(b)'
  BY ApartFits, TypedFields DEF LedgerInv, Keeps
<1>2. ASSUME NEW q \in Runner
      PROVE  RunnerFits(q)'
  <2>1. \A b \in Attempt, j \in Kind : Recorded(b, j) => Leaves(q, b, j)
    BY ApartLeaves DEF Keeps
  <2> QED BY <2>1, RunnerKept, RunnerFields DEF LedgerInv, Keeps
<1> QED BY <1>1, <1>2 DEF LedgerInv, Keeps

LEMMA LedgerStep ==
  ASSUME LedgerInv, Next
  PROVE  LedgerInv'
<1>0. TypeOK
  BY DEF LedgerInv
<1>1. ASSUME NEW a \in Attempt, AdmitWorkerAttempt(a) \/ Works(a) \/ Heartbeat(a) \/ Crash(a)
      PROVE  LedgerInv'
  BY <1>0, <1>1, AttemptKeeps, KeepsInv DEF LedgerInv
<1>2. ASSUME NEW a \in Attempt, NEW k \in Kind, ClaimLapses(a, k)
      PROVE  LedgerInv'
  BY <1>2, LapseKeeps
<1>3. ASSUME NEW a \in Attempt, NEW k \in Kind, NEW r \in Runner, RunnerClaims(r, a, k)
      PROVE  LedgerInv'
  BY <1>0, <1>3, ClaimStep, RunnerStepKeeps DEF LedgerInv
<1>4. ASSUME NEW r \in Runner,
             (\E ok \in BOOLEAN : RunnerDeletes(r, ok)) \/ RunnerResolves(r) \/ RunnerReleases(r)
      PROVE  LedgerInv'
  BY <1>0, <1>4, DeletesStep, ResolvesStep, ReleasesStep, RunnerStepKeeps DEF LedgerInv
<1>5. ASSUME NEW r \in Runner, RunnerDies(r)
      PROVE  LedgerInv'
  <2>1. /\ runner' = [runner EXCEPT ![r] = IdleRunner]
        /\ UNCHANGED <<source, vector, file, task, attempt, deleter, events>>
    BY <1>5 DEF RunnerDies
  <2>2. /\ runner' \in [Runner -> RunnerState] /\ RunnerFits(r)'
        /\ \A q \in Runner \ {r} : runner'[q] = runner[q]
    BY <1>0, <2>1, IdleTurns
  <2>3. TypeOK'
    BY <1>0, <2>1, <2>2 DEF TypeOK
  <2>4. \A a \in Attempt : Apart(a) /\ RowCalm(a)
    BY <2>1 DEF Apart, RowCalm, Left, Exists
  <2>5. \A a \in Attempt : Fits(a)'
    BY <1>0, <2>1, <2>4, ApartFits, TypedFields DEF LedgerInv
  <2>6. \A q \in Runner \ {r} : RunnerFits(q)'
    BY <1>0, <2>1, <2>2, <2>4, ApartLeaves, RunnerKept, RunnerFields DEF LedgerInv
  <2> QED BY <2>1, <2>2, <2>3, <2>5, <2>6 DEF LedgerInv
<1> QED BY <1>1, <1>2, <1>3, <1>4, <1>5, RestKeeps DEF Next

LEMMA LedgerKept ==
  ASSUME LedgerInv, [Next]_vars
  PROVE  LedgerInv'
<1>1. CASE Next
  BY <1>1, LedgerStep
<1>2. CASE UNCHANGED vars
  <2>1. UNCHANGED <<source, vector, file, task, attempt, runner, deleter, events>>
    BY <1>2 DEF vars
  <2>2. TypeOK'
    BY <2>1 DEF LedgerInv, TypeOK
  <2>3. Outside
    BY <2>1 DEF LedgerInv, Outside, Apart, RowCalm, Left, Exists
  <2> QED BY <2>2, <2>3, OutsideKeeps
<1> QED BY <1>1, <1>2

\* LedgerInv is inductive, for any attempts, runners and batches.
THEOREM LedgerAlways == Spec => []LedgerInv
<1>1. Init => LedgerInv
  BY InitLedger
<1>2. LedgerInv /\ [Next]_vars => LedgerInv'
  BY LedgerKept
<1> QED BY <1>1, <1>2, PTL DEF Spec

\* Every variable stays in its set.
THEOREM ArtifactsTypeCorrect == Spec => []TypeOK
<1>1. LedgerInv => TypeOK
  BY DEF LedgerInv
<1> QED BY <1>1, LedgerAlways, PTL

\* What failed attempts left in the stores is on the ledger, what the ledger
\* says is gone is gone, and a key in the row whose file is gone is on it too.
THEOREM LedgerTrue == Spec => []LedgerTells
<1>1. ASSUME LedgerInv
      PROVE  LedgerTells
  <2>1. ResolvedIsGone
    BY <1>1 DEF LedgerInv, Fits, LedgerFits, ResolvedIsGone
  <2>2. LeftIsOnLedger
    <3> SUFFICES ASSUME NEW a \in Attempt, NEW k \in Kind, Failed(a), Told(k), Left(a, k)
                 PROVE  Unresolved(a, k)
      BY DEF LeftIsOnLedger
    <3>1. /\ TypeOK /\ Fits(a) /\ Kind = {"vectors", "s3"}
          /\ attempt[a].pc = "ended" /\ Recorded(a, "vectors")
      BY <1>1, TypedFields DEF LedgerInv, Failed, Recorded
    <3>2. Recorded(a, k)
      <4>1. CASE k = "vectors"
        BY <3>1, <4>1
      <4>2. CASE k = "s3"
        BY <3>1, <4>2 DEF Fits, FilesFit, Left, Told
      <4> QED BY <3>1, <4>1, <4>2
    <3> QED BY <3>1, <3>2, LeftIsUnresolved DEF Fits, Told
  <2>3. DanglingIsOnLedger
    BY <1>1 DEF LedgerInv, Fits, FilesFit, DanglingIsOnLedger
  <2> QED BY <2>1, <2>2, <2>3 DEF LedgerTells
<1> QED BY <1>1, LedgerAlways, PTL

\* While leases do not lapse under live claimants, the attempt and any number of
\* runners call the store for an artifact one at a time.
THEOREM OneCallerAtATime == Spec => []OneCaller
<1>1. ASSUME LedgerInv
      PROVE  OneCaller
  <2> SUFFICES ASSUME "stall" \notin events, NEW a \in Attempt, NEW k \in Kind
               PROVE  Cardinality({x \in Claimant : Holding(x, a, k)}) <= 1
    BY DEF OneCaller
  <2> DEFINE S == {x \in Claimant : Holding(x, a, k)}
             T == {task[a][k].claimed_by}
  <2>1. ASSUME NEW x \in Claimant, Holding(x, a, k)
        PROVE  x = task[a][k].claimed_by
    <3>1. CASE x \in Attempt
      <4>1. /\ x = a /\ attempt[a].pc \in HoldPc /\ attempt[a].kind = k /\ AttemptFits(a)
        BY <1>1, <2>1, <3>1, NamesAssumption DEF Holding, HoldPc, LedgerInv, Fits
      <4> QED BY <4>1 DEF AttemptFits, ClaimFits
    <3>2. CASE x \in Runner
      <4>1. /\ runner[x].pc # "idle" /\ runner[x].attempt = a /\ runner[x].kind = k
            /\ RunnerFits(x)
        BY <1>1, <2>1, <3>2, NamesAssumption DEF Holding, LedgerInv
      <4> QED BY <4>1 DEF RunnerFits, ClaimFits
    <3> QED BY <2>1, <3>1, <3>2 DEF Claimant
  <2>2. S \subseteq T
    BY <2>1
  <2>3. IsFiniteSet(T) /\ Cardinality(T) = 1
    BY FS_Singleton
  <2>4. Cardinality(S) <= Cardinality(T)
    BY <2>2, <2>3, FS_Subset
  <2> QED BY <2>3, <2>4
<1> QED BY <1>1, LedgerAlways, PTL

\* Only an unresolved record is put back, and only by who still claims it, unless
\* the attempt records it anew after its clean-up raised.
THEOREM ResolvedForGood == Spec => ResolvedStays
<1>1. ASSUME LedgerInv, [Next]_vars
      PROVE  \A a \in Attempt, k \in Kind :
               task[a][k].state = "resolved" =>
                 \/ task'[a][k].state = "resolved"
                 \/ "write" \in events /\ attempt[a].pc = "record" /\ attempt[a].kind = k
  <2> SUFFICES ASSUME NEW a \in Attempt, NEW k \in Kind, task[a][k].state = "resolved",
                      ~("write" \in events /\ attempt[a].pc = "record" /\ attempt[a].kind = k)
               PROVE  task'[a][k].state = "resolved"
    OBVIOUS
  <2>0. TypeOK /\ Recorded(a, k) /\ ~Unresolved(a, k)
    BY <1>1 DEF LedgerInv, Recorded, Unresolved
  <2>1. CASE task' = task
    BY <2>1
  \* A record is written at a's own step or at a runner's on it.
  <2>2. ASSUME NEW b \in Attempt, NEW j \in Kind, NEW state, NEW by, NEW leased,
               Records(b, j, state, by, leased),
               \/ state = task[b][j].state \/ Unresolved(b, j) \/ ~Recorded(b, j)
               \/ "write" \in events /\ attempt[b].pc = "record" /\ attempt[b].kind = j
        PROVE  task'[a][k].state = "resolved"
    BY <2>0, <2>2 DEF Records, Recorded, Unresolved
  <2>3. ASSUME NEW b \in Attempt, Compensation(b)
        PROVE  task'[a][k].state = "resolved"
    <3> PICK j \in Kind : j = attempt[b].kind
      BY <2>0, TypedFields
    <3> PICK ok \in BOOLEAN : ok = attempt[b].ok
      BY <2>0, TypedFields, Fields
    <3>0. Fits(b) /\ b \in Claimant
      BY <1>1, <2>0, TypedFields DEF LedgerInv
    <3>1. CASE RecordPending(b)
      <4>1. ~Recorded(b, j) \/ ("write" \in events /\ attempt[b].pc = "record")
        BY <3>0, <3>1 DEF RecordPending, Fits, TaskFits
      <4>2. Records(b, j, "pending", task[b][j].claimed_by, task[b][j].leased)
        BY <2>0, <3>1, StateIs DEF RecordPending
      <4> QED BY <2>2, <4>1, <4>2
    <3>2. CASE ClaimDirect(b)
      <4>1. task' = task \/ Records(b, j, task[b][j].state, b, TRUE)
        BY <2>0, <3>0, <3>2, ClaimsIs DEF ClaimDirect
      <4> QED BY <2>1, <2>2, <4>1
    <3>3. CASE DeleteDirect(b) \/ ClearFileUrl(b) \/ ClearRaises(b)
      BY <2>1, <3>3 DEF DeleteDirect, ClearFileUrl, ClearRaises
    <3>4. CASE ResolveDirect(b)
      <4>1. attempt[b].pc = "resolve" /\ Resolves(b, j, b, ok)
        BY <3>4 DEF ResolveDirect
      <4>2. task[b][j].claimed_by = b => Unresolved(b, j)
        BY <3>0, <4>1 DEF Fits, AttemptFits, ClaimFits, HoldPc
      <4>3. \/ task' = task
            \/ Unresolved(b, j) /\ \E state, by, leased : Records(b, j, state, by, leased)
        BY <2>0, <3>0, <4>1, <4>2, ResolvesIs
      <4> QED BY <2>1, <2>2, <4>3
    <3>5. CASE ReleaseDirect(b)
      <4>1. task' = task \/ Records(b, j, task[b][j].state, None, FALSE)
        BY <2>0, <3>0, <3>5, ReleasesIs DEF ReleaseDirect
      <4> QED BY <2>1, <2>2, <4>1
    <3> QED BY <2>3, <3>1, <3>2, <3>3, <3>4, <3>5 DEF Compensation
  <2>4. ASSUME NEW r \in Runner, RunnerResolves(r) \/ RunnerReleases(r)
        PROVE  task'[a][k].state = "resolved"
    <3>0. RunnerFits(r) /\ runner[r].pc # "idle" /\ r \in Claimant
      BY <1>1, <2>0, <2>4, RunnerFields DEF LedgerInv, RunnerResolves, RunnerReleases
    <3>1. PICK b \in Attempt, j \in Kind :
            /\ b = runner[r].attempt /\ j = runner[r].kind
            /\ runner[r].pc # "release" /\ task[b][j].claimed_by = r => Unresolved(b, j)
      BY <2>0, <3>0, RunnerWorks
    <3> PICK ok \in BOOLEAN : ok = runner[r].ok
      BY <2>0, RunnerFields
    <3>2. CASE RunnerResolves(r)
      <4>1. runner[r].pc = "resolve" /\ Resolves(b, j, r, ok)
        BY <3>1, <3>2 DEF RunnerResolves
      <4>2. \/ task' = task
            \/ Unresolved(b, j) /\ \E state, by, leased : Records(b, j, state, by, leased)
        BY <2>0, <3>0, <3>1, <4>1, ResolvesIs
      <4> QED BY <2>1, <2>2, <4>2
    <3>3. CASE RunnerReleases(r)
      <4>1. task' = task \/ Records(b, j, task[b][j].state, None, FALSE)
        BY <2>0, <3>0, <3>1, <3>3, ReleasesIs DEF RunnerReleases
      <4> QED BY <2>1, <2>2, <4>1
    <3> QED BY <2>4, <3>2, <3>3
  <2>5. ASSUME NEW b \in Attempt, NEW j \in Kind, NEW r \in Runner, RunnerClaims(r, b, j)
        PROVE  task'[a][k].state = "resolved"
    <3>1. Records(b, j, task[b][j].state, r, TRUE)
      BY <2>0, <2>5, RunnerFields, ClaimsIs DEF RunnerClaims
    <3> QED BY <2>2, <3>1
  <2>6. ASSUME NEW b \in Attempt, NEW j \in Kind, ClaimLapses(b, j)
        PROVE  task'[a][k].state = "resolved"
    <3>1. Records(b, j, task[b][j].state, task[b][j].claimed_by, FALSE)
      BY <2>0, <2>6, LapseIs
    <3> QED BY <2>2, <3>1
  <2>7. ASSUME NEW b \in Attempt,
               \/ AdmitWorkerAttempt(b) \/ SkipArchive(b) \/ UploadFile(b) \/ StoreFileUrl(b)
               \/ StoreRaises(b) \/ OfferOcr(b) \/ CheckOwnership(b) \/ IndexNothing(b) \/ Upsert(b)
               \/ PassLastCheck(b) \/ AttemptFails(b) \/ FinalizeSuccessfulProcessing(b)
               \/ WriteContent(b) \/ ContentRaises(b) \/ ReleaseWorkerAttempt(b)
               \/ Heartbeat(b) \/ Crash(b)
        PROVE  task' = task
    BY <2>7 DEF AdmitWorkerAttempt, SkipArchive, UploadFile, StoreFileUrl, StoreRaises, OfferOcr,
       CheckOwnership, IndexNothing, Upsert, PassLastCheck, AttemptFails, FinalizeSuccessfulProcessing,
       WriteContent, ContentRaises, ReleaseWorkerAttempt, Heartbeat, Crash
  <2>8. ASSUME \/ \E r \in Runner : (\E ok \in BOOLEAN : RunnerDeletes(r, ok)) \/ RunnerDies(r)
               \/ AttemptLapses \/ DeleteLibraryItem \/ DeletionVectors \/ DeletionFile
               \/ DeletionFinish \/ DeletionDies
               \/ UNCHANGED vars
        PROVE  task' = task
    BY <2>8 DEF RunnerDeletes, RunnerDies, AttemptLapses, DeleteLibraryItem, DeletionVectors,
       DeletionFile, DeletionFinish, DeletionDies, vars
  <2> QED BY <1>1, <2>1, <2>3, <2>4, <2>5, <2>6, <2>7, <2>8 DEF Next, Works
<1>2. Spec => [][LedgerInv /\ [Next]_vars]_vars
  BY LedgerAlways, PTL DEF Spec
<1> QED BY <1>1, <1>2, LedgerAlways, PTL DEF Spec, ResolvedStays

-----------------------------------------------------------------------------
(* Without stalls and writes that raise, one attempt works at a time. *)

Calm == events \subseteq {"crash", "delete"}

Writing == {"index", "upsert", "last", "finalize", "content"}

\* The attempt that runs is the row's last one, and holds its lease.
Alone(a) ==
  Running(a) => /\ source.last_processing_attempt_id = a
                /\ source.worker_attempt_id = a
                /\ Exists => source.live

\* Only the first attempt archives, and then nothing else is there yet.
FirstArchives(a) ==
  /\ source.last_processing_attempt_id = None =>
       attempt[a].pc = "new" /\ file = {} /\ source.file_url = None /\ ~source.processed
  /\ attempt[a].pc \in {"archive", "store"} => file \subseteq {a} /\ source.file_url = None
  /\ attempt[a].pc \in {"new", "archive"} => a \notin file
  /\ a \in file /\ attempt[a].pc \in Writing \cup {"leave", "ended"} /\ ~Recorded(a, "vectors") =>
       source.file_url = a

\* The batches that count as written are the attempt's, until a deletion, and
\* no others are.
BatchesFit(a) ==
  /\ attempt[a].pc \in {"new", "archive", "store"} => attempt[a].upserted = 0
  /\ attempt[a].pc \in {"last", "finalize", "content"} => attempt[a].upserted = Chunks
  /\ attempt[a].pc \in WorkPc =>
       \A c \in Chunk : vector[c] = a => c <= attempt[a].upserted
  /\ attempt[a].pc \in Writing /\ source.state = "present" =>
       \A c \in Chunk : c <= attempt[a].upserted => vector[c] = a

\* The vectors are recorded first, the file after them.
VectorsFirst(a) ==
  /\ Recorded(a, "s3") => Recorded(a, "vectors")
  /\ attempt[a].pc \in CleanPc => Recorded(a, "vectors")
  /\ attempt[a].pc = "record" /\ attempt[a].kind = "s3" => Recorded(a, "vectors")

\* A processed source is its last attempt's work.
ProcessedFits ==
  source.processed =>
    \E a \in Attempt :
      /\ source.last_processing_attempt_id = a
      /\ attempt[a].pc \in {"content", "leave", "ended", "crashed"}
      /\ ~Recorded(a, "vectors")
      /\ source.state = "present" => \A c \in Chunk : vector[c] = a

\* What the deletion has taken of finished attempts does not come back.
DeletionFits ==
  /\ source.state = "gone" \/ (deleter.ok /\ deleter.pc \in {"file", "finish"}) =>
       \A a \in Attempt :
         attempt[a].pc \in {"content", "leave", "ended"} /\ ~Recorded(a, "vectors") =>
           ~Left(a, "vectors")
  /\ source.state = "gone" \/ (deleter.ok /\ deleter.pc = "finish") =>
       source.file_url \notin file

CalmFits ==
  /\ \A a \in Attempt : Alone(a) /\ FirstArchives(a) /\ BatchesFit(a) /\ VectorsFirst(a)
  /\ ProcessedFits
  /\ DeletionFits

CalmInv == LedgerInv /\ (Calm => CalmFits)

\* What every step of the clean-up does: it ends attempts that have failed, and
\* takes from the stores what is on the ledger.
Cleans ==
  /\ \A b \in Attempt :
       \/ attempt'[b] = attempt[b]
       \/ /\ attempt[b].pc \in CleanPc \cup {"record"}
          /\ attempt'[b].pc \in CleanPc \cup {"record", "leave"}
          /\ attempt'[b].pc # "record" \/ attempt'[b].kind = "s3"
          /\ Recorded(b, "vectors")'
  /\ \A b \in Attempt : /\ Recorded(b, "vectors") => Recorded(b, "vectors")'
                        /\ Recorded(b, "vectors")' => \/ Recorded(b, "vectors")
                                                      \/ attempt[b].pc = "record"
                        /\ Recorded(b, "s3")' => Recorded(b, "vectors")'
  /\ \A c \in Chunk : \/ vector'[c] = vector[c]
                      \/ vector'[c] = None /\ Recorded(vector[c], "vectors") /\ vector[c] \in Attempt
  /\ file' \subseteq file
  /\ source'.state = source.state /\ source'.live = source.live
  /\ source'.processed = source.processed
  /\ source'.last_processing_attempt_id = source.last_processing_attempt_id
  /\ source'.worker_attempt_id = source.worker_attempt_id
  /\ \/ source'.file_url = source.file_url
     \/ source'.file_url = None /\ source.file_url \in Attempt /\ Recorded(source.file_url, "vectors")
  /\ UNCHANGED <<deleter, events>>

LEMMA CleansCalm ==
  ASSUME LedgerInv, LedgerInv', CalmFits, Cleans
  PROVE  CalmFits'
<1>0. /\ None \notin Attempt
      /\ \A a \in Attempt : TaskFits(a) /\ TaskFits(a)'
  BY NamesAssumption DEF LedgerInv, Fits
<1>1. ASSUME NEW a \in Attempt
      PROVE  Alone(a)'
  BY <1>1 DEF CalmFits, Cleans, Alone, Running, Exists, CleanPc
<1>2. ASSUME NEW a \in Attempt
      PROVE  FirstArchives(a)'
  <2>1. FirstArchives(a)
    BY <1>2 DEF CalmFits
  <2>2. source'.last_processing_attempt_id = None =>
          attempt'[a].pc = "new" /\ file' = {} /\ source'.file_url = None /\ ~source'.processed
    BY <1>2, <2>1 DEF Cleans, FirstArchives, CleanPc
  <2>3. attempt'[a].pc \in {"archive", "store"} => file' \subseteq {a} /\ source'.file_url = None
    BY <1>2, <2>1 DEF Cleans, FirstArchives, CleanPc
  <2>4. attempt'[a].pc \in {"new", "archive"} => a \notin file'
    BY <1>2, <2>1 DEF Cleans, FirstArchives, CleanPc
  <2>5. ASSUME a \in file', attempt'[a].pc \in Writing \cup {"leave", "ended"},
               ~Recorded(a, "vectors")'
        PROVE  source'.file_url = a
    <3>1. attempt'[a] = attempt[a] /\ ~Recorded(a, "vectors") /\ a \in file
      BY <1>2, <2>5 DEF Cleans
    <3>2. source.file_url = a
      BY <2>1, <2>5, <3>1 DEF FirstArchives
    <3> QED BY <3>1, <3>2 DEF Cleans
  <2> QED BY <2>2, <2>3, <2>4, <2>5 DEF FirstArchives
<1>3. ASSUME NEW a \in Attempt
      PROVE  BatchesFit(a)'
  <2>1. CASE attempt'[a] = attempt[a]
    <3>1. BatchesFit(a) /\ (attempt[a].pc \in Writing => ~Recorded(a, "vectors"))
      BY <1>0, <1>3 DEF CalmFits, TaskFits, Writing, WorkPc
    <3>2. \A c \in Chunk : vector'[c] = a => vector[c] = a
      BY <1>0, <1>3 DEF Cleans
    <3>3. \A c \in Chunk : vector[c] = a /\ ~Recorded(a, "vectors") => vector'[c] = a
      BY <1>3 DEF Cleans
    <3>4. \/ attempt[a].pc \in Writing /\ ~Recorded(a, "vectors")
          \/ attempt[a].pc \notin Writing
      BY <3>1
    <3> QED BY <2>1, <3>1, <3>2, <3>3, <3>4 DEF BatchesFit, Cleans
  <2>2. CASE attempt'[a].pc \in CleanPc \cup {"record", "leave"}
    BY <2>2 DEF BatchesFit, CleanPc, Writing, WorkPc
  <2> QED BY <1>3, <2>1, <2>2 DEF Cleans
<1>4. ASSUME NEW a \in Attempt
      PROVE  VectorsFirst(a)'
  BY <1>4 DEF CalmFits, Cleans, VectorsFirst
<1>5. ProcessedFits'
  <2> SUFFICES ASSUME source.processed
               PROVE  ProcessedFits'
    BY DEF ProcessedFits, Cleans
  <2>1. PICK a \in Attempt :
          /\ source.last_processing_attempt_id = a
          /\ attempt[a].pc \in {"content", "leave", "ended", "crashed"}
          /\ ~Recorded(a, "vectors")
          /\ source.state = "present" => \A c \in Chunk : vector[c] = a
    BY DEF CalmFits, ProcessedFits
  <2>2. attempt'[a] = attempt[a] /\ ~Recorded(a, "vectors")'
    BY <2>1 DEF Cleans, CleanPc
  <2>3. source.state = "present" => \A c \in Chunk : vector'[c] = a
    BY <2>1 DEF Cleans
  <2> QED BY <2>1, <2>2, <2>3 DEF ProcessedFits, Cleans
<1>6. DeletionFits'
  <2>1. ASSUME source.state = "gone" \/ (deleter.ok /\ deleter.pc \in {"file", "finish"}),
               NEW a \in Attempt,
               attempt'[a].pc \in {"content", "leave", "ended"}, ~Recorded(a, "vectors")'
        PROVE  ~Left(a, "vectors")'
    <3>1. attempt'[a] = attempt[a] /\ ~Recorded(a, "vectors")
      BY <2>1 DEF Cleans
    <3>2. ~Left(a, "vectors")
      BY <2>1, <3>1 DEF CalmFits, DeletionFits
    <3> QED BY <1>0, <2>1, <3>2 DEF Left, Cleans
  <2>2. source.state = "gone" \/ (deleter.ok /\ deleter.pc = "finish") => source'.file_url \notin file'
    <3>1. None \notin file
      BY <1>0 DEF LedgerInv, TypeOK
    <3> QED BY <3>1 DEF CalmFits, DeletionFits, Cleans
  <2>3. source'.state = source.state /\ deleter' = deleter
    BY DEF Cleans
  <2> QED BY <2>1, <2>2, <2>3 DEF DeletionFits
<1> QED BY <1>1, <1>2, <1>3, <1>4, <1>5, <1>6 DEF CalmFits

LEMMA CallsTakeOwn ==
  ASSUME TypeOK, NEW a \in Attempt, NEW k \in Kind, NEW ok \in BOOLEAN, Calls(a, k, ok)
  PROVE  /\ \A c \in Chunk : vector'[c] = vector[c] \/ (vector'[c] = None /\ vector[c] = a)
         /\ file' \subseteq file
<1>1. CASE DeleteArtifact(a, k) /\ k = "vectors"
  BY <1>1 DEF DeleteArtifact
<1>2. CASE DeleteArtifact(a, k) /\ k # "vectors"
  BY <1>2 DEF DeleteArtifact
<1>3. CASE (ok => VectorsUnasked(k)) /\ UNCHANGED <<vector, file>>
  BY <1>3
<1> QED BY <1>1, <1>2, <1>3 DEF Calls

\* The columns of the row that only ingestion and deletion write.
RowColumns ==
  /\ source'.state = source.state /\ source'.live = source.live
  /\ source'.processed = source.processed
  /\ source'.last_processing_attempt_id = source.last_processing_attempt_id
  /\ source'.worker_attempt_id = source.worker_attempt_id

LEMMA ResolvesColumns ==
  ASSUME TypeOK, NEW a \in Attempt, NEW k \in Kind, NEW x, NEW ok, Resolves(a, k, x, ok)
  PROVE  /\ RowColumns
         /\ \/ source'.file_url = source.file_url
            \/ source'.file_url = None /\ source.file_url = a
<1>1. source \in SourceRow
  BY DEF TypeOK
<1>2. CASE task[a][k].claimed_by # x
  BY <1>2 DEF Resolves, RowColumns
<1>3. CASE task[a][k].claimed_by = x
  <2>1. source' = [source EXCEPT
               !.marked = IF Exists /\ ok /\ @ = a THEN None ELSE @,
               !.file_url = IF Exists /\ ok /\ k = "s3" /\ @ = a THEN None ELSE @]
    BY <1>3 DEF Resolves
  <2>2. RowColumns
    BY <1>1, <2>1 DEF RowColumns, SourceRow
  <2>3. source'.file_url = IF Exists /\ ok /\ k = "s3" /\ source.file_url = a
                           THEN None ELSE source.file_url
    BY <1>1, <2>1 DEF SourceRow
  <2> QED BY <2>2, <2>3
<1> QED BY <1>2, <1>3

\* A step that leaves what is recorded as it is.
LEMMA CleansWith ==
  ASSUME LedgerInv, CalmFits, NEW a \in Attempt, Recorded(a, "vectors"),
         \A b \in Attempt, k \in Kind : Recorded(b, k)' <=> Recorded(b, k),
         \A b \in Attempt :
           \/ attempt'[b] = attempt[b]
           \/ /\ b = a /\ attempt[a].pc \in CleanPc /\ attempt'[a].pc \in CleanPc \cup {"record", "leave"}
              /\ attempt'[a].pc # "record" \/ attempt'[a].kind = "s3",
         \A c \in Chunk : vector'[c] = vector[c] \/ (vector'[c] = None /\ vector[c] = a),
         file' \subseteq file,
         RowColumns,
         source'.file_url = source.file_url \/ (source'.file_url = None /\ source.file_url = a),
         UNCHANGED <<deleter, events>>
  PROVE  Cleans
<1>1. /\ "vectors" \in Kind /\ "s3" \in Kind
      /\ \A b \in Attempt : Recorded(b, "s3") => Recorded(b, "vectors")
  BY DEF CalmFits, VectorsFirst, Kind
<1>2. \A b \in Attempt : /\ Recorded(b, "vectors") => Recorded(b, "vectors")'
                         /\ Recorded(b, "vectors")' => \/ Recorded(b, "vectors")
                                                       \/ attempt[b].pc = "record"
                         /\ Recorded(b, "s3")' => Recorded(b, "vectors")'
  BY <1>1
<1>3. \A b \in Attempt :
        \/ attempt'[b] = attempt[b]
        \/ /\ attempt[b].pc \in CleanPc \cup {"record"}
           /\ attempt'[b].pc \in CleanPc \cup {"record", "leave"}
           /\ attempt'[b].pc # "record" \/ attempt'[b].kind = "s3"
           /\ Recorded(b, "vectors")'
  BY <1>1
<1>4. \A c \in Chunk : \/ vector'[c] = vector[c]
                       \/ vector'[c] = None /\ Recorded(vector[c], "vectors") /\ vector[c] \in Attempt
  OBVIOUS
<1> QED BY <1>2, <1>3, <1>4 DEF Cleans, RowColumns

\* A step that only moves the ledger's claims, and a runner.
LEMMA CleansNothing ==
  ASSUME LedgerInv, CalmFits,
         \A b \in Attempt, k \in Kind : Recorded(b, k)' <=> Recorded(b, k),
         UNCHANGED <<source, vector, file, attempt, deleter, events>>
  PROVE  Cleans
<1>1. /\ "vectors" \in Kind /\ "s3" \in Kind
      /\ \A b \in Attempt : Recorded(b, "s3") => Recorded(b, "vectors")
  BY DEF CalmFits, VectorsFirst, Kind
<1>2. \A b \in Attempt : /\ Recorded(b, "vectors")' <=> Recorded(b, "vectors")
                         /\ Recorded(b, "s3")' => Recorded(b, "vectors")'
  BY <1>1
<1> QED BY <1>2 DEF Cleans

LEMMA CompensationCleans ==
  ASSUME LedgerInv, LedgerInv', Calm, CalmFits, NEW a \in Attempt, Compensation(a)
  PROVE  Cleans
<1> PICK k \in Kind : k = attempt[a].kind
  BY TypedFields DEF LedgerInv
<1> PICK ok \in BOOLEAN : ok = attempt[a].ok
  BY TypedFields, Fields DEF LedgerInv
<1>0. /\ TypeOK /\ Fits(a) /\ source \in SourceRow /\ a \in Claimant
      /\ Kind = {"vectors", "s3"} /\ VectorsFirst(a)
      /\ attempt[a].pc \in CleanPc \/ attempt[a].pc = "record"
      /\ ~ClearRaises(a)
  BY TypedFields DEF LedgerInv, TypeOK, Calm, CalmFits, Compensation, RecordPending, ClaimDirect,
     DeleteDirect, ClearFileUrl, ClearRaises, ResolveDirect, ReleaseDirect, CleanPc
<1>1. CASE RecordPending(a)
  <2>1. /\ Becomes(a, "claim", attempt[a].archived, attempt[a].upserted, k, ok)
        /\ Records(a, k, "pending", task[a][k].claimed_by, task[a][k].leased)
    BY <1>0, <1>1, GotoIs, StateIs DEF RecordPending, Pc
  <2>2. /\ \A j \in Kind \ {k} : Recorded(a, j)' <=> Recorded(a, j)
        /\ Recorded(a, k)'
        /\ \A b \in Attempt \ {a}, j \in Kind : Recorded(b, j)' <=> Recorded(b, j)
    BY <2>1 DEF Records, Recorded
  <2>3. k = "s3" => Recorded(a, "vectors")
    BY <1>0, <1>1 DEF VectorsFirst, RecordPending
  <2>4. attempt[a].pc = "record" /\ Recorded(a, "vectors")'
    BY <1>0, <1>1, <2>2, <2>3 DEF RecordPending
  <2>5. \A b \in Attempt : /\ Recorded(b, "vectors") => Recorded(b, "vectors")'
                           /\ Recorded(b, "vectors")' => \/ Recorded(b, "vectors")
                                                         \/ attempt[b].pc = "record"
                           /\ Recorded(b, "s3")' => Recorded(b, "vectors")'
    BY <1>0, <2>2, <2>4 DEF CalmFits, VectorsFirst
  <2>6. \A b \in Attempt :
          \/ attempt'[b] = attempt[b]
          \/ /\ attempt[b].pc \in CleanPc \cup {"record"}
             /\ attempt'[b].pc \in CleanPc \cup {"record", "leave"}
             /\ attempt'[b].pc # "record" \/ attempt'[b].kind = "s3"
             /\ Recorded(b, "vectors")'
    BY <2>1, <2>4 DEF Becomes, CleanPc
  <2>7. RowColumns /\ source'.file_url = source.file_url
    BY <1>0, <1>1 DEF RecordPending, RowColumns, SourceRow
  <2> QED BY <1>1, <2>5, <2>6, <2>7 DEF Cleans, RowColumns, RecordPending
<1>2. CASE attempt[a].pc \in CleanPc
  <2>1. Recorded(a, "vectors")
    BY <1>0, <1>2 DEF VectorsFirst
  <2>2. CASE ClaimDirect(a)
    <3>1. /\ \/ Becomes(a, "delete", attempt[a].archived, attempt[a].upserted, k, ok)
             \/ Becomes(a, "record", attempt[a].archived, attempt[a].upserted, "s3", FALSE)
             \/ Becomes(a, "leave", attempt[a].archived, attempt[a].upserted, "vectors", FALSE)
          /\ task' = task \/ Records(a, k, task[a][k].state, a, TRUE)
      BY <1>0, <2>2, GotoIs, NextKindIs, ClaimsIs DEF ClaimDirect, Pc
    <3>2. \A b \in Attempt, j \in Kind : Recorded(b, j)' <=> Recorded(b, j)
      BY <3>1 DEF Records, Recorded
    <3> QED BY <1>0, <1>2, <2>1, <2>2, <3>1, <3>2, CleansWith
         DEF ClaimDirect, Becomes, CleanPc, RowColumns
  <2>3. CASE DeleteDirect(a)
    <3>1. PICK yes \in BOOLEAN :
            /\ Calls(a, k, yes)
            /\ attempt' = [attempt EXCEPT ![a].ok = yes,
                             ![a].pc = IF yes /\ attempt[a].kind = "s3" THEN "clear" ELSE "resolve"]
      BY <2>3 DEF DeleteDirect
    <3>2. PICK pc \in {"clear", "resolve"} :
            Becomes(a, pc, attempt[a].archived, attempt[a].upserted, k, yes)
      BY <1>0, <3>1, AnswerIs DEF Pc
    <3>3. /\ \A c \in Chunk : vector'[c] = vector[c] \/ (vector'[c] = None /\ vector[c] = a)
          /\ file' \subseteq file
      BY <1>0, <3>1, CallsTakeOwn
    <3>4. \A b \in Attempt, j \in Kind : Recorded(b, j)' <=> Recorded(b, j)
      BY <2>3 DEF DeleteDirect, Recorded
    <3> QED BY <1>0, <1>2, <2>1, <2>3, <3>2, <3>3, <3>4, CleansWith
         DEF DeleteDirect, Becomes, CleanPc, RowColumns
  <2>4. CASE ClearFileUrl(a)
    <3>1. Becomes(a, "resolve", attempt[a].archived, attempt[a].upserted, k, ok)
      BY <1>0, <2>4, GotoIs DEF ClearFileUrl, Pc
    <3>2. /\ RowColumns
          /\ source'.file_url = source.file_url \/ (source'.file_url = None /\ source.file_url = a)
      BY <1>0, <2>4 DEF ClearFileUrl, RowColumns, SourceRow
    <3>3. \A b \in Attempt, j \in Kind : Recorded(b, j)' <=> Recorded(b, j)
      BY <2>4 DEF ClearFileUrl, Recorded
    <3> QED BY <1>0, <1>2, <2>1, <2>4, <3>1, <3>2, <3>3, CleansWith
         DEF ClearFileUrl, Becomes, CleanPc
  <2>5. CASE ResolveDirect(a)
    <3>1. /\ Becomes(a, "release", attempt[a].archived, attempt[a].upserted, k, ok)
          /\ Resolves(a, k, a, ok)
      BY <1>0, <2>5, GotoIs DEF ResolveDirect, Pc
    <3>2. /\ RowColumns
          /\ source'.file_url = source.file_url \/ (source'.file_url = None /\ source.file_url = a)
      BY <1>0, <3>1, ResolvesColumns
    <3>3. Recorded(a, k)
      BY <1>0, <1>2 DEF Fits, TaskFits
    <3>4. \/ task' = task
          \/ Records(a, k, IF ok THEN "resolved" ELSE "failed", a, task[a][k].leased)
      BY <1>0, <3>1, ResolvesIs
    <3>5. \A b \in Attempt, j \in Kind : Recorded(b, j)' <=> Recorded(b, j)
      BY <3>3, <3>4 DEF Records, Recorded
    <3> QED BY <1>0, <1>2, <2>1, <2>5, <3>1, <3>2, <3>5, CleansWith
         DEF ResolveDirect, Becomes, CleanPc
  <2>6. CASE ReleaseDirect(a)
    <3>1. /\ \/ Becomes(a, "record", attempt[a].archived, attempt[a].upserted, "s3", FALSE)
             \/ Becomes(a, "leave", attempt[a].archived, attempt[a].upserted, "vectors", FALSE)
          /\ task' = task \/ Records(a, k, task[a][k].state, None, FALSE)
      BY <1>0, <2>6, NextKindIs, ReleasesIs DEF ReleaseDirect
    <3>2. \A b \in Attempt, j \in Kind : Recorded(b, j)' <=> Recorded(b, j)
      BY <3>1 DEF Records, Recorded
    <3> QED BY <1>0, <1>2, <2>1, <2>6, <3>1, <3>2, CleansWith
         DEF ReleaseDirect, Becomes, CleanPc, RowColumns
  <2>7. CASE RecordPending(a)
    BY <1>2, <2>7 DEF RecordPending, CleanPc
  <2> QED BY <1>0, <2>2, <2>3, <2>4, <2>5, <2>6, <2>7 DEF Compensation
<1> QED BY <1>0, <1>1, <1>2 DEF Compensation, ClaimDirect, DeleteDirect, ClearFileUrl,
     ResolveDirect, ReleaseDirect, CleanPc

LEMMA RunnerCleans ==
  ASSUME LedgerInv, CalmFits, NEW r \in Runner,
         \/ \E a \in Attempt, k \in Kind : RunnerClaims(r, a, k)
         \/ \E ok \in BOOLEAN : RunnerDeletes(r, ok)
         \/ RunnerResolves(r) \/ RunnerReleases(r) \/ RunnerDies(r)
  PROVE  Cleans
<1>0. TypeOK /\ RunnerFits(r) /\ r \in Claimant /\ Kind = {"vectors", "s3"}
  BY RunnerFields DEF LedgerInv
<1>1. ASSUME NEW a \in Attempt, NEW k \in Kind, RunnerClaims(r, a, k)
      PROVE  Cleans
  <2>1. Records(a, k, task[a][k].state, r, TRUE)
    BY <1>0, <1>1, ClaimsIs DEF RunnerClaims
  <2>2. \A b \in Attempt, j \in Kind : Recorded(b, j)' <=> Recorded(b, j)
    BY <2>1 DEF Records, Recorded
  <2> QED BY <1>1, <2>2, CleansNothing DEF RunnerClaims
<1>2. ASSUME runner[r].pc # "idle"
      PROVE  \E a \in Attempt, k \in Kind :
               /\ a = runner[r].attempt /\ k = runner[r].kind
               /\ Recorded(a, k) /\ Recorded(a, "vectors")
  BY <1>0, <1>2, RunnerWorks DEF CalmFits, VectorsFirst
<1>3. ASSUME NEW ok \in BOOLEAN, RunnerDeletes(r, ok)
      PROVE  Cleans
  <2>1. PICK a \in Attempt, k \in Kind :
          /\ a = runner[r].attempt /\ k = runner[r].kind
          /\ Recorded(a, k) /\ Recorded(a, "vectors")
    BY <1>2, <1>3 DEF RunnerDeletes
  <2>2. Calls(a, k, ok) /\ UNCHANGED <<source, task, attempt, deleter, events>>
    BY <1>3, <2>1 DEF RunnerDeletes
  <2>3. /\ \A c \in Chunk : vector'[c] = vector[c] \/ (vector'[c] = None /\ vector[c] = a)
        /\ file' \subseteq file
    BY <1>0, <2>2, CallsTakeOwn
  <2>4. \A b \in Attempt, j \in Kind : Recorded(b, j)' <=> Recorded(b, j)
    BY <2>2 DEF Recorded
  <2> QED BY <2>1, <2>2, <2>3, <2>4, CleansWith DEF RowColumns
<1>4. CASE RunnerResolves(r)
  <2>1. PICK a \in Attempt, k \in Kind :
          /\ a = runner[r].attempt /\ k = runner[r].kind
          /\ Recorded(a, k) /\ Recorded(a, "vectors")
    BY <1>2, <1>4 DEF RunnerResolves
  <2>2. PICK ok \in BOOLEAN : ok = runner[r].ok
    BY <1>0, RunnerFields
  <2>3. Resolves(a, k, r, ok) /\ UNCHANGED <<vector, file, attempt, deleter, events>>
    BY <1>4, <2>1, <2>2 DEF RunnerResolves
  <2>4. /\ RowColumns
        /\ source'.file_url = source.file_url \/ (source'.file_url = None /\ source.file_url = a)
    BY <1>0, <2>3, ResolvesColumns
  <2>5. \/ task' = task
        \/ Records(a, k, IF ok THEN "resolved" ELSE "failed", r, task[a][k].leased)
    BY <1>0, <2>3, ResolvesIs
  <2>6. \A b \in Attempt, j \in Kind : Recorded(b, j)' <=> Recorded(b, j)
    BY <2>1, <2>5 DEF Records, Recorded
  <2> QED BY <2>1, <2>3, <2>4, <2>6, CleansWith
<1>5. CASE RunnerReleases(r)
  <2>1. PICK a \in Attempt, k \in Kind :
          /\ a = runner[r].attempt /\ k = runner[r].kind
          /\ Recorded(a, k) /\ Recorded(a, "vectors")
    BY <1>2, <1>5 DEF RunnerReleases
  <2>2. task' = task \/ Records(a, k, task[a][k].state, None, FALSE)
    BY <1>0, <1>5, <2>1, ReleasesIs DEF RunnerReleases
  <2>3. \A b \in Attempt, j \in Kind : Recorded(b, j)' <=> Recorded(b, j)
    BY <2>2 DEF Records, Recorded
  <2> QED BY <1>5, <2>3, CleansNothing DEF RunnerReleases
<1>6. CASE RunnerDies(r)
  BY <1>6, CleansNothing DEF RunnerDies, Recorded
<1> QED BY <1>1, <1>3, <1>4, <1>5, <1>6

LEMMA LapseCleans ==
  ASSUME LedgerInv, CalmFits, NEW a \in Attempt, NEW k \in Kind, ClaimLapses(a, k)
  PROVE  Cleans
<1>1. Records(a, k, task[a][k].state, task[a][k].claimed_by, FALSE)
  BY LapseIs DEF LedgerInv
<1>2. \A b \in Attempt, j \in Kind : Recorded(b, j)' <=> Recorded(b, j)
  BY <1>1 DEF Records, Recorded
<1> QED BY <1>2, CleansNothing DEF ClaimLapses

\* What every step of the ingestion by a does to the rest.
Frame(a) ==
  /\ \A b \in Attempt \ {a} : /\ attempt'[b] = attempt[b]
                              /\ attempt[b].pc \in {"new", "ended", "crashed"}
  /\ file' \subseteq file \cup {a}
  /\ \A c \in Chunk : vector'[c] \in {vector[c], a}
  /\ source'.last_processing_attempt_id = a
  /\ source'.state = source.state
  /\ \/ source'.file_url = source.file_url
     \/ source'.file_url = a /\ file \subseteq {a}
  /\ UNCHANGED <<task, deleter, events>>

\* What is left to show of such a step: a's own part.
OwnCalm(a) ==
  /\ Alone(a)' /\ FirstArchives(a)' /\ BatchesFit(a)' /\ VectorsFirst(a)'
  /\ ProcessedFits'
  /\ source.state # "present" =>
       /\ attempt'[a].pc \in {"content", "leave", "ended"} /\ ~Recorded(a, "vectors")' =>
            (Left(a, "vectors")' => attempt[a].pc \in {"content", "leave"} /\ Left(a, "vectors"))
       /\ a \in file' => a \in file \/ source.file_url = None
       /\ source'.file_url = source.file_url

LEMMA FrameCalm ==
  ASSUME LedgerInv, CalmFits, NEW a \in Attempt, Frame(a), OwnCalm(a)
  PROVE  CalmFits'
<1>0. /\ None \notin Attempt /\ file \subseteq Attempt
      /\ \A b \in Attempt, k \in Kind : Recorded(b, k)' <=> Recorded(b, k)
      /\ "vectors" \in Kind /\ "s3" \in Kind
      /\ deleter.pc # "idle" => source.state # "present"
  BY NamesAssumption DEF Frame, Recorded, Kind, LedgerInv, TypeOK
<1>1. ASSUME NEW b \in Attempt \ {a}
      PROVE  Alone(b)' /\ FirstArchives(b)' /\ BatchesFit(b)' /\ VectorsFirst(b)'
  <2>1. attempt'[b] = attempt[b] /\ attempt[b].pc \in {"new", "ended", "crashed"}
    BY <1>1 DEF Frame
  <2>2. FirstArchives(b) /\ BatchesFit(b) /\ VectorsFirst(b)
    BY <1>1 DEF CalmFits
  <2>3. Alone(b)'
    BY <2>1 DEF Alone, Running
  <2>4. FirstArchives(b)'
    BY <1>0, <1>1, <2>1, <2>2 DEF FirstArchives, Frame, Writing
  <2>5. BatchesFit(b)'
    BY <1>1, <2>1, <2>2 DEF BatchesFit, Frame, Writing
  <2>6. VectorsFirst(b)'
    BY <1>0, <2>1, <2>2 DEF VectorsFirst
  <2> QED BY <2>3, <2>4, <2>5, <2>6
<1>2. DeletionFits'
  <2>1. source'.state = source.state /\ deleter' = deleter
    BY DEF Frame
  <2>2. ASSUME source.state = "gone" \/ (deleter.ok /\ deleter.pc \in {"file", "finish"}),
               NEW b \in Attempt,
               attempt'[b].pc \in {"content", "leave", "ended"}, ~Recorded(b, "vectors")'
        PROVE  ~Left(b, "vectors")'
    <3>0. source.state # "present"
      BY <1>0, <2>2
    <3>1. CASE b = a
      BY <1>0, <2>2, <3>0, <3>1 DEF OwnCalm, CalmFits, DeletionFits
    <3>2. CASE b # a
      <4>1. ~Left(b, "vectors")
        BY <1>0, <2>2, <3>2 DEF Frame, CalmFits, DeletionFits
      <4> QED BY <2>2, <3>2, <4>1 DEF Frame, Left
    <3> QED BY <3>1, <3>2
  <2>3. ASSUME source.state = "gone" \/ (deleter.ok /\ deleter.pc = "finish")
        PROVE  source'.file_url \notin file'
    <3>1. source.state # "present" /\ source.file_url \notin file
      BY <1>0, <2>3 DEF CalmFits, DeletionFits
    <3> QED BY <1>0, <3>1 DEF Frame, OwnCalm
  <2> QED BY <2>1, <2>2, <2>3 DEF DeletionFits
<1> QED BY <1>1, <1>2 DEF CalmFits, OwnCalm

\* The attempt that runs: it is the only one, and nothing is finished yet.
LEMMA Only ==
  ASSUME LedgerInv, CalmFits, NEW a \in Attempt, Running(a)
  PROVE  /\ \A b \in Attempt \ {a} : attempt[b].pc \in {"new", "ended", "crashed"}
         /\ source.last_processing_attempt_id = a /\ source.worker_attempt_id = a
         /\ Exists => source.live
         /\ attempt[a].pc \notin {"content", "leave"} => ~source.processed
         /\ FirstArchives(a) /\ BatchesFit(a) /\ VectorsFirst(a)
         /\ attempt[a].pc \in WorkPc => ~Recorded(a, "vectors") /\ ~Recorded(a, "s3")
<1>1. source.last_processing_attempt_id = a /\ source.worker_attempt_id = a
  BY DEF CalmFits, Alone
<1>2. \A b \in Attempt \ {a} : ~Running(b)
  BY <1>1 DEF CalmFits, Alone
<1>3. attempt[a].pc \notin {"content", "leave"} => ~source.processed
  BY <1>1 DEF CalmFits, ProcessedFits, Running
<1> QED BY <1>1, <1>2, <1>3 DEF CalmFits, Alone, Running, LedgerInv, Fits, TaskFits

LEMMA AdmitCalm ==
  ASSUME LedgerInv, CalmFits, NEW a \in Attempt, AdmitWorkerAttempt(a)
  PROVE  CalmFits'
<1>0. /\ TypeOK /\ source \in SourceRow /\ a # None /\ FirstArchives(a) /\ BatchesFit(a)
      /\ VectorsFirst(a) /\ attempt[a].pc = "new" /\ source.state = "present"
      /\ UNCHANGED <<vector, file, task, runner, deleter, events>>
      /\ ~Recorded(a, "vectors") /\ ~Recorded(a, "s3")
  BY NamesAssumption DEF LedgerInv, TypeOK, CalmFits, AdmitWorkerAttempt, Fits, TaskFits, WorkPc
<1>1. /\ source'.last_processing_attempt_id = a /\ source'.worker_attempt_id = a
      /\ source'.live /\ source'.state = "present" /\ ~source'.processed
      /\ source'.file_url = source.file_url
  BY <1>0 DEF AdmitWorkerAttempt, SourceRow
<1>2. PICK pc \in {"archive", "index"} :
        /\ Becomes(a, pc, attempt[a].archived, attempt[a].upserted, attempt[a].kind, attempt[a].ok)
        /\ pc = "archive" => source.last_processing_attempt_id = None
  BY <1>0, GotoIs DEF AdmitWorkerAttempt, Pc
<1>3. \A b \in Attempt \ {a} : attempt[b].pc \in {"new", "ended", "crashed"}
  <2> SUFFICES ASSUME NEW b \in Attempt \ {a}, Running(b)
               PROVE  FALSE
    BY DEF Running
  <2>1. source.worker_attempt_id = b /\ (Exists => source.live)
    BY Only
  <2> QED BY <1>0, <2>1, NamesAssumption DEF AdmitWorkerAttempt, Exists
<1>4. Frame(a)
  BY <1>0, <1>1, <1>2, <1>3 DEF Frame, Becomes
<1>5. \A k \in Kind : Recorded(a, k)' <=> Recorded(a, k)
  BY <1>0 DEF Recorded
<1>6. Alone(a)'
  BY <1>1 DEF Alone
<1>7. FirstArchives(a)'
  BY <1>0, <1>1, <1>2 DEF FirstArchives, Becomes
<1>8. BatchesFit(a)'
  BY <1>0, <1>2, ChunksAssumption DEF BatchesFit, Becomes, Writing, WorkPc, Chunk
<1>9. VectorsFirst(a)'
  BY <1>0, <1>2, <1>5 DEF VectorsFirst, Becomes, CleanPc, Kind
<1>10. ProcessedFits'
  BY <1>1 DEF ProcessedFits
<1> QED BY <1>0, <1>1, <1>4, <1>6, <1>7, <1>8, <1>9, <1>10, FrameCalm DEF OwnCalm

\* A step of the attempt that runs which leaves the stores and the key alone.
LEMMA QuietCalm ==
  ASSUME LedgerInv, CalmFits, NEW a \in Attempt, Running(a),
         UNCHANGED <<vector, file, task, deleter, events>>,
         source'.state = source.state, source'.file_url = source.file_url,
         source'.last_processing_attempt_id = a,
         NEW pc \in Pc, NEW archived, NEW upserted, NEW kind, NEW ok,
         Becomes(a, pc, archived, upserted, kind, ok),
         pc \notin {"ended", "crashed"} =>
           source'.worker_attempt_id = a /\ (Exists => source'.live),
         \/ /\ attempt[a].pc \in {"archive"} \cup Writing
            /\ pc \in {"record", "leave"} \cup Writing
            /\ upserted = attempt[a].upserted \/ pc = "record"
            /\ attempt[a].pc # "archive" \/ pc \notin {"last", "finalize", "content"}
            /\ pc \in {"last", "finalize", "content"} =>
                 attempt[a].pc \in {"last", "finalize", "content"}
            /\ pc = "record" => kind = "vectors"
            /\ pc = "leave" => attempt[a].pc = "content" \/ attempt[a].upserted = 0
            /\ pc = "content" => source.state = "present"
         \/ /\ attempt[a].pc = "store" /\ pc = "record" /\ kind = "vectors"
         \/ /\ attempt[a].pc = "leave" /\ pc = "ended"
         \/ pc = "crashed",
         source'.processed =>
           \/ source.processed /\ pc \in {"leave", "ended", "crashed"}
           \/ pc = "content" /\ attempt[a].pc = "finalize"
  PROVE  CalmFits'
<1>0. /\ \A b \in Attempt \ {a} : attempt[b].pc \in {"new", "ended", "crashed"}
      /\ source.last_processing_attempt_id = a
      /\ FirstArchives(a) /\ BatchesFit(a) /\ VectorsFirst(a)
      /\ attempt[a].pc \in WorkPc => ~Recorded(a, "vectors") /\ ~Recorded(a, "s3")
      /\ None \notin Attempt
  BY Only, NamesAssumption
<1>1. Frame(a)
  BY <1>0 DEF Frame, Becomes
<1>2. /\ \A b \in Attempt, k \in Kind : Recorded(b, k)' <=> Recorded(b, k)
      /\ Left(a, "vectors")' <=> Left(a, "vectors")
      /\ "vectors" \in Kind /\ "s3" \in Kind
  BY DEF Recorded, Left, Kind
<1>3. Alone(a)'
  BY DEF Alone, Running, Becomes, Exists
<1>4. FirstArchives(a)'
  BY <1>0, <1>2 DEF FirstArchives, Becomes, Writing
<1>5. BatchesFit(a)'
  <2>1. CASE pc \in Writing /\ attempt[a].pc \in {"archive"} \cup Writing
    <3>1. CASE attempt[a].pc = "archive"
      <4>1. attempt[a].upserted = 0 /\ \A c \in Chunk : vector[c] = a => c <= 0
        BY <1>0, <3>1 DEF BatchesFit, WorkPc
      <4>2. upserted = 0 /\ pc \notin {"last", "finalize", "content"}
        BY <2>1, <3>1, <4>1 DEF Writing
      <4> QED BY <2>1, <4>1, <4>2, ChunksAssumption DEF BatchesFit, Becomes, Writing, WorkPc, Chunk
    <3>2. CASE attempt[a].pc \in Writing
      <4>1. upserted = attempt[a].upserted
        BY <2>1, <3>2 DEF Writing
      <4> QED BY <1>0, <2>1, <3>2, <4>1 DEF BatchesFit, Becomes, Writing, WorkPc
    <3> QED BY <2>1, <3>1, <3>2
  <2>2. CASE pc \in {"record", "leave", "ended", "crashed"}
    BY <2>2 DEF BatchesFit, Becomes, Writing, WorkPc
  <2> QED BY <2>1, <2>2
<1>6. VectorsFirst(a)'
  BY <1>0, <1>2 DEF VectorsFirst, Becomes, CleanPc, Writing, WorkPc
<1>7. ProcessedFits'
  <2> SUFFICES ASSUME source'.processed
               PROVE  ProcessedFits'
    BY DEF ProcessedFits
  <2>1. CASE source.processed /\ pc \in {"leave", "ended", "crashed"}
    <3>1. /\ ~Recorded(a, "vectors")
          /\ source.state = "present" => \A c \in Chunk : vector[c] = a
      BY <1>0, <2>1 DEF CalmFits, ProcessedFits
    <3> QED BY <1>2, <2>1, <3>1 DEF ProcessedFits, Becomes
  <2>2. CASE pc = "content" /\ attempt[a].pc = "finalize"
    <3>1. /\ ~Recorded(a, "vectors") /\ attempt[a].upserted = Chunks
          /\ source.state = "present" =>
               \A c \in Chunk : c <= attempt[a].upserted => vector[c] = a
      BY <1>0, <2>2 DEF BatchesFit, Writing, WorkPc
    <3>2. source.state = "present" => \A c \in Chunk : vector[c] = a
      BY <3>1, ChunksAssumption DEF Chunk
    <3> QED BY <1>2, <2>2, <3>1, <3>2 DEF ProcessedFits, Becomes
  <2> QED BY <2>1, <2>2
<1>8. ASSUME source.state # "present", pc \in {"content", "leave", "ended"},
             ~Recorded(a, "vectors"), Left(a, "vectors")
      PROVE  attempt[a].pc \in {"content", "leave"}
  <2> SUFFICES ASSUME attempt[a].pc \in {"archive"} \cup Writing, pc = "leave",
                      attempt[a].upserted = 0
               PROVE  FALSE
    BY <1>8 DEF Writing
  <2>1. \A c \in Chunk : vector[c] = a => c <= 0
    BY <1>0 DEF BatchesFit, Writing, WorkPc
  <2> QED BY <1>8, <2>1, ChunksAssumption DEF Left, Chunk
<1>9. source.state # "present" =>
        /\ attempt'[a].pc \in {"content", "leave", "ended"} /\ ~Recorded(a, "vectors")' =>
             (Left(a, "vectors")' => attempt[a].pc \in {"content", "leave"} /\ Left(a, "vectors"))
        /\ a \in file' => a \in file \/ source.file_url = None
        /\ source'.file_url = source.file_url
  BY <1>2, <1>8 DEF Becomes
<1> QED BY <1>1, <1>3, <1>4, <1>5, <1>6, <1>7, <1>9, FrameCalm DEF OwnCalm

\* The steps that leave both stores, and the key, as they are.
Quiet(a) ==
  \/ SkipArchive(a) \/ (StoreFileUrl(a) /\ ~OwnsRow(a)) \/ OfferOcr(a) \/ CheckOwnership(a)
  \/ PassLastCheck(a) \/ AttemptFails(a) \/ FinalizeSuccessfulProcessing(a)
  \/ WriteContent(a) \/ ReleaseWorkerAttempt(a) \/ Crash(a)

LEMMA QuietSteps ==
  ASSUME LedgerInv, CalmFits, Calm, NEW a \in Attempt, Quiet(a)
  PROVE  CalmFits'
<1> PICK archived : archived = attempt[a].archived
  OBVIOUS
<1> PICK upserted : upserted = attempt[a].upserted
  OBVIOUS
<1> PICK kind : kind = attempt[a].kind
  OBVIOUS
<1> PICK ok : ok = attempt[a].ok
  OBVIOUS
<1>0. /\ TypeOK /\ source \in SourceRow /\ Running(a)
      /\ UNCHANGED <<vector, file, task, deleter, events>>
  BY DEF LedgerInv, TypeOK, Quiet, Running, SkipArchive, StoreFileUrl, OfferOcr, CheckOwnership,
     PassLastCheck, AttemptFails, FinalizeSuccessfulProcessing, WriteContent,
     ReleaseWorkerAttempt, Crash, Calm
<1>1. /\ source.last_processing_attempt_id = a /\ source.worker_attempt_id = a
      /\ Exists => source.live
      /\ attempt[a].pc \notin {"content", "leave"} => ~source.processed
      /\ attempt[a].pc \in WorkPc => kind = "vectors"
  BY <1>0, Only DEF LedgerInv, Fits, TaskFits
<1>2. CASE SkipArchive(a)
  <2>1. Becomes(a, "index", archived, upserted, kind, ok) /\ attempt[a].pc = "archive"
        /\ source' = source
    BY <1>0, <1>2, GotoIs DEF SkipArchive, Pc
  <2> QED BY <1>0, <1>1, <2>1, QuietCalm DEF Pc, Writing
<1>3. CASE StoreFileUrl(a) /\ ~OwnsRow(a)
  <2>1. Becomes(a, "record", archived, 0, "vectors", FALSE) /\ attempt[a].pc = "store" /\ source' = source
    BY <1>0, <1>3, CompensateIs DEF StoreFileUrl
  <2> QED BY <1>0, <1>1, <2>1, QuietCalm DEF Pc, Writing, WorkPc
<1>4. CASE OfferOcr(a)
  <2>1. Becomes(a, "leave", archived, upserted, kind, ok) /\ attempt[a].pc = "index" /\ upserted = 0
    BY <1>0, <1>4, GotoIs DEF OfferOcr, Pc
  <2>2. /\ source'.state = source.state /\ source'.file_url = source.file_url /\ source'.live = source.live
        /\ source'.last_processing_attempt_id = a /\ source'.worker_attempt_id = a
        /\ ~source'.processed
    BY <1>0, <1>1, <1>4 DEF OfferOcr, SourceRow
  <2> QED BY <1>0, <1>1, <2>1, <2>2, QuietCalm DEF Pc, Writing
<1>5. ASSUME CheckOwnership(a) \/ PassLastCheck(a)
      PROVE  CalmFits'
  <2>1. /\ source'.state = source.state /\ source'.file_url = source.file_url /\ source'.live
        /\ source'.last_processing_attempt_id = a /\ source'.worker_attempt_id = a
        /\ source'.processed = source.processed
    BY <1>0, <1>1, <1>5 DEF CheckOwnership, PassLastCheck, SourceRow
  <2>2. CASE CheckOwnership(a)
    <3>1. Becomes(a, "upsert", archived, upserted, kind, ok) /\ attempt[a].pc = "index"
      BY <1>0, <2>2, GotoIs DEF CheckOwnership, Pc
    <3> QED BY <1>0, <1>1, <2>1, <3>1, QuietCalm DEF Pc, Writing
  <2>3. CASE PassLastCheck(a)
    <3>1. Becomes(a, "finalize", archived, upserted, kind, ok) /\ attempt[a].pc = "last"
      BY <1>0, <2>3, GotoIs DEF PassLastCheck, Pc
    <3> QED BY <1>0, <1>1, <2>1, <3>1, QuietCalm DEF Pc, Writing
  <2> QED BY <1>5, <2>2, <2>3
<1>6. CASE AttemptFails(a)
  <2>1. /\ Becomes(a, "record", archived, 0, "vectors", FALSE) /\ source' = source
        /\ attempt[a].pc \in {"archive", "index", "upsert", "last", "finalize"}
    BY <1>0, <1>6, CompensateIs DEF AttemptFails
  <2> QED BY <1>0, <1>1, <2>1, QuietCalm DEF Pc, Writing, WorkPc
<1>7. CASE FinalizeSuccessfulProcessing(a)
  <2>1. CASE OwnsRow(a) /\ ~source.processed
    <3>1. Becomes(a, "content", archived, upserted, kind, ok) /\ attempt[a].pc = "finalize"
          /\ source.state = "present"
      BY <1>0, <1>7, <2>1, GotoIs DEF FinalizeSuccessfulProcessing, Pc, OwnsRow
    <3>2. /\ source'.state = source.state /\ source'.file_url = source.file_url
          /\ source'.live = source.live
          /\ source'.last_processing_attempt_id = a /\ source'.worker_attempt_id = a
      BY <1>0, <1>1, <1>7, <2>1 DEF FinalizeSuccessfulProcessing, SourceRow
    <3> QED BY <1>0, <1>1, <3>1, <3>2, QuietCalm DEF Pc, Writing
  <2>2. CASE ~(OwnsRow(a) /\ ~source.processed)
    <3>1. /\ Becomes(a, "record", archived, 0, "vectors", FALSE) /\ source' = source
          /\ attempt[a].pc = "finalize"
      BY <1>0, <1>7, <2>2, CompensateIs DEF FinalizeSuccessfulProcessing
    <3> QED BY <1>0, <1>1, <3>1, QuietCalm DEF Pc, Writing, WorkPc
  <2> QED BY <2>1, <2>2
<1>8. CASE WriteContent(a)
  <2>1. Becomes(a, "leave", archived, upserted, kind, ok) /\ attempt[a].pc = "content"
        /\ source' = source
    BY <1>0, <1>8, GotoIs DEF WriteContent, Pc
  <2> QED BY <1>0, <1>1, <2>1, QuietCalm DEF Pc, Writing
<1>9. CASE ReleaseWorkerAttempt(a)
  <2>1. Becomes(a, "ended", FALSE, 0, "vectors", FALSE) /\ attempt[a].pc = "leave"
    BY <1>0, <1>9, EndsIs DEF ReleaseWorkerAttempt, Pc
  <2>2. /\ source'.state = source.state /\ source'.file_url = source.file_url
        /\ source'.last_processing_attempt_id = a
        /\ source'.processed = source.processed
    BY <1>0, <1>1, <1>9 DEF ReleaseWorkerAttempt, SourceRow
  <2> QED BY <1>0, <1>1, <2>1, <2>2, QuietCalm DEF Pc, Writing
<1>10. CASE Crash(a)
  <2>1. Becomes(a, "crashed", FALSE, 0, "vectors", FALSE) /\ source' = source
    BY <1>0, <1>10, EndsIs DEF Crash, Pc
  <2> QED BY <1>0, <1>1, <2>1, QuietCalm DEF Pc, Writing
<1> QED BY <1>2, <1>3, <1>4, <1>5, <1>6, <1>7, <1>8, <1>9, <1>10 DEF Quiet

LEMMA UploadCalm ==
  ASSUME LedgerInv, CalmFits, NEW a \in Attempt, UploadFile(a)
  PROVE  CalmFits'
<1>0. /\ TypeOK /\ attempt[a].pc = "archive" /\ file' = file \cup {a}
      /\ UNCHANGED <<source, vector, task, runner, deleter, events>>
      /\ Running(a) /\ None \notin Attempt
  BY NamesAssumption DEF UploadFile, LedgerInv, Running
<1>1. PICK upserted : upserted = attempt[a].upserted
  OBVIOUS
<1>2. Becomes(a, "store", TRUE, upserted, attempt[a].kind, attempt[a].ok)
  BY <1>0, <1>1, UploadIs
<1>3. /\ \A b \in Attempt \ {a} : attempt[b].pc \in {"new", "ended", "crashed"}
      /\ source.last_processing_attempt_id = a /\ source.worker_attempt_id = a
      /\ Exists => source.live
      /\ ~source.processed /\ source.file_url = None /\ file \subseteq {a}
      /\ BatchesFit(a) /\ VectorsFirst(a)
      /\ ~Recorded(a, "vectors") /\ ~Recorded(a, "s3")
  BY <1>0, Only DEF FirstArchives, WorkPc
<1>4. Frame(a)
  BY <1>0, <1>2, <1>3 DEF Frame, Becomes
<1>5. \A k \in Kind : Recorded(a, k)' <=> Recorded(a, k)
  BY <1>0 DEF Recorded
<1>6. Alone(a)' /\ FirstArchives(a)'
  BY <1>0, <1>2, <1>3 DEF Alone, Exists, FirstArchives, Becomes, Writing
<1>7. BatchesFit(a)'
  BY <1>0, <1>1, <1>2, <1>3 DEF BatchesFit, Becomes, Writing, WorkPc
<1>8. VectorsFirst(a)'
  BY <1>2, <1>3, <1>5 DEF VectorsFirst, Becomes, CleanPc, Kind
<1>9. ProcessedFits'
  BY <1>0, <1>3 DEF ProcessedFits
<1>10. /\ attempt'[a].pc \notin {"content", "leave", "ended"} /\ source.file_url = None
       /\ source'.file_url = source.file_url
  BY <1>0, <1>2, <1>3 DEF Becomes
<1> QED BY <1>4, <1>6, <1>7, <1>8, <1>9, <1>10, FrameCalm DEF OwnCalm

LEMMA StoreCalm ==
  ASSUME LedgerInv, CalmFits, NEW a \in Attempt, StoreFileUrl(a), OwnsRow(a)
  PROVE  CalmFits'
<1>0. /\ TypeOK /\ source \in SourceRow /\ attempt[a].pc = "store" /\ source.state = "present"
      /\ UNCHANGED <<vector, file, task, runner, deleter, events>>
      /\ Running(a) /\ None \notin Attempt
  BY NamesAssumption DEF StoreFileUrl, OwnsRow, LedgerInv, TypeOK, Running
<1>1. PICK upserted : upserted = attempt[a].upserted
  OBVIOUS
<1>2. Becomes(a, "index", attempt[a].archived, upserted, attempt[a].kind, attempt[a].ok)
  BY <1>0, <1>1, GotoIs DEF StoreFileUrl, Pc
<1>3. /\ \A b \in Attempt \ {a} : attempt[b].pc \in {"new", "ended", "crashed"}
      /\ source.last_processing_attempt_id = a /\ source.worker_attempt_id = a
      /\ source.live /\ ~source.processed /\ file \subseteq {a}
      /\ upserted = 0 /\ \A c \in Chunk : vector[c] = a => c <= 0
      /\ VectorsFirst(a)
      /\ ~Recorded(a, "vectors") /\ ~Recorded(a, "s3")
  BY <1>0, <1>1, Only DEF FirstArchives, BatchesFit, WorkPc, Exists
<1>4. /\ source'.state = "present" /\ source'.file_url = a /\ source'.live /\ ~source'.processed
      /\ source'.last_processing_attempt_id = a /\ source'.worker_attempt_id = a
  BY <1>0, <1>3 DEF StoreFileUrl, SourceRow
<1>5. Frame(a)
  BY <1>0, <1>2, <1>3, <1>4 DEF Frame, Becomes
<1>6. \A k \in Kind : Recorded(a, k)' <=> Recorded(a, k)
  BY <1>0 DEF Recorded
<1>7. Alone(a)' /\ FirstArchives(a)'
  BY <1>0, <1>2, <1>4 DEF Alone, FirstArchives, Becomes
<1>8. BatchesFit(a)'
  BY <1>0, <1>2, <1>3, ChunksAssumption DEF BatchesFit, Becomes, Writing, WorkPc, Chunk
<1>9. VectorsFirst(a)'
  BY <1>2, <1>3, <1>6 DEF VectorsFirst, Becomes, CleanPc, Kind
<1>10. ProcessedFits'
  BY <1>4 DEF ProcessedFits
<1> QED BY <1>0, <1>5, <1>7, <1>8, <1>9, <1>10, FrameCalm DEF OwnCalm

LEMMA UpsertCalm ==
  ASSUME LedgerInv, CalmFits, NEW a \in Attempt, Upsert(a)
  PROVE  CalmFits'
<1>0. /\ TypeOK /\ attempt[a].pc = "upsert" /\ Running(a) /\ None \notin Attempt
      /\ UNCHANGED <<source, file, task, runner, deleter, events>>
      /\ attempt[a].upserted \in 0 .. Chunks /\ attempt[a].upserted < Chunks
  <2>1. TypeOK /\ BatchLeft(a) /\ attempt[a] \in AttemptState
    BY TypedFields DEF LedgerInv, Fits
  <2>2. attempt[a].upserted \in 0 .. Chunks
    BY <2>1, Fields
  <2> QED BY <2>1, <2>2, NamesAssumption DEF Upsert, Running, BatchLeft, BeforeLast
<1>1. PICK c \in 1 .. Chunks : c = attempt[a].upserted + 1
  BY <1>0, ChunksAssumption
<1>2. PICK pc \in {"last", "index"} :
        /\ Becomes(a, pc, attempt[a].archived, c, attempt[a].kind, attempt[a].ok)
        /\ pc = "last" => c = Chunks
        /\ vector' = [vector EXCEPT ![c] = a]
  <2>1. PICK pc \in {"last", "index"} : pc = IF c = Chunks THEN "last" ELSE "index"
    OBVIOUS
  <2>2. /\ attempt' = [attempt EXCEPT ![a].upserted = c, ![a].pc = pc]
        /\ vector' = [vector EXCEPT ![c] = a]
    BY <1>1, <2>1 DEF Upsert
  <2>3. Becomes(a, pc, attempt[a].archived, c, attempt[a].kind, attempt[a].ok)
    <3>1. c \in 0 .. Chunks
      BY ChunksAssumption
    <3> QED BY <1>0, <2>2, <3>1, UpsertIs DEF Pc
  <2> QED BY <2>1, <2>2, <2>3
<1>3. \A d \in Chunk : vector'[d] = IF d = c THEN a ELSE vector[d]
  BY <1>0, <1>2 DEF TypeOK
<1>4. /\ \A b \in Attempt \ {a} : attempt[b].pc \in {"new", "ended", "crashed"}
      /\ source.last_processing_attempt_id = a /\ source.worker_attempt_id = a
      /\ Exists => source.live
      /\ ~source.processed /\ FirstArchives(a) /\ VectorsFirst(a)
      /\ \A d \in Chunk : vector[d] = a => d <= attempt[a].upserted
      /\ source.state = "present" => \A d \in Chunk : d <= attempt[a].upserted => vector[d] = a
      /\ ~Recorded(a, "vectors") /\ ~Recorded(a, "s3")
  BY <1>0, Only DEF BatchesFit, WorkPc, Writing
<1>5. Frame(a)
  BY <1>0, <1>2, <1>3, <1>4 DEF Frame, Becomes
<1>6. \A k \in Kind : Recorded(a, k)' <=> Recorded(a, k)
  BY <1>0 DEF Recorded
<1>7. Alone(a)'
  BY <1>0, <1>2, <1>4 DEF Alone, Exists
<1>8. FirstArchives(a)'
  BY <1>0, <1>2, <1>4 DEF FirstArchives, Becomes, Writing
<1>9. BatchesFit(a)'
  <2>1. \A d \in Chunk : vector'[d] = a => d <= c
    BY <1>0, <1>1, <1>3, <1>4, ChunksAssumption DEF Chunk
  <2>2. source.state = "present" => \A d \in Chunk : d <= c => vector'[d] = a
    BY <1>0, <1>1, <1>3, <1>4, ChunksAssumption DEF Chunk
  <2> QED BY <1>0, <1>2, <2>1, <2>2 DEF BatchesFit, Becomes
<1>10. VectorsFirst(a)'
  BY <1>2, <1>4, <1>6 DEF VectorsFirst, Becomes, CleanPc, Kind
<1>11. ProcessedFits'
  BY <1>0, <1>4 DEF ProcessedFits
<1>12. attempt'[a].pc \notin {"content", "leave", "ended"} /\ UNCHANGED <<source, file>>
  BY <1>0, <1>2 DEF Becomes
<1> QED BY <1>5, <1>7, <1>8, <1>9, <1>10, <1>11, <1>12, FrameCalm DEF OwnCalm

\* A lease ahead is a worker's that runs, where nothing stalls.
LEMMA LapseCalm ==
  ASSUME LedgerInv, CalmFits, Calm, AttemptLapses
  PROVE  CalmFits'
<1>0. /\ source \in SourceRow /\ ~Running(source.worker_attempt_id)
      /\ source' = [source EXCEPT !.live = FALSE]
      /\ UNCHANGED <<vector, file, task, attempt, runner, deleter, events>>
  BY DEF LedgerInv, TypeOK, AttemptLapses, Calm
<1>1. /\ source'.state = source.state /\ source'.processed = source.processed
      /\ source'.last_processing_attempt_id = source.last_processing_attempt_id
      /\ source'.worker_attempt_id = source.worker_attempt_id
      /\ source'.file_url = source.file_url
  BY <1>0 DEF SourceRow
<1>2. \A a \in Attempt : Alone(a)'
  BY <1>0 DEF CalmFits, Alone, Running
<1>3. \A a \in Attempt : FirstArchives(a)' /\ BatchesFit(a)' /\ VectorsFirst(a)'
  BY <1>0, <1>1 DEF CalmFits, FirstArchives, BatchesFit, VectorsFirst, Recorded
<1>4. ProcessedFits'
  BY <1>0, <1>1 DEF CalmFits, ProcessedFits, Recorded
<1>5. DeletionFits'
  BY <1>0, <1>1 DEF CalmFits, DeletionFits, Recorded, Left
<1> QED BY <1>2, <1>3, <1>4, <1>5 DEF CalmFits

\* What every step of the deletion does to the attempts and to the row.
Deletes ==
  /\ \A c \in Chunk : vector'[c] \in {vector[c], None}
  /\ file' \subseteq file
  /\ source.state # "present" => source'.state # "present"
  /\ source.state = "gone" => source'.state = "gone"
  /\ (\A c \in Chunk : vector'[c] = vector[c]) \/ source.state # "present"
  /\ source'.live = source.live \/ source'.state = "gone"
  /\ source'.processed = source.processed
  /\ source'.last_processing_attempt_id = source.last_processing_attempt_id
  /\ source'.worker_attempt_id = source.worker_attempt_id
  /\ source'.file_url = source.file_url
  /\ UNCHANGED <<task, attempt, events>>

LEMMA DeletesCalm ==
  ASSUME LedgerInv, CalmFits, Deletes, DeletionFits'
  PROVE  CalmFits'
<1>0. None \notin Attempt
  BY NamesAssumption
<1>1. \A a \in Attempt, k \in Kind : Recorded(a, k)' <=> Recorded(a, k)
  BY DEF Deletes, Recorded
<1>2. \A a \in Attempt : Alone(a)'
  BY DEF CalmFits, Deletes, Alone, Running, Exists
<1>3. \A a \in Attempt : FirstArchives(a)'
  BY <1>1 DEF CalmFits, Deletes, FirstArchives, Kind
<1>4. \A a \in Attempt : BatchesFit(a)'
  BY <1>0 DEF CalmFits, Deletes, BatchesFit
<1>5. \A a \in Attempt : VectorsFirst(a)'
  BY <1>1 DEF CalmFits, Deletes, VectorsFirst, Kind
<1>6. ProcessedFits'
  BY <1>1 DEF CalmFits, Deletes, ProcessedFits, Kind
<1> QED BY <1>2, <1>3, <1>4, <1>5, <1>6 DEF CalmFits

LEMMA DeletionCalm ==
  ASSUME LedgerInv, CalmFits, Calm,
         DeleteLibraryItem \/ DeletionVectors \/ DeletionFile \/ DeletionFinish \/ DeletionDies
  PROVE  CalmFits'
<1>0. /\ source \in SourceRow /\ deleter \in Deleter /\ None \notin Attempt
      /\ deleter.pc # "idle" => source.state # "present"
      /\ DeletionFits /\ file \subseteq Attempt
  BY NamesAssumption DEF LedgerInv, TypeOK, CalmFits
<1>1. CASE DeleteLibraryItem
  <2>1. /\ source'.state = "tombstoned" /\ source.state = "present"
        /\ source'.live = source.live
        /\ source'.processed = source.processed
        /\ source'.last_processing_attempt_id = source.last_processing_attempt_id
        /\ source'.worker_attempt_id = source.worker_attempt_id
        /\ source'.file_url = source.file_url
        /\ UNCHANGED <<vector, file, task, attempt, runner, deleter, events>>
    BY <1>0, <1>1 DEF DeleteLibraryItem, SourceRow
  <2>2. DeletionFits'
    BY <1>0, <2>1 DEF DeletionFits
  <2> QED BY <2>1, <2>2, DeletesCalm DEF Deletes
<1>2. CASE DeletionVectors
  <2>1. PICK ok \in BOOLEAN :
          /\ deleter' = [pc |-> "file", ok |-> ok]
          /\ \/ vector' = [c \in Chunk |-> None]
             \/ ~ok /\ UNCHANGED vector
    BY <1>2 DEF DeletionVectors, Calm
  <2>2. /\ deleter.pc = "idle" /\ source.state = "tombstoned"
        /\ UNCHANGED <<source, file, task, attempt, runner, events>>
    BY <1>2 DEF DeletionVectors
  <2>3. DeletionFits'
    BY <1>0, <2>1, <2>2 DEF DeletionFits, Left
  <2> QED BY <2>1, <2>2, <2>3, DeletesCalm DEF Deletes
<1>3. CASE DeletionFile
  <2>1. PICK ok \in BOOLEAN :
          /\ deleter' = [pc |-> "finish", ok |-> deleter.ok /\ ok]
          /\ \/ file' = file \ {source.file_url}
             \/ ~ok /\ UNCHANGED file
    BY <1>3 DEF DeletionFile
  <2>2. /\ deleter.pc = "file" /\ deleter.ok \in BOOLEAN
        /\ UNCHANGED <<source, vector, task, attempt, runner, events>>
    BY <1>0, <1>3 DEF DeletionFile, Deleter
  <2>3. DeletionFits'
    <3>1. deleter'.pc = "finish" /\ (deleter'.ok => deleter.ok /\ source.file_url \notin file')
      BY <2>1, <2>2
    <3>2. source.state = "gone" => source.file_url \notin file'
      BY <1>0, <2>1 DEF DeletionFits
    <3> QED BY <1>0, <2>2, <3>1, <3>2 DEF DeletionFits, Left, Recorded
  <2> QED BY <1>0, <2>1, <2>2, <2>3, DeletesCalm DEF Deletes
<1>4. CASE DeletionFinish
  <2>1. /\ deleter.pc = "finish" /\ deleter'.pc = "idle" /\ source.state # "present"
        /\ UNCHANGED <<vector, file, task, attempt, runner, events>>
    BY <1>0, <1>4 DEF DeletionFinish, IdleDeleter
  <2>2. /\ source'.state = IF deleter.ok THEN "gone" ELSE source.state
        /\ source'.live = source.live \/ source'.state = "gone"
        /\ source'.processed = source.processed
        /\ source'.last_processing_attempt_id = source.last_processing_attempt_id
        /\ source'.worker_attempt_id = source.worker_attempt_id
        /\ source'.file_url = source.file_url
    BY <1>0, <1>4 DEF DeletionFinish, SourceRow
  <2>3. DeletionFits'
    BY <1>0, <2>1, <2>2 DEF DeletionFits, Left, Recorded
  <2> QED BY <2>1, <2>2, <2>3, DeletesCalm DEF Deletes
<1>5. CASE DeletionDies
  <2>1. deleter'.pc = "idle" /\ UNCHANGED <<source, vector, file, task, attempt, runner, events>>
    BY <1>5 DEF DeletionDies, IdleDeleter
  <2>2. DeletionFits'
    BY <1>0, <2>1 DEF DeletionFits, Left, Recorded
  <2> QED BY <2>1, <2>2, DeletesCalm DEF Deletes
<1> QED BY <1>1, <1>2, <1>3, <1>4, <1>5

LEMMA InitCalm ==
  ASSUME Init
  PROVE  CalmFits
<1>0. /\ None \notin Attempt /\ source.state = "present" /\ ~source.processed
      /\ source.file_url = None /\ file = {} /\ deleter.ok /\ deleter.pc = "idle"
      /\ source.last_processing_attempt_id = None
      /\ \A a \in Attempt : /\ attempt[a].pc = "new" /\ attempt[a].upserted = 0
                            /\ ~Recorded(a, "vectors") /\ ~Recorded(a, "s3")
      /\ \A c \in Chunk : vector[c] = None
  BY NamesAssumption DEF Init, IdleDeleter, NewAttempt, NoTask, Recorded, Kind
<1>1. \A a \in Attempt : Alone(a) /\ FirstArchives(a)
  BY <1>0 DEF Alone, Running, FirstArchives, Writing
<1>2. \A a \in Attempt : BatchesFit(a)
  BY <1>0 DEF BatchesFit, Writing
<1>3. \A a \in Attempt : VectorsFirst(a)
  BY <1>0 DEF VectorsFirst, CleanPc
<1> QED BY <1>0, <1>1, <1>2, <1>3 DEF CalmFits, ProcessedFits, DeletionFits

LEMMA CalmStep ==
  ASSUME LedgerInv, LedgerInv', CalmFits, Calm, [Next]_vars
  PROVE  CalmFits'
<1>0. "stall" \notin events /\ "write" \notin events /\ "client" \notin events
  BY DEF Calm
<1>1. ASSUME NEW a \in Attempt, Heartbeat(a)
      PROVE  FALSE
  BY <1>1, Only DEF Heartbeat, RenewsAttempt
<1>2. ASSUME NEW a \in Attempt, StoreRaises(a) \/ ContentRaises(a) \/ IndexNothing(a)
      PROVE  FALSE
  BY <1>0, <1>2 DEF StoreRaises, ContentRaises, IndexNothing
<1>3. ASSUME NEW a \in Attempt, Compensation(a)
      PROVE  CalmFits'
  BY <1>3, CompensationCleans, CleansCalm
<1>4. ASSUME NEW a \in Attempt, Quiet(a) \/ StoreFileUrl(a)
      PROVE  CalmFits'
  BY <1>4, QuietSteps, StoreCalm DEF Quiet
<1>5. ASSUME NEW a \in Attempt, Works(a) \/ Crash(a)
      PROVE  CalmFits'
  BY <1>2, <1>3, <1>4, <1>5, UploadCalm, UpsertCalm DEF Works, Quiet
<1>6. ASSUME NEW a \in Attempt, NEW k \in Kind, ClaimLapses(a, k)
      PROVE  CalmFits'
  BY <1>6, LapseCleans, CleansCalm
<1>7. ASSUME NEW r \in Runner,
             \/ \E a \in Attempt, k \in Kind : RunnerClaims(r, a, k)
             \/ \E ok \in BOOLEAN : RunnerDeletes(r, ok)
             \/ RunnerResolves(r) \/ RunnerReleases(r) \/ RunnerDies(r)
      PROVE  CalmFits'
  <2>1. Cleans
    BY <1>7, RunnerCleans
  <2> QED BY <2>1, CleansCalm
<1>8. CASE DeleteLibraryItem \/ DeletionVectors \/ DeletionFile \/ DeletionFinish \/ DeletionDies
  BY <1>8, DeletionCalm
<1>9. CASE UNCHANGED vars
  BY <1>9 DEF vars, CalmFits, Alone, Running, Exists, FirstArchives, BatchesFit, VectorsFirst,
     ProcessedFits, DeletionFits, Recorded, Left
<1> QED BY <1>1, <1>5, <1>6, <1>7, <1>8, <1>9, AdmitCalm, LapseCalm DEF Next

\* What may happen is settled at the start.
LEMMA EventsStay ==
  ASSUME [Next]_vars
  PROVE  events' = events
<1>1. ASSUME NEW a \in Attempt, Works(a)
      PROVE  events' = events
  BY <1>1 DEF Works, SkipArchive, UploadFile, StoreFileUrl, StoreRaises, OfferOcr,
     CheckOwnership, IndexNothing, Upsert, PassLastCheck, AttemptFails,
     FinalizeSuccessfulProcessing, WriteContent, ContentRaises, ReleaseWorkerAttempt,
     Compensation, RecordPending, ClaimDirect, DeleteDirect, ClearFileUrl, ClearRaises,
     ResolveDirect, ReleaseDirect
<1>2. ASSUME NEW a \in Attempt,
             \/ AdmitWorkerAttempt(a) \/ Heartbeat(a) \/ Crash(a)
             \/ \E k \in Kind : ClaimLapses(a, k) \/ \E r \in Runner : RunnerClaims(r, a, k)
      PROVE  events' = events
  BY <1>2 DEF AdmitWorkerAttempt, Heartbeat, Crash, ClaimLapses, RunnerClaims
<1>3. ASSUME NEW r \in Runner,
             \/ \E ok \in BOOLEAN : RunnerDeletes(r, ok)
             \/ RunnerResolves(r) \/ RunnerReleases(r) \/ RunnerDies(r)
      PROVE  events' = events
  BY <1>3 DEF RunnerDeletes, RunnerResolves, RunnerReleases, RunnerDies
<1>4. CASE \/ AttemptLapses \/ DeleteLibraryItem \/ DeletionVectors \/ DeletionFile
           \/ DeletionFinish \/ DeletionDies
  BY <1>4 DEF AttemptLapses, DeleteLibraryItem, DeletionVectors, DeletionFile, DeletionFinish,
     DeletionDies
<1>5. CASE UNCHANGED vars
  BY <1>5 DEF vars
<1> QED BY <1>1, <1>2, <1>3, <1>4, <1>5 DEF Next

LEMMA CalmAlways == Spec => []CalmInv
<1>1. Init => CalmInv
  BY InitLedger, InitCalm DEF CalmInv
<1>2. CalmInv /\ [Next]_vars => CalmInv'
  <2> SUFFICES ASSUME CalmInv, [Next]_vars
               PROVE  CalmInv'
    OBVIOUS
  <2>1. LedgerInv /\ LedgerInv'
    BY LedgerKept DEF CalmInv
  <2>2. events' = events
    BY EventsStay
  <2>3. Calm' => Calm
    BY <2>2 DEF Calm
  <2>4. Calm => CalmFits'
    BY <2>1, CalmStep DEF CalmInv
  <2> QED BY <2>1, <2>3, <2>4 DEF CalmInv
<1> QED BY <1>1, <1>2, PTL DEF Spec

\* A source that is processed and present is what its last attempt wrote, every
\* batch of it: the attempt finished with all batches its own, none but a
\* deletion touches them since, and the clean-up takes only what is recorded.
THEOREM FinishedIsKept == Spec => []FinishedKept
<1>1. CalmInv => FinishedKept
  BY DEF CalmInv, Calm, CalmFits, ProcessedFits, FinishedKept
<1> QED BY <1>1, CalmAlways, PTL

\* Once the row is gone, a finished attempt's vectors went with the deletion and
\* its archive is the one the row named; what a failed one left is on the ledger.
THEOREM DeletedForGood == Spec => []DeletedLeavesNothing
<1>1. CalmInv => DeletedLeavesNothing
  <2> SUFFICES ASSUME CalmInv, Calm, source.state = "gone",
                      NEW a \in Attempt, NEW k \in Kind,
                      attempt[a].pc = "ended", Left(a, k)
               PROVE  Unresolved(a, k)
    BY DEF DeletedLeavesNothing, Calm
  <2>1. /\ TypeOK /\ FilesFit(a) /\ LedgerFits(a)
        /\ FirstArchives(a) /\ VectorsFirst(a) /\ DeletionFits
        /\ "client" \notin events /\ "answer" \notin events
    BY DEF CalmInv, CalmFits, LedgerInv, Fits, Calm
  <2>2. CASE Recorded(a, "vectors")
    <3>1. Recorded(a, k)
      BY <2>1, <2>2 DEF FilesFit, Left, Kind
    <3> QED BY <2>1, <3>1, LeftIsUnresolved
  <2>3. CASE ~Recorded(a, "vectors")
    <3>1. k = "vectors" => FALSE
      BY <2>1, <2>3 DEF DeletionFits
    <3>2. k = "s3" => FALSE
      BY <2>1, <2>3 DEF FirstArchives, DeletionFits, Left
    <3> QED BY <3>1, <3>2 DEF Kind
  <2> QED BY <2>2, <2>3
<1> QED BY <1>1, CalmAlways, PTL

=============================================================================
