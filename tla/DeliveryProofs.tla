---------------------------- MODULE DeliveryProofs ----------------------------
(***************************************************************************)
(* Theorems about DeliveryCycles for every number of processes and         *)
(* sources, every window and every bound on attempts.                      *)
(***************************************************************************)
EXTENDS DeliveryCycles, TLAPS

Procs == [Process -> Proc]
Rows == [Item -> Bite]
Writers == [Item -> Process \cup {None, Dead}]

-----------------------------------------------------------------------------
(* The inductive invariant. *)

\* What the row announces was made.
RowInv == cycle.state \in Generated => cycle.daily_bite # None

Announcing == {"announce", "announcing", "sending", "sent"}
Holding == Announcing \ {"announce"}

\* A copy may be old, but a nibble once in the row never leaves it.
CopyInv ==
  \A p \in Process :
    /\ proc[p].copy.daily_bite # None => cycle.daily_bite # None
    /\ proc[p].pc \in Announcing => cycle.daily_bite # None
    /\ proc[p].pc \in Holding => proc[p].copy.daily_bite # None

\* A source in generation is a placeholder under the generating process.
WriterInv ==
  \A p \in Process : proc[p].item # None =>
    bites[proc[p].item] = "placeholder" /\ writer[proc[p].item] = p

\* What a process brings back to the ledger was written.
MadeInv == \A p \in Process : proc[p].made # None => Complete(proc[p].made)

TicketInv == \A p \in Process : proc[p].ticket = "ok" => history.acked

DeliveryInv ==
  /\ TypeOK
  /\ RowInv
  /\ CopyInv
  /\ WriterInv
  /\ MadeInv
  /\ TicketInv
  /\ AnnouncesWritten
  /\ CompletedIsDelivered

-----------------------------------------------------------------------------
(* The record of a process, from one program point to the next. *)

LEMMA ProcTyped ==
  ASSUME TypeOK, NEW p \in Process
  PROVE  proc[p] \in Proc
  BY DEF TypeOK

LEMMA BecomesTyped ==
  ASSUME TypeOK, NEW p \in Process, NEW r \in Proc, Becomes(p, r)
  PROVE  /\ proc' \in Procs
         /\ proc'[p] = r
         /\ \A q \in Process : q # p => proc'[q] = proc[q]
  BY DEF TypeOK, Becomes, Procs

LEMMA NoCopyTyped ==
  NoCopy \in Cycle /\ NoCopy.daily_bite = None /\ NoCopy.claimed_by = None
  BY AttemptsAssumption DEF NoCopy, NoRow, Cycle

LEMMA CopiedTyped ==
  ASSUME NEW c \in Cycle
  PROVE  /\ Copied(c) \in Cycle
         /\ Copied(c).state = c.state /\ Copied(c).claimed_by = c.claimed_by
         /\ Copied(c).attempts = c.attempts /\ Copied(c).daily_bite = c.daily_bite
  BY DEF Copied, Cycle

LEMMA StoppedTyped ==
  ASSUME NEW pc \in {"down", "idle", "push"}, NEW at \in 0 .. MaxTime
  PROVE  [Stopped(pc) EXCEPT !.at = at]
           \in [pc : {pc}, at : {at}, copy : {NoCopy}, left : {{}}, item : {None},
                made : {None}, ticket : {None}]
  BY DEF Stopped

LEMMA StopsTyped ==
  ASSUME TypeOK, NEW p \in Process, NEW pc \in {"down", "idle", "push"},
         Becomes(p, [Stopped(pc) EXCEPT !.at = proc[p].at])
  PROVE  /\ proc' \in Procs
         /\ proc'[p].pc = pc /\ proc'[p].copy = NoCopy
         /\ proc'[p].item = None /\ proc'[p].made = None /\ proc'[p].ticket = None
         /\ \A q \in Process : q # p => proc'[q] = proc[q]
<1> DEFINE r == [Stopped(pc) EXCEPT !.at = proc[p].at]
<1>1. proc[p].at \in 0 .. MaxTime
  BY ProcTyped DEF Proc
<1>2. r \in [pc : {pc}, at : {proc[p].at}, copy : {NoCopy}, left : {{}}, item : {None},
             made : {None}, ticket : {None}]
  BY <1>1, StoppedTyped
<1> HIDE DEF r
<1>3. r \in Proc
  BY <1>1, <1>2, NoCopyTyped DEF Proc
<1>4. Becomes(p, r)
  BY DEF r
<1>5. r.pc = pc /\ r.copy = NoCopy /\ r.item = None /\ r.made = None /\ r.ticket = None
  BY <1>2
<1> QED BY <1>3, <1>4, <1>5, BecomesTyped

\* The points a step of the ledger leads to.
Points == {"idle", "discover", "held", "recheck", "rechecked", "generation", "generate",
           "claimed", "generated", "push", "announce", "announcing", "sending"}

LEMMA ListsTyped ==
  ASSUME TypeOK, NEW p \in Process, NEW pc \in Points, NEW c \in Cycle,
         Lists(p, c, pc)
  PROVE  /\ proc' \in Procs
         /\ proc'[p].pc = pc
         /\ proc'[p].copy = c
         /\ proc'[p].item = proc[p].item
         /\ proc'[p].made = proc[p].made
         /\ proc'[p].ticket = proc[p].ticket
         /\ \A q \in Process : q # p => proc'[q] = proc[q]
<1> DEFINE r == [proc[p] EXCEPT !.pc = pc, !.copy = c]
<1>1. /\ r \in Proc
      /\ r.pc = pc /\ r.copy = c /\ r.item = proc[p].item /\ r.made = proc[p].made
      /\ r.ticket = proc[p].ticket
  BY ProcTyped DEF Proc, Points
<1>2. Becomes(p, r)
  BY DEF Lists
<1> HIDE DEF r
<1> QED BY <1>1, <1>2, BecomesTyped

LEMMA GotoTyped ==
  ASSUME TypeOK, NEW p \in Process, NEW pc \in Points, Goto(p, pc)
  PROVE  /\ proc' \in Procs
         /\ proc'[p].pc = pc
         /\ proc'[p].copy = proc[p].copy
         /\ proc'[p].item = proc[p].item
         /\ proc'[p].made = proc[p].made
         /\ proc'[p].ticket = proc[p].ticket
         /\ \A q \in Process : q # p => proc'[q] = proc[q]
<1> DEFINE r == [proc[p] EXCEPT !.pc = pc]
<1>1. /\ r \in Proc
      /\ r.pc = pc /\ r.copy = proc[p].copy /\ r.item = proc[p].item
      /\ r.made = proc[p].made /\ r.ticket = proc[p].ticket
  BY ProcTyped DEF Proc, Points
<1>2. Becomes(p, r)
  BY DEF Goto
<1> HIDE DEF r
<1> QED BY <1>1, <1>2, BecomesTyped

LEMMA PassedTyped ==
  ASSUME TypeOK, NEW p \in Process, NEW i \in Item
  PROVE  /\ Passed(p, i) \in Proc
         /\ Got(p, i) \in Proc
         /\ Passed(p, i).item = None /\ Got(p, i).item = None
         /\ Passed(p, i).made = proc[p].made
         /\ Got(p, i).made \in {i, proc[p].made}
         /\ Passed(p, i).pc = proc[p].pc /\ Got(p, i).pc = proc[p].pc
         /\ Passed(p, i).ticket = proc[p].ticket /\ Got(p, i).ticket = proc[p].ticket
         /\ Passed(p, i).copy = proc[p].copy /\ Got(p, i).copy = proc[p].copy
  BY ProcTyped DEF Passed, Got, Proc

-----------------------------------------------------------------------------
(* Steps that leave the ledger's row and the nibbles alone. *)

LEMMA ProcOnly ==
  ASSUME DeliveryInv,
         now' \in 1 .. MaxTime, proc' \in Procs,
         earlier' \in {"none", "unread", "read"}, enabled' \in BOOLEAN,
         UNCHANGED <<cycle, bites, writer, selected, history>>,
         \A q \in Process :
           /\ proc'[q].pc \notin Announcing \/ proc'[q].pc = proc[q].pc
           /\ proc'[q].copy \in {proc[q].copy, NoCopy}
           /\ proc'[q].pc \in Holding => proc'[q].copy = proc[q].copy
           /\ proc'[q].item \in {proc[q].item, None}
           /\ proc'[q].made \in {proc[q].made, None}
           /\ proc'[q].ticket \in {proc[q].ticket, None}
  PROVE  DeliveryInv'
<1>1. TypeOK'
  BY DEF DeliveryInv, TypeOK, Procs
<1>2. RowInv'
  BY DEF DeliveryInv, RowInv
<1>3. CopyInv'
  BY NoCopyTyped DEF DeliveryInv, CopyInv, Holding
<1>4. WriterInv'
  BY DEF DeliveryInv, WriterInv
<1>5. MadeInv'
  BY DEF DeliveryInv, MadeInv, Complete
<1>6. TicketInv'
  BY DEF DeliveryInv, TicketInv, None
<1>7. AnnouncesWritten' /\ CompletedIsDelivered'
  BY DEF DeliveryInv, AnnouncesWritten, CompletedIsDelivered, Complete
<1> QED BY <1>1, <1>2, <1>3, <1>4, <1>5, <1>6, <1>7 DEF DeliveryInv

LEMMA TickPreserves ==
  ASSUME DeliveryInv, NEW p \in Process, TickStarts(p)
  PROVE  DeliveryInv'
<1> DEFINE r == [proc[p] EXCEPT !.pc = "prepare", !.at = now]
<1>1. TypeOK /\ now \in 0 .. MaxTime
  BY DEF DeliveryInv, TypeOK
<1>2. /\ r \in Proc
      /\ r.pc = "prepare" /\ r.copy = proc[p].copy
      /\ r.item = proc[p].item /\ r.made = proc[p].made
      /\ r.ticket = proc[p].ticket
  BY <1>1, ProcTyped DEF Proc
<1>3. Becomes(p, r)
  BY DEF TickStarts
<1> HIDE DEF r
<1>4. proc' \in Procs /\ proc'[p] = r /\ \A q \in Process : q # p => proc'[q] = proc[q]
  BY <1>1, <1>2, <1>3, BecomesTyped
<1> QED BY <1>2, <1>4, ProcOnly DEF TickStarts, DeliveryInv, TypeOK, Announcing, Holding

LEMMA PreparePreserves ==
  ASSUME DeliveryInv, NEW p \in Process, Prepare(p) \/ PrepareEnds(p)
  PROVE  DeliveryInv'
<1>1. TypeOK
  BY DEF DeliveryInv
<1>2. CASE Goto(p, "discover")
  BY <1>1, <1>2, GotoTyped, ProcOnly DEF Prepare, PrepareEnds, TypeOK, Points, Announcing, Holding
<1>3. CASE Prepare(p) /\ Becomes(p, [proc[p] EXCEPT !.pc = "preparing", !.left = selected])
  <2> DEFINE r == [proc[p] EXCEPT !.pc = "preparing", !.left = selected]
  <2>1. selected \in SUBSET Item
    BY <1>1, SelectionsAssumption DEF TypeOK
  <2>2. /\ r \in Proc
        /\ r.pc = "preparing" /\ r.copy = proc[p].copy
        /\ r.item = proc[p].item /\ r.made = proc[p].made
        /\ r.ticket = proc[p].ticket
    BY <1>1, <2>1, ProcTyped DEF Proc
  <2>3. Becomes(p, r)
    BY <1>3
  <2> HIDE DEF r
  <2>4. proc' \in Procs /\ proc'[p] = r /\ \A q \in Process : q # p => proc'[q] = proc[q]
    BY <1>1, <2>2, <2>3, BecomesTyped
  <2> QED BY <1>1, <1>3, <2>2, <2>4, ProcOnly DEF Prepare, TypeOK, Announcing, Holding
<1> QED BY <1>2, <1>3 DEF Prepare, PrepareEnds

LEMMA RaisePreserves ==
  ASSUME DeliveryInv, NEW p \in Process, TickRaises(p)
  PROVE  DeliveryInv'
<1>1. TypeOK
  BY DEF DeliveryInv
<1> QED BY <1>1, StopsTyped, ProcOnly DEF TickRaises, Idles, TypeOK, Announcing, Holding

LEMMA ElsewherePreserves ==
  ASSUME DeliveryInv,
         Clock \/ SwitchNotifications \/ \E p \in Process : Boot(p)
  PROVE  DeliveryInv'
<1>1. TypeOK
  BY DEF DeliveryInv
<1>2. CASE Clock
  <2>1. now' \in 1 .. MaxTime
    BY <1>1, <1>2, TicksAssumption DEF Clock, TypeOK
  <2> QED BY <1>1, <1>2, <2>1, ProcOnly DEF Clock, TypeOK, Procs
<1>3. CASE SwitchNotifications
  BY <1>1, <1>3, ProcOnly DEF SwitchNotifications, TypeOK, Procs
<1>4. CASE \E p \in Process : Boot(p)
  <2>1. PICK p \in Process : Boot(p)
    BY <1>4
  <2> QED BY <1>1, <2>1, GotoTyped, ProcOnly DEF Boot, TypeOK, Points, Announcing, Holding
<1> QED BY <1>2, <1>3, <1>4

-----------------------------------------------------------------------------
(* Steps that write the nibbles of the day. *)

LEMMA NibblesOnly ==
  ASSUME DeliveryInv,
         bites' \in Rows, writer' \in Writers, proc' \in Procs,
         earlier' \in {"none", "unread", "read"},
         UNCHANGED <<now, cycle, enabled, selected, history>>,
         \A q \in Process : /\ proc'[q].pc = proc[q].pc /\ proc'[q].ticket = proc[q].ticket
                            /\ proc'[q].copy = proc[q].copy,
         \A i \in Item : Complete(i) => Complete(i)' /\ (bites[i] = "read" => bites'[i] = "read"),
         WriterInv', MadeInv'
  PROVE  DeliveryInv'
<1>1. TypeOK'
  BY DEF DeliveryInv, TypeOK, Procs, Rows, Writers
<1>2. RowInv'
  BY DEF DeliveryInv, RowInv
<1>3. CopyInv'
  BY DEF DeliveryInv, CopyInv
<1>4. TicketInv'
  BY DEF DeliveryInv, TicketInv
<1>5. cycle.daily_bite # None => cycle.daily_bite \in Item
  BY DEF DeliveryInv, TypeOK, Cycle
<1>6. AnnouncesWritten'
  <2>1. cycle' = cycle
    OBVIOUS
  <2> QED BY <1>5, <2>1 DEF DeliveryInv, AnnouncesWritten
<1>7. CompletedIsDelivered'
  BY DEF DeliveryInv, CompletedIsDelivered, Complete
<1> QED BY <1>1, <1>2, <1>3, <1>4, <1>6, <1>7 DEF DeliveryInv

LEMMA ItemStartsPreserves ==
  ASSUME DeliveryInv, NEW p \in Process, ItemStarts(p)
  PROVE  DeliveryInv'
<1>1. TypeOK /\ WriterInv /\ MadeInv
  BY DEF DeliveryInv
<1>2. PICK i \in proc[p].left : GetsExisting(p, i) \/ Claims(p, i) \/ IsRefused(p, i)
  BY DEF ItemStarts
<1>3. i \in Item
  BY <1>1, ProcTyped DEF Proc
<1>4. UNCHANGED <<now, cycle, earlier, enabled, selected, history>> /\ earlier \in {"none", "unread", "read"}
  BY <1>1 DEF ItemStarts, TypeOK
<1>5. bites \in Rows /\ writer \in Writers
  BY <1>1 DEF TypeOK, Rows, Writers
<1>6. CASE GetsExisting(p, i)
  <2>1. /\ proc' \in Procs /\ proc'[p] = Got(p, i)
        /\ \A q \in Process : q # p => proc'[q] = proc[q]
    BY <1>1, <1>3, <1>6, PassedTyped, BecomesTyped DEF GetsExisting
  <2>2. \A q \in Process : /\ proc'[q].pc = proc[q].pc /\ proc'[q].ticket = proc[q].ticket
                           /\ proc'[q].copy = proc[q].copy
    BY <1>1, <1>3, <2>1, PassedTyped
  <2>3. WriterInv' /\ MadeInv'
    BY <1>1, <1>3, <1>6, <2>1, PassedTyped DEF GetsExisting, WriterInv, MadeInv, Complete
  <2> QED BY <1>4, <1>5, <1>6, <2>1, <2>2, <2>3, NibblesOnly DEF GetsExisting, Complete
<1>7. CASE IsRefused(p, i)
  <2>1. /\ proc' \in Procs /\ proc'[p] = Passed(p, i)
        /\ \A q \in Process : q # p => proc'[q] = proc[q]
    BY <1>1, <1>3, <1>7, PassedTyped, BecomesTyped DEF IsRefused
  <2>2. \A q \in Process : /\ proc'[q].pc = proc[q].pc /\ proc'[q].ticket = proc[q].ticket
                           /\ proc'[q].copy = proc[q].copy
    BY <1>1, <1>3, <2>1, PassedTyped
  <2>3. WriterInv' /\ MadeInv'
    BY <1>1, <1>3, <1>7, <2>1, PassedTyped DEF IsRefused, WriterInv, MadeInv, Complete
  <2> QED BY <1>4, <1>5, <1>7, <2>1, <2>2, <2>3, NibblesOnly DEF IsRefused, Complete
<1>8. CASE Claims(p, i)
  <2> DEFINE r == [proc[p] EXCEPT !.item = i]
  <2>1. /\ r \in Proc /\ r.item = i /\ r.pc = proc[p].pc /\ r.made = proc[p].made
        /\ r.ticket = proc[p].ticket /\ r.copy = proc[p].copy
    BY <1>1, <1>3, ProcTyped DEF Proc
  <2>2. Becomes(p, r)
    BY <1>8 DEF Claims
  <2> HIDE DEF r
  <2>3. /\ proc' \in Procs /\ proc'[p] = r
        /\ \A q \in Process : q # p => proc'[q] = proc[q]
    BY <1>1, <2>1, <2>2, BecomesTyped
  <2>4. bites' \in Rows /\ writer' \in Writers
    BY <1>3, <1>5, <1>8 DEF Claims, Rows, Writers, Bite
  <2>5. \A j \in Item : /\ bites'[j] = IF j = i THEN "placeholder" ELSE bites[j]
                        /\ writer'[j] = IF j = i THEN p ELSE writer[j]
    BY <1>3, <1>5, <1>8 DEF Claims, Rows, Writers
  <2>6. ~Complete(i) /\ \A q \in Process : bites[i] = "placeholder" => writer[i] # q
    BY <1>8, IdsAssumption DEF Claims, Vacant, Complete, Dead
  <2>7. WriterInv'
    <3> SUFFICES ASSUME NEW q \in Process, proc'[q].item # None
                 PROVE  bites'[proc'[q].item] = "placeholder" /\ writer'[proc'[q].item] = q
      BY DEF WriterInv
    <3>1. CASE q = p
      BY <1>3, <2>1, <2>3, <2>5, <3>1
    <3>2. CASE q # p
      <4>1. proc'[q] = proc[q] /\ proc[q].item \in Item
        BY <1>1, <2>3, <3>2, ProcTyped DEF Proc
      <4>2. bites[proc[q].item] = "placeholder" /\ writer[proc[q].item] = q
        BY <1>1, <4>1 DEF WriterInv
      <4> QED BY <2>5, <2>6, <4>1, <4>2
    <3> QED BY <3>1, <3>2
  <2>8. \A j \in Item : Complete(j) => Complete(j)' /\ bites'[j] = bites[j]
    <3> SUFFICES ASSUME NEW j \in Item, Complete(j)
                 PROVE  Complete(j)' /\ bites'[j] = bites[j]
      OBVIOUS
    <3>1. j # i /\ bites'[j] = bites[j]
      BY <2>5, <2>6
    <3> QED BY <3>1 DEF Complete
  <2>9. MadeInv'
    <3> SUFFICES ASSUME NEW q \in Process, proc'[q].made # None
                 PROVE  bites'[proc'[q].made] \in {"unread", "read"}
      BY DEF MadeInv, Complete
    <3>1. proc'[q].made = proc[q].made /\ proc[q].made \in Item
      BY <1>1, <2>1, <2>3, ProcTyped DEF Proc
    <3>2. Complete(proc[q].made)
      BY <1>1, <3>1 DEF MadeInv
    <3> QED BY <2>8, <3>1, <3>2 DEF Complete
  <2>10. \A q \in Process : /\ proc'[q].pc = proc[q].pc /\ proc'[q].ticket = proc[q].ticket
                            /\ proc'[q].copy = proc[q].copy
    BY <2>1, <2>3
  <2> QED BY <1>4, <2>3, <2>4, <2>7, <2>8, <2>9, <2>10, NibblesOnly
<1> QED BY <1>2, <1>6, <1>7, <1>8

LEMMA ItemEndsPreserves ==
  ASSUME DeliveryInv, NEW p \in Process, ItemEnds(p)
  PROVE  DeliveryInv'
<1> DEFINE i == proc[p].item
<1>1. TypeOK /\ WriterInv /\ MadeInv
  BY DEF DeliveryInv
<1>2. i \in Item /\ bites[i] = "placeholder" /\ writer[i] = p
  BY <1>1, ProcTyped DEF ItemEnds, Proc, WriterInv
<1>3. PICK b \in {"unread", "none"} :
        /\ bites' = [bites EXCEPT ![i] = b]
        /\ \/ b = "unread" /\ Becomes(p, Got(p, i))
           \/ Becomes(p, Passed(p, i))
  BY DEF ItemEnds
<1>4. writer' = [writer EXCEPT ![i] = None]
  BY DEF ItemEnds
<1>5. UNCHANGED <<now, cycle, earlier, enabled, selected, history>> /\ earlier \in {"none", "unread", "read"}
  BY <1>1 DEF ItemEnds, TypeOK
<1> HIDE DEF i
<1>6. bites' \in Rows /\ writer' \in Writers
  BY <1>1, <1>2, <1>3, <1>4 DEF TypeOK, Rows, Writers, Bite
<1>7. \A j \in Item : /\ bites'[j] = IF j = i THEN b ELSE bites[j]
                      /\ writer'[j] = IF j = i THEN None ELSE writer[j]
  BY <1>1, <1>2, <1>3, <1>4 DEF TypeOK
<1>8. /\ proc' \in Procs
      /\ proc'[p].item = None /\ proc'[p].pc = proc[p].pc /\ proc'[p].ticket = proc[p].ticket
      /\ proc'[p].copy = proc[p].copy
      /\ proc'[p].made = proc[p].made \/ (proc'[p].made = i /\ b = "unread")
      /\ \A q \in Process : q # p => proc'[q] = proc[q]
  <2>1. CASE b = "unread" /\ Becomes(p, Got(p, i))
    BY <1>1, <1>2, <2>1, PassedTyped, BecomesTyped
  <2>2. CASE Becomes(p, Passed(p, i))
    BY <1>1, <1>2, <2>2, PassedTyped, BecomesTyped
  <2> QED BY <1>3, <2>1, <2>2
<1>9. \A j \in Item : Complete(j) => Complete(j)' /\ bites'[j] = bites[j]
  <2> SUFFICES ASSUME NEW j \in Item, Complete(j)
               PROVE  Complete(j)' /\ bites'[j] = bites[j]
    OBVIOUS
  <2>1. j # i
    BY <1>2 DEF Complete
  <2> QED BY <1>7, <2>1 DEF Complete
<1>10. WriterInv'
  <2> SUFFICES ASSUME NEW q \in Process, proc'[q].item # None
               PROVE  bites'[proc'[q].item] = "placeholder" /\ writer'[proc'[q].item] = q
    BY DEF WriterInv
  <2>1. q # p /\ proc'[q] = proc[q] /\ proc[q].item \in Item
    BY <1>1, <1>8, ProcTyped DEF Proc
  <2>2. bites[proc[q].item] = "placeholder" /\ writer[proc[q].item] = q
    BY <1>1, <2>1 DEF WriterInv
  <2> QED BY <1>2, <1>7, <2>1, <2>2
<1>11. MadeInv'
  <2> SUFFICES ASSUME NEW q \in Process, proc'[q].made # None
               PROVE  bites'[proc'[q].made] \in {"unread", "read"}
    BY DEF MadeInv, Complete
  <2>1. CASE proc'[q].made = proc[q].made
    <3>1. proc[q].made \in Item /\ Complete(proc[q].made)
      BY <1>1, <2>1, ProcTyped DEF MadeInv, Proc
    <3> QED BY <1>9, <2>1, <3>1 DEF Complete
  <2>2. CASE q = p /\ proc'[p].made = i /\ b = "unread"
    BY <1>2, <1>7, <2>2
  <2> QED BY <1>8, <2>1, <2>2
<1> QED BY <1>5, <1>6, <1>8, <1>9, <1>10, <1>11, NibblesOnly

LEMMA ReaderPreserves ==
  ASSUME DeliveryInv, MarkBiteRead \/ \E i \in Item : GetOrCreateSession(i)
  PROVE  DeliveryInv'
<1>1. /\ TypeOK /\ WriterInv /\ MadeInv
      /\ proc \in Procs /\ bites \in Rows /\ writer \in Writers
      /\ earlier \in {"none", "unread", "read"}
  BY DEF DeliveryInv, TypeOK, Procs, Rows, Writers
<1>2. \A q \in Process : /\ proc[q].item # None => proc[q].item \in Item
                         /\ proc[q].made # None => proc[q].made \in Item
  BY <1>1, ProcTyped DEF Proc
<1>3. CASE MarkBiteRead /\ earlier = "unread" /\ earlier' = "read" /\ UNCHANGED bites
  BY <1>1, <1>3, ProcOnly DEF MarkBiteRead, TypeOK
<1>4. ASSUME NEW i \in Item, NEW b \in {"unread", "read"},
             bites' = [bites EXCEPT ![i] = b],
             \A q \in Process : ~(bites[i] = "placeholder" /\ writer[i] = q),
             bites[i] # "read",
             writer' = writer \/ writer' = [writer EXCEPT ![i] = None],
             UNCHANGED <<now, cycle, earlier, enabled, selected, proc, history>>
      PROVE  DeliveryInv'
  <2>1. bites' \in Rows /\ writer' \in Writers
    BY <1>1, <1>4 DEF Rows, Writers, Bite
  <2>2. \A j \in Item : /\ bites'[j] = IF j = i THEN b ELSE bites[j]
                        /\ j # i => writer'[j] = writer[j]
    BY <1>1, <1>4 DEF Rows, Writers
  <2>3. \A j \in Item : Complete(j) => Complete(j)' /\ (bites[j] = "read" => bites'[j] = "read")
    <3> SUFFICES ASSUME NEW j \in Item, Complete(j)
                 PROVE  Complete(j)' /\ (bites[j] = "read" => bites'[j] = "read")
      OBVIOUS
    <3>1. bites'[j] = IF j = i THEN b ELSE bites[j]
      BY <2>2
    <3> QED BY <1>4, <3>1 DEF Complete
  <2>4. WriterInv'
    BY <1>1, <1>2, <1>4, <2>2 DEF WriterInv
  <2>5. MadeInv'
    <3> SUFFICES ASSUME NEW q \in Process, proc[q].made # None
                 PROVE  bites'[proc[q].made] \in {"unread", "read"}
      BY <1>4 DEF MadeInv, Complete
    <3> QED BY <1>1, <1>2, <2>3 DEF MadeInv, Complete
  <2> QED BY <1>1, <1>4, <2>1, <2>3, <2>4, <2>5, NibblesOnly
<1>5. CASE \E i \in Item : MarkBiteRead /\ bites[i] = "unread" /\ bites' = [bites EXCEPT ![i] = "read"]
                            /\ UNCHANGED earlier
  BY <1>4, <1>5 DEF MarkBiteRead
<1>6. CASE \E i \in Item : GetOrCreateSession(i)
  BY <1>4, <1>6, IdsAssumption DEF GetOrCreateSession, Vacant, Dead
<1> QED BY <1>3, <1>5, <1>6 DEF MarkBiteRead

-----------------------------------------------------------------------------
(* Steps that write the row of the ledger. *)

\* The processes keep what they brought back, or drop it.
Kept ==
  \A q \in Process :
    /\ proc'[q].item \in {proc[q].item, None}
    /\ proc'[q].made \in {proc[q].made, None}
    /\ proc'[q].ticket \in {proc[q].ticket, None}

\* Process p alone moves, and its copy is NoCopy or says no more than the row.
Moved(p) ==
  /\ proc' \in Procs /\ Kept
  /\ \A q \in Process : q # p => proc'[q] = proc[q]
  /\ proc'[p].copy.daily_bite # None => cycle'.daily_bite # None
  /\ proc'[p].pc \in Announcing => cycle'.daily_bite # None
  /\ proc'[p].pc \in Holding => proc'[p].copy.daily_bite # None

LEMMA LedgerOnly ==
  ASSUME DeliveryInv, NEW p \in Process, Moved(p),
         cycle' \in Cycle, history' \in HistoryState,
         history.acked => history'.acked,
         UNCHANGED <<now, bites, writer, earlier, enabled, selected>>,
         cycle.daily_bite # None => cycle'.daily_bite # None,
         RowInv', AnnouncesWritten', CompletedIsDelivered'
  PROVE  DeliveryInv'
<1>1. TypeOK'
  BY DEF DeliveryInv, TypeOK, Procs, Moved
<1>2. WriterInv'
  BY DEF DeliveryInv, WriterInv, Kept, Moved
<1>3. MadeInv'
  BY DEF DeliveryInv, MadeInv, Complete, Kept, Moved
<1>4. TicketInv'
  BY DEF DeliveryInv, TicketInv, None, Kept, Moved
<1>5. CopyInv'
  BY DEF DeliveryInv, CopyInv, Moved
<1> QED BY <1>1, <1>2, <1>3, <1>4, <1>5 DEF DeliveryInv

\* The row is left as it is, or only its claim changes.
LEMMA RowKept ==
  ASSUME DeliveryInv, NEW p \in Process, Moved(p), cycle' \in Cycle,
         cycle'.state = cycle.state, cycle'.daily_bite = cycle.daily_bite,
         UNCHANGED <<now, bites, writer, earlier, enabled, selected, history>>
  PROVE  DeliveryInv'
<1>1. history' \in HistoryState
  BY DEF DeliveryInv, TypeOK
<1>2. RowInv'
  BY DEF DeliveryInv, RowInv
<1>3. AnnouncesWritten' /\ CompletedIsDelivered'
  BY DEF DeliveryInv, AnnouncesWritten, CompletedIsDelivered, Complete
<1> QED BY <1>1, <1>2, <1>3, LedgerOnly

States == {"absent"} \cup Ungenerated \cup Generated \cup Terminal

LEMMA FinishedTyped ==
  ASSUME cycle \in Cycle, NEW p \in Process, NEW c \in Cycle, NEW s \in States,
         NEW n \in 0 .. MaxAttempts, NEW b \in Item \cup {None},
         cycle' = Finished(p, c, s, n, b)
  PROVE  /\ cycle' \in Cycle
         /\ \/ cycle' = cycle
            \/ /\ c.claimed_by = p
               /\ cycle'.state = Written(c.state, s, cycle.state)
               /\ cycle'.daily_bite = Written(c.daily_bite, b, cycle.daily_bite)
  BY DEF Finished, Written, Cycle, States

\* What a result may say.
MayFinish(p, c, s, b) ==
  /\ c.daily_bite # None => cycle.daily_bite # None
  /\ s \in Generated => b # None
  /\ b # c.daily_bite => b # None /\ Complete(b)
  /\ s = "completed" => history'.acked \/ history'.muted \/ \E i \in Item : bites[i] = "read"

LEMMA FinishedPreserves ==
  ASSUME DeliveryInv, NEW p \in Process, NEW c \in Cycle, NEW s \in States \ {"absent"},
         NEW n \in 0 .. MaxAttempts, NEW b \in Item \cup {None},
         cycle' = Finished(p, c, s, n, b), MayFinish(p, c, s, b),
         proc' \in Procs, Kept, \A q \in Process : q # p => proc'[q] = proc[q],
         proc'[p].copy = NoCopy, proc'[p].pc \notin Announcing,
         history' \in HistoryState, history.acked => history'.acked,
         history.muted => history'.muted,
         UNCHANGED <<now, bites, writer, earlier, enabled, selected>>
  PROVE  DeliveryInv'
<1>1. cycle \in Cycle
  BY DEF DeliveryInv, TypeOK
<1>2. /\ cycle' \in Cycle
      /\ \/ cycle' = cycle
         \/ /\ cycle'.state \in {cycle.state, s}
            /\ \/ cycle'.daily_bite = cycle.daily_bite /\ c.daily_bite = b
               \/ cycle'.daily_bite = b /\ c.daily_bite # b
  BY <1>1, FinishedTyped DEF Written
<1>3. cycle.daily_bite # None => cycle'.daily_bite # None
  BY <1>2 DEF MayFinish
<1>4. RowInv'
  BY <1>2, <1>3 DEF DeliveryInv, RowInv, MayFinish
<1>5. AnnouncesWritten'
  BY <1>2 DEF DeliveryInv, AnnouncesWritten, Complete, MayFinish
<1>6. CompletedIsDelivered'
  BY <1>2 DEF DeliveryInv, CompletedIsDelivered, MayFinish
<1>7. Moved(p)
  BY NoCopyTyped DEF Moved, Announcing, Holding
<1> QED BY <1>2, <1>3, <1>4, <1>5, <1>6, <1>7, LedgerOnly

\* A result that is only a state.
LEMMA SettledPreserves ==
  ASSUME DeliveryInv, NEW p \in Process, NEW c \in Cycle,
         NEW s \in {"window_expired", "terminal_failure", "due", "held_unread", "completed"},
         cycle' = Settled(p, c, s),
         c.daily_bite # None => cycle.daily_bite # None,
         s = "completed" =>
           history'.acked \/ history'.muted \/ \E i \in Item : bites[i] = "read",
         proc' \in Procs, Kept, \A q \in Process : q # p => proc'[q] = proc[q],
         proc'[p].copy = NoCopy, proc'[p].pc \notin Announcing,
         history' \in HistoryState, history.acked => history'.acked,
         history.muted => history'.muted,
         UNCHANGED <<now, bites, writer, earlier, enabled, selected>>
  PROVE  DeliveryInv'
<1>1. cycle.attempts \in 0 .. MaxAttempts /\ c.daily_bite \in Item \cup {None}
  BY DEF DeliveryInv, TypeOK, Cycle
<1>2. s \in States \ {"absent"} /\ s \notin Generated
  BY DEF States, Ungenerated, Generated, Terminal
<1>3. MayFinish(p, c, s, c.daily_bite)
  BY <1>2 DEF MayFinish
<1>4. cycle' = Finished(p, c, s, cycle.attempts, c.daily_bite)
  BY DEF Settled
<1> QED BY <1>1, <1>2, <1>3, <1>4, FinishedPreserves

LEMMA DiscoverPreserves ==
  ASSUME DeliveryInv, NEW p \in Process, Discover(p)
  PROVE  DeliveryInv'
<1>1. TypeOK /\ cycle \in Cycle /\ history \in HistoryState /\ CopyInv
  BY DEF DeliveryInv, TypeOK
<1>2. /\ cycle' \in Cycle
      /\ cycle'.daily_bite = cycle.daily_bite
      /\ cycle' = cycle \/ cycle'.state = "due"
  BY <1>1 DEF Discover, Cycle, Ungenerated
<1>3. Moved(p)
  BY <1>1, <1>2, GotoTyped DEF Discover, Points, Moved, Kept, CopyInv, Announcing, Holding
<1>4. RowInv' /\ AnnouncesWritten' /\ CompletedIsDelivered'
  BY <1>2 DEF Discover, DeliveryInv, RowInv, Generated, AnnouncesWritten,
              CompletedIsDelivered, Complete
<1> QED BY <1>1, <1>2, <1>3, <1>4, LedgerOnly DEF Discover

\* A list takes the row as it is, or the copy the session has.
LEMMA ListsPreserves ==
  ASSUME DeliveryInv, NEW p \in Process, ListHeld(p) \/ ListDue(p) \/ ListPush(p)
  PROVE  DeliveryInv'
<1>1. /\ TypeOK /\ cycle \in Cycle /\ RowInv /\ CopyInv
      /\ UNCHANGED <<now, cycle, bites, writer, earlier, enabled, selected, history>>
  BY DEF DeliveryInv, TypeOK, ListHeld, ListDue, ListPush
<1>2. CASE \E pc \in {"recheck", "generate", "announce"} :
             /\ Lists(p, Listed(p), pc)
             /\ pc = "announce" => Pushable(p)
  <2>1. PICK pc \in {"recheck", "generate", "announce"} :
          Lists(p, Listed(p), pc) /\ (pc = "announce" => Pushable(p))
    BY <1>2
  <2>2. /\ Listed(p) \in Cycle
        /\ Listed(p).daily_bite # None => cycle.daily_bite # None
    BY <1>1, ProcTyped, CopiedTyped DEF Listed, Proc, CopyInv
  <2>3. /\ proc' \in Procs /\ Kept
        /\ \A q \in Process : q # p => proc'[q] = proc[q]
        /\ proc'[p].pc = pc /\ proc'[p].copy = Listed(p)
    BY <1>1, <2>1, <2>2, ListsTyped DEF Points, Kept
  <2>4. pc = "announce" => cycle.daily_bite # None
    BY <1>1, <2>1 DEF Pushable, ToPush, RowInv, Generated
  <2>5. Moved(p)
    BY <1>1, <2>2, <2>3, <2>4 DEF Moved, Announcing, Holding
  <2> QED BY <1>1, <2>5, RowKept
<1>3. CASE Goto(p, "generation") \/ Goto(p, "push")
  BY <1>1, <1>3, GotoTyped, ProcOnly DEF TypeOK, Points, Announcing, Holding
<1>4. CASE Idles(p)
  BY <1>1, <1>4, StopsTyped, ProcOnly DEF TypeOK, Idles, Announcing, Holding
<1> QED BY <1>2, <1>3, <1>4 DEF ListHeld, ListDue, ListPush

\* A claim changes nothing but the claim.
LEMMA TryClaimPreserves ==
  ASSUME DeliveryInv, NEW p \in Process, NEW states, NEW claimed \in Points,
         NEW skipped \in Points \ Announcing, TryClaim(p, states, claimed, skipped),
         claimed \in Announcing => proc[p].pc \in Announcing,
         UNCHANGED <<now, bites, writer, earlier, enabled, selected, history>>
  PROVE  DeliveryInv'
<1>1. TypeOK /\ cycle \in Cycle /\ CopyInv
  BY DEF DeliveryInv, TypeOK
<1>2. CASE UNCHANGED cycle /\ Expires(p, skipped)
  <2>1. skipped \in Points /\ skipped \notin Announcing
    OBVIOUS
  <2>2. Lists(p, NoCopy, skipped)
    BY <1>2 DEF Expires, Lists
  <2>3. /\ proc' \in Procs /\ proc'[p].pc = skipped /\ proc'[p].copy = NoCopy
        /\ proc'[p].item = proc[p].item /\ proc'[p].made = proc[p].made
        /\ proc'[p].ticket = proc[p].ticket
        /\ \A q \in Process : q # p => proc'[q] = proc[q]
    BY <1>1, <2>1, <2>2, NoCopyTyped, ListsTyped
  <2>4. Moved(p)
    BY <1>1, <1>2, <2>1, <2>3, NoCopyTyped DEF Moved, Kept, Holding
  <2> QED BY <1>1, <1>2, <2>4, RowKept
<1>3. ASSUME NEW c \in {proc[p].copy, cycle}, cycle' = Claimed(p, c),
             Becomes(p, [proc[p] EXCEPT !.pc = claimed, !.copy = Copied(Claimed(p, c))])
      PROVE  DeliveryInv'
  <2>1. /\ cycle' \in Cycle
        /\ cycle'.state = cycle.state /\ cycle'.daily_bite = cycle.daily_bite
    BY <1>1, <1>3, ProcTyped DEF Claimed, Written, Cycle, Proc
  <2>2. /\ Copied(Claimed(p, c)) \in Cycle
        /\ Copied(Claimed(p, c)).daily_bite = cycle.daily_bite
    BY <1>3, <2>1, CopiedTyped
  <2>3. /\ proc' \in Procs /\ proc'[p].pc = claimed
        /\ proc'[p].copy = Copied(Claimed(p, c))
        /\ proc'[p].item = proc[p].item /\ proc'[p].made = proc[p].made
        /\ proc'[p].ticket = proc[p].ticket
        /\ \A q \in Process : q # p => proc'[q] = proc[q]
    <3>1. Lists(p, Copied(Claimed(p, c)), claimed)
      BY <1>3 DEF Lists
    <3> QED BY <1>1, <2>2, <3>1, ListsTyped
  <2>4. claimed \in Announcing => cycle.daily_bite # None
    BY <1>1 DEF CopyInv
  <2>5. Moved(p)
    BY <2>1, <2>2, <2>3, <2>4 DEF Moved, Kept, Holding
  <2> QED BY <2>1, <2>5, RowKept
<1> QED BY <1>2, <1>3 DEF TryClaim

LEMMA ClaimPreserves ==
  ASSUME DeliveryInv, NEW p \in Process,
         RecheckHeld(p) \/ GenerationPhase(p) \/ PushPhase(p)
  PROVE  DeliveryInv'
<1>1. TypeOK
  BY DEF DeliveryInv
<1>2. CASE RecheckHeld(p) /\ UNCHANGED cycle /\ Goto(p, "generation")
  BY <1>1, <1>2, GotoTyped, ProcOnly DEF RecheckHeld, TypeOK, Points, Announcing, Holding
<1>3. CASE RecheckHeld(p) /\ TryClaim(p, ToRecheck, "rechecked", "generation")
  BY <1>3, TryClaimPreserves DEF RecheckHeld, Points, Announcing
<1>4. CASE GenerationPhase(p)
  BY <1>4, TryClaimPreserves DEF GenerationPhase, Points, Announcing
<1>5. CASE PushPhase(p)
  BY <1>5, TryClaimPreserves DEF PushPhase, Points, Announcing
<1> QED BY <1>2, <1>3, <1>4, <1>5 DEF RecheckHeld

\* What a worker holds when it writes a result.
LEMMA HeldTyped ==
  ASSUME DeliveryInv, NEW p \in Process, NEW c \in {proc[p].copy, Copied(cycle)}
  PROVE  c \in Cycle /\ (c.daily_bite # None => cycle.daily_bite # None)
  BY ProcTyped, CopiedTyped DEF DeliveryInv, TypeOK, Proc, CopyInv

LEMMA RecheckEndsPreserves ==
  ASSUME DeliveryInv, NEW p \in Process, RecheckEnds(p)
  PROVE  DeliveryInv'
<1> DEFINE s == IF WindowExpired(p) THEN "window_expired" ELSE "due"
           c == proc[p].copy
<1>1. /\ TypeOK /\ history' \in HistoryState
      /\ UNCHANGED <<now, bites, writer, earlier, enabled, selected, history>>
  BY DEF DeliveryInv, TypeOK, RecheckEnds
<1>2. /\ proc' \in Procs /\ Kept /\ \A q \in Process : q # p => proc'[q] = proc[q]
      /\ proc'[p].copy = NoCopy /\ proc'[p].pc \notin Announcing
  BY <1>1, ListsTyped, NoCopyTyped DEF RecheckEnds, Expires, Lists, Kept, Points, Announcing
<1>3. c \in Cycle /\ (c.daily_bite # None => cycle.daily_bite # None)
  BY HeldTyped
<1>4. s \in {"window_expired", "due"} /\ cycle' = Settled(p, c, s)
  BY DEF RecheckEnds
<1> HIDE DEF s, c
<1> QED BY <1>1, <1>2, <1>3, <1>4, SettledPreserves

LEMMA GenerationChecksPreserves ==
  ASSUME DeliveryInv, NEW p \in Process, GenerationChecks(p)
  PROVE  DeliveryInv'
<1>1. /\ TypeOK /\ history' \in HistoryState
      /\ UNCHANGED <<now, bites, writer, earlier, enabled, selected, history>>
  BY DEF DeliveryInv, TypeOK, GenerationChecks
<1>2. ASSUME NEW c \in {proc[p].copy, Copied(cycle)},
             NEW s \in {"window_expired", "held_unread", "terminal_failure"},
             cycle' = Settled(p, c, s), Expires(p, "push")
      PROVE  DeliveryInv'
  <2>1. /\ proc' \in Procs /\ Kept /\ \A q \in Process : q # p => proc'[q] = proc[q]
        /\ proc'[p].copy = NoCopy /\ proc'[p].pc \notin Announcing
    BY <1>1, <1>2, ListsTyped, NoCopyTyped DEF Expires, Lists, Kept, Points, Announcing
  <2>2. c \in Cycle /\ (c.daily_bite # None => cycle.daily_bite # None)
    BY HeldTyped
  <2> QED BY <1>1, <1>2, <2>1, <2>2, SettledPreserves
<1>3. CASE /\ UNCHANGED cycle
           /\ Becomes(p, [proc[p] EXCEPT !.pc = "generating", !.copy = NoCopy,
                                         !.left = selected])
  <2> DEFINE r == [proc[p] EXCEPT !.pc = "generating", !.copy = NoCopy, !.left = selected]
  <2>1. selected \in SUBSET Item
    BY <1>1, SelectionsAssumption DEF TypeOK
  <2>2. /\ r \in Proc
        /\ r.pc = "generating" /\ r.copy = NoCopy /\ r.item = proc[p].item
        /\ r.made = proc[p].made /\ r.ticket = proc[p].ticket
    BY <1>1, <2>1, ProcTyped, NoCopyTyped DEF Proc
  <2>3. Becomes(p, r)
    BY <1>3
  <2> HIDE DEF r
  <2>4. proc' \in Procs /\ proc'[p] = r /\ \A q \in Process : q # p => proc'[q] = proc[q]
    BY <1>1, <2>2, <2>3, BecomesTyped
  <2> QED BY <1>1, <1>3, <2>2, <2>4, ProcOnly DEF TypeOK, Announcing, Holding
<1> QED BY <1>2, <1>3 DEF GenerationChecks

LEMMA ReloadsPreserves ==
  ASSUME DeliveryInv, NEW p \in Process, ReloadsRow(p)
  PROVE  DeliveryInv'
<1>1. TypeOK /\ cycle \in Cycle
  BY DEF DeliveryInv, TypeOK
<1>2. Copied(cycle) \in Cycle /\ Copied(cycle).daily_bite = cycle.daily_bite
  BY <1>1, CopiedTyped
<1>3. Moved(p)
  BY <1>1, <1>2, ListsTyped DEF ReloadsRow, Lists, Moved, Kept, Points, Announcing, Holding
<1> QED BY <1>1, <1>3, RowKept DEF ReloadsRow

LEMMA AttemptTyped ==
  ASSUME NEW c \in Cycle
  PROVE  Attempt(c) \in 0 .. MaxAttempts
  BY AttemptsAssumption DEF Attempt, Cycle

LEMMA FailedTyped ==
  ASSUME NEW c, NEW s \in {"retryable_failure", "push_submitted_unknown"}
  PROVE  Failed(c, s) \in {"terminal_failure", s}
  BY DEF Failed

LEMMA GenerationEndsPreserves ==
  ASSUME DeliveryInv, NEW p \in Process, GenerationEnds(p)
  PROVE  DeliveryInv'
<1> DEFINE c == proc[p].copy
           made == proc[p].made
           n == Attempt(c)
           s == Failed(c, "retryable_failure")
<1>1. /\ TypeOK /\ history' \in HistoryState /\ MadeInv
      /\ UNCHANGED <<now, bites, writer, earlier, enabled, selected, history>>
  BY DEF DeliveryInv, TypeOK, GenerationEnds
<1>2. /\ proc' \in Procs /\ Kept /\ \A q \in Process : q # p => proc'[q] = proc[q]
      /\ proc'[p].copy = NoCopy /\ proc'[p].pc \notin Announcing
  BY <1>1, StopsTyped DEF GenerationEnds, Kept, Announcing
<1>3. c \in Cycle /\ (c.daily_bite # None => cycle.daily_bite # None)
  BY HeldTyped
<1>4. n \in 0 .. MaxAttempts /\ c.daily_bite \in Item \cup {None}
  BY <1>3, AttemptTyped DEF Cycle
<1>5. \/ made # None /\ cycle' = Finished(p, c, "push_pending", n, made)
      \/ cycle' = Finished(p, c, s, n, c.daily_bite)
  BY DEF GenerationEnds
<1>6. made # None => made \in Item /\ Complete(made)
  BY <1>1, ProcTyped DEF MadeInv, Proc
<1>7. s \in {"terminal_failure", "retryable_failure"}
  BY FailedTyped
<1> HIDE DEF c, made, n, s
<1>8. CASE made # None /\ cycle' = Finished(p, c, "push_pending", n, made)
  <2>1. "push_pending" \in States \ {"absent"} /\ MayFinish(p, c, "push_pending", made)
    BY <1>3, <1>6, <1>8 DEF MayFinish, States, Generated
  <2> QED BY <1>1, <1>2, <1>3, <1>4, <1>6, <1>8, <2>1, FinishedPreserves
<1>9. CASE cycle' = Finished(p, c, s, n, c.daily_bite)
  <2>1. s \in States \ {"absent"} /\ MayFinish(p, c, s, c.daily_bite)
    BY <1>3, <1>7 DEF MayFinish, States, Ungenerated, Generated, Terminal
  <2> QED BY <1>1, <1>2, <1>3, <1>4, <1>9, <2>1, FinishedPreserves
<1> QED BY <1>5, <1>8, <1>9

LEMMA PushChecksPreserves ==
  ASSUME DeliveryInv, NEW p \in Process, PushChecks(p)
  PROVE  DeliveryInv'
<1> DEFINE c == proc[p].copy
<1>1. /\ TypeOK /\ history \in HistoryState /\ enabled \in BOOLEAN /\ CopyInv
      /\ UNCHANGED <<now, bites, writer, earlier, enabled, selected>>
      /\ proc[p].pc = "announcing"
  BY DEF DeliveryInv, TypeOK, PushChecks
<1>2. c \in Cycle /\ (c.daily_bite # None => cycle.daily_bite # None)
  BY HeldTyped
<1>3. c.daily_bite # None /\ c.daily_bite \in Item
  BY <1>1, <1>2 DEF CopyInv, Cycle, Announcing, Holding
<1>4. ASSUME Idles(p)
      PROVE  /\ proc' \in Procs /\ Kept /\ \A q \in Process : q # p => proc'[q] = proc[q]
             /\ proc'[p].copy = NoCopy /\ proc'[p].pc \notin Announcing
  BY <1>1, <1>4, StopsTyped DEF Idles, Kept, Announcing
<1>5. CASE cycle' = Settled(p, c, "window_expired") /\ Idles(p) /\ UNCHANGED history
  <2> HIDE DEF c
  <2> QED BY <1>1, <1>2, <1>4, <1>5, SettledPreserves
<1>6. CASE /\ NothingOwed(c) /\ cycle' = Settled(p, c, "completed") /\ Idles(p)
           /\ history' = [history EXCEPT !.muted = @ \/ ~enabled]
  <2>1. /\ history' \in HistoryState /\ history'.acked = history.acked
        /\ ~enabled => history'.muted
        /\ history.muted => history'.muted
    BY <1>1, <1>6 DEF HistoryState
  <2>2. history'.muted \/ \E i \in Item : bites[i] = "read"
    BY <1>3, <1>6, <2>1 DEF NothingOwed
  <2> HIDE DEF c
  <2> QED BY <1>1, <1>2, <1>4, <1>6, <2>1, <2>2, SettledPreserves
<1>7. CASE Goto(p, "sending") /\ UNCHANGED <<cycle, history>>
  <2>1. cycle \in Cycle
    BY <1>1 DEF TypeOK
  <2>2. Moved(p)
    BY <1>1, <1>7, GotoTyped DEF Moved, Kept, CopyInv, Points, Announcing, Holding
  <2> QED BY <1>1, <1>7, <2>1, <2>2, RowKept
<1> QED BY <1>5, <1>6, <1>7 DEF PushChecks

LEMMA SendPreserves ==
  ASSUME DeliveryInv, NEW p \in Process, Send(p)
  PROVE  DeliveryInv'
<1>1. /\ TypeOK /\ cycle \in Cycle /\ history \in HistoryState
  BY DEF DeliveryInv, TypeOK
<1>2. PICK ticket \in {"ok", "error", "gone", "lost"} :
        /\ Becomes(p, [proc[p] EXCEPT !.pc = "sent", !.ticket = ticket])
        /\ history' = [history EXCEPT !.acked = @ \/ ticket = "ok"]
  BY DEF Send
<1> DEFINE r == [proc[p] EXCEPT !.pc = "sent", !.ticket = ticket]
<1>3. /\ r \in Proc
      /\ r.pc = "sent" /\ r.copy = proc[p].copy /\ r.item = proc[p].item
      /\ r.made = proc[p].made /\ r.ticket = ticket
  BY <1>1, ProcTyped DEF Proc
<1>4. Becomes(p, r)
  BY <1>2
<1> HIDE DEF r
<1>5. proc' \in Procs /\ proc'[p] = r /\ \A q \in Process : q # p => proc'[q] = proc[q]
  BY <1>1, <1>3, <1>4, BecomesTyped
<1>6. /\ history' \in HistoryState /\ history'.muted = history.muted
      /\ history.acked => history'.acked
      /\ ticket = "ok" => history'.acked
  BY <1>1, <1>2 DEF HistoryState
<1>7. UNCHANGED <<now, cycle, bites, writer, earlier, enabled, selected>> /\ proc[p].pc = "sending"
  BY DEF Send
<1>8. TypeOK'
  BY <1>1, <1>5, <1>6, <1>7 DEF TypeOK, Procs
<1>9. RowInv'
  BY <1>7 DEF DeliveryInv, RowInv
<1>10. CopyInv'
  BY <1>3, <1>5, <1>7 DEF DeliveryInv, CopyInv, Announcing, Holding
<1>11. WriterInv'
  BY <1>3, <1>5, <1>7 DEF DeliveryInv, WriterInv
<1>12. MadeInv'
  BY <1>3, <1>5, <1>7 DEF DeliveryInv, MadeInv, Complete
<1>13. TicketInv'
  BY <1>3, <1>5, <1>6 DEF DeliveryInv, TicketInv
<1>14. AnnouncesWritten' /\ CompletedIsDelivered'
  BY <1>6, <1>7 DEF DeliveryInv, AnnouncesWritten, CompletedIsDelivered, Complete
<1> QED BY <1>8, <1>9, <1>10, <1>11, <1>12, <1>13, <1>14 DEF DeliveryInv

LEMMA AnsweredTyped ==
  ASSUME NEW c, NEW ticket
  PROVE  /\ Answered(c, ticket) \in {"completed", "terminal_failure", "push_submitted_unknown"}
         /\ Answered(c, ticket) = "completed" => ticket = "ok"
  BY FailedTyped DEF Answered

LEMMA PushEndsPreserves ==
  ASSUME DeliveryInv, NEW p \in Process, PushEnds(p)
  PROVE  DeliveryInv'
<1> DEFINE c == proc[p].copy
           s == Answered(c, proc[p].ticket)
           n == Attempt(c)
<1>1. /\ TypeOK /\ history' \in HistoryState /\ CopyInv /\ TicketInv
      /\ UNCHANGED <<now, bites, writer, earlier, enabled, selected, history>>
      /\ proc[p].pc = "sent"
  BY DEF DeliveryInv, TypeOK, PushEnds
<1>2. /\ proc' \in Procs /\ Kept /\ \A q \in Process : q # p => proc'[q] = proc[q]
      /\ proc'[p].copy = NoCopy /\ proc'[p].pc \notin Announcing
  BY <1>1, StopsTyped DEF PushEnds, Idles, Kept, Announcing
<1>3. c \in Cycle /\ (c.daily_bite # None => cycle.daily_bite # None)
  BY HeldTyped
<1>4. n \in 0 .. MaxAttempts /\ c.daily_bite \in Item \cup {None}
  BY <1>3, AttemptTyped DEF Cycle
<1>5. /\ s \in {"completed", "terminal_failure", "push_submitted_unknown"}
      /\ s = "completed" => history.acked
  BY <1>1, AnsweredTyped DEF TicketInv
<1>6. cycle' = Finished(p, c, s, n, c.daily_bite)
  BY DEF PushEnds
<1>7. s \in States \ {"absent"}
  BY <1>5 DEF States, Generated, Terminal
<1>8. MayFinish(p, c, s, c.daily_bite)
  BY <1>1, <1>3, <1>5 DEF MayFinish, CopyInv, Announcing, Holding, Generated
<1> HIDE DEF c, s, n
<1> QED BY <1>1, <1>2, <1>3, <1>4, <1>6, <1>7, <1>8, FinishedPreserves

LEMMA LeasePreserves ==
  ASSUME DeliveryInv, LeaseExpires
  PROVE  DeliveryInv'
<1>1. cycle \in Cycle /\ history \in HistoryState /\ proc \in Procs
  BY DEF DeliveryInv, TypeOK, Procs
<1>2. /\ cycle' \in Cycle
      /\ cycle'.state = cycle.state /\ cycle'.daily_bite = cycle.daily_bite
      /\ UNCHANGED <<now, bites, writer, earlier, enabled, selected, proc, history>>
  BY <1>1 DEF LeaseExpires, Cycle
<1>3. TypeOK' /\ RowInv' /\ CopyInv'
  BY <1>2 DEF DeliveryInv, TypeOK, RowInv, CopyInv
<1>4. WriterInv' /\ MadeInv' /\ TicketInv'
  BY <1>2 DEF DeliveryInv, WriterInv, MadeInv, TicketInv, Complete
<1>5. AnnouncesWritten' /\ CompletedIsDelivered'
  BY <1>2 DEF DeliveryInv, AnnouncesWritten, CompletedIsDelivered, Complete
<1> QED BY <1>3, <1>4, <1>5 DEF DeliveryInv

LEMMA CrashPreserves ==
  ASSUME DeliveryInv, NEW p \in Process, Crash(p)
  PROVE  DeliveryInv'
<1>1. /\ TypeOK /\ cycle \in Cycle /\ history \in HistoryState /\ writer \in Writers
      /\ CopyInv /\ WriterInv
  BY DEF DeliveryInv, TypeOK, Writers
<1>2. /\ proc' \in Procs /\ proc'[p].pc = "down" /\ proc'[p].copy = NoCopy
      /\ proc'[p].item = None /\ proc'[p].made = None /\ proc'[p].ticket = None
      /\ \A q \in Process : q # p => proc'[q] = proc[q]
  BY <1>1, StopsTyped DEF Crash
<1>3. UNCHANGED <<now, bites, earlier, enabled, selected>>
  BY DEF Crash
<1> DEFINE owner == IF cycle.claimed_by = p THEN Dead ELSE cycle.claimed_by
<1>4. cycle' = [cycle EXCEPT !.claimed_by = owner] /\ owner \in Process \cup {None, Dead}
  BY <1>1 DEF Crash, Cycle
<1> HIDE DEF owner
<1>6. /\ cycle' \in Cycle
      /\ cycle'.state = cycle.state
      /\ cycle'.attempts = cycle.attempts /\ cycle'.daily_bite = cycle.daily_bite
  BY <1>1, <1>4 DEF Cycle
<1>7. /\ history' \in HistoryState
      /\ history'.acked = history.acked /\ history'.muted = history.muted
  <2> DEFINE n == history.crashes + 1
  <2>1. n \in 0 .. MaxCrashes /\ history' = [history EXCEPT !.crashes = n]
    BY <1>1, AttemptsAssumption DEF Crash, HistoryState
  <2> HIDE DEF n
  <2> QED BY <1>1, <2>1 DEF HistoryState
<1>8. /\ writer' \in Writers
      /\ \A i \in Item : writer[i] # p => writer'[i] = writer[i]
  BY <1>1 DEF Crash, Writers
<1>9. TypeOK'
  BY <1>1, <1>2, <1>3, <1>6, <1>7, <1>8 DEF TypeOK, Procs, Writers
<1>10. RowInv'
  BY <1>6 DEF DeliveryInv, RowInv
<1>11. CopyInv'
  BY <1>1, <1>2, <1>6, NoCopyTyped DEF CopyInv, Announcing, Holding
<1>12. WriterInv'
  <2> SUFFICES ASSUME NEW q \in Process, proc'[q].item # None
               PROVE  bites'[proc'[q].item] = "placeholder" /\ writer'[proc'[q].item] = q
    BY DEF WriterInv
  <2>1. q # p /\ proc'[q] = proc[q] /\ proc[q].item \in Item
    BY <1>1, <1>2, ProcTyped DEF Proc
  <2>2. bites[proc[q].item] = "placeholder" /\ writer[proc[q].item] = q
    BY <1>1, <2>1 DEF WriterInv
  <2> QED BY <1>3, <1>8, <2>1, <2>2
<1>13. MadeInv'
  BY <1>2, <1>3 DEF DeliveryInv, MadeInv, Complete
<1>14. TicketInv'
  BY <1>2, <1>7 DEF DeliveryInv, TicketInv, None
<1>15. AnnouncesWritten' /\ CompletedIsDelivered'
  BY <1>3, <1>6, <1>7 DEF DeliveryInv, AnnouncesWritten, CompletedIsDelivered, Complete
<1> QED BY <1>9, <1>10, <1>11, <1>12, <1>13, <1>14, <1>15 DEF DeliveryInv

-----------------------------------------------------------------------------
(* The invariant holds initially and every step keeps it. *)

LEMMA InitInv == Init => DeliveryInv
<1> SUFFICES ASSUME Init PROVE DeliveryInv
  OBVIOUS
<1>1. PICK up \in SUBSET Process :
        proc = [p \in Process |-> Stopped(IF p \in up THEN "idle" ELSE "down")]
  BY DEF Init
<1>2. \A p \in Process :
        /\ proc[p] \in Proc
        /\ proc[p].pc \in {"idle", "down"}
        /\ proc[p].copy = NoCopy
        /\ proc[p].item = None /\ proc[p].made = None /\ proc[p].ticket = None
  BY <1>1, TicksAssumption, NoCopyTyped DEF Stopped, Proc
<1>3. proc \in [Process -> Proc]
  BY <1>1, <1>2
<1>4. cycle \in Cycle /\ history \in HistoryState /\ now \in 1 .. MaxTime
  BY TicksAssumption, AttemptsAssumption, NoCopyTyped DEF Init, NoCopy, HistoryState
<1>5. TypeOK
  BY <1>3, <1>4 DEF Init, TypeOK, Bite
<1>6. RowInv
  BY DEF Init, NoRow, RowInv, Generated
<1>7. CopyInv /\ WriterInv /\ MadeInv /\ TicketInv
  BY <1>2, NoCopyTyped DEF CopyInv, Announcing, Holding, WriterInv, MadeInv, TicketInv, None
<1>8. AnnouncesWritten /\ CompletedIsDelivered
  BY DEF Init, NoRow, AnnouncesWritten, CompletedIsDelivered
<1> QED BY <1>5, <1>6, <1>7, <1>8 DEF DeliveryInv

LEMMA StepInv == DeliveryInv /\ [Next]_vars => DeliveryInv'
<1> SUFFICES ASSUME DeliveryInv, [Next]_vars PROVE DeliveryInv'
  OBVIOUS
<1>1. CASE UNCHANGED vars
  BY <1>1 DEF vars, DeliveryInv, TypeOK, RowInv, CopyInv, WriterInv, MadeInv, TicketInv,
              AnnouncesWritten, CompletedIsDelivered, Complete
<1>2. ASSUME NEW p \in Process, Works(p) PROVE DeliveryInv'
  BY <1>2, TickPreserves, PreparePreserves, ItemStartsPreserves, ItemEndsPreserves,
     DiscoverPreserves, ListsPreserves, ClaimPreserves, RecheckEndsPreserves,
     GenerationChecksPreserves, ReloadsPreserves, GenerationEndsPreserves,
     PushChecksPreserves, SendPreserves, PushEndsPreserves
     DEF Works
<1>3. CASE \E p \in Process : Works(p) \/ TickRaises(p) \/ Crash(p) \/ Boot(p)
  BY <1>2, <1>3, RaisePreserves, CrashPreserves, ElsewherePreserves
<1>4. CASE LeaseExpires
  BY <1>4, LeasePreserves
<1>5. CASE Clock \/ SwitchNotifications
  BY <1>5, ElsewherePreserves
<1>6. CASE MarkBiteRead \/ \E i \in Item : GetOrCreateSession(i)
  BY <1>6, ReaderPreserves
<1> QED BY <1>1, <1>3, <1>4, <1>5, <1>6 DEF Next

\* Each part of the state stays in its set, the copies in the sessions too,
\* whatever the processes do.
THEOREM DeliveryTypeCorrect == Spec => []TypeOK
<1>1. DeliveryInv => TypeOK
  BY DEF DeliveryInv
<1> QED BY InitInv, StepInv, <1>1, PTL DEF Spec

\* The nibble the ledger announces has a deck: no interleaving of workers,
\* crashes and requests by hand makes it point at a placeholder, though workers
\* with old copies of the row write over one another.
THEOREM NibbleWritten == Spec => []AnnouncesWritten
<1>1. DeliveryInv => AnnouncesWritten
  BY DEF DeliveryInv
<1> QED BY InitInv, StepInv, <1>1, PTL DEF Spec

\* A cycle is completed only when a push was accepted, a nibble of the day was
\* read, or there was no device to tell.
THEOREM DeliveredWhenCompleted == Spec => []CompletedIsDelivered
<1>1. DeliveryInv => CompletedIsDelivered
  BY DEF DeliveryInv
<1> QED BY InitInv, StepInv, <1>1, PTL DEF Spec

-----------------------------------------------------------------------------
(* One process at a time: no copy of the row is out of date, and the ledger  *)
(* only goes forward.                                                        *)

\* What a claim was given for still stands.
Stands(pc, state) ==
  /\ pc = "rechecked" => state \in ToRecheck
  /\ pc \in {"claimed", "generating", "generated"} => state \in ToGenerate
  /\ pc \in {"announcing", "sending", "sent"} => state \in ToPush

SoloInv ==
  /\ \A p \in Process :
       /\ proc[p].copy \in {NoCopy, Copied(cycle)}
       /\ proc[p].pc = "down" => proc[p].copy = NoCopy /\ proc[p].item = None
       /\ Stands(proc[p].pc, cycle.state)
  /\ cycle.state = "absent" => cycle = NoRow
  /\ cycle.daily_bite # None => cycle.state \in Generated \cup Terminal

Forward ==
  /\ cycle.state \in Terminal => cycle'.state = cycle.state
  /\ cycle.daily_bite # None =>
       cycle'.daily_bite = cycle.daily_bite /\ cycle'.state \notin Ungenerated

\* What is assumed where only the process p runs.
Solo(p) ==
  /\ DeliveryInv
  /\ SoloInv
  /\ OneAtATime
  /\ proc[p].pc # "down"

\* The step is p's.
Only(p) == \A q \in Process : q # p => proc'[q] = proc[q]

LEMMA OthersDown ==
  ASSUME NEW p \in Process, Solo(p), NEW q \in Process, q # p
  PROVE  proc[q].pc = "down" /\ proc[q].copy = NoCopy /\ proc[q].item = None
  BY DEF Solo, OneAtATime, SoloInv

LEMMA SameFields ==
  ASSUME NEW c \in Cycle, NEW d \in Cycle,
         c.state = d.state, c.claimed_by = d.claimed_by, c.leased = d.leased,
         c.attempts = d.attempts, c.daily_bite = d.daily_bite
  PROVE  c = d
  BY DEF Cycle

LEMMA CopiedUnleased ==
  ASSUME NEW c \in Cycle
  PROVE  Copied(c).leased = FALSE
  BY DEF Copied, Cycle

LEMMA CopiedSame ==
  ASSUME NEW c \in Cycle, c.leased = FALSE
  PROVE  Copied(c) = c
<1> DEFINE d == Copied(c)
<1>1. /\ d \in Cycle /\ d.state = c.state /\ d.claimed_by = c.claimed_by
      /\ d.attempts = c.attempts /\ d.daily_bite = c.daily_bite
  BY CopiedTyped
<1>2. d.leased = FALSE
  BY CopiedUnleased
<1> HIDE DEF d
<1>3. d = c
  BY <1>1, <1>2, SameFields
<1> QED BY <1>3 DEF d

LEMMA AbsentBare ==
  ASSUME NEW p \in Process, Solo(p)
  PROVE  cycle.state = "absent" => proc[p].copy = NoCopy
<1>1. Copied(NoRow) = NoRow
  <2>1. NoRow \in Cycle /\ NoRow.leased = FALSE
    BY NoCopyTyped DEF NoCopy, NoRow
  <2> QED BY <2>1, CopiedSame
<1>2. cycle.state = "absent" => cycle = NoRow /\ proc[p].copy \in {NoCopy, Copied(cycle)}
  BY DEF Solo, SoloInv
<1> QED BY <1>1, <1>2 DEF NoCopy

\* A step that leaves the row's state and nibble alone.
LEMMA KeptSolo ==
  ASSUME NEW p \in Process, Solo(p), Only(p),
         cycle'.state = cycle.state, cycle'.daily_bite = cycle.daily_bite,
         cycle.state = "absent" => cycle' = cycle,
         proc'[p].copy \in {NoCopy, Copied(cycle')},
         proc'[p].pc = "down" => proc'[p].copy = NoCopy /\ proc'[p].item = None,
         Stands(proc'[p].pc, cycle.state)
  PROVE  SoloInv' /\ Forward
<1>1. \A q \in Process :
        /\ proc'[q].copy \in {NoCopy, Copied(cycle')}
        /\ proc'[q].pc = "down" => proc'[q].copy = NoCopy /\ proc'[q].item = None
        /\ Stands(proc'[q].pc, cycle'.state)
  BY OthersDown DEF Only, Stands
<1>2. /\ cycle'.state = "absent" => cycle' = NoRow
      /\ cycle'.daily_bite # None => cycle'.state \in Generated \cup Terminal
  BY DEF Solo, SoloInv
<1>3. Copied(cycle)' = Copied(cycle')
  BY DEF Copied
<1>4. SoloInv'
  BY <1>1, <1>2, <1>3 DEF SoloInv, NoCopy, NoRow, Stands
<1>5. Forward
  <2>1. cycle.daily_bite # None => cycle.state \notin Ungenerated
    BY DEF Solo, SoloInv, Generated, Terminal, Ungenerated
  <2> QED BY <2>1 DEF Forward
<1> QED BY <1>4, <1>5

\* A step of p that leaves the whole row alone.
LEMMA SameSolo ==
  ASSUME NEW p \in Process, Solo(p), Only(p), UNCHANGED cycle,
         proc'[p].copy \in {proc[p].copy, NoCopy},
         proc'[p].pc # "down",
         Stands(proc'[p].pc, cycle.state)
  PROVE  SoloInv' /\ Forward
<1>1. proc'[p].copy \in {NoCopy, Copied(cycle')}
  BY DEF Solo, SoloInv
<1> QED BY <1>1, KeptSolo

\* A result is written over the row its worker read.
LEMMA FinishedSolo ==
  ASSUME NEW p \in Process, Solo(p), Only(p),
         NEW c \in {proc[p].copy, Copied(cycle)}, NEW s \in States \ {"absent"},
         NEW n \in 0 .. MaxAttempts, NEW b \in Item \cup {None},
         cycle' = Finished(p, c, s, n, b),
         proc'[p].copy = NoCopy, proc'[p].pc \in {"generation", "push", "idle"},
         cycle.state \notin Terminal,
         \/ cycle.state \in Ungenerated /\ (b # None => b = c.daily_bite \/ s \in Generated)
         \/ b = c.daily_bite /\ s \notin Ungenerated
  PROVE  SoloInv' /\ Forward
<1>1. /\ cycle \in Cycle /\ c \in {NoCopy, Copied(cycle)}
      /\ cycle.daily_bite # None => cycle.state \in Generated \cup Terminal
  BY DEF Solo, DeliveryInv, TypeOK, SoloInv
<1>2. \A state : Stands(proc'[p].pc, state)
  BY DEF Stands
<1>3. CASE c.claimed_by # p
  <2>1. cycle' = cycle
    BY <1>3 DEF Finished
  <2> QED BY <1>2, <2>1, KeptSolo
<1>4. CASE c.claimed_by = p
  <2>1. c = Copied(cycle)
    BY <1>1, <1>4, NoCopyTyped, IdsAssumption DEF None
  <2>2. c.state = cycle.state /\ c.daily_bite = cycle.daily_bite
    BY <1>1, <2>1, CopiedTyped
  <2>3. cycle'.state = s /\ cycle'.daily_bite = b
    BY <1>4, <2>2 DEF Finished, Written
  <2>4. /\ cycle.state \in Ungenerated => cycle.daily_bite = None
        /\ s \notin Ungenerated => s \in Generated \cup Terminal
    BY <1>1 DEF States, Ungenerated, Generated, Terminal
  <2>5. b # None => s \in Generated \cup Terminal
    BY <2>2, <2>4
  <2>6. \A q \in Process :
          /\ proc'[q].copy = NoCopy
          /\ proc'[q].pc = "down" => proc'[q].item = None
          /\ Stands(proc'[q].pc, cycle'.state)
    BY <1>2, OthersDown DEF Only, Stands
  <2>7. SoloInv'
    <3>1. cycle'.state # "absent"
      BY <2>3
    <3> QED BY <2>3, <2>5, <2>6, <3>1 DEF SoloInv, NoCopy, NoRow, Stands
  <2>8. Forward
    BY <2>2, <2>3, <2>4 DEF Forward
  <2> QED BY <2>7, <2>8
<1> QED BY <1>3, <1>4

LEMMA SettledSolo ==
  ASSUME NEW p \in Process, Solo(p), Only(p), NEW c \in {proc[p].copy, Copied(cycle)},
         NEW s \in {"window_expired", "terminal_failure", "due", "held_unread", "completed"},
         cycle' = Settled(p, c, s),
         proc'[p].copy = NoCopy, proc'[p].pc \in {"generation", "push", "idle"},
         cycle.state \in Ungenerated \/ (cycle.state \in ToPush /\ s \in Terminal)
  PROVE  SoloInv' /\ Forward
<1>1. cycle \in Cycle /\ c \in Cycle
  BY HeldTyped DEF Solo, DeliveryInv, TypeOK
<1>2. cycle.attempts \in 0 .. MaxAttempts /\ c.daily_bite \in Item \cup {None}
  BY <1>1 DEF Cycle
<1>3. s \in States \ {"absent"} /\ cycle.state \notin Terminal
      /\ (s \in Terminal => s \notin Ungenerated)
  BY DEF States, Ungenerated, Generated, Terminal, ToPush
<1>4. cycle' = Finished(p, c, s, cycle.attempts, c.daily_bite)
  BY DEF Settled
<1> QED BY <1>2, <1>3, <1>4, FinishedSolo

LEMMA QuietSolo ==
  ASSUME NEW p \in Process, Solo(p),
         \/ TickStarts(p) \/ Prepare(p) \/ PrepareEnds(p) \/ ItemStarts(p) \/ ItemEnds(p)
  PROVE  SoloInv' /\ Forward
<1>1. TypeOK /\ proc[p] \in Proc /\ Stands(proc[p].pc, cycle.state)
  BY ProcTyped DEF Solo, DeliveryInv, SoloInv
<1>2. ASSUME NEW r, Becomes(p, r), r.copy = proc[p].copy, UNCHANGED cycle,
             r.pc \in {"prepare", "preparing", "discover", proc[p].pc}
      PROVE  SoloInv' /\ Forward
  <2>1. proc'[p] = r /\ Only(p)
    BY <1>1, <1>2 DEF TypeOK, Becomes, Only
  <2>2. Stands(r.pc, cycle.state) /\ r.pc # "down"
    BY <1>1, <1>2 DEF Stands, Solo
  <2> QED BY <1>2, <2>1, <2>2, SameSolo
<1>3. CASE TickStarts(p)
  <2> DEFINE r == [proc[p] EXCEPT !.pc = "prepare", !.at = now]
  <2>1. r.copy = proc[p].copy /\ r.pc = "prepare"
    BY <1>1 DEF Proc
  <2>2. Becomes(p, r) /\ UNCHANGED cycle
    BY <1>3 DEF TickStarts
  <2> HIDE DEF r
  <2> QED BY <1>2, <2>1, <2>2
<1>4. CASE Goto(p, "discover") /\ UNCHANGED cycle
  <2> DEFINE r == [proc[p] EXCEPT !.pc = "discover"]
  <2>1. r.copy = proc[p].copy /\ r.pc = "discover"
    BY <1>1 DEF Proc
  <2>2. Becomes(p, r)
    BY <1>4 DEF Goto
  <2> HIDE DEF r
  <2> QED BY <1>2, <1>4, <2>1, <2>2
<1>5. CASE Becomes(p, [proc[p] EXCEPT !.pc = "preparing", !.left = selected]) /\ UNCHANGED cycle
  <2> DEFINE r == [proc[p] EXCEPT !.pc = "preparing", !.left = selected]
  <2>1. r.copy = proc[p].copy /\ r.pc = "preparing"
    BY <1>1 DEF Proc
  <2>2. Becomes(p, r)
    BY <1>5
  <2> HIDE DEF r
  <2> QED BY <1>2, <1>5, <2>1, <2>2
<1>6. CASE ItemStarts(p) \/ ItemEnds(p)
  <2>1. UNCHANGED cycle
    BY <1>6 DEF ItemStarts, ItemEnds
  <2>2. CASE ItemStarts(p)
    <3>1. PICK i \in proc[p].left : GetsExisting(p, i) \/ Claims(p, i) \/ IsRefused(p, i)
      BY <2>2 DEF ItemStarts
    <3>2. i \in Item
      BY <1>1, <3>1 DEF Proc
    <3>3. CASE Becomes(p, Got(p, i)) \/ Becomes(p, Passed(p, i))
      BY <1>1, <1>2, <2>1, <3>2, <3>3, PassedTyped
    <3>4. CASE Becomes(p, [proc[p] EXCEPT !.item = i])
      <4> DEFINE r == [proc[p] EXCEPT !.item = i]
      <4>1. r.copy = proc[p].copy /\ r.pc = proc[p].pc /\ Becomes(p, r)
        BY <1>1, <3>4 DEF Proc
      <4> HIDE DEF r
      <4> QED BY <1>2, <2>1, <4>1
    <3> QED BY <3>1, <3>3, <3>4 DEF GetsExisting, Claims, IsRefused
  <2>3. CASE ItemEnds(p)
    <3> DEFINE i == proc[p].item
    <3>1. i \in Item /\ (Becomes(p, Got(p, i)) \/ Becomes(p, Passed(p, i)))
      BY <1>1, <2>3 DEF ItemEnds, Proc
    <3> HIDE DEF i
    <3> QED BY <1>1, <1>2, <2>1, <3>1, PassedTyped
  <2> QED BY <1>6, <2>2, <2>3
<1> QED BY <1>3, <1>4, <1>5, <1>6 DEF Prepare, PrepareEnds, TickStarts

LEMMA DiscoverSolo ==
  ASSUME NEW p \in Process, Solo(p), Discover(p)
  PROVE  SoloInv' /\ Forward
<1>1. TypeOK /\ cycle \in Cycle /\ proc[p].pc = "discover"
  BY DEF Solo, DeliveryInv, TypeOK, Discover
<1>2. /\ Only(p) /\ proc'[p].pc = "held" /\ proc'[p].copy = proc[p].copy
  BY <1>1, GotoTyped DEF Discover, Points, Only
<1>3. \A state : Stands("held", state)
  BY DEF Stands
<1>4. CASE UNCHANGED cycle
  BY <1>2, <1>3, <1>4, SameSolo
<1>5. CASE cycle.state = "absent" /\ cycle' = [cycle EXCEPT !.state = "due"]
  <2>1. /\ proc'[p].copy = NoCopy
        /\ cycle.daily_bite = None
    BY <1>2, <1>5, AbsentBare, NoCopyTyped DEF Solo, SoloInv, NoCopy
  <2>2. cycle'.state = "due" /\ cycle'.daily_bite = None
    BY <1>1, <1>5, <2>1 DEF Cycle
  <2>3. \A q \in Process :
          /\ proc'[q].copy = NoCopy
          /\ proc'[q].pc = "down" => proc'[q].item = None
          /\ Stands(proc'[q].pc, cycle'.state)
    BY <1>2, <1>3, <2>1, OthersDown DEF Only, Stands
  <2>4. SoloInv'
    BY <2>2, <2>3 DEF SoloInv, NoCopy, NoRow, Stands
  <2>5. Forward
    BY <1>5, <2>1 DEF Forward, Terminal
  <2> QED BY <2>4, <2>5
<1> QED BY <1>4, <1>5 DEF Discover, Discovers

LEMMA ListsSolo ==
  ASSUME NEW p \in Process, Solo(p), ListHeld(p) \/ ListDue(p) \/ ListPush(p)
  PROVE  SoloInv' /\ Forward
<1>1. TypeOK /\ cycle \in Cycle /\ UNCHANGED cycle
  BY DEF Solo, DeliveryInv, TypeOK, ListHeld, ListDue, ListPush
<1>2. \A state, pc : pc \in {"recheck", "generate", "announce", "generation", "push", "idle"}
        => Stands(pc, state)
  BY DEF Stands
<1>3. CASE \E pc \in {"recheck", "generate", "announce"} : Lists(p, Listed(p), pc)
  <2>1. PICK pc \in {"recheck", "generate", "announce"} : Lists(p, Listed(p), pc)
    BY <1>3
  <2>2. Listed(p) \in Cycle /\ Listed(p) \in {NoCopy, Copied(cycle)}
    BY <1>1, ProcTyped, CopiedTyped DEF Listed, Proc, Solo, SoloInv
  <2>3. Only(p) /\ proc'[p].pc = pc /\ proc'[p].copy = Listed(p)
    BY <1>1, <2>1, <2>2, ListsTyped DEF Points, Only
  <2>4. Copied(cycle') = Copied(cycle)
    BY <1>1
  <2> QED BY <1>1, <1>2, <2>1, <2>2, <2>3, <2>4, KeptSolo
<1>4. CASE Goto(p, "generation") \/ Goto(p, "push")
  <2>1. Only(p) /\ proc'[p].pc \in {"generation", "push"} /\ proc'[p].copy = proc[p].copy
    BY <1>1, <1>4, GotoTyped DEF Points, Only
  <2> QED BY <1>1, <1>2, <2>1, SameSolo
<1>5. CASE Idles(p)
  <2>1. Only(p) /\ proc'[p].pc = "idle" /\ proc'[p].copy = NoCopy
    BY <1>1, <1>5, StopsTyped DEF Idles, Only
  <2> QED BY <1>1, <1>2, <2>1, SameSolo
<1> QED BY <1>3, <1>4, <1>5 DEF ListHeld, ListDue, ListPush

\* The state the claim is given for is the row's.
LEMMA TryClaimSolo ==
  ASSUME NEW p \in Process, Solo(p), NEW states, "absent" \notin states,
         NEW claimed \in Points, NEW skipped \in {"generation", "push", "idle"},
         TryClaim(p, states, claimed, skipped), claimed # "down",
         cycle.state \in states => Stands(claimed, cycle.state)
  PROVE  SoloInv' /\ Forward
<1>1. /\ TypeOK /\ cycle \in Cycle
      /\ proc[p].copy \in {NoCopy, Copied(cycle)}
  BY DEF Solo, DeliveryInv, TypeOK, SoloInv
<1>2. CASE UNCHANGED cycle /\ Expires(p, skipped)
  <2>1. Lists(p, NoCopy, skipped) /\ skipped \in Points
    BY <1>2 DEF Expires, Lists, Points
  <2>2. Only(p) /\ proc'[p].pc = skipped /\ proc'[p].copy = NoCopy
    BY <1>1, <2>1, NoCopyTyped, ListsTyped DEF Only
  <2>3. Stands(skipped, cycle.state) /\ skipped # "down"
    BY DEF Stands
  <2> QED BY <1>2, <2>2, <2>3, SameSolo
<1>3. ASSUME NEW c \in {proc[p].copy, cycle}, Claimable(p, c, states),
             cycle' = Claimed(p, c),
             Becomes(p, [proc[p] EXCEPT !.pc = claimed, !.copy = Copied(Claimed(p, c))])
      PROVE  SoloInv' /\ Forward
  <2>1. c.state = cycle.state /\ cycle.state \in states
    <3>1. c.state \in states
      BY <1>3 DEF Claimable
    <3>2. NoCopy.state = "absent" /\ Copied(cycle).state = cycle.state
      BY <1>1, CopiedTyped DEF NoCopy, NoRow
    <3> QED BY <1>1, <3>1, <3>2
  <2>2. /\ cycle' \in Cycle
        /\ cycle'.state = cycle.state /\ cycle'.daily_bite = cycle.daily_bite
    BY <1>1, <1>3, ProcTyped DEF Claimed, Written, Cycle, Proc
  <2>3. Copied(Claimed(p, c)) \in Cycle /\ Copied(Claimed(p, c)) = Copied(cycle')
    BY <1>3, <2>2, CopiedTyped
  <2>4. Lists(p, Copied(Claimed(p, c)), claimed)
    BY <1>3 DEF Lists
  <2>5. Only(p) /\ proc'[p].pc = claimed /\ proc'[p].copy = Copied(cycle')
    BY <1>1, <2>3, <2>4, ListsTyped DEF Only
  <2>6. cycle.state # "absent" /\ Stands(claimed, cycle.state)
    BY <2>1
  <2> QED BY <2>2, <2>5, <2>6, KeptSolo
<1> QED BY <1>2, <1>3 DEF TryClaim

LEMMA ClaimSolo ==
  ASSUME NEW p \in Process, Solo(p), RecheckHeld(p) \/ GenerationPhase(p) \/ PushPhase(p)
  PROVE  SoloInv' /\ Forward
<1>1. TypeOK
  BY DEF Solo, DeliveryInv
<1>2. CASE RecheckHeld(p) /\ UNCHANGED cycle /\ Goto(p, "generation")
  <2>1. Only(p) /\ proc'[p].pc = "generation" /\ proc'[p].copy = proc[p].copy
    BY <1>1, <1>2, GotoTyped DEF Points, Only
  <2> QED BY <1>2, <2>1, SameSolo DEF Stands
<1>3. CASE RecheckHeld(p) /\ TryClaim(p, ToRecheck, "rechecked", "generation")
  BY <1>3, TryClaimSolo DEF Points, Stands, ToRecheck
<1>4. CASE GenerationPhase(p)
  BY <1>4, TryClaimSolo DEF GenerationPhase, Points, Stands, ToGenerate
<1>5. CASE PushPhase(p)
  BY <1>5, TryClaimSolo DEF PushPhase, Points, Stands, ToPush
<1> QED BY <1>2, <1>3, <1>4, <1>5 DEF RecheckHeld

LEMMA RecheckEndsSolo ==
  ASSUME NEW p \in Process, Solo(p), RecheckEnds(p)
  PROVE  SoloInv' /\ Forward
<1> DEFINE s == IF WindowExpired(p) THEN "window_expired" ELSE "due"
           c == proc[p].copy
<1>1. TypeOK /\ proc[p].pc = "rechecked"
  BY DEF Solo, DeliveryInv, RecheckEnds
<1>2. Only(p) /\ proc'[p].copy = NoCopy /\ proc'[p].pc = "generation"
  BY <1>1, ListsTyped, NoCopyTyped DEF RecheckEnds, Expires, Lists, Points, Only
<1>3. cycle.state \in Ungenerated
  BY <1>1 DEF Solo, SoloInv, Stands, ToRecheck, Ungenerated
<1>4. s \in {"window_expired", "due"} /\ cycle' = Settled(p, c, s)
  BY DEF RecheckEnds
<1> HIDE DEF s
<1> QED BY <1>2, <1>3, <1>4, SettledSolo

LEMMA GenerationSolo ==
  ASSUME NEW p \in Process, Solo(p),
         GenerationChecks(p) \/ ReloadsRow(p) \/ GenerationEnds(p)
  PROVE  SoloInv' /\ Forward
<1>1. /\ TypeOK /\ cycle \in Cycle /\ proc[p] \in Proc
      /\ cycle.state \in ToGenerate
  BY ProcTyped DEF Solo, DeliveryInv, TypeOK, SoloInv, Stands, GenerationChecks,
                   ReloadsRow, GenerationDone, GenerationEnds
<1>2. cycle.state \in Ungenerated /\ cycle.state \notin Terminal
  BY <1>1 DEF ToGenerate, Ungenerated, Terminal
<1>3. ASSUME NEW c \in {proc[p].copy, Copied(cycle)},
             NEW s \in {"window_expired", "held_unread", "terminal_failure"},
             cycle' = Settled(p, c, s), Expires(p, "push")
      PROVE  SoloInv' /\ Forward
  <2>1. Only(p) /\ proc'[p].copy = NoCopy /\ proc'[p].pc = "push"
    BY <1>1, <1>3, ListsTyped, NoCopyTyped DEF Expires, Lists, Points, Only
  <2> QED BY <1>2, <1>3, <2>1, SettledSolo
<1>4. CASE /\ UNCHANGED cycle
           /\ Becomes(p, [proc[p] EXCEPT !.pc = "generating", !.copy = NoCopy,
                                         !.left = selected])
  <2> DEFINE r == [proc[p] EXCEPT !.pc = "generating", !.copy = NoCopy, !.left = selected]
  <2>1. r.pc = "generating" /\ r.copy = NoCopy
    BY <1>1 DEF Proc
  <2>2. Becomes(p, r)
    BY <1>4
  <2> HIDE DEF r
  <2>3. proc'[p] = r /\ Only(p)
    BY <1>1, <2>2 DEF TypeOK, Becomes, Only
  <2>4. Stands("generating", cycle.state)
    BY <1>1 DEF Stands
  <2> QED BY <1>4, <2>1, <2>3, <2>4, SameSolo
<1>5. CASE ReloadsRow(p)
  <2>1. UNCHANGED cycle /\ Lists(p, Copied(cycle), "generated") /\ Copied(cycle) \in Cycle
    BY <1>1, <1>5, CopiedTyped DEF ReloadsRow, Lists
  <2>2. Only(p) /\ proc'[p].pc = "generated" /\ proc'[p].copy = Copied(cycle)
    BY <1>1, <2>1, ListsTyped DEF Points, Only
  <2>3. Stands("generated", cycle.state) /\ Copied(cycle') = Copied(cycle)
    BY <1>1, <2>1 DEF Stands
  <2> QED BY <2>1, <2>2, <2>3, KeptSolo
<1>6. CASE GenerationEnds(p)
  <2> DEFINE c == proc[p].copy
             made == proc[p].made
             n == Attempt(c)
             s == Failed(c, "retryable_failure")
  <2>1. Only(p) /\ proc'[p].copy = NoCopy /\ proc'[p].pc = "push"
    BY <1>1, <1>6, StopsTyped DEF GenerationEnds, Only
  <2>2. c \in Cycle /\ made \in Item \cup {None}
    BY <1>1 DEF Proc
  <2>3. n \in 0 .. MaxAttempts /\ c.daily_bite \in Item \cup {None}
    BY <2>2, AttemptTyped DEF Cycle
  <2>4. \/ cycle' = Finished(p, c, "push_pending", n, made)
        \/ cycle' = Finished(p, c, s, n, c.daily_bite)
    BY <1>6 DEF GenerationEnds
  <2>5. /\ s \in States \ {"absent"}
        /\ "push_pending" \in States \ {"absent"} /\ "push_pending" \in Generated
    BY FailedTyped DEF States, Ungenerated, Generated, Terminal
  <2> HIDE DEF made, n, s
  <2> QED BY <1>2, <2>1, <2>2, <2>3, <2>4, <2>5, FinishedSolo
<1> QED BY <1>3, <1>4, <1>5, <1>6 DEF GenerationChecks

LEMMA PushSolo ==
  ASSUME NEW p \in Process, Solo(p), PushChecks(p) \/ Send(p) \/ PushEnds(p)
  PROVE  SoloInv' /\ Forward
<1>1. /\ TypeOK /\ cycle \in Cycle /\ proc[p] \in Proc
      /\ cycle.state \in ToPush
  BY ProcTyped DEF Solo, DeliveryInv, TypeOK, SoloInv, Stands, PushChecks, Send, PushEnds
<1>2. CASE \E s \in {"window_expired", "completed"} :
             cycle' = Settled(p, proc[p].copy, s) /\ Idles(p)
  <2>1. PICK s \in {"window_expired", "completed"} :
          cycle' = Settled(p, proc[p].copy, s) /\ Idles(p)
    BY <1>2
  <2>2. Only(p) /\ proc'[p].copy = NoCopy /\ proc'[p].pc = "idle"
    BY <1>1, <2>1, StopsTyped DEF Idles, Only
  <2>3. s \in Terminal
    BY DEF Terminal
  <2> QED BY <1>1, <2>1, <2>2, <2>3, SettledSolo
<1>3. CASE Goto(p, "sending") /\ UNCHANGED cycle
  <2>1. Only(p) /\ proc'[p].pc = "sending" /\ proc'[p].copy = proc[p].copy
    BY <1>1, <1>3, GotoTyped DEF Points, Only
  <2>2. Stands("sending", cycle.state)
    BY <1>1 DEF Stands
  <2> QED BY <1>3, <2>1, <2>2, SameSolo
<1>4. CASE Send(p)
  <2>1. PICK ticket \in {"ok", "error", "gone", "lost"} :
          Becomes(p, [proc[p] EXCEPT !.pc = "sent", !.ticket = ticket])
    BY <1>4 DEF Send
  <2> DEFINE r == [proc[p] EXCEPT !.pc = "sent", !.ticket = ticket]
  <2>2. r.pc = "sent" /\ r.copy = proc[p].copy /\ Becomes(p, r)
    BY <1>1, <2>1 DEF Proc
  <2> HIDE DEF r
  <2>3. proc'[p] = r /\ Only(p)
    BY <1>1, <2>2 DEF TypeOK, Becomes, Only
  <2>4. Stands("sent", cycle.state) /\ UNCHANGED cycle
    BY <1>1, <1>4 DEF Stands, Send
  <2> QED BY <2>2, <2>3, <2>4, SameSolo
<1>5. CASE PushEnds(p)
  <2> DEFINE c == proc[p].copy
             s == Answered(c, proc[p].ticket)
             n == Attempt(c)
  <2>1. Only(p) /\ proc'[p].copy = NoCopy /\ proc'[p].pc = "idle"
    BY <1>1, <1>5, StopsTyped DEF PushEnds, Idles, Only
  <2>2. c \in Cycle
    BY <1>1 DEF Proc
  <2>3. n \in 0 .. MaxAttempts /\ c.daily_bite \in Item \cup {None}
    BY <2>2, AttemptTyped DEF Cycle
  <2>4. cycle' = Finished(p, c, s, n, c.daily_bite)
    BY <1>5 DEF PushEnds
  <2>5. s \in States \ {"absent"} /\ s \notin Ungenerated /\ cycle.state \notin Terminal
    BY <1>1, AnsweredTyped DEF States, Ungenerated, Generated, Terminal, ToPush
  <2> HIDE DEF n, s
  <2> QED BY <2>1, <2>3, <2>4, <2>5, FinishedSolo
<1> QED BY <1>2, <1>3, <1>4, <1>5 DEF PushChecks

LEMMA StopSolo ==
  ASSUME NEW p \in Process, Solo(p), TickRaises(p) \/ Crash(p)
  PROVE  SoloInv' /\ Forward
<1>1. TypeOK /\ cycle \in Cycle
  BY DEF Solo, DeliveryInv, TypeOK
<1>2. \A state, pc : pc \in {"idle", "down"} => Stands(pc, state)
  BY DEF Stands
<1>3. CASE TickRaises(p)
  <2>1. Only(p) /\ proc'[p].pc = "idle" /\ proc'[p].copy = NoCopy /\ UNCHANGED cycle
    BY <1>1, <1>3, StopsTyped DEF TickRaises, Idles, Only
  <2> QED BY <1>2, <2>1, SameSolo
<1>4. CASE Crash(p)
  <2>1. Only(p) /\ proc'[p].pc = "down" /\ proc'[p].copy = NoCopy /\ proc'[p].item = None
    BY <1>1, <1>4, StopsTyped DEF Crash, Only
  <2>2. /\ cycle'.state = cycle.state /\ cycle'.daily_bite = cycle.daily_bite
        /\ cycle.claimed_by # p => cycle' = cycle
    BY <1>1, <1>4 DEF Crash, Cycle
  <2>3. cycle.state = "absent" => cycle' = cycle
    BY <2>2, IdsAssumption DEF Solo, SoloInv, NoRow, None
  <2> QED BY <1>2, <2>1, <2>2, <2>3, KeptSolo
<1> QED BY <1>3, <1>4

\* Whoever is not a running process leaves state, nibble and sessions alone.
LEMMA ElsewhereSolo ==
  ASSUME DeliveryInv, SoloInv, OneAtATime,
         \/ LeaseExpires \/ Clock \/ MarkBiteRead \/ SwitchNotifications
         \/ \E i \in Item : GetOrCreateSession(i)
         \/ \E p \in Process : Boot(p)
         \/ UNCHANGED vars
  PROVE  SoloInv' /\ Forward
<1>1. cycle \in Cycle /\ TypeOK
  BY DEF DeliveryInv, TypeOK
<1>2. /\ cycle'.state = cycle.state /\ cycle'.daily_bite = cycle.daily_bite
      /\ cycle' = cycle \/ (cycle.leased /\ cycle' = [cycle EXCEPT !.leased = FALSE])
  <2>1. CASE LeaseExpires
    BY <1>1, <2>1 DEF Cycle, LeaseExpires
  <2>2. CASE UNCHANGED cycle
    BY <2>2
  <2> QED BY <2>1, <2>2 DEF Clock, MarkBiteRead, SwitchNotifications,
                            GetOrCreateSession, Boot, vars
<1>3. Copied(cycle') = Copied(cycle) /\ (cycle.state = "absent" => cycle' = cycle)
  <2>1. CASE cycle' = cycle
    BY <2>1
  <2>2. CASE cycle.leased /\ cycle' = [cycle EXCEPT !.leased = FALSE]
    <3>1. cycle.state # "absent"
      BY <2>2 DEF SoloInv, NoRow
    <3>2. cycle' = Copied(cycle)
      BY <2>2 DEF Copied
    <3>3. Copied(Copied(cycle)) = Copied(cycle)
      <4> DEFINE d == Copied(cycle)
      <4>1. d \in Cycle /\ d.leased = FALSE
        BY <1>1, CopiedTyped, CopiedUnleased
      <4> HIDE DEF d
      <4>2. Copied(d) = d
        BY <4>1, CopiedSame
      <4> QED BY <4>2 DEF d
    <3> QED BY <3>1, <3>2, <3>3
  <2> QED BY <1>2, <2>1, <2>2
<1>4. \A q \in Process :
        /\ proc'[q].copy = proc[q].copy /\ proc'[q].item = proc[q].item
        /\ \/ proc'[q].pc = proc[q].pc
           \/ proc[q].pc = "down" /\ proc'[q].pc = "idle"
  <2>1. CASE UNCHANGED proc
    BY <2>1
  <2>2. CASE \E p \in Process : Boot(p)
    BY <1>1, <2>2, GotoTyped DEF Boot, Points
  <2> QED BY <2>1, <2>2 DEF LeaseExpires, Clock, MarkBiteRead, SwitchNotifications,
                            GetOrCreateSession, vars
<1>5. \A q \in Process :
        /\ proc'[q].copy \in {NoCopy, Copied(cycle')}
        /\ proc'[q].pc = "down" => proc'[q].copy = NoCopy /\ proc'[q].item = None
        /\ Stands(proc'[q].pc, cycle'.state)
  BY <1>2, <1>3, <1>4 DEF SoloInv, Stands
<1>6. SoloInv'
  <2>1. /\ cycle'.state = "absent" => cycle' = NoRow
        /\ cycle'.daily_bite # None => cycle'.state \in Generated \cup Terminal
    BY <1>2, <1>3 DEF SoloInv
  <2>2. Copied(cycle)' = Copied(cycle')
    BY DEF Copied
  <2> QED BY <1>5, <2>1, <2>2 DEF SoloInv, NoCopy, NoRow, Stands
<1>7. Forward
  <2>1. cycle.daily_bite # None => cycle.state \notin Ungenerated
    BY DEF SoloInv, Generated, Terminal, Ungenerated
  <2> QED BY <1>2, <2>1 DEF Forward
<1> QED BY <1>6, <1>7

LEMMA InitSolo == Init => SoloInv
<1> SUFFICES ASSUME Init PROVE SoloInv
  OBVIOUS
<1>1. PICK up \in SUBSET Process :
        proc = [p \in Process |-> Stopped(IF p \in up THEN "idle" ELSE "down")]
  BY DEF Init
<1>2. \A p \in Process : /\ proc[p].copy = NoCopy /\ proc[p].item = None
                         /\ proc[p].pc \in {"idle", "down"}
  BY <1>1 DEF Stopped
<1>3. cycle = NoRow /\ cycle.daily_bite = None
  BY DEF Init, NoRow
<1> QED BY <1>2, <1>3 DEF SoloInv, Stands

LEMMA StepSolo ==
  DeliveryInv /\ SoloInv /\ OneAtATime /\ [Next]_vars => SoloInv' /\ Forward
<1> SUFFICES ASSUME DeliveryInv, SoloInv, OneAtATime, [Next]_vars
             PROVE  SoloInv' /\ Forward
  OBVIOUS
<1>1. ASSUME NEW p \in Process, Works(p) \/ TickRaises(p) \/ Crash(p)
      PROVE  SoloInv' /\ Forward
  <2>1. proc[p].pc # "down"
    <3>1. CASE ItemEnds(p)
      BY <3>1 DEF ItemEnds, SoloInv
    <3>2. CASE TickStarts(p) \/ Prepare(p) \/ PrepareEnds(p) \/ ItemStarts(p) \/ Discover(p)
      BY <3>2 DEF TickStarts, Prepare, PrepareEnds, ItemStarts, Between, Discover
    <3>3. CASE ListHeld(p) \/ RecheckHeld(p) \/ RecheckEnds(p)
      BY <3>3 DEF ListHeld, RecheckHeld, RecheckEnds
    <3>4. CASE ListDue(p) \/ GenerationPhase(p) \/ GenerationChecks(p) \/ ReloadsRow(p)
               \/ GenerationEnds(p)
      BY <3>4 DEF ListDue, GenerationPhase, GenerationChecks, ReloadsRow, GenerationDone,
                  GenerationEnds
    <3>5. CASE ListPush(p) \/ PushPhase(p) \/ PushChecks(p) \/ Send(p) \/ PushEnds(p)
      BY <3>5 DEF ListPush, PushPhase, PushChecks, Send, PushEnds
    <3>6. CASE TickRaises(p) \/ Crash(p)
      BY <3>6 DEF TickRaises, Crash
    <3> QED BY <1>1, <3>1, <3>2, <3>3, <3>4, <3>5, <3>6 DEF Works
  <2>2. Solo(p)
    BY <2>1 DEF Solo
  <2> QED BY <1>1, <2>2, QuietSolo, DiscoverSolo, ListsSolo, ClaimSolo, RecheckEndsSolo,
             GenerationSolo, PushSolo, StopSolo DEF Works
<1>2. CASE \E p \in Process : Boot(p)
  BY <1>2, ElsewhereSolo
<1>3. CASE \/ LeaseExpires \/ Clock \/ MarkBiteRead \/ SwitchNotifications
           \/ \E i \in Item : GetOrCreateSession(i)
           \/ UNCHANGED vars
  BY <1>3, ElsewhereSolo
<1> QED BY <1>1, <1>2, <1>3 DEF Next

\* As long as no two processes run at once, through crashes and restarts, a
\* finished cycle stays finished and its nibble is made once.
THEOREM NeverGoesBack == Spec /\ []OneAtATime => LedgerForward
<1>1. DeliveryInv /\ SoloInv /\ OneAtATime /\ [Next]_vars => SoloInv'
  BY StepSolo
<1>2. DeliveryInv /\ SoloInv /\ OneAtATime /\ [Next]_vars =>
        [/\ cycle.state \in Terminal => cycle'.state = cycle.state
         /\ cycle.daily_bite # None =>
              cycle'.daily_bite = cycle.daily_bite /\ cycle'.state \notin Ungenerated]_vars
  BY StepSolo DEF Forward
<1> QED BY InitInv, StepInv, InitSolo, <1>1, <1>2, PTL DEF Spec, LedgerForward

=============================================================================
