----------------------------- MODULE LeasedSlot -----------------------------
(***************************************************************************)
(* What a claimed row promises, whichever table it is in: of the workers   *)
(* that want to fill a slot one holds it at a time, nobody takes it while  *)
(* the holder's lease is ahead, only the holder fills it, and what was     *)
(* filled stays as it is.  A holder may die, and its lease then runs out.  *)
(***************************************************************************)
EXTENDS Naturals

CONSTANTS Slot, Worker, Nobody, Dead

VARIABLES
  holder,    \* who holds the claim on a slot
  leased,    \* whether the holder's lease is ahead
  filler     \* who filled the slot

slotVars == <<holder, leased, filler>>

SlotInit ==
  /\ holder = [s \in Slot |-> Nobody]
  /\ leased = [s \in Slot |-> FALSE]
  /\ filler = [s \in Slot |-> Nobody]

Take(s, w) ==
  /\ filler[s] = Nobody
  /\ ~leased[s]
  /\ holder' = [holder EXCEPT ![s] = w]
  /\ leased' = [leased EXCEPT ![s] = TRUE]
  /\ UNCHANGED filler

Lapse(s) ==
  /\ leased' = [leased EXCEPT ![s] = FALSE]
  /\ UNCHANGED <<holder, filler>>

Renew(s) ==
  /\ holder[s] \in Worker
  /\ leased' = [leased EXCEPT ![s] = TRUE]
  /\ UNCHANGED <<holder, filler>>

Drop(s) ==
  /\ holder[s] \in Worker
  /\ holder' = [holder EXCEPT ![s] = Nobody]
  /\ leased' = [leased EXCEPT ![s] = FALSE]
  /\ UNCHANGED filler

Fill(s) ==
  /\ holder[s] \in Worker
  /\ filler' = [filler EXCEPT ![s] = holder[s]]
  /\ holder' = [holder EXCEPT ![s] = Nobody]
  /\ leased' = [leased EXCEPT ![s] = FALSE]

Die(s) ==
  /\ holder[s] \in Worker
  /\ holder' = [holder EXCEPT ![s] = Dead]
  /\ UNCHANGED <<leased, filler>>

SlotNext ==
  \E s \in Slot :
    \/ \E w \in Worker : Take(s, w)
    \/ Lapse(s) \/ Renew(s) \/ Drop(s) \/ Fill(s) \/ Die(s)

SlotSpec == SlotInit /\ [][SlotNext]_slotVars

=============================================================================
