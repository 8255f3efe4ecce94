------------------------------- MODULE SlotPool -------------------------------
(***************************************************************************)
(* What reservations promise a Free account: a pool of FreeLimit slots.  A *)
(* source holds at most one slot while it is processed; the slot is given  *)
(* back, or charged for good when processing succeeds.  Slots held and     *)
(* slots charged, with what the account brought along, never exceed the    *)
(* limit, and a charge is never undone.                                    *)
(***************************************************************************)
EXTENDS Naturals, FiniteSets

CONSTANTS Item, FreeLimit

VARIABLES
  carried,   \* slots charged before the account's first source
  held,      \* sources holding a slot
  charged    \* sources charged for good

poolVars == <<carried, held, charged>>

PoolInit ==
  /\ carried \in Nat
  /\ held = {}
  /\ charged = {}

GiveBack ==
  /\ \E back \in (SUBSET held) \ {{}} : held' = held \ back
  /\ UNCHANGED <<carried, charged>>

\* Slots are reclaimed in the same step that takes one.
Acquire ==
  /\ \E back \in SUBSET held, i \in Item \ charged :
       /\ i \notin held \ back
       /\ carried + Cardinality(charged) + Cardinality(held \ back) < FreeLimit
       /\ held' = (held \ back) \cup {i}
  /\ UNCHANGED <<carried, charged>>

Charge ==
  /\ \E i \in held :
       /\ held' = held \ {i}
       /\ charged' = charged \cup {i}
  /\ UNCHANGED carried

PoolNext == GiveBack \/ Acquire \/ Charge

PoolSpec == PoolInit /\ [][PoolNext]_poolVars

=============================================================================
