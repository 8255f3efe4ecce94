------------------------------ MODULE MCClaims ------------------------------
(***************************************************************************)
(* Values for the constants of Claims.                                     *)
(***************************************************************************)
EXTENDS Claims, TLC

\* Two days of a story, two books with their questions, or one chat turn.
OneKindAtATime == {Story, Wisdom \cup Answer, Turn}

InTimeOrNot == {TRUE, FALSE}

Symmetry == Permutations(Worker) \cup Permutations(Wisdom)

=============================================================================
