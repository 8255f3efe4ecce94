------------------------------ MODULE MCLibrary ------------------------------
(***************************************************************************)
(* Values for the constants of Library that a .cfg cannot write down.      *)
(***************************************************************************)
EXTENDS LibraryProperties, TLC

\* More tokens than one row and the workers on it can hold at a time.
Tokens == 1..7

OpensFree == {FALSE}
OpensOnTrial == {TRUE}
FreeOrTrial == {FALSE, TRUE}

NothingCarried == {0}
OneCarried == {1}

\* Sources and worker slots are interchangeable.
Symmetry == Permutations(Item) \cup Permutations(Worker)

=============================================================================
