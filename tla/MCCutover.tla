----------------------------- MODULE MCCutover -----------------------------
(***************************************************************************)
(* Values for the constants of Cutover that a .cfg cannot write down.      *)
(***************************************************************************)
EXTENDS Cutover, TLC

\* More tokens than one row and the worker on it can hold at a time.
Tokens == 1..7

OpensOnTrial == {TRUE}
NoneOrOne == {0, 1}

Accounts(trial, origins, events, total) ==
  [origin : {f \in [Item -> Origin] : {f[i] : i \in Item} = origins},
   trial : {trial}, deletes : {"delete" \in events}, purchases : {"purchase" \in events},
   total : {total}]

\* With one slot left: an account on its trial, with two sources of the new
\* release, one it may delete, one beside which it subscribes, or one of the old;
\* and a Free one with a source of the old release beside another of either.
\* With two slots left: a Free one with a source of the old.
Releases ==
  Accounts(TRUE, {"new"}, {}, 1)
  \cup Accounts(TRUE, {"new", "unused"}, {"delete"}, 1)
  \cup Accounts(TRUE, {"new", "unused"}, {"purchase"}, 1)
  \cup Accounts(TRUE, {"under way", "unused"}, {}, 1)
  \cup UNION {Accounts(FALSE, {"under way", o}, {"delete"}, 1) :
                 o \in {"new", "under way", "legacy"}}
  \cup Accounts(FALSE, {"under way", "unused"}, {"delete"}, 0)

\* Sources and overlapping processes are interchangeable.
Symmetry == Permutations(Item) \cup Permutations(Runner)

=============================================================================
