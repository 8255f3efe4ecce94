---------------------------- MODULE MCArtifacts ----------------------------
(* Artifacts for TLC: two attempts whose names are interchangeable. *)
EXTENDS Artifacts, TLC

CONSTANTS a1, a2, r1

\* No definition tells one attempt from the other.
AttemptSymmetry == Permutations({a1, a2})

\* Everything alone, each kind of event by itself, and a deletion with no client.
OneKindOfEvent == {{}} \cup {{e} : e \in Event} \cup {{"delete", "client"}}

\* The only attempt of the liveness run meets each of these.
CrashesOrStalls == {{"crash", "delete"}, {"stall"}, {"write"}}
=============================================================================
