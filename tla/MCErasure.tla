----------------------------- MODULE MCErasure -----------------------------
(* AccountErasure for TLC. *)
EXTENDS AccountErasure, TLC

CONSTANTS s1, r1, q1

\* With an outage, uploads and repeated requests are taken one at a time, and
\* calls without a client come with uploads alone.
EventsTogether ==
  {{"upload", "retap", "return"}, {"upload", "outage", "return"}, {"retap", "outage", "return"},
   {"upload", "client", "return"}}
=============================================================================
