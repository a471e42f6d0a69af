----------------------------- MODULE MCHttpHop -----------------------------
(***************************************************************************)
(* A deadline of eight backoff units: the doubling waits 1, 2 and 4 fit,   *)
(* and a header may ask for none, one, or more than is left.               *)
(***************************************************************************)
EXTENDS HttpHop

MCRetryAfters == {Absent, 0, 9}
MCKeys == {"old", "new"}

=============================================================================
