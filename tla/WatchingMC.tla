----------------------------- MODULE WatchingMC -----------------------------
(* An instance of Watching for TLC: pages of two events, the default poll  *)
(* interval of two seconds, a deadline that is no multiple of it, and one  *)
(* retry_after below and one above the backoff cap.                        *)
EXTENDS Watching

SomeDeadlines == {0, 45}
SomeRetryAfters == {0, 7, 120}
=============================================================================
