---------------------------- MODULE SubmissionMC ----------------------------
(* An instance of Submission for TLC: the default two retries, no hint, a  *)
(* hint of 100 seconds and one of twenty minutes.                          *)
EXTENDS Submission

SomeHints == {0, 200, 2400}
=============================================================================
