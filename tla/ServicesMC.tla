----------------------------- MODULE ServicesMC -----------------------------
(* An instance of Services for TLC. *)
EXTENDS Services, Sequences

BrokerAndModel == <<"model", "wait", "broker", "continue">>
EachTopic == {{"burst"}, {"act", "kill"}, {"route", "wait"}, {"policy"}}

\* Texts with and without the separator of an event's identity; and magnitudes
\* around those at which the notation of a number changes.
ShortTexts == UNION {[1 .. n -> {"1", ":"}] : n \in 1 .. 2}
Magnitudes == {-10, -8, -7, -6, -5, -4, 0, 15, 16, 17, 20, 21} \X {1, 2, 17}
=============================================================================
