----------------------------- MODULE Submission -----------------------------
(***************************************************************************)
(* Submitting one piece of paid work through the account client: run()     *)
(* over Client._request (nodus/__init__.py) and an application that calls  *)
(* run() again when it fails.  The control plane keeps one idempotency     *)
(* record per key and is not in this repository.                           *)
(*                                                                         *)
(* A call is identified by its number, a key by the number of the call     *)
(* that made it up (0: the application's own explicit key).  Time is in    *)
(* half seconds, the unit of the first backoff.                            *)
(***************************************************************************)
EXTENDS Naturals, FiniteSets

CONSTANTS
    MaxRetries,   \* the client's max_retries
    Hints,        \* Retry-After values an answer may carry (0: none)
    MaxSubmits    \* bound: run() calls the application makes

ASSUME SubmissionAssumption ==
    MaxRetries \in Nat /\ Hints \subseteq Nat /\ MaxSubmits \in Nat \ {0}

RetryAfterCap == 600   \* _RETRY_AFTER_CAP, 300 seconds
BackoffCap    == 16    \* 8 seconds

VARIABLES
    explicit,   \* the application supplies its own idempotency key
    pc,         \* "idle", "send", "sent" (an attempt is unanswered), "hold"
    call,       \* calls made so far
    key,        \* the Idempotency-Key of the call in progress
    attempt,    \* retries made in this call
    slept,      \* time this call has slept
    delay,      \* the sleep before the next attempt
    transit,    \* requests with no answer that may still arrive: their keys
    accepted,   \* keys that have a workload
    outcome     \* how the last call ended: [kind, key]; key 0 carries none

vars == <<explicit, pc, call, key, attempt, slept, delay, transit, accepted, outcome>>

\* How a call ends: a handle; an error of _unreached, which carries the key;
\* a status the server answered with (_raise) or an accepted body without a
\* workload id, which do not.
Kinds == {"none", "ok", "timeout", "connection", "api", "status", "noid"}
NoKey      == 0 - 1
Keys       == 0 .. MaxSubmits

\* Type invariant.
TypeOK ==
    /\ explicit \in BOOLEAN
    /\ pc \in {"idle", "send", "sent", "hold"}
    /\ call \in 0 .. MaxSubmits
    /\ key \in Keys
    /\ attempt \in 0 .. MaxRetries
    /\ slept \in Nat
    /\ delay \in Nat
    /\ transit \subseteq (1 .. MaxSubmits) \X Keys
    /\ accepted \subseteq Keys
    /\ outcome.kind \in Kinds
    /\ outcome.key \in Keys \cup {NoKey}

Init ==
    /\ explicit \in BOOLEAN
    /\ pc = "idle"
    /\ call = 0
    /\ key = 0
    /\ attempt = 0
    /\ slept = 0
    /\ delay = 0
    /\ transit = {}
    /\ accepted = {}
    /\ outcome = [kind |-> "none", key |-> NoKey]

-----------------------------------------------------------------------------
\* The application: a first call, and after an error another one.  It reuses
\* the key the error carries; an error without one reads as a refusal, so
\* it submits afresh and run() generates a new key.
Run ==
    /\ pc = "idle"
    /\ call < MaxSubmits
    /\ outcome.kind # "ok"
    /\ call' = call + 1
    /\ key' = CASE explicit -> 0
                [] ~explicit /\ outcome.key # NoKey -> outcome.key
                [] OTHER -> call + 1
    /\ attempt' = 0
    /\ slept' = 0
    /\ pc' = "send"
    /\ UNCHANGED <<explicit, delay, transit, accepted, outcome>>

Send ==
    /\ pc = "send"
    /\ pc' = "sent"
    /\ UNCHANGED <<explicit, call, key, attempt, slept, delay, transit, accepted, outcome>>

MinOf(a, b) == IF a <= b THEN a ELSE b

\* _backoff: the server's hint, bounded, or 0.5 s doubling up to 8 s, which the
\* fourth doubling reaches.
Backoff(n, hint) ==
    IF hint > 0 THEN MinOf(hint, RetryAfterCap) ELSE MinOf(BackoffCap, 2 ^ MinOf(n, 4))

\* _hold: one waiting budget for the whole call.
HoldLeft == RetryAfterCap - slept
HoldUnbudgeted(hint) == Backoff(attempt, hint)                      \* mutant: each sleep bounded alone
Hold(hint) == MinOf(Backoff(attempt, hint), HoldLeft)

MayRetry == attempt < MaxRetries /\ slept < RetryAfterCap

\* Sleep and try again, or end the call with the error.
RetryOrRaise(hint, kind, carried) ==
    \/ /\ MayRetry
       /\ pc' = "hold"
       /\ delay' = Hold(hint)
       /\ UNCHANGED outcome
    \/ /\ ~MayRetry
       /\ pc' = "idle"
       /\ outcome' = [kind |-> kind, key |-> carried]
       /\ UNCHANGED delay

WakeFreshKey ==                                                     \* mutant: a key per attempt
    /\ pc = "hold"
    /\ slept' = slept + delay
    /\ attempt' = attempt + 1
    /\ key' = (key + 1) % (MaxSubmits + 1)
    /\ pc' = "send"
    /\ UNCHANGED <<explicit, call, delay, transit, accepted, outcome>>

WakeInBudget ==                                                     \* mutant: boundary of the budget
    /\ pc = "hold"
    /\ slept + delay < RetryAfterCap
    /\ slept' = slept + delay
    /\ attempt' = attempt + 1
    /\ pc' = "send"
    /\ UNCHANGED <<explicit, call, key, delay, transit, accepted, outcome>>

Wake ==
    /\ pc = "hold"
    /\ slept' = slept + delay
    /\ attempt' = attempt + 1
    /\ pc' = "send"
    /\ UNCHANGED <<explicit, call, key, delay, transit, accepted, outcome>>

Raise(kind, carried) ==
    /\ pc' = "idle"
    /\ outcome' = [kind |-> kind, key |-> carried]
    /\ UNCHANGED delay

\* The attempt got no answer.  What was sent may arrive later or never; a
\* connection that was refused sent nothing.
NoAnswer ==
    /\ pc = "sent"
    /\ \E kind \in {"timeout", "connection"} :
          /\ RetryOrRaise(0, kind, key)
          /\ \/ transit' = transit \cup {<<call, key>>}
             \/ kind = "connection" /\ UNCHANGED transit
    /\ UNCHANGED <<explicit, call, key, attempt, slept, accepted>>

\* The control plane accepts the submission, or finds the key's record, and
\* the answer is received: a handle, a body that is not JSON, or one that
\* names no workload.
Accepted ==
    /\ pc = "sent"
    /\ accepted' = accepted \cup {key}
    /\ \/ Raise("ok", key)
       \/ Raise("api", key)
       \/ Raise("noid", NoKey)
    /\ UNCHANGED <<explicit, call, key, attempt, slept, transit>>

\* A redirect from the configured origin: refused, nothing accepted.
Redirected ==
    /\ pc = "sent"
    /\ Raise("api", key)
    /\ UNCHANGED <<explicit, call, key, attempt, slept, transit, accepted>>

\* 408, 429, 500, 502, 503 or 504 for this attempt.  A gateway's status says
\* nothing of whether the control plane behind it accepted the submission.
Busy ==
    /\ pc = "sent"
    /\ \E hint \in Hints : RetryOrRaise(hint, "status", NoKey)
    /\ accepted' \in {accepted, accepted \cup {key}}
    /\ UNCHANGED <<explicit, call, key, attempt, slept, transit>>

\* Any other 4xx: final, and not accepted.
Refused ==
    /\ pc = "sent"
    /\ Raise("status", NoKey)
    /\ UNCHANGED <<explicit, call, key, attempt, slept, transit, accepted>>

\* A request without an answer reaches the control plane, during the call or
\* after it, and is accepted.
Arrive(r) ==
    /\ transit' = transit \ {r}
    /\ accepted' = accepted \cup {r[2]}
    /\ UNCHANGED <<explicit, pc, call, key, attempt, slept, delay, outcome>>

CallStep == Send \/ Wake \/ NoAnswer \/ Accepted \/ Redirected \/ Busy \/ Refused

Next ==
    \/ Run
    \/ CallStep
    \/ \E r \in transit : Arrive(r)

Spec == Init /\ [][Next]_vars

\* Every attempt ends: it is answered or its timeout passes.
FairSpec == Spec /\ WF_vars(CallStep)

-----------------------------------------------------------------------------
\* However its attempts are lost, delayed, refused or repeated, a run() call
\* buys at most one workload, and with an explicit key all calls together do.
OneWorkloadPerCall ==
    IF explicit THEN Cardinality(accepted) <= 1 ELSE Cardinality(accepted) <= call

\* All the sleeping in one call, whatever hints the server sends, stays
\* within one budget: a bounded sleep multiplied by retries is not bounded.
SleepBudget == slept + (IF pc = "hold" THEN delay ELSE 0) <= RetryAfterCap

\* No answer, delay or hint keeps a caller in run() for ever.
CallEnds == pc = "send" ~> pc = "idle"

\* nodus/__init__.py:712-717: a failure that leaves the caller unable to say
\* what happened carries the key, so a retry is the same submission.  Here:
\* a generated key travels on the error when the last attempt was answered
\* with a status but an earlier one, whose answer was lost, may have created
\* the workload.
UncertainErrorCarriesKey ==
    pc = "idle" /\ ~explicit /\ outcome.kind = "status" /\ outcome.key = NoKey
        => <<call, key>> \notin transit /\ key \notin accepted
=============================================================================
