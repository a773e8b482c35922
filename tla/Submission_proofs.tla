-------------------------- MODULE Submission_proofs --------------------------
(***************************************************************************)
(* What holds of Submission for every number of retries and calls and      *)
(* every set of hints: its types, one workload per call, and one budget of *)
(* sleep per call.                                                         *)
(***************************************************************************)
EXTENDS Submission, FiniteSetTheorems, TLAPS

-----------------------------------------------------------------------------
(* Sleeping.                                                               *)

\* _backoff is a number of half seconds, whatever the attempt and the hint.
LEMMA BackoffType ==
    ASSUME NEW n \in Nat, NEW hint \in Nat
    PROVE  Backoff(n, hint) \in Nat
<1>1. MinOf(n, 4) \in 0 .. 4
  BY DEF MinOf
<1>2. 2 ^ 0 = 1 /\ 2 ^ 1 = 2 /\ 2 ^ 2 = 4 /\ 2 ^ 3 = 8 /\ 2 ^ 4 = 16
  OBVIOUS
<1>3. MinOf(n, 4) = 0 \/ MinOf(n, 4) = 1 \/ MinOf(n, 4) = 2 \/ MinOf(n, 4) = 3 \/ MinOf(n, 4) = 4
  BY <1>1
<1>4. 2 ^ MinOf(n, 4) \in {1, 2, 4, 8, 16}
  BY <1>2, <1>3, Zenon
<1>5. QED
  BY <1>4 DEF Backoff, MinOf, BackoffCap, RetryAfterCap

\* _hold never asks for more than what is left of the call's budget.
LEMMA HoldFits ==
    ASSUME attempt \in Nat, slept \in Nat, MayRetry, NEW hint \in Nat
    PROVE  Hold(hint) \in Nat /\ slept + Hold(hint) <= RetryAfterCap
<1>1. Backoff(attempt, hint) \in Nat
  BY BackoffType
<1>2. HoldLeft \in Nat /\ slept + HoldLeft = RetryAfterCap
  BY DEF HoldLeft, MayRetry, RetryAfterCap
<1>3. QED
  BY <1>1, <1>2 DEF Hold, MinOf, RetryAfterCap

-----------------------------------------------------------------------------
(* The inductive invariant.                                                *)

\* The keys under which this application may have bought anything.
Owned == IF explicit THEN {0} ELSE 1 .. call

\* Whatever is accepted, may still arrive, is being asked for or was handed
\* back by an error is under such a key.
KeysOwned ==
    /\ accepted \subseteq Owned
    /\ \A r \in transit : r[2] \in Owned
    /\ pc # "idle" => key \in Owned
    /\ outcome.key \in Owned \cup {NoKey}

\* A retry that is waited for is one more than there was.
Retries == pc = "hold" => attempt < MaxRetries

\* A call in progress has a number.
Numbered == pc # "idle" => call \in 1 .. MaxSubmits

\* An error's record has exactly these fields.
OutcomeType == outcome \in [kind : Kinds, key : Keys \cup {NoKey}]

SubmissionInv == TypeOK /\ OutcomeType /\ Retries /\ Numbered /\ KeysOwned /\ SleepBudget

\* The application before its first call.
LEMMA SubmissionInit == Init => SubmissionInv
BY SubmissionAssumption
   DEF Init, SubmissionInv, TypeOK, OutcomeType, Retries, Numbered, KeysOwned, Owned,
       SleepBudget, Keys, Kinds, NoKey, RetryAfterCap

\* An attempt that failed is followed by a sleep within the budget, or by an
\* error that carries the key of this call or none.
LEMMA RetryOrRaiseInv ==
    ASSUME SubmissionInv, pc = "sent", NEW hint \in Nat, NEW kind \in Kinds,
           NEW carried \in {key, NoKey}, RetryOrRaise(hint, kind, carried),
           UNCHANGED <<explicit, call, key, attempt, slept>>
    PROVE  /\ pc' \in {"hold", "idle"} /\ delay' \in Nat
           /\ OutcomeType' /\ Retries' /\ SleepBudget'
           /\ outcome'.key \in Owned \cup {NoKey}
<1> USE DEF SubmissionInv, TypeOK
<1>1. CASE MayRetry /\ pc' = "hold" /\ delay' = Hold(hint) /\ UNCHANGED outcome
  <2>1. Hold(hint) \in Nat /\ slept + Hold(hint) <= RetryAfterCap
    BY <1>1, HoldFits DEF MayRetry
  <2>2. QED
    BY <1>1, <2>1 DEF OutcomeType, Retries, SleepBudget, MayRetry, KeysOwned
<1>2. CASE /\ ~MayRetry /\ pc' = "idle" /\ outcome' = [kind |-> kind, key |-> carried]
           /\ UNCHANGED delay
  <2>1. carried \in Owned \cup {NoKey} /\ carried \in Keys \cup {NoKey}
    BY DEF KeysOwned
  <2>2. slept <= RetryAfterCap
    BY DEF SleepBudget, RetryAfterCap
  <2>3. QED
    BY <1>2, <2>1, <2>2 DEF OutcomeType, Retries, SleepBudget, RetryAfterCap
<1>3. QED
  BY <1>1, <1>2 DEF RetryOrRaise

\* The same for a call that ends at once.
LEMMA RaiseInv ==
    ASSUME SubmissionInv, pc = "sent", NEW kind \in Kinds,
           NEW carried \in {key, NoKey}, Raise(kind, carried),
           UNCHANGED <<explicit, call, key, attempt, slept>>
    PROVE  /\ pc' = "idle" /\ delay' \in Nat
           /\ OutcomeType' /\ Retries' /\ SleepBudget'
           /\ outcome'.key \in Owned \cup {NoKey}
<1> USE DEF SubmissionInv, TypeOK
<1>1. carried \in Owned \cup {NoKey} /\ carried \in Keys \cup {NoKey}
  BY DEF KeysOwned
<1>2. QED
  BY <1>1 DEF Raise, OutcomeType, Retries, SleepBudget, RetryAfterCap

\* Every step keeps the invariant.
LEMMA SubmissionStep == SubmissionInv /\ [Next]_vars => SubmissionInv'
<1> SUFFICES ASSUME SubmissionInv, [Next]_vars PROVE SubmissionInv'
  OBVIOUS
<1> USE SubmissionAssumption DEF SubmissionInv
<1>1. CASE Run
  <2>1. call' = call + 1 /\ call' \in 1 .. MaxSubmits
    BY <1>1 DEF Run, TypeOK
  <2>2. key' \in Owned' /\ key' \in Keys
    <3>1. CASE explicit
      BY <1>1, <3>1 DEF Run, Owned, Keys
    <3>2. CASE ~explicit /\ outcome.key # NoKey
      <4>1. outcome.key \in 1 .. call
        BY <3>2 DEF KeysOwned, Owned
      <4>2. key' = outcome.key
        BY <1>1, <3>2 DEF Run
      <4>3. QED
        BY <1>1, <2>1, <3>2, <4>1, <4>2 DEF Run, Owned, Keys, TypeOK
    <3>3. CASE ~explicit /\ outcome.key = NoKey
      <4>1. key' = call + 1
        BY <1>1, <3>3 DEF Run
      <4>2. QED
        BY <1>1, <2>1, <3>3, <4>1 DEF Run, Owned, Keys, TypeOK
    <3>4. QED
      BY <3>1, <3>2, <3>3 DEF TypeOK
  <2>3. Owned \subseteq Owned'
    BY <1>1, <2>1 DEF Run, Owned, TypeOK
  <2>4. TypeOK'
    BY <1>1, <2>1, <2>2 DEF Run, TypeOK
  <2>5. KeysOwned'
    BY <1>1, <2>2, <2>3 DEF Run, KeysOwned
  <2>6. QED
    BY <1>1, <2>1, <2>4, <2>5
       DEF Run, OutcomeType, Retries, Numbered, SleepBudget, RetryAfterCap
<1>2. CASE Send
  BY <1>2 DEF Send, TypeOK, OutcomeType, Retries, Numbered, KeysOwned, Owned, SleepBudget
<1>3. CASE Wake
  <2>1. attempt + 1 \in 0 .. MaxRetries /\ slept + delay \in Nat
    BY <1>3 DEF Wake, TypeOK, Retries
  <2>2. TypeOK'
    BY <1>3, <2>1 DEF Wake, TypeOK
  <2>3. SleepBudget'
    BY <1>3, <2>1 DEF Wake, SleepBudget, TypeOK, RetryAfterCap
  <2>4. QED
    BY <1>3, <2>2, <2>3 DEF Wake, OutcomeType, Retries, Numbered, KeysOwned, Owned
<1>4. CASE NoAnswer
  <2>1. PICK kind \in {"timeout", "connection"} :
            /\ RetryOrRaise(0, kind, key)
            /\ transit' = transit \cup {<<call, key>>} \/ UNCHANGED transit
    BY <1>4 DEF NoAnswer
  <2>2. /\ pc' \in {"hold", "idle"} /\ delay' \in Nat
        /\ OutcomeType' /\ Retries' /\ SleepBudget'
        /\ outcome'.key \in Owned \cup {NoKey}
    BY <1>4, <2>1, RetryOrRaiseInv DEF NoAnswer, Kinds
  <2>3. pc = "sent" /\ UNCHANGED <<explicit, call, key, attempt, slept, accepted>>
    BY <1>4 DEF NoAnswer
  <2>4. <<call, key>> \in (1 .. MaxSubmits) \X Keys /\ key \in Owned
    BY <2>3 DEF Numbered, KeysOwned, TypeOK
  <2>5. transit' \subseteq (1 .. MaxSubmits) \X Keys /\ \A r \in transit' : r[2] \in Owned
    BY <2>1, <2>4 DEF TypeOK, KeysOwned
  <2>6. TypeOK'
    BY <2>2, <2>3, <2>5 DEF TypeOK, OutcomeType
  <2>7. KeysOwned'
    BY <2>2, <2>3, <2>4, <2>5 DEF KeysOwned, Owned
  <2>8. QED
    BY <2>2, <2>3, <2>6, <2>7 DEF Numbered
<1>5. CASE Accepted
  <2>1. PICK kind \in {"ok", "api", "noid"}, carried \in {key, NoKey} : Raise(kind, carried)
    BY <1>5 DEF Accepted
  <2>2. /\ pc' = "idle" /\ delay' \in Nat
        /\ OutcomeType' /\ Retries' /\ SleepBudget'
        /\ outcome'.key \in Owned \cup {NoKey}
    BY <1>5, <2>1, RaiseInv DEF Accepted, Kinds
  <2>3. key \in Owned /\ key \in Keys
    BY <1>5 DEF Accepted, KeysOwned, TypeOK
  <2>4. TypeOK'
    BY <1>5, <2>2, <2>3 DEF Accepted, TypeOK, OutcomeType
  <2>5. KeysOwned'
    BY <1>5, <2>2, <2>3 DEF Accepted, KeysOwned, Owned
  <2>6. QED
    BY <1>5, <2>2, <2>4, <2>5 DEF Numbered
<1>6. CASE Redirected
  <2>1. /\ pc' = "idle" /\ delay' \in Nat
        /\ OutcomeType' /\ Retries' /\ SleepBudget'
        /\ outcome'.key \in Owned \cup {NoKey}
    BY <1>6, RaiseInv DEF Redirected, Kinds
  <2>2. QED
    BY <1>6, <2>1 DEF Redirected, TypeOK, OutcomeType, KeysOwned, Owned, Numbered
<1>7. CASE Busy
  <2>1. PICK hint \in Hints : RetryOrRaise(hint, "status", NoKey)
    BY <1>7 DEF Busy
  <2>2. /\ pc' \in {"hold", "idle"} /\ delay' \in Nat
        /\ OutcomeType' /\ Retries' /\ SleepBudget'
        /\ outcome'.key \in Owned \cup {NoKey}
    BY <1>7, <2>1, RetryOrRaiseInv DEF Busy, Kinds
  <2>3. accepted' \subseteq Owned /\ accepted' \subseteq Keys
    BY <1>7 DEF Busy, KeysOwned, TypeOK
  <2>4. TypeOK'
    BY <1>7, <2>2, <2>3 DEF Busy, TypeOK, OutcomeType
  <2>5. KeysOwned'
    BY <1>7, <2>2, <2>3 DEF Busy, KeysOwned, Owned
  <2>6. QED
    BY <1>7, <2>2, <2>4, <2>5 DEF Busy, Numbered
<1>8. CASE Refused
  <2>1. /\ pc' = "idle" /\ delay' \in Nat
        /\ OutcomeType' /\ Retries' /\ SleepBudget'
        /\ outcome'.key \in Owned \cup {NoKey}
    BY <1>8, RaiseInv DEF Refused, Kinds
  <2>2. QED
    BY <1>8, <2>1 DEF Refused, TypeOK, OutcomeType, KeysOwned, Owned, Numbered
<1>9. ASSUME NEW r \in transit, Arrive(r) PROVE SubmissionInv'
  <2>1. r[2] \in Owned /\ r[2] \in Keys
    BY <1>9 DEF KeysOwned, TypeOK
  <2>2. TypeOK'
    BY <1>9, <2>1 DEF Arrive, TypeOK
  <2>3. KeysOwned'
    BY <1>9, <2>1 DEF Arrive, KeysOwned, Owned
  <2>4. QED
    BY <1>9, <2>2, <2>3 DEF Arrive, OutcomeType, Retries, Numbered, SleepBudget
<1>10. CASE UNCHANGED vars
  BY <1>10 DEF vars, TypeOK, OutcomeType, Retries, Numbered, KeysOwned, Owned, SleepBudget
<1>11. QED
  BY <1>1, <1>2, <1>3, <1>4, <1>5, <1>6, <1>7, <1>8, <1>9, <1>10 DEF Next, CallStep

\* The keys of KeysOwned are no more than the calls.
LEMMA OwnedAreFew ==
    ASSUME SubmissionInv
    PROVE  OneWorkloadPerCall
<1>1. CASE explicit
  <2>1. Cardinality({0}) = 1 /\ IsFiniteSet({0})
    BY FS_Singleton
  <2>2. Cardinality(accepted) <= Cardinality({0})
    BY <1>1, <2>1, FS_Subset DEF SubmissionInv, KeysOwned, Owned
  <2>3. QED
    BY <1>1, <2>1, <2>2 DEF OneWorkloadPerCall
<1>2. CASE ~explicit
  <2>1. call \in Nat
    BY DEF SubmissionInv, TypeOK
  <2>2. IsFiniteSet(1 .. call) /\ Cardinality(1 .. call) = call
    BY <2>1, FS_Interval
  <2>3. Cardinality(accepted) <= Cardinality(1 .. call)
    BY <1>2, <2>2, FS_Subset DEF SubmissionInv, KeysOwned, Owned
  <2>4. QED
    BY <1>2, <2>2, <2>3 DEF OneWorkloadPerCall
<1>3. QED
  BY <1>1, <1>2

\* The whole invariant, of which the theorems below are parts.
LEMMA SubmissionInvariant == Spec => []SubmissionInv
BY SubmissionInit, SubmissionStep, PTL DEF Spec

\* However attempts are lost, late, refused or repeated, a run() call buys at
\* most one workload, and with an explicit key all calls together do.
THEOREM OneWorkload == Spec => []OneWorkloadPerCall
<1>1. SubmissionInv => OneWorkloadPerCall
  BY OwnedAreFew
<1>2. QED
  BY <1>1, SubmissionInvariant, PTL

\* The sleeps of one call stay within one budget, whatever hints come.
THEOREM SleepWithinBudget == Spec => []SleepBudget
<1>1. SubmissionInv => SleepBudget
  BY DEF SubmissionInv
<1>2. QED
  BY <1>1, SubmissionInvariant, PTL
=============================================================================
