---------------------------- MODULE RecordedSteps ----------------------------
(***************************************************************************)
(* What durable steps promise an application (docs/durable-steps.md and    *)
(* "Recovery boundaries" in docs/guides/managed-agents.md), without the    *)
(* sessions, claims, checkpoints and retries that bring it about: a step   *)
(* gets one result for ever, a result enters the saved state in the very   *)
(* step that records it, and a call only returns what is recorded.         *)
(***************************************************************************)
EXTENDS Naturals

CONSTANTS
    Steps,     \* the steps of the run
    Readers,   \* the sessions step results are returned to
    Saves      \* TRUE: results commit together with the state they left

VARIABLES
    recorded,  \* the <<step, result>> pairs recorded
    saved,     \* the results whose state is in the committed version
    returned,  \* reader -> the pairs step calls returned to it
    finished   \* the run is complete

vars == <<recorded, saved, returned, finished>>

Init ==
    /\ recorded = {}
    /\ saved = {}
    /\ returned = [r \in Readers |-> {}]
    /\ finished = FALSE

\* One step not recorded before gets its result, which may reach a caller
\* in the same step.  Result 0 stands for one an operator supplied while
\* keeping the saved state: no execution of the run saved state for it.
\* An operator who selects the state of an uncertain execution records
\* that execution's result and its state in one step, as the run does.
Record(w) ==
    /\ ~finished
    /\ w[1] \in Steps /\ w[2] \in Nat
    /\ \A x \in recorded : x[1] # w[1]
    /\ recorded' = recorded \cup {w}
    /\ saved' = IF Saves /\ w[2] # 0 THEN saved \cup {w} ELSE saved
    /\ UNCHANGED finished

Return(r, w) ==
    /\ ~finished
    /\ returned' = [returned EXCEPT ![r] = @ \cup {w}]

Finish ==
    /\ ~finished
    /\ finished' = TRUE
    /\ UNCHANGED <<recorded, saved, returned>>

Next ==
    \/ \E w \in recorded' :
          /\ Record(w)
          /\ \/ UNCHANGED returned
             \/ \E r \in Readers : Return(r, w)
    \/ \E r \in Readers, w \in recorded :
          Return(r, w) /\ UNCHANGED <<recorded, saved, finished>>
    \/ Finish

Spec == Init /\ [][Next]_vars
=============================================================================
