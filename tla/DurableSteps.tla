---------------------------- MODULE DurableSteps ----------------------------
(***************************************************************************)
(* The guest driver of a durable run: nodus/_steps.py (invoke) over the    *)
(* session and RPC layer of nodus/_agent.py, against AgentJournal.         *)
(*                                                                         *)
(* A driver is one session of the run, numbered by its epoch.  Its         *)
(* entrypoint calls steps 1 .. StepCount serially and may catch the error  *)
(* a step raises, then call the same step again or go on without it.       *)
(* Sessions overlap: a driver the supervisor took for lost keeps running   *)
(* beside its replacement.  Each RPC is attempted three times; an attempt  *)
(* that ends in a transport error or a 5xx may have been applied, may      *)
(* never be, or may be applied later, when its client has moved on.        *)
(***************************************************************************)
EXTENDS AgentJournal, FiniteSets

CONSTANTS
    MaxCalls,     \* bound: claims after which an entrypoint catches no more errors
    MaxFaults     \* bound: faults of every kind, over the whole behaviour

ASSUME DriverAssumption == MaxCalls \in Nat \ {0} /\ MaxFaults \in Nat

Attempts == 3     \* of an RPC, and of a step within one call

VARIABLES
    pc,        \* session -> where its driver is
    op,        \* session -> the operation its checkpoint is for
    pos,       \* session -> the step the entrypoint is at
    calls,     \* session -> claims made, the identity of the next request
    tries,     \* session -> attempts of the step call in progress
    attempt,   \* session -> transport attempts already lost in this RPC
    token,     \* session -> the claim token it executes under
    retry,     \* session -> the failed body may run again in this call
    failed,    \* session -> the session's "failed" event is set
    folder,    \* session -> writes in the sandbox's state folder
    got,       \* session -> the steps it has results of, with the result
    ran,       \* step -> how many times its function was invoked
    cleared,   \* step -> how many times an operator resolved "no_effect"
    late,      \* requests whose client has given up waiting
    faults     \* faults so far

driverVars == <<pc, op, pos, calls, tries, attempt, token, retry, failed, folder, got>>
worldVars  == <<ran, cleared, late, faults>>
vars == <<journalVars, driverVars, worldVars>>

RpcStates == {"claim", "unknown", "begin", "poll", "complete", "finish"}
Stopped   == {"off", "dead", "done"}
PcStates  == RpcStates \cup Stopped \cup {"driver", "run", "body", "raised"}

Requests == [op: {"claim", "unknown", "complete", "finish"}, session: Sessions,
             step: 1 .. StepCount + 1, token: Nat, call: Calls]

\* Type invariant.
TypeOK ==
    /\ JournalTypeOK
    /\ pc \in [Sessions -> PcStates]
    /\ op \in [Sessions -> Operations]
    /\ pos \in [Sessions -> 1 .. StepCount + 1]
    /\ calls \in [Sessions -> Nat]
    /\ tries \in [Sessions -> 0 .. Attempts]
    /\ attempt \in [Sessions -> 0 .. Attempts - 1]
    /\ token \in [Sessions -> Nat]
    /\ retry \in [Sessions -> BOOLEAN]
    /\ failed \in [Sessions -> BOOLEAN]
    /\ folder \in [Sessions -> SUBSET Writes]
    /\ got \in [Sessions -> SUBSET Writes]
    /\ ran \in [StepIds -> Nat]
    /\ cleared \in [StepIds -> Nat]
    /\ late \in SUBSET Requests
    /\ faults \in 0 .. MaxFaults

Init ==
    /\ JournalInit
    /\ pc = [d \in Sessions |-> "off"]
    /\ op = [d \in Sessions |-> "step"]
    /\ pos = [d \in Sessions |-> 1]
    /\ calls = [d \in Sessions |-> 0]
    /\ tries = [d \in Sessions |-> 0]
    /\ attempt = [d \in Sessions |-> 0]
    /\ token = [d \in Sessions |-> 0]
    /\ retry = [d \in Sessions |-> FALSE]
    /\ failed = [d \in Sessions |-> FALSE]
    /\ folder = [d \in Sessions |-> {}]
    /\ got = [d \in Sessions |-> {}]
    /\ ran = [s \in StepIds |-> 0]
    /\ cleared = [s \in StepIds |-> 0]
    /\ late = {}
    /\ faults = 0

Request(d) == [op |-> pc[d], session |-> d, step |-> pos[d], token |-> token[d],
               call |-> <<d, calls[d]>>]

Fault == faults < MaxFaults /\ faults' = faults + 1

-----------------------------------------------------------------------------
(* Control of a driver.                                                    *)

Go(d, where) == pc' = [pc EXCEPT ![d] = where]

\* The step call in progress has entered its function (the local "executed").
Executed(d) ==
    \/ pc[d] \in {"body", "unknown"}
    \/ pc[d] \in {"begin", "poll", "complete"} /\ op[d] = "step"
    \/ pc[d] = "claim" /\ tries[d] > 1

\* An error leaves the operation.  invoke re-raises it to the entrypoint,
\* poisoning a recovering session once the function has been entered; a
\* failed checkpoint poisons it too; resume itself does not catch.
PoisonsSaveOnly(d) == Recovery /\ pc[d] \in {"begin", "poll"}         \* mutant: body not covered
Poisons(d) == Recovery /\ (Executed(d) \/ pc[d] \in {"begin", "poll"})

Raise(d) ==
    /\ Go(d, IF op[d] = "step" THEN "raised" ELSE "dead")
    /\ failed' = [failed EXCEPT ![d] = @ \/ Poisons(d)]

\* The next RPC if the session is healthy, else its error.
Healthy(d, next) ==
    IF failed[d] THEN Raise(d) ELSE Go(d, next) /\ UNCHANGED failed

\* The step's result reaches the entrypoint, which moves on.
Return(d, value) ==
    /\ got' = [got EXCEPT ![d] = @ \cup {<<pos[d], value>>}]
    /\ pos' = [pos EXCEPT ![d] = @ + 1]
    /\ Go(d, "driver")
    /\ UNCHANGED failed

Answered(d) == attempt' = [attempt EXCEPT ![d] = 0]

-----------------------------------------------------------------------------
(* resume: open a session, take the baseline, run the entrypoint, finish.  *)

Live == {d \in Sessions : pc[d] \notin Stopped}

\* The supervisor starts a driver when none is left, or, wrongly believing
\* the running one lost, beside it.  A recovering session starts from the
\* committed state version.  A session request whose answers are all lost
\* is this action followed by Crash.
Open(d) ==
    /\ d = epoch + 1
    /\ run \in {"active", "resolved"}
    /\ IF Live = {} THEN UNCHANGED faults ELSE Fault
    /\ JournalOpen(d)
    /\ folder' = [folder EXCEPT ![d] = image]
    /\ IF Recovery /\ ~baseline
       THEN Go(d, "begin") /\ op' = [op EXCEPT ![d] = "baseline"]
       ELSE Go(d, "driver") /\ UNCHANGED op
    /\ UNCHANGED <<pos, calls, tries, attempt, token, retry, failed, got,
                   ran, cleared, late>>

\* The entrypoint has returned: the final checkpoint, then the finish RPC.
Finish(d) ==
    /\ pc[d] = "driver"
    /\ pos[d] = StepCount + 1
    /\ op' = [op EXCEPT ![d] = "finish"]
    /\ token' = [token EXCEPT ![d] = 0]
    /\ IF failed[d] THEN Go(d, "dead")
       ELSE Go(d, IF Recovery THEN "begin" ELSE "finish")
    /\ UNCHANGED <<journalVars, worldVars, pos, calls, tries, attempt, retry, failed,
                   folder, got>>

FinishReply(d) ==
    /\ pc[d] = "finish"
    /\ JournalFinish(Request(d))
    /\ Go(d, IF FinishAcked(Request(d)) THEN "done" ELSE "dead")
    /\ Answered(d)
    /\ UNCHANGED <<epoch, entry, checkpoint, baseline, worldVars, op, pos, calls, tries,
                   token, retry, failed, folder, got>>

-----------------------------------------------------------------------------
(* step.invoke.                                                            *)

CallStep(d) ==
    /\ pc[d] = "driver"
    /\ pos[d] \in StepIds
    /\ op' = [op EXCEPT ![d] = "step"]
    /\ calls' = [calls EXCEPT ![d] = @ + 1]
    /\ tries' = [tries EXCEPT ![d] = 1]
    /\ IF failed[d] THEN Go(d, "raised") ELSE Go(d, "claim")
    /\ UNCHANGED <<journalVars, worldVars, pos, attempt, token, retry, failed, folder, got>>

\* The only decision under which the function may be entered.
PermitsUnresolved(decision) == decision \in {"execute", "unknown"}   \* mutant: competing ignored
PermitsReplayed(decision) == decision # "refused"                   \* mutant: replay runs again
Permits(decision) == decision = "execute"

ClaimReply(d) ==
    /\ pc[d] = "claim"
    /\ JournalClaim(Request(d))
    /\ \E decision \in ClaimDecisions(Request(d)) :
          \/ /\ Permits(decision)
             /\ token' = [token EXCEPT ![d] = ClaimToken(Request(d))]
             /\ Go(d, "run")
             /\ UNCHANGED <<pos, failed, got>>
          \/ /\ decision = "replay"
             /\ Return(d, entry[pos[d]].result)
             /\ UNCHANGED token
          \/ /\ ~Permits(decision) /\ decision # "replay"
             /\ Raise(d)
             /\ UNCHANGED <<pos, token, got>>
    /\ Answered(d)
    /\ UNCHANGED <<epoch, run, checkpoint, image, baseline, worldVars, op, calls, tries,
                   retry, folder>>

\* The function is entered; what it does outside the sandbox happens here,
\* what it writes to the state folder carries its token.
Execute(d) ==
    /\ pc[d] = "run"
    /\ ran' = [ran EXCEPT ![pos[d]] = @ + 1]
    /\ folder' = [folder EXCEPT ![d] = @ \cup {<<pos[d], token[d]>>}]
    /\ Go(d, "body")
    /\ UNCHANGED <<journalVars, op, pos, calls, tries, attempt, token, retry, failed, got,
                   cleared, late, faults>>

\* The function returned JSON: checkpoint it, or complete it at once.
BodyReturnsUnsaved(d) ==                                            \* mutant: no checkpoint
    /\ pc[d] = "body"
    /\ Healthy(d, "complete")
    /\ UNCHANGED <<journalVars, worldVars, op, pos, calls, tries, attempt, token, retry,
                   folder, got>>

BodyReturns(d) ==
    /\ pc[d] = "body"
    /\ Healthy(d, IF Recovery THEN "begin" ELSE "complete")
    /\ UNCHANGED <<journalVars, worldVars, op, pos, calls, tries, attempt, token, retry,
                   folder, got>>

\* The function raised, or returned what cannot be encoded: the outcome is
\* reported unknown.  Only an ordinary exception of a step declared safe to
\* repeat may be followed by another attempt.
BodyRaises(d) ==
    /\ pc[d] = "body"
    /\ Fault
    /\ \E ordinary \in BOOLEAN :
          retry' = [retry EXCEPT ![d] = ordinary /\ Effect[pos[d]] # "external"]
    /\ Go(d, "unknown")
    /\ UNCHANGED <<journalVars, op, pos, calls, tries, attempt, token, failed, folder, got,
                   ran, cleared, late>>

\* A broker or model call inside the function lost its authority: it sets
\* the session's failed event before raising.
BodyLosesAuthority(d) ==
    /\ pc[d] = "body"
    /\ Fault
    /\ failed' = [failed EXCEPT ![d] = TRUE]
    /\ retry' = [retry EXCEPT ![d] = FALSE]
    /\ Go(d, "unknown")
    /\ UNCHANGED <<journalVars, op, pos, calls, tries, attempt, token, folder, got,
                   ran, cleared, late>>

MayRetryOnce(d) == retry[d] /\ ~Recovery /\ tries[d] <= Attempts /\ ~failed[d]  \* mutant: off by one
MayRetry(d) == retry[d] /\ ~Recovery /\ tries[d] < Attempts /\ ~failed[d]

UnknownReply(d) ==
    /\ pc[d] = "unknown"
    /\ JournalUnknown(Request(d))
    /\ IF UnknownAcked(Request(d)) /\ MayRetry(d)
       THEN /\ Go(d, "claim")
            /\ tries' = [tries EXCEPT ![d] = @ + 1]
            /\ calls' = [calls EXCEPT ![d] = @ + 1]
            /\ UNCHANGED failed
       ELSE Raise(d) /\ UNCHANGED <<tries, calls>>
    /\ Answered(d)
    /\ UNCHANGED <<epoch, run, checkpoint, image, baseline, worldVars, op, pos, token,
                   retry, folder, got>>

\* The result is returned only on an acknowledgement that it is recorded.
DurableUnchecked(d) == TRUE                                         \* mutant: answer not read
Durable(d) == CompleteAcked(Request(d))

CompleteReply(d) ==
    /\ pc[d] = "complete"
    /\ JournalComplete(Request(d))
    /\ IF Durable(d) THEN Return(d, token[d])
       ELSE Raise(d) /\ UNCHANGED <<pos, got>>
    /\ Answered(d)
    /\ UNCHANGED <<epoch, run, checkpoint, baseline, worldVars, op, calls, tries, token,
                   retry, folder>>

\* What the entrypoint does with an error: propagate it, or catch it and
\* call the step again or skip it.
EntrypointPropagates(d) ==
    /\ pc[d] = "raised"
    /\ Go(d, "dead")
    /\ UNCHANGED <<journalVars, worldVars, op, pos, calls, tries, attempt, token, retry,
                   failed, folder, got>>

EntrypointCatches(d) ==
    /\ pc[d] = "raised"
    /\ calls[d] < MaxCalls
    /\ Go(d, "driver")
    /\ \/ UNCHANGED pos
       \/ pos' = [pos EXCEPT ![d] = @ + 1]
    /\ UNCHANGED <<journalVars, worldVars, op, calls, tries, attempt, token, retry, failed,
                   folder, got>>

-----------------------------------------------------------------------------
(* session.checkpoint: begin, then poll until the files are verified.      *)

BeginReply(d) ==
    /\ pc[d] = "begin"
    /\ IF Current(Request(d))
       THEN /\ JournalBegin(Request(d), op[d])
            /\ Go(d, "poll")
            /\ UNCHANGED failed
       ELSE Raise(d) /\ UNCHANGED checkpoint
    /\ Answered(d)
    /\ UNCHANGED <<epoch, run, entry, image, baseline, worldVars, op, pos, calls, tries,
                   token, retry, folder, got>>

\* Where the driver goes once its checkpoint is acknowledged.
AfterCheckpoint(d) ==
    IF op[d] = "baseline" THEN "driver" ELSE IF op[d] = "step" THEN "complete" ELSE "finish"

\* The status request is refused, the session failed, or the checkpoint did.
CheckpointLostUnread(d) == ~Current(Request(d)) \/ failed[d]          \* mutant: status not read
CheckpointLost(d) ==
    ~Current(Request(d)) \/ failed[d] \/ checkpoint[d].status = "failed"

PollReply(d) ==
    /\ pc[d] = "poll"
    /\ LET status == checkpoint[d].status IN
       IF CheckpointLost(d) THEN Raise(d)
       ELSE /\ Go(d, IF status = "committed" \/ (status = "ready" /\ op[d] # "baseline")
                     THEN AfterCheckpoint(d) ELSE "poll")
            /\ UNCHANGED failed
    /\ Answered(d)
    /\ UNCHANGED <<journalVars, worldVars, op, pos, calls, tries, token, retry, folder, got>>

\* 45 minutes passed without an acknowledgement.
PollDeadline(d) ==
    /\ pc[d] = "poll"
    /\ Fault
    /\ Raise(d)
    /\ Answered(d)
    /\ UNCHANGED <<journalVars, op, pos, calls, tries, token, retry, folder, got,
                   ran, cleared, late>>

\* The host captures the state folder while the driver waits.
Capture(d) ==
    /\ d = epoch /\ run = "active"
    /\ checkpoint[d].status = "pending"
    /\ \/ JournalCapture(d, folder[d]) /\ UNCHANGED faults
       \/ JournalCaptureFails(d) /\ Fault
    /\ UNCHANGED <<driverVars, ran, cleared, late>>

-----------------------------------------------------------------------------
(* Transport, renewal, crashes and operators.                              *)

MoreAttemptsOff(d) == attempt[d] < Attempts                         \* mutant: off by one
MoreAttempts(d) == attempt[d] < Attempts - 1

\* An attempt ends without an answer (_RPC._call).  After the third the RPC
\* raises.  The request may still be applied; checkpoint requests too, but
\* a session whose checkpoint request failed names no checkpoint again.
TransportError(d) ==
    /\ pc[d] \in RpcStates
    /\ Fault
    /\ \/ UNCHANGED late
       \/ pc[d] \notin {"begin", "poll"} /\ late' = late \cup {Request(d)}
    /\ IF MoreAttempts(d)
       THEN /\ attempt' = [attempt EXCEPT ![d] = @ + 1]
            /\ UNCHANGED <<pc, failed>>
       ELSE Answered(d) /\ Raise(d)
    /\ UNCHANGED <<journalVars, op, pos, calls, tries, token, retry, folder, got,
                   ran, cleared>>

LateDelivery(r) ==
    /\ JournalLate(r)
    /\ late' = late \ {r}
    /\ UNCHANGED <<driverVars, ran, cleared, faults>>

\* The renewal thread (_renew) finds the session expired, its ownership
\* changed or the journal unreachable, at any moment of the driver.
RenewalFails(d) ==
    /\ pc[d] \notin Stopped
    /\ ~failed[d]
    /\ IF d = epoch THEN Fault ELSE UNCHANGED faults
    /\ failed' = [failed EXCEPT ![d] = TRUE]
    /\ UNCHANGED <<journalVars, pc, op, pos, calls, tries, attempt, token, retry, folder,
                   got, ran, cleared, late>>

Crash(d) ==
    /\ pc[d] \notin Stopped
    /\ Fault
    /\ Go(d, "dead")
    /\ UNCHANGED <<journalVars, op, pos, calls, tries, attempt, token, retry, failed, folder,
                   got, ran, cleared, late>>

\* AgentRuns.resolve and ManagedRun.resolve, on evidence about an effect
\* whose outcome is unknown.
Resolve(s) ==
    /\ Effect[s] = "external"
    /\ \E decision \in Decisions :
          /\ JournalResolve(s, decision)
          /\ cleared' = IF decision = "no_effect"
                        THEN [cleared EXCEPT ![s] = @ + 1] ELSE cleared
    /\ UNCHANGED <<driverVars, ran, late, faults>>

DriverStep(d) ==
    \/ Finish(d) \/ FinishReply(d)
    \/ CallStep(d) \/ ClaimReply(d) \/ Execute(d) \/ BodyReturns(d)
    \/ UnknownReply(d) \/ CompleteReply(d)
    \/ EntrypointPropagates(d) \/ EntrypointCatches(d)
    \/ BeginReply(d) \/ PollReply(d)

Failure(d) ==
    \/ BodyRaises(d) \/ BodyLosesAuthority(d) \/ PollDeadline(d)
    \/ TransportError(d) \/ RenewalFails(d) \/ Crash(d)

Next ==
    \/ \E d \in Sessions : Open(d) \/ Capture(d) \/ DriverStep(d) \/ Failure(d)
    \/ \E r \in late : LateDelivery(r)
    \/ \E s \in StepIds : Resolve(s)

Spec == Init /\ [][Next]_vars

-----------------------------------------------------------------------------
(* Safety.                                                                 *)

\* The function of a step declared external is entered once, and once more
\* for each time an operator found that its unknown attempt had no effect:
\* never because an acknowledgement, a session or a driver was lost
\* (docs/durable-steps.md:52-57).
ExternalOnce ==
    \A s \in StepIds : Effect[s] = "external" => ran[s] <= 1 + cleared[s]

\* The drivers about to enter the function of a step.
Entering(s) == {d \in Sessions : pc[d] = "run" /\ pos[d] = s}

\* Every entry into a function uses up a grant of its own.
GrantsCoverRuns ==
    \A s \in StepIds : ran[s] + Cardinality(Entering(s)) <= entry[s].token

\* A driver whose claim finds its own grant has not used that grant yet.
RegrantUnused ==
    \A d \in Sessions : pc[d] = "claim" /\ Regrants(Request(d)) =>
        ran[pos[d]] + Cardinality(Entering(pos[d])) < entry[pos[d]].token

\* An external step is granted once, and once more each time it is cleared.
ExternalGrants ==
    \A s \in StepIds : Effect[s] = "external" =>
        entry[s].token <= cleared[s] + (IF entry[s].status \in {"absent", "cleared"} THEN 0 ELSE 1)

\* No claim to come has the identity of one the journal has seen or of one
\* that is still under way.
FreshIdentities ==
    /\ \A s \in StepIds, d \in Sessions :
           entry[s].call[1] = d => entry[s].call[2] <= calls[d]
    /\ \A r \in late : r.call[1] = r.session /\ r.call[2] <= calls[r.session]

\* Why ExternalOnce holds: the invariant it is proved from.
GrantInv == GrantsCoverRuns /\ RegrantUnused /\ ExternalGrants /\ FreshIdentities

\* Whatever a step call returned in any session, current or superseded, is
\* the one result the journal has recorded for that step.
ResultsAgree ==
    \A d \in Sessions : \A w \in got[d] :
        entry[w[1]].status = "completed" /\ entry[w[1]].result = w[2]

\* With checkpoint-v1 the committed state version holds exactly the writes
\* of the executions whose results are recorded: no result without its
\* state, and nothing a failed, fenced or superseded execution wrote
\* (docs/guides/managed-agents.md:331-336), also when an operator records a
\* result with the files of the uncertain execution (386-392).
ImageMatchesJournal ==
    Recovery => image = {<<s, entry[s].result>> :
                            s \in {x \in StepIds : /\ entry[x].status = "completed"
                                                   /\ entry[x].result # 0}}

\* The newest session never enters the function of a completed step: it
\* replays the record.  (A superseded session may, with an old grant.)
CompletedNotRerun ==
    [][\A s \in StepIds :
          ran'[s] # ran[s] /\ entry[s].status = "completed"
              => \E d \in Sessions : d < epoch /\ pc[d] = "run" /\ pc'[d] = "body" /\ pos[d] = s]_vars

-----------------------------------------------------------------------------
\* DurableSteps implements the promise of RecordedSteps.
Recorded == INSTANCE RecordedSteps WITH
    Steps    <- StepIds,
    Readers  <- Sessions,
    Saves    <- Recovery,
    recorded <- {<<s, entry[s].result>> : s \in {x \in StepIds : entry[x].status = "completed"}},
    saved    <- image,
    returned <- got,
    finished <- (run = "completed")

\* Every behaviour of the drivers and the journal, faults included, is one
\* of the abstract specification: results are immutable, state versions
\* commit with them, and calls return only what is recorded.
ImplementsRecordedSteps == Recorded!Spec

-----------------------------------------------------------------------------
(* Liveness.  Fair are the driver's own progress (each RPC attempt is      *)
(* answered or times out after 10 seconds), the host's capture, and the    *)
(* supervisor that replaces a driver once none is left.  Faults, the       *)
(* polling deadline, operators and late deliveries are not.                *)

Restart == Live = {} /\ \E d \in Sessions : Open(d)

FairSpec ==
    /\ Spec
    /\ \A d \in Sessions : WF_vars(DriverStep(d)) /\ WF_vars(Capture(d))
    /\ WF_vars(Restart)

\* No session waits for ever: whatever is lost, every opened session ends,
\* although RPC retries, step retries and checkpoint polling all loop.
EverySessionEnds == \A d \in Sessions : pc[d] # "off" ~> pc[d] \in Stopped

\* When every step is safe to repeat and there are more sessions than
\* faults, the run completes: no lost acknowledgement, orphaned grant or
\* failed checkpoint leaves a step that no later session can get past.
RunCompletes == <>(run = "completed")
=============================================================================
