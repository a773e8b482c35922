------------------------ MODULE DurableSteps_proofs ------------------------
(***************************************************************************)
(* What holds of DurableSteps for every number of steps and sessions and   *)
(* every choice of effects, recovery policy and bounds: its types, the     *)
(* agreement of results, the executions of external steps, that completed  *)
(* steps are replayed and not run, that the saved state is that of the     *)
(* recorded results, and that the whole implements RecordedSteps.          *)
(***************************************************************************)
EXTENDS DurableSteps, FiniteSetTheorems, TLAPS

-----------------------------------------------------------------------------
(* Journal records.                                                        *)

\* The fields of a journal record.
LEMMA EntryFields ==
    ASSUME NEW e \in Entries
    PROVE  /\ e.status \in EntryStatus /\ e.token \in Nat /\ e.result \in Nat
           /\ e.call \in Calls
BY DEF Entries

\* Records built from fields in range are journal records.
LEMMA EntryRecords ==
    ASSUME NEW t \in EntryStatus, NEW n \in Nat, NEW c \in Calls, NEW v \in Nat
    PROVE  [status |-> t, token |-> n, call |-> c, result |-> v] \in Entries
BY DEF Entries

\* Changing only the status of a journal record leaves a journal record.
LEMMA MarkedRecords ==
    ASSUME NEW e \in Entries, NEW t \in EntryStatus
    PROVE  Mark(e, t) \in Entries
BY EntryFields, EntryRecords DEF Mark

\* The fields of a checkpoint record.
LEMMA CheckpointFields ==
    ASSUME NEW c \in Checkpoints
    PROVE  /\ c.op \in Operations /\ c.step \in Nat /\ c.token \in Nat
           /\ c.files \in SUBSET Writes
BY DEF Checkpoints

-----------------------------------------------------------------------------
(* What each journal operation leaves is in range.                         *)

\* JournalClaim keeps the entries in range.
LEMMA ClaimTypes ==
    ASSUME JournalTypeOK, NEW r, r.step \in StepIds, r.call \in Calls, JournalClaim(r)
    PROVE  entry' \in [StepIds -> Entries]
<1>1. ClaimToken(r) \in Nat
  BY EntryFields DEF JournalTypeOK, ClaimToken
<1>2. "started" \in EntryStatus
  BY DEF EntryStatus
<1>3. [status |-> "started", token |-> ClaimToken(r), call |-> r.call, result |-> 0] \in Entries
  BY <1>1, <1>2, EntryRecords
<1>4. QED
  BY <1>3 DEF JournalTypeOK, JournalClaim

\* JournalUnknown keeps the entries in range.
LEMMA UnknownTypes ==
    ASSUME JournalTypeOK, NEW r, r.step \in StepIds, JournalUnknown(r)
    PROVE  entry' \in [StepIds -> Entries]
<1>1. Mark(entry[r.step], "unknown") \in Entries
  BY MarkedRecords DEF JournalTypeOK, EntryStatus
<1>2. QED
  BY <1>1 DEF JournalTypeOK, JournalUnknown

\* JournalComplete keeps entries and image in range.
LEMMA CompleteTypes ==
    ASSUME JournalTypeOK, NEW r, r.step \in StepIds, r.session \in Sessions, r.token \in Nat,
           JournalComplete(r)
    PROVE  entry' \in [StepIds -> Entries] /\ image' \in SUBSET Writes
<1>1. [status |-> "completed", token |-> r.token, call |-> entry[r.step].call,
       result |-> r.token] \in Entries
  BY EntryFields, EntryRecords DEF JournalTypeOK, EntryStatus
<1>2. checkpoint[r.session].files \in SUBSET Writes
  BY CheckpointFields DEF JournalTypeOK
<1>3. QED
  BY <1>1, <1>2 DEF JournalTypeOK, JournalComplete

\* JournalFinish keeps run and image in range.
LEMMA FinishTypes ==
    ASSUME JournalTypeOK, NEW r, r.session \in Sessions, JournalFinish(r)
    PROVE  run' \in RunStatus /\ image' \in SUBSET Writes
<1>1. checkpoint[r.session].files \in SUBSET Writes
  BY CheckpointFields DEF JournalTypeOK
<1>2. QED
  BY <1>1 DEF JournalTypeOK, JournalFinish, RunStatus

\* JournalOpen keeps the journal in range.
LEMMA OpenTypes ==
    ASSUME JournalTypeOK, NEW d \in Sessions, JournalOpen(d)
    PROVE  JournalTypeOK'
<1>1. \A s \in StepIds : Mark(entry[s], "unknown") \in Entries
  BY MarkedRecords DEF JournalTypeOK, EntryStatus
<1>2. entry' \in [StepIds -> Entries]
  BY <1>1 DEF JournalTypeOK, JournalOpen
<1>3. epoch' \in 0 .. MaxSessions
  BY JournalAssumption DEF JournalOpen, Sessions
<1>4. QED
  BY <1>2, <1>3 DEF JournalTypeOK, JournalOpen, RunStatus

\* JournalBegin keeps the checkpoints in range.
LEMMA BeginTypes ==
    ASSUME JournalTypeOK, NEW r, NEW o \in Operations, r.step \in Nat, r.token \in Nat,
           JournalBegin(r, o)
    PROVE  checkpoint' \in [Sessions -> Checkpoints]
<1>1. [op |-> o, step |-> r.step, token |-> r.token,
       status |-> "pending", files |-> {}] \in Checkpoints
  BY DEF Checkpoints
<1>2. QED
  BY <1>1 DEF JournalTypeOK, JournalBegin

\* Both outcomes of a capture keep the journal in range.
LEMMA CaptureTypes ==
    ASSUME JournalTypeOK, NEW d \in Sessions, NEW w \in SUBSET Writes,
           JournalCapture(d, w) \/ JournalCaptureFails(d)
    PROVE  JournalTypeOK'
<1>1. CASE JournalCapture(d, w)
  <2> DEFINE c == [op |-> checkpoint[d].op, step |-> checkpoint[d].step,
                   token |-> checkpoint[d].token, files |-> w,
                   status |-> IF checkpoint[d].op = "baseline" THEN "committed" ELSE "ready"]
  <2>1. c \in Checkpoints
    BY CheckpointFields DEF JournalTypeOK, Checkpoints
  <2>2. checkpoint' = [checkpoint EXCEPT ![d] = c]
    BY <1>1 DEF JournalCapture
  <2>3. checkpoint' \in [Sessions -> Checkpoints]
    <3> HIDE DEF c
    <3> QED BY <2>1, <2>2 DEF JournalTypeOK
  <2>4. QED
    BY <1>1, <2>3 DEF JournalTypeOK, JournalCapture
<1>2. CASE JournalCaptureFails(d)
  <2> DEFINE c == [op |-> checkpoint[d].op, step |-> checkpoint[d].step,
                   token |-> checkpoint[d].token, files |-> checkpoint[d].files,
                   status |-> "failed"]
  <2>1. c \in Checkpoints
    BY CheckpointFields DEF JournalTypeOK, Checkpoints
  <2>2. checkpoint' = [checkpoint EXCEPT ![d] = c]
    BY <1>2 DEF JournalCaptureFails
  <2>3. checkpoint' \in [Sessions -> Checkpoints]
    <3> HIDE DEF c
    <3> QED BY <2>1, <2>2 DEF JournalTypeOK
  <2>4. QED
    BY <1>2, <2>3 DEF JournalTypeOK, JournalCaptureFails
<1>3. QED
  BY <1>1, <1>2

\* What an operator's decision does: nothing is granted, and what becomes
\* completed has either no result of an execution or the files of one.
LEMMA ResolveEffect ==
    ASSUME JournalTypeOK, NEW s \in StepIds, NEW decision \in Decisions,
           JournalResolve(s, decision)
    PROVE  /\ entry[s].status = "unknown"
           /\ entry' \in [StepIds -> Entries]
           /\ \A x \in StepIds \ {s} : entry'[x] = entry[x]
           /\ entry'[s].token = entry[s].token /\ entry'[s].call = entry[s].call
           /\ UNCHANGED <<epoch, checkpoint, baseline>>
           /\ \/ /\ decision = "cancelled" /\ run' = "cancelled"
                 /\ entry' = entry /\ image' = image
              \/ /\ decision = "no_effect" /\ run' = run
                 /\ entry'[s].status = "cleared" /\ image' = image
              \/ /\ decision = "completed" /\ run' = run /\ image' = image
                 /\ entry'[s].status = "completed" /\ entry'[s].result = 0
              \/ /\ decision = "completed" /\ run' = "resolved"
                 /\ entry'[s].status = "completed" /\ entry'[s].result = entry[s].token
                 /\ \E d \in Candidates(s) : image' = checkpoint[d].files
<1>1. entry[s] \in Entries /\ entry[s].token \in Nat /\ 0 \in Nat
  BY EntryFields DEF JournalTypeOK
<1>2. Mark(entry[s], "cleared") \in Entries
  BY <1>1, MarkedRecords DEF EntryStatus
<1>3. \A v \in Nat : Settled(entry[s], v) \in Entries
  BY <1>1, EntryFields, EntryRecords DEF Settled, EntryStatus
<1>4. entry[s].status = "unknown" /\ UNCHANGED <<epoch, checkpoint, baseline>>
  BY DEF JournalResolve, Resolvable
<1>5. CASE JournalDecide(s, decision)
  <2>1. CASE decision = "cancelled"
    BY <1>4, <1>5, <2>1 DEF JournalDecide, JournalTypeOK
  <2>2. CASE decision = "no_effect"
    <3>1. entry' = [entry EXCEPT ![s] = Mark(entry[s], "cleared")] /\ image' = image /\ run' = run
      BY <1>5, <2>2 DEF JournalDecide
    <3>2. QED
      BY <1>2, <1>4, <2>2, <3>1 DEF JournalTypeOK, Mark
  <2>3. CASE decision = "completed"
    <3>1. entry' = [entry EXCEPT ![s] = Settled(entry[s], 0)] /\ image' = image /\ run' = run
      BY <1>5, <2>3 DEF JournalDecide
    <3>2. QED
      BY <1>1, <1>3, <1>4, <2>3, <3>1 DEF JournalTypeOK, Settled
  <2>4. QED
    BY <2>1, <2>2, <2>3 DEF Decisions
<1>6. ASSUME decision = "completed", NEW d \in Candidates(s), JournalSelect(s, d)
      PROVE  /\ entry' \in [StepIds -> Entries] /\ run' = "resolved"
             /\ \A x \in StepIds \ {s} : entry'[x] = entry[x]
             /\ entry'[s].token = entry[s].token /\ entry'[s].call = entry[s].call
             /\ entry'[s].status = "completed" /\ entry'[s].result = entry[s].token
             /\ image' = checkpoint[d].files
  BY <1>1, <1>3, <1>6 DEF JournalSelect, JournalTypeOK, Settled
<1>7. QED
  BY <1>4, <1>5, <1>6 DEF JournalResolve

\* Resolving a step keeps the journal in range.
LEMMA ResolveTypes ==
    ASSUME JournalTypeOK, NEW s \in StepIds, NEW decision \in Decisions,
           JournalResolve(s, decision)
    PROVE  JournalTypeOK'
<1>1. run' \in RunStatus
  BY ResolveEffect DEF JournalTypeOK, RunStatus
<1>2. \A d \in Sessions : checkpoint[d].files \in SUBSET Writes
  BY CheckpointFields DEF JournalTypeOK
<1>3. image' \in SUBSET Writes
  BY <1>2, ResolveEffect DEF JournalTypeOK, Candidates
<1>4. QED
  BY <1>1, <1>3, ResolveEffect DEF JournalTypeOK

-----------------------------------------------------------------------------
(* Type correctness.  By itself TypeOK is not inductive: the records       *)
(* entry[pos[d]] and entry[r.step] are in range only because a driver in a *)
(* step is at one, and so was the sender of every late request.            *)

InStep(d) ==
    \/ pc[d] \in {"claim", "run", "body", "unknown", "complete", "raised"}
    \/ pc[d] \in {"begin", "poll"} /\ op[d] = "step"

Placed ==
    /\ \A d \in Sessions : InStep(d) => pos[d] \in StepIds /\ op[d] = "step"
    /\ \A d \in Sessions : pc[d] = "finish" => op[d] = "finish"
    /\ \A r \in late : r.op # "finish" => r.step \in StepIds

TypeInv == TypeOK /\ Placed

\* What a driver keeps is there for every session.
LEMMA DriverTypes ==
    ASSUME TypeInv
    PROVE  /\ pc \in [Sessions -> PcStates] /\ op \in [Sessions -> Operations]
           /\ pos \in [Sessions -> 1 .. StepCount + 1] /\ calls \in [Sessions -> Nat]
           /\ token \in [Sessions -> Nat]
BY DEF TypeInv, TypeOK

\* The registered run, before any session.
LEMMA TypeInit == Init => TypeInv
<1> SUFFICES ASSUME Init PROVE TypeInv
  OBVIOUS
<1>1. entry \in [StepIds -> Entries]
  <2>1. <<0, 0>> \in Calls
    BY JournalAssumption DEF Calls
  <2>2. [status |-> "absent", token |-> 0, call |-> <<0, 0>>, result |-> 0] \in Entries
    BY <2>1, EntryRecords DEF EntryStatus
  <2>3. QED
    BY <2>2 DEF Init, JournalInit
<1>2. checkpoint \in [Sessions -> Checkpoints]
  BY DEF Init, JournalInit, Checkpoints, Operations
<1>3. epoch \in 0 .. MaxSessions
  BY JournalAssumption DEF Init, JournalInit
<1>4. JournalTypeOK
  BY <1>1, <1>2, <1>3 DEF Init, JournalInit, JournalTypeOK, RunStatus
<1>5. TypeOK
  BY <1>4, JournalAssumption, DriverAssumption
     DEF Init, TypeOK, PcStates, Stopped, Operations, Attempts
<1>6. Placed
  BY DEF Init, Placed, InStep
<1>7. QED
  BY <1>5, <1>6 DEF TypeInv

\* Whatever a driver sends is a request, of a step unless it is the finish.
LEMMA RequestTypes ==
    ASSUME TypeInv, NEW d \in Sessions
    PROVE  /\ Request(d).call \in Calls /\ Request(d).session = d /\ Request(d).step = pos[d]
           /\ Request(d).token = token[d] /\ Request(d).token \in Nat
           /\ Request(d).step \in Nat
           /\ pc[d] \in {"claim", "unknown", "complete", "finish"} => Request(d) \in Requests
<1>1. calls \in [Sessions -> Nat]
  BY DEF TypeInv, TypeOK
<1>2. calls[d] \in Nat /\ d \in 0 .. MaxSessions
  BY <1>1, JournalAssumption DEF Sessions
<1>3. <<d, calls[d]>> \in Calls
  BY <1>2 DEF Calls
<1>4. token \in [Sessions -> Nat] /\ pos \in [Sessions -> 1 .. StepCount + 1]
  BY DEF TypeInv, TypeOK
<1>5. token[d] \in Nat /\ pos[d] \in 1 .. StepCount + 1 /\ pos[d] \in Nat
  BY <1>4, JournalAssumption
<1>6. QED
  BY <1>3, <1>5 DEF Request, Requests

\* Raising an error keeps the driver's control in range.
LEMMA RaiseTypes ==
    ASSUME TypeInv, NEW d \in Sessions, Raise(d)
    PROVE  /\ pc' = [pc EXCEPT ![d] = pc'[d]]
           /\ pc'[d] = IF op[d] = "step" THEN "raised" ELSE "dead"
           /\ pc' \in [Sessions -> PcStates] /\ failed' \in [Sessions -> BOOLEAN]
<1>1. failed' = [failed EXCEPT ![d] = failed[d] \/ Poisons(d)]
  BY DEF Raise
<1>2. (failed[d] \/ Poisons(d)) \in BOOLEAN
  OBVIOUS
<1>3. failed' \in [Sessions -> BOOLEAN]
  BY <1>1, <1>2, Zenon DEF TypeInv, TypeOK
<1>4. QED
  BY <1>3 DEF TypeInv, TypeOK, Raise, Go, PcStates, Stopped

\* Returning a result keeps the driver's control and results in range.
LEMMA ReturnTypes ==
    ASSUME TypeInv, NEW d \in Sessions, pos[d] \in StepIds, NEW v \in Nat, Return(d, v)
    PROVE  /\ pc' = [pc EXCEPT ![d] = "driver"]
           /\ pc' \in [Sessions -> PcStates] /\ failed' = failed
           /\ pos' = [pos EXCEPT ![d] = pos[d] + 1]
           /\ pos' \in [Sessions -> 1 .. StepCount + 1]
           /\ got' \in [Sessions -> SUBSET Writes]
<1>1. pos[d] + 1 \in 1 .. StepCount + 1
  BY JournalAssumption DEF StepIds
<1>2. <<pos[d], v>> \in Writes
  BY DEF Writes
<1>3. got[d] \cup {<<pos[d], v>>} \in SUBSET Writes
  BY <1>2 DEF TypeInv, TypeOK
<1>4. QED
  BY <1>1, <1>3 DEF TypeInv, TypeOK, Return, Go, PcStates

\* Every step of one driver, of its host or of its supervisor.
LEMMA TypeDriver ==
    ASSUME TypeInv, NEW d \in Sessions,
           Open(d) \/ Capture(d) \/ DriverStep(d) \/ Failure(d)
    PROVE  TypeInv'
<1> USE DEF TypeInv
<1>1. CASE Open(d)
  <2>1. JournalTypeOK'
    BY <1>1, OpenTypes DEF TypeOK, Open
  <2>2. pc' \in [Sessions -> PcStates] /\ op' \in [Sessions -> Operations]
    BY <1>1 DEF TypeOK, Open, Go, PcStates, RpcStates, Operations
  <2>3. folder' \in [Sessions -> SUBSET Writes]
    BY <1>1 DEF TypeOK, JournalTypeOK, Open
  <2>4. faults' \in 0 .. MaxFaults
    BY <1>1, DriverAssumption DEF TypeOK, Open, Fault
  <2>5. TypeOK'
    BY <1>1, <2>1, <2>2, <2>3, <2>4 DEF TypeOK, Open
  <2>6. Placed'
    BY <1>1 DEF TypeOK, Placed, InStep, Open, Go
  <2>7. QED
    BY <2>5, <2>6
<1>2. CASE Capture(d)
  <2>1. JournalTypeOK'
    <3>1. folder[d] \in SUBSET Writes
      BY DEF TypeOK
    <3>2. QED
      BY <1>2, <3>1, CaptureTypes DEF TypeOK, Capture
  <2>2. TypeOK'
    BY <1>2, <2>1, JournalAssumption, DriverAssumption
       DEF TypeOK, Capture, Fault, driverVars, PcStates, RpcStates, Stopped, Operations, Attempts
  <2>3. Placed'
    BY <1>2 DEF TypeOK, Placed, InStep, Capture, Fault, driverVars
  <2>4. QED
    BY <2>2, <2>3
<1>3. CASE Finish(d)
  <2>1. JournalTypeOK'
    BY <1>3 DEF TypeOK, JournalTypeOK, Finish, journalVars
  <2>2. TypeOK'
    BY <1>3, <2>1, JournalAssumption, DriverAssumption
       DEF TypeOK, Finish, Go, worldVars, PcStates, RpcStates, Stopped, Operations, Attempts
  <2>3. Placed'
    BY <1>3 DEF TypeOK, Placed, InStep, Finish, Go, worldVars
  <2>4. QED
    BY <2>2, <2>3
<1>4. CASE FinishReply(d)
  <2>1. JournalTypeOK'
    BY <1>4, RequestTypes, FinishTypes DEF TypeOK, JournalTypeOK, FinishReply
  <2>2. TypeOK'
    BY <1>4, <2>1, JournalAssumption, DriverAssumption
       DEF TypeOK, FinishReply, Go, Answered, worldVars, PcStates, RpcStates, Stopped, Operations, Attempts
  <2>3. Placed'
    BY <1>4 DEF TypeOK, Placed, InStep, FinishReply, Go, Answered, worldVars
  <2>4. QED
    BY <2>2, <2>3
<1>5. CASE CallStep(d)
  <2>1. JournalTypeOK'
    BY <1>5 DEF TypeOK, JournalTypeOK, CallStep, journalVars
  <2>2. pc' \in [Sessions -> PcStates] /\ op' \in [Sessions -> Operations]
    BY <1>5 DEF TypeOK, CallStep, Go, PcStates, RpcStates, Operations
  <2>3. calls' \in [Sessions -> Nat] /\ tries' \in [Sessions -> 0 .. Attempts]
    BY <1>5 DEF TypeOK, CallStep, Attempts
  <2>4. TypeOK'
    BY <1>5, <2>1, <2>2, <2>3 DEF TypeOK, CallStep, worldVars
  <2>5. Placed'
    BY <1>5 DEF TypeOK, Placed, InStep, CallStep, Go, worldVars
  <2>6. QED
    BY <2>4, <2>5
<1>6. CASE ClaimReply(d)
  <2>0. pos[d] \in StepIds
    BY <1>6 DEF ClaimReply, Placed, InStep
  <2>1. JournalTypeOK'
    BY <1>6, <2>0, RequestTypes, ClaimTypes DEF TypeOK, JournalTypeOK, ClaimReply
  <2>2. entry[pos[d]].result \in Nat /\ ClaimToken(Request(d)) \in Nat
    BY <2>0, EntryFields, RequestTypes DEF TypeOK, JournalTypeOK, ClaimToken
  <2>3. attempt' \in [Sessions -> 0 .. Attempts - 1]
    BY <1>6 DEF ClaimReply, Answered, TypeOK, Attempts
  <2>4. CASE Return(d, entry[pos[d]].result) /\ UNCHANGED token
    <3>1. TypeOK'
      BY <1>6, <2>0, <2>1, <2>2, <2>3, <2>4, ReturnTypes DEF TypeOK, ClaimReply, worldVars
    <3>2. Placed'
      BY <1>6, <2>0, <2>2, <2>4, ReturnTypes DEF TypeOK, Placed, InStep, ClaimReply, worldVars
    <3>3. QED
      BY <3>1, <3>2
  <2>5. CASE Raise(d) /\ UNCHANGED <<pos, token, got>>
    <3>1. TypeOK'
      BY <1>6, <2>1, <2>3, <2>5, RaiseTypes DEF TypeOK, ClaimReply, worldVars
    <3>2. Placed'
      BY <1>6, <2>5, RaiseTypes DEF TypeOK, Placed, InStep, ClaimReply, worldVars
    <3>3. QED
      BY <3>1, <3>2
  <2>6. CASE /\ token' = [token EXCEPT ![d] = ClaimToken(Request(d))]
             /\ Go(d, "run") /\ UNCHANGED <<pos, failed, got>>
    <3>1. TypeOK'
      BY <1>6, <2>1, <2>2, <2>3, <2>6 DEF TypeOK, ClaimReply, Go, worldVars, PcStates
    <3>2. Placed'
      BY <1>6, <2>6 DEF TypeOK, Placed, InStep, ClaimReply, Go, worldVars
    <3>3. QED
      BY <3>1, <3>2
  <2>7. QED
    BY <1>6, <2>4, <2>5, <2>6 DEF ClaimReply
<1>7. CASE Execute(d)
  <2>1. JournalTypeOK'
    BY <1>7 DEF TypeOK, JournalTypeOK, Execute, journalVars
  <2>2. pos[d] \in StepIds
    BY <1>7 DEF Execute, Placed, InStep
  <2>3. <<pos[d], token[d]>> \in Writes
    BY <2>2 DEF TypeOK, Writes
  <2>4. folder' \in [Sessions -> SUBSET Writes]
    BY <1>7, <2>3 DEF TypeOK, Execute
  <2>5. ran' \in [StepIds -> Nat]
    BY <1>7, <2>2 DEF TypeOK, Execute
  <2>6. TypeOK'
    BY <1>7, <2>1, <2>4, <2>5 DEF TypeOK, Execute, Go, PcStates
  <2>7. Placed'
    BY <1>7 DEF TypeOK, Placed, InStep, Execute, Go
  <2>8. QED
    BY <2>6, <2>7
<1>8. CASE BodyReturns(d)
  <2>1. JournalTypeOK'
    BY <1>8 DEF TypeOK, JournalTypeOK, BodyReturns, journalVars
  <2>2. TypeOK'
    BY <1>8, <2>1, JournalAssumption, DriverAssumption
       DEF TypeOK, BodyReturns, Healthy, Raise, Go, worldVars, PcStates, RpcStates, Stopped, Operations, Attempts
  <2>3. Placed'
    BY <1>8 DEF TypeOK, Placed, InStep, BodyReturns, Healthy, Raise, Go, worldVars
  <2>4. QED
    BY <2>2, <2>3
<1>9. CASE UnknownReply(d)
  <2>0. pos[d] \in StepIds
    BY <1>9 DEF UnknownReply, Placed, InStep
  <2>1. JournalTypeOK'
    BY <1>9, <2>0, RequestTypes, UnknownTypes DEF TypeOK, JournalTypeOK, UnknownReply
  <2>2. attempt' \in [Sessions -> 0 .. Attempts - 1]
    BY <1>9 DEF UnknownReply, Answered, TypeOK, Attempts
  <2>3. CASE Raise(d) /\ UNCHANGED <<tries, calls>>
    <3>1. TypeOK'
      BY <1>9, <2>1, <2>2, <2>3, RaiseTypes DEF TypeOK, UnknownReply, worldVars
    <3>2. Placed'
      BY <1>9, <2>3, RaiseTypes DEF TypeOK, Placed, InStep, UnknownReply, worldVars
    <3>3. QED
      BY <3>1, <3>2
  <2>4. CASE /\ MayRetry(d) /\ Go(d, "claim")
             /\ tries' = [tries EXCEPT ![d] = @ + 1] /\ calls' = [calls EXCEPT ![d] = @ + 1]
             /\ UNCHANGED failed
    <3>1. tries' \in [Sessions -> 0 .. Attempts]
      BY <2>4 DEF TypeOK, MayRetry, Attempts
    <3>2. TypeOK'
      BY <1>9, <2>1, <2>2, <2>4, <3>1 DEF TypeOK, UnknownReply, Go, worldVars, PcStates, RpcStates
    <3>3. Placed'
      BY <1>9, <2>4 DEF TypeOK, Placed, InStep, UnknownReply, Go, worldVars
    <3>4. QED
      BY <3>2, <3>3
  <2>5. QED
    BY <1>9, <2>3, <2>4 DEF UnknownReply
<1>10. CASE CompleteReply(d)
  <2>0. pos[d] \in StepIds
    BY <1>10 DEF CompleteReply, Placed, InStep
  <2>1. JournalTypeOK'
    BY <1>10, <2>0, RequestTypes, CompleteTypes DEF TypeOK, JournalTypeOK, CompleteReply
  <2>2. attempt' \in [Sessions -> 0 .. Attempts - 1]
    BY <1>10 DEF CompleteReply, Answered, TypeOK, Attempts
  <2>3. token[d] \in Nat
    BY DEF TypeOK
  <2>4. CASE Return(d, token[d])
    <3>1. TypeOK'
      BY <1>10, <2>0, <2>1, <2>2, <2>3, <2>4, ReturnTypes DEF TypeOK, CompleteReply, worldVars
    <3>2. Placed'
      BY <1>10, <2>0, <2>3, <2>4, ReturnTypes DEF TypeOK, Placed, InStep, CompleteReply, worldVars
    <3>3. QED
      BY <3>1, <3>2
  <2>5. CASE Raise(d) /\ UNCHANGED <<pos, got>>
    <3>1. TypeOK'
      BY <1>10, <2>1, <2>2, <2>5, RaiseTypes DEF TypeOK, CompleteReply, worldVars
    <3>2. Placed'
      BY <1>10, <2>5, RaiseTypes DEF TypeOK, Placed, InStep, CompleteReply, worldVars
    <3>3. QED
      BY <3>1, <3>2
  <2>6. QED
    BY <1>10, <2>4, <2>5 DEF CompleteReply
<1>11. CASE EntrypointPropagates(d)
  <2>1. JournalTypeOK'
    BY <1>11 DEF TypeOK, JournalTypeOK, EntrypointPropagates, journalVars
  <2>2. TypeOK'
    BY <1>11, <2>1, JournalAssumption, DriverAssumption
       DEF TypeOK, EntrypointPropagates, Go, worldVars, PcStates, RpcStates, Stopped, Operations, Attempts
  <2>3. Placed'
    BY <1>11 DEF TypeOK, Placed, InStep, EntrypointPropagates, Go, worldVars
  <2>4. QED
    BY <2>2, <2>3
<1>12. CASE EntrypointCatches(d)
  <2>1. JournalTypeOK'
    BY <1>12 DEF TypeOK, JournalTypeOK, EntrypointCatches, journalVars
  <2>2. pos[d] \in StepIds /\ pos[d] + 1 \in 1 .. StepCount + 1
    BY <1>12, JournalAssumption DEF EntrypointCatches, Placed, InStep, StepIds
  <2>3. pos' \in [Sessions -> 1 .. StepCount + 1]
    BY <1>12, <2>2 DEF TypeOK, EntrypointCatches
  <2>4. TypeOK'
    BY <1>12, <2>1, <2>3 DEF TypeOK, EntrypointCatches, Go, worldVars, PcStates
  <2>5. Placed'
    BY <1>12 DEF TypeOK, Placed, InStep, EntrypointCatches, Go, worldVars
  <2>6. QED
    BY <2>4, <2>5
<1>13. CASE BeginReply(d)
  <2>1. JournalTypeOK'
    BY <1>13, RequestTypes, BeginTypes DEF TypeOK, JournalTypeOK, BeginReply
  <2>2. attempt' \in [Sessions -> 0 .. Attempts - 1]
    BY <1>13 DEF BeginReply, Answered, TypeOK, Attempts
  <2>3. CASE Go(d, "poll") /\ UNCHANGED failed
    <3>1. TypeOK'
      BY <1>13, <2>1, <2>2, <2>3 DEF TypeOK, BeginReply, Go, worldVars, PcStates, RpcStates
    <3>2. Placed'
      BY <1>13, <2>3 DEF TypeOK, Placed, InStep, BeginReply, Go, worldVars
    <3>3. QED
      BY <3>1, <3>2
  <2>4. CASE Raise(d)
    <3>1. TypeOK'
      BY <1>13, <2>1, <2>2, <2>4, RaiseTypes DEF TypeOK, BeginReply, worldVars
    <3>2. Placed'
      BY <1>13, <2>4, RaiseTypes DEF TypeOK, Placed, InStep, BeginReply, worldVars
    <3>3. QED
      BY <3>1, <3>2
  <2>5. QED
    BY <1>13, <2>3, <2>4 DEF BeginReply
<1>14. CASE PollReply(d)
  <2>1. JournalTypeOK'
    BY <1>14 DEF TypeOK, JournalTypeOK, PollReply, journalVars
  <2>2. attempt' \in [Sessions -> 0 .. Attempts - 1]
    BY <1>14 DEF PollReply, Answered, TypeOK, Attempts
  <2>3. CASE Raise(d)
    <3>1. TypeOK'
      BY <1>14, <2>1, <2>2, <2>3, RaiseTypes DEF TypeOK, PollReply, worldVars
    <3>2. Placed'
      BY <1>14, <2>3, RaiseTypes DEF TypeOK, Placed, InStep, PollReply, worldVars
    <3>3. QED
      BY <3>1, <3>2
  <2>4. CASE (Go(d, AfterCheckpoint(d)) \/ Go(d, "poll")) /\ UNCHANGED failed
    <3>1. AfterCheckpoint(d) \in PcStates
      BY DEF AfterCheckpoint, PcStates, RpcStates
    <3>2. TypeOK'
      BY <1>14, <2>1, <2>2, <2>4, <3>1 DEF TypeOK, PollReply, Go, worldVars, PcStates, RpcStates
    <3>3. /\ AfterCheckpoint(d) \in {"driver", "complete", "finish"}
          /\ AfterCheckpoint(d) = "complete" => op[d] = "step" /\ pos[d] \in StepIds
          /\ AfterCheckpoint(d) = "finish" => op[d] = "finish"
      BY <1>14 DEF TypeOK, PollReply, Placed, InStep, AfterCheckpoint, Operations
    <3>4. Placed'
      BY <1>14, <2>4, <3>3 DEF TypeOK, Placed, InStep, PollReply, Go, worldVars
    <3>5. QED
      BY <3>2, <3>4
  <2>5. QED
    BY <1>14, <2>3, <2>4 DEF PollReply
<1>15. CASE BodyRaises(d)
  <2>1. JournalTypeOK'
    BY <1>15 DEF TypeOK, JournalTypeOK, BodyRaises, journalVars
  <2>2. TypeOK'
    BY <1>15, <2>1, JournalAssumption, DriverAssumption
       DEF TypeOK, BodyRaises, Fault, Go, PcStates, RpcStates, Stopped, Operations, Attempts
  <2>3. Placed'
    BY <1>15 DEF TypeOK, Placed, InStep, BodyRaises, Fault, Go
  <2>4. QED
    BY <2>2, <2>3
<1>16. CASE BodyLosesAuthority(d)
  <2>1. JournalTypeOK'
    BY <1>16 DEF TypeOK, JournalTypeOK, BodyLosesAuthority, journalVars
  <2>2. TypeOK'
    BY <1>16, <2>1, JournalAssumption, DriverAssumption
       DEF TypeOK, BodyLosesAuthority, Fault, Go, PcStates, RpcStates, Stopped, Operations, Attempts
  <2>3. Placed'
    BY <1>16 DEF TypeOK, Placed, InStep, BodyLosesAuthority, Fault, Go
  <2>4. QED
    BY <2>2, <2>3
<1>17. CASE PollDeadline(d)
  <2>1. JournalTypeOK'
    BY <1>17 DEF TypeOK, JournalTypeOK, PollDeadline, journalVars
  <2>2. TypeOK'
    BY <1>17, <2>1, JournalAssumption, DriverAssumption
       DEF TypeOK, PollDeadline, Fault, Raise, Go, Answered, PcStates, RpcStates, Stopped, Operations, Attempts
  <2>3. Placed'
    BY <1>17 DEF TypeOK, Placed, InStep, PollDeadline, Fault, Raise, Go, Answered
  <2>4. QED
    BY <2>2, <2>3
<1>18. CASE TransportError(d)
  <2>1. JournalTypeOK'
    BY <1>18 DEF TypeOK, JournalTypeOK, TransportError, journalVars
  <2>2. faults' \in 0 .. MaxFaults
    BY <1>18, DriverAssumption DEF TypeOK, TransportError, Fault
  <2>3. attempt' \in [Sessions -> 0 .. Attempts - 1]
    BY <1>18 DEF TransportError, MoreAttempts, Answered, TypeOK, Attempts
  <2>4. late' = late \/ (Request(d) \in Requests /\ late' = late \cup {Request(d)})
    BY <1>18, RequestTypes DEF TransportError, RpcStates
  <2>5. late' \in SUBSET Requests
    BY <2>4 DEF TypeOK
  <2>6. \A r \in late' : r.op # "finish" => r.step \in StepIds
    <3>1. pc[d] \in {"claim", "unknown", "complete"} => pos[d] \in StepIds
      BY DEF Placed, InStep
    <3>2. pc[d] \notin {"begin", "poll"} /\ pc[d] \in RpcStates
            => pc[d] \in {"claim", "unknown", "complete", "finish"}
      BY DEF RpcStates
    <3>3. Request(d).op = pc[d] /\ Request(d).step = pos[d]
      BY DEF Request
    <3>4. QED
      BY <1>18, <3>1, <3>2, <3>3 DEF TransportError, Placed
  <2>7. CASE Raise(d)
    <3>1. TypeOK'
      BY <1>18, <2>1, <2>2, <2>3, <2>5, <2>7, RaiseTypes DEF TypeOK, TransportError
    <3>2. op[d] = "step" => InStep(d)
      BY <1>18 DEF TransportError, RpcStates, Placed, InStep
    <3>3. Placed'
      BY <1>18, <2>6, <2>7, <3>2, RaiseTypes DEF TypeOK, Placed, InStep, TransportError
    <3>4. QED
      BY <3>1, <3>3
  <2>8. CASE UNCHANGED <<pc, failed>>
    <3>1. TypeOK'
      BY <1>18, <2>1, <2>2, <2>3, <2>5, <2>8 DEF TypeOK, TransportError
    <3>2. Placed'
      BY <1>18, <2>6, <2>8 DEF TypeOK, Placed, InStep, TransportError
    <3>3. QED
      BY <3>1, <3>2
  <2>9. QED
    BY <1>18, <2>7, <2>8 DEF TransportError
<1>19. CASE RenewalFails(d)
  <2>1. JournalTypeOK'
    BY <1>19 DEF TypeOK, JournalTypeOK, RenewalFails, journalVars
  <2>2. TypeOK'
    BY <1>19, <2>1, JournalAssumption, DriverAssumption
       DEF TypeOK, RenewalFails, Fault, PcStates, RpcStates, Stopped, Operations, Attempts
  <2>3. Placed'
    BY <1>19 DEF TypeOK, Placed, InStep, RenewalFails, Fault
  <2>4. QED
    BY <2>2, <2>3
<1>20. CASE Crash(d)
  <2>1. JournalTypeOK'
    BY <1>20 DEF TypeOK, JournalTypeOK, Crash, journalVars
  <2>2. TypeOK'
    BY <1>20, <2>1, JournalAssumption, DriverAssumption
       DEF TypeOK, Crash, Fault, Go, PcStates, RpcStates, Stopped, Operations, Attempts
  <2>3. Placed'
    BY <1>20 DEF TypeOK, Placed, InStep, Crash, Fault, Go
  <2>4. QED
    BY <2>2, <2>3
<1>21. QED
  BY <1>1, <1>2, <1>3, <1>4, <1>5, <1>6, <1>7, <1>8, <1>9, <1>10, <1>11, <1>12, <1>13, <1>14, <1>15, <1>16, <1>17, <1>18, <1>19, <1>20 DEF DriverStep, Failure

\* A request applied after its client gave up.
LEMMA TypeLate ==
    ASSUME TypeInv, NEW r \in late, LateDelivery(r)
    PROVE  TypeInv'
<1> USE DEF TypeInv
<1>1. /\ r \in Requests
      /\ r.session \in Sessions /\ r.token \in Nat /\ r.call \in Calls
      /\ r.op # "finish" => r.step \in StepIds
  BY DEF TypeOK, Placed, Requests
<1>2. entry' \in [StepIds -> Entries]
  BY <1>1, ClaimTypes, UnknownTypes, CompleteTypes DEF TypeOK, JournalTypeOK, LateDelivery, JournalLate
<1>3. image' \in SUBSET Writes /\ run' \in RunStatus
  BY <1>1, CompleteTypes, FinishTypes DEF TypeOK, JournalTypeOK, LateDelivery, JournalLate
<1>4. JournalTypeOK'
  BY <1>2, <1>3 DEF TypeOK, JournalTypeOK, LateDelivery, JournalLate
<1>5. TypeOK'
  BY <1>4 DEF TypeOK, LateDelivery, driverVars
<1>6. Placed'
  BY DEF Placed, InStep, LateDelivery, driverVars
<1>7. QED
  BY <1>5, <1>6

\* An operator's decision.
LEMMA TypeResolve ==
    ASSUME TypeInv, NEW s \in StepIds, Resolve(s)
    PROVE  TypeInv'
<1> USE DEF TypeInv
<1>1. JournalTypeOK'
  BY ResolveTypes DEF TypeOK, Resolve
<1>2. cleared' \in [StepIds -> Nat]
  BY DEF TypeOK, Resolve
<1>3. TypeOK'
  BY <1>1, <1>2 DEF TypeOK, Resolve, driverVars
<1>4. Placed'
  BY DEF Placed, InStep, Resolve, driverVars
<1>5. QED
  BY <1>3, <1>4

\* The type invariant, with Placed, is inductive.
LEMMA TypeStep == TypeInv /\ [Next]_vars => TypeInv'
<1> SUFFICES ASSUME TypeInv, [Next]_vars PROVE TypeInv'
  OBVIOUS
<1>1. CASE UNCHANGED vars
  BY <1>1 DEF TypeInv, TypeOK, JournalTypeOK, Placed, InStep, vars, journalVars, driverVars,
              worldVars
<1>2. CASE Next
  BY <1>2, TypeDriver, TypeLate, TypeResolve DEF Next
<1>3. QED
  BY <1>1, <1>2

\* Every variable of the drivers and of the journal stays in its range,
\* whatever is lost, delayed or repeated.
THEOREM TypeCorrect == Spec => []TypeOK
<1>1. TypeInv => TypeOK
  BY DEF TypeInv
<1>2. QED
  BY <1>1, TypeInit, TypeStep, PTL DEF Spec

-----------------------------------------------------------------------------
(* ResultsAgree.  It is inductive with TypeInv, because what a completed   *)
(* entry records never changes.                                            *)

Immutable ==
    \A s \in StepIds : entry[s].status = "completed" => entry'[s] = entry[s]

\* Each journal operation keeps the completed entries.
LEMMA ClaimKeepsCompleted ==
    ASSUME JournalTypeOK, NEW r, r.step \in StepIds, JournalClaim(r)
    PROVE  Immutable
<1>1. MayExecute(r.step) => entry[r.step].status # "completed"
  BY DEF MayExecute
<1>2. QED
  BY <1>1 DEF JournalTypeOK, JournalClaim, Immutable

\* Reporting an outcome unknown changes no completed entry.
LEMMA UnknownKeepsCompleted ==
    ASSUME JournalTypeOK, NEW r, r.step \in StepIds, JournalUnknown(r)
    PROVE  Immutable
<1>1. UnknownAcked(r) => entry[r.step].status # "completed"
  BY DEF UnknownAcked
<1>2. QED
  BY <1>1 DEF JournalTypeOK, JournalUnknown, Immutable

\* A completion is recorded once: a second one changes nothing.
LEMMA CompleteKeepsCompleted ==
    ASSUME JournalTypeOK, NEW r, r.step \in StepIds, JournalComplete(r)
    PROVE  Immutable
<1>1. Commits(r) => entry[r.step].status # "completed"
  BY DEF Commits
<1>2. QED
  BY <1>1 DEF JournalTypeOK, JournalComplete, Immutable

\* A new session makes unknown only what was started.
LEMMA OpenKeepsCompleted ==
    ASSUME JournalTypeOK, NEW d, JournalOpen(d)
    PROVE  Immutable
BY DEF JournalTypeOK, JournalOpen, Immutable

\* Only an unknown step can be resolved.
LEMMA ResolveKeepsCompleted ==
    ASSUME JournalTypeOK, NEW s \in StepIds, NEW decision \in Decisions,
           JournalResolve(s, decision)
    PROVE  Immutable
BY ResolveEffect DEF Immutable

\* An acknowledged completion leaves the entry completed with the result
\* the driver is about to return.
LEMMA CompletionRecorded ==
    ASSUME JournalTypeOK, NEW r, r.step \in StepIds, JournalComplete(r), CompleteAcked(r)
    PROVE  entry'[r.step].status = "completed" /\ entry'[r.step].result = r.token
BY DEF JournalTypeOK, JournalComplete, CompleteAcked, Commits

\* What calls have returned survives any step that keeps the completed
\* entries and returns nothing new.
LEMMA AgreeKept ==
    ASSUME TypeInv, ResultsAgree, Immutable, got' = got
    PROVE  ResultsAgree'
<1> SUFFICES ASSUME NEW d \in Sessions, NEW w \in got[d]
             PROVE  entry'[w[1]].status = "completed" /\ entry'[w[1]].result = w[2]
  BY DEF ResultsAgree
<1>1. w[1] \in StepIds
  BY DEF TypeInv, TypeOK, Writes
<1>2. QED
  BY <1>1 DEF ResultsAgree, Immutable

\* Nor does a call that returns what its entry has recorded.
LEMMA AgreeReturned ==
    ASSUME TypeInv, ResultsAgree, Immutable, NEW d \in Sessions, pos[d] \in StepIds,
           NEW v \in Nat, Return(d, v),
           entry'[pos[d]].status = "completed" /\ entry'[pos[d]].result = v
    PROVE  ResultsAgree'
<1> SUFFICES ASSUME NEW e \in Sessions, NEW w \in got'[e]
             PROVE  entry'[w[1]].status = "completed" /\ entry'[w[1]].result = w[2]
  BY DEF ResultsAgree
<1>1. CASE w \in got[e]
  <2>1. w[1] \in StepIds
    BY <1>1 DEF TypeInv, TypeOK, Writes
  <2>2. QED
    BY <1>1, <2>1 DEF ResultsAgree, Immutable
<1>2. CASE w \notin got[e]
  <2>1. w = <<pos[d], v>>
    BY <1>2 DEF Return, TypeInv, TypeOK
  <2>2. QED
    BY <2>1
<1>3. QED
  BY <1>1, <1>2

\* No step of a driver returns anything but a recorded result.
LEMMA AgreeDriver ==
    ASSUME TypeInv, ResultsAgree, NEW d \in Sessions,
           Open(d) \/ Capture(d) \/ DriverStep(d) \/ Failure(d)
    PROVE  ResultsAgree'
<1>1. JournalTypeOK
  BY DEF TypeInv, TypeOK
<1>2. entry' = entry => Immutable
  BY DEF Immutable
<1>3. CASE Open(d)
  BY <1>1, <1>3, OpenKeepsCompleted, AgreeKept DEF Open
<1>4. CASE ClaimReply(d)
  <2>1. /\ pos[d] \in StepIds /\ JournalClaim(Request(d))
        /\ Request(d).step = pos[d] /\ Request(d).session = d
    BY <1>4 DEF ClaimReply, Request, TypeInv, Placed, InStep
  <2>2. Immutable
    BY <1>1, <2>1, ClaimKeepsCompleted
  <2>3. CASE "replay" \in ClaimDecisions(Request(d)) /\ Return(d, entry[pos[d]].result)
    <3>1. entry[pos[d]].status = "completed"
      BY <2>1, <2>3 DEF ClaimDecisions
    <3>2. entry'[pos[d]] = entry[pos[d]] /\ entry[pos[d]].result \in Nat
      BY <1>1, <2>1, <2>2, <3>1, EntryFields DEF Immutable, JournalTypeOK
    <3>3. QED
      BY <2>1, <2>2, <2>3, <3>1, <3>2, AgreeReturned
  <2>4. CASE got' = got
    BY <2>2, <2>4, AgreeKept
  <2>5. QED
    BY <1>4, <2>3, <2>4 DEF ClaimReply
<1>5. CASE UnknownReply(d)
  <2>1. pos[d] \in StepIds /\ JournalUnknown(Request(d)) /\ Request(d).step = pos[d]
    BY <1>5 DEF UnknownReply, Request, TypeInv, Placed, InStep
  <2>2. Immutable
    BY <1>1, <2>1, UnknownKeepsCompleted
  <2>3. QED
    BY <1>5, <2>2, AgreeKept DEF UnknownReply
<1>6. CASE CompleteReply(d)
  <2>1. /\ pos[d] \in StepIds /\ JournalComplete(Request(d))
        /\ Request(d).step = pos[d] /\ Request(d).token = token[d] /\ token[d] \in Nat
    BY <1>6 DEF CompleteReply, Request, TypeInv, TypeOK, Placed, InStep
  <2>2. Immutable
    BY <1>1, <2>1, CompleteKeepsCompleted
  <2>3. CASE CompleteAcked(Request(d)) /\ Return(d, token[d])
    BY <1>1, <2>1, <2>2, <2>3, CompletionRecorded, AgreeReturned
  <2>4. CASE got' = got
    BY <2>2, <2>4, AgreeKept
  <2>5. QED
    BY <1>6, <2>3, <2>4 DEF CompleteReply, Durable
<1>7. CASE Capture(d)
  BY <1>2, <1>7, AgreeKept DEF Capture, JournalCapture, JournalCaptureFails, driverVars
<1>8. CASE Finish(d) \/ FinishReply(d) \/ CallStep(d) \/ Execute(d) \/ BodyReturns(d)
  BY <1>2, <1>8, AgreeKept DEF Finish, FinishReply, CallStep, Execute, BodyReturns, journalVars
<1>9. CASE EntrypointPropagates(d) \/ EntrypointCatches(d) \/ BeginReply(d) \/ PollReply(d)
  BY <1>2, <1>9, AgreeKept
     DEF EntrypointPropagates, EntrypointCatches, BeginReply, PollReply, journalVars
<1>10. CASE Failure(d)
  BY <1>2, <1>10, AgreeKept
     DEF Failure, BodyRaises, BodyLosesAuthority, PollDeadline, TransportError, RenewalFails,
         Crash, journalVars
<1>11. QED
  BY <1>3, <1>4, <1>5, <1>6, <1>7, <1>8, <1>9, <1>10 DEF DriverStep

\* ResultsAgree is preserved by every step, given the types.
LEMMA AgreeNext == TypeInv /\ ResultsAgree /\ [Next]_vars => ResultsAgree'
<1> SUFFICES ASSUME TypeInv, ResultsAgree, [Next]_vars PROVE ResultsAgree'
  OBVIOUS
<1>1. JournalTypeOK
  BY DEF TypeInv, TypeOK
<1>2. entry' = entry => Immutable
  BY DEF Immutable
<1>3. CASE UNCHANGED vars
  BY <1>2, <1>3, AgreeKept DEF vars, journalVars, driverVars
<1>4. ASSUME NEW r \in late, LateDelivery(r) PROVE ResultsAgree'
  <2>1. r.op # "finish" => r.step \in StepIds
    BY DEF TypeInv, Placed
  <2>2. Immutable
    BY <1>1, <1>2, <1>4, <2>1, ClaimKeepsCompleted, UnknownKeepsCompleted,
       CompleteKeepsCompleted DEF LateDelivery, JournalLate
  <2>3. QED
    BY <1>4, <2>2, AgreeKept DEF LateDelivery, driverVars
<1>5. ASSUME NEW s \in StepIds, Resolve(s) PROVE ResultsAgree'
  BY <1>1, <1>5, ResolveKeepsCompleted, AgreeKept DEF Resolve, driverVars
<1>6. QED
  BY <1>3, <1>4, <1>5, AgreeDriver DEF Next

\* Every result a step call returned, in any session, is the one the journal
\* has recorded for the step, and stays it.
THEOREM ResultsNeverDiffer == Spec => []ResultsAgree
<1>1. Init => ResultsAgree
  BY DEF Init, ResultsAgree
<1>2. QED
  BY <1>1, TypeInit, TypeStep, AgreeNext, PTL DEF Spec

\* No step of anyone changes what a completed entry records.
LEMMA ImmutableNext == TypeInv /\ [Next]_vars => Immutable
<1> SUFFICES ASSUME TypeInv, [Next]_vars PROVE Immutable
  OBVIOUS
<1>1. JournalTypeOK
  BY DEF TypeInv, TypeOK
<1>2. entry' = entry => Immutable
  BY DEF Immutable
<1>3. ASSUME NEW d \in Sessions,
             Open(d) \/ ClaimReply(d) \/ UnknownReply(d) \/ CompleteReply(d)
      PROVE  Immutable
  <2>1. CASE Open(d)
    BY <1>1, <2>1, OpenKeepsCompleted DEF Open
  <2>2. CASE ~Open(d)
    <3>1. Request(d).step \in StepIds
      BY <1>3, <2>2 DEF ClaimReply, UnknownReply, CompleteReply, Request, TypeInv, Placed, InStep
    <3>2. JournalClaim(Request(d)) \/ JournalUnknown(Request(d)) \/ JournalComplete(Request(d))
      BY <1>3, <2>2 DEF ClaimReply, UnknownReply, CompleteReply
    <3>3. QED
      BY <1>1, <3>1, <3>2, ClaimKeepsCompleted, UnknownKeepsCompleted, CompleteKeepsCompleted
  <2>3. QED
    BY <2>1, <2>2
<1>4. ASSUME NEW r \in late, LateDelivery(r) PROVE Immutable
  <2>1. r.op # "finish" => r.step \in StepIds
    BY DEF TypeInv, Placed
  <2>2. QED
    BY <1>1, <1>2, <1>4, <2>1, ClaimKeepsCompleted, UnknownKeepsCompleted,
       CompleteKeepsCompleted DEF LateDelivery, JournalLate
<1>5. ASSUME NEW s \in StepIds, Resolve(s) PROVE Immutable
  BY <1>1, <1>5, ResolveKeepsCompleted DEF Resolve
<1>6. ASSUME NEW d \in Sessions, Capture(d) \/ DriverStep(d) \/ Failure(d),
             ~ClaimReply(d), ~UnknownReply(d), ~CompleteReply(d)
      PROVE  entry' = entry
  BY <1>6 DEF DriverStep, Failure, Capture, JournalCapture, JournalCaptureFails, Finish,
       FinishReply, CallStep, Execute, BodyReturns, EntrypointPropagates, EntrypointCatches,
       BeginReply, PollReply, BodyRaises, BodyLosesAuthority, PollDeadline, TransportError,
       RenewalFails, Crash, journalVars
<1>7. CASE UNCHANGED vars
  BY <1>2, <1>7 DEF vars, journalVars
<1>8. QED
  BY <1>2, <1>3, <1>4, <1>5, <1>6, <1>7 DEF Next

-----------------------------------------------------------------------------
(* ExternalOnce.  GrantInv and TypeInv together are inductive.             *)

\* Sets of sessions are finite.
LEMMA SessionSets ==
    ASSUME NEW S \in SUBSET Sessions
    PROVE  IsFiniteSet(S) /\ Cardinality(S) \in Nat
<1>1. IsFiniteSet(Sessions)
  BY JournalAssumption, FS_Interval DEF Sessions
<1>2. QED
  BY <1>1, FS_Subset, FS_CardinalityType

\* A set of sessions within another has no more members.
LEMMA NoMore ==
    ASSUME NEW T \in SUBSET Sessions, NEW S \in SUBSET T
    PROVE  Cardinality(S) <= Cardinality(T)
BY SessionSets, FS_Subset

\* A set of sessions that gains at most one member.
LEMMA OneMore ==
    ASSUME NEW T \in SUBSET Sessions, NEW d \in Sessions, NEW S \in SUBSET (T \cup {d})
    PROVE  Cardinality(S) <= Cardinality(T) + 1
<1>1. IsFiniteSet(T \cup {d}) /\ Cardinality(T \cup {d}) <= Cardinality(T) + 1
  BY SessionSets, FS_AddElement
<1>2. Cardinality(S) <= Cardinality(T \cup {d})
  BY NoMore
<1>3. Cardinality(S) \in Nat /\ Cardinality(T) \in Nat /\ Cardinality(T \cup {d}) \in Nat
  BY SessionSets
<1>4. QED
  BY <1>1, <1>2, <1>3

\* A set of sessions that loses a member.
LEMMA OneLess ==
    ASSUME NEW T \in SUBSET Sessions, NEW d \in T, NEW S \in SUBSET (T \ {d})
    PROVE  Cardinality(S) + 1 <= Cardinality(T)
<1>1. Cardinality(T \ {d}) = Cardinality(T) - 1
  BY SessionSets, FS_RemoveElement
<1>2. Cardinality(S) <= Cardinality(T \ {d})
  BY NoMore
<1>3. Cardinality(S) \in Nat /\ Cardinality(T) \in Nat
  BY SessionSets
<1>4. QED
  BY <1>1, <1>2, <1>3

\* The journal grants nothing and clears nothing in this step.
Kept ==
    \A s \in StepIds :
        /\ entry'[s].token = entry[s].token /\ entry'[s].call = entry[s].call
        /\ entry'[s].status = "started" => entry[s].status = "started"
        /\ entry'[s].status \in {"absent", "cleared"} => entry[s].status \in {"absent", "cleared"}

\* Besides, no driver goes to enter a function or resends an old claim.
Quiet ==
    /\ Kept
    /\ ran' = ran /\ cleared' = cleared
    /\ \A s \in StepIds : Entering(s)' \subseteq Entering(s)
    /\ \A d \in Sessions : calls[d] <= calls'[d]
    /\ \A d \in Sessions : pc'[d] = "claim" =>
          \/ calls[d] < calls'[d]
          \/ pc[d] = "claim" /\ pos'[d] = pos[d] /\ calls'[d] = calls[d]
    /\ \A r \in late' : r \in late \/ (r.call = <<r.session, calls[r.session]>>)

\* A quiet step uses no request identity twice.
LEMMA FreshQuiet ==
    ASSUME TypeInv, TypeInv', FreshIdentities, Kept,
           \A d \in Sessions : calls[d] <= calls'[d],
           \A r \in late' : r \in late \/ (r.call = <<r.session, calls[r.session]>>)
    PROVE  FreshIdentities'
<1>1. ASSUME NEW s \in StepIds, NEW d \in Sessions, entry'[s].call[1] = d
      PROVE  entry'[s].call[2] <= calls'[d]
  <2>1. entry[s].call[2] \in Nat
    BY EntryFields DEF TypeInv, TypeOK, JournalTypeOK, Calls
  <2>2. calls[d] \in Nat /\ calls'[d] \in Nat
    BY DEF TypeInv, TypeOK
  <2>3. QED
    BY <1>1, <2>1, <2>2 DEF Kept, FreshIdentities
<1>2. ASSUME NEW r \in late'
      PROVE  r.call[1] = r.session /\ r.call[2] <= calls'[r.session]
  <2>1. r.session \in Sessions /\ r.call[2] \in Nat
    BY DEF TypeInv, TypeOK, Requests, Calls
  <2>2. calls[r.session] \in Nat /\ calls'[r.session] \in Nat
    BY <2>1 DEF TypeInv, TypeOK
  <2>3. QED
    BY <2>1, <2>2 DEF FreshIdentities
<1>3. QED
  BY <1>1, <1>2 DEF FreshIdentities

\* A step that neither grants nor uses a grant preserves GrantInv.
LEMMA QuietStep ==
    ASSUME TypeInv, TypeInv', GrantInv, Quiet
    PROVE  GrantInv'
<1>1. FreshIdentities'
  BY FreshQuiet DEF Quiet, GrantInv
<1>2. \A s \in StepIds :
         /\ entry[s].token \in Nat /\ ran[s] \in Nat /\ cleared[s] \in Nat
         /\ Cardinality(Entering(s)) \in Nat /\ Cardinality(Entering(s)') \in Nat
         /\ Cardinality(Entering(s)') <= Cardinality(Entering(s))
  BY EntryFields, SessionSets, NoMore
     DEF TypeInv, TypeOK, JournalTypeOK, Quiet, Entering
<1>3. GrantsCoverRuns'
  BY <1>2 DEF Quiet, Kept, GrantInv, GrantsCoverRuns
<1>4. RegrantUnused'
  <2> SUFFICES ASSUME NEW d \in Sessions, pc'[d] = "claim", Regrants(Request(d))'
               PROVE  (ran[pos[d]] + Cardinality(Entering(pos[d])) < entry[pos[d]].token)'
    BY DEF RegrantUnused
  <2>1. pos'[d] \in StepIds
    BY DEF TypeInv, Placed, InStep
  <2>2. entry'[pos'[d]].status = "started" /\ entry'[pos'[d]].call = <<d, calls'[d]>>
    BY DEF Regrants, Request
  <2>3. entry[pos'[d]].status = "started" /\ entry[pos'[d]].call = <<d, calls'[d]>>
    BY <2>1, <2>2 DEF Quiet, Kept
  <2>4. calls'[d] <= calls[d] /\ calls[d] \in Nat /\ calls'[d] \in Nat
    BY <2>1, <2>3 DEF TypeInv, TypeOK, GrantInv, FreshIdentities
  <2>5. pc[d] = "claim" /\ pos'[d] = pos[d] /\ calls'[d] = calls[d]
    BY <2>4 DEF Quiet
  <2>6. Regrants(Request(d))
    BY <2>3, <2>5 DEF Regrants, Request
  <2>7. ran[pos[d]] + Cardinality(Entering(pos[d])) < entry[pos[d]].token
    BY <2>5, <2>6 DEF GrantInv, RegrantUnused
  <2>8. Cardinality(Entering(pos[d])') <= Cardinality(Entering(pos[d]))
    <3>1. Entering(pos[d])' \subseteq Entering(pos[d])
      BY <2>1, <2>5 DEF Quiet, Entering
    <3>2. Entering(pos[d]) \in SUBSET Sessions
      BY DEF Entering
    <3>3. QED
      BY <3>1, <3>2, NoMore
  <2>9. Cardinality(Entering(pos[d])') \in Nat
    BY SessionSets DEF Entering
  <2>10. QED
    BY <1>2, <2>1, <2>5, <2>7, <2>8, <2>9 DEF Quiet, Kept
<1>5. ExternalGrants'
  BY <1>2 DEF Quiet, Kept, GrantInv, ExternalGrants
<1>6. QED
  BY <1>1, <1>3, <1>4, <1>5 DEF GrantInv

\* Reporting an outcome unknown changes no token and no identity.
LEMMA KeptByUnknown ==
    ASSUME JournalTypeOK, NEW r, r.step \in StepIds, JournalUnknown(r)
    PROVE  Kept
<1>1. UnknownAcked(r) => entry[r.step].status \in {"started", "unknown"}
  BY DEF UnknownAcked
<1>2. QED
  BY <1>1 DEF JournalTypeOK, JournalUnknown, Kept, Mark

\* Nor does recording a result.
LEMMA KeptByComplete ==
    ASSUME JournalTypeOK, NEW r, r.step \in StepIds, JournalComplete(r)
    PROVE  Kept
<1>1. Commits(r) => entry[r.step].status = "started" /\ entry[r.step].token = r.token
  BY DEF Commits, Holds
<1>2. QED
  BY <1>1 DEF JournalTypeOK, JournalComplete, Kept

\* Nor does opening a session.
LEMMA KeptByOpen ==
    ASSUME JournalTypeOK, NEW d \in Sessions, JournalOpen(d)
    PROVE  Kept
BY DEF JournalTypeOK, JournalOpen, Kept, Mark

\* A step of one driver is quiet unless it goes to enter the function or
\* to claim under an identity used before.
LEMMA QuietMove ==
    ASSUME TypeInv, NEW d \in Sessions, Kept, ran' = ran, cleared' = cleared,
           pc' = [pc EXCEPT ![d] = pc'[d]], pos' = [pos EXCEPT ![d] = pos'[d]],
           calls' = calls \/ calls' = [calls EXCEPT ![d] = calls[d] + 1],
           pc'[d] = "run" => pc[d] = "run" /\ pos'[d] = pos[d],
           pc'[d] = "claim" => \/ calls'[d] = calls[d] + 1
                               \/ pc[d] = "claim" /\ pos'[d] = pos[d] /\ calls'[d] = calls[d],
           late' = late \/ late' = late \cup {Request(d)}
    PROVE  Quiet
<1>1. \A s \in StepIds : Entering(s)' \subseteq Entering(s)
  BY DEF TypeInv, TypeOK, Entering
<1>2. \A e \in Sessions : calls[e] <= calls'[e] /\ calls[e] \in Nat
  BY DEF TypeInv, TypeOK
<1>3. \A e \in Sessions : pc'[e] = "claim" =>
          \/ calls[e] < calls'[e]
          \/ pc[e] = "claim" /\ pos'[e] = pos[e] /\ calls'[e] = calls[e]
  BY DEF TypeInv, TypeOK
<1>4. \A r \in late' : r \in late \/ (r.call = <<r.session, calls[r.session]>>)
  BY DEF Request
<1>5. QED
  BY <1>1, <1>2, <1>3, <1>4 DEF Quiet

QuietStepOf(d) ==
    \/ Open(d) \/ Capture(d) \/ Finish(d) \/ FinishReply(d) \/ CallStep(d) \/ BodyReturns(d)
    \/ UnknownReply(d) \/ CompleteReply(d) \/ EntrypointPropagates(d) \/ EntrypointCatches(d)
    \/ BeginReply(d) \/ PollReply(d) \/ Failure(d)

\* Only a granted claim and the entry into the function are not quiet.
LEMMA QuietDriver ==
    ASSUME TypeInv, NEW d \in Sessions, QuietStepOf(d)
    PROVE  Quiet
<1> USE DEF TypeInv
<1>0. entry' = entry => Kept
  BY DEF Kept
<1>1. CASE Open(d)
  <2>1. Kept
    BY <1>1, KeptByOpen DEF TypeOK, Open
  <2>2. QED
    BY <1>1, <2>1, QuietMove, DriverTypes DEF Open, Go, worldVars
<1>2. CASE Capture(d)
  BY <1>2, <1>0, QuietMove, DriverTypes DEF Capture, driverVars, JournalCapture, JournalCaptureFails
<1>3. CASE Finish(d)
  BY <1>3, <1>0, QuietMove, DriverTypes DEF Finish, Go, worldVars, journalVars
<1>4. CASE FinishReply(d)
  BY <1>4, <1>0, QuietMove, DriverTypes DEF FinishReply, Go, worldVars
<1>5. CASE CallStep(d)
  BY <1>5, <1>0, QuietMove, DriverTypes DEF CallStep, Go, worldVars, journalVars
<1>6. CASE BodyReturns(d)
  BY <1>6, <1>0, QuietMove, DriverTypes DEF BodyReturns, Healthy, Raise, Go, worldVars, journalVars
<1>7. CASE UnknownReply(d)
  <2>1. Kept
    BY <1>7, RequestTypes, KeptByUnknown DEF TypeOK, UnknownReply, Placed, InStep
  <2>2. QED
    BY <1>7, <2>1, QuietMove, DriverTypes DEF UnknownReply, Raise, Go, worldVars
<1>8. CASE CompleteReply(d)
  <2>1. Kept
    BY <1>8, RequestTypes, KeptByComplete DEF TypeOK, CompleteReply, Placed, InStep
  <2>2. QED
    BY <1>8, <2>1, QuietMove, DriverTypes DEF CompleteReply, Return, Raise, Go, worldVars
<1>9. CASE EntrypointPropagates(d)
  BY <1>9, <1>0, QuietMove, DriverTypes DEF EntrypointPropagates, Go, worldVars, journalVars
<1>10. CASE EntrypointCatches(d)
  BY <1>10, <1>0, QuietMove, DriverTypes DEF EntrypointCatches, Go, worldVars, journalVars
<1>11. CASE BeginReply(d)
  BY <1>11, <1>0, QuietMove, DriverTypes DEF BeginReply, Raise, Go, worldVars
<1>12. CASE PollReply(d)
  BY <1>12, <1>0, QuietMove, DriverTypes DEF PollReply, Raise, Go, AfterCheckpoint, worldVars, journalVars
<1>13. CASE BodyRaises(d)
  BY <1>13, <1>0, QuietMove, DriverTypes DEF BodyRaises, Go, journalVars
<1>14. CASE BodyLosesAuthority(d)
  BY <1>14, <1>0, QuietMove, DriverTypes DEF BodyLosesAuthority, Go, journalVars
<1>15. CASE PollDeadline(d)
  BY <1>15, <1>0, QuietMove, DriverTypes DEF PollDeadline, Raise, Go, journalVars
<1>16. CASE TransportError(d)
  BY <1>16, <1>0, QuietMove, DriverTypes DEF TransportError, Raise, Go, journalVars
<1>17. CASE RenewalFails(d)
  BY <1>17, <1>0, QuietMove, DriverTypes DEF RenewalFails, journalVars
<1>18. CASE Crash(d)
  BY <1>18, <1>0, QuietMove, DriverTypes DEF Crash, Go, journalVars
<1>19. QED
  BY <1>1, <1>2, <1>3, <1>4, <1>5, <1>6, <1>7, <1>8, <1>9, <1>10, <1>11, <1>12, <1>13, <1>14, <1>15, <1>16, <1>17, <1>18 DEF QuietStepOf, Failure

\* A grant to a request: its step has one more, and carries its identity.
Granted(r) ==
    /\ MayExecute(r.step)
    /\ entry' = [entry EXCEPT ![r.step] =
                    [status |-> "started", token |-> entry[r.step].token + 1, call |-> r.call,
                     result |-> 0]]

\* A claim is granted or leaves the entries alone.
LEMMA ClaimEffect ==
    ASSUME NEW r, JournalClaim(r)
    PROVE  (Current(r) /\ Granted(r)) \/ (~(Current(r) /\ MayExecute(r.step)) /\ entry' = entry)
BY DEF JournalClaim, Granted, ClaimToken

\* What a grant, to a driver about to run or to a request that is late,
\* leaves of GrantInv besides FreshIdentities.
LEMMA GrantStep ==
    ASSUME TypeInv, TypeInv', GrantInv, NEW r, NEW d \in Sessions, r.step \in StepIds,
           r.session = d, r.call[1] = d, Granted(r), ran' = ran, cleared' = cleared,
           UNCHANGED <<pos, calls>>,
           \/ UNCHANGED pc
           \/ pc' = [pc EXCEPT ![d] = "run"] /\ pc[d] = "claim" /\ pos[d] = r.step
    PROVE  GrantsCoverRuns' /\ RegrantUnused' /\ ExternalGrants'
<1> DEFINE s == r.step
<1>1. /\ entry'[s].token = entry[s].token + 1 /\ entry'[s].status = "started"
      /\ entry'[s].call = r.call
      /\ \A x \in StepIds \ {s} : entry'[x] = entry[x]
  BY DEF Granted, TypeInv, TypeOK, JournalTypeOK
<1>2. /\ \A x \in StepIds : /\ entry[x].token \in Nat /\ ran[x] \in Nat /\ cleared[x] \in Nat
                            /\ Cardinality(Entering(x)) \in Nat
                            /\ Cardinality(Entering(x)') \in Nat
  BY EntryFields, SessionSets DEF TypeInv, TypeOK, JournalTypeOK, Entering
<1>3. Cardinality(Entering(s)') <= Cardinality(Entering(s)) + 1
  <2>1. Entering(s) \in SUBSET Sessions
    BY DEF Entering
  <2>2. Entering(s)' \subseteq Entering(s) \cup {d}
    BY DEF Entering, TypeInv, TypeOK
  <2>3. QED
    BY <2>1, <2>2, OneMore
<1>4. \A x \in StepIds \ {s} : Cardinality(Entering(x)') <= Cardinality(Entering(x))
  <2>1. ASSUME NEW x \in StepIds \ {s} PROVE Entering(x)' \subseteq Entering(x)
    BY DEF Entering, TypeInv, TypeOK
  <2>2. ASSUME NEW x \in StepIds PROVE Entering(x) \in SUBSET Sessions
    BY DEF Entering
  <2>3. QED
    BY <2>1, <2>2, NoMore
<1>5. pc' = pc => Cardinality(Entering(s)') = Cardinality(Entering(s))
  BY DEF Entering
<1>6. GrantsCoverRuns'
  <2> SUFFICES ASSUME NEW x \in StepIds
               PROVE  ran[x] + Cardinality(Entering(x)') <= entry'[x].token
    BY DEF GrantsCoverRuns
  <2>1. ran[x] + Cardinality(Entering(x)) <= entry[x].token
    BY DEF GrantInv, GrantsCoverRuns
  <2>2. CASE x = s
    BY <1>1, <1>2, <1>3, <2>1, <2>2
  <2>3. CASE x # s
    BY <1>1, <1>2, <1>4, <2>1, <2>3
  <2>4. QED
    BY <2>2, <2>3
<1>7. RegrantUnused'
  <2> SUFFICES ASSUME NEW e \in Sessions, pc'[e] = "claim", Regrants(Request(e))'
               PROVE  ran[pos[e]] + Cardinality(Entering(pos[e])') < entry'[pos[e]].token
    BY DEF RegrantUnused
  <2>1. pc[e] = "claim" /\ pos[e] \in StepIds
    BY DEF TypeInv, TypeOK, Placed, InStep
  <2>2. entry'[pos[e]].status = "started" /\ entry'[pos[e]].call = <<e, calls[e]>>
    BY DEF Regrants, Request
  <2>3. CASE pos[e] = s
    <3>1. e = d
      BY <1>1, <2>2, <2>3
    <3>2. pc' = pc
      BY <3>1 DEF TypeInv, TypeOK
    <3>3. ran[s] + Cardinality(Entering(s)) <= entry[s].token
      BY DEF GrantInv, GrantsCoverRuns
    <3>4. ran[s] + Cardinality(Entering(s)') < entry'[s].token
      BY <1>1, <1>2, <1>5, <3>2, <3>3
    <3>5. QED
      BY <2>3, <3>4
  <2>4. CASE pos[e] # s
    <3>1. entry'[pos[e]] = entry[pos[e]]
      BY <1>1, <2>1, <2>4
    <3>2. Regrants(Request(e))
      BY <2>2, <3>1 DEF Regrants, Request
    <3>3. ran[pos[e]] + Cardinality(Entering(pos[e])) < entry[pos[e]].token
      BY <2>1, <3>2 DEF GrantInv, RegrantUnused
    <3>4. QED
      BY <1>2, <1>4, <2>1, <2>4, <3>1, <3>3
  <2>5. QED
    BY <2>3, <2>4
<1>8. ExternalGrants'
  <2> SUFFICES ASSUME NEW x \in StepIds, Effect[x] = "external"
               PROVE  entry'[x].token <= cleared[x]
                        + (IF entry'[x].status \in {"absent", "cleared"} THEN 0 ELSE 1)
    BY DEF ExternalGrants
  <2>1. entry[x].token <= cleared[x]
                        + (IF entry[x].status \in {"absent", "cleared"} THEN 0 ELSE 1)
    BY DEF GrantInv, ExternalGrants
  <2>2. CASE x = s
    <3>1. entry[s].status \in {"absent", "cleared"}
      BY <2>2 DEF Granted, MayExecute
    <3>2. QED
      BY <1>1, <1>2, <2>1, <2>2, <3>1
  <2>3. CASE x # s
    BY <1>1, <2>1, <2>3
  <2>4. QED
    BY <2>2, <2>3
<1>9. QED
  BY <1>6, <1>7, <1>8

\* A grant records the identity of the claim it answers.
LEMMA GrantFresh ==
    ASSUME TypeInv, TypeInv', FreshIdentities, NEW r, r.step \in StepIds, r.session \in Sessions,
           r.call[1] = r.session, r.call[2] <= calls[r.session], Granted(r),
           calls' = calls, late' \subseteq late
    PROVE  FreshIdentities'
BY DEF FreshIdentities, Granted, TypeInv, TypeOK, JournalTypeOK

\* The entry into a function takes a driver out of Entering.
LEMMA ExecuteStep ==
    ASSUME TypeInv, TypeInv', GrantInv, NEW d \in Sessions, Execute(d)
    PROVE  GrantInv'
<1> DEFINE s == pos[d]
<1>1. s \in StepIds /\ pc[d] = "run"
  BY DEF TypeInv, Placed, InStep, Execute
<1>2. /\ pc' = [pc EXCEPT ![d] = "body"] /\ pos' = pos /\ calls' = calls
      /\ entry' = entry /\ cleared' = cleared /\ late' = late
      /\ ran' = [ran EXCEPT ![s] = ran[s] + 1]
  BY DEF Execute, Go, journalVars
<1>3. \A x \in StepIds : /\ entry[x].token \in Nat /\ ran[x] \in Nat
                         /\ Cardinality(Entering(x)) \in Nat /\ Cardinality(Entering(x)') \in Nat
  BY EntryFields, SessionSets DEF TypeInv, TypeOK, JournalTypeOK, Entering
<1>4. \A x \in StepIds : ran'[x] + Cardinality(Entering(x)') <= ran[x] + Cardinality(Entering(x))
  <2> SUFFICES ASSUME NEW x \in StepIds
               PROVE  ran'[x] + Cardinality(Entering(x)') <= ran[x] + Cardinality(Entering(x))
    OBVIOUS
  <2>1. Entering(x) \in SUBSET Sessions
    BY DEF Entering
  <2>2. CASE x = s
    <3>1. d \in Entering(x) /\ Entering(x)' \subseteq Entering(x) \ {d}
      BY <1>1, <1>2, <2>2 DEF Entering, TypeInv, TypeOK
    <3>2. Cardinality(Entering(x)') + 1 <= Cardinality(Entering(x))
      BY <2>1, <3>1, OneLess
    <3>3. ran'[x] = ran[x] + 1
      BY <1>1, <1>2, <2>2 DEF TypeInv, TypeOK
    <3>4. QED
      BY <1>3, <3>2, <3>3
  <2>3. CASE x # s
    <3>1. Entering(x)' \subseteq Entering(x)
      BY <1>2 DEF Entering, TypeInv, TypeOK
    <3>2. Cardinality(Entering(x)') <= Cardinality(Entering(x))
      BY <2>1, <3>1, NoMore
    <3>3. ran'[x] = ran[x]
      BY <1>2, <2>3 DEF TypeInv, TypeOK
    <3>4. QED
      BY <1>3, <3>2, <3>3
  <2>4. QED
    BY <2>2, <2>3
<1>5. \A x \in StepIds : ran'[x] \in Nat
  BY DEF TypeInv, TypeOK
<1>6. GrantsCoverRuns'
  BY <1>2, <1>3, <1>4, <1>5 DEF GrantInv, GrantsCoverRuns
<1>7. RegrantUnused'
  <2> SUFFICES ASSUME NEW e \in Sessions, pc'[e] = "claim", Regrants(Request(e))'
               PROVE  (ran[pos[e]] + Cardinality(Entering(pos[e])) < entry[pos[e]].token)'
    BY DEF RegrantUnused
  <2>1. pc[e] = "claim" /\ pos[e] \in StepIds
    BY <1>2 DEF TypeInv, TypeOK, Placed, InStep
  <2>2. Regrants(Request(e))
    BY <1>2 DEF Regrants, Request
  <2>3. ran[pos[e]] + Cardinality(Entering(pos[e])) < entry[pos[e]].token
    BY <2>1, <2>2 DEF GrantInv, RegrantUnused
  <2>4. ran'[pos[e]] + Cardinality(Entering(pos[e])') <= ran[pos[e]] + Cardinality(Entering(pos[e]))
    BY <1>2, <1>4, <2>1 DEF Entering
  <2>5. Cardinality(Entering(pos[e])') \in Nat
    BY SessionSets DEF Entering
  <2>6. QED
    BY <1>2, <1>3, <1>5, <2>1, <2>3, <2>4, <2>5
<1>8. ExternalGrants'
  BY <1>2 DEF GrantInv, ExternalGrants
<1>9. FreshIdentities'
  BY <1>2 DEF GrantInv, FreshIdentities
<1>10. QED
  BY <1>6, <1>7, <1>8, <1>9 DEF GrantInv

\* The journal repeats a grant that was not used yet to the driver it was
\* made to.
LEMMA RegrantStep ==
    ASSUME TypeInv, TypeInv', GrantInv, NEW d \in Sessions, entry' = entry, ran' = ran,
           cleared' = cleared, calls' = calls, late' = late, pos' = pos,
           pc[d] = "claim", pos[d] \in StepIds, pc' = [pc EXCEPT ![d] = "run"],
           entry[pos[d]].call = <<d, calls[d]>>,
           ran[pos[d]] + Cardinality(Entering(pos[d])) < entry[pos[d]].token
    PROVE  GrantInv'
<1> DEFINE s == pos[d]
<1>1. \A x \in StepIds : /\ entry[x].token \in Nat /\ ran[x] \in Nat
                         /\ Cardinality(Entering(x)) \in Nat /\ Cardinality(Entering(x)') \in Nat
  BY EntryFields, SessionSets DEF TypeInv, TypeOK, JournalTypeOK, Entering
<1>2. \A x \in StepIds \ {s} : Cardinality(Entering(x)') <= Cardinality(Entering(x))
  <2>1. ASSUME NEW x \in StepIds \ {s} PROVE Entering(x)' \subseteq Entering(x)
    BY DEF Entering, TypeInv, TypeOK
  <2>2. ASSUME NEW x \in StepIds PROVE Entering(x) \in SUBSET Sessions
    BY DEF Entering
  <2>3. QED
    BY <2>1, <2>2, NoMore
<1>3. ASSUME NEW x \in StepIds, x = s
      PROVE  Cardinality(Entering(x)') <= Cardinality(Entering(x)) + 1
  <2>1. Entering(x) \in SUBSET Sessions
    BY DEF Entering
  <2>2. Entering(x)' \subseteq Entering(x) \cup {d}
    BY DEF Entering, TypeInv, TypeOK
  <2>3. QED
    BY <2>1, <2>2, OneMore
<1>4. GrantsCoverRuns'
  <2> SUFFICES ASSUME NEW x \in StepIds
               PROVE  ran[x] + Cardinality(Entering(x)') <= entry[x].token
    BY DEF GrantsCoverRuns
  <2>1. ran[x] + Cardinality(Entering(x)) <= entry[x].token
    BY DEF GrantInv, GrantsCoverRuns
  <2>2. CASE x = s
    BY <1>1, <1>3, <2>2
  <2>3. CASE x # s
    BY <1>1, <1>2, <2>1, <2>3
  <2>4. QED
    BY <2>2, <2>3
<1>5. RegrantUnused'
  <2> SUFFICES ASSUME NEW e \in Sessions, pc'[e] = "claim", Regrants(Request(e))'
               PROVE  (ran[pos[e]] + Cardinality(Entering(pos[e])) < entry[pos[e]].token)'
    BY DEF RegrantUnused
  <2>1. pc[e] = "claim" /\ pos[e] \in StepIds /\ e # d
    BY DEF TypeInv, TypeOK, Placed, InStep
  <2>2. Regrants(Request(e))
    BY <2>1 DEF Regrants, Request
  <2>3. pos[e] # s
    BY <2>1, <2>2 DEF Regrants, Request
  <2>4. ran[pos[e]] + Cardinality(Entering(pos[e])) < entry[pos[e]].token
    BY <2>1, <2>2 DEF GrantInv, RegrantUnused
  <2>5. Cardinality(Entering(pos[e])') <= Cardinality(Entering(pos[e]))
    BY <1>2, <2>1, <2>3 DEF Entering
  <2>6. Cardinality(Entering(pos[e])') \in Nat
    BY SessionSets DEF Entering
  <2>7. QED
    BY <1>1, <2>1, <2>4, <2>5, <2>6
<1>6. ExternalGrants' /\ FreshIdentities'
  BY DEF GrantInv, ExternalGrants, FreshIdentities
<1>7. QED
  BY <1>4, <1>5, <1>6 DEF GrantInv

\* An answered claim: granted, repeated, replayed or refused.
LEMMA ClaimStep ==
    ASSUME TypeInv, TypeInv', GrantInv, NEW d \in Sessions, ClaimReply(d)
    PROVE  GrantInv'
<1> DEFINE r == Request(d)
<1>1. /\ pc[d] = "claim" /\ JournalClaim(r) /\ ran' = ran /\ cleared' = cleared
      /\ calls' = calls /\ late' = late
  BY DEF ClaimReply, worldVars
<1>2. r.step = pos[d] /\ r.session = d /\ r.call = <<d, calls[d]>> /\ pos[d] \in StepIds
  BY <1>1 DEF Request, TypeInv, Placed, InStep
<1>3. CASE Current(r) /\ Granted(r)
  <2>1. ClaimDecisions(r) = {"execute"}
    BY <1>3 DEF ClaimDecisions, Granted
  <2>2. pc' = [pc EXCEPT ![d] = "run"] /\ pos' = pos
    BY <2>1 DEF ClaimReply, Permits, Go
  <2>3. GrantsCoverRuns' /\ RegrantUnused' /\ ExternalGrants'
    <3>1. r.step \in StepIds /\ r.session = d /\ r.call[1] = d /\ pos[d] = r.step /\ Granted(r)
      BY <1>2, <1>3
    <3> HIDE DEF r
    <3>2. UNCHANGED <<pos, calls>>
      BY <1>1, <2>2
    <3>3. QED
      BY <1>1, <2>2, <3>1, <3>2, GrantStep
  <2>4. calls[d] <= calls[d]
    BY DEF TypeInv, TypeOK
  <2>5. FreshIdentities'
    <3> HIDE DEF r
    <3> QED BY <1>1, <1>2, <1>3, <2>4, GrantFresh DEF GrantInv
  <2>6. QED
    BY <2>3, <2>5 DEF GrantInv
<1>4. CASE ~(Current(r) /\ MayExecute(r.step)) /\ entry' = entry
  <2>1. Kept
    BY <1>4 DEF Kept
  <2>2. CASE Return(d, entry[pos[d]].result)
    <3>1. entry[pos[d]].result \in Nat
      BY <1>2, EntryFields DEF TypeInv, TypeOK, JournalTypeOK
    <3>2. Quiet
      BY <1>1, <1>2, <2>1, <2>2, <3>1, ReturnTypes, QuietMove
    <3>3. QED
      BY <3>2, QuietStep
  <2>3. CASE Raise(d) /\ UNCHANGED pos
    <3>1. Quiet
      BY <1>1, <2>1, <2>3, RaiseTypes, QuietMove DEF TypeInv, TypeOK
    <3>2. QED
      BY <3>1, QuietStep
  <2>4. CASE "execute" \in ClaimDecisions(r) /\ Go(d, "run") /\ UNCHANGED pos
    <3>1. Regrants(r)
      BY <1>4, <2>4 DEF ClaimDecisions
    <3>2. ran[pos[d]] + Cardinality(Entering(pos[d])) < entry[pos[d]].token
      BY <1>1, <3>1 DEF GrantInv, RegrantUnused
    <3>3. pc' = [pc EXCEPT ![d] = "run"] /\ pos' = pos
      BY <2>4 DEF Go
    <3>4. entry[pos[d]].call = <<d, calls[d]>>
      BY <1>2, <3>1 DEF Regrants
    <3>5. QED
      BY <1>1, <1>2, <1>4, <3>2, <3>3, <3>4, RegrantStep
  <2>5. QED
    BY <2>2, <2>3, <2>4 DEF ClaimReply, Permits
<1>5. QED
  BY <1>1, <1>3, <1>4, ClaimEffect

\* A late request, a claim that is granted to nobody included.
LEMMA LateStep ==
    ASSUME TypeInv, TypeInv', GrantInv, NEW r \in late, LateDelivery(r)
    PROVE  GrantInv'
<1>1. /\ r \in Requests /\ r.session \in Sessions
      /\ r.op # "finish" => r.step \in StepIds
      /\ r.call[1] = r.session /\ r.call[2] <= calls[r.session]
  BY DEF TypeInv, TypeOK, Placed, Requests, GrantInv, FreshIdentities
<1>2. /\ ran' = ran /\ cleared' = cleared /\ late' \subseteq late
      /\ UNCHANGED <<pc, pos, calls>>
  BY DEF LateDelivery, driverVars
<1>3. Kept => Quiet
  BY <1>2 DEF Quiet, Entering, TypeInv, TypeOK
<1>4. CASE Granted(r) /\ r.op = "claim"
  <2>1. GrantsCoverRuns' /\ RegrantUnused' /\ ExternalGrants'
    BY <1>1, <1>2, <1>4, GrantStep
  <2>2. FreshIdentities'
    BY <1>1, <1>2, <1>4, GrantFresh DEF GrantInv
  <2>3. QED
    BY <2>1, <2>2 DEF GrantInv
<1>5. CASE Kept
  BY <1>3, <1>5, QuietStep
<1>6. QED
  <2>1. entry' = entry => Kept
    BY DEF Kept
  <2>2. JournalTypeOK
    BY DEF TypeInv, TypeOK
  <2>3. CASE r.op = "claim" /\ JournalClaim(r)
    BY <1>4, <1>5, <2>1, <2>3, ClaimEffect
  <2>4. CASE r.op = "unknown" /\ JournalUnknown(r)
    BY <1>1, <1>5, <2>2, <2>4, KeptByUnknown
  <2>5. CASE r.op = "complete" /\ JournalComplete(r)
    BY <1>1, <1>5, <2>2, <2>5, KeptByComplete
  <2>6. CASE UNCHANGED entry
    BY <1>5, <2>1, <2>6
  <2>7. QED
    BY <2>3, <2>4, <2>5, <2>6 DEF LateDelivery, JournalLate

\* Clearing a step allows exactly one more grant.
LEMMA ResolveStep ==
    ASSUME TypeInv, TypeInv', GrantInv, NEW s \in StepIds, Resolve(s)
    PROVE  GrantInv'
<1>1. UNCHANGED <<pc, pos, calls, ran, late>>
  BY DEF Resolve, driverVars
<1>2. PICK decision \in Decisions :
         /\ JournalResolve(s, decision)
         /\ cleared' = IF decision = "no_effect"
                       THEN [cleared EXCEPT ![s] = @ + 1] ELSE cleared
  BY DEF Resolve
<1> DEFINE same == entry' = entry
           status == entry'[s].status
<1>3. /\ entry[s].status = "unknown"
      /\ \A x \in StepIds \ {s} : entry'[x] = entry[x]
      /\ entry'[s].token = entry[s].token /\ entry'[s].call = entry[s].call
      /\ \/ decision = "cancelled" /\ same
         \/ decision = "no_effect" /\ status = "cleared"
         \/ decision = "completed" /\ status = "completed"
  BY <1>2, ResolveEffect DEF TypeInv, TypeOK
<1>4. \A x \in StepIds : entry'[x].token = entry[x].token /\ entry'[x].call = entry[x].call
  BY <1>3
<1>5. \A x \in StepIds : entry'[x].status = "started" => entry[x].status = "started"
  BY <1>3
<1>6. \A x \in StepIds : entry[x].token \in Nat /\ cleared[x] \in Nat /\ cleared'[x] \in Nat
  BY EntryFields DEF TypeInv, TypeOK, JournalTypeOK
<1>7. GrantsCoverRuns'
  BY <1>1, <1>4 DEF GrantInv, GrantsCoverRuns, Entering
<1>8. RegrantUnused'
  <2> SUFFICES ASSUME NEW e \in Sessions, pc'[e] = "claim", Regrants(Request(e))'
               PROVE  (ran[pos[e]] + Cardinality(Entering(pos[e])) < entry[pos[e]].token)'
    BY DEF RegrantUnused
  <2>1. pc[e] = "claim" /\ pos[e] \in StepIds
    BY <1>1 DEF TypeInv, Placed, InStep
  <2>2. Regrants(Request(e))
    BY <1>1, <1>4, <1>5, <2>1 DEF Regrants, Request
  <2>3. ran[pos[e]] + Cardinality(Entering(pos[e])) < entry[pos[e]].token
    BY <2>1, <2>2 DEF GrantInv, RegrantUnused
  <2>4. QED
    BY <1>1, <1>4, <2>1, <2>3 DEF Entering
<1>9. ExternalGrants'
  <2> SUFFICES ASSUME NEW x \in StepIds, Effect[x] = "external"
               PROVE  entry'[x].token <= cleared'[x]
                        + (IF entry'[x].status \in {"absent", "cleared"} THEN 0 ELSE 1)
    BY DEF ExternalGrants
  <2>1. entry[x].token <= cleared[x]
                        + (IF entry[x].status \in {"absent", "cleared"} THEN 0 ELSE 1)
    BY DEF GrantInv, ExternalGrants
  <2>2. CASE x # s
    <3>1. entry'[x] = entry[x] /\ cleared'[x] = cleared[x]
      BY <1>2, <1>3, <2>2 DEF TypeInv, TypeOK
    <3>2. QED
      BY <2>1, <3>1
  <2>3. CASE x = s /\ decision = "no_effect"
    <3>1. cleared'[x] = cleared[x] + 1
      BY <1>2, <2>3 DEF TypeInv, TypeOK
    <3>2. QED
      BY <1>3, <1>6, <2>1, <2>3, <3>1
  <2>4. CASE x = s /\ decision # "no_effect"
    <3>1. cleared'[x] = cleared[x] /\ entry'[x].status \in {"unknown", "completed"}
      BY <1>2, <1>3, <2>4
    <3>2. QED
      BY <1>3, <1>6, <2>1, <2>4, <3>1
  <2>5. QED
    BY <2>2, <2>3, <2>4
<1>10. FreshIdentities'
  BY <1>1, <1>4 DEF GrantInv, FreshIdentities
<1>11. QED
  BY <1>7, <1>8, <1>9, <1>10 DEF GrantInv

\* Nothing is granted before the first session.
LEMMA GrantInit == Init => GrantInv
<1> SUFFICES ASSUME Init PROVE GrantInv
  OBVIOUS
<1>1. \A s \in StepIds : Cardinality(Entering(s)) = 0
  <2>1. \A s \in StepIds : Entering(s) = {}
    BY DEF Init, Entering
  <2>2. QED
    BY <2>1, FS_EmptySet
<1>2. \A s \in StepIds : ran[s] = 0 /\ entry[s].token = 0
  BY DEF Init, JournalInit
<1>3. GrantsCoverRuns
  BY <1>1, <1>2 DEF GrantsCoverRuns
<1>4. RegrantUnused
  BY DEF Init, RegrantUnused
<1>5. ExternalGrants
  BY DEF Init, JournalInit, ExternalGrants
<1>6. FreshIdentities
  BY DEF Init, JournalInit, FreshIdentities, Sessions
<1>7. QED
  BY <1>3, <1>4, <1>5, <1>6 DEF GrantInv

\* GrantInv is inductive, given the types.
LEMMA GrantNext == TypeInv /\ GrantInv /\ [Next]_vars => GrantInv'
<1> SUFFICES ASSUME TypeInv, GrantInv, [Next]_vars PROVE GrantInv'
  OBVIOUS
<1>1. TypeInv'
  BY TypeStep
<1>2. CASE UNCHANGED vars
  BY <1>2 DEF GrantInv, GrantsCoverRuns, RegrantUnused, ExternalGrants, FreshIdentities, Entering,
              Regrants, Request, vars, journalVars, driverVars, worldVars
<1>3. ASSUME NEW d \in Sessions, Open(d) \/ Capture(d) \/ DriverStep(d) \/ Failure(d)
      PROVE  GrantInv'
  <2>1. CASE ClaimReply(d)
    BY <1>1, <2>1, ClaimStep
  <2>2. CASE Execute(d)
    BY <1>1, <2>2, ExecuteStep
  <2>3. CASE QuietStepOf(d)
    BY <1>1, <2>3, QuietDriver, QuietStep
  <2>4. QED
    BY <1>3, <2>1, <2>2, <2>3 DEF DriverStep, QuietStepOf
<1>4. QED
  BY <1>1, <1>2, <1>3, LateStep, ResolveStep DEF Next

\* Every entry into a function is backed by a grant of its own, and what
\* ExternalOnce rests on holds, for any number of steps and sessions.
THEOREM GrantsAccounted == Spec => []GrantInv
BY TypeInit, TypeStep, GrantInit, GrantNext, PTL DEF Spec

\* A function declared external is never entered again because an answer,
\* a driver or a session was lost.
THEOREM ExternalExecutedOnce == Spec => []ExternalOnce
<1>1. TypeInv /\ GrantInv => ExternalOnce
  <2> SUFFICES ASSUME TypeInv, GrantInv, NEW s \in StepIds, Effect[s] = "external"
               PROVE  ran[s] <= 1 + cleared[s]
    BY DEF ExternalOnce
  <2>1. /\ entry[s].token \in Nat /\ ran[s] \in Nat /\ cleared[s] \in Nat
        /\ Cardinality(Entering(s)) \in Nat
    BY EntryFields, SessionSets DEF TypeInv, TypeOK, JournalTypeOK, Entering
  <2>2. ran[s] + Cardinality(Entering(s)) <= entry[s].token
    BY DEF GrantInv, GrantsCoverRuns
  <2>3. entry[s].token <= cleared[s] + 1
    BY <2>1 DEF GrantInv, ExternalGrants
  <2>4. QED
    BY <2>1, <2>2, <2>3
<1>2. QED
  BY <1>1, TypeInit, TypeStep, GrantInit, GrantNext, PTL DEF Spec

-----------------------------------------------------------------------------
(* The invariants.                                                         *)

\* The driver is inside the function of its step or reports on it.
Executing(d) ==
    \/ pc[d] \in {"body", "unknown", "complete"}
    \/ pc[d] \in {"begin", "poll"} /\ op[d] = "step"

Reports == {"unknown", "complete"}

\* A driver's token was granted to the call it is in, and so was that of a
\* report still under way, as long as it is the token of the entry.  No
\* report was sent under the identity of a call that has not run yet.  What
\* the newest session is about to run is started.
GrantOwned ==
    /\ \A d \in Sessions : Executing(d) \/ pc[d] = "run" =>
          /\ token[d] # 0 /\ token[d] <= entry[pos[d]].token
          /\ token[d] = entry[pos[d]].token => entry[pos[d]].call = <<d, calls[d]>>
    /\ \A r \in late : r.op \in Reports =>
          /\ r.token <= entry[r.step].token
          /\ r.token = entry[r.step].token => entry[r.step].call = r.call
    /\ \A d \in Sessions : pc[d] \in {"claim", "run"} =>
          \A r \in late : r.op \in Reports => r.call # <<d, calls[d]>>
    /\ \A d \in Sessions : pc[d] = "run" /\ d = epoch =>
          entry[pos[d]].status = "started" /\ entry[pos[d]].token = token[d]
    /\ \A s \in StepIds : entry[s].status = "started" => entry[s].token # 0

\* The session makes no claim and no checkpoint any more.
Halted(d) == pc[d] \in {"dead", "done"} \/ (failed[d] /\ pc[d] \in {"driver", "raised"})

\* Nothing was written since the last commit.
Unwritten(d) ==
    \/ pc[d] \in {"claim", "run"}
    \/ pc[d] \in {"begin", "poll"} /\ op[d] # "step"
    \/ pc[d] \in {"driver", "raised"} /\ ~failed[d]

\* The write of the execution in progress, and the one a checkpoint is for.
Own(d)   == <<pos[d], token[d]>>
Named(d) == <<checkpoint[d].step, checkpoint[d].token>>

\* The state folder of the newest session is the committed version and at
\* most the write of one execution not committed yet.
FolderKept(d) ==
    /\ Unwritten(d) => folder[d] = image
    /\ Executing(d) => folder[d] = image \cup {Own(d)}

\* So are the files of its checkpoint, which no other execution can name.
CheckpointKept(d) ==
    /\ pc[d] = "poll" => /\ checkpoint[d].op = op[d] /\ Named(d) = Own(d)
    /\ checkpoint[d].status = "pending" =>
          /\ Halted(d) \/ pc[d] = "poll"
          /\ folder[d] = IF checkpoint[d].op = "step" THEN image \cup {Named(d)} ELSE image
    /\ checkpoint[d].status = "ready" /\ checkpoint[d].op = "step" =>
          /\ checkpoint[d].files = image \cup {Named(d)}
          /\ \/ Halted(d) \/ Named(d) \in image
             \/ pc[d] \in {"poll", "complete"} /\ op[d] = "step" /\ Named(d) = Own(d)
    /\ checkpoint[d].status = "ready" /\ checkpoint[d].op # "step" =>
          checkpoint[d].files = image

\* The writes of the executions whose results are recorded.
RecordedWrites ==
    {<<s, entry[s].result>> :
        s \in {x \in StepIds : entry[x].status = "completed" /\ entry[x].result # 0}}

\* No session is ahead of the newest.
Unopened == \A d \in Sessions : d > epoch => pc[d] = "off" /\ checkpoint[d].status = "none"

\* Without checkpoint-v1 nothing is checkpointed.
NoSaves ==
    ~Recovery => \A d \in Sessions :
        pc[d] \notin {"begin", "poll"} /\ checkpoint[d].status = "none"

SessionKept ==
    Recovery /\ epoch # 0 /\ run = "active" => FolderKept(epoch) /\ CheckpointKept(epoch)

\* What an operator may select: files that hold the write of the uncertain
\* execution, and no other write that is not committed.
CandidateKept(d) ==
    checkpoint[d].op = "step" =>
        /\ checkpoint[d].status \in {"pending", "ready"} => checkpoint[d].token # 0
        /\ checkpoint[d].status = "ready" =>
              Named(d) \in checkpoint[d].files /\ checkpoint[d].files \subseteq image \cup {Named(d)}

CandidatesKept == Recovery => \A d \in Sessions : CandidateKept(d)

SaveInv == Unopened /\ NoSaves /\ ImageMatchesJournal /\ SessionKept /\ CandidatesKept

RecordInv == GrantOwned /\ SaveInv

-----------------------------------------------------------------------------
(* GrantOwned.  It is inductive with TypeInv and GrantInv.                 *)

\* A step of one driver that grants nothing, and moves it into its function
\* only from the state in which it was granted it.
LEMMA OwnedMove ==
    ASSUME TypeInv, TypeInv', GrantInv, GrantOwned, NEW d \in Sessions, Kept,
           pc' = [pc EXCEPT ![d] = pc'[d]], pos' = [pos EXCEPT ![d] = pos'[d]],
           token' = [token EXCEPT ![d] = token'[d]],
           calls' = calls \/ calls' = [calls EXCEPT ![d] = calls[d] + 1],
           Executing(d)' \/ pc'[d] = "run" =>
               /\ Executing(d) \/ pc[d] = "run"
               /\ pos'[d] = pos[d] /\ token'[d] = token[d] /\ calls'[d] = calls[d],
           op' = [op EXCEPT ![d] = op'[d]],
           pc'[d] = "run" => pc[d] = "run",
           pc'[d] = "claim" => calls'[d] = calls[d] + 1 \/ (pc[d] = "claim" /\ calls' = calls),
           \/ late' = late
           \/ late' = late \cup {Request(d)} /\ (pc[d] \in Reports => Executing(d))
              /\ calls' = calls /\ pc'[d] # "run" /\ (pc'[d] = "claim" => pc[d] = "claim"),
           \A e \in Sessions : e = epoch' /\ pc'[e] = "run" => entry' = entry /\ epoch' = epoch
    PROVE  GrantOwned'
<1>1. \A e \in Sessions : Executing(e)' \/ pc'[e] = "run" =>
          /\ Executing(e) \/ pc[e] = "run"
          /\ pos'[e] = pos[e] /\ token'[e] = token[e] /\ calls'[e] = calls[e]
  BY DEF TypeInv, TypeOK, Executing
<1>2. \A e \in Sessions : Executing(e) \/ pc[e] = "run" => pos[e] \in StepIds
  BY DEF TypeInv, Placed, InStep, Executing
<1>3. \A e \in Sessions : Executing(e)' \/ pc'[e] = "run" =>
          /\ token'[e] # 0 /\ token'[e] <= entry'[pos'[e]].token
          /\ token'[e] = entry'[pos'[e]].token => entry'[pos'[e]].call = <<e, calls'[e]>>
  <2> SUFFICES ASSUME NEW e \in Sessions, Executing(e)' \/ pc'[e] = "run"
               PROVE  /\ token'[e] # 0 /\ token'[e] <= entry'[pos'[e]].token
                      /\ token'[e] = entry'[pos'[e]].token =>
                             entry'[pos'[e]].call = <<e, calls'[e]>>
    OBVIOUS
  <2>1. /\ Executing(e) \/ pc[e] = "run"
        /\ pos'[e] = pos[e] /\ token'[e] = token[e] /\ calls'[e] = calls[e]
        /\ pos[e] \in StepIds
    BY <1>1, <1>2
  <2>2. /\ token[e] # 0 /\ token[e] <= entry[pos[e]].token
        /\ token[e] = entry[pos[e]].token => entry[pos[e]].call = <<e, calls[e]>>
    BY <2>1 DEF GrantOwned
  <2>3. entry'[pos[e]].token = entry[pos[e]].token /\ entry'[pos[e]].call = entry[pos[e]].call
    BY <2>1 DEF Kept
  <2>4. QED
    BY <2>1, <2>2, <2>3
<1>4. \A r \in late' : r.op \in Reports =>
          \/ r \in late
          \/ r = Request(d) /\ pc[d] \in Reports /\ Executing(d)
  BY DEF Request
<1>5. \A r \in late' : r.op \in Reports =>
          /\ r.step \in StepIds
          /\ r.token <= entry[r.step].token
          /\ r.token = entry[r.step].token => entry[r.step].call = r.call
  <2> SUFFICES ASSUME NEW r \in late', r.op \in Reports
               PROVE  /\ r.step \in StepIds
                      /\ r.token <= entry[r.step].token
                      /\ r.token = entry[r.step].token => entry[r.step].call = r.call
    OBVIOUS
  <2>1. CASE r \in late
    BY <2>1 DEF GrantOwned, TypeInv, Placed, Reports
  <2>2. CASE r = Request(d) /\ Executing(d)
    BY <1>2, <2>2 DEF GrantOwned, Request
  <2>3. QED
    BY <1>4, <2>1, <2>2
<1>6. \A r \in late' : r.op \in Reports =>
          /\ r.token <= entry'[r.step].token
          /\ r.token = entry'[r.step].token => entry'[r.step].call = r.call
  BY <1>5 DEF Kept
<1>7. ASSUME NEW e \in Sessions, pc'[e] \in {"claim", "run"}, NEW r \in late', r.op \in Reports
      PROVE  r.call # <<e, calls'[e]>>
  <2>1. CASE r \in late /\ pc[e] \in {"claim", "run"} /\ calls'[e] = calls[e]
    BY <1>7, <2>1 DEF GrantOwned
  <2>2. CASE r \in late /\ e = d /\ calls'[d] = calls[d] + 1
    <3>1. r.call[1] = r.session /\ r.call[2] <= calls[r.session]
      BY <2>2 DEF GrantInv, FreshIdentities
    <3>2. calls[d] \in Nat
      BY DEF TypeInv, TypeOK
    <3>3. QED
      BY <2>2, <3>1, <3>2
  <2>3. CASE r = Request(d) /\ pc[d] \in Reports /\ r \notin late
    <3>1. e # d
      BY <1>7, <2>3 DEF Reports
    <3>2. QED
      BY <2>3, <3>1 DEF Request
  <2>4. r \in late => \/ pc[e] \in {"claim", "run"} /\ calls'[e] = calls[e]
                      \/ e = d /\ calls'[d] = calls[d] + 1
    BY <1>1, <1>7 DEF TypeInv, TypeOK
  <2>5. QED
    BY <1>4, <1>7, <2>1, <2>2, <2>3, <2>4
<1>8. ASSUME NEW e \in Sessions, pc'[e] = "run", e = epoch'
      PROVE  entry'[pos'[e]].status = "started" /\ entry'[pos'[e]].token = token'[e]
  <2>1. pc[e] = "run"
    BY <1>8 DEF TypeInv, TypeOK
  <2>2. entry' = entry /\ epoch' = epoch /\ pos'[e] = pos[e] /\ token'[e] = token[e]
    BY <1>1, <1>8
  <2>3. QED
    BY <1>8, <2>1, <2>2 DEF GrantOwned
<1>9. \A s \in StepIds : entry'[s].status = "started" => entry'[s].token # 0
  BY DEF Kept, GrantOwned
<1>10. QED
  BY <1>3, <1>6, <1>7, <1>8, <1>9 DEF GrantOwned

\* An action of one driver other than a claim moves it so.
LEMMA OwnedDriver ==
    ASSUME TypeInv, TypeInv', GrantInv, GrantOwned, NEW d \in Sessions,
           QuietStepOf(d) \/ Execute(d)
    PROVE  GrantOwned'
<1> USE DEF TypeInv, Reports, RpcStates
<1>0. entry' = entry => Kept
  BY DEF Kept
<1>1. CASE Open(d)
  <2>1. Kept
    BY <1>1, KeptByOpen DEF TypeOK, Open
  <2>2. QED
    BY <1>1, <2>1, OwnedMove, DriverTypes DEF Open, JournalOpen, Go, worldVars, Executing
<1>2. CASE Capture(d)
  BY <1>2, <1>0, OwnedMove, DriverTypes
     DEF Capture, driverVars, JournalCapture, JournalCaptureFails, Executing
<1>3. CASE Finish(d)
  <2>1. /\ pc' = [pc EXCEPT ![d] = pc'[d]] /\ pc'[d] \in {"dead", "begin", "finish"}
        /\ op' = [op EXCEPT ![d] = op'[d]] /\ op'[d] = "finish"
        /\ token' = [token EXCEPT ![d] = token'[d]]
        /\ entry' = entry /\ UNCHANGED <<epoch, pos, calls, late>>
    BY <1>3 DEF TypeOK, Finish, Go, worldVars, journalVars
  <2>2. QED
    BY <2>1, <1>0, OwnedMove, DriverTypes DEF Executing
<1>4. CASE FinishReply(d)
  BY <1>4, <1>0, OwnedMove, DriverTypes DEF FinishReply, Go, worldVars, Executing
<1>5. CASE CallStep(d)
  <2>1. /\ pc' = [pc EXCEPT ![d] = pc'[d]] /\ pc'[d] \in {"raised", "claim"}
        /\ op' = [op EXCEPT ![d] = op'[d]]
        /\ calls' = [calls EXCEPT ![d] = calls[d] + 1] /\ calls'[d] = calls[d] + 1
        /\ entry' = entry /\ UNCHANGED <<epoch, pos, token, late>>
    BY <1>5 DEF TypeOK, CallStep, Go, worldVars, journalVars
  <2>2. QED
    BY <2>1, <1>0, OwnedMove, DriverTypes DEF Executing
<1>6. CASE BodyReturns(d)
  BY <1>6, <1>0, OwnedMove, DriverTypes
     DEF BodyReturns, Healthy, Raise, Go, worldVars, journalVars, Executing
<1>7. CASE UnknownReply(d)
  <2>1. Kept
    BY <1>7, RequestTypes, KeptByUnknown DEF TypeOK, UnknownReply, Placed, InStep
  <2>2. d # epoch => entry' = entry
    BY <1>7 DEF UnknownReply, JournalUnknown, UnknownAcked, Holds, Current, Request
  <2>3. QED
    BY <1>7, <2>1, <2>2, OwnedMove, DriverTypes DEF UnknownReply, Raise, Go, worldVars, Executing
<1>8. CASE CompleteReply(d)
  <2>1. Kept
    BY <1>8, RequestTypes, KeptByComplete DEF TypeOK, CompleteReply, Placed, InStep
  <2>2. d # epoch => entry' = entry
    BY <1>8 DEF CompleteReply, JournalComplete, Commits, Holds, Current, Request
  <2>3. QED
    BY <1>8, <2>1, <2>2, OwnedMove, DriverTypes
       DEF CompleteReply, Return, Raise, Go, worldVars, Executing
<1>9. CASE EntrypointPropagates(d)
  BY <1>9, <1>0, OwnedMove, DriverTypes DEF EntrypointPropagates, Go, worldVars, journalVars, Executing
<1>10. CASE EntrypointCatches(d)
  <2>1. /\ pc' = [pc EXCEPT ![d] = pc'[d]] /\ pc'[d] = "driver"
        /\ pos' = [pos EXCEPT ![d] = pos'[d]]
        /\ entry' = entry /\ UNCHANGED <<epoch, op, token, calls, late>>
    BY <1>10 DEF TypeOK, EntrypointCatches, Go, worldVars, journalVars
  <2>2. QED
    BY <2>1, <1>0, OwnedMove, DriverTypes DEF Executing
<1>11. CASE BeginReply(d)
  BY <1>11, <1>0, OwnedMove, DriverTypes DEF BeginReply, Raise, Go, worldVars, Executing
<1>12. CASE PollReply(d)
  BY <1>12, <1>0, OwnedMove, DriverTypes
     DEF PollReply, Raise, Go, AfterCheckpoint, worldVars, journalVars, Executing
<1>13. CASE BodyRaises(d)
  <2>1. /\ pc' = [pc EXCEPT ![d] = "unknown"] /\ pc[d] = "body" /\ entry' = entry
        /\ UNCHANGED <<epoch, op, pos, token, calls, late>>
    BY <1>13 DEF BodyRaises, Go, journalVars
  <2>2. QED
    BY <2>1, <1>0, OwnedMove, DriverTypes DEF Executing
<1>14. CASE BodyLosesAuthority(d)
  <2>1. /\ pc' = [pc EXCEPT ![d] = "unknown"] /\ pc[d] = "body" /\ entry' = entry
        /\ UNCHANGED <<epoch, op, pos, token, calls, late>>
    BY <1>14 DEF BodyLosesAuthority, Go, journalVars
  <2>2. QED
    BY <2>1, <1>0, OwnedMove, DriverTypes DEF Executing
<1>15. CASE PollDeadline(d)
  BY <1>15, <1>0, OwnedMove, DriverTypes DEF PollDeadline, Raise, Go, journalVars, Executing
<1>16. CASE TransportError(d)
  BY <1>16, <1>0, OwnedMove, DriverTypes DEF TransportError, Raise, Go, journalVars, Executing
<1>17. CASE RenewalFails(d)
  BY <1>17, <1>0, OwnedMove, DriverTypes DEF RenewalFails, journalVars, Executing
<1>18. CASE Crash(d)
  BY <1>18, <1>0, OwnedMove, DriverTypes DEF Crash, Go, journalVars, Executing
<1>19. CASE Execute(d)
  <2>1. /\ pc' = [pc EXCEPT ![d] = "body"] /\ pc[d] = "run" /\ entry' = entry
        /\ UNCHANGED <<epoch, op, pos, token, calls, late>>
    BY <1>19 DEF Execute, Go, journalVars
  <2>2. QED
    BY <2>1, <1>0, OwnedMove, DriverTypes DEF Executing
<1>20. QED
  BY <1>1, <1>2, <1>3, <1>4, <1>5, <1>6, <1>7, <1>8, <1>9, <1>10, <1>11, <1>12, <1>13, <1>14, <1>15, <1>16, <1>17, <1>18, <1>19 DEF QuietStepOf, Failure

\* A grant, to the driver that asked for it or to nobody that still waits.
LEMMA OwnedGrant ==
    ASSUME TypeInv, GrantOwned, NEW r, NEW d \in Sessions, r.step \in StepIds,
           Granted(r), UNCHANGED <<pos, op, calls, epoch>>, late' \subseteq late,
           \/ UNCHANGED <<pc, token>>
           \/ /\ pc[d] = "claim" /\ pc' = [pc EXCEPT ![d] = "run"] /\ pos[d] = r.step
              /\ token' = [token EXCEPT ![d] = entry[r.step].token + 1]
              /\ r.call = <<d, calls[d]>> /\ d = epoch
    PROVE  GrantOwned'
<1> DEFINE s == r.step
<1>1. /\ entry'[s].token = entry[s].token + 1 /\ entry'[s].status = "started"
      /\ entry'[s].call = r.call /\ entry[s].status # "started"
      /\ \A x \in StepIds \ {s} : entry'[x] = entry[x]
  BY DEF Granted, MayExecute, TypeInv, TypeOK, JournalTypeOK
<1>2. /\ \A x \in StepIds : entry[x].token \in Nat
      /\ \A e \in Sessions : token[e] \in Nat
      /\ \A x \in late : x.token \in Nat
      /\ \A x \in late : x.op \in Reports => x.step \in StepIds
      /\ \A e \in Sessions : Executing(e) \/ pc[e] = "run" => pos[e] \in StepIds
  BY EntryFields
     DEF TypeInv, TypeOK, JournalTypeOK, Requests, Placed, InStep, Reports, Executing
<1>3. \A x \in StepIds : entry[x].token <= entry'[x].token /\ entry'[x].token \in Nat
                         /\ (entry'[x] = entry[x] \/ entry[x].token < entry'[x].token)
  BY <1>1, <1>2
<1>4. ASSUME NEW e \in Sessions, Executing(e)' \/ pc'[e] = "run"
      PROVE  /\ token'[e] # 0 /\ token'[e] <= entry'[pos'[e]].token
             /\ token'[e] = entry'[pos'[e]].token => entry'[pos'[e]].call = <<e, calls'[e]>>
  <2>1. CASE e = d /\ pc'[d] = "run" /\ pos[d] = s /\ r.call = <<d, calls[d]>>
              /\ token' = [token EXCEPT ![d] = entry[s].token + 1]
    <3>1. token'[d] = entry[s].token + 1
      BY <2>1 DEF TypeInv, TypeOK
    <3>2. QED
      BY <1>1, <1>2, <2>1, <3>1
  <2>2. CASE (Executing(e) \/ pc[e] = "run") /\ token'[e] = token[e]
    <3>1. /\ pos[e] \in StepIds /\ token[e] # 0 /\ token[e] <= entry[pos[e]].token
          /\ token[e] = entry[pos[e]].token => entry[pos[e]].call = <<e, calls[e]>>
      BY <1>2, <2>2 DEF GrantOwned
    <3>2. entry'[pos[e]] = entry[pos[e]] \/ entry[pos[e]].token < entry'[pos[e]].token
      BY <1>3, <3>1
    <3>3. token[e] \in Nat /\ entry[pos[e]].token \in Nat /\ entry'[pos[e]].token \in Nat
      BY <1>2, <1>3, <3>1
    <3>4. QED
      BY <2>2, <3>1, <3>2, <3>3
  <2>3. QED
    BY <1>4, <2>1, <2>2 DEF Executing, TypeInv, TypeOK
<1>5. ASSUME NEW x \in late', x.op \in Reports
      PROVE  /\ x.token <= entry'[x.step].token
             /\ x.token = entry'[x.step].token => entry'[x.step].call = x.call
  <2>1. /\ x \in late /\ x.step \in StepIds /\ x.token <= entry[x.step].token
        /\ x.token = entry[x.step].token => entry[x.step].call = x.call
    BY <1>2, <1>5 DEF GrantOwned
  <2>2. /\ entry'[x.step] = entry[x.step] \/ entry[x.step].token < entry'[x.step].token
        /\ x.token \in Nat /\ entry[x.step].token \in Nat /\ entry'[x.step].token \in Nat
    BY <1>2, <1>3, <2>1
  <2>3. QED
    BY <2>1, <2>2
<1>6. \A e \in Sessions : pc'[e] \in {"claim", "run"} =>
          \A x \in late' : x.op \in Reports => x.call # <<e, calls'[e]>>
  BY DEF GrantOwned, TypeInv, TypeOK
<1>7. ASSUME NEW e \in Sessions, pc'[e] = "run", e = epoch'
      PROVE  entry'[pos'[e]].status = "started" /\ entry'[pos'[e]].token = token'[e]
  <2>1. CASE UNCHANGED <<pc, token>>
    <3>1. entry[pos[e]].status = "started" /\ entry[pos[e]].token = token[e]
      BY <1>7, <2>1 DEF GrantOwned
    <3>2. pos[e] \in StepIds \ {s}
      BY <1>1, <1>2, <1>7, <2>1, <3>1
    <3>3. QED
      BY <1>1, <2>1, <3>1, <3>2
  <2>2. CASE d = epoch /\ pos[d] = s /\ token' = [token EXCEPT ![d] = entry[s].token + 1]
    <3>1. e = d /\ token'[d] = entry[s].token + 1
      BY <1>7, <2>2 DEF TypeInv, TypeOK
    <3>2. QED
      BY <1>1, <2>2, <3>1
  <2>3. QED
    BY <2>1, <2>2
<1>8. \A x \in StepIds : entry'[x].status = "started" => entry'[x].token # 0
  BY <1>1, <1>2 DEF GrantOwned
<1>9. QED
  BY <1>4, <1>5, <1>6, <1>7, <1>8 DEF GrantOwned

\* An answered claim.
LEMMA OwnedClaim ==
    ASSUME TypeInv, TypeInv', GrantInv, GrantOwned, NEW d \in Sessions, ClaimReply(d)
    PROVE  GrantOwned'
<1> DEFINE r == Request(d)
<1>1. /\ pc[d] = "claim" /\ JournalClaim(r) /\ UNCHANGED <<epoch, op, calls, late>>
      /\ ran' = ran /\ cleared' = cleared
  BY DEF ClaimReply, worldVars
<1>2. r.step = pos[d] /\ r.session = d /\ r.call = <<d, calls[d]>> /\ pos[d] \in StepIds
  BY <1>1 DEF Request, TypeInv, Placed, InStep
<1>3. CASE Current(r) /\ Granted(r)
  <2>1. ClaimDecisions(r) = {"execute"}
    BY <1>3 DEF ClaimDecisions, Granted
  <2>2. /\ pc' = [pc EXCEPT ![d] = "run"] /\ pos' = pos
        /\ token' = [token EXCEPT ![d] = entry[r.step].token + 1]
    BY <1>3, <2>1 DEF ClaimReply, Permits, Go, ClaimToken, Granted
  <2>3. d = epoch
    BY <1>2, <1>3 DEF Current
  <2>4. Granted(r) /\ UNCHANGED <<pos, op, calls, epoch>> /\ late' \subseteq late
    BY <1>1, <1>3, <2>2
  <2>5. r.step \in StepIds /\ pos[d] = r.step
    BY <1>2
  <2> HIDE DEF r
  <2>6. QED
    BY <1>1, <1>2, <2>2, <2>3, <2>4, <2>5, OwnedGrant
<1>4. CASE ~(Current(r) /\ MayExecute(r.step)) /\ entry' = entry
  <2>1. Kept
    BY <1>4 DEF Kept
  <2>2. CASE Return(d, entry[pos[d]].result) /\ UNCHANGED token
    <3>1. entry[pos[d]].result \in Nat
      BY <1>2, EntryFields DEF TypeInv, TypeOK, JournalTypeOK
    <3>2. /\ pc' = [pc EXCEPT ![d] = pc'[d]] /\ pc'[d] = "driver"
          /\ pos' = [pos EXCEPT ![d] = pos'[d]]
      BY <1>2, <2>2, <3>1, ReturnTypes DEF TypeInv, TypeOK
    <3>3. QED
      BY <1>1, <1>4, <2>1, <2>2, <3>2, OwnedMove DEF TypeInv, TypeOK, Executing
  <2>3. CASE Raise(d) /\ UNCHANGED <<pos, token>>
    <3>1. pc' = [pc EXCEPT ![d] = pc'[d]] /\ pc'[d] \in {"raised", "dead"}
      BY <2>3, RaiseTypes
    <3>2. QED
      BY <1>1, <1>4, <2>1, <2>3, <3>1, OwnedMove DEF TypeInv, TypeOK, Executing
  <2>4. CASE /\ "execute" \in ClaimDecisions(r) /\ Go(d, "run") /\ UNCHANGED pos
             /\ token' = [token EXCEPT ![d] = ClaimToken(r)]
    <3>1. Regrants(r) /\ Current(r) /\ ~MayExecute(r.step)
      BY <1>4, <2>4 DEF ClaimDecisions
    <3>2. /\ entry[pos[d]].call = <<d, calls[d]>> /\ entry[pos[d]].status = "started"
          /\ entry[pos[d]].token # 0 /\ d = epoch
      BY <1>2, <3>1 DEF Regrants, Current, GrantOwned
    <3>3. /\ pc' = [pc EXCEPT ![d] = "run"] /\ token' = [token EXCEPT ![d] = entry[pos[d]].token]
          /\ pos' = pos
      BY <1>2, <2>4, <3>1 DEF Go, ClaimToken
    <3>4. pc'[d] = "run" /\ token'[d] = entry[pos[d]].token /\ entry[pos[d]].token \in Nat
      BY <1>2, <3>3, EntryFields DEF TypeInv, TypeOK, JournalTypeOK
    <3>5. \A e \in Sessions \ {d} :
              pc'[e] = pc[e] /\ token'[e] = token[e] /\ (Executing(e)' <=> Executing(e))
      BY <1>1, <3>3 DEF TypeInv, TypeOK, Executing
    <3>6. ~Executing(d)'
      BY <3>4 DEF Executing
    <3>7. \A e \in Sessions : Executing(e)' \/ pc'[e] = "run" =>
              /\ token'[e] # 0 /\ token'[e] <= entry[pos[e]].token
              /\ token'[e] = entry[pos[e]].token => entry[pos[e]].call = <<e, calls[e]>>
      <4> SUFFICES ASSUME NEW e \in Sessions, Executing(e)' \/ pc'[e] = "run"
                   PROVE  /\ token'[e] # 0 /\ token'[e] <= entry[pos[e]].token
                          /\ token'[e] = entry[pos[e]].token =>
                                 entry[pos[e]].call = <<e, calls[e]>>
        OBVIOUS
      <4>1. CASE e = d
        BY <3>2, <3>4, <4>1
      <4>2. CASE e # d
        BY <3>5, <4>2 DEF GrantOwned
      <4>3. QED
        BY <4>1, <4>2
    <3>8. \A e \in Sessions : pc'[e] \in {"claim", "run"} =>
              \A x \in late : x.op \in Reports => x.call # <<e, calls[e]>>
      BY <1>1, <3>5 DEF GrantOwned
    <3>9. \A e \in Sessions : pc'[e] = "run" /\ e = epoch =>
              entry[pos[e]].status = "started" /\ entry[pos[e]].token = token'[e]
      BY <3>2, <3>4, <3>5 DEF GrantOwned
    <3>10. QED
      BY <1>1, <1>4, <3>3, <3>7, <3>8, <3>9 DEF GrantOwned
  <2>5. QED
    BY <2>2, <2>3, <2>4 DEF ClaimReply, Permits
<1>5. QED
  BY <1>1, <1>3, <1>4, ClaimEffect

\* No entry gets a token or an owner.
NoGrant ==
    \A s \in StepIds :
        /\ entry'[s].token = entry[s].token /\ entry'[s].call = entry[s].call
        /\ entry'[s].status = "started" => entry[s].status = "started"

\* A step that leaves the drivers alone and the started entries started.
LEMMA OwnedStill ==
    ASSUME TypeInv, GrantOwned, NoGrant, UNCHANGED <<pc, op, pos, token, calls, epoch>>,
           late' \subseteq late,
           \A e \in Sessions : pc[e] = "run" /\ e = epoch =>
               entry'[pos[e]].status = entry[pos[e]].status
    PROVE  GrantOwned'
<1>1. /\ \A e \in Sessions : Executing(e)' <=> Executing(e)
      /\ \A e \in Sessions : Executing(e) \/ pc[e] = "run" => pos[e] \in StepIds
      /\ \A x \in late : x.op \in Reports => x.step \in StepIds
  BY DEF Executing, TypeInv, Placed, InStep, Reports
<1>2. \A e \in Sessions : Executing(e)' \/ pc'[e] = "run" =>
          /\ token'[e] # 0 /\ token'[e] <= entry'[pos'[e]].token
          /\ token'[e] = entry'[pos'[e]].token => entry'[pos'[e]].call = <<e, calls'[e]>>
  BY <1>1 DEF NoGrant, GrantOwned
<1>3. \A x \in late' : x.op \in Reports =>
          /\ x.token <= entry'[x.step].token
          /\ x.token = entry'[x.step].token => entry'[x.step].call = x.call
  BY <1>1 DEF NoGrant, GrantOwned
<1>4. \A e \in Sessions : pc'[e] = "run" /\ e = epoch' =>
          entry'[pos'[e]].status = "started" /\ entry'[pos'[e]].token = token'[e]
  BY <1>1 DEF NoGrant, GrantOwned
<1>5. \A s \in StepIds : entry'[s].status = "started" => entry'[s].token # 0
  BY DEF NoGrant, GrantOwned
<1>6. \A e \in Sessions : pc'[e] \in {"claim", "run"} =>
          \A x \in late' : x.op \in Reports => x.call # <<e, calls'[e]>>
  BY DEF GrantOwned
<1>7. QED
  BY <1>2, <1>3, <1>4, <1>5, <1>6 DEF GrantOwned

\* A late request, which reports on nothing that is about to run.
LEMMA OwnedLate ==
    ASSUME TypeInv, GrantInv, GrantOwned, NEW r \in late, LateDelivery(r)
    PROVE  GrantOwned'
<1>1. /\ r \in Requests /\ r.session \in Sessions
      /\ r.op # "finish" => r.step \in StepIds
      /\ UNCHANGED <<pc, op, pos, token, calls, epoch>> /\ late' \subseteq late
      /\ JournalTypeOK
  BY DEF TypeInv, TypeOK, Placed, Requests, LateDelivery, JournalLate, driverVars
<1>2. CASE UNCHANGED entry
  <2>1. Kept
    BY <1>2 DEF Kept
  <2>2. QED
    BY <1>1, <1>2, <2>1, OwnedStill DEF Kept, NoGrant
<1>3. CASE r.op = "claim" /\ Granted(r)
  BY <1>1, <1>3, OwnedGrant
<1>4. CASE r.op \in Reports /\ Holds(r) /\ Kept /\ \A x \in StepIds \ {r.step} : entry'[x] = entry[x]
  <2>1. ASSUME NEW e \in Sessions, pc[e] = "run", e = epoch
        PROVE  pos[e] \in StepIds \ {r.step}
    <3>1. pos[e] \in StepIds
      BY <2>1 DEF TypeInv, Placed, InStep
    <3>2. ASSUME pos[e] = r.step PROVE FALSE
      <4>1. r.token = entry[r.step].token
        BY <1>4 DEF Holds
      <4>2. r.call = entry[r.step].call
        BY <1>4, <4>1 DEF GrantOwned
      <4>3. entry[pos[e]].call = <<e, calls[e]>>
        BY <2>1 DEF GrantOwned
      <4>4. QED
        BY <1>4, <2>1, <3>2, <4>2, <4>3 DEF GrantOwned
    <3>3. QED
      BY <3>1, <3>2
  <2>2. QED
    BY <1>1, <1>4, <2>1, OwnedStill DEF Kept, NoGrant
<1>5. CASE r.op = "claim" /\ JournalClaim(r)
  BY <1>2, <1>3, <1>5, ClaimEffect
<1>6. CASE r.op = "unknown" /\ JournalUnknown(r)
  <2>1. Kept
    BY <1>1, <1>6, KeptByUnknown
  <2>2. \A x \in StepIds \ {r.step} : entry'[x] = entry[x]
    BY <1>6 DEF JournalUnknown
  <2>3. QED
    BY <1>2, <1>4, <1>6, <2>1, <2>2 DEF JournalUnknown, UnknownAcked, Reports
<1>7. CASE r.op = "complete" /\ JournalComplete(r)
  <2>1. Kept
    BY <1>1, <1>7, KeptByComplete
  <2>2. \A x \in StepIds \ {r.step} : entry'[x] = entry[x]
    BY <1>1, <1>7 DEF JournalComplete, JournalTypeOK
  <2>3. QED
    BY <1>2, <1>4, <1>7, <2>1, <2>2 DEF JournalComplete, Commits, Reports
<1>8. QED
  BY <1>2, <1>5, <1>6, <1>7 DEF LateDelivery, JournalLate

\* An operator decides about what is unknown, not about what is started.
LEMMA OwnedResolve ==
    ASSUME TypeInv, GrantOwned, NEW s \in StepIds, Resolve(s)
    PROVE  GrantOwned'
<1>1. PICK decision \in Decisions : JournalResolve(s, decision)
  BY DEF Resolve
<1>2. UNCHANGED <<pc, op, pos, token, calls, epoch>> /\ late' = late
  BY <1>1, ResolveEffect DEF Resolve, driverVars, TypeInv, TypeOK
<1>3. entry[s].status = "unknown" /\ \A x \in StepIds \ {s} : entry'[x] = entry[x]
  BY <1>1, ResolveEffect DEF TypeInv, TypeOK
<1>4. NoGrant
  <2>1. /\ entry'[s].token = entry[s].token /\ entry'[s].call = entry[s].call
        /\ entry'[s].status # "started"
    BY <1>1, <1>3, ResolveEffect DEF TypeInv, TypeOK
  <2>2. QED
    BY <1>3, <2>1 DEF NoGrant
<1>5. \A e \in Sessions : pc[e] = "run" /\ e = epoch =>
          entry'[pos[e]].status = entry[pos[e]].status
  <2> SUFFICES ASSUME NEW e \in Sessions, pc[e] = "run", e = epoch
               PROVE  entry'[pos[e]].status = entry[pos[e]].status
    OBVIOUS
  <2>1. pos[e] \in StepIds /\ entry[pos[e]].status = "started"
    BY DEF TypeInv, Placed, InStep, GrantOwned
  <2>2. QED
    BY <1>3, <2>1
<1>6. QED
  BY <1>2, <1>4, <1>5, OwnedStill

\* Nothing is started, and no request is under way, before the first session.
LEMMA OwnedInit == Init => GrantOwned
BY DEF Init, JournalInit, GrantOwned, Executing

\* GrantOwned is inductive, given the types and GrantInv.
LEMMA OwnedNext == TypeInv /\ GrantInv /\ GrantOwned /\ [Next]_vars => GrantOwned'
<1> SUFFICES ASSUME TypeInv, GrantInv, GrantOwned, [Next]_vars PROVE GrantOwned'
  OBVIOUS
<1>1. TypeInv'
  BY TypeStep
<1>2. CASE UNCHANGED vars
  <2>1. NoGrant
    BY <1>2 DEF vars, journalVars, NoGrant
  <2>2. QED
    BY <1>2, <2>1, OwnedStill DEF NoGrant, vars, journalVars, driverVars, worldVars
<1>3. ASSUME NEW d \in Sessions, Open(d) \/ Capture(d) \/ DriverStep(d) \/ Failure(d)
      PROVE  GrantOwned'
  <2>1. CASE ClaimReply(d)
    BY <1>1, <2>1, OwnedClaim
  <2>2. CASE QuietStepOf(d) \/ Execute(d)
    BY <1>1, <2>2, OwnedDriver
  <2>3. QED
    BY <1>3, <2>1, <2>2 DEF DriverStep, QuietStepOf
<1>4. QED
  BY <1>2, <1>3, OwnedLate, OwnedResolve DEF Next

-----------------------------------------------------------------------------
(* What a step of one driver leaves alone.                                 *)

\* A driver changes its own control and folder; one that is not opened, or
\* not the newest of an active run, changes nothing in the journal.
LEMMA DriverFrame ==
    ASSUME TypeInv, NEW d \in Sessions, Capture(d) \/ DriverStep(d) \/ Failure(d)
    PROVE  /\ epoch' = epoch
           /\ \A e \in Sessions \ {d} :
                 /\ pc'[e] = pc[e] /\ op'[e] = op[e] /\ pos'[e] = pos[e] /\ token'[e] = token[e]
                 /\ failed'[e] = failed[e] /\ folder'[e] = folder[e]
                 /\ checkpoint'[e] = checkpoint[e]
           /\ pc[d] = "off" => pc'[d] = "off" /\ (checkpoint' = checkpoint \/ d = epoch)
           /\ d # epoch \/ run # "active" =>
                 entry' = entry /\ image' = image /\ checkpoint' = checkpoint /\ run' = run
<1> USE DEF TypeInv, RpcStates, Stopped
<1>1. CASE Capture(d)
  BY <1>1 DEF TypeOK, JournalTypeOK, Capture, JournalCapture, JournalCaptureFails, driverVars
<1>2. CASE Finish(d)
  BY <1>2 DEF TypeOK, Finish, Go, journalVars
<1>3. CASE FinishReply(d)
  BY <1>3 DEF TypeOK, FinishReply, JournalFinish, Current, Request, Go
<1>4. CASE CallStep(d)
  BY <1>4 DEF TypeOK, CallStep, Go, journalVars
<1>5. CASE ClaimReply(d)
  <2>1. d # epoch \/ run # "active" => entry' = entry
    BY <1>5 DEF ClaimReply, JournalClaim, Current, Request
  <2>2. pc[d] # "off" /\ UNCHANGED <<epoch, run, checkpoint, image, op, folder>>
    BY <1>5 DEF ClaimReply
  <2>3. CASE Go(d, "run") /\ token' = [token EXCEPT ![d] = ClaimToken(Request(d))]
             /\ UNCHANGED <<pos, failed>>
    BY <2>1, <2>2, <2>3 DEF TypeOK, Go
  <2>4. CASE Return(d, entry[pos[d]].result) /\ UNCHANGED token
    BY <2>1, <2>2, <2>4 DEF TypeOK, Return, Go
  <2>5. CASE Raise(d) /\ UNCHANGED <<pos, token>>
    BY <2>1, <2>2, <2>5 DEF TypeOK, Raise, Go
  <2>6. QED
    BY <1>5, <2>3, <2>4, <2>5 DEF ClaimReply
<1>6. CASE Execute(d)
  BY <1>6 DEF TypeOK, Execute, Go, journalVars
<1>7. CASE BodyReturns(d)
  BY <1>7 DEF TypeOK, BodyReturns, Healthy, Raise, Go, journalVars
<1>8. CASE UnknownReply(d)
  BY <1>8 DEF TypeOK, UnknownReply, JournalUnknown, UnknownAcked, Holds, Current, Request, Raise, Go
<1>9. CASE CompleteReply(d)
  <2>1. d # epoch \/ run # "active" => entry' = entry /\ image' = image
    BY <1>9 DEF CompleteReply, JournalComplete, Commits, Holds, Current, Request
  <2>2. QED
    BY <1>9, <2>1 DEF TypeOK, CompleteReply, Return, Raise, Go
<1>10. CASE EntrypointPropagates(d) \/ EntrypointCatches(d)
  BY <1>10 DEF TypeOK, EntrypointPropagates, EntrypointCatches, Go, journalVars
<1>11. CASE BeginReply(d)
  BY <1>11 DEF TypeOK, JournalTypeOK, BeginReply, JournalBegin, Current, Request, Raise, Go
<1>12. CASE PollReply(d)
  BY <1>12 DEF TypeOK, PollReply, Raise, Go, journalVars
<1>13. CASE BodyRaises(d) \/ BodyLosesAuthority(d)
  BY <1>13 DEF TypeOK, BodyRaises, BodyLosesAuthority, Go, journalVars
<1>14. CASE PollDeadline(d) \/ Crash(d)
  BY <1>14 DEF TypeOK, PollDeadline, Crash, Raise, Go, journalVars
<1>15. CASE TransportError(d)
  BY <1>15 DEF TypeOK, TransportError, Raise, Go, journalVars
<1>16. CASE RenewalFails(d)
  BY <1>16 DEF TypeOK, RenewalFails, journalVars
<1>17. QED
  BY <1>1, <1>2, <1>3, <1>4, <1>5, <1>6, <1>7, <1>8, <1>9, <1>10, <1>11, <1>12, <1>13, <1>14, <1>15, <1>16 DEF DriverStep, Failure

\* What is not a step of a driver changes only the journal's entries, the
\* image and whether the run is over.
LEMMA OthersFrame ==
    ASSUME \/ UNCHANGED vars
           \/ \E r \in late : LateDelivery(r)
           \/ \E s \in StepIds : Resolve(s)
    PROVE  UNCHANGED <<epoch, checkpoint, pc, op, pos, token, failed, folder, got>>
BY DEF vars, journalVars, driverVars, LateDelivery, JournalLate, Resolve, JournalResolve

-----------------------------------------------------------------------------
(* Sessions not opened, and runs that do not recover.                      *)

\* Sessions open in order.
LEMMA UnopenedNext == TypeInv /\ Unopened /\ [Next]_vars => Unopened'
<1> SUFFICES ASSUME TypeInv, Unopened, [Next]_vars PROVE Unopened'
  OBVIOUS
<1>1. epoch \in Nat
  BY DEF TypeInv, TypeOK, JournalTypeOK
<1>2. ASSUME NEW d \in Sessions, Open(d) PROVE Unopened'
  <2>1. /\ d = epoch + 1 /\ epoch' = d /\ checkpoint' = checkpoint
        /\ \A e \in Sessions \ {d} : pc'[e] = pc[e]
    BY <1>2 DEF Open, JournalOpen, Go, TypeInv, TypeOK
  <2>2. QED
    BY <1>1, <2>1 DEF Unopened, Sessions
<1>3. ASSUME NEW d \in Sessions, Capture(d) \/ DriverStep(d) \/ Failure(d) PROVE Unopened'
  <2> SUFFICES ASSUME NEW e \in Sessions, e > epoch'
               PROVE  pc'[e] = "off" /\ checkpoint'[e].status = "none"
    BY DEF Unopened
  <2>1. epoch' = epoch
    BY <1>3, DriverFrame
  <2>2. pc[e] = "off" /\ checkpoint[e].status = "none" /\ e # epoch
    BY <1>1, <2>1 DEF Unopened, Sessions
  <2>3. QED
    BY <1>3, <2>2, DriverFrame
<1>4. CASE UNCHANGED vars \/ (\E r \in late : LateDelivery(r)) \/ (\E s \in StepIds : Resolve(s))
  BY <1>4, OthersFrame DEF Unopened
<1>5. QED
  BY <1>2, <1>3, <1>4 DEF Next

\* Without checkpoint-v1 no driver begins a checkpoint.
LEMMA NoSavesNext == TypeInv /\ NoSaves /\ [Next]_vars => NoSaves'
<1> SUFFICES ASSUME TypeInv, NoSaves, [Next]_vars, ~Recovery PROVE NoSaves'
  BY DEF NoSaves
<1> DEFINE None(e) == pc[e] \notin {"begin", "poll"} /\ checkpoint[e].status = "none"
<1>1. \A e \in Sessions : None(e)
  BY DEF NoSaves
<1>2. ASSUME NEW d \in Sessions, Open(d) PROVE NoSaves'
  <2>1. checkpoint' = checkpoint /\ pc' = [pc EXCEPT ![d] = "driver"]
    BY <1>2 DEF Open, JournalOpen, Go
  <2>2. QED
    BY <1>1, <2>1 DEF NoSaves, TypeInv, TypeOK
<1>3. ASSUME NEW d \in Sessions, Capture(d) \/ DriverStep(d) \/ Failure(d) PROVE NoSaves'
  <2>1. ~Capture(d) /\ ~BeginReply(d) /\ ~PollReply(d)
    BY <1>1 DEF Capture, BeginReply, PollReply
  <2>2. checkpoint' = checkpoint
    BY <1>3, <2>1
       DEF DriverStep, Failure, Finish, FinishReply, CallStep, ClaimReply, Execute, BodyReturns,
           UnknownReply, CompleteReply, EntrypointPropagates, EntrypointCatches, BodyRaises,
           BodyLosesAuthority, PollDeadline, TransportError, RenewalFails, Crash, journalVars
  <2>3. pc'[d] \notin {"begin", "poll"}
    <3>1. Raise(d) => pc'[d] \in {"raised", "dead"}
      BY RaiseTypes
    <3>2. CASE DriverStep(d)
      BY <1>1, <2>1, <3>1, <3>2
         DEF DriverStep, Finish, FinishReply, CallStep, ClaimReply, Execute, BodyReturns, Healthy,
             UnknownReply, CompleteReply, EntrypointPropagates, EntrypointCatches, Return, Go,
             TypeInv, TypeOK
    <3>3. CASE Failure(d)
      BY <1>1, <3>1, <3>3
         DEF Failure, BodyRaises, BodyLosesAuthority, PollDeadline, TransportError, RenewalFails,
             Crash, Go, TypeInv, TypeOK
    <3>4. QED
      BY <1>3, <2>1, <3>2, <3>3
  <2>4. QED
    BY <1>1, <1>3, <2>2, <2>3, DriverFrame DEF NoSaves
<1>4. CASE UNCHANGED vars \/ (\E r \in late : LateDelivery(r)) \/ (\E s \in StepIds : Resolve(s))
  BY <1>1, <1>4, OthersFrame DEF NoSaves
<1>5. QED
  BY <1>2, <1>3, <1>4 DEF Next

\* No session is open before the first.
LEMMA UnopenedInit == Init => Unopened
BY DEF Init, JournalInit, Unopened

\* The newest session never enters the function of a step that is recorded,
\* whatever late reports, claims and operators' decisions come in between.
THEOREM CompletedReplayed == Spec => CompletedNotRerun
<1> DEFINE Replayed ==
        \A s \in StepIds :
            ran'[s] # ran[s] /\ entry[s].status = "completed"
                => \E d \in Sessions : d < epoch /\ pc[d] = "run" /\ pc'[d] = "body" /\ pos[d] = s
<1>1. TypeInv /\ Unopened /\ GrantOwned /\ [Next]_vars => [Replayed]_vars
  <2> SUFFICES ASSUME TypeInv, Unopened, GrantOwned, Next, NEW s \in StepIds, ran'[s] # ran[s],
                      entry[s].status = "completed"
               PROVE  \E d \in Sessions :
                          d < epoch /\ pc[d] = "run" /\ pc'[d] = "body" /\ pos[d] = s
    OBVIOUS
  <2>1. PICK d \in Sessions : Execute(d)
    BY DEF Next, Open, Capture, DriverStep, Failure, Finish, FinishReply, CallStep, ClaimReply,
           BodyReturns, UnknownReply, CompleteReply, EntrypointPropagates, EntrypointCatches,
           BeginReply, PollReply, BodyRaises, BodyLosesAuthority, PollDeadline, TransportError,
           RenewalFails, Crash, LateDelivery, Resolve, worldVars
  <2>2. pc[d] = "run" /\ pc'[d] = "body" /\ pos[d] = s
    BY <2>1 DEF Execute, Go, TypeInv, TypeOK
  <2>3. d <= epoch
    BY <2>2 DEF Unopened, TypeInv, TypeOK, JournalTypeOK, Sessions
  <2>4. d # epoch
    BY <2>2 DEF GrantOwned
  <2>5. QED
    BY <2>2, <2>3, <2>4 DEF TypeInv, TypeOK, JournalTypeOK, Sessions
<1>2. QED
  BY <1>1, TypeInit, TypeStep, GrantInit, GrantNext, OwnedInit, OwnedNext, UnopenedInit,
     UnopenedNext, PTL
     DEF Spec, CompletedNotRerun

-----------------------------------------------------------------------------
(* ImageMatchesJournal: what each step does to the recorded writes.        *)

\* No execution's result is recorded in this step.
NoResult ==
    \A s \in StepIds :
        \/ entry'[s] = entry[s]
        \/ entry[s].status # "completed"
           /\ (entry'[s].status = "completed" => entry'[s].result = 0)

\* No entry becomes completed.
NoCompletion ==
    \A s \in StepIds :
        \/ entry'[s] = entry[s]
        \/ entry[s].status # "completed" /\ entry'[s].status # "completed"

\* Entries that are not completed, or are completed by an operator, write
\* nothing.
LEMMA WritesKept ==
    ASSUME NoResult
    PROVE  RecordedWrites' = RecordedWrites
<1>1. \A s \in StepIds :
          (entry[s].status = "completed" /\ entry[s].result # 0)
              <=> (entry'[s].status = "completed" /\ entry'[s].result # 0)
  BY DEF NoResult
<1>2. \A s \in StepIds : entry[s].status = "completed" /\ entry[s].result # 0 =>
          entry'[s].result = entry[s].result
  BY DEF NoResult
<1>3. QED
  BY <1>1, <1>2 DEF RecordedWrites

\* A claim completes nothing.
LEMMA ClaimNoResult ==
    ASSUME TypeInv, NEW r, r.step \in StepIds, JournalClaim(r)
    PROVE  NoResult /\ NoCompletion
<1>1. CASE Granted(r)
  <2>1. /\ entry[r.step].status # "completed" /\ entry'[r.step].status = "started"
        /\ \A s \in StepIds \ {r.step} : entry'[s] = entry[s]
    BY <1>1 DEF Granted, MayExecute, TypeInv, TypeOK, JournalTypeOK
  <2>2. QED
    BY <2>1 DEF NoResult, NoCompletion
<1>2. CASE entry' = entry
  BY <1>2 DEF NoResult, NoCompletion
<1>3. QED
  BY <1>1, <1>2, ClaimEffect

\* Nor does a report that the outcome is unknown.
LEMMA UnknownNoResult ==
    ASSUME TypeInv, NEW r, r.step \in StepIds, JournalUnknown(r)
    PROVE  NoResult /\ NoCompletion
BY DEF NoResult, NoCompletion, JournalUnknown, UnknownAcked, Mark, TypeInv, TypeOK, JournalTypeOK

\* What the newest session's checkpoint is worth to a completion that names
\* it: exactly the write of the completed execution.
LEMMA CommitEffect ==
    ASSUME TypeInv, GrantOwned, ImageMatchesJournal, SessionKept, Recovery,
           NEW r, r.step \in StepIds, r.session \in Sessions, r.token \in Nat,
           Commits(r), JournalComplete(r)
    PROVE  /\ r.session = epoch /\ r.token # 0
           /\ checkpoint[epoch].status = "ready" /\ checkpoint[epoch].op = "step"
           /\ Named(epoch) = <<r.step, r.token>>
           /\ image' = image \cup {Named(epoch)}
           /\ image' = RecordedWrites'
<1>1. /\ r.session = epoch /\ entry[r.step].token = r.token /\ entry[r.step].status = "started"
      /\ checkpoint[epoch].status = "ready" /\ checkpoint[epoch].op = "step"
      /\ checkpoint[epoch].step = r.step /\ checkpoint[epoch].token = r.token
  BY DEF Commits, Holds, Current, Verified
<1>2. r.token # 0
  BY <1>1 DEF GrantOwned
<1>3. epoch # 0 /\ run = "active"
  BY <1>1 DEF Sessions, Commits, Holds, Current
<1>4. Named(epoch) = <<r.step, r.token>> /\ checkpoint[epoch].files = image \cup {Named(epoch)}
  BY <1>1, <1>3 DEF Named, SessionKept, CheckpointKept
<1>5. image' = image \cup {Named(epoch)}
  BY <1>1, <1>4 DEF JournalComplete
<1>6. /\ entry'[r.step].status = "completed" /\ entry'[r.step].result = r.token
      /\ \A s \in StepIds \ {r.step} : entry'[s] = entry[s]
  BY DEF JournalComplete, TypeInv, TypeOK, JournalTypeOK
<1>7. RecordedWrites' = RecordedWrites \cup {<<r.step, r.token>>}
  BY <1>1, <1>2, <1>6 DEF RecordedWrites
<1>8. image = RecordedWrites
  BY DEF ImageMatchesJournal, RecordedWrites
<1>9. QED
  BY <1>1, <1>2, <1>4, <1>5, <1>7, <1>8

\* A finish names a checkpoint that adds nothing.
LEMMA FinishEffect ==
    ASSUME SessionKept, NEW r, r.session \in Sessions, JournalFinish(r)
    PROVE  image' = image
<1>1. CASE Recovery /\ Current(r) /\ Verified(r, "finish")
  <2>1. /\ r.session = epoch /\ epoch # 0 /\ run = "active"
        /\ checkpoint[epoch].status = "ready" /\ checkpoint[epoch].op = "finish"
    BY <1>1 DEF Current, Verified, Sessions
  <2>2. checkpoint[epoch].files = image
    BY <1>1, <2>1 DEF SessionKept, CheckpointKept
  <2>3. QED
    BY <1>1, <2>1, <2>2 DEF JournalFinish
<1>2. CASE ~(Recovery /\ Current(r) /\ Verified(r, "finish"))
  BY <1>2 DEF JournalFinish
<1>3. QED
  BY <1>1, <1>2

-----------------------------------------------------------------------------
(* SessionKept: the newest session's folder and checkpoint.                *)

\* The newest session moves on without writing, naming or committing.
SaveQuiet(d) ==
    /\ image' = image /\ folder'[d] = folder[d] /\ checkpoint'[d] = checkpoint[d]
    /\ Unwritten(d)' => Unwritten(d)
    /\ Executing(d)' => Executing(d) /\ Own(d)' = Own(d)
    /\ pc'[d] = "poll" => pc[d] = "poll" /\ op'[d] = op[d] /\ Own(d)' = Own(d)
    /\ Halted(d) => Halted(d)'
    /\ pc[d] = "poll" =>
          \/ Halted(d)' \/ pc'[d] = "poll"
          \/ checkpoint[d].status # "pending"
             /\ (op[d] = "step" => pc'[d] = "complete" /\ op'[d] = "step" /\ Own(d)' = Own(d))
    /\ pc[d] = "complete" =>
          Halted(d)' \/ (pc'[d] = "complete" /\ op'[d] = op[d] /\ Own(d)' = Own(d))

\* Such a move keeps what is known of its folder and checkpoint.
LEMMA SaveQuietStep ==
    ASSUME NEW d \in Sessions, FolderKept(d), CheckpointKept(d), SaveQuiet(d)
    PROVE  FolderKept(d)' /\ CheckpointKept(d)'
<1>1. FolderKept(d)'
  BY DEF FolderKept, SaveQuiet
<1>2. Named(d)' = Named(d)
  BY DEF Named, SaveQuiet
<1>3. pc'[d] = "poll" => checkpoint'[d].op = op'[d] /\ Named(d)' = Own(d)'
  BY <1>2 DEF CheckpointKept, SaveQuiet
<1>4. checkpoint'[d].status = "pending" =>
          /\ Halted(d)' \/ pc'[d] = "poll"
          /\ folder'[d] = IF checkpoint'[d].op = "step" THEN image' \cup {Named(d)'} ELSE image'
  BY <1>2 DEF CheckpointKept, SaveQuiet
<1>5. checkpoint'[d].status = "ready" /\ checkpoint'[d].op = "step" =>
          /\ checkpoint'[d].files = image' \cup {Named(d)'}
          /\ \/ Halted(d)' \/ Named(d)' \in image'
             \/ pc'[d] \in {"poll", "complete"} /\ op'[d] = "step" /\ Named(d)' = Own(d)'
  BY <1>2 DEF CheckpointKept, SaveQuiet
<1>6. checkpoint'[d].status = "ready" /\ checkpoint'[d].op # "step" =>
          checkpoint'[d].files = image'
  BY DEF CheckpointKept, SaveQuiet
<1>7. QED
  BY <1>1, <1>3, <1>4, <1>5, <1>6 DEF CheckpointKept

\* An error from a claim leaves the folder as it was; any other ends the
\* session's work, for good.
LEMMA RaiseQuiet ==
    ASSUME TypeInv, NEW d \in Sessions, Recovery, Raise(d),
           pc[d] \in {"claim", "begin", "poll", "unknown", "complete", "finish"} \/ failed[d],
           UNCHANGED <<image, folder, checkpoint>>
    PROVE  SaveQuiet(d)
<1>1. pc'[d] = IF op[d] = "step" THEN "raised" ELSE "dead"
  BY RaiseTypes
<1>2. failed'[d] = (failed[d] \/ Poisons(d))
  BY DEF Raise, TypeInv, TypeOK
<1>3. pc[d] \in {"begin", "poll", "unknown"} => Poisons(d)
  BY DEF Poisons, Executed
<1>4. pc[d] = "complete" => Poisons(d)
  BY DEF Poisons, Executed, TypeInv, Placed, InStep
<1>5. pc[d] \in {"claim", "finish"} => (op[d] = "step" <=> pc[d] = "claim")
  BY DEF TypeInv, Placed, InStep
<1>6. Halted(d)' \/ pc[d] = "claim"
  BY <1>1, <1>2, <1>3, <1>4, <1>5 DEF Halted
<1>7. pc'[d] \in {"raised", "dead"}
  BY <1>1
<1>8. Unwritten(d)' => Unwritten(d)
  BY <1>6, <1>7 DEF Unwritten, Halted
<1>9. ~Executing(d)' /\ pc'[d] # "poll"
  BY <1>7 DEF Executing
<1>10. Halted(d) => Halted(d)'
  BY <1>6 DEF Halted
<1>11. QED
  BY <1>6, <1>8, <1>9, <1>10 DEF SaveQuiet

\* The steps of a driver that neither begin a checkpoint, enter a function
\* nor complete a step.
LEMMA SaveQuietMoves ==
    ASSUME TypeInv, NEW d \in Sessions, Recovery,
           \/ Finish(d) \/ CallStep(d) \/ ClaimReply(d) \/ BodyReturns(d) \/ UnknownReply(d)
           \/ EntrypointPropagates(d) \/ EntrypointCatches(d) \/ PollReply(d) \/ Failure(d)
           \/ FinishReply(d) /\ image' = image
    PROVE  SaveQuiet(d)
<1> USE DEF TypeInv, Unwritten, Executing, Halted, Own, SaveQuiet
<1>1. CASE Finish(d)
  BY <1>1 DEF TypeOK, Finish, Go, journalVars
<1>2. CASE CallStep(d)
  BY <1>2 DEF TypeOK, CallStep, Go, journalVars
<1>3. CASE ClaimReply(d)
  <2>1. UNCHANGED <<image, folder, checkpoint, op>> /\ pc[d] = "claim"
    BY <1>3 DEF ClaimReply
  <2>2. CASE Go(d, "run") /\ failed' = failed
    BY <2>1, <2>2 DEF TypeOK, Go
  <2>3. CASE Return(d, entry[pos[d]].result)
    BY <2>1, <2>3 DEF TypeOK, Return, Go
  <2>4. CASE Raise(d)
    BY <2>1, <2>4, RaiseQuiet
  <2>5. QED
    BY <1>3, <2>2, <2>3, <2>4 DEF ClaimReply
<1>4. CASE BodyReturns(d)
  <2>1. pc[d] = "body" /\ op[d] = "step" /\ UNCHANGED <<image, folder, checkpoint, op, pos, token>>
    BY <1>4 DEF BodyReturns, journalVars, Placed, InStep
  <2>2. CASE failed[d] /\ Raise(d)
    BY <2>1, <2>2, RaiseQuiet
  <2>3. CASE Go(d, "begin")
    BY <2>1, <2>3 DEF TypeOK, Go
  <2>4. QED
    BY <1>4, <2>2, <2>3 DEF BodyReturns, Healthy
<1>5. CASE UnknownReply(d)
  <2>1. UNCHANGED <<image, folder, checkpoint>> /\ pc[d] = "unknown" /\ Raise(d)
    BY <1>5 DEF UnknownReply, MayRetry
  <2>2. QED
    BY <2>1, RaiseQuiet
<1>6. CASE EntrypointPropagates(d)
  BY <1>6 DEF TypeOK, EntrypointPropagates, Go, journalVars
<1>7. CASE EntrypointCatches(d)
  BY <1>7 DEF TypeOK, EntrypointCatches, Go, journalVars
<1>8. CASE PollReply(d)
  <2>1. pc[d] = "poll" /\ UNCHANGED <<image, folder, checkpoint, op, pos, token>>
    BY <1>8 DEF PollReply, journalVars
  <2>2. CASE Raise(d)
    BY <2>1, <2>2, RaiseQuiet
  <2>3. CASE Go(d, "poll") /\ failed' = failed
    BY <2>1, <2>3 DEF TypeOK, Go
  <2>4. CASE Go(d, AfterCheckpoint(d)) /\ checkpoint[d].status # "pending"
    <3>1. pc'[d] = IF op[d] = "baseline" THEN "driver"
                   ELSE IF op[d] = "step" THEN "complete" ELSE "finish"
      BY <2>4 DEF Go, AfterCheckpoint, TypeOK
    <3>2. QED
      BY <2>1, <2>4, <3>1
  <2>5. QED
    BY <1>8, <2>2, <2>3, <2>4 DEF PollReply
<1>9. CASE BodyRaises(d) \/ BodyLosesAuthority(d)
  BY <1>9 DEF TypeOK, BodyRaises, BodyLosesAuthority, Go, journalVars
<1>10. CASE PollDeadline(d)
  BY <1>10, RaiseQuiet DEF PollDeadline, journalVars
<1>11. CASE TransportError(d)
  <2>1. UNCHANGED <<image, folder, checkpoint, op, pos, token>> /\ pc[d] \in RpcStates
    BY <1>11 DEF TransportError, journalVars
  <2>2. CASE UNCHANGED <<pc, failed>>
    BY <2>1, <2>2
  <2>3. CASE Raise(d)
    BY <2>1, <2>3, RaiseQuiet DEF RpcStates
  <2>4. QED
    BY <1>11, <2>2, <2>3 DEF TransportError
<1>12. CASE RenewalFails(d)
  BY <1>12 DEF TypeOK, RenewalFails, journalVars
<1>13. CASE Crash(d)
  BY <1>13 DEF TypeOK, Crash, Go, journalVars
<1>14. CASE FinishReply(d) /\ image' = image
  BY <1>14 DEF TypeOK, FinishReply, Go
<1>15. QED
  BY <1>1, <1>2, <1>3, <1>4, <1>5, <1>6, <1>7, <1>8, <1>9, <1>10, <1>11, <1>12, <1>13, <1>14 DEF Failure

\* A late completion commits the write that the checkpoint is for, which
\* the folder holds already or for good.
LEMMA SaveCommitted ==
    ASSUME NEW d \in Sessions, FolderKept(d), CheckpointKept(d),
           UNCHANGED <<checkpoint, pc, op, pos, token, failed, folder>>,
           checkpoint[d].status = "ready", checkpoint[d].op = "step",
           image' = image \cup {Named(d)}
    PROVE  FolderKept(d)' /\ CheckpointKept(d)'
<1>1. /\ checkpoint[d].files = image \cup {Named(d)}
      /\ \/ Halted(d) \/ Named(d) \in image
         \/ pc[d] \in {"poll", "complete"} /\ op[d] = "step" /\ Named(d) = Own(d)
  BY DEF CheckpointKept
<1>2. /\ Named(d)' = Named(d) /\ Own(d)' = Own(d) /\ (Halted(d)' <=> Halted(d))
      /\ (Unwritten(d)' <=> Unwritten(d)) /\ (Executing(d)' <=> Executing(d))
  BY DEF Named, Own, Halted, Unwritten, Executing
<1>3. ~(Halted(d) /\ Unwritten(d)) /\ ~(Halted(d) /\ Executing(d))
  BY DEF Halted, Unwritten, Executing
<1>4. Unwritten(d) => Named(d) \in image
  BY <1>1, <1>3 DEF Unwritten
<1>5. Executing(d) => Named(d) \in image \/ Named(d) = Own(d)
  BY <1>1, <1>3
<1>6. FolderKept(d)'
  BY <1>2, <1>4, <1>5 DEF FolderKept
<1>7. CheckpointKept(d)'
  BY <1>1, <1>2 DEF CheckpointKept
<1>8. QED
  BY <1>6, <1>7

\* The newest session by its number.
LEMMA SessionOf ==
    ASSUME NEW d \in Sessions
    PROVE  /\ SessionKept /\ Recovery /\ run = "active" /\ epoch = d =>
                 FolderKept(d) /\ CheckpointKept(d)
           /\ epoch' = d /\ FolderKept(d)' /\ CheckpointKept(d)' => SessionKept'
<1>1. SessionKept /\ Recovery /\ run = "active" /\ epoch = d =>
          FolderKept(d) /\ CheckpointKept(d)
  BY DEF SessionKept, Sessions
<1>2. ASSUME epoch' = d, FolderKept(d)', CheckpointKept(d)' PROVE SessionKept'
  BY <1>2 DEF SessionKept, FolderKept, CheckpointKept, Unwritten, Executing, Own, Named, Halted
<1>3. QED
  BY <1>1, <1>2

\* A new session starts from the committed version.
LEMMA SaveOpen ==
    ASSUME TypeInv, Unopened, Recovery, NEW d \in Sessions, Open(d)
    PROVE  SessionKept' /\ image' = image /\ RecordedWrites' = RecordedWrites
<1>1. d > epoch
  BY DEF Open, TypeInv, TypeOK, JournalTypeOK
<1>2. /\ epoch' = d /\ image' = image /\ checkpoint' = checkpoint
      /\ checkpoint[d].status = "none"
  BY <1>1 DEF Open, JournalOpen, Unopened
<1>3. /\ folder'[d] = image /\ failed' = failed
      /\ pc'[d] \in {"begin", "driver"}
      /\ pc'[d] = "begin" => op'[d] = "baseline"
  BY DEF Open, Go, TypeInv, TypeOK
<1>4. FolderKept(d)' /\ CheckpointKept(d)'
  BY <1>2, <1>3 DEF FolderKept, CheckpointKept, Executing, Unwritten
<1>5. NoResult
  BY DEF Open, JournalOpen, Mark, NoResult
<1>6. QED
  BY <1>2, <1>4, <1>5, SessionOf, WritesKept

\* The checkpoint begun is for the write in the folder.
LEMMA SaveBegin ==
    ASSUME TypeInv, Recovery, NEW d \in Sessions, FolderKept(d), BeginReply(d), d = epoch
    PROVE  FolderKept(d)' /\ (CheckpointKept(d) => CheckpointKept(d)') /\ image' = image
<1>1. pc[d] = "begin" /\ UNCHANGED <<image, folder, op, pos, token>>
  BY DEF BeginReply
<1>2. CASE Current(Request(d))
  <2>1. /\ pc'[d] = "poll" /\ checkpoint'[d].op = op[d] /\ checkpoint'[d].step = pos[d]
        /\ checkpoint'[d].token = token[d] /\ checkpoint'[d].status = "pending"
    BY <1>2 DEF BeginReply, JournalBegin, Request, Go, TypeInv, TypeOK, JournalTypeOK
  <2>2. folder[d] = IF op[d] = "step" THEN image \cup {Own(d)} ELSE image
    BY <1>1 DEF FolderKept, Executing, Unwritten
  <2>3. FolderKept(d)'
    BY <1>1, <2>1, <2>2 DEF FolderKept, Executing, Unwritten, Own
  <2>4. CheckpointKept(d)'
    BY <1>1, <2>1, <2>2 DEF CheckpointKept, Own, Named
  <2>5. QED
    BY <1>1, <2>3, <2>4
<1>3. CASE Raise(d) /\ UNCHANGED checkpoint
  <2>1. SaveQuiet(d)
    BY <1>1, <1>3, RaiseQuiet
  <2>2. FolderKept(d)'
    BY <2>1 DEF SaveQuiet, FolderKept
  <2>3. QED
    BY <1>1, <2>1, <2>2, SaveQuietStep
<1>4. QED
  BY <1>2, <1>3 DEF BeginReply

\* The function writes on top of the committed version.
LEMMA SaveExecute ==
    ASSUME TypeInv, NEW d \in Sessions, FolderKept(d), CheckpointKept(d), Execute(d)
    PROVE  FolderKept(d)' /\ CheckpointKept(d)' /\ image' = image
<1>1. /\ pc[d] = "run" /\ pc'[d] = "body" /\ folder'[d] = folder[d] \cup {Own(d)}
      /\ UNCHANGED <<image, checkpoint, op, pos, token, failed>>
  BY DEF Execute, Go, Own, journalVars, TypeInv, TypeOK
<1>2. folder[d] = image /\ ~Halted(d)
  BY <1>1 DEF FolderKept, Unwritten, Halted
<1>3. FolderKept(d)'
  BY <1>1, <1>2 DEF FolderKept, Executing, Unwritten, Own
<1>4. CheckpointKept(d)'
  BY <1>1, <1>2 DEF CheckpointKept, Named, Own
<1>5. QED
  BY <1>1, <1>3, <1>4

\* The host captures the folder as it is known to be; a baseline commits
\* what is committed already.
LEMMA SaveCapture ==
    ASSUME TypeInv, NEW d \in Sessions, FolderKept(d), CheckpointKept(d), Capture(d)
    PROVE  FolderKept(d)' /\ CheckpointKept(d)' /\ image' = image
<1>1. /\ checkpoint[d].status = "pending"
      /\ UNCHANGED <<pc, op, pos, token, failed, folder>>
  BY DEF Capture, driverVars
<1>2. /\ Halted(d) \/ pc[d] = "poll"
      /\ folder[d] = IF checkpoint[d].op = "step" THEN image \cup {Named(d)} ELSE image
      /\ pc[d] = "poll" => checkpoint[d].op = op[d] /\ Named(d) = Own(d)
  BY <1>1 DEF CheckpointKept
<1>3. /\ checkpoint'[d].op = checkpoint[d].op /\ checkpoint'[d].step = checkpoint[d].step
      /\ checkpoint'[d].token = checkpoint[d].token
      /\ checkpoint'[d].status \in {"ready", "committed", "failed"}
      /\ checkpoint'[d].status = "ready" => checkpoint'[d].files = folder[d]
  BY DEF Capture, JournalCapture, JournalCaptureFails, TypeInv, TypeOK, JournalTypeOK
<1>4. image' = image
  BY <1>2 DEF Capture, JournalCapture, JournalCaptureFails
<1>5. /\ Named(d)' = Named(d) /\ Own(d)' = Own(d) /\ (Halted(d)' <=> Halted(d))
  BY <1>1, <1>3 DEF Named, Own, Halted
<1>6. FolderKept(d)'
  BY <1>1, <1>4 DEF FolderKept, Executing, Unwritten, Own
<1>7. CheckpointKept(d)'
  BY <1>1, <1>2, <1>3, <1>4, <1>5 DEF CheckpointKept
<1>8. QED
  BY <1>4, <1>6, <1>7

\* A completed step's write is committed when its call returns.
LEMMA SaveComplete ==
    ASSUME TypeInv, GrantOwned, ImageMatchesJournal, SessionKept, Recovery,
           NEW d \in Sessions, d = epoch, run = "active", CompleteReply(d)
    PROVE  FolderKept(d)' /\ CheckpointKept(d)' /\ image' = RecordedWrites'
<1> DEFINE r == Request(d)
<1>1. /\ pc[d] = "complete" /\ pos[d] \in StepIds /\ op[d] = "step" /\ JournalComplete(r)
      /\ UNCHANGED <<checkpoint, op, token, folder>>
  BY DEF CompleteReply, TypeInv, Placed, InStep
<1>2. /\ r.step = pos[d] /\ r.session = d /\ r.token = token[d] /\ token[d] \in Nat
      /\ token[d] # 0 /\ Own(d) = <<pos[d], token[d]>>
  BY <1>1 DEF Request, Own, TypeInv, TypeOK, GrantOwned, Executing
<1>3. FolderKept(d) /\ CheckpointKept(d) /\ image = RecordedWrites
  BY SessionOf DEF ImageMatchesJournal, RecordedWrites
<1>4. folder[d] = image \cup {Own(d)}
  BY <1>1, <1>3 DEF FolderKept, Executing
<1> HIDE DEF r
<1>5. CASE Commits(r)
  <2>1. /\ checkpoint[d].status = "ready" /\ checkpoint[d].op = "step" /\ Named(d) = Own(d)
        /\ image' = image \cup {Own(d)} /\ image' = RecordedWrites'
    BY <1>1, <1>2, <1>5, CommitEffect DEF Named
  <2>2. CheckpointKept(d) => checkpoint[d].files = image'
    BY <2>1 DEF CheckpointKept
  <2>3. Return(d, token[d])
    BY <1>5 DEF CompleteReply, Durable, CompleteAcked, r
  <2>4. pc'[d] = "driver"
    BY <2>3 DEF Return, Go, TypeInv, TypeOK
  <2>5. FolderKept(d)'
    BY <1>1, <1>4, <2>1, <2>4 DEF FolderKept, Executing
  <2>6. Named(d)' = Named(d) /\ Named(d) \in image'
    BY <1>1, <2>1 DEF Named
  <2>7. CheckpointKept(d)'
    BY <1>1, <1>3, <2>1, <2>2, <2>4, <2>6 DEF CheckpointKept
  <2>8. QED
    BY <2>1, <2>5, <2>7
<1>6. CASE ~Commits(r)
  <2>1. image' = image /\ entry' = entry
    BY <1>1, <1>6 DEF JournalComplete
  <2>2. image' = RecordedWrites'
    BY <1>3, <2>1 DEF RecordedWrites
  <2>3. CASE CompleteAcked(r) /\ Return(d, token[d])
    <3>1. entry[pos[d]].status = "completed" /\ entry[pos[d]].result = token[d]
      BY <1>2, <1>6, <2>3 DEF CompleteAcked
    <3>2. Own(d) \in image
      BY <1>1, <1>2, <1>3, <3>1 DEF RecordedWrites
    <3>3. pc'[d] = "driver"
      BY <2>3 DEF Return, Go, TypeInv, TypeOK
    <3>4. FolderKept(d)'
      BY <1>1, <1>4, <2>1, <3>2, <3>3 DEF FolderKept, Executing
    <3>5. Named(d)' = Named(d) /\ ~Halted(d)
      BY <1>1 DEF Named, Halted
    <3>6. CheckpointKept(d)'
      BY <1>1, <1>3, <2>1, <3>2, <3>3, <3>5 DEF CheckpointKept
    <3>7. QED
      BY <2>2, <3>4, <3>6
  <2>4. CASE Raise(d)
    <3>1. SaveQuiet(d)
      BY <1>1, <2>1, <2>4, RaiseQuiet
    <3>2. QED
      BY <1>3, <2>2, <3>1, SaveQuietStep
  <2>5. QED
    BY <2>3, <2>4 DEF CompleteReply, Durable, r
<1>7. QED
  BY <1>5, <1>6

\* A step of the newest session.
LEMMA SaveNewest ==
    ASSUME TypeInv, GrantOwned, SaveInv, Recovery, NEW d \in Sessions, d = epoch, run = "active",
           Capture(d) \/ DriverStep(d) \/ Failure(d)
    PROVE  SessionKept' /\ image' = RecordedWrites'
<1> USE DEF SaveInv
<1>1. FolderKept(d) /\ CheckpointKept(d) /\ image = RecordedWrites /\ epoch' = d
  BY SessionOf, DriverFrame DEF ImageMatchesJournal, RecordedWrites
<1>2. CASE CompleteReply(d)
  BY <1>1, <1>2, SaveComplete, SessionOf
<1>3. CASE \/ Finish(d) \/ CallStep(d) \/ ClaimReply(d) \/ BodyReturns(d) \/ UnknownReply(d)
           \/ EntrypointPropagates(d) \/ EntrypointCatches(d) \/ PollReply(d) \/ Failure(d)
           \/ FinishReply(d)
  <2>1. FinishReply(d) => image' = image
    BY FinishEffect DEF FinishReply, Request
  <2>2. SaveQuiet(d)
    BY <1>3, <2>1, SaveQuietMoves
  <2>3. SessionKept' /\ image' = image
    BY <1>1, <2>2, SaveQuietStep, SessionOf DEF SaveQuiet
  <2>4. NoResult
    <3>1. CASE ClaimReply(d)
      <4>1. JournalClaim(Request(d)) /\ Request(d).step \in StepIds
        BY <3>1, RequestTypes DEF ClaimReply, TypeInv, Placed, InStep
      <4>2. QED
        BY <4>1, ClaimNoResult
    <3>2. CASE UnknownReply(d)
      <4>1. JournalUnknown(Request(d)) /\ Request(d).step \in StepIds
        BY <3>2, RequestTypes DEF UnknownReply, TypeInv, Placed, InStep
      <4>2. QED
        BY <4>1, UnknownNoResult
    <3>3. CASE entry' = entry
      BY <3>3 DEF NoResult
    <3>4. QED
      BY <1>3, <3>1, <3>2, <3>3
         DEF Finish, CallStep, BodyReturns, EntrypointPropagates, EntrypointCatches, PollReply,
             FinishReply, Failure, BodyRaises, BodyLosesAuthority, PollDeadline, TransportError,
             RenewalFails, Crash, journalVars
  <2>5. QED
    BY <1>1, <2>3, <2>4, WritesKept
<1>4. CASE BeginReply(d)
  <2>1. SessionKept' /\ image' = image /\ entry' = entry
    BY <1>1, <1>4, SaveBegin, SessionOf DEF BeginReply
  <2>2. QED
    BY <1>1, <2>1 DEF RecordedWrites
<1>5. CASE Execute(d)
  <2>1. SessionKept' /\ image' = image /\ entry' = entry
    BY <1>1, <1>5, SaveExecute, SessionOf DEF Execute, journalVars
  <2>2. QED
    BY <1>1, <2>1 DEF RecordedWrites
<1>6. CASE Capture(d)
  <2>1. SessionKept' /\ image' = image /\ entry' = entry
    BY <1>1, <1>6, SaveCapture, SessionOf DEF Capture, JournalCapture, JournalCaptureFails
  <2>2. QED
    BY <1>1, <2>1 DEF RecordedWrites
<1>7. QED
  BY <1>2, <1>3, <1>4, <1>5, <1>6 DEF DriverStep

\* A step of a superseded session.
LEMMA SaveOlder ==
    ASSUME TypeInv, SaveInv, Recovery, NEW d \in Sessions, d # epoch, run = "active",
           Capture(d) \/ DriverStep(d) \/ Failure(d)
    PROVE  SessionKept' /\ image' = RecordedWrites'
<1> USE DEF SaveInv
<1>1. epoch' = epoch /\ entry' = entry /\ image' = image /\ checkpoint' = checkpoint
  BY DriverFrame
<1>2. image' = RecordedWrites'
  BY <1>1 DEF ImageMatchesJournal, RecordedWrites
<1>3. CASE epoch = 0
  BY <1>1, <1>2, <1>3 DEF SessionKept
<1>4. CASE epoch # 0
  <2>1. PICK e \in Sessions : e = epoch
    BY <1>4 DEF Sessions, TypeInv, TypeOK, JournalTypeOK
  <2>2. FolderKept(e) /\ CheckpointKept(e)
    BY <2>1, SessionOf
  <2>3. /\ pc'[e] = pc[e] /\ op'[e] = op[e] /\ pos'[e] = pos[e] /\ token'[e] = token[e]
        /\ failed'[e] = failed[e] /\ folder'[e] = folder[e] /\ checkpoint'[e] = checkpoint[e]
    BY <2>1, DriverFrame
  <2>4. FolderKept(e)' /\ CheckpointKept(e)'
    BY <1>1, <2>2, <2>3 DEF FolderKept, CheckpointKept, Unwritten, Executing, Own, Named, Halted
  <2>5. QED
    BY <1>1, <1>2, <2>1, <2>4, SessionOf
<1>5. QED
  BY <1>2, <1>3, <1>4

\* A late request, or nothing.
LEMMA SaveOthers ==
    ASSUME TypeInv, GrantOwned, SaveInv, Recovery, run = "active",
           UNCHANGED vars \/ (\E r \in late : LateDelivery(r))
    PROVE  SessionKept' /\ image' = RecordedWrites'
<1> USE DEF SaveInv
<1>1. UNCHANGED <<epoch, checkpoint, pc, op, pos, token, failed, folder>>
  BY OthersFrame
<1>2. image = RecordedWrites
  BY DEF ImageMatchesJournal, RecordedWrites
<1>3. image' = image => SessionKept'
  BY <1>1 DEF SessionKept, FolderKept, CheckpointKept, Unwritten, Executing, Own, Named, Halted
<1>4. CASE UNCHANGED <<entry, image>>
  BY <1>2, <1>3, <1>4 DEF RecordedWrites
<1>5. ASSUME NEW r \in late, LateDelivery(r) PROVE SessionKept' /\ image' = RecordedWrites'
  <2>1. /\ r \in Requests /\ r.session \in Sessions /\ r.token \in Nat
        /\ r.op # "finish" => r.step \in StepIds
    BY DEF TypeInv, TypeOK, Placed, Requests
  <2>2. CASE r.op = "claim" /\ JournalClaim(r) /\ image' = image
    <3>1. NoResult
      BY <2>1, <2>2, ClaimNoResult
    <3>2. QED
      BY <1>2, <1>3, <2>2, <3>1, WritesKept
  <2>3. CASE r.op = "unknown" /\ JournalUnknown(r) /\ image' = image
    <3>1. NoResult
      BY <2>1, <2>3, UnknownNoResult
    <3>2. QED
      BY <1>2, <1>3, <2>3, <3>1, WritesKept
  <2>4. CASE r.op = "complete" /\ JournalComplete(r)
    <3>1. CASE Commits(r)
      <4>1. /\ epoch \in Sessions /\ checkpoint[epoch].status = "ready"
            /\ checkpoint[epoch].op = "step" /\ image' = image \cup {Named(epoch)}
            /\ image' = RecordedWrites'
        BY <2>1, <2>4, <3>1, CommitEffect
      <4>2. PICK e \in Sessions : e = epoch
        BY <4>1
      <4>3. image' = image \cup {Named(e)}
        BY <4>1, <4>2 DEF Named
      <4>4. FolderKept(e) /\ CheckpointKept(e)
        BY <4>2, SessionOf
      <4>5. FolderKept(e)' /\ CheckpointKept(e)'
        BY <1>1, <4>1, <4>2, <4>3, <4>4, SaveCommitted
      <4>6. QED
        BY <1>1, <4>1, <4>2, <4>5, SessionOf
    <3>2. CASE ~Commits(r)
      BY <1>4, <2>4, <3>2 DEF JournalComplete
    <3>3. QED
      BY <3>1, <3>2
  <2>5. CASE r.op = "finish" /\ JournalFinish(r) /\ entry' = entry
    BY <1>4, <2>1, <2>5, FinishEffect
  <2>6. QED
    BY <1>5, <2>2, <2>3, <2>4, <2>5 DEF LateDelivery, JournalLate
<1>6. CASE UNCHANGED vars
  BY <1>4, <1>6 DEF vars, journalVars
<1>7. QED
  BY <1>5, <1>6

\* An operator's decision, on an active run or after another.
LEMMA SaveResolve ==
    ASSUME TypeInv, SaveInv, Recovery, NEW s \in StepIds, Resolve(s)
    PROVE  SessionKept' /\ image' = RecordedWrites'
<1> USE DEF SaveInv
<1>1. UNCHANGED <<epoch, checkpoint, pc, op, pos, token, failed, folder>>
  BY OthersFrame
<1>2. image = RecordedWrites
  BY DEF ImageMatchesJournal, RecordedWrites
<1>3. PICK decision \in Decisions : JournalResolve(s, decision)
  BY DEF Resolve
<1>4. entry[s].status = "unknown" /\ \A x \in StepIds \ {s} : entry'[x] = entry[x]
  BY <1>3, ResolveEffect DEF TypeInv, TypeOK
<1>5. CASE run' = "resolved" /\ \E d \in Candidates(s) :
               /\ image' = checkpoint[d].files
               /\ entry'[s].status = "completed" /\ entry'[s].result = entry[s].token
  <2>1. PICK d \in Candidates(s) : image' = checkpoint[d].files
    BY <1>5
  <2>2. /\ d \in Sessions /\ checkpoint[d].status = "ready" /\ checkpoint[d].op = "step"
        /\ Named(d) = <<s, entry[s].token>> /\ image \subseteq checkpoint[d].files
        /\ checkpoint[d].token = entry[s].token
    BY <2>1 DEF Candidates, Named
  <2>3. entry[s].token # 0 /\ image' = image \cup {<<s, entry[s].token>>}
    BY <2>1, <2>2 DEF CandidatesKept, CandidateKept
  <2>4. RecordedWrites' = RecordedWrites \cup {<<s, entry[s].token>>}
    BY <1>4, <1>5, <2>3 DEF RecordedWrites
  <2>5. SessionKept'
    BY <1>5 DEF SessionKept
  <2>6. QED
    BY <1>2, <2>3, <2>4, <2>5
<1>6. CASE /\ image' = image /\ run' \in {run, "cancelled"}
           /\ entry' = entry \/ entry'[s].status = "cleared"
              \/ (entry'[s].status = "completed" /\ entry'[s].result = 0)
  <2>1. NoResult
    BY <1>4, <1>6 DEF NoResult
  <2>2. SessionKept'
    BY <1>1, <1>6
       DEF SessionKept, FolderKept, CheckpointKept, Unwritten, Executing, Own, Named, Halted
  <2>3. QED
    BY <1>2, <1>6, <2>1, <2>2, WritesKept
<1>7. QED
  BY <1>3, <1>5, <1>6, ResolveEffect DEF TypeInv, TypeOK

\* Nothing is committed on a run that is over, or that waits for a session
\* to restore the state an operator selected.
LEMMA SaveEnded ==
    ASSUME TypeInv, SaveInv, Recovery, run # "active",
           \/ UNCHANGED vars \/ \E r \in late : LateDelivery(r)
           \/ \E d \in Sessions : Capture(d) \/ DriverStep(d) \/ Failure(d)
    PROVE  SessionKept' /\ image' = RecordedWrites'
<1> USE DEF SaveInv
<1>1. entry' = entry /\ image' = image /\ run' = run
  <2>1. CASE UNCHANGED vars
    BY <2>1 DEF vars, journalVars
  <2>2. CASE \E r \in late : LateDelivery(r)
    BY <2>2 DEF LateDelivery, JournalLate, JournalClaim, JournalUnknown, JournalComplete,
         JournalFinish, UnknownAcked, Commits, Holds, Current
  <2>3. CASE \E d \in Sessions : Capture(d) \/ DriverStep(d) \/ Failure(d)
    BY <2>3, DriverFrame
  <2>4. QED
    BY <2>1, <2>2, <2>3
<1>2. image' = RecordedWrites'
  BY <1>1 DEF ImageMatchesJournal, RecordedWrites
<1>3. QED
  BY <1>1, <1>2 DEF SessionKept

\* A checkpoint, once verified, stays what an operator may select.
LEMMA CandidatesNext ==
    ASSUME TypeInv, GrantOwned, SaveInv, Recovery, Next, image \subseteq image'
    PROVE  CandidatesKept'
<1> USE DEF SaveInv
<1>1. ASSUME NEW d \in Sessions, checkpoint'[d] = checkpoint[d] PROVE CandidateKept(d)'
  BY <1>1 DEF CandidatesKept, CandidateKept, Named
<1>2. ASSUME NEW d \in Sessions, BeginReply(d) PROVE CandidateKept(d)'
  <2>1. CASE checkpoint' = checkpoint
    BY <1>1, <2>1
  <2>2. CASE JournalBegin(Request(d), op[d])
    <3>1. /\ checkpoint'[d].op = op[d] /\ checkpoint'[d].status = "pending"
          /\ checkpoint'[d].token = token[d]
      BY <2>2 DEF JournalBegin, Request, TypeInv, TypeOK, JournalTypeOK
    <3>2. op[d] = "step" => token[d] # 0
      BY <1>2 DEF BeginReply, GrantOwned, Executing
    <3>3. QED
      BY <3>1, <3>2 DEF CandidateKept
  <2>3. QED
    BY <1>2, <2>1, <2>2 DEF BeginReply
<1>3. ASSUME NEW d \in Sessions, Capture(d) PROVE CandidateKept(d)'
  <2>1. /\ checkpoint[d].status = "pending" /\ checkpoint'[d].op = checkpoint[d].op
        /\ checkpoint'[d].token = checkpoint[d].token
    BY <1>3 DEF Capture, JournalCapture, JournalCaptureFails, TypeInv, TypeOK, JournalTypeOK
  <2>2. CheckpointKept(d)'
    <3>1. FolderKept(d) /\ CheckpointKept(d)
      BY <1>3, SessionOf DEF Capture
    <3>2. QED
      BY <1>3, <3>1, SaveCapture
  <2>3. checkpoint'[d].status = "ready" /\ checkpoint'[d].op = "step" =>
            checkpoint'[d].files = image' \cup {Named(d)'}
    BY <2>2 DEF CheckpointKept
  <2>4. QED
    BY <2>1, <2>3 DEF CandidatesKept, CandidateKept
<1>4. ASSUME NEW d \in Sessions, DriverStep(d) \/ Failure(d), ~BeginReply(d)
      PROVE  checkpoint' = checkpoint
  BY <1>4 DEF DriverStep, Failure, Finish, FinishReply, CallStep, ClaimReply, Execute,
       BodyReturns, UnknownReply, CompleteReply, EntrypointPropagates, EntrypointCatches,
       PollReply, BodyRaises, BodyLosesAuthority, PollDeadline, TransportError, RenewalFails,
       Crash, journalVars
<1>5. ASSUME NEW d \in Sessions, Capture(d) \/ DriverStep(d) \/ Failure(d)
      PROVE  CandidatesKept'
  <2>1. CandidateKept(d)'
    BY <1>1, <1>2, <1>3, <1>4, <1>5
  <2>2. \A e \in Sessions \ {d} : CandidateKept(e)'
    BY <1>1, <1>5, DriverFrame
  <2>3. QED
    BY <2>1, <2>2 DEF CandidatesKept
<1>6. ASSUME checkpoint' = checkpoint PROVE CandidatesKept'
  BY <1>1, <1>6 DEF CandidatesKept
<1>7. QED
  BY <1>5, <1>6, OthersFrame DEF Next, Open, JournalOpen

\* SaveInv is inductive, given the types and GrantOwned.
LEMMA SaveNext == TypeInv /\ GrantOwned /\ SaveInv /\ [Next]_vars => SaveInv'
<1> SUFFICES ASSUME TypeInv, GrantOwned, SaveInv, [Next]_vars PROVE SaveInv'
  OBVIOUS
<1>1. Unopened' /\ NoSaves'
  BY UnopenedNext, NoSavesNext DEF SaveInv
<1>2. CASE Recovery
  <2>1. ASSUME NEW d \in Sessions, Open(d) PROVE SessionKept' /\ image' = RecordedWrites'
    BY <1>2, <2>1, SaveOpen DEF SaveInv, ImageMatchesJournal, RecordedWrites
  <2>2. SessionKept' /\ image' = RecordedWrites'
    <3>1. CASE run = "active"
      BY <1>2, <2>1, <3>1, SaveNewest, SaveOlder, SaveOthers, SaveResolve DEF Next
    <3>2. CASE run # "active"
      BY <1>2, <2>1, <3>2, SaveEnded, SaveResolve DEF Next
    <3>3. QED
      BY <3>1, <3>2
  <2>3. RecordedWrites \subseteq RecordedWrites'
    BY ImmutableNext DEF Immutable, RecordedWrites
  <2>4. image \subseteq image'
    BY <1>2, <2>2, <2>3 DEF SaveInv, ImageMatchesJournal, RecordedWrites
  <2>5. UNCHANGED vars => CandidatesKept'
    BY DEF SaveInv, CandidatesKept, CandidateKept, Named, vars, journalVars
  <2>6. CandidatesKept'
    BY <1>2, <2>4, <2>5, CandidatesNext DEF SaveInv
  <2>7. QED
    BY <1>1, <2>2, <2>6 DEF SaveInv, ImageMatchesJournal, RecordedWrites
<1>3. CASE ~Recovery
  BY <1>1, <1>3 DEF SaveInv, ImageMatchesJournal, SessionKept, CandidatesKept
<1>4. QED
  BY <1>2, <1>3

\* The first version holds nothing, like the journal.
LEMMA SaveInit == Init => SaveInv
<1> SUFFICES ASSUME Init PROVE SaveInv
  OBVIOUS
<1>1. ImageMatchesJournal
  BY DEF Init, JournalInit, ImageMatchesJournal
<1>2. CandidatesKept
  BY DEF Init, JournalInit, CandidatesKept, CandidateKept
<1>3. QED
  BY <1>1, <1>2, UnopenedInit DEF Init, JournalInit, SaveInv, NoSaves, SessionKept

\* With checkpoint-v1 the committed state is, in every state of every run,
\* that of exactly the executions whose results are recorded.
THEOREM SavedStateMatches == Spec => []ImageMatchesJournal
<1>1. SaveInv => ImageMatchesJournal
  BY DEF SaveInv
<1>2. QED
  BY <1>1, TypeInit, TypeStep, GrantInit, GrantNext, OwnedInit, OwnedNext, SaveInit, SaveNext, PTL
     DEF Spec

-----------------------------------------------------------------------------
(* The refinement of RecordedSteps.                                        *)

Results == {<<s, entry[s].result>> : s \in {x \in StepIds : entry[x].status = "completed"}}

\* What the abstract variables stand for.
LEMMA AbstractInit ==
    ASSUME Results = {}, image = {}, got = [r \in Sessions |-> {}], run = "active"
    PROVE  Recorded!Init
BY DEF Recorded!Init, Results

\* A step that changes none of them.
LEMMA AbstractStutter ==
    ASSUME Results' = Results, image' = image, got' = got,
           run' = "completed" <=> run = "completed"
    PROVE  UNCHANGED Recorded!vars
BY DEF Recorded!vars, Results

\* A step that records w, and returns it or not.
LEMMA AbstractRecord ==
    ASSUME NEW w, run # "completed", run' # "completed", w[1] \in StepIds, w[2] \in Nat,
           \A x \in Results : x[1] # w[1], Results' = Results \cup {w},
           image' = (IF Recovery /\ w[2] # 0 THEN image \cup {w} ELSE image),
           got' = got \/ \E d \in Sessions : got' = [got EXCEPT ![d] = @ \cup {w}]
    PROVE  Recorded!Next
<1>1. w \in Results'
  OBVIOUS
<1>2. Recorded!Record(w)
  BY DEF Recorded!Record, Results
<1>3. UNCHANGED got \/ \E d \in Sessions : Recorded!Return(d, w)
  BY DEF Recorded!Return
<1>4. QED
  BY <1>1, <1>2, <1>3 DEF Recorded!Next, Results

\* A step that returns what is recorded.
LEMMA AbstractReturn ==
    ASSUME NEW d \in Sessions, NEW w \in Results, run = "active", run' = run,
           Results' = Results, image' = image, got' = [got EXCEPT ![d] = @ \cup {w}]
    PROVE  Recorded!Next
<1>1. Recorded!Return(d, w)
  BY DEF Recorded!Return
<1>2. QED
  BY <1>1 DEF Recorded!Next, Results

\* A step that ends the run.
LEMMA AbstractFinish ==
    ASSUME run = "active", run' = "completed", Results' = Results, image' = image, got' = got
    PROVE  Recorded!Next
<1>1. Recorded!Finish
  BY DEF Recorded!Finish, Results
<1>2. QED
  BY <1>1 DEF Recorded!Next

\* Entries that do not become completed keep the results.
LEMMA ResultsKept ==
    ASSUME NoCompletion
    PROVE  Results' = Results
<1>1. \A s \in StepIds : entry[s].status = "completed" <=> entry'[s].status = "completed"
  BY DEF NoCompletion
<1>2. \A s \in StepIds : entry[s].status = "completed" => entry'[s].result = entry[s].result
  BY DEF NoCompletion
<1>3. QED
  BY <1>1, <1>2 DEF Results

\* One entry that becomes completed adds the one result of its step.
LEMMA ResultsAdded ==
    ASSUME NEW s \in StepIds, NEW v, entry[s].status # "completed",
           entry'[s].status = "completed", entry'[s].result = v,
           \A x \in StepIds \ {s} : entry'[x] = entry[x]
    PROVE  Results' = Results \cup {<<s, v>>} /\ \A x \in Results : x[1] # s
<1>1. Results' = Results \cup {<<s, v>>}
  BY DEF Results
<1>2. \A x \in Results : x[1] # s
  BY DEF Results
<1>3. QED
  BY <1>1, <1>2

\* A completion records its result and, with checkpoint-v1, saves its state.
LEMMA CompletionRecords ==
    ASSUME TypeInv, GrantOwned, SaveInv, NEW r, r.step \in StepIds, r.session \in Sessions,
           r.token \in Nat, Commits(r), JournalComplete(r), run' = run,
           \/ got' = got
           \/ \E d \in Sessions : got' = [got EXCEPT ![d] = @ \cup {<<r.step, r.token>>}]
    PROVE  Recorded!Next
<1> DEFINE w == <<r.step, r.token>>
<1>1. run = "active" /\ entry[r.step].status = "started"
  BY DEF Commits, Holds, Current
<1>2. /\ entry'[r.step].status = "completed" /\ entry'[r.step].result = r.token
      /\ \A s \in StepIds \ {r.step} : entry'[s] = entry[s]
  BY DEF JournalComplete, TypeInv, TypeOK, JournalTypeOK
<1>3. Results' = Results \cup {w} /\ \A x \in Results : x[1] # w[1]
  BY <1>1, <1>2, ResultsAdded
<1>4. image' = IF Recovery /\ w[2] # 0 THEN image \cup {w} ELSE image
  <2>1. CASE Recovery
    BY <2>1, CommitEffect DEF SaveInv
  <2>2. CASE ~Recovery
    BY <2>2 DEF JournalComplete
  <2>3. QED
    BY <2>1, <2>2
<1>5. w[1] \in StepIds /\ w[2] \in Nat
  OBVIOUS
<1> HIDE DEF w
<1>6. got' = got \/ \E d \in Sessions : got' = [got EXCEPT ![d] = @ \cup {w}]
  BY DEF w
<1>7. QED
  BY <1>1, <1>3, <1>4, <1>5, <1>6, AbstractRecord

\* A finish that is accepted ends the run; one that is not changes nothing.
LEMMA FinishEnds ==
    ASSUME SaveInv, NEW r, r.session \in Sessions, JournalFinish(r), entry' = entry, got' = got
    PROVE  [Recorded!Next]_(Recorded!vars)
<1>1. image' = image
  BY FinishEffect DEF SaveInv
<1>2. Results' = Results
  BY DEF Results
<1>3. (run' = run) \/ (run = "active" /\ run' = "completed")
  BY DEF JournalFinish, Current
<1>4. QED
  BY <1>1, <1>2, <1>3, AbstractStutter, AbstractFinish

\* What a driver does alone, and every capture, is not seen.
LEMMA RefineQuiet ==
    ASSUME TypeInv, SaveInv, NEW d \in Sessions,
           \/ Finish(d) \/ CallStep(d) \/ BodyReturns(d) \/ Execute(d)
           \/ EntrypointPropagates(d) \/ EntrypointCatches(d) \/ PollReply(d) \/ Failure(d)
           \/ BeginReply(d) \/ Capture(d) \/ Open(d) \/ UnknownReply(d)
    PROVE  UNCHANGED Recorded!vars
<1>1. got' = got /\ (run' = "completed" <=> run = "completed")
  BY DEF Finish, CallStep, BodyReturns, Execute, EntrypointPropagates, EntrypointCatches,
         PollReply, BeginReply, Capture, JournalCapture, JournalCaptureFails, driverVars, Open,
         JournalOpen, UnknownReply, Failure, BodyRaises, BodyLosesAuthority, PollDeadline,
         TransportError, RenewalFails, Crash, journalVars
<1>2. NoCompletion
  <2>1. CASE Open(d)
    BY <2>1 DEF Open, JournalOpen, Mark, NoCompletion
  <2>2. CASE UnknownReply(d)
    <3>1. JournalUnknown(Request(d)) /\ Request(d).step \in StepIds
      BY <2>2, RequestTypes DEF UnknownReply, TypeInv, Placed, InStep
    <3>2. QED
      BY <3>1, UnknownNoResult
  <2>3. CASE entry' = entry
    BY <2>3 DEF NoCompletion
  <2>4. QED
    BY <2>1, <2>2, <2>3
       DEF Finish, CallStep, BodyReturns, Execute, EntrypointPropagates, EntrypointCatches,
           PollReply, BeginReply, Capture, JournalCapture, JournalCaptureFails, Failure,
           BodyRaises, BodyLosesAuthority, PollDeadline, TransportError, RenewalFails, Crash,
           journalVars
<1>3. image' = image
  <2>1. CASE Capture(d)
    <3>1. d = epoch /\ run = "active" /\ checkpoint[d].status = "pending"
      BY <2>1 DEF Capture
    <3>2. Recovery
      BY <3>1 DEF SaveInv, NoSaves
    <3>3. FolderKept(d) /\ CheckpointKept(d)
      BY <3>1, <3>2, SessionOf DEF SaveInv
    <3>4. QED
      BY <2>1, <3>3, SaveCapture
  <2>2. CASE ~Capture(d)
    BY <2>2
       DEF Finish, CallStep, BodyReturns, Execute, EntrypointPropagates, EntrypointCatches,
           PollReply, BeginReply, Open, JournalOpen, UnknownReply, Failure, BodyRaises,
           BodyLosesAuthority, PollDeadline, TransportError, RenewalFails, Crash, journalVars
  <2>3. QED
    BY <2>1, <2>2
<1>4. QED
  BY <1>1, <1>2, <1>3, ResultsKept, AbstractStutter

\* A claim returns a recorded result, or is not seen.
LEMMA RefineClaim ==
    ASSUME TypeInv, SaveInv, NEW d \in Sessions, ClaimReply(d)
    PROVE  [Recorded!Next]_(Recorded!vars)
<1> DEFINE r == Request(d)
<1>1. JournalClaim(r) /\ pos[d] \in StepIds /\ r.step = pos[d] /\ UNCHANGED <<run, image>>
  BY DEF ClaimReply, Request, TypeInv, Placed, InStep
<1>2. NoCompletion
  <2> HIDE DEF r
  <2> QED BY <1>1, ClaimNoResult
<1>3. Results' = Results
  BY <1>2, ResultsKept
<1>4. CASE "replay" \in ClaimDecisions(r) /\ Return(d, entry[pos[d]].result)
  <2>1. entry[pos[d]].status = "completed" /\ run = "active"
    BY <1>1, <1>4 DEF ClaimDecisions, Current
  <2>2. <<pos[d], entry[pos[d]].result>> \in Results
    BY <1>1, <2>1 DEF Results
  <2>3. got' = [got EXCEPT ![d] = @ \cup {<<pos[d], entry[pos[d]].result>>}]
    BY <1>4 DEF Return
  <2>4. QED
    BY <1>1, <1>3, <2>1, <2>2, <2>3, AbstractReturn
<1>5. CASE got' = got
  BY <1>1, <1>3, <1>5, AbstractStutter
<1>6. QED
  BY <1>4, <1>5 DEF ClaimReply

\* A completion records and returns, returns again, or is not seen.
LEMMA RefineComplete ==
    ASSUME TypeInv, GrantOwned, SaveInv, NEW d \in Sessions, CompleteReply(d)
    PROVE  [Recorded!Next]_(Recorded!vars)
<1> DEFINE r == Request(d)
<1>1. /\ JournalComplete(r) /\ pos[d] \in StepIds /\ run' = run /\ pc[d] = "complete"
      /\ r.step = pos[d] /\ r.session = d /\ r.token = token[d] /\ token[d] \in Nat
  BY DEF CompleteReply, Request, TypeInv, TypeOK, Placed, InStep
<1>2. CASE Commits(r)
  <2>1. Return(d, token[d])
    BY <1>2 DEF CompleteReply, Durable, CompleteAcked
  <2>2. got' = [got EXCEPT ![d] = @ \cup {<<pos[d], token[d]>>}]
    BY <2>1 DEF Return
  <2> HIDE DEF r
  <2>3. QED
    BY <1>1, <1>2, <2>2, CompletionRecords
<1>3. CASE ~Commits(r)
  <2>1. UNCHANGED <<entry, image>>
    BY <1>1, <1>3 DEF JournalComplete
  <2>2. Results' = Results
    BY <2>1 DEF Results
  <2>3. CASE CompleteAcked(r) /\ Return(d, token[d])
    <3>1. /\ entry[pos[d]].status = "completed" /\ entry[pos[d]].result = token[d]
          /\ run = "active"
      BY <1>1, <1>3, <2>3 DEF CompleteAcked, Holds, Current
    <3>2. <<pos[d], token[d]>> \in Results
      BY <1>1, <3>1 DEF Results
    <3>3. got' = [got EXCEPT ![d] = @ \cup {<<pos[d], token[d]>>}]
      BY <2>3 DEF Return
    <3>4. QED
      BY <1>1, <2>1, <2>2, <3>1, <3>2, <3>3, AbstractReturn
  <2>4. CASE got' = got
    BY <1>1, <2>1, <2>2, <2>4, AbstractStutter
  <2>5. QED
    BY <2>3, <2>4 DEF CompleteReply, Durable
<1>4. QED
  BY <1>2, <1>3

\* A late request records a result, ends the run, or is not seen.
LEMMA RefineLate ==
    ASSUME TypeInv, GrantOwned, SaveInv, NEW r \in late, LateDelivery(r)
    PROVE  [Recorded!Next]_(Recorded!vars)
<1>1. /\ r \in Requests /\ r.session \in Sessions /\ r.token \in Nat /\ got' = got
      /\ r.op # "finish" => r.step \in StepIds
  BY DEF TypeInv, TypeOK, Placed, Requests, LateDelivery, driverVars
<1>2. ASSUME NoCompletion, UNCHANGED <<run, image>> PROVE UNCHANGED Recorded!vars
  BY <1>1, <1>2, ResultsKept, AbstractStutter
<1>3. CASE r.op = "claim" /\ JournalClaim(r) /\ UNCHANGED <<run, image>>
  BY <1>1, <1>2, <1>3, ClaimNoResult
<1>4. CASE r.op = "unknown" /\ JournalUnknown(r) /\ UNCHANGED <<run, image>>
  BY <1>1, <1>2, <1>4, UnknownNoResult
<1>5. CASE r.op = "complete" /\ JournalComplete(r) /\ UNCHANGED run
  <2>1. CASE Commits(r)
    BY <1>1, <1>5, <2>1, CompletionRecords
  <2>2. CASE ~Commits(r)
    BY <1>2, <1>5, <2>2 DEF JournalComplete, NoCompletion
  <2>3. QED
    BY <2>1, <2>2
<1>6. CASE r.op = "finish" /\ JournalFinish(r) /\ UNCHANGED entry
  BY <1>1, <1>6, FinishEnds
<1>7. QED
  BY <1>3, <1>4, <1>5, <1>6 DEF LateDelivery, JournalLate

\* An operator's decision records a result, and saves its state when it is
\* that of an execution, or is not seen.
LEMMA RefineResolve ==
    ASSUME TypeInv, SaveInv, NEW s \in StepIds, Resolve(s)
    PROVE  [Recorded!Next]_(Recorded!vars)
<1>1. PICK decision \in Decisions : JournalResolve(s, decision)
  BY DEF Resolve
<1>2. got' = got /\ run \in {"active", "resolved"}
  BY <1>1 DEF Resolve, JournalResolve, Resolvable, driverVars
<1>3. /\ entry[s].status = "unknown" /\ entry[s].token \in Nat
      /\ \A x \in StepIds \ {s} : entry'[x] = entry[x]
  BY <1>1, ResolveEffect, EntryFields DEF TypeInv, TypeOK, JournalTypeOK
<1>4. CASE /\ image' = image /\ run' \in {run, "cancelled"}
           /\ entry' = entry \/ entry'[s].status = "cleared"
  <2>1. NoCompletion
    BY <1>3, <1>4 DEF NoCompletion
  <2>2. QED
    BY <1>2, <1>4, <2>1, ResultsKept, AbstractStutter
<1>5. ASSUME NEW v \in Nat, entry'[s].status = "completed", entry'[s].result = v,
             run' # "completed",
             image' = IF Recovery /\ v # 0 THEN image \cup {<<s, v>>} ELSE image
      PROVE  Recorded!Next
  <2> DEFINE w == <<s, v>>
  <2>1. Results' = Results \cup {w} /\ \A x \in Results : x[1] # w[1]
    BY <1>3, <1>5, ResultsAdded
  <2>2. w[1] \in StepIds /\ w[2] \in Nat
    OBVIOUS
  <2>3. image' = IF Recovery /\ w[2] # 0 THEN image \cup {w} ELSE image
    BY <1>5
  <2> HIDE DEF w
  <2>4. QED
    BY <1>2, <1>5, <2>1, <2>2, <2>3, AbstractRecord
<1>6. CASE /\ image' = image /\ run' = run
           /\ entry'[s].status = "completed" /\ entry'[s].result = 0
  BY <1>2, <1>5, <1>6
<1>7. CASE /\ run' = "resolved" /\ entry'[s].status = "completed"
           /\ entry'[s].result = entry[s].token
           /\ \E d \in Candidates(s) : image' = checkpoint[d].files
  <2>1. PICK d \in Candidates(s) : image' = checkpoint[d].files
    BY <1>7
  <2>2. /\ d \in Sessions /\ checkpoint[d].status = "ready" /\ checkpoint[d].op = "step"
        /\ Named(d) = <<s, entry[s].token>> /\ image \subseteq checkpoint[d].files
        /\ checkpoint[d].token = entry[s].token
    BY <2>1 DEF Candidates, Named
  <2>3. Recovery
    BY <2>2 DEF SaveInv, NoSaves
  <2>4. entry[s].token # 0 /\ image' = image \cup {<<s, entry[s].token>>}
    BY <2>1, <2>2, <2>3 DEF SaveInv, CandidatesKept, CandidateKept
  <2>5. QED
    BY <1>3, <1>5, <1>7, <2>3, <2>4
<1>8. QED
  BY <1>1, <1>4, <1>6, <1>7, ResolveEffect DEF TypeInv, TypeOK

\* Every step is one of RecordedSteps, or is not seen by it.
LEMMA RefineNext ==
    TypeInv /\ GrantOwned /\ SaveInv /\ [Next]_vars => [Recorded!Next]_(Recorded!vars)
<1> SUFFICES ASSUME TypeInv, GrantOwned, SaveInv, [Next]_vars
             PROVE  [Recorded!Next]_(Recorded!vars)
  OBVIOUS
<1>1. CASE UNCHANGED vars
  <2>1. Results' = Results /\ UNCHANGED <<image, got, run>>
    BY <1>1 DEF vars, journalVars, driverVars, Results
  <2>2. QED
    BY <2>1, AbstractStutter
<1>2. ASSUME NEW d \in Sessions, Open(d) \/ Capture(d) \/ DriverStep(d) \/ Failure(d)
      PROVE  [Recorded!Next]_(Recorded!vars)
  <2>1. CASE FinishReply(d)
    <3>1. /\ JournalFinish(Request(d)) /\ entry' = entry /\ got' = got
          /\ Request(d).session \in Sessions
      BY <2>1 DEF FinishReply, Request
    <3>2. QED
      BY <3>1, FinishEnds
  <2>2. CASE ClaimReply(d)
    BY <2>2, RefineClaim
  <2>3. CASE CompleteReply(d)
    BY <2>3, RefineComplete
  <2>4. CASE ~FinishReply(d) /\ ~ClaimReply(d) /\ ~CompleteReply(d)
    BY <1>2, <2>4, RefineQuiet DEF DriverStep
  <2>5. QED
    BY <2>1, <2>2, <2>3, <2>4
<1>3. QED
  BY <1>1, <1>2, RefineLate, RefineResolve DEF Next

\* The drivers, the journal and all their faults implement the abstract
\* specification: one result per step for ever, saved together with its
\* state, and calls that return only what is recorded.
THEOREM StepsImplemented == Spec => ImplementsRecordedSteps
<1>1. Init => Recorded!Init
  <2> SUFFICES ASSUME Init PROVE Recorded!Init
    OBVIOUS
  <2>1. Results = {}
    BY DEF Init, JournalInit, Results
  <2>2. QED
    BY <2>1, AbstractInit DEF Init, JournalInit
<1>2. QED
  BY <1>1, RefineNext, TypeInit, TypeStep, GrantInit, GrantNext, OwnedInit, OwnedNext, SaveInit,
     SaveNext, PTL
     DEF Spec, ImplementsRecordedSteps, Recorded!Spec
=============================================================================
