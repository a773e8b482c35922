------------------------------ MODULE Mutations ------------------------------
(***************************************************************************)
(* The calls that change something on the service in one request:          *)
(* workloads, sandboxes and their commands, agents and their runs,         *)
(* operations, training runs, and the tools of the MCP server              *)
(* (nodus/__init__.py, _sandboxes.py, _managed_agents.py, _agent_runs.py,  *)
(* _operations.py, _rl.py, _connections.py, _secrets.py, _ssh_keys.py,     *)
(* _mcp*.py).                                                              *)
(* Each is a Begin that says what protects it; what follows, the           *)
(* transport's attempts and the caller's own repetitions, is common.       *)
(* `rule` holds                                                            *)
(*   own       the caller's key is the same at every call; otherwise a key *)
(*             is made up per call unless an error has named one,          *)
(*   bare      no key at all,                                              *)
(*   named     no key, the body carries the identity of what it creates,   *)
(*   single    the transport sends it once,                                *)
(*   patch     answered statuses are not repeated (_RETRY_METHODS),        *)
(*   copied    the body is copied when the call begins,                    *)
(*   checked   the answer must carry the identities a receipt for it has,  *)
(*   revised   applied only to the revision the caller names.              *)
(* The service is not in this repository.                                  *)
(***************************************************************************)
EXTENDS Naturals, Sequences, FiniteSets

CONSTANTS
    MaxTries,      \* bound: calls for one wish
    MaxAttempts    \* bound: the transport's max_retries + 1

MutationsAssumption == MaxTries \in Nat \ {0} /\ MaxAttempts \in Nat \ {0}

VARIABLES
    kind,     \* what this caller wants done, once
    call,     \* the caller and the call it makes
    object,   \* what the objects it passed hold: 1 once other code of its program edited them
    wire,     \* requests the service has not seen
    history   \* what the service applied

vars == <<kind, call, object, wire, history>>

Init ==
    /\ kind = "none"
    /\ call = [phase |-> "idle", rule |-> {}, key |-> 0, told |-> 0, tries |-> 0, attempt |-> 0,
               copy |-> 0, base |-> 0, asked |-> {}, seen |-> {0}, masked |-> FALSE, body |-> "none"]
    /\ object = 0
    /\ wire = {}
    /\ history = <<>>

Mine == {i \in 1 .. Len(history) : history[i].by = "caller"}
Others == [by |-> "other", key |-> 0, body |-> 0, base |-> Len(history)]
Newest(seen) == CHOOSE r \in seen : \A s \in seen : s <= r

-----------------------------------------------------------------------------
(* The calls.                                                              *)

\* A key of this call's own, or the one the last error told.
KeyFresh(rule) == IF "own" \in rule THEN 1 ELSE call.tries + 2        \* mutant: the told key is not used
Key(rule) ==
    IF rule \cap {"bare", "named"} # {} THEN 0
    ELSE IF "own" \in rule THEN 1
    ELSE IF call.told # 0 THEN call.told ELSE call.tries + 2

\* The revision an edit names is the last its author saw.
BaseCurrent == Len(history)                                            \* mutant: whatever is current
Base == IF call.told # 0 THEN call.base ELSE Newest(call.seen)

Begin(k, rule) ==
    /\ kind \in {"none", k} /\ kind' = k
    /\ call.phase \in {"idle", "raised"} /\ call.tries < MaxTries
    /\ call' = [call EXCEPT !.phase = "send", !.rule = rule, !.key = Key(rule), !.tries = @ + 1,
                            !.attempt = 0, !.copy = object, !.base = Base, !.asked = @ \cup {object}]
    /\ UNCHANGED <<object, wire, history>>

\* A creation's body is built from its arguments, and shares the list of network
\* permissions with the caller.
CreatePayload == {"checked"}

\* Sandboxes.
Create         == Begin("Sandboxes.create", CreatePayload)
AsyncCreate    == Begin("AsyncSandboxes.create", CreatePayload)
Exec           == Begin("Sandbox.exec", {"copied", "checked"})
AsyncExec      == Begin("AsyncSandbox.exec", {"copied", "checked"})
Lifecycle      == Begin("Sandbox.sleep, wake", {"copied", "checked"})
Terminate      == Begin("Sandbox.terminate", {"copied", "checked"})
AsyncTerminate == Begin("AsyncSandbox.terminate", {"copied", "checked"})
Write          == Begin("SandboxExec.write", {"copied"})
AsyncWrite     == Begin("AsyncSandboxExec.write", {"copied"})
Guest          == Begin("Sandbox.request", {"bare", "single"})
AsyncGuest     == Begin("AsyncSandbox.request", {"bare", "single"})
Connect        == Begin("Connections.create", {"bare", "single", "copied"})
AsyncConnect   == Begin("AsyncConnections.create", {"bare", "single", "copied"})

\* Workloads, secrets and SSH keys; adding a key that is saved succeeds.
Freeze         == Begin("Client.freeze", {"bare", "copied", "checked"})
AsyncFreeze    == Begin("AsyncClient.freeze", {"bare", "copied", "checked"})
Resume         == Begin("Client.resume", {"bare", "copied", "checked"})
AsyncResume    == Begin("AsyncClient.resume", {"bare", "copied", "checked"})
Cancel         == Begin("Client.cancel", {"copied"})
Benchmark      == Begin("Client.benchmark", {"own"})
AsyncBenchmark == Begin("AsyncClient.benchmark", {"own"})
PutSecret      == Begin("Secrets.put", {"bare", "copied"})
AsyncPutSecret == Begin("AsyncSecrets.put", {"bare", "copied"})
AddKey         == Begin("SSHKeys.add", {"named", "copied"})
AsyncAddKey    == Begin("AsyncSSHKeys.add", {"named", "copied"})

\* Durable runs of a sandbox: a run or an event is its own identity.
CreateRun        == Begin("AgentRuns.create", {"named", "copied"})
AsyncCreateRun   == Begin("AsyncAgentRuns.create", {"named", "copied"})
SubmitEvent      == Begin("AgentEvents.submit", {"named", "copied"})
AsyncSubmitEvent == Begin("AsyncAgentEvents.submit", {"named", "copied"})

\* Managed agents.
Control          == Begin("ManagedAgent.pause, resume", {"copied", "checked"})
UpdateAgent      == Begin("ManagedAgent.update", {"patch", "checked", "revised"})
SubmitRun        == Begin("ManagedRuns.submit", {"own", "checked"})
RetryRun         == Begin("ManagedRun.retry", {"copied", "checked"})
SignalRun        == Begin("ManagedRun.signal", {"own", "checked"})
CancelRun        == Begin("ManagedRun.cancel", {"copied", "checked"})
ResolveRun       == Begin("ManagedRun.resolve", {"copied", "revised"})
AsyncControl     == Begin("AsyncManagedAgent._control", {"copied", "checked"})
AsyncUpdateAgent == Begin("AsyncManagedAgent.update", {"patch", "checked", "revised"})
AsyncSubmitRun   == Begin("AsyncManagedRuns.submit", {"own", "checked"})
AsyncRetryRun    == Begin("AsyncManagedRun.retry", {"copied", "checked"})
AsyncSignalRun   == Begin("AsyncManagedRun.signal", {"own", "checked"})
AsyncCancelRun   == Begin("AsyncManagedRun.cancel", {"copied", "checked"})
AsyncResolveRun  == Begin("AsyncManagedRun.resolve", {"copied", "revised"})

\* Operations and training.
UpdateDraft      == Begin("Operations.update_run_draft", {"bare", "copied", "checked", "revised"})
AsyncUpdateDraft == Begin("AsyncOperations.update_run_draft", {"bare", "copied", "checked", "revised"})
Submit           == Begin("Operations.submit", {"own", "copied", "checked"})
AsyncSubmit      == Begin("AsyncOperations.submit", {"own", "copied", "checked"})
RunExample       == Begin("RL.run_example", {"own", "copied", "checked"})
AsyncRunExample  == Begin("AsyncRL.run_example", {"own", "copied", "checked"})
LaunchRun        == Begin("RL.launch", {"own", "copied", "checked"})
AsyncLaunchRun   == Begin("AsyncRL.launch", {"own", "copied", "checked"})

\* The tools of the MCP server: one request each, the model's own key.
Tool(k, rule) == Begin(k, {"own", "single", "copied"} \cup rule)
SubmitTool      == Tool("submit_workload", {})
CreateTool      == Tool("create_sandbox", {})
CommandTool     == Tool("submit_sandbox_command", {})
SandboxTools    == Tool("sandbox_files, sleep, wake, terminate", {})
AgentTools      == \/ Tool("create_agent", {})
                   \/ Tool("update_agent", {"revised"})
RunTool         == Tool("submit_agent_run", {})
RunControlTools == Tool("signal, pause, resume, retry, cancel", {})
WorkspaceTools  == \/ Tool("create, start, stop, delete_workspace", {})
                   \/ Tool("configure_workspace", {"revised"})
JobTool         == Tool("run_in_workspace", {})
ScheduleTools   == Tool("schedule_workspace, cancel_workspace_schedule", {})

\* Sandbox.__exit__: the block has ended, with or without an exception, and
\* the sandbox is terminated unless the handle saw that it is.
Exit ==
    \E body \in {"ended", "raised"} :
        \/ /\ kind = "none" /\ kind' = "with"
           /\ call' = [call EXCEPT !.phase = "send", !.rule = {"copied", "checked"}, !.key = 2,
                                   !.tries = MaxTries, !.body = body, !.asked = {object}]
           /\ UNCHANGED <<object, wire, history>>
        \/ /\ kind = "none" /\ kind' = "with"
           /\ history' = <<Others>>                    \* it had ended, and the handle saw it
           /\ call' = [call EXCEPT !.phase = IF body = "ended" THEN "left" ELSE "thrown", !.body = body]
           /\ UNCHANGED <<object, wire>>

\* What the termination raises is dropped for the exception of the block only.
SwallowsAll == TRUE                                                    \* mutant: dropped always
Swallows == call.body = "raised"

Leave ==
    /\ kind = "with" /\ call.phase \in {"returned", "raised"}
    /\ call' = [call EXCEPT !.phase =
           IF call.body = "ended" /\ (call.phase = "returned" \/ Swallows) THEN "left" ELSE "thrown"]
    /\ UNCHANGED <<kind, object, wire, history>>

\* The caller reads the current revision before it decides on an edit; an answer
\* that is no draft shows it nothing.
Read ==
    /\ call.phase \in {"idle", "raised"} /\ call.told = 0
    /\ call' = [call EXCEPT !.seen = @ \cup {Len(history)}]
    /\ UNCHANGED <<kind, object, wire, history>>

-----------------------------------------------------------------------------
(* The transport.                                                          *)

\* httpx encodes the body at every attempt: from the copy, or from the
\* objects of the caller.
PayloadShared == object                                                \* mutant: _payload without its copy
Payload == IF "copied" \in call.rule THEN call.copy ELSE object

Send ==
    /\ call.phase = "send"
    /\ call' = [call EXCEPT !.phase = "sent", !.attempt = @ + 1]
    /\ wire' = wire \cup {[try |-> call.tries, attempt |-> call.attempt + 1, key |-> call.key,
                           body |-> Payload, base |-> call.base]}
    /\ UNCHANGED <<kind, object, history>>

Returned(revision) == [call EXCEPT !.phase = "returned", !.seen = @ \cup {revision}]
\* An error of _unreached names the key; one of _raise does not, and to its
\* reader what was attempted before it did not happen.
RaisedNaming == [call EXCEPT !.phase = "raised", !.told = call.key]
RaisedBare   == [call EXCEPT !.phase = "raised", !.told = 0, !.masked = @ \/ wire # {} \/ Mine # {}]

\* A freeze, a resumption or a draft the answer does not confirm: an error with no key.
Unconfirmed == RaisedBare

Again == "single" \notin call.rule /\ call.attempt < MaxAttempts

NoAnswer ==
    /\ call.phase = "sent"
    /\ call' = IF Again THEN [call EXCEPT !.phase = "send"] ELSE RaisedNaming
    /\ UNCHANGED <<kind, object, wire, history>>

\* A status that may be repeated: it says nothing of what the service does.
Busy ==
    /\ call.phase = "sent"
    /\ call' = IF Again /\ "patch" \notin call.rule THEN [call EXCEPT !.phase = "send"] ELSE RaisedBare
    /\ UNCHANGED <<kind, object, wire, history>>

\* A success that is no receipt: without an identity, with another's, or not
\* of the service at all.
MisreadTrusted ==                                                      \* mutant: receipts are not checked
    /\ call.phase = "sent"
    /\ call' = Returned(0)
    /\ UNCHANGED <<kind, object, wire, history>>
Misread ==
    /\ call.phase = "sent"
    /\ call' = IF "checked" \notin call.rule THEN Returned(0)
               ELSE IF "bare" \in call.rule THEN Unconfirmed ELSE RaisedNaming
    /\ UNCHANGED <<kind, object, wire, history>>

\* Ctrl-C, or the task is cancelled: the exception carries nothing, but what
\* an earlier error told is still known.
Interrupted ==
    /\ call.phase \in {"send", "sent"}
    /\ call' = [call EXCEPT !.phase = "raised",
                            !.masked = @ \/ (call.told = 0 /\ (wire # {} \/ Mine # {}))]
    /\ UNCHANGED <<kind, object, wire, history>>

-----------------------------------------------------------------------------
(* The service, and others.                                                *)

SameEdit(entry, r) == entry.by = "caller" /\ entry.body = r.body /\ entry.base = r.base
Known(r) ==
    \/ r.key # 0 /\ \E i \in Mine : history[i].key = r.key
    \/ "named" \in call.rule /\ Mine # {}
    \/ {"bare", "revised"} \subseteq call.rule /\ history # <<>> /\ SameEdit(history[Len(history)], r)
Replayed(r) ==
    IF r.key # 0 THEN {i \in Mine : history[i].key = r.key /\ SameEdit(history[i], r)}
    ELSE {i \in Mine : SameEdit(history[i], r)}
Stale(r) == "revised" \in call.rule /\ r.base # Len(history)
Waits(r) == call.phase = "sent" /\ call.tries = r.try /\ call.attempt = r.attempt

\* A request arrives: applied, replayed, or refused.  Its answer reaches the
\* attempt that waits for it, or nobody.
Arrive(r) ==
    /\ wire' = wire \ {r}
    /\ \/ /\ ~Known(r) /\ ~Stale(r)
          /\ history' = Append(history, [by |-> "caller", key |-> r.key, body |-> r.body, base |-> r.base])
          /\ call' \in {call} \cup (IF Waits(r) THEN {Returned(Len(history) + 1)} ELSE {})
       \/ /\ Known(r) /\ UNCHANGED history
          /\ call' \in {call} \cup (IF ~Waits(r) THEN {} ELSE IF Replayed(r) = {} THEN {RaisedBare}
                                    ELSE {Returned(Newest(Replayed(r)))})
       \/ /\ ~Known(r) /\ UNCHANGED history         \* stale, or refused for a reason of its own
          /\ call' \in {call} \cup (IF Waits(r) THEN {RaisedBare} ELSE {})
    /\ UNCHANGED <<kind, object>>

\* Somebody else edits the same thing, or ends the same sandbox.
Other ==
    /\ \A i \in 1 .. Len(history) : history[i].by = "caller"
    /\ kind = "with" \/ "revised" \in call.rule
    /\ history' = Append(history, Others)
    /\ UNCHANGED <<kind, call, object, wire>>

\* Other code of the caller's program edits the objects of a call in flight.
Edit ==
    /\ call.phase \in {"send", "sent"} /\ object = 0
    /\ object' = 1
    /\ UNCHANGED <<kind, call, wire, history>>

WorkloadCall == Freeze \/ AsyncFreeze \/ Resume \/ AsyncResume \/ Cancel \/ Benchmark \/ AsyncBenchmark
                \/ PutSecret \/ AsyncPutSecret \/ AddKey \/ AsyncAddKey
SandboxCall == Create \/ AsyncCreate \/ Exec \/ AsyncExec \/ Lifecycle \/ Terminate \/ AsyncTerminate \/ Write \/ AsyncWrite
               \/ Guest \/ AsyncGuest \/ Connect \/ AsyncConnect \/ Exit
DurableCall == CreateRun \/ AsyncCreateRun \/ SubmitEvent \/ AsyncSubmitEvent
AgentCall == Control \/ UpdateAgent \/ SubmitRun \/ RetryRun \/ SignalRun \/ CancelRun \/ ResolveRun
AsyncAgentCall == AsyncControl \/ AsyncUpdateAgent \/ AsyncSubmitRun \/ AsyncRetryRun
                  \/ AsyncSignalRun \/ AsyncCancelRun \/ AsyncResolveRun
OperationCall == UpdateDraft \/ AsyncUpdateDraft \/ Submit \/ AsyncSubmit
                 \/ RunExample \/ AsyncRunExample \/ LaunchRun \/ AsyncLaunchRun
ToolCall == SubmitTool \/ CreateTool \/ CommandTool \/ SandboxTools \/ AgentTools \/ RunTool
            \/ RunControlTools \/ WorkspaceTools \/ JobTool \/ ScheduleTools

Next ==
    \/ WorkloadCall \/ SandboxCall \/ DurableCall \/ AgentCall \/ AsyncAgentCall \/ OperationCall \/ ToolCall
    \/ Leave \/ Read \/ Send \/ NoAnswer \/ Busy \/ Misread \/ Interrupted
    \/ \E r \in wire : Arrive(r)
    \/ Other \/ Edit

Spec == Init /\ [][Next]_vars

-----------------------------------------------------------------------------
(* What a caller wants once happens once, however often the transport and  *)
(* the caller repeat it: under the caller's own key or identity always,    *)
(* under a made-up key unless an error that names none hid it              *)
(* (_sandboxes.py:85-100, _managed_agents.py:72-85), and an unprotected    *)
(* request once per call (_sandboxes.py:753-765).                          *)
OneEffectPerWish ==
    /\ {"single", "bare"} \subseteq call.rule => Cardinality(Mine) <= call.tries
    /\ "bare" \notin call.rule =>
          Cardinality(Mine) <= 1 \/ (call.masked /\ call.rule \cap {"own", "named"} = {})

(* A receipt is of the caller's own request: a call that checks it and     *)
(* returns has taken effect (_managed_agents.py:72-85, _operations.py:169- *)
(* 187, 249-257).                                                          *)
ReturnedIsDone == call.phase = "returned" /\ "checked" \in call.rule => Mine # {}

(* An edit is applied to a revision its author has seen: nobody's edit in  *)
(* between is undone, also when calls are repeated                         *)
(* (_managed_agents.py:181-190, _operations.py:287-290).                   *)
NoEditUndone == "revised" \in call.rule => \A i \in Mine : i - 1 \in call.seen

(* A copied body is applied as it was when a call began, whatever the      *)
(* program does to the objects while attempts are repeated                 *)
(* (_operations.py:142-149).                                               *)
AppliedAsAsked == "copied" \in call.rule => \A i \in Mine : history[i].body \in call.asked

(* A with-block that ends without an exception leaves no sandbox running   *)
(* (_sandboxes.py:722-731).                                                *)
QuietExit == call.phase = "left" => history # <<>>

TypeOK ==
    /\ call.phase \in {"idle", "send", "sent", "returned", "raised", "left", "thrown"}
    /\ call.tries \in 0 .. MaxTries /\ call.attempt \in 0 .. MaxAttempts
    /\ object \in {0, 1}
    /\ \A r \in wire : r.try \in 1 .. MaxTries /\ r.attempt \in 1 .. MaxAttempts
=============================================================================
