---------------------------- MODULE AgentJournal ----------------------------
(***************************************************************************)
(* The run journal behind the private agent socket.  Its implementation is *)
(* not in this repository: it is modelled from what nodus/_agent.py and    *)
(* nodus/_steps.py send and how they read the answers, with the journal    *)
(* fixture of tests/test_agent_steps.py as the example of a server.        *)
(*                                                                         *)
(* A session of the run is identified by its epoch.  A request of any      *)
(* session but the newest is refused (the "scope" every request carries).  *)
(* A step's grant is identified by its claim token; here the tokens of a   *)
(* step are 1, 2, ... in the order they are granted, and the JSON result   *)
(* recorded for a step is abstracted to the token of the execution that    *)
(* produced it, or whose verified files an operator selected with it (0: a *)
(* result an operator supplied without the files of any execution).        *)
(***************************************************************************)
EXTENDS Naturals

CONSTANTS
    StepCount,    \* the entrypoint calls steps 1 .. StepCount in this order
    Effect,       \* the declared effect of each step
    Recovery,     \* TRUE: the run's recovery policy is "checkpoint-v1"
    MaxSessions   \* bound: sessions opened on the run

Effects == {"external", "pure", "idempotent"}

ASSUME JournalAssumption ==
    /\ StepCount \in Nat \ {0}
    /\ Effect \in [1 .. StepCount -> Effects]
    /\ Recovery \in BOOLEAN
    /\ MaxSessions \in Nat \ {0}

StepIds  == 1 .. StepCount
Sessions == 1 .. MaxSessions

VARIABLES
    epoch,        \* the newest session (0: none yet)
    run,          \* "active", "completed", or what an operator made of it
    entry,        \* step -> its journal record
    checkpoint,   \* session -> its latest checkpoint request
    image,        \* committed state version: the <<step, token>> writes in it
    baseline      \* a first state version has been committed

journalVars == <<epoch, run, entry, checkpoint, image, baseline>>

\* "resolved": saved state was selected, and no session restored it yet.
RunStatus   == {"active", "resolved", "completed", "cancelled"}
EntryStatus == {"absent", "started", "unknown", "cleared", "completed"}
Operations  == {"baseline", "step", "finish"}
Writes      == StepIds \X Nat

Calls == (0 .. MaxSessions) \X Nat

Entries == [status: EntryStatus, token: Nat, call: Calls, result: Nat]
Checkpoints == [op: Operations, step: Nat, token: Nat,
                status: {"none", "pending", "ready", "failed", "committed"},
                files: SUBSET Writes]

JournalTypeOK ==
    /\ epoch \in 0 .. MaxSessions
    /\ run \in RunStatus
    /\ entry \in [StepIds -> Entries]
    /\ checkpoint \in [Sessions -> Checkpoints]
    /\ image \in SUBSET Writes
    /\ baseline \in BOOLEAN

JournalInit ==
    /\ epoch = 0
    /\ run = "active"
    /\ entry = [s \in StepIds |-> [status |-> "absent", token |-> 0,
                                   call |-> <<0, 0>>, result |-> 0]]
    /\ checkpoint = [d \in Sessions |-> [op |-> "baseline", step |-> 0, token |-> 0,
                                         status |-> "none", files |-> {}]]
    /\ image = {}
    /\ baseline = FALSE

-----------------------------------------------------------------------------
(* Requests: [op, session, step, token, call].  "call" is the request_id:  *)
(* every attempt of one RPC carries the same one.                          *)

Current(r) == r.session = epoch /\ run = "active"

\* A step may be granted when it never ran, when an operator found that the
\* unknown attempt had no effect, or when repeating it is declared safe.
MayExecute(s) ==
    \/ entry[s].status \in {"absent", "cleared"}
    \/ entry[s].status = "unknown" /\ Effect[s] # "external"

Regrants(r) == entry[r.step].status = "started" /\ entry[r.step].call = r.call

\* The decisions the journal may answer a claim with.  A resent claim whose
\* first answer was lost finds its own grant: the journal repeats the grant
\* or, as the fixture does, reports a competing execution.
ClaimDecisions(r) ==
    IF ~Current(r) THEN {"refused"}
    ELSE IF MayExecute(r.step) THEN {"execute"}
    ELSE IF entry[r.step].status = "completed" THEN {"replay"}
    ELSE IF Regrants(r) THEN {"execute", "unknown"}
    ELSE {"unknown"}

ClaimToken(r) ==
    IF MayExecute(r.step) THEN entry[r.step].token + 1 ELSE entry[r.step].token

Mark(e, status) ==
    [status |-> status, token |-> e.token, call |-> e.call, result |-> e.result]

JournalClaim(r) ==
    entry' = IF Current(r) /\ MayExecute(r.step)
             THEN [entry EXCEPT ![r.step] =
                      [status |-> "started", token |-> ClaimToken(r), call |-> r.call,
                       result |-> 0]]
             ELSE entry

Holds(r) == Current(r) /\ entry[r.step].token = r.token

UnknownAcked(r) == Holds(r) /\ entry[r.step].status \in {"started", "unknown"}

JournalUnknown(r) ==
    entry' = IF UnknownAcked(r)
             THEN [entry EXCEPT ![r.step] = Mark(@, "unknown")]
             ELSE entry

\* The checkpoint a completion or a finish names must be verified and be the
\* one begun for exactly this operation.
Verified(r, op) ==
    Recovery => /\ checkpoint[r.session].status = "ready"
                /\ checkpoint[r.session].op = op
                /\ checkpoint[r.session].step = r.step
                /\ checkpoint[r.session].token = r.token

Commits(r) == Holds(r) /\ entry[r.step].status = "started" /\ Verified(r, "step")

CompleteAcked(r) ==
    \/ Commits(r)
    \/ Holds(r) /\ entry[r.step].status = "completed" /\ entry[r.step].result = r.token

\* The result and its state version commit together.
JournalComplete(r) ==
    IF Commits(r)
    THEN /\ entry' = [entry EXCEPT ![r.step] =
                         [status |-> "completed", token |-> r.token, call |-> @.call,
                          result |-> r.token]]
         /\ image' = IF Recovery THEN checkpoint[r.session].files ELSE image
    ELSE UNCHANGED <<entry, image>>

FinishAcked(r) ==
    /\ r.session = epoch
    /\ \/ run = "completed"
       \/ run = "active" /\ Verified(r, "finish")

JournalFinish(r) ==
    IF Current(r) /\ Verified(r, "finish")
    THEN /\ run' = "completed"
         /\ image' = IF Recovery THEN checkpoint[r.session].files ELSE image
    ELSE UNCHANGED <<run, image>>

\* Every operation that can still be applied after its client stopped waiting.
JournalLate(r) ==
    /\ \/ r.op = "claim"    /\ JournalClaim(r)    /\ UNCHANGED <<run, image>>
       \/ r.op = "unknown"  /\ JournalUnknown(r)  /\ UNCHANGED <<run, image>>
       \/ r.op = "complete" /\ JournalComplete(r) /\ UNCHANGED run
       \/ r.op = "finish"   /\ JournalFinish(r)   /\ UNCHANGED entry
    /\ UNCHANGED <<epoch, checkpoint, baseline>>

\* A new session fences the older ones; what they had started is unknown.
JournalOpen(d) ==
    /\ epoch' = d
    /\ run' = "active"
    /\ entry' = [s \in StepIds |->
                    IF entry[s].status = "started"
                    THEN Mark(entry[s], "unknown") ELSE entry[s]]
    /\ UNCHANGED <<checkpoint, image, baseline>>

JournalBegin(r, op) ==
    checkpoint' = [checkpoint EXCEPT ![r.session] =
                      [op |-> op, step |-> r.step, token |-> r.token,
                       status |-> "pending", files |-> {}]]

\* The host verifies the files of a pending checkpoint; a baseline commits
\* by itself, the others wait for the operation that names them.
JournalCapture(d, files) ==
    LET isBase == checkpoint[d].op = "baseline" IN
    /\ checkpoint' = [checkpoint EXCEPT
                         ![d] = [op |-> @.op, step |-> @.step, token |-> @.token, files |-> files,
                                 status |-> IF isBase THEN "committed" ELSE "ready"]]
    /\ image' = IF isBase THEN files ELSE image
    /\ baseline' = (baseline \/ isBase)
    /\ UNCHANGED <<epoch, run, entry>>

JournalCaptureFails(d) ==
    /\ checkpoint' = [checkpoint EXCEPT
                         ![d] = [op |-> @.op, step |-> @.step, token |-> @.token,
                                 files |-> @.files, status |-> "failed"]]
    /\ UNCHANGED <<epoch, run, entry, image, baseline>>

-----------------------------------------------------------------------------
(* An operator's decision about an unknown external step, on evidence.     *)

Resolvable(s) == run \in {"active", "resolved"} /\ entry[s].status = "unknown"

Decisions == {"no_effect", "completed", "cancelled"}

Settled(e, result) ==
    [status |-> "completed", token |-> e.token, call |-> e.call, result |-> result]

\* The verified candidates of the uncertain execution that an operator may
\* select: none that would discard other completed progress.
Candidates(s) ==
    {d \in Sessions :
        /\ checkpoint[d].status = "ready" /\ checkpoint[d].op = "step"
        /\ checkpoint[d].step = s /\ checkpoint[d].token = entry[s].token
        /\ image \subseteq checkpoint[d].files}

\* "no_effect" permits one more attempt; "cancelled" stops the run;
\* "completed" records the verified result and keeps the committed state.
JournalDecide(s, decision) ==
    /\ entry' = CASE decision = "no_effect" -> [entry EXCEPT ![s] = Mark(entry[s], "cleared")]
                  [] decision = "completed" -> [entry EXCEPT ![s] = Settled(entry[s], 0)]
                  [] OTHER -> entry
    /\ run' = IF decision = "cancelled" THEN "cancelled" ELSE run
    /\ UNCHANGED image

\* "completed" with a candidate's checkpoint_id: result and files commit
\* together.  The sessions that did not start from these files are fenced.
JournalSelect(s, d) ==
    /\ entry' = [entry EXCEPT ![s] = Settled(entry[s], entry[s].token)]
    /\ image' = checkpoint[d].files
    /\ run' = "resolved"

JournalResolve(s, decision) ==
    /\ Resolvable(s)
    /\ \/ JournalDecide(s, decision)
       \/ decision = "completed" /\ \E d \in Candidates(s) : JournalSelect(s, d)
    /\ UNCHANGED <<epoch, checkpoint, baseline>>
=============================================================================
