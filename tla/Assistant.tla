------------------------------ MODULE Assistant ------------------------------
(***************************************************************************)
(* The single assistant (nodus/managed_assistant.py): one run per task of  *)
(* a session, whose turns accumulate in conversation.json.  The answer of  *)
(* a run is one durable step (nodus/_steps.py) that reads the file, makes  *)
(* one model call, saves the file and is recorded with a checkpoint of it. *)
(* The driver may die anywhere; its replacement finds the files of the     *)
(* last checkpoint the journal has accepted.  Journal, checkpoints and     *)
(* model are not in this repository and are as in the fixture of           *)
(* tests/test_agent_models.py.                                             *)
(***************************************************************************)
EXTENDS Integers, Sequences, FiniteSetsExt, SequencesExt, Folds

CONSTANTS
    Sizes,        \* of tasks and answers
    MaxInput,     \* _MAX_INPUT, in the same unit
    MaxTurns,     \* complete turns a request of _MAX_MESSAGES may hold besides the task
    MaxRuns,      \* bound: runs of the session
    MaxDeaths     \* bound: drivers that die

AssistantAssumption ==
    /\ Sizes \subseteq Nat \ {0} /\ MaxInput \in Nat /\ MaxTurns \in Nat
    /\ MaxRuns \in Nat \ {0} /\ MaxDeaths \in Nat

VARIABLES
    tasks,         \* run -> size of its task
    run,           \* the run in progress
    conversation,  \* conversation.json: turns [run, size], oldest first
    restorable,    \* the file in the last accepted checkpoint
    captured,      \* the file in the checkpoint that is not accepted yet
    answer,        \* of this run: "none", "started" or "recorded" in the journal
    paid,          \* the model calls of this run: the messages of each
    turns,         \* history: the turns of the runs that were answered
    worker,        \* [at, messages, size]
    deaths

vars == <<tasks, run, conversation, restorable, captured, answer, paid, turns, worker, deaths>>

Turns == [run: 1 .. MaxRuns, size: Nat]

TypeOK ==
    /\ run \in 1 .. MaxRuns + 1 /\ tasks \in [1 .. MaxRuns -> Sizes]
    /\ conversation \in Seq(Turns) /\ restorable \in Seq(Turns) /\ captured \in Seq(Turns)
    /\ answer \in {"none", "started", "recorded"} /\ deaths \in 0 .. MaxDeaths
    /\ worker.at \in {"off", "claim", "read", "call", "save", "upload", "checkpoint", "complete",
                     "finish", "conflict", "unusable"}

Idle == [at |-> "off", messages |-> <<>>, size |-> 0]

Init ==
    /\ tasks \in [1 .. MaxRuns -> Sizes]
    /\ run = 1 /\ answer = "none" /\ paid = <<>> /\ turns = <<>>
    /\ conversation = <<>> /\ restorable = <<>> /\ captured = <<>>
    /\ worker = Idle /\ deaths = 0

Task == tasks[run]
NoText == 0               \* the size of a reply that is no text
At(place) == worker' = [worker EXCEPT !.at = place]

\* What follows what in _answer and in the step around it.
AfterSavedLast(at) ==                                   \* mutant: the file is saved after the step is recorded
    CASE at = "read" -> "call" [] at = "call" -> "upload" [] at = "upload" -> "checkpoint"
      [] at = "checkpoint" -> "complete" [] at = "complete" -> "save" [] at = "save" -> "finish"
After(at) ==
    CASE at = "read" -> "call" [] at = "call" -> "save" [] at = "save" -> "upload"
      [] at = "upload" -> "checkpoint" [] at = "checkpoint" -> "complete" [] at = "complete" -> "finish"

Total(history) == FoldLeft(LAMBDA sum, turn : sum + turn.size, 0, history)
Fits(history, task) == Total(history) + task <= MaxInput /\ Len(history) <= MaxTurns

\* _recent_messages: the oldest complete turns are dropped until the rest fits.
Recent(history, task) ==
    LET dropped == Min({ k \in 0 .. Len(history) : Fits(SubSeq(history, k + 1, Len(history)), task) })
    IN  SubSeq(history, dropped + 1, Len(history))

-----------------------------------------------------------------------------

\* main: a task that does not fit alone is refused before anything is paid.
Starts ==
    /\ worker.at = "off" /\ run <= MaxRuns
    /\ IF Fits(<<>>, Task)
       THEN At("claim") /\ UNCHANGED <<run, answer, paid>>
       ELSE run' = run + 1 /\ UNCHANGED <<worker, answer, paid>>
    /\ UNCHANGED <<tasks, conversation, restorable, captured, turns, deaths>>

\* claim: the recorded answer is replayed, else the step is executed.
Claims ==
    /\ worker.at = "claim"
    /\ IF answer = "recorded" THEN At("finish") /\ UNCHANGED answer
       ELSE At("read") /\ answer' = "started"
    /\ UNCHANGED <<tasks, run, conversation, restorable, captured, paid, turns, deaths>>

Reads ==
    /\ worker.at = "read"
    /\ worker' = [worker EXCEPT !.at = After("read"), !.messages = Recent(conversation, Task)]
    /\ UNCHANGED <<tasks, run, conversation, restorable, captured, answer, paid, turns, deaths>>

\* model_begin under call_id "answer": the first one is paid, one with the same
\* input gets its reply, one with another input is a conflict.
Calls ==
    /\ worker.at = "call"
    /\ IF paid = <<>>
       THEN \E size \in Sizes \cup {NoText} :
               /\ paid' = <<[messages |-> worker.messages, size |-> size]>>
               /\ worker' = [worker EXCEPT !.at = IF size = NoText THEN "unusable" ELSE After("call"), !.size = size]
       ELSE /\ worker' = IF paid[1].messages = worker.messages
                         THEN [worker EXCEPT !.at = IF paid[1].size = NoText THEN "unusable" ELSE After("call"),
                                             !.size = paid[1].size]
                         ELSE [worker EXCEPT !.at = "conflict"]
            /\ UNCHANGED paid
    /\ UNCHANGED <<tasks, run, conversation, restorable, captured, answer, turns, deaths>>

\* _response_text: a reply that is no text fails the session, and every later one
\* of the run; the host gives the run up sooner or later.
Refuses ==
    /\ worker.at = "unusable"
    /\ worker' = Idle /\ conversation' = restorable
    /\ \/ UNCHANGED <<run, answer, paid>>
       \/ run' = run + 1 /\ answer' = "none" /\ paid' = <<>>
    /\ UNCHANGED <<tasks, restorable, captured, turns, deaths>>

\* The file is staged, flushed and renamed into place.
Saves ==
    /\ worker.at = "save" /\ At(After("save"))
    /\ conversation' = Append(worker.messages, [run |-> run, size |-> Task + worker.size])
    /\ UNCHANGED <<tasks, run, restorable, captured, answer, paid, turns, deaths>>

\* _saved_answer: an answer too large for a record is first stored as an artifact.
Uploads ==
    /\ worker.at = "upload" /\ At(After("upload"))
    /\ UNCHANGED <<tasks, run, conversation, restorable, captured, answer, paid, turns, deaths>>

CheckpointsAlone ==                                     \* mutant: the checkpoint does not name the step it belongs to
    /\ worker.at = "checkpoint" /\ At(After("checkpoint"))
    /\ captured' = conversation /\ restorable' = conversation
    /\ UNCHANGED <<tasks, run, conversation, answer, paid, turns, deaths>>

Checkpoints ==
    /\ worker.at = "checkpoint" /\ At(After("checkpoint"))
    /\ captured' = conversation
    /\ UNCHANGED <<tasks, run, conversation, restorable, answer, paid, turns, deaths>>

\* complete records the answer and accepts the checkpoint that came with it.
Completes ==
    /\ worker.at = "complete" /\ At(After("complete"))
    /\ answer' = "recorded" /\ restorable' = captured
    /\ turns' = Append(turns, [run |-> run, size |-> Task + worker.size])
    /\ UNCHANGED <<tasks, run, conversation, captured, paid, deaths>>

\* finish, with a checkpoint of its own; the session's next run may start.
Finishes ==
    /\ worker.at = "finish"
    /\ restorable' = conversation /\ captured' = conversation
    /\ run' = run + 1 /\ answer' = "none" /\ paid' = <<>> /\ worker' = Idle
    /\ UNCHANGED <<tasks, conversation, turns, deaths>>

\* The driver dies, or a call of it fails and its session with it; the next one is
\* given the restorable files.
Dies ==
    /\ worker.at # "off" /\ deaths < MaxDeaths /\ deaths' = deaths + 1
    /\ worker' = Idle /\ conversation' = restorable
    /\ UNCHANGED <<tasks, run, restorable, captured, answer, paid, turns>>

Next ==
    \/ Starts \/ Claims \/ Reads \/ Calls \/ Refuses \/ Saves \/ Uploads \/ Checkpoints \/ Completes \/ Finishes
    \/ Dies

Spec == Init /\ [][Next]_vars

-----------------------------------------------------------------------------
(* The saved conversation holds the most recent turns that were answered,  *)
(* whole, in order and each once, the last one among them: a restored      *)
(* driver neither forgets the turn whose answer is recorded nor sees one   *)
(* that is not (managed_assistant.py:62-94;                                *)
(* docs/guides/managed-agents.md:183-190).                                 *)
ConversationKept ==
    /\ IsSuffix(restorable, turns)
    /\ turns # <<>> => restorable # <<>>

(* However often the answer is attempted, its model call has the input of  *)
(* the first attempt, and so is paid once (managed_assistant.py:78-86).    *)
AskedOnce == worker.at # "conflict"
=============================================================================
