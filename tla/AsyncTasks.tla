----------------------------- MODULE AsyncTasks -----------------------------
(***************************************************************************)
(* A task of an event loop that submits and waits with AsyncClient         *)
(* (nodus/__init__.py), while it may be cancelled at every await, more     *)
(* than once, and the loop be closed.  A cancelled wait() asks the control *)
(* plane, which is not in this repository, to cancel the workload, in a    *)
(* shielded task of its own.  An application that has its own key submits  *)
(* again when a run() was cancelled or failed.                             *)
(***************************************************************************)
EXTENDS Integers, FiniteSets

CONSTANTS
    MaxRetries,   \* the client's max_retries
    MaxRuns       \* bound: run() calls

AsyncTasksAssumption == MaxRetries \in Nat /\ MaxRuns \in Nat \ {0}

VARIABLES
    explicit,   \* the application supplies its own idempotency key
    task,       \* [at, runs, key, told]: the application's task
    requests,   \* "run", "cancel" -> [at, attempt]: AsyncClient._request
    afloat,     \* keys of requests that are unanswered and may yet arrive
    service     \* [accepted, cancelled, over]

vars == <<explicit, task, requests, afloat, service>>

Keys == 0 .. MaxRuns        \* the application's own, or that of a run() call
CancelKey == MaxRuns + 1
Over == {"returned", "timeout", "raised", "closed"}

TypeOK ==
    /\ explicit \in BOOLEAN
    /\ task \in [at: {"idle", "run", "wait", "cancelling"} \cup Over, runs: 0 .. MaxRuns,
                 key: Keys, told: BOOLEAN]
    /\ requests \in [{"run", "cancel"} ->
           [at: {"off", "sent", "hold", "answered", "failed", "dropped"}, attempt: 0 .. MaxRetries]]
    /\ afloat \subseteq Keys \cup {CancelKey}
    /\ service \in [accepted: SUBSET Keys, cancelled: BOOLEAN, over: BOOLEAN]

Init ==
    /\ explicit \in BOOLEAN
    /\ task = [at |-> "idle", runs |-> 0, key |-> 0, told |-> FALSE]
    /\ requests = [r \in {"run", "cancel"} |-> [at |-> "off", attempt |-> 0]]
    /\ afloat = {}
    /\ service = [accepted |-> {}, cancelled |-> FALSE, over |-> FALSE]

-----------------------------------------------------------------------------
(* AsyncClient._request, of a submission and of a cancellation.            *)

Sent(r) == requests' = [requests EXCEPT ![r] = [at |-> "sent", attempt |-> 0]]
Carried(r) == IF r = "run" THEN task.key ELSE CancelKey

Receive(r, carried) ==
    service' = IF r = "run" THEN [service EXCEPT !.accepted = @ \cup {carried}]
               ELSE [service EXCEPT !.cancelled = TRUE]

Answered(r) ==
    /\ requests[r].at = "sent"
    /\ requests' = [requests EXCEPT ![r].at = "answered"]
    /\ Receive(r, Carried(r))
    /\ UNCHANGED <<explicit, task, afloat>>

Retried(r) == [requests[r] EXCEPT !.at = IF @ = "sent" /\ requests[r].attempt < MaxRetries
                                         THEN "hold" ELSE "failed"]

\* A time-out, a lost connection, or a status that is retried: the request may
\* have arrived, may yet, or never will.
NotAnswered(r) ==
    /\ requests[r].at = "sent"
    /\ requests' = [requests EXCEPT ![r] = Retried(r)]
    /\ \/ afloat' = afloat \cup {Carried(r)}
       \/ UNCHANGED afloat
    /\ UNCHANGED <<explicit, task, service>>

\* Any other status or a redirect, and nothing is done; or an answer that cannot be
\* read or names no workload.
Unusable(r) ==
    /\ requests[r].at = "sent"
    /\ requests' = [requests EXCEPT ![r].at = "failed"]
    /\ \/ UNCHANGED service
       \/ Receive(r, Carried(r))
    /\ UNCHANGED <<explicit, task, afloat>>

\* asyncio.sleep is over: the next attempt carries the same headers.
SendAgain(r) ==
    /\ requests[r].at = "hold"
    /\ requests' = [requests EXCEPT ![r] = [at |-> "sent", attempt |-> @.attempt + 1]]
    /\ UNCHANGED <<explicit, task, afloat, service>>

\* The task that makes the request is cancelled inside it.
Dropped(r) ==
    /\ requests' = [requests EXCEPT ![r].at = "dropped"]
    /\ \/ requests[r].at = "sent" /\ afloat' = afloat \cup {Carried(r)}
       \/ UNCHANGED afloat

Arrives(carried) ==
    /\ afloat' = afloat \ {carried}
    /\ Receive(IF carried = CancelKey THEN "cancel" ELSE "run", carried)
    /\ UNCHANGED <<explicit, task, requests>>

-----------------------------------------------------------------------------
(* The task.                                                               *)

KeyFresh == task.runs + 1                               \* mutant: the caller's key is not used
KeyOf == IF explicit THEN 0 ELSE task.runs + 1

Run ==
    /\ task.at = "idle" /\ task.runs < MaxRuns
    /\ task' = [task EXCEPT !.at = "run", !.runs = @ + 1, !.key = KeyOf]
    /\ Sent("run")
    /\ UNCHANGED <<explicit, afloat, service>>

\* A handle to wait on, or an error after which the application submits again.
RunEnds ==
    /\ task.at = "run" /\ requests["run"].at \in {"answered", "failed"}
    /\ task' = [task EXCEPT !.at = IF requests["run"].at = "answered" THEN "wait" ELSE "idle"]
    /\ UNCHANGED <<explicit, requests, afloat, service>>

RunCancelled ==
    /\ task.at = "run" /\ requests["run"].at \in {"sent", "hold"}
    /\ task' = [task EXCEPT !.at = "idle"]
    /\ Dropped("run")
    /\ UNCHANGED <<explicit, service>>

\* wait: a poll sees the workload over; or the deadline passes, or a read fails for
\* good, which cancels nothing.
WaitEnds ==
    /\ task.at = "wait"
    /\ \/ service.over /\ task' = [task EXCEPT !.at = "returned"]
       \/ task' = [task EXCEPT !.at = "timeout"]
    /\ UNCHANGED <<explicit, requests, afloat, service>>

\* CancelledError or KeyboardInterrupt at any await of the wait: a cancellation
\* with a key of its own, in a task that is shielded.
WaitCancelled ==
    /\ task.at = "wait"
    /\ task' = [task EXCEPT !.at = "cancelling"]
    /\ Sent("cancel")
    /\ UNCHANGED <<explicit, afloat, service>>

ToldNever(confirmed) == FALSE                           \* mutant: a failed cancellation is not mentioned
ToldOf(confirmed) == ~confirmed

\* The interruption is raised again, with a note when the cancellation failed.
CancelEnds ==
    /\ task.at = "cancelling" /\ requests["cancel"].at \in {"answered", "failed"}
    /\ task' = [task EXCEPT !.at = "raised", !.told = ToldOf(requests["cancel"].at = "answered")]
    /\ UNCHANGED <<explicit, requests, afloat, service>>

CancelledAgainBare ==                                   \* mutant: the cancellation is not shielded
    /\ task.at = "cancelling" /\ requests["cancel"].at \in {"sent", "hold"}
    /\ task' = [task EXCEPT !.at = "raised", !.told = ToldOf(FALSE)]
    /\ Dropped("cancel")
    /\ UNCHANGED <<explicit, service>>

\* Cancelled again: the wait ends, the shielded task goes on.
CancelledAgain ==
    /\ task.at = "cancelling" /\ requests["cancel"].at \in {"sent", "hold"}
    /\ task' = [task EXCEPT !.at = "raised", !.told = ToldOf(FALSE)]
    /\ UNCHANGED <<explicit, requests, afloat, service>>

\* The loop ends and cancels what it still runs.
LoopCloses ==
    /\ task.at \in Over \ {"closed"} /\ task' = [task EXCEPT !.at = "closed"]
    /\ IF requests["cancel"].at \in {"sent", "hold"} THEN Dropped("cancel") ELSE UNCHANGED <<requests, afloat>>
    /\ UNCHANGED <<explicit, service>>

Concludes ==
    /\ service.accepted # {} /\ ~service.over
    /\ service' = [service EXCEPT !.over = TRUE]
    /\ UNCHANGED <<explicit, task, requests, afloat>>

Next ==
    \/ \E r \in {"run", "cancel"} : Answered(r) \/ NotAnswered(r) \/ Unusable(r) \/ SendAgain(r)
    \/ \E carried \in afloat : Arrives(carried)
    \/ Run \/ RunEnds \/ RunCancelled \/ WaitEnds \/ WaitCancelled \/ CancelEnds
    \/ CancelledAgain \/ LoopCloses \/ Concludes

Spec == Init /\ [][Next]_vars

-----------------------------------------------------------------------------
(* Submitting under one key again after a run() was cancelled or failed    *)
(* buys no second workload, wherever the earlier request still is          *)
(* (nodus/__init__.py:1761-1767).                                          *)
OneWorkload == Cardinality(service.accepted) <= IF explicit THEN 1 ELSE task.runs

(* A wait that was interrupted does not end in silence: the control plane  *)
(* received the cancellation, or the error says it is not confirmed        *)
(* (nodus/__init__.py:2044-2050; docs/concepts/reliability.md:24-26).      *)
Interrupted == requests["cancel"].at # "off"
ToldOrCancelled ==
    Interrupted /\ task.at \in {"raised", "closed"} => service.cancelled \/ task.told

(* Cancelling the wait again does not take back the cancellation it asked  *)
(* for: it goes on until it is answered or its attempts are used up, while *)
(* the loop runs (nodus/__init__.py:2046).                                 *)
CancelPursued ==
    Interrupted /\ task.at # "closed" =>
        service.cancelled \/ requests["cancel"].at \in {"sent", "hold", "failed"}
=============================================================================
