----------------------------- MODULE AgentCalls ------------------------------
(***************************************************************************)
(* The calls a managed driver makes outside its steps and inside them      *)
(* under an identity of its own: paid completions through the broker       *)
(* (nodus/_agent_broker.py), hosted model calls (nodus/_agent_models.py),  *)
(* durable waits and the continuation that ends a segment (nodus/          *)
(* _agent.py).  The driver is replayed from the start by each new session, *)
(* and an older session may go on beside the new one.  The entrypoint is   *)
(* careless on purpose: it catches any error of a completion, whatever it  *)
(* says of the call, and tries again under a second invocation key.        *)
(*                                                                         *)
(* Shapes of receipts, bounds and hashes are abstracted to an answer that  *)
(* cannot be verified (NoAnswer).  A request of a session that is not the  *)
(* newest is refused, as everywhere behind the agent socket.               *)
(***************************************************************************)
EXTENDS Integers, Sequences, FiniteSets

CONSTANTS
    Program,       \* what the entrypoint calls, in order: one call at least
    Pages,         \* pages of a hosted model's reply
    MaxSessions    \* bound: sessions opened on the run

Kinds == {"broker", "model", "wait", "continue"}

AgentCallsAssumption ==
    /\ Program \in Seq(Kinds) /\ Program # <<>> /\ Pages \in Nat \ {0} /\ MaxSessions \in Nat \ {0}

VARIABLES
    epoch,      \* the newest session
    segment,    \* the run: "active", "waiting" for an event, "continued"
    call,       \* identity -> the service's record [state, paid]
    driver,     \* session -> [phase, at, attempt, page, failed, error, answers, again]
    transit     \* admissions on their way: <<session, identity>>

vars == <<epoch, segment, call, driver, transit>>

Sessions   == 1 .. MaxSessions
Identities == (1 .. Len(Program)) \X (1 .. 2)
States     == {"absent", "waiting", "dispatched", "completed", "rejected", "cancelled",
               "unknown", "expired"}

TypeOK ==
    /\ epoch \in 0 .. MaxSessions /\ segment \in {"active", "waiting", "continued"}
    /\ call \in [Identities -> [state: States, paid: 0 .. 1]]
    /\ transit \subseteq Sessions \X Identities
    /\ \A d \in Sessions :
          /\ driver[d].phase \in {"none", "run", "capture", "send", "reply", "poll", "raised",
                                  "yielded", "returned", "dead"}
          /\ driver[d].at \in 1 .. Len(Program) + 1 /\ driver[d].attempt \in 1 .. 2
          /\ driver[d].page \in 0 .. Pages /\ driver[d].failed \in BOOLEAN
          /\ driver[d].error \in {"", "refused", "expired", "unavailable", "unknown"}
          /\ driver[d].answers \in Seq(Identities) /\ driver[d].again \subseteq 1 .. Len(Program)

Init ==
    /\ epoch = 0 /\ segment = "active" /\ transit = {}
    /\ call = [k \in Identities |-> [state |-> "absent", paid |-> 0]]
    /\ driver = [d \in Sessions |-> [phase |-> "none", at |-> 1, attempt |-> 1, page |-> 0,
                                     failed |-> FALSE, error |-> "", answers |-> <<>>, again |-> {}]]

-----------------------------------------------------------------------------
(* The identity of a call: the invocation key, call_id, wait_id or         *)
(* continuation_id the entrypoint gives it.                                *)

Kind(d) == Program[driver[d].at]

\* mutant: the session goes into the identity of a call.
IdentityPerSession(d) == <<driver[d].at, IF d = 1 THEN driver[d].attempt ELSE 2>>

Identity(d) == <<driver[d].at, driver[d].attempt>>

Goto(d, phase) == driver' = [driver EXCEPT ![d].phase = phase]

\* mutant: an unverified outcome leaves the session usable.
FailsSessionNever(kind, error) == FALSE

\* Which errors also end the session's authority: every error of a hosted
\* model call, the unknown outcome of a broker call; of a wait, only a lost
\* checkpoint (Capture).
FailsSession(kind, error) == kind = "model" \/ (kind = "broker" /\ error = "unknown")

Raise(d, error) ==
    driver' = [driver EXCEPT ![d].phase = "raised", ![d].error = error,
                             ![d].failed = @ \/ FailsSession(Kind(d), error)]

\* The call returns to the entrypoint, which goes on with the next one.
Answer(d) ==
    driver' = [driver EXCEPT
                  ![d].answers = Append(@, Identity(d)), ![d].at = @ + 1, ![d].attempt = 1,
                  ![d].page = 0,
                  ![d].phase = IF driver[d].at = Len(Program) THEN "returned" ELSE "run"]

-----------------------------------------------------------------------------
(* The session.                                                            *)

\* The supervisor starts a driver: the first, or one for a run it took for lost,
\* or one whose event has come.
Start(d) ==
    /\ d = epoch + 1 /\ segment = "active"
    /\ epoch' = d /\ Goto(d, "run")
    /\ UNCHANGED <<segment, call, transit>>

Alive(d) == driver[d].phase \in {"run", "capture", "send", "reply", "poll", "raised"}

\* A renewal is refused, unanswered or too late.
AuthorityLost(d) ==
    /\ Alive(d) /\ ~driver[d].failed
    /\ driver' = [driver EXCEPT ![d].failed = TRUE]
    /\ UNCHANGED <<epoch, segment, call, transit>>

Crash(d) ==
    /\ Alive(d) /\ Goto(d, "dead")
    /\ UNCHANGED <<epoch, segment, call, transit>>

\* Errors that leave the session usable and do not say that nothing was paid.
Blind(d) ==
    IF driver[d].error \in {"expired", "unavailable"} /\ ~driver[d].failed
    THEN {driver[d].at} ELSE {}

\* The error leaves the entrypoint, or is caught: another attempt of a completion,
\* whatever the error; `again` remembers the calls it asked a second time blindly.
Catch(d) ==
    /\ driver[d].phase = "raised"
    /\ \/ Goto(d, "dead")
       \/ /\ Kind(d) = "broker" /\ driver[d].attempt = 1
          /\ driver' = [driver EXCEPT ![d].phase = "run", ![d].attempt = 2,
                                      ![d].again = @ \cup Blind(d)]
    /\ UNCHANGED <<epoch, segment, call, transit>>

-----------------------------------------------------------------------------
(* A call.                                                                 *)

\* session.healthy() at the head of every call, and again before each request.
Refuses(d) == driver[d].failed /\ Raise(d, "unknown")

\* The broker is closed for now: any request to it may say so, whether the call
\* was admitted before or not.
Unavailable(d) == Kind(d) = "broker" /\ Raise(d, "unavailable")

\* The authoritative status read before a broker call finds it closed, or stays
\* unanswered.
StatusUnread(d) == Unavailable(d) \/ (Kind(d) = "broker" /\ Raise(d, "unknown"))

\* A call of the entrypoint; a hosted model call takes no checkpoint of its own.
BeginCall(d) ==
    /\ driver[d].phase = "run"
    /\ \/ Refuses(d)
       \/ ~driver[d].failed /\ Goto(d, IF Kind(d) = "model" THEN "send" ELSE "capture")
       \/ ~driver[d].failed /\ StatusUnread(d)
    /\ UNCHANGED <<epoch, segment, call, transit>>

\* session.checkpoint: none is wanted, or it is ready; or it is lost, which
\* always ends the session.
Capture(d) ==
    /\ driver[d].phase = "capture"
    /\ \/ ~driver[d].failed /\ Goto(d, "send")
       \/ driver' = [driver EXCEPT ![d].phase = "raised", ![d].error = "unknown",
                                   ![d].failed = TRUE]
    /\ UNCHANGED <<epoch, segment, call, transit>>

\* broker_invoke, model_begin, wait or continue.
Send(d) ==
    /\ driver[d].phase = "send"
    /\ transit' = transit \cup {<<d, Identity(d)>>} /\ Goto(d, "reply")
    /\ UNCHANGED <<epoch, segment, call>>

\* The service admits a call it does not know; all else is a repetition.
Admit(d, k) ==
    /\ transit' = transit \ {<<d, k>>}
    /\ IF d # epoch \/ segment = "continued" \/ call[k].state # "absent"
       THEN UNCHANGED <<call, segment>>
       ELSE \E state \in IF Program[k[1]] = "wait" THEN {"waiting", "completed"}
                         ELSE IF Program[k[1]] = "continue" THEN {"completed"} ELSE {"waiting"} :
               /\ call' = [call EXCEPT ![k].state = state]
               /\ segment' = IF Program[k[1]] = "continue" THEN "continued"
                             ELSE IF Program[k[1]] = "wait" /\ state = "waiting" THEN "waiting"
                             ELSE segment
    /\ UNCHANGED <<epoch, driver>>

\* The reply of a hosted model comes in pages, each with a request of its own.
MorePages(d) == Kind(d) = "model" /\ driver[d].page + 1 < Pages

\* What the driver makes of a receipt, by the state in it.
Completed(d) ==
    IF MorePages(d) THEN driver' = [driver EXCEPT ![d].page = @ + 1, ![d].phase = "poll"]
    ELSE IF Kind(d) = "continue" THEN Goto(d, "yielded") ELSE Answer(d)

ReadReceipt(d, state) ==
    \/ state = "completed" /\ Completed(d)
    \/ state \in {"rejected", "cancelled"} /\ Raise(d, "refused")
    \/ state = "expired" /\ Raise(d, "expired")
    \/ state = "unknown" /\ Raise(d, "unknown")
    \/ state \in {"waiting", "dispatched"} /\ Goto(d, IF Kind(d) = "wait" THEN "yielded" ELSE "poll")

\* The answer to the admission, or to any attempt of it.
Reply(d) ==
    /\ driver[d].phase = "reply" /\ <<d, Identity(d)>> \notin transit
    /\ IF d # epoch \/ call[Identity(d)].state = "absent" THEN Raise(d, "unknown")
       ELSE IF driver[d].failed /\ Kind(d) \in {"broker", "model"} THEN Raise(d, "unknown")
       ELSE ReadReceipt(d, call[Identity(d)].state)
    /\ UNCHANGED <<epoch, segment, call, transit>>

\* mutant: no answer to a wait is taken for its acceptance.
NoAnswerLeaves(d) ==
    IF Kind(d) \in {"wait", "continue"} THEN Goto(d, "yielded") ELSE Raise(d, "unknown")

\* Three attempts without an answer, or an answer that cannot be verified.
NoAnswer(d) == Raise(d, "unknown")

\* The admission or a status read has no receipt for its answer.
LoseAnswer(d) ==
    /\ driver[d].phase \in {"reply", "poll"} /\ (NoAnswer(d) \/ Unavailable(d))
    /\ UNCHANGED <<epoch, segment, call, transit>>

\* The next status read or page, or the deadline of the observation.
Poll(d) ==
    /\ driver[d].phase = "poll"
    /\ \/ driver[d].failed /\ Raise(d, "unknown")
       \/ ~driver[d].failed /\ d = epoch /\ ReadReceipt(d, call[Identity(d)].state)
       \/ d # epoch /\ Raise(d, "unknown")
       \/ call[Identity(d)].state \in {"waiting", "dispatched"} /\ Raise(d, "unknown")
    /\ UNCHANGED <<epoch, segment, call, transit>>

-----------------------------------------------------------------------------
(* The service at work: a call is paid when it is dispatched.              *)

Set(k, state) == call' = [call EXCEPT ![k].state = state]
Work(k) == Program[k[1]] \in {"broker", "model"} /\ UNCHANGED <<epoch, segment, driver, transit>>

Dispatch(k) ==
    /\ Work(k) /\ call[k].state = "waiting"
    /\ call' = [call EXCEPT ![k] = [state |-> "dispatched", paid |-> @.paid + 1]]

Settle(k) ==
    /\ Work(k)
    /\ \/ call[k].state = "waiting" /\ \E s \in {"rejected", "cancelled"} : Set(k, s)
       \/ call[k].state = "dispatched" /\ \E s \in {"completed", "unknown"} : Set(k, s)

\* Only the broker retains its results for a time.
Expire(k) == Work(k) /\ Program[k[1]] = "broker" /\ call[k].state = "completed" /\ Set(k, "expired")

\* The event or the wake time: the run may be driven again.
Wake(k) ==
    /\ Program[k[1]] = "wait" /\ call[k].state = "waiting"
    /\ Set(k, "completed") /\ segment' = "active"
    /\ UNCHANGED <<epoch, driver, transit>>

Next ==
    \/ \E d \in Sessions :
          \/ Start(d) \/ AuthorityLost(d) \/ Crash(d) \/ Catch(d)
          \/ BeginCall(d) \/ Capture(d) \/ Send(d) \/ Reply(d) \/ LoseAnswer(d) \/ Poll(d)
    \/ \E admission \in transit : Admit(admission[1], admission[2])
    \/ \E k \in Identities : Dispatch(k) \/ Settle(k) \/ Expire(k) \/ Wake(k)

Spec == Init /\ [][Next]_vars

-----------------------------------------------------------------------------
(* One completion is not paid under two keys because its outcome was       *)
(* unknown, or because the driver was restarted and replayed or admissions *)
(* arrived late: an outcome nobody could establish ends the session, and a *)
(* refusal is final.  It is paid twice only if some session was told that  *)
(* the result under its first key had expired or the broker was closed,    *)
(* and asked under another key all the same (_agent_broker.py:33-35,       *)
(* 100-131, _agent.py:105-116).                                            *)
PaidOnce ==
    \A at \in 1 .. Len(Program) :
        (\A n \in 1 .. 2 : call[<<at, n>>].paid > 0) => \E d \in Sessions : at \in driver[d].again

(* The entrypoint gets the same answers in every session, as far as it     *)
(* gets: a replay finds the record of the call the earlier session made    *)
(* (_agent_broker.py:98-100, _agent_models.py:64, _agent.py:326-333).      *)
(* Only a session that asked blindly under a second key, after an expired  *)
(* result or a closed broker, may be answered otherwise than another.      *)
RepliesAgree ==
    \A d, e \in Sessions : \A i \in DOMAIN driver[d].answers \cap DOMAIN driver[e].answers :
        driver[d].answers[i] # driver[e].answers[i] => i \in driver[d].again \cup driver[e].again

(* A driver that left its segment left it recorded: the wait it yielded    *)
(* at is known to the journal, so that its event can start the run again,  *)
(* or the continuation is (_agent.py:328-331, 342-343, 353-355).           *)
LeavesRecorded ==
    \A d \in Sessions : driver[d].phase = "yielded" => call[Identity(d)].state # "absent"
=============================================================================
