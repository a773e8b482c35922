------------------------------- MODULE Imports -------------------------------
(***************************************************************************)
(* import_query (nodus/_assets.py, Assets and AsyncAssets): a database     *)
(* query is exported as an asset, which is polled until it is ready or has *)
(* failed.  The whole call has one deadline, and once the export exists    *)
(* every error and interruption carries its id: the import has no          *)
(* idempotency key, and repeating it would run the query again.            *)
(*                                                                         *)
(* A request is over within its timeout.  The server and the clock are     *)
(* external.                                                               *)
(***************************************************************************)
EXTENDS Naturals

CONSTANTS QueryWait,   \* _QUERY_WAIT_SECONDS
          QueryHttp,   \* _QUERY_HTTP_SECONDS
          QueryPoll    \* _QUERY_POLL_SECONDS

ImportsAssumption ==
    QueryHttp \in Nat \ {0} /\ QueryPoll \in Nat \ {0} /\ QueryWait \in Nat /\ QueryHttp <= QueryWait

VARIABLES
    export,   \* "none", "importing", "ready", "failed": at the server
    caller,   \* [pc, told]: told says that the error carries the id
    now       \* since the call

vars == <<export, caller, now>>

Ended == {"returned", "timed out", "failed", "unobserved", "interrupted", "not begun"}

TypeOK ==
    /\ export \in {"none", "importing", "ready", "failed"}
    /\ caller \in [pc: Ended \cup {"post", "loop", "poll"}, told: BOOLEAN]
    /\ now \in Nat

Init ==
    /\ export = "none" /\ now = 0
    /\ caller = [pc |-> "post", told |-> FALSE]

\* The query runs at the server.
Exports ==
    /\ export = "importing" /\ \E state \in {"ready", "failed"} : export' = state
    /\ UNCHANGED <<caller, now>>

To(pc) == [caller EXCEPT !.pc = pc]

\* mutant: a failed observation is raised as it came.
RaisesPlain(pc) == [caller EXCEPT !.pc = pc, !.told = pc # "unobserved"]

\* except (NodusError, KeyboardInterrupt, CancelledError): the id goes with it.
Raises(pc) == [caller EXCEPT !.pc = pc, !.told = TRUE]

Least(a, b) == IF a < b THEN a ELSE b
Left == IF now < QueryWait THEN QueryWait - now ELSE 0

\* What follows on the state that was read.
Seen(state) ==
    CASE state = "importing" -> To("loop")
      [] state = "ready" -> To("returned")
      [] state = "failed" -> Raises("failed")

\* The request for the export: answered, or not (applied or not).  An export that
\* is reused is there at once.
Post ==
    /\ caller.pc = "post"
    /\ \E took \in {0, QueryHttp}, state \in {"none", "importing", "ready"} :
          /\ now' = now + took /\ export' = state
          /\ \/ state # "none" /\ caller' = Seen(state)
             \/ caller' = To("not begun")

\* There is time left before the sleep and after it.
InTime(slept) == Left > 0 /\ Left > slept

\* One turn of the loop, up to its request.
Loop ==
    /\ caller.pc = "loop"
    /\ LET slept == Least(QueryPoll, Left)
       IN /\ now' = now + slept
          /\ caller' = IF InTime(slept) THEN To("poll") ELSE Raises("timed out")
    /\ UNCHANGED export

\* mutant: every request may take the usual time.
HttpTimeWhole == QueryHttp

\* timeout=min(_QUERY_HTTP_SECONDS, remaining)
HttpTime == Least(QueryHttp, Left)

\* The request that reads the export, and what follows on its answer.
Poll ==
    /\ caller.pc = "poll"
    /\ \E took \in {0, HttpTime} : now' = now + took
    /\ caller' = Seen(export) \/ caller' = Raises("unobserved")
    /\ UNCHANGED export

\* Ctrl+C, or the cancellation of the task, after the export was admitted.
Interrupt ==
    /\ caller.pc \in {"loop", "poll"} /\ caller' = Raises("interrupted")
    /\ UNCHANGED <<export, now>>

Next == Exports \/ Post \/ Loop \/ Poll \/ Interrupt

Spec == Init /\ [][Next]_vars
-----------------------------------------------------------------------------
(* The call is over in time, however its requests and its sleeps fall, and *)
(* it does not give up before (_assets.py:241-256).                        *)
OverInTime ==
    /\ now <= QueryWait
    /\ caller.pc = "timed out" => now = QueryWait

(* Whoever is not handed the export learns its id as soon as it is known   *)
(* to exist (_assets.py:244-260).                                          *)
ExportNamed == caller.pc \in Ended \ {"returned", "not begun"} => caller.told
=============================================================================
