-------------------------------- MODULE Pools --------------------------------
(***************************************************************************)
(* Administration of a pool (nodus/_pools.py and the _pool_*.py beside     *)
(* it): Route and its price, the Act kill switch, one action policy, and   *)
(* the decisions on a burst proposal and on an Act proposal.  Threads with *)
(* a Pools and tasks with an AsyncPools act on one pool.  A change is sent *)
(* once and never repeated; a caller that got no answer does not know      *)
(* whether it was applied, and it may be applied much later.  An answer    *)
(* is believed only when it is consistent and shows what was asked for.    *)
(*                                                                         *)
(* The server is external: it applies a request when it arrives, and its   *)
(* answer shows the pool at the moment the answer is written.  A late      *)
(* decision is refused (openapi.yaml:20335) or answered with the row as it *)
(* stands.                                                                 *)
(***************************************************************************)
EXTENDS Integers

CONSTANTS Threads,     \* callers with a Pools
          Tasks,       \* callers with an AsyncPools
          Topics,      \* sets of kinds of change: a behaviour is about one of them
          Lifetime,    \* minutes a proposal can be decided
          MaxCalls     \* bound: calls of one caller

PoolsAssumption == Threads \cap Tasks = {} /\ Lifetime \in 1 .. 30 /\ MaxCalls \in Nat

VARIABLES
    topic,   \* the kinds of change of this behaviour
    now,     \* minutes since the proposals were created, up to Lifetime + 1
    pool,    \* [terms, route, wait, killed, policy, older]
    burst,   \* [state, decided, applied, priced]
    act,     \* [state, decided, outcome, recorded, source, measured]
    calls,   \* caller -> [pc, op, held, n]
    late     \* operations whose caller gave up before they were applied

vars == <<topic, now, pool, burst, act, calls, late>>

Callers == Threads \cup Tasks
Never == -1
Terms == {"platform", "byoc", "private"}
RateMicros == [platform |-> 20000, byoc |-> 0, private |-> 0]

\* The price a pool had before versions were named.
Older(terms) == terms = "platform"

\* What a caller can ask for: route_patch, route_settings, action_policy,
\* kill_payload, the empty body of a decision, and reading the proposals.
Ops ==
    ({"burst", "act"} \X {"approve", "reject", "read"}) \cup ({"route"} \X (Terms \cup {"off"}))
    \cup ({"wait"} \X {"never", "cheaper"}) \cup ({"kill"} \X {"on", "off"})
    \cup ({"policy"} \X {"recommend", "auto"})

NoOp == <<"none", "none">>
BurstStates == {"pending", "approved", "rejected", "expired", "no_op", "applying", "applied"}
ActStates == BurstStates \cup {"uncertain", "failed"}

TypeOK ==
    /\ topic \in Topics /\ now \in 0 .. (Lifetime + 1)
    /\ pool \in [terms: Terms, route: BOOLEAN, wait: {"never", "cheaper"}, killed: BOOLEAN,
                 policy: {"recommend", "auto"}, older: BOOLEAN]
    /\ burst \in [state: BurstStates, decided: Int, applied: Int, priced: BOOLEAN]
    /\ act \in [state: ActStates, decided: Int, outcome: {"none", "applied", "no_op", "failed"},
                recorded: Int, source: {"none", "server", "customer"}, measured: BOOLEAN]
    /\ calls \in [Callers -> [pc: {"idle", "sent", "applied", "returned", "raised", "refused"},
                              op: Ops \cup {NoOp}, held: BOOLEAN, n: 0 .. MaxCalls]]
    /\ late \subseteq Ops

Init ==
    /\ topic \in Topics /\ now = 0
    /\ \E terms \in Terms, older \in BOOLEAN :
          /\ older => Older(terms)
          /\ pool = [terms |-> terms, route |-> FALSE, wait |-> "never", killed |-> FALSE,
                     policy |-> "recommend", older |-> older]
    /\ burst = [state |-> "pending", decided |-> Never, applied |-> Never, priced |-> FALSE]
    /\ act = [state |-> "pending", decided |-> Never, outcome |-> "none", recorded |-> Never,
              source |-> "none", measured |-> FALSE]
    /\ calls = [c \in Callers |-> [pc |-> "idle", op |-> NoOp, held |-> FALSE, n |-> 0]]
    /\ late = {}

-----------------------------------------------------------------------------
(* The server.                                                             *)

Decide(row, choice) ==
    IF choice = "read" \/ row.state # "pending" \/ now >= Lifetime THEN row
    ELSE IF choice = "approve" THEN [row EXCEPT !.state = "approved", !.decided = now]
    ELSE [row EXCEPT !.state = "rejected", !.decided = now]

DecideBurst(choice) ==
    LET row == Decide(burst, choice)
    IN [row EXCEPT !.priced = row.state \in {"approved", "applying", "applied"} \/ @]

\* The change of op takes effect.  Route is enabled under the terms of the pool.
Apply(op) ==
    /\ burst' = IF op[1] = "burst" THEN DecideBurst(op[2]) ELSE burst
    /\ act' = IF op[1] = "act" THEN Decide(act, op[2]) ELSE act
    /\ pool' = [pool EXCEPT !.route = IF op[1] = "route" THEN op[2] # "off" ELSE @,
                            !.wait = IF op[1] = "wait" THEN op[2] ELSE @,
                            !.killed = IF op[1] = "kill" THEN op[2] = "on" ELSE @,
                            !.policy = IF op[1] = "policy" THEN op[2] ELSE @]

Tick ==
    /\ topic \cap {"burst", "act"} # {} /\ now <= Lifetime /\ now' = now + 1
    /\ UNCHANGED <<topic, pool, burst, act, calls, late>>

\* An approved burst is executed, found unnecessary, or outlives its time.
BurstMoves ==
    /\ "burst" \in topic
    /\ \/ burst.state = "approved" /\ burst' = [burst EXCEPT !.state = "applying"]
       \/ burst.state \in {"approved", "applying"} /\ burst' = [burst EXCEPT !.state = "no_op"]
       \/ burst.state = "applying" /\ burst' = [burst EXCEPT !.state = "applied", !.applied = now]
       \/ /\ burst.state \in {"pending", "approved"} /\ now >= Lifetime
          /\ burst' = [burst EXCEPT !.state = "expired"]
    /\ UNCHANGED <<topic, now, pool, act, calls, late>>

\* An approved action is executed unless the kill switch is on; its effect may be
\* uncertain for a while, then it is observed, and measured or not.
ActMoves ==
    /\ "act" \in topic
    /\ \/ act.state = "approved" /\ ~pool.killed /\ act' = [act EXCEPT !.state = "applying"]
       \/ act.state = "approved" /\ pool.killed /\ act' = [act EXCEPT !.state = "no_op"]
       \/ act.state = "applying" /\ act' = [act EXCEPT !.state = "uncertain"]
       \/ /\ act.state \in {"applying", "uncertain"}
          /\ \E result \in {"applied", "failed"}, measured \in BOOLEAN :
                act' = [act EXCEPT !.state = result, !.outcome = result, !.recorded = now,
                                   !.source = "server", !.measured = measured]
       \/ /\ act.state \in {"pending", "approved"} /\ now >= Lifetime
          /\ act' = [act EXCEPT !.state = "expired"]
    /\ UNCHANGED <<topic, now, pool, burst, calls, late>>

\* The pool is connected to a cloud, or no longer.
TermsChange ==
    /\ "route" \in topic /\ ~pool.older /\ ~pool.route
    /\ \E terms \in Terms \ {pool.terms} : pool' = [pool EXCEPT !.terms = terms]
    /\ UNCHANGED <<topic, now, burst, act, calls, late>>

AppliedLate ==
    /\ \E op \in late : Apply(op) /\ late' = late \ {op}
    /\ UNCHANGED <<topic, now, calls>>

Arrives(c) ==
    /\ calls[c].pc = "sent" /\ Apply(calls[c].op)
    /\ calls' = [calls EXCEPT ![c].pc = "applied"] /\ UNCHANGED <<topic, now, late>>

-----------------------------------------------------------------------------
(* The validators.                                                         *)

\* PoolProposal.from_dict; the proposal was created at minute 0.
BurstConsistent(row) ==
    /\ row.decided # Never => 0 <= row.decided /\ row.decided < Lifetime
    /\ row.state = "pending" => row.decided = Never /\ ~row.priced
    /\ row.state = "rejected" => row.decided # Never /\ ~row.priced
    /\ row.state \in {"approved", "applying", "applied"} => row.decided # Never /\ row.priced
    /\ row.priced => row.decided # Never
    /\ (row.state = "applied") <=> (row.applied # Never)
    /\ row.applied # Never => row.decided # Never /\ row.applied >= row.decided

\* PoolActOutcome.from_dict: a measurement is the server's own.
OutcomeConsistent(row) == row.measured => row.source = "server"

\* PoolActProposal.from_dict
ActConsistent(row) ==
    /\ row.decided # Never => row.decided >= 0
    /\ row.state = "pending" => row.decided = Never
    /\ row.state \in {"approved", "rejected"} => row.decided # Never
    /\ row.state \in {"applied", "failed"} =>
          row.outcome = row.state /\ row.source = "server"
    /\ row.outcome # "none" =>
          row.outcome = row.state /\ row.recorded >= 0 /\ OutcomeConsistent(row)

\* mutant: the price is confirmed without the version of its terms.
RouteConfirmedByRate(terms) ==
    IF terms = "off" THEN ~pool.route
    ELSE pool.route /\ RateMicros[pool.terms] = RateMicros[terms]

\* route_result: the settings sent, and the price agreed to, which an older server
\* tells without its version.
RouteConfirmed(terms) ==
    IF terms = "off" THEN ~pool.route
    ELSE /\ pool.route /\ RateMicros[pool.terms] = RateMicros[terms]
         /\ pool.terms = terms \/ (pool.older /\ Older(terms))

\* policy_ack and kill_ack
SettingConfirmed(op) ==
    CASE op[1] = "wait" -> pool.wait = op[2]
      [] op[1] = "kill" -> pool.killed = (op[2] = "on")
      [] op[1] = "policy" -> pool.policy = op[2]

\* mutant: any state in which the proposal is decided confirms a decision.
BurstConfirmedDecided(choice) == burst.state # "pending"

\* proposal_decision
BurstConfirmed(choice) ==
    burst.state \in (IF choice = "approve" THEN {"approved", "applying", "applied"}
                     ELSE {"rejected"})

\* act_decision
ActConfirmed(choice) ==
    act.state \in (IF choice = "approve" THEN {"approved", "applying", "uncertain", "applied"}
                   ELSE {"rejected"})

Readable(op) ==
    /\ op[1] = "burst" => BurstConsistent(burst)
    /\ op[1] = "act" => ActConsistent(act)

Confirmed(op) ==
    CASE op[2] = "read" -> TRUE
      [] op[1] = "burst" /\ op[2] # "read" -> BurstConfirmed(op[2])
      [] op[1] = "act" /\ op[2] # "read" -> ActConfirmed(op[2])
      [] op[1] = "route" -> RouteConfirmed(op[2])
      [] OTHER -> SettingConfirmed(op)

-----------------------------------------------------------------------------
(* The callers.                                                            *)

Holds(op) ==
    CASE op[2] = "read" -> TRUE
      [] op = <<"burst", "approve">> -> burst.priced
      [] op = <<"burst", "reject">> -> burst.state = "rejected"
      [] op = <<"act", "approve">> -> act.decided # Never /\ act.state # "rejected"
      [] op = <<"act", "reject">> -> act.state = "rejected"
      [] op = <<"route", "off">> -> ~pool.route
      [] op[1] = "route" /\ op[2] # "off" -> pool.route /\ pool.terms = op[2]
      [] OTHER -> SettingConfirmed(op)

Begins(c) ==
    /\ calls[c].pc \notin {"sent", "applied"} /\ calls[c].n < MaxCalls
    /\ \E op \in Ops :
          /\ op[1] \in topic
          /\ calls' = [calls EXCEPT ![c] = [pc |-> "sent", op |-> op, held |-> FALSE, n |-> @.n + 1]]
    /\ UNCHANGED <<topic, now, pool, burst, act, late>>

\* Pools: one request for one change.
Call(c) == c \in Threads /\ Begins(c)

\* AsyncPools
AsyncCall(c) == c \in Tasks /\ Begins(c)

\* The answer is read.
Answered(c) ==
    LET op == calls[c].op
        pc == IF ~Readable(op) THEN "refused" ELSE IF Confirmed(op) THEN "returned" ELSE "raised"
    IN /\ calls[c].pc = "applied"
       /\ calls' = [calls EXCEPT ![c].pc = pc, ![c].held = Holds(op)]
       /\ UNCHANGED <<topic, now, pool, burst, act, late>>

\* A status of 400 or more, here the 409 for a decision that came too late.
Refused(c) ==
    /\ calls[c].pc = "applied" /\ calls[c].op[1] \in {"burst", "act"} /\ ~Holds(calls[c].op)
    /\ calls' = [calls EXCEPT ![c].pc = "raised"]
    /\ UNCHANGED <<topic, now, pool, burst, act, late>>

\* Pools._request: no answer.  The request may still be on its way, or lost.
Unanswered(c) ==
    /\ calls[c].pc \in {"sent", "applied"}
    /\ calls' = [calls EXCEPT ![c].pc = "raised"]
    /\ \/ calls[c].pc = "sent" /\ late' = late \cup {calls[c].op}
       \/ UNCHANGED late
    /\ UNCHANGED <<topic, now, pool, burst, act>>

Next ==
    \/ Tick \/ BurstMoves \/ ActMoves \/ TermsChange \/ AppliedLate
    \/ \E c \in Callers :
          Call(c) \/ AsyncCall(c) \/ Arrives(c) \/ Answered(c) \/ Refused(c) \/ Unanswered(c)

Spec == Init /\ [][Next]_vars

-----------------------------------------------------------------------------
(* A change that is confirmed to its caller had taken effect when that was *)
(* said, at the price its caller agreed to, however the calls of others    *)
(* and late requests fell in between (_pool_route.py:44-61,                *)
(* _pool_actions.py:116-133, _pool_proposals.py:117-122).                  *)
ConfirmedHeld == \A c \in Callers : calls[c].pc = "returned" => calls[c].held

(* Nobody is told that a proposal is rejected when another was told that   *)
(* it is approved (_pool_proposals.py:117-122,                             *)
(* _pool_act_proposals.py:116-122).                                        *)
DecisionsAgree ==
    \A c, d \in Callers :
        calls[c].pc = "returned" /\ calls[d].pc = "returned" =>
            /\ ~(calls[c].op = <<"burst", "approve">> /\ calls[d].op = <<"burst", "reject">>)
            /\ ~(calls[c].op = <<"act", "approve">> /\ calls[d].op = <<"act", "reject">>)

(* A record that a server wrote by its own rules is never refused as       *)
(* inconsistent, at whatever moment it is read: a decision in the minute   *)
(* of the creation, an execution after the expiry, an action found         *)
(* unnecessary (_pool_proposals.py:58-98, _pool_act_proposals.py:64-91).   *)
RecordsReadable == \A c \in Callers : calls[c].pc # "refused"
=============================================================================
