------------------------------- MODULE Launch -------------------------------
(***************************************************************************)
(* client.launch (nodus/_compute.py, launch and launch_async): create a    *)
(* machine under an idempotency key, start it when it is stopped, wait for *)
(* SSH.  The application repeats the call with the same key and body after *)
(* any outcome, and its user starts and stops the machine in between.  An  *)
(* instance's start replays by key.  A workspace's start does not, so a    *)
(* replayed workspace that is stopped is started only when its history     *)
(* shows that it has never run.                                            *)
(*                                                                         *)
(* Calls under one key follow one another.  An attempt of a start without  *)
(* an answer may be applied at any later time (ArrivesLate), one for each  *)
(* launch.  A create that comes late is one applied at once or never: no   *)
(* one looks in between, and a key that is known changes nothing.  The     *)
(* server is external.                                                     *)
(***************************************************************************)
EXTENDS Naturals

CONSTANTS MaxCalls,      \* bound: launches under the key
          MaxSessions    \* bound: sessions the user starts

LaunchAssumption == MaxCalls \in Nat /\ MaxSessions \in Nat

VARIABLES
    server,   \* [state, begun, rented, stray, late, started]: the machine of the key; rented
              \* by starts whose launch waits, stray by late ones, late: those to come
    call      \* [pc, keep, replayed, state, n]: the launch under way

vars == <<server, call>>

TypeOK ==
    /\ server \in [state: {"none", "stopped", "active"}, begun: Nat, rented: Nat, stray: Nat,
                   late: Nat, started: BOOLEAN]
    /\ call \in [pc: {"idle", "history", "start", "wait", "returned", "refused",
                      "uncertain", "failed", "timed out"},
                 keep: BOOLEAN, replayed: BOOLEAN, state: {"none", "stopped", "active"},
                 n: 0 .. MaxCalls]

Init ==
    /\ server = [state |-> "none", begun |-> 0, rented |-> 0, stray |-> 0, late |-> 0,
                 started |-> FALSE]
    /\ \E keep \in BOOLEAN :
          call = [pc |-> "idle", keep |-> keep, replayed |-> FALSE, state |-> "none", n |-> 0]

-----------------------------------------------------------------------------
(* The server and the user.                                                *)

\* The user starts the machine with a key of their own.
UserStarts ==
    /\ server.state = "stopped" /\ server.begun - server.rented - server.stray < MaxSessions
    /\ server' = [server EXCEPT !.state = "active", !.begun = @ + 1]
    /\ UNCHANGED call

\* The user stops it, or its session ends by itself.
Stops ==
    /\ server.state = "active"
    /\ server' = [server EXCEPT !.state = "stopped"]
    /\ UNCHANGED call

\* A create under a key the server knows changes nothing.
Create == server' = IF server.state = "none" THEN [server EXCEPT !.state = "stopped"] ELSE server

\* A start under the launch's key rents: an active machine is reconnected to, and
\* an instance's start replays by key.
Rents == server.state # "active" /\ (call.keep \/ ~server.started)

Started ==
    IF Rents THEN [server EXCEPT !.state = "active", !.begun = @ + 1, !.rented = @ + 1,
                                 !.started = TRUE]
    ELSE server

\* An attempt of the start was left without an answer on the way, or none was.
MaybeLate(s) == {s, [s EXCEPT !.late = @ + 1]}

\* It arrives, when its launch is long over or has been answered.
ArrivesLate ==
    /\ server.late > 0
    /\ server' = IF Rents THEN [server EXCEPT !.state = "active", !.begun = @ + 1, !.stray = @ + 1,
                                              !.late = @ - 1, !.started = TRUE]
                 ELSE [server EXCEPT !.late = @ - 1]
    /\ UNCHANGED call

-----------------------------------------------------------------------------
(* One launch.                                                             *)

Over == call.pc \in {"idle", "returned", "refused", "uncertain", "failed", "timed out"}

\* mutant: the state alone decides whether a start is needed.
AfterCreateUnchecked(keep, state, replayed) == IF state = "stopped" THEN "start" ELSE "wait"

\* _replayed_stop, then the state.
AfterCreate(keep, state, replayed) ==
    IF keep /\ state = "stopped" /\ replayed THEN "history"
    ELSE IF state = "stopped" THEN "start" ELSE "wait"

\* The create is answered.  An older server matches an instance by its name and
\* does not say that it replayed.
LaunchCreates ==
    /\ Over /\ call.n < MaxCalls /\ Create
    /\ \E replayed \in {server.state # "none"} \cup (IF call.keep THEN {} ELSE {FALSE}) :
          call' = [call EXCEPT !.n = @ + 1, !.replayed = replayed, !.state = server'.state,
                               !.pc = AfterCreate(call.keep, server'.state, replayed)]

\* It fails, applied or not.
LaunchCreateFails ==
    /\ Over /\ call.n < MaxCalls
    /\ Create \/ UNCHANGED server
    /\ call' = [call EXCEPT !.n = @ + 1, !.pc = "failed"]

\* _check_history: receipts, or no readable answer, refuse the start.
ReadsHistory ==
    /\ call.pc = "history"
    /\ \/ call' = [call EXCEPT !.pc = IF server.begun = 0 THEN "start" ELSE "refused"]
       \/ call' = [call EXCEPT !.pc = "refused"]
    /\ UNCHANGED server

\* The start is answered, if not at its first attempt; or no attempt is, or one is
\* refused for good, whatever became of those before.
LaunchStarts ==
    /\ call.pc = "start"
    /\ \/ server' \in MaybeLate(Started) /\ call' = [call EXCEPT !.pc = "wait"]
       \/ /\ server' \in MaybeLate(Started) \cup MaybeLate(server)
          /\ \E pc \in {"uncertain", "failed"} : call' = [call EXCEPT !.pc = pc]

\* SSH answers, nobody holds a key or waits, the machine stops early, or the time
\* is up.  Compute is left as it is.
Waits ==
    /\ call.pc = "wait"
    /\ \E outcome \in {"returned", "failed", "timed out"} : call' = [call EXCEPT !.pc = outcome]
    /\ UNCHANGED server

Next ==
    \/ UserStarts \/ Stops \/ ArrivesLate
    \/ LaunchCreates \/ LaunchCreateFails \/ ReadsHistory \/ LaunchStarts \/ Waits

Spec == Init /\ [][Next]_vars

-----------------------------------------------------------------------------
(* However often a launch is repeated with its key, and whatever became of *)
(* its machine in between, the starts it makes rent one machine at most:   *)
(* it never starts a workspace again that has run (_compute.py:225-240,    *)
(* 266-291).  An instance is rented once whatever comes late.  An attempt  *)
(* of a workspace's start that comes late, after the machine was stopped,  *)
(* rents it again (stray), which the error of such a start warns of        *)
(* (_compute.py:242-252).  And a launch that returns has a machine that    *)
(* was started.                                                            *)
OneMachinePerLaunch ==
    /\ server.rented <= 1
    /\ ~call.keep => server.rented + server.stray <= 1
    /\ call.pc = "returned" => server.begun >= 1
=============================================================================
