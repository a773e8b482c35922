----------------------------- MODULE Executions -----------------------------
(***************************************************************************)
(* A command in a sandbox, observed from outside: nodus/_sandboxes.py,     *)
(* SandboxExec.iter_output and SandboxExec.wait (the asynchronous class    *)
(* has the same text).  The process writes frames, the service stores them *)
(* somewhat later, and the client reads pages after its cursor while both  *)
(* go on.  A second caller waits for the end of the command with long      *)
(* polls, with or without a timeout.                                       *)
(***************************************************************************)
EXTENDS Integers, FiniteSets

CONSTANTS
    MaxFrames,    \* bound: frames the process writes
    PageCap,      \* frames in one page (16 in the code)
    Timeouts,     \* timeout_seconds given to wait()
    LongPoll,     \* seconds the client gives one long poll (35 in the code)
    PollTimes,    \* seconds a long poll takes to be answered
    None          \* no timeout; no end chosen yet

ExecutionAssumption ==
    /\ MaxFrames \in Nat /\ PageCap \in Nat \ {0} /\ LongPoll \in Nat \ {0}
    /\ Timeouts \subseteq Nat \ {0} /\ PollTimes \subseteq Nat
    /\ None \notin Nat

VARIABLES
    process,   \* [running, written, stored]: the command, its frames, those readable
    reader,    \* iter_output: [phase, follow, cursor, end, got]
    waiter     \* wait: [phase, timeout, spent, terminal]

vars == <<process, reader, waiter>>

TypeOK ==
    /\ process \in [running: BOOLEAN, written: 0 .. MaxFrames, stored: 0 .. MaxFrames]
    /\ reader \in [phase: {"idle", "reading", "returned", "raised"}, follow: BOOLEAN,
                   cursor: Nat, end: Nat \cup {None}, got: SUBSET (1 .. MaxFrames)]
    /\ waiter \in [phase: {"idle", "waiting", "returned", "raised"},
                   timeout: Timeouts \cup {None}, spent: Nat, terminal: BOOLEAN]

Init ==
    /\ process = [running |-> TRUE, written |-> 0, stored |-> 0]
    /\ \E follow \in BOOLEAN :
          reader = [phase |-> "idle", follow |-> follow, cursor |-> 0, end |-> None, got |-> {}]
    /\ \E t \in Timeouts \cup {None} :
          waiter = [phase |-> "idle", timeout |-> t, spent |-> 0, terminal |-> FALSE]

-----------------------------------------------------------------------------
(* The sandbox and the service.                                            *)

\* The command writes a frame.
Write ==
    /\ process.running /\ process.written < MaxFrames
    /\ process' = [process EXCEPT !.written = @ + 1]
    /\ UNCHANGED <<reader, waiter>>

\* A frame becomes readable, possibly after the command has ended.
Store ==
    /\ process.stored < process.written
    /\ process' = [process EXCEPT !.stored = @ + 1]
    /\ UNCHANGED <<reader, waiter>>

\* The command completes, fails, is lost or is cancelled.
Conclude ==
    /\ process.running
    /\ process' = [process EXCEPT !.running = FALSE]
    /\ UNCHANGED <<reader, waiter>>

\* The pages the service may answer with: at least one frame when there is one.
Pages(after, limit) ==
    LET available == process.stored - after IN
    { [next |-> after + n, last |-> process.stored, done |-> ~process.running,
       complete |-> ~process.running /\ after + n = process.written] :
      n \in IF available > 0 THEN 1 .. (IF available < limit THEN available ELSE limit)
                             ELSE {0} }

-----------------------------------------------------------------------------
(* iter_output.                                                            *)

\* The caller may start from any cursor it kept of an earlier reading.
StartReading ==
    /\ reader.phase = "idle"
    /\ \E after \in 0 .. process.stored :
          reader' = [reader EXCEPT !.phase = "reading", !.cursor = after, !.got = 1 .. after]
    /\ UNCHANGED <<process, waiter>>

\* limit: a reading that does not follow asks for no more than its end.
Limit(r) ==
    IF r.end = None \/ r.end - r.cursor > PageCap THEN PageCap ELSE r.end - r.cursor

\* end_sequence: what was stored when the first page was answered.
End(r, page) == IF ~r.follow /\ r.end = None THEN page.last ELSE r.end

\* mutant: a terminal execution is taken for a completely stored one.
FinishedWhenDone(end, page) == page.done \/ (end # None /\ page.next >= end)

Finished(end, page) == (page.done /\ page.complete) \/ (end # None /\ page.next >= end)

Stuck(r, end, page) == (page.done \/ end # None) /\ page.next <= r.cursor

\* One page: its frames are yielded, then the end conditions are tried in order.
ReadPage ==
    /\ reader.phase = "reading"
    /\ \E page \in Pages(reader.cursor, Limit(reader)) :
          LET end == End(reader, page) IN
          reader' = [reader EXCEPT
              !.cursor = page.next, !.end = end,
              !.got = @ \cup (reader.cursor + 1 .. page.next),
              !.phase = IF Finished(end, page) THEN "returned"
                        ELSE IF Stuck(reader, end, page) THEN "raised" ELSE "reading"]
    /\ UNCHANGED <<process, waiter>>

\* The request failed for good; the application still has its cursor.
ReadFails ==
    /\ reader.phase = "reading"
    /\ reader' = [reader EXCEPT !.phase = "raised"]
    /\ UNCHANGED <<process, waiter>>

-----------------------------------------------------------------------------
(* wait.                                                                   *)

StartWaiting ==
    /\ waiter.phase = "idle"
    /\ waiter' = [waiter EXCEPT !.phase = "waiting"]
    /\ UNCHANGED <<process, reader>>

Remaining(w) == w.timeout - w.spent

\* mutant: each poll is given its full time.
PollTimeoutWhole(w) == LongPoll

\* The timeout of one long poll, cut to what is left.
PollTimeout(w) ==
    IF w.timeout = None \/ Remaining(w) > LongPoll THEN LongPoll ELSE Remaining(w)

\* The loop condition and the check before each poll.
WaitEnds ==
    /\ waiter.phase = "waiting"
    /\ \/ waiter.terminal /\ waiter' = [waiter EXCEPT !.phase = "returned"]
       \/ /\ ~waiter.terminal /\ waiter.timeout # None /\ Remaining(waiter) <= 0
          /\ waiter' = [waiter EXCEPT !.phase = "raised"]
    /\ UNCHANGED <<process, reader>>

Polls(w) == w.phase = "waiting" /\ ~w.terminal /\ (w.timeout # None => Remaining(w) > 0)

\* Time counts only against a timeout.
After(w, seconds) == IF w.timeout = None THEN 0 ELSE w.spent + seconds

\* A long poll is answered with the state the command is in.
PollAnswered ==
    /\ Polls(waiter)
    /\ \E t \in PollTimes :
          /\ t <= PollTimeout(waiter)
          /\ waiter' = [waiter EXCEPT !.spent = After(waiter, t), !.terminal = ~process.running]
    /\ UNCHANGED <<process, reader>>

\* Or it is not, within its timeout; with a timeout it is not tried again.
PollFails ==
    /\ Polls(waiter)
    /\ waiter' = [waiter EXCEPT !.phase = "raised", !.spent = After(waiter, PollTimeout(waiter))]
    /\ UNCHANGED <<process, reader>>

Next ==
    \/ Write \/ Store \/ Conclude
    \/ StartReading \/ ReadPage \/ ReadFails
    \/ StartWaiting \/ WaitEnds \/ PollAnswered \/ PollFails

Spec == Init /\ [][Next]_vars

-----------------------------------------------------------------------------
(* Output read while it is written is not cut short: a                     *)
(* following reading that returns has every frame of an ended command; one *)
(* that does not follow has exactly what was stored at its first page, or  *)
(* everything (the end conditions of _sandboxes.py:853-856).               *)
OutputComplete ==
    reader.phase = "returned" =>
        /\ reader.got = 1 .. reader.cursor
        /\ reader.follow => ~process.running /\ reader.cursor = process.written
        /\ ~reader.follow => reader.cursor = reader.end

(* wait(timeout_seconds=...) never holds its caller longer than it was     *)
(* given, although it is made of long polls, and returns normally only     *)
(* for a command that has ended (_sandboxes.py:822-827).                   *)
WaitKeepsTime ==
    /\ waiter.timeout # None => waiter.spent <= waiter.timeout
    /\ waiter.phase = "returned" => ~process.running
=============================================================================
