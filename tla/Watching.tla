------------------------------ MODULE Watching ------------------------------
(***************************************************************************)
(* Observing a workload that runs elsewhere (nodus/__init__.py): wait(),   *)
(* iter_events() and stream_events() over get() and events(), with the     *)
(* shared polling policy _WaitPolicy.  The control plane, which is not in  *)
(* this repository, numbers a workload's events 1, 2, ... and serves them  *)
(* in pages; the terminal event is recorded with the terminal status.      *)
(*                                                                         *)
(* One client observes in one mode; the workload moves on between any two  *)
(* of its requests.  A poll is a whole Client._request, retries included.  *)
(***************************************************************************)
EXTENDS Naturals, Sequences

CONSTANTS
    PageCap,       \* events in a page
    PollSeconds,   \* poll_seconds
    Deadlines,     \* timeout_seconds a wait may be given (0: none)
    RequestTime,   \* how long a slow poll takes
    RetryAfters,   \* the retry_after a transient error may carry (0: none)
    MaxEvents,     \* bound: events before the workload ends
    MaxFailures    \* bound: polls that fail

ASSUME WatchingAssumption ==
    /\ PageCap \in Nat \ {0} /\ PollSeconds \in Nat \ {0}
    /\ RequestTime \in Nat
    /\ Deadlines \subseteq Nat /\ RetryAfters \subseteq Nat
    /\ MaxEvents \in Nat \ {0} /\ MaxFailures \in Nat

BackoffCap == 30   \* _WAIT_BACKOFF_CAP

VARIABLES
    mode,       \* "wait", "iter" or "stream"
    deadline,   \* of a wait (0: none)
    before,     \* events recorded when the call was made
    recorded,   \* events recorded so far; they are numbered 1 .. recorded
    terminal,   \* the workload's status is terminal
    cancelled,  \* a cancellation reached the control plane
    pc,         \* "poll", "status", "sleep", or how the call ended
    after,      \* the highest sequence number seen
    yielded,    \* the events handed to the caller, in order
    failures,   \* consecutive failed polls
    delay,      \* the sleep chosen
    now,        \* time a wait with a deadline has spent
    faults      \* failed polls so far

server == <<recorded, terminal, cancelled>>
call == <<mode, deadline, before>>
vars == <<call, server, pc, after, yielded, failures, delay, now, faults>>

Ended == {"returned", "timeout", "error", "interrupted"}

\* Type invariant.
TypeOK ==
    /\ mode \in {"wait", "iter", "stream"}
    /\ deadline \in Deadlines
    /\ before \in 0 .. MaxEvents
    /\ recorded \in before .. MaxEvents
    /\ terminal \in BOOLEAN
    /\ cancelled \in BOOLEAN
    /\ pc \in {"poll", "status", "sleep"} \cup Ended
    /\ after \in 0 .. MaxEvents
    /\ yielded \in Seq(1 .. MaxEvents)
    /\ failures \in 0 .. MaxFailures
    /\ delay \in Nat
    /\ now \in Nat
    /\ faults \in 0 .. MaxFailures

Init ==
    /\ mode \in {"wait", "iter", "stream"}
    /\ deadline \in Deadlines
    /\ mode # "wait" => deadline = 0
    /\ before \in 0 .. MaxEvents - 1
    /\ recorded = before
    /\ terminal = FALSE
    /\ cancelled = FALSE
    /\ pc = "poll"
    /\ after = 0
    /\ yielded = <<>>
    /\ failures = 0
    /\ delay = 0
    /\ now = 0
    /\ faults = 0

-----------------------------------------------------------------------------
(* The workload.                                                           *)

Progress ==
    /\ ~terminal
    /\ recorded < MaxEvents - 1
    /\ recorded' = recorded + 1
    /\ UNCHANGED <<call, terminal, cancelled, pc, after, yielded, failures, delay, now, faults>>

\* It completes, fails or is cancelled: the status and its event.
Conclude ==
    /\ ~terminal
    /\ terminal' = TRUE
    /\ recorded' = recorded + 1
    /\ UNCHANGED <<call, cancelled, pc, after, yielded, failures, delay, now, faults>>

-----------------------------------------------------------------------------
(* _WaitPolicy.                                                            *)

MinOf(a, b) == IF a <= b THEN a ELSE b

\* failed: the server's hint, else doubling from the poll interval; capped.
FailedDelay(n, hint) ==
    IF hint > 0 THEN MinOf(hint, BackoffCap)
    ELSE MinOf(BackoffCap, PollSeconds * 2 ^ MinOf(n - 1, 10))

\* hold: sleep, but never past the caller's deadline, which raises once it
\* has passed.  Only wait() has one.
HoldForWhole(seconds) ==                                            \* mutant: sleep not clamped
    IF mode = "wait" /\ deadline > 0 /\ now >= deadline
    THEN pc' = "timeout" /\ UNCHANGED delay
    ELSE pc' = "sleep" /\ delay' = seconds

HoldForEver(seconds) ==                                             \* mutant: deadline never raised
    /\ pc' = "sleep"
    /\ delay' = IF mode = "wait" /\ deadline > 0
                THEN IF now >= deadline THEN 0 ELSE MinOf(seconds, deadline - now)
                ELSE seconds

HoldFor(seconds) ==
    IF mode = "wait" /\ deadline > 0 /\ now >= deadline
    THEN pc' = "timeout" /\ UNCHANGED delay
    ELSE /\ pc' = "sleep"
         /\ delay' = IF mode = "wait" /\ deadline > 0
                     THEN MinOf(seconds, deadline - now) ELSE seconds

Wake ==
    /\ pc = "sleep"
    /\ pc' = "poll"
    /\ now' = IF mode = "wait" /\ deadline > 0 THEN now + delay ELSE now
    /\ UNCHANGED <<call, server, after, yielded, failures, delay, faults>>

\* A poll failed.  A permanent error ends the call; a transient one widens
\* the interval, except in iter_events, which has no policy and raises.
PollFails ==
    /\ pc \in {"poll", "status"}
    /\ faults < MaxFailures
    /\ faults' = faults + 1
    /\ \/ /\ pc' = "error"
          /\ UNCHANGED <<failures, delay>>
       \/ /\ mode # "iter"
          /\ failures' = failures + 1
          /\ \E hint \in RetryAfters : HoldFor(FailedDelay(failures + 1, hint))
    /\ UNCHANGED <<call, server, after, yielded, now>>

Polled == failures' = 0

\* A poll, its retries included, takes time of its own: the deadline is
\* only looked at between polls and may long be over.
SlowPoll ==
    /\ pc = "poll" /\ mode = "wait"
    /\ deadline > 0 /\ now < deadline
    /\ now' = now + RequestTime
    /\ UNCHANGED <<call, server, pc, after, yielded, failures, delay, faults>>

-----------------------------------------------------------------------------
(* wait.                                                                   *)

\* get: a terminal workload is returned, else hold.
WaitPoll ==
    /\ mode = "wait"
    /\ pc = "poll"
    /\ IF terminal
       THEN pc' = "returned" /\ UNCHANGED <<failures, delay>>
       ELSE Polled /\ HoldFor(PollSeconds)
    /\ UNCHANGED <<call, server, after, yielded, now, faults>>

\* Ctrl+C: one cancellation request, whose failure does not hide the
\* interrupt.
Interrupt ==
    /\ mode = "wait"
    /\ pc \in {"poll", "sleep"}
    /\ pc' = "interrupted"
    /\ cancelled' \in {TRUE, cancelled}
    /\ UNCHANGED <<call, recorded, terminal, after, yielded, failures, delay, now, faults>>

-----------------------------------------------------------------------------
(* iter_events and stream_events.                                          *)

\* events(after=...): the oldest PageCap events past "after".
Batch == [i \in 1 .. MinOf(PageCap, recorded - after) |-> after + i]

TakeBatchFirst ==                                                   \* mutant: cursor at the first
    /\ yielded' = yielded \o Batch
    /\ after' = after + 1

TakeBatch ==
    /\ yielded' = yielded \o Batch
    /\ after' = after + Len(Batch)

\* One page of iter_events, which ends at the first empty one.
IterPollShort ==                                                    \* mutant: a short page ends it
    /\ mode = "iter"
    /\ pc = "poll"
    /\ IF Len(Batch) < PageCap
       THEN pc' = "returned" /\ UNCHANGED <<after, yielded>>
       ELSE TakeBatch /\ UNCHANGED pc
    /\ UNCHANGED <<call, server, failures, delay, now, faults>>

IterPoll ==
    /\ mode = "iter"
    /\ pc = "poll"
    /\ IF Batch = <<>>
       THEN pc' = "returned" /\ UNCHANGED <<after, yielded>>
       ELSE TakeBatch /\ UNCHANGED pc
    /\ UNCHANGED <<call, server, failures, delay, now, faults>>

\* One page of stream_events; an empty one asks for the status.
StreamPoll ==
    /\ mode = "stream"
    /\ pc = "poll"
    /\ IF Batch = <<>>
       THEN pc' = "status" /\ UNCHANGED <<after, yielded, failures, delay>>
       ELSE TakeBatch /\ Polled /\ HoldFor(PollSeconds)
    /\ UNCHANGED <<call, server, now, faults>>

\* get, a second request, after the events ran out.
StreamStatusQuiet ==                                                \* mutant: silence is the end
    /\ pc = "status"
    /\ pc' = "returned"
    /\ UNCHANGED <<call, server, after, yielded, failures, delay, now, faults>>

StreamStatusDeaf ==                                                 \* mutant: status not looked at
    /\ pc = "status"
    /\ Polled /\ HoldFor(PollSeconds)
    /\ UNCHANGED <<call, server, after, yielded, now, faults>>

StreamStatus ==
    /\ pc = "status"
    /\ IF terminal
       THEN pc' = "returned" /\ UNCHANGED <<failures, delay>>
       ELSE Polled /\ HoldFor(PollSeconds)
    /\ UNCHANGED <<call, server, after, yielded, now, faults>>

Client == Wake \/ WaitPoll \/ IterPoll \/ StreamPoll \/ StreamStatus

Next == Progress \/ Conclude \/ Client \/ SlowPoll \/ PollFails \/ Interrupt

Spec == Init /\ [][Next]_vars

\* The client's thread runs.  Whether the workload ever ends is not assumed.
FairSpec == Spec /\ WF_vars(Client)

-----------------------------------------------------------------------------
\* However pages, retries and new events interleave, the caller sees events
\* 1, 2, 3, ... with none repeated and none skipped.
NoGapNoRepeat == \A i \in 1 .. Len(yielded) : yielded[i] = i

\* iter_events returns every event recorded before it was called, though
\* they span several pages and more arrive while it reads them.
IterIsComplete == mode = "iter" /\ pc = "returned" => Len(yielded) >= before

\* wait() and stream_events() return only for a workload that is over, not
\* for one that is merely quiet or unreadable.
ReturnsWhenOver == mode # "iter" /\ pc = "returned" => terminal

\* A wait never sleeps past the caller's deadline, however far failed polls
\* and the server's hints have widened the interval, and sleeps no more
\* once slow polls have used the time up.
NeverOversleeps ==
    pc = "sleep" /\ mode = "wait" /\ deadline > 0 => now + delay <= deadline

\* A call ends once the workload has: it is not left asleep or polling
\* after the last transition, whatever failed before.
EndsWithTheWorkload == terminal ~> pc \in Ended

\* A wait with a deadline ends even for a workload that never does.
DeadlineEnds == (mode = "wait" /\ deadline > 0) ~> pc \in Ended

\* nodus/__init__.py:1343: "Yield events as they occur, stopping at the
\* terminal event."  A stream that returns has yielded that event.
StreamYieldsTerminalEvent ==
    mode = "stream" /\ pc = "returned" => Len(yielded) = recorded
=============================================================================
