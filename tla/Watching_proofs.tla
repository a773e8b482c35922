--------------------------- MODULE Watching_proofs ---------------------------
(***************************************************************************)
(* What holds of Watching for every page size, poll interval, deadline and *)
(* hint and any number of events and failed polls: the events are handed   *)
(* over without gap or repetition and none that was there is missed, no    *)
(* return comes before the end, and no sleep lasts past the deadline.      *)
(***************************************************************************)
EXTENDS Watching, SequenceTheorems, TLAPS

-----------------------------------------------------------------------------
(* Numbers of the polling policy.                                          *)

\* The smaller of two numbers.
LEMMA MinOfType ==
    ASSUME NEW a \in Nat, NEW b \in Nat
    PROVE  MinOf(a, b) \in Nat /\ MinOf(a, b) <= a /\ MinOf(a, b) <= b
BY DEF MinOf

\* Doubling is limited to ten times.
LEMMA DoublingType ==
    ASSUME NEW n \in Nat
    PROVE  2 ^ MinOf(n, 10) \in Nat
<1>1. MinOf(n, 10) \in 0 .. 10
  BY DEF MinOf
<1>2. /\ 2 ^ 0 = 1 /\ 2 ^ 1 = 2 /\ 2 ^ 2 = 4 /\ 2 ^ 3 = 8 /\ 2 ^ 4 = 16 /\ 2 ^ 5 = 32
      /\ 2 ^ 6 = 64 /\ 2 ^ 7 = 128 /\ 2 ^ 8 = 256 /\ 2 ^ 9 = 512 /\ 2 ^ 10 = 1024
  OBVIOUS
<1>3. \/ MinOf(n, 10) = 0 \/ MinOf(n, 10) = 1 \/ MinOf(n, 10) = 2 \/ MinOf(n, 10) = 3
      \/ MinOf(n, 10) = 4 \/ MinOf(n, 10) = 5 \/ MinOf(n, 10) = 6 \/ MinOf(n, 10) = 7
      \/ MinOf(n, 10) = 8 \/ MinOf(n, 10) = 9 \/ MinOf(n, 10) = 10
  BY <1>1
<1> DEFINE m == MinOf(n, 10)
<1> HIDE DEF m
<1>4. /\ m = 0 => 2 ^ m = 2 ^ 0
      /\ m = 1 => 2 ^ m = 2 ^ 1
      /\ m = 2 => 2 ^ m = 2 ^ 2
      /\ m = 3 => 2 ^ m = 2 ^ 3
      /\ m = 4 => 2 ^ m = 2 ^ 4
      /\ m = 5 => 2 ^ m = 2 ^ 5
      /\ m = 6 => 2 ^ m = 2 ^ 6
      /\ m = 7 => 2 ^ m = 2 ^ 7
      /\ m = 8 => 2 ^ m = 2 ^ 8
      /\ m = 9 => 2 ^ m = 2 ^ 9
      /\ m = 10 => 2 ^ m = 2 ^ 10
  BY Zenon
<1>5. 2 ^ m \in Nat
  BY <1>2, <1>3, <1>4 DEF m
<1>6. QED
  BY <1>5 DEF m

\* What failed() asks for is a number of seconds.
LEMMA FailedDelayType ==
    ASSUME NEW n \in Nat, NEW hint \in Nat
    PROVE  FailedDelay(n + 1, hint) \in Nat
<1>1. 2 ^ MinOf(n, 10) \in Nat
  BY DoublingType
<1>2. n + 1 - 1 = n
  OBVIOUS
<1>3. PollSeconds * 2 ^ MinOf(n + 1 - 1, 10) \in Nat
  <2>1. \A x \in Nat : PollSeconds * x \in Nat
    BY WatchingAssumption
  <2>2. QED
    BY <1>1, <1>2, <2>1
<1>4. MinOf(30, PollSeconds * 2 ^ MinOf(n + 1 - 1, 10)) \in Nat
  BY <1>3, MinOfType
<1>5. MinOf(hint, 30) \in Nat
  BY MinOfType
<1>6. CASE hint > 0
  BY <1>5, <1>6, Zenon DEF FailedDelay, BackoffCap
<1>7. CASE ~(hint > 0)
  <2>1. FailedDelay(n + 1, hint) = MinOf(30, PollSeconds * 2 ^ MinOf(n + 1 - 1, 10))
    BY <1>7 DEF FailedDelay, BackoffCap
  <2>2. QED
    BY <1>4, <2>1, Zenon
<1>8. QED
  BY <1>6, <1>7

-----------------------------------------------------------------------------
(* The inductive invariant.                                                *)

\* Only a workload that is over has used up its events.
Room == ~terminal => recorded < MaxEvents

\* The cursor counts what was handed over, and never runs ahead.
Cursor == Len(yielded) = after /\ after <= recorded

\* Failures in a row are failures, and only a stream asks for the status.
Counted == failures <= faults /\ (pc = "status" => mode = "stream")

Promises == NoGapNoRepeat /\ IterIsComplete /\ ReturnsWhenOver /\ NeverOversleeps

WatchingInv == TypeOK /\ Room /\ Cursor /\ Counted /\ Promises

\* A call that begins.
LEMMA WatchingInit == Init => WatchingInv
<1> SUFFICES ASSUME Init PROVE WatchingInv
  OBVIOUS
<1>1. yielded \in Seq(1 .. MaxEvents) /\ Len(yielded) = 0
  BY EmptySeq DEF Init
<1>2. TypeOK
  <2>1. before \in 0 .. MaxEvents /\ recorded \in before .. MaxEvents
    BY WatchingAssumption DEF Init
  <2>2. /\ after \in 0 .. MaxEvents /\ failures \in 0 .. MaxFailures
        /\ faults \in 0 .. MaxFailures /\ delay \in Nat /\ now \in Nat
    BY WatchingAssumption DEF Init
  <2>3. QED
    BY <1>1, <2>1, <2>2 DEF Init, TypeOK
<1>3. Room /\ Cursor /\ Counted
  BY <1>1, WatchingAssumption DEF Init, Room, Cursor, Counted
<1>4. Promises
  BY <1>1 DEF Init, Promises, NoGapNoRepeat, IterIsComplete, ReturnsWhenOver, NeverOversleeps
<1>5. QED
  BY <1>2, <1>3, <1>4 DEF WatchingInv

\* A sleep that is chosen does not reach past the deadline.
LEMMA HoldForInv ==
    ASSUME WatchingInv, NEW seconds \in Nat, HoldFor(seconds),
           UNCHANGED <<mode, deadline, now>>
    PROVE  pc' \in {"timeout", "sleep"} /\ delay' \in Nat /\ NeverOversleeps'
<1>1. now \in Nat /\ delay \in Nat /\ deadline \in Nat
  BY WatchingAssumption DEF WatchingInv, TypeOK
<1>2. CASE mode = "wait" /\ deadline > 0 /\ now >= deadline
  BY <1>1, <1>2 DEF HoldFor, NeverOversleeps
<1>3. CASE mode = "wait" /\ deadline > 0 /\ ~(now >= deadline)
  <2>1. deadline - now \in Nat
    BY <1>1, <1>3
  <2>2. pc' = "sleep" /\ delay' = MinOf(seconds, deadline - now)
    BY <1>3 DEF HoldFor
  <2>3. delay' \in Nat /\ delay' <= deadline - now
    BY <2>1, <2>2, MinOfType
  <2>4. QED
    BY <1>1, <2>2, <2>3 DEF NeverOversleeps
<1>4. CASE ~(mode = "wait" /\ deadline > 0)
  BY <1>1, <1>4 DEF HoldFor, NeverOversleeps
<1>5. QED
  BY <1>2, <1>3, <1>4

\* A page holds what follows the cursor, and is empty only when nothing does.
LEMMA BatchShape ==
    ASSUME WatchingInv
    PROVE  /\ Batch \in Seq(1 .. MaxEvents)
           /\ Len(Batch) \in Nat /\ after + Len(Batch) <= recorded
           /\ \A i \in 1 .. Len(Batch) : Batch[i] = after + i
           /\ Batch = <<>> => after = recorded
<1> DEFINE n == MinOf(PageCap, recorded - after)
<1>1. after \in Nat /\ recorded \in Nat /\ recorded <= MaxEvents /\ after <= recorded
  BY WatchingAssumption DEF WatchingInv, TypeOK, Cursor
<1>2. n \in Nat /\ n <= recorded - after /\ (n = 0 => after = recorded)
  BY <1>1, WatchingAssumption DEF MinOf
<1>3. Batch = [i \in 1 .. n |-> after + i]
  BY DEF Batch
<1> HIDE DEF n
<1>4. \A i \in 1 .. n : after + i \in 1 .. MaxEvents
  BY <1>1, <1>2, WatchingAssumption
<1>5. Batch \in [1 .. n -> 1 .. MaxEvents]
  BY <1>3, <1>4
<1>6. Batch \in Seq(1 .. MaxEvents)
  BY <1>2, <1>5, SeqDef
<1>7. Len(Batch) = n
  <2>1. DOMAIN Batch = 1 .. Len(Batch) /\ Len(Batch) \in Nat
    BY <1>6, LenProperties
  <2>2. DOMAIN Batch = 1 .. n
    BY <1>3
  <2> DEFINE k == Len(Batch)
  <2>3. k \in Nat /\ 1 .. k = 1 .. n
    BY <2>1, <2>2
  <2> HIDE DEF k
  <2>4. k = n
    BY <1>2, <2>3
  <2>5. QED
    BY <2>4 DEF k
<1>8. QED
  BY <1>1, <1>2, <1>3, <1>6, <1>7

\* Taking a page moves the cursor by the events it hands over.
LEMMA TakeBatchInv ==
    ASSUME WatchingInv, TakeBatch, UNCHANGED recorded
    PROVE  /\ yielded' \in Seq(1 .. MaxEvents) /\ after' \in 0 .. MaxEvents
           /\ Cursor' /\ NoGapNoRepeat'
<1>1. yielded \in Seq(1 .. MaxEvents) /\ Len(yielded) = after /\ after \in Nat
  BY DEF WatchingInv, TypeOK, Cursor
<1>2. /\ Batch \in Seq(1 .. MaxEvents) /\ Len(Batch) \in Nat
      /\ after + Len(Batch) <= recorded
      /\ \A i \in 1 .. Len(Batch) : Batch[i] = after + i
  BY BatchShape
<1>3. yielded' = yielded \o Batch /\ after' = after + Len(Batch)
  BY DEF TakeBatch
<1> HIDE DEF Batch
<1>4. /\ yielded' \in Seq(1 .. MaxEvents) /\ Len(yielded') = after + Len(Batch)
      /\ \A i \in 1 .. after + Len(Batch) :
             yielded'[i] = IF i <= after THEN yielded[i] ELSE Batch[i - after]
  BY <1>1, <1>2, <1>3, ConcatProperties
<1>5. \A i \in 1 .. after : yielded[i] = i
  BY <1>1 DEF WatchingInv, Promises, NoGapNoRepeat
<1>6. \A i \in 1 .. after + Len(Batch) : yielded'[i] = i
  <2> TAKE i \in 1 .. after + Len(Batch)
  <2>1. CASE i <= after
    BY <1>1, <1>4, <1>5, <2>1
  <2>2. CASE ~(i <= after)
    <3>1. i - after \in 1 .. Len(Batch)
      BY <1>1, <1>2, <2>2
    <3>2. Batch[i - after] = after + (i - after)
      BY <1>2, <3>1
    <3>3. QED
      BY <1>1, <1>2, <1>4, <2>2, <3>2
  <2>3. QED
    BY <2>1, <2>2
<1>7. recorded \in Nat /\ recorded <= MaxEvents
  BY WatchingAssumption DEF WatchingInv, TypeOK
<1>8. QED
  BY <1>1, <1>2, <1>3, <1>4, <1>6, <1>7, WatchingAssumption DEF Cursor, NoGapNoRepeat

\* Every step keeps the invariant.
LEMMA WatchingStep == WatchingInv /\ [Next]_vars => WatchingInv'
<1> SUFFICES ASSUME WatchingInv, [Next]_vars PROVE WatchingInv'
  OBVIOUS
<1> USE WatchingAssumption DEF WatchingInv, Promises
<1>1. CASE Progress
  BY <1>1 DEF Progress, call, TypeOK, Room, Cursor, Counted, NoGapNoRepeat, IterIsComplete,
              ReturnsWhenOver, NeverOversleeps
<1>2. CASE Conclude
  BY <1>2 DEF Conclude, call, TypeOK, Room, Cursor, Counted, NoGapNoRepeat, IterIsComplete,
              ReturnsWhenOver, NeverOversleeps
<1>3. CASE Wake
  BY <1>3 DEF Wake, call, server, TypeOK, Room, Cursor, Counted, NoGapNoRepeat,
              IterIsComplete, ReturnsWhenOver, NeverOversleeps
<1>4. CASE SlowPoll
  BY <1>4 DEF SlowPoll, call, server, TypeOK, Room, Cursor, Counted, NoGapNoRepeat,
              IterIsComplete, ReturnsWhenOver, NeverOversleeps
<1>5. CASE Interrupt
  BY <1>5 DEF Interrupt, call, TypeOK, Room, Cursor, Counted, NoGapNoRepeat,
              IterIsComplete, ReturnsWhenOver, NeverOversleeps, Ended
<1>6. CASE PollFails
  <2>1. CASE pc' = "error" /\ UNCHANGED <<failures, delay>>
    BY <1>6, <2>1 DEF PollFails, call, server, TypeOK, Room, Cursor, Counted, NoGapNoRepeat,
                      IterIsComplete, ReturnsWhenOver, NeverOversleeps, Ended
  <2>2. ASSUME NEW hint \in RetryAfters, failures' = failures + 1,
               HoldFor(FailedDelay(failures + 1, hint))
        PROVE  WatchingInv'
    <3>1. FailedDelay(failures + 1, hint) \in Nat
      BY FailedDelayType DEF TypeOK
    <3>2. pc' \in {"timeout", "sleep"} /\ delay' \in Nat /\ NeverOversleeps'
      BY <1>6, <2>2, <3>1, HoldForInv DEF PollFails, call
    <3>3. QED
      BY <1>6, <2>2, <3>2 DEF PollFails, call, server, TypeOK, Room, Cursor, Counted,
                              NoGapNoRepeat, IterIsComplete, ReturnsWhenOver, Ended
  <2>3. QED
    BY <1>6, <2>1, <2>2 DEF PollFails
<1>7. CASE WaitPoll
  <2>1. CASE terminal
    BY <1>7, <2>1 DEF WaitPoll, call, server, TypeOK, Room, Cursor, Counted, NoGapNoRepeat,
                      IterIsComplete, ReturnsWhenOver, NeverOversleeps, Ended
  <2>2. CASE ~terminal
    <3>1. pc' \in {"timeout", "sleep"} /\ delay' \in Nat /\ NeverOversleeps'
      BY <1>7, <2>2, HoldForInv DEF WaitPoll, call
    <3>2. QED
      BY <1>7, <2>2, <3>1 DEF WaitPoll, Polled, call, server, TypeOK, Room, Cursor, Counted,
                              NoGapNoRepeat, IterIsComplete, ReturnsWhenOver, Ended
  <2>3. QED
    BY <2>1, <2>2
<1>8. CASE IterPoll
  <2>1. CASE Batch = <<>>
    <3>1. after = recorded
      BY <2>1, BatchShape
    <3>2. QED
      BY <1>8, <2>1, <3>1
         DEF IterPoll, call, server, TypeOK, Room, Cursor, Counted, NoGapNoRepeat,
             IterIsComplete, ReturnsWhenOver, NeverOversleeps, Ended
  <2>2. CASE Batch # <<>>
    <3>1. TakeBatch /\ UNCHANGED recorded
      BY <1>8, <2>2 DEF IterPoll, server
    <3>2. /\ yielded' \in Seq(1 .. MaxEvents) /\ after' \in 0 .. MaxEvents
          /\ Cursor' /\ NoGapNoRepeat'
      BY <3>1, TakeBatchInv
    <3>3. QED
      BY <1>8, <2>2, <3>2 DEF IterPoll, call, server, TypeOK, Room, Counted,
                              IterIsComplete, ReturnsWhenOver, NeverOversleeps, Ended
  <2>3. QED
    BY <2>1, <2>2
<1>9. CASE StreamPoll
  <2>1. CASE Batch = <<>>
    BY <1>9, <2>1 DEF StreamPoll, call, server, TypeOK, Room, Cursor, Counted,
                      NoGapNoRepeat, IterIsComplete, ReturnsWhenOver, NeverOversleeps, Ended
  <2>2. CASE Batch # <<>>
    <3>1. /\ yielded' \in Seq(1 .. MaxEvents) /\ after' \in 0 .. MaxEvents
          /\ Cursor' /\ NoGapNoRepeat'
      BY <1>9, <2>2, TakeBatchInv DEF StreamPoll, server
    <3>2. pc' \in {"timeout", "sleep"} /\ delay' \in Nat /\ NeverOversleeps'
      BY <1>9, <2>2, HoldForInv DEF StreamPoll, call
    <3>3. QED
      BY <1>9, <2>2, <3>1, <3>2 DEF StreamPoll, Polled, call, server, TypeOK, Room, Counted,
                                    IterIsComplete, ReturnsWhenOver, Ended
  <2>3. QED
    BY <2>1, <2>2
<1>10. CASE StreamStatus
  <2>1. CASE terminal
    BY <1>10, <2>1 DEF StreamStatus, call, server, TypeOK, Room, Cursor, Counted,
                       NoGapNoRepeat, IterIsComplete, ReturnsWhenOver, NeverOversleeps, Ended
  <2>2. CASE ~terminal
    <3>1. pc' \in {"timeout", "sleep"} /\ delay' \in Nat /\ NeverOversleeps'
      BY <1>10, <2>2, HoldForInv DEF StreamStatus, call
    <3>2. QED
      BY <1>10, <2>2, <3>1 DEF StreamStatus, Polled, call, server, TypeOK, Room, Cursor,
                               Counted, NoGapNoRepeat, IterIsComplete, ReturnsWhenOver, Ended
  <2>3. QED
    BY <2>1, <2>2
<1>11. CASE UNCHANGED vars
  BY <1>11 DEF vars, call, server, TypeOK, Room, Cursor, Counted, NoGapNoRepeat,
               IterIsComplete, ReturnsWhenOver, NeverOversleeps
<1>12. QED
  BY <1>1, <1>2, <1>3, <1>4, <1>5, <1>6, <1>7, <1>8, <1>9, <1>10, <1>11 DEF Next, Client

\* The whole invariant, of which the theorems below are parts.
LEMMA WatchingInvariant == Spec => []WatchingInv
BY WatchingInit, WatchingStep, PTL DEF Spec

\* The caller sees events 1, 2, 3, ..., whatever pages they came in.
THEOREM EventsInOrder == Spec => []NoGapNoRepeat
<1>1. WatchingInv => NoGapNoRepeat
  BY DEF WatchingInv, Promises
<1>2. QED
  BY <1>1, WatchingInvariant, PTL

\* iter_events misses no event that was there when it was called.
THEOREM IterMissesNothing == Spec => []IterIsComplete
<1>1. WatchingInv => IterIsComplete
  BY DEF WatchingInv, Promises
<1>2. QED
  BY <1>1, WatchingInvariant, PTL

\* wait and stream_events return only for a workload that is over.
THEOREM NoEarlyReturn == Spec => []ReturnsWhenOver
<1>1. WatchingInv => ReturnsWhenOver
  BY DEF WatchingInv, Promises
<1>2. QED
  BY <1>1, WatchingInvariant, PTL

\* A wait never sleeps past its deadline.
THEOREM NoOversleeping == Spec => []NeverOversleeps
<1>1. WatchingInv => NeverOversleeps
  BY DEF WatchingInv, Promises
<1>2. QED
  BY <1>1, WatchingInvariant, PTL
=============================================================================
