------------------------------- MODULE Progress -------------------------------
(***************************************************************************)
(* The display of a wait (nodus/_terminal.py, RunProgress, driven by       *)
(* Client.wait and AsyncClient.wait): each poll reads the workload, then   *)
(* its events, its live output and, where there is none, its saved output, *)
(* while the workload goes on between the requests.  Watching models the   *)
(* polls, their failures and the deadline; here is what is printed.        *)
(*                                                                         *)
(* Events and chunks of output are numbered 1, 2, ...  A deployment serves *)
(* live output, has the route but no output from an older runner, or lacks *)
(* the route.  A page may repeat the last chunk of the page before it.     *)
(* The control plane is external.                                          *)
(***************************************************************************)
EXTENDS Naturals, Sequences

CONSTANTS PageCap,      \* entries of a page
          MaxEntries,   \* bound: events, and chunks
          MaxRounds     \* bound: polls before the last

ProgressAssumption == PageCap \in Nat \ {0} /\ MaxEntries \in Nat /\ MaxRounds \in Nat

VARIABLES
    work,      \* [events, output, base, saved, attempt, over]
    live,      \* "served", "silent", "absent"
    view,      \* [over, event, chunk, live, empty, attempt, saved]: RunProgress
    todo,      \* the requests left of this poll, in order
    missed,    \* one of them had no answer
    printed,   \* what was printed: <<kind, number>>
    waiting    \* [pc, rounds]

vars == <<work, live, view, todo, missed, printed, waiting>>

Kinds == {"events", "logs", "saved_logs"}

TypeOK ==
    /\ work \in [events: 0 .. MaxEntries, output: 0 .. MaxEntries, base: 0 .. MaxEntries,
                 saved: 0 .. MaxEntries, attempt: 1 .. 2, over: BOOLEAN]
    /\ live \in {"served", "silent", "absent"}
    /\ view \in [over: BOOLEAN, event: 0 .. MaxEntries, chunk: 0 .. MaxEntries, live: BOOLEAN,
                 empty: BOOLEAN, attempt: 0 .. 2, saved: 0 .. MaxEntries]
    /\ todo \in Seq(Kinds) /\ missed \in BOOLEAN
    /\ printed \in Seq(Kinds \X (1 .. MaxEntries))
    /\ waiting \in [pc: {"poll", "requests", "returned"}, rounds: 0 .. MaxRounds]

\* RunProgress.__init__
Init ==
    /\ work = [events |-> 0, output |-> 0, base |-> 0, saved |-> 0, attempt |-> 1, over |-> FALSE]
    /\ live \in {"served", "silent", "absent"}
    /\ view = [over |-> FALSE, event |-> 0, chunk |-> 0, live |-> TRUE, empty |-> FALSE,
               attempt |-> 0, saved |-> 0]
    /\ todo = <<>> /\ missed = FALSE /\ printed = <<>>
    /\ waiting = [pc |-> "poll", rounds |-> 0]

-----------------------------------------------------------------------------
(* The workload goes on: it reports, prints, is reclaimed and begins anew, *)
(* commits what it printed, and ends.  Saved output is of one attempt.     *)

Works ==
    /\ ~work.over
    /\ \/ work.events < MaxEntries /\ work' = [work EXCEPT !.events = @ + 1]
       \/ work.output < MaxEntries /\ work' = [work EXCEPT !.output = @ + 1]
       \/ work.saved < work.output /\ work' = [work EXCEPT !.saved = work.output]
       \/ /\ work.attempt = 1
          /\ work' = [work EXCEPT !.attempt = 2, !.base = work.output, !.saved = work.output]
       \/ work' = [work EXCEPT !.over = TRUE, !.saved = work.output]
    /\ UNCHANGED <<live, view, todo, missed, printed, waiting>>

-----------------------------------------------------------------------------
(* One poll.                                                               *)

\* RunProgress.requests
Requests(over) ==
    <<"events">> \o (IF view.live THEN <<"logs">> ELSE <<>>)
    \o (IF ~view.live \/ over THEN <<"saved_logs">> ELSE <<>>)

\* wait: the workload is read and shown.
Poll ==
    /\ waiting.pc = "poll"
    /\ work.over \/ waiting.rounds < MaxRounds
    /\ view' = [view EXCEPT !.over = work.over]
    /\ todo' = Requests(work.over) /\ missed' = FALSE
    /\ waiting' = [pc |-> "requests", rounds |-> waiting.rounds + (IF work.over THEN 0 ELSE 1)]
    /\ UNCHANGED <<work, live, printed>>

Asking(kind) == waiting.pc = "requests" /\ todo # <<>> /\ Head(todo) = kind

Entries(kind, from, to) == [i \in 1 .. (to - from) |-> <<kind, from + i>>]

\* mutant: a page that moved on is followed by the next poll only.
AgainNever(advanced) == FALSE

\* At the end pages follow one another until one brings nothing.
Again(advanced) == view.over /\ advanced

\* accept, of events: those beyond the last.
TakeEvents ==
    LET last == IF work.events < view.event + PageCap THEN work.events ELSE view.event + PageCap
    IN /\ Asking("events")
       /\ view' = [view EXCEPT !.event = last]
       /\ printed' = printed \o Entries("events", view.event, last)
       /\ todo' = IF Again(last > view.event) THEN todo ELSE Tail(todo)
       /\ UNCHANGED <<work, live, missed, waiting>>

\* mutant: whatever a page holds is printed.
BeyondAll(first) == first

\* Of a page that begins with this chunk, only what lies beyond the last is printed.
Beyond(first) == IF first <= view.chunk THEN view.chunk + 1 ELSE first

\* accept, of live output.
TakeChunks ==
    LET last == IF work.output < view.chunk + PageCap THEN work.output ELSE view.chunk + PageCap
    IN /\ Asking("logs") /\ live # "absent"
       /\ \E first \in {view.chunk, view.chunk + 1} \ {0} :
             LET empty == live = "silent" \/ first > last
             IN /\ view' = [view EXCEPT !.chunk = IF empty THEN @ ELSE last,
                                        !.empty = empty /\ view.chunk = 0]
                /\ printed' = IF empty THEN printed
                              ELSE printed \o Entries("logs", Beyond(first) - 1, last)
                /\ todo' = IF Again(~empty /\ last > view.chunk) THEN todo ELSE Tail(todo)
       /\ UNCHANGED <<work, live, missed, waiting>>

\* Saved output is asked for only when live output is missing.
SkipSaved ==
    /\ Asking("saved_logs") /\ view.live /\ ~view.empty
    /\ todo' = Tail(todo) /\ UNCHANGED <<work, live, view, missed, printed, waiting>>

\* accept_saved_logs: what continues the text printed of this attempt.
TakeSaved ==
    /\ Asking("saved_logs") /\ (~view.live \/ view.empty)
    /\ LET shown == IF view.attempt = work.attempt THEN view.saved ELSE work.base
       IN IF work.saved = work.base
          THEN UNCHANGED <<view, printed>>                            \* 404
          ELSE /\ view' = [view EXCEPT !.attempt = work.attempt, !.saved = work.saved]
               /\ printed' = printed \o Entries("saved_logs", shown, work.saved)
    /\ todo' = Tail(todo) /\ UNCHANGED <<work, live, missed, waiting>>

\* unavailable: the route is missing; or the request failed, or no time was left.
Unavailable ==
    /\ waiting.pc = "requests" /\ todo # <<>> /\ todo' = Tail(todo)
    /\ \/ Asking("logs") /\ live = "absent" /\ view' = [view EXCEPT !.live = FALSE, !.empty = FALSE]
          /\ UNCHANGED missed
       \/ view' = [view EXCEPT !.empty = IF Head(todo) = "logs" THEN FALSE ELSE @]
          /\ missed' = TRUE
    /\ UNCHANGED <<work, live, printed, waiting>>

RoundEnds ==
    /\ waiting.pc = "requests" /\ todo = <<>>
    /\ waiting' = [waiting EXCEPT !.pc = IF view.over THEN "returned" ELSE "poll"]
    /\ UNCHANGED <<work, live, view, todo, missed, printed>>

Next ==
    \/ Works \/ Poll \/ TakeEvents \/ TakeChunks \/ SkipSaved \/ TakeSaved
    \/ Unavailable \/ RoundEnds

Spec == Init /\ [][Next]_vars

-----------------------------------------------------------------------------
\* The numbers that were printed of a kind.
Of(kind) == { printed[i][2] : i \in { j \in DOMAIN printed : printed[j][1] = kind } }

(* Nothing is printed twice or out of order, and once the workload is over *)
(* all it reported and printed has been shown, live or saved, unless a     *)
(* request of the last poll had no answer: also when it was reclaimed,     *)
(* when a deployment or its runner has no live output, and when it ended   *)
(* with pages still to read (__init__.py:1300-1331, _terminal.py:221-292). *)
OutputShown ==
    /\ \A i, j \in DOMAIN printed :
          i < j /\ printed[i][1] = printed[j][1] => printed[i][2] < printed[j][2]
    /\ waiting.pc = "returned" /\ ~missed =>
          /\ Of("events") = 1 .. work.events
          /\ live = "served" /\ work.output > 0 => Of("logs") = 1 .. work.output
          /\ live # "served" => (work.base + 1) .. work.output \subseteq Of("saved_logs")
=============================================================================
