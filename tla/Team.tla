-------------------------------- MODULE Team --------------------------------
(***************************************************************************)
(* The parallel assistant (nodus/managed_parallel_assistant.py) over child *)
(* controls (_agent_children.py) and peer messages (_agent_messages.py): a *)
(* coordinator plans, spawns specialists 1 .. Team, hands each its place   *)
(* in a ring, and collects their outcomes page by page; each specialist    *)
(* drafts, sends the draft to the next one and reviews the draft of the    *)
(* previous one.  Every run may be killed at any point and is then driven  *)
(* again from the start, replaying what the journal has recorded.  What    *)
(* the journal and the host do, which are not in this repository, is as    *)
(* in the fixture of tests/test_parallel_assistant.py.                     *)
(*                                                                         *)
(* Texts are abstracted away: of a message only its sender and recipient   *)
(* are kept, and a sender has one message key per recipient.  A yield ends *)
(* an execution; the run is driven again when there is something to read.  *)
(***************************************************************************)
EXTENDS Naturals, Sequences, FiniteSets

CONSTANTS
    MaxWorkers,   \* NODUS_AGENT_MAX_WORKERS, the accepted capacity
    MaxUnusable,  \* bound: unusable replies of the planner
    MaxCrashes,   \* bound: executions that die or are driven again after failing
    MaxCancels    \* bound: specialists the customer cancels

ASSUME TeamAssumption ==
    /\ MaxWorkers \in Nat \ {0} /\ MaxUnusable \in Nat
    /\ MaxCrashes \in Nat /\ MaxCancels \in Nat

Workers     == 1 .. MaxWorkers
Coordinator == 0

PlanCalls   == 3    \* a plan and two corrections
InboxLimit  == 2    \* an assignment and one finding

VARIABLES
    \* recorded in the journal
    replies,    \* the planner's replies: 0 unusable, 1 no team, n >= 2 a team of n
    status,     \* specialist -> "none", "active", "completed" or "cancelled"
    ends,       \* the specialists that ended, in the order of their events
    pages,      \* cursor -> outcomes in the page frozen there (0: none yet)
    messages,   \* <<sender, recipient>> of the recorded messages
    batches,    \* specialist -> its frozen inbox batches, as sets of senders
    drafts,     \* specialists whose draft step is recorded
    reviews,    \* specialist -> the peer whose finding it reviewed (0: none)
    requested,  \* specialists the coordinator asked to cancel
    customer,   \* specialists the customer asked to cancel
    answer,     \* specialists whose findings are in the final answer
    \* of the executions
    cpc, idx, read,   \* the coordinator: where it is, loop index, cursor
    wpc, taken,       \* specialist -> where it is, batches received so far
    crashes

journal     == <<replies, status, ends, pages, messages, batches, drafts, reviews,
                 requested, customer, answer>>
coordinator == <<cpc, idx, read>>
specialists == <<wpc, taken>>
vars        == <<journal, coordinator, specialists, crashes>>

Closed == {"completed", "cancelled"}

CoordinatorPlaces ==
    {"off", "plan", "spawn", "assign", "collect", "waiting", "cancel", "answer", "failed",
     "done"}

SpecialistPlaces ==
    {"off", "assignment", "send", "finding", "complete", "waiting", "failed", "done"}

\* Type invariant.
TypeOK ==
    /\ replies \in Seq(0 .. MaxWorkers) /\ Len(replies) <= 3
    /\ status \in [Workers -> {"none", "active"} \cup Closed]
    /\ ends \in Seq(Workers)
    /\ pages \in [0 .. MaxWorkers -> 0 .. MaxWorkers]
    /\ messages \subseteq (0 .. MaxWorkers) \X Workers
    /\ batches \in [Workers -> Seq(SUBSET (0 .. MaxWorkers))]
    /\ drafts \subseteq Workers
    /\ reviews \in [Workers -> 0 .. MaxWorkers]
    /\ requested \subseteq Workers /\ customer \subseteq Workers /\ answer \subseteq Workers
    /\ cpc \in CoordinatorPlaces
    /\ idx \in 1 .. MaxWorkers + 4
    /\ read \in 0 .. MaxWorkers
    /\ wpc \in [Workers -> SpecialistPlaces]
    /\ taken \in [Workers -> Nat]
    /\ crashes \in 0 .. MaxCrashes

Init ==
    /\ replies = <<>>
    /\ status = [i \in Workers |-> "none"]
    /\ ends = <<>>
    /\ pages = [n \in 0 .. MaxWorkers |-> 0]
    /\ messages = {}
    /\ batches = [i \in Workers |-> <<>>]
    /\ drafts = {}
    /\ reviews = [i \in Workers |-> 0]
    /\ requested = {} /\ customer = {} /\ answer = {}
    /\ cpc = "off" /\ idx = 1 /\ read = 0
    /\ wpc = [i \in Workers |-> "off"]
    /\ taken = [i \in Workers |-> 0]
    /\ crashes = 0

\* The size of the planned team; 0 when there is none.
Team == IF replies # <<>> /\ replies[Len(replies)] >= 2 THEN replies[Len(replies)] ELSE 0

PreviousOfFirst(i) == IF i = 1 THEN 1 ELSE i - 1                    \* mutant: no wrap
Previous(i)  == IF i = 1 THEN Team ELSE i - 1
Following(i) == (i % Team) + 1

\* A message is refused when its recipient has ended, but for one that is
\* already recorded under the same key.
Refused(from, to) == status[to] \in Closed /\ <<from, to>> \notin messages

End(i, how) ==
    /\ status' = [status EXCEPT ![i] = how]
    /\ ends' = Append(ends, i)

-----------------------------------------------------------------------------
(* The coordinator (main).                                                 *)

\* An execution starts, and replays from the beginning: at first, after a
\* crash, or when the page it yielded for has something to hold.
CoordinatorStarts ==
    /\ \/ cpc = "off"
       \/ cpc = "waiting" /\ Len(ends) > read
    /\ cpc' = "plan" /\ idx' = 1 /\ read' = 0
    /\ UNCHANGED <<journal, specialists, crashes>>

\* One model call of the plan step.  Its reply is recorded under its call
\* id, so a replay reads the same one and pays for no other.
PlanReply ==
    /\ cpc = "plan" /\ idx <= PlanCalls
    /\ \E reply \in IF idx <= Len(replies) THEN {replies[idx]} ELSE 0 .. MaxWorkers :
          /\ reply = 0 => idx <= MaxUnusable
          /\ replies' = IF idx <= Len(replies) THEN replies ELSE Append(replies, reply)
          /\ cpc' = CASE reply = 0 -> "plan" [] reply = 1 -> "answer" [] OTHER -> "spawn"
          /\ idx' = IF reply = 0 THEN idx + 1 ELSE 1
    /\ UNCHANGED <<status, ends, pages, messages, batches, drafts, reviews, requested,
                   customer, answer, read, specialists, crashes>>

PlanFails ==
    /\ cpc = "plan" /\ idx > PlanCalls
    /\ cpc' = "failed"
    /\ UNCHANGED <<journal, idx, read, specialists, crashes>>

\* The loop index moves on, or the loop ends.
Advance(next) ==
    IF idx < Team THEN idx' = idx + 1 /\ UNCHANGED cpc ELSE idx' = 1 /\ cpc' = next

SpawnChild ==
    /\ cpc = "spawn"
    /\ status' = [status EXCEPT ![idx] = IF @ = "none" THEN "active" ELSE @]
    /\ Advance("assign")
    /\ UNCHANGED <<replies, ends, pages, messages, batches, drafts, reviews, requested,
                   customer, answer, read, specialists, crashes>>

SendAssignment ==
    /\ cpc = "assign"
    /\ IF Refused(Coordinator, idx)
       THEN cpc' = "cancel" /\ idx' = 1 /\ UNCHANGED messages
       ELSE messages' = messages \cup {<<Coordinator, idx>>} /\ Advance("collect")
    /\ UNCHANGED <<replies, status, ends, pages, batches, drafts, reviews, requested,
                   customer, answer, read, specialists, crashes>>

\* Some outcome among the first n is not a completion.
BrokenUnchecked(n) == FALSE                                         \* mutant: status not read
BrokenPartial(n) == n < Team                                        \* mutant: missing is broken
Broken(n) == \E k \in 1 .. n : status[ends[k]] # "completed"

\* next_child_completions: the page frozen at this cursor, or a new one of
\* outcomes that have happened since; none while there is nothing to hold.
\* With every specialist spawned before, a page is exhausted exactly when
\* it holds the last outcome.
PagesAt(after) == IF pages[after] > 0 THEN {pages[after]} ELSE 1 .. Len(ends) - after

CollectPage ==
    /\ cpc = "collect"
    /\ \/ /\ PagesAt(read) = {}
          /\ cpc' = "waiting"
          /\ UNCHANGED <<pages, idx, read>>
       \/ \E n \in PagesAt(read) :
             /\ pages' = [pages EXCEPT ![read] = n]
             /\ read' = read + n
             /\ idx' = 1
             /\ cpc' = IF Broken(read + n) THEN "cancel"
                       ELSE IF read + n < Team THEN "collect" ELSE "answer"
    /\ UNCHANGED <<replies, status, ends, messages, batches, drafts, reviews, requested,
                   customer, answer, specialists, crashes>>

\* Whose outcome has been read is not asked to stop; after a refused
\* assignment none has been.
SparedAll(i) == TRUE                                                \* mutant: the rest left alone
Spared(i) == \E k \in 1 .. read : ends[k] = i

CancelChild ==
    /\ cpc = "cancel"
    /\ requested' = IF Spared(idx) THEN requested ELSE requested \cup {idx}
    /\ Advance("failed")
    /\ UNCHANGED <<replies, status, ends, pages, messages, batches, drafts, reviews,
                   customer, answer, read, specialists, crashes>>

Contributions == {ends[k] : k \in 1 .. read}

\* The final step combines the contributions; the run finishes.
Answer ==
    /\ cpc = "answer"
    /\ answer' = Contributions
    /\ cpc' = "done"
    /\ UNCHANGED <<replies, status, ends, pages, messages, batches, drafts, reviews,
                   requested, customer, idx, read, specialists, crashes>>

\* The sandbox dies, an answer is lost, a checkpoint fails, or a failed
\* execution is driven once more.
CoordinatorCrashes ==
    /\ cpc \notin {"off", "waiting", "done"}
    /\ crashes < MaxCrashes
    /\ crashes' = crashes + 1
    /\ cpc' = "off" /\ idx' = 1 /\ read' = 0
    /\ UNCHANGED <<journal, specialists>>

-----------------------------------------------------------------------------
(* A specialist (_worker).                                                 *)

Go(i, where) == wpc' = [wpc EXCEPT ![i] = where]

Undelivered(i) ==
    {from \in 0 .. MaxWorkers : <<from, i>> \in messages}
        \ UNION {batches[i][k] : k \in DOMAIN batches[i]}

Received(i, n) == UNION {batches[i][k] : k \in 1 .. n}
Inbox(i) == Received(i, taken[i])

SpecialistStarts(i) ==
    /\ status[i] = "active"
    /\ \/ wpc[i] = "off"
       \/ wpc[i] = "waiting" /\ Undelivered(i) # {}
    /\ Go(i, "assignment")
    /\ taken' = [taken EXCEPT ![i] = 0]
    /\ UNCHANGED <<journal, coordinator, crashes>>

HasAssignment(i) == Coordinator \in Inbox(i)
HasFindingAny(i) == Inbox(i) # {}                                   \* mutant: sender not compared
HasFinding(i)    == Previous(i) \in Inbox(i)

\* receive: the next frozen batch, or a new one of undelivered messages, or
\* a yield.  More than two messages are a failure.
Receive(i) ==
    /\ \/ wpc[i] = "assignment" /\ ~HasAssignment(i)
       \/ wpc[i] = "finding" /\ ~HasFinding(i)
    /\ \/ /\ taken[i] = Len(batches[i]) /\ Undelivered(i) = {}
          /\ Go(i, "waiting")
          /\ UNCHANGED <<batches, taken>>
       \/ /\ \/ taken[i] < Len(batches[i]) /\ UNCHANGED batches
             \/ /\ taken[i] = Len(batches[i])
                /\ \E batch \in SUBSET Undelivered(i) \ {{}} :
                      /\ Cardinality(batch) <= InboxLimit
                      /\ batches' = [batches EXCEPT ![i] = Append(@, batch)]
          /\ taken' = [taken EXCEPT ![i] = @ + 1]
          /\ IF Cardinality(Inbox(i) \cup batches'[i][taken[i] + 1]) > InboxLimit
             THEN Go(i, "failed") ELSE UNCHANGED wpc
    /\ UNCHANGED <<replies, status, ends, pages, messages, drafts, reviews, requested,
                   customer, answer, coordinator, crashes>>

\* The draft step; a specialist that is its own peer refuses.
Draft(i) ==
    /\ wpc[i] = "assignment" /\ HasAssignment(i)
    /\ IF i \in {Previous(i), Following(i)}
       THEN Go(i, "failed") /\ UNCHANGED drafts
       ELSE Go(i, "send") /\ drafts' = drafts \cup {i}
    /\ UNCHANGED <<replies, status, ends, pages, messages, batches, reviews, requested,
                   customer, answer, coordinator, taken, crashes>>

SendFindings(i) ==
    /\ wpc[i] = "send"
    /\ IF Refused(i, Following(i))
       THEN Go(i, "failed") /\ UNCHANGED messages
       ELSE Go(i, "finding") /\ messages' = messages \cup {<<i, Following(i)>>}
    /\ UNCHANGED <<replies, status, ends, pages, batches, drafts, reviews, requested,
                   customer, answer, coordinator, taken, crashes>>

Review(i) ==
    /\ wpc[i] = "finding" /\ HasFinding(i)
    /\ reviews' = [reviews EXCEPT ![i] = Previous(i)]
    /\ Go(i, "complete")
    /\ UNCHANGED <<replies, status, ends, pages, messages, batches, drafts, requested,
                   customer, answer, coordinator, taken, crashes>>

Complete(i) ==
    /\ wpc[i] = "complete"
    /\ End(i, "completed")
    /\ Go(i, "done")
    /\ UNCHANGED <<replies, pages, messages, batches, drafts, reviews, requested, customer,
                   answer, coordinator, taken, crashes>>

SpecialistCrashes(i) ==
    /\ wpc[i] \notin {"off", "waiting", "done"}
    /\ crashes < MaxCrashes
    /\ crashes' = crashes + 1
    /\ Go(i, "off")
    /\ taken' = [taken EXCEPT ![i] = 0]
    /\ UNCHANGED <<journal, coordinator>>

CustomerCancels(i) ==
    /\ status[i] = "active"
    /\ i \notin customer /\ Cardinality(customer) < MaxCancels
    /\ customer' = customer \cup {i}
    /\ UNCHANGED <<replies, status, ends, pages, messages, batches, drafts, reviews,
                   requested, answer, coordinator, specialists, crashes>>

\* A requested cancellation takes effect, unless the run ended before.
CancelTakesEffect(i) ==
    /\ status[i] = "active" /\ i \in requested \cup customer
    /\ End(i, "cancelled")
    /\ Go(i, "done")
    /\ UNCHANGED <<replies, pages, messages, batches, drafts, reviews, requested, customer,
                   answer, coordinator, taken, crashes>>

CoordinatorStep ==
    \/ CoordinatorStarts \/ PlanReply \/ PlanFails \/ SpawnChild \/ SendAssignment
    \/ CollectPage \/ CancelChild \/ Answer

SpecialistStep(i) ==
    \/ SpecialistStarts(i) \/ Receive(i) \/ Draft(i) \/ SendFindings(i)
    \/ Review(i) \/ Complete(i)

Next ==
    \/ CoordinatorStep \/ CoordinatorCrashes
    \/ \E i \in Workers :
          \/ SpecialistStep(i) \/ SpecialistCrashes(i)
          \/ CustomerCancels(i) \/ CancelTakesEffect(i)

Spec == Init /\ [][Next]_vars

\* The host drives every run that can go on and carries out cancellations.
\* That failed runs are driven again, or that customers cancel, is not
\* assumed.
FairSpec ==
    /\ Spec
    /\ WF_vars(CoordinatorStep)
    /\ \A i \in Workers : WF_vars(SpecialistStep(i)) /\ WF_vars(CancelTakesEffect(i))

-----------------------------------------------------------------------------
\* An answer of a team is made of the findings of all its specialists, each
\* of which completed, in whatever pages, restarts and order their outcomes
\* were read (docs/guides/managed-agents.md:137-144).
AnswerIsWhole ==
    cpc = "done" /\ Team > 0 =>
        answer = 1 .. Team /\ \A i \in answer : status[i] = "completed"

\* A specialist that completed reviewed the finding its ring predecessor
\* had sent, which was its recorded draft and not the specialist's own.
ReviewsPeer ==
    \A i \in Workers : reviews[i] # 0 \/ status[i] = "completed" =>
        /\ reviews[i] # i
        /\ reviews[i] \in drafts
        /\ <<reviews[i], i>> \in messages

\* A specialist fails only because the next one was cancelled: never since
\* that one had already completed, nor because of a surplus message, nor
\* when it is driven again and repeats its own sends and receives.
FailsForCancelledPeer ==
    \A i \in Workers : wpc[i] = "failed" => status[Following(i)] = "cancelled"

\* The coordinator asks specialists to stop only when one of them was
\* cancelled by the customer: paid work is not thrown away otherwise.
CancelsOnlyBroken == requested # {} => \E i \in customer : status[i] = "cancelled"

\* No specialist waits for ever for a finding of one that will not send it,
\* nor stays failed: each ends, whoever dies or is cancelled before.
TeamSettles == \A i \in Workers : status[i] = "active" ~> status[i] \in Closed

\* The coordinator answers, unless no usable plan came or a specialist was
\* cancelled; and then it fails instead of waiting for ever.
Concludes ==
    <>(\/ cpc = "done"
       \/ cpc = "failed" /\ (customer # {} \/ (Len(replies) = 3 /\ replies[3] = 0)))
=============================================================================
