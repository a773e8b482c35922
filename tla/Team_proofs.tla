----------------------------- MODULE Team_proofs -----------------------------
(***************************************************************************)
(* What holds of Team for every accepted capacity, however often runs die  *)
(* and are driven again, whatever the planner replies and whomever the     *)
(* customer cancels: an answer is whole, each specialist reviews the draft *)
(* of its predecessor in the ring, it fails only for a cancelled peer, and *)
(* the coordinator stops its specialists only when one was cancelled.      *)
(***************************************************************************)
EXTENDS Team, FiniteSetTheorems, SequenceTheorems, TLAPS

-----------------------------------------------------------------------------
(* The inductive invariant, in five parts.                                 *)

\* The plan: every reply before the last is unusable, an execution that
\* plans has read only unusable ones, and the phases after it have a team.
PlanKept ==
    /\ \A k \in 1 .. Len(replies) - 1 : replies[k] = 0
    /\ cpc = "plan" => /\ idx <= Len(replies) + 1 /\ read = 0
                       /\ \A k \in 1 .. idx - 1 : replies[k] = 0
    /\ cpc \in {"spawn", "assign", "collect", "waiting", "cancel"} => Team >= 2
    /\ cpc \in {"spawn", "assign", "cancel"} => idx <= Team
    /\ cpc \in {"spawn", "assign"} => read = 0

\* Who ended, and how often: once each, and only members of the team.
Outcomes(n) == {ends[k] : k \in 1 .. n}

EndedOnce ==
    /\ \A k \in 1 .. Len(ends) : ends[k] \in 1 .. Team /\ status[ends[k]] \in Closed
    /\ IsFiniteSet(Outcomes(Len(ends))) /\ Cardinality(Outcomes(Len(ends))) = Len(ends)

\* The pages hold outcomes that have happened; those that were read are
\* completions as long as the coordinator goes on, and all when it answers.
OutcomesRead ==
    /\ \A a \in 0 .. MaxWorkers : pages[a] > 0 => a + pages[a] <= Len(ends)
    /\ read <= Len(ends)
    /\ cpc \in {"collect", "waiting"} => ~Broken(read)
    /\ cpc \in {"answer", "done"} /\ Team > 0 => read = Team /\ ~Broken(read)
    /\ cpc = "done" => answer = Contributions

\* The ring: messages go from the coordinator to a member of the team, or
\* from a member that has its draft to the next one.
RingMessages ==
    \A from \in 0 .. MaxWorkers, to \in Workers : <<from, to>> \in messages =>
        /\ to \in 1 .. Team
        /\ from # Coordinator => from = Previous(to) /\ from \in drafts

\* What a specialist has received, done and recorded at each of its places.
Specialist(i) ==
    /\ status[i] # "none" => i \in 1 .. Team
    /\ wpc[i] # "off" => status[i] # "none"
    /\ status[i] \in Closed <=> wpc[i] = "done"
    /\ taken[i] <= Len(batches[i])
    /\ \A k \in 1 .. Len(batches[i]) : \A from \in batches[i][k] : <<from, i>> \in messages
    /\ wpc[i] \in {"send", "finding", "complete"} => <<Coordinator, i>> \in messages
    /\ wpc[i] = "send" => i \in drafts
    /\ wpc[i] = "complete" => reviews[i] # 0
    /\ status[i] = "completed" => reviews[i] # 0 /\ <<Coordinator, i>> \in messages
    /\ reviews[i] # 0 =>
          i \in 1 .. Team /\ reviews[i] = Previous(i) /\ <<reviews[i], i>> \in messages
    /\ wpc[i] = "failed" => status[Following(i)] = "cancelled"

Specialists == \A i \in Workers : Specialist(i)

\* Every cancelled specialist was asked to stop; and whoever the coordinator
\* asks, some specialist was cancelled by the customer before.
CustomerFirst ==
    /\ \A i \in Workers : status[i] = "cancelled" => i \in requested \cup customer
    /\ requested # {} \/ cpc = "cancel" => \E i \in customer : status[i] = "cancelled"

TeamInv ==
    /\ TypeOK /\ PlanKept /\ EndedOnce /\ OutcomesRead
    /\ RingMessages /\ Specialists /\ CustomerFirst

-----------------------------------------------------------------------------
(* The ring and the outcomes.                                              *)

\* A team is none, or of two up to the accepted capacity.
LEMMA TeamSize ==
    ASSUME TypeOK
    PROVE  Team \in Nat /\ Team <= MaxWorkers /\ Team # 1
<1>1. replies \in Seq(0 .. MaxWorkers)
  BY DEF TypeOK
<1>2. replies # <<>> => replies[Len(replies)] \in 0 .. MaxWorkers
  <2>1. replies # <<>> => Len(replies) \in 1 .. Len(replies)
    BY <1>1, LenProperties, EmptySeq
  <2>2. QED
    BY <1>1, <2>1, ElementOfSeq
<1>3. QED
  BY <1>2, TeamAssumption DEF Team

\* Following goes round the ring.
LEMMA RingStep ==
    ASSUME NEW n \in Nat, n >= 2, NEW i \in 1 .. n
    PROVE  (i % n) + 1 = IF i = n THEN 1 ELSE i + 1
<1>1. CASE i = n
  <2>1. n % n = 0
    BY SMT
  <2>2. QED
    BY <1>1, <2>1
<1>2. CASE i < n
  <2>1. i % n = i
    BY <1>2, SMT
  <2>2. QED
    BY <1>2, <2>1
<1>3. QED
  BY <1>1, <1>2

\* In a team, the next one is another one, and the one before it is oneself.
LEMMA Ring ==
    ASSUME TypeOK, NEW i \in 1 .. Team
    PROVE  /\ i \in Workers /\ Team >= 2
           /\ Following(i) \in 1 .. Team /\ Following(i) \in Workers /\ Following(i) # i
           /\ Previous(i) \in 1 .. Team /\ Previous(i) # i
           /\ Previous(Following(i)) = i
<1>1. Team \in Nat /\ Team <= MaxWorkers /\ Team >= 2
  BY TeamSize
<1>2. Following(i) = IF i = Team THEN 1 ELSE i + 1
  BY <1>1, RingStep DEF Following
<1>3. i \in Workers
  BY <1>1, TeamAssumption DEF Workers
<1>4. Following(i) \in 1 .. Team /\ Following(i) # i /\ Following(i) \in Workers
  BY <1>1, <1>2, TeamAssumption DEF Workers
<1>5. Previous(i) \in 1 .. Team /\ Previous(i) # i /\ Previous(Following(i)) = i
  BY <1>1, <1>2 DEF Previous
<1>6. QED
  BY <1>1, <1>3, <1>4, <1>5

\* No more specialists ended than there are; when all have, they are the team.
LEMMA EndsBound ==
    ASSUME TypeOK, EndedOnce
    PROVE  /\ Len(ends) \in Nat /\ Len(ends) <= Team
           /\ Len(ends) = Team => Outcomes(Team) = 1 .. Team
<1>1. Team \in Nat
  BY TeamSize
<1>2. Outcomes(Len(ends)) \in SUBSET (1 .. Team)
  BY DEF EndedOnce, Outcomes
<1>3. IsFiniteSet(1 .. Team) /\ Cardinality(1 .. Team) = Team
  BY <1>1, FS_Interval
<1>4. /\ Cardinality(Outcomes(Len(ends))) <= Cardinality(1 .. Team)
      /\ Cardinality(1 .. Team) = Cardinality(Outcomes(Len(ends)))
            => 1 .. Team = Outcomes(Len(ends))
  BY <1>2, <1>3, FS_Subset
<1>5. Len(ends) \in Nat
  BY DEF TypeOK
<1>6. QED
  BY <1>3, <1>4, <1>5 DEF EndedOnce

\* A specialist that ends is one more outcome.
LEMMA OneMoreOutcome ==
    ASSUME TypeOK, EndedOnce, NEW i \in Workers, status[i] \notin Closed,
           ends' = Append(ends, i)
    PROVE  /\ Len(ends') = Len(ends) + 1 /\ ends'[Len(ends) + 1] = i
           /\ \A k \in 1 .. Len(ends) : ends'[k] = ends[k]
           /\ IsFiniteSet(Outcomes(Len(ends))')
           /\ Cardinality(Outcomes(Len(ends))') = Len(ends) + 1
<1>1. ends \in Seq(Workers) /\ Len(ends) \in Nat
  BY DEF TypeOK
<1>2. /\ Len(ends') = Len(ends) + 1 /\ ends'[Len(ends) + 1] = i
      /\ \A k \in 1 .. Len(ends) : ends'[k] = ends[k]
  BY <1>1, AppendProperties
<1>3. Outcomes(Len(ends))' = Outcomes(Len(ends)) \cup {i}
  BY <1>1, <1>2 DEF Outcomes
<1>4. i \notin Outcomes(Len(ends))
  BY DEF Outcomes, EndedOnce
<1>5. IsFiniteSet(Outcomes(Len(ends))) /\ Cardinality(Outcomes(Len(ends))) = Len(ends)
  BY DEF EndedOnce
<1>6. /\ IsFiniteSet(Outcomes(Len(ends)) \cup {i})
      /\ Cardinality(Outcomes(Len(ends)) \cup {i}) = Len(ends) + 1
  BY <1>4, <1>5, FS_AddElement
<1>7. QED
  BY <1>2, <1>3, <1>6

-----------------------------------------------------------------------------
(* Types.                                                                  *)

\* The type invariant holds initially.
LEMMA TypeInit == Init => TypeOK
<1> SUFFICES ASSUME Init PROVE TypeOK
  OBVIOUS
<1>1. <<>> \in Seq(0 .. MaxWorkers) /\ <<>> \in Seq(Workers)
      /\ <<>> \in Seq(SUBSET (0 .. MaxWorkers)) /\ Len(<<>>) = 0
  BY EmptySeq
<1>2. /\ replies \in Seq(0 .. MaxWorkers) /\ Len(replies) <= 3 /\ ends \in Seq(Workers)
      /\ batches \in [Workers -> Seq(SUBSET (0 .. MaxWorkers))]
  BY <1>1 DEF Init
<1>3. /\ status \in [Workers -> {"none", "active"} \cup Closed]
      /\ pages \in [0 .. MaxWorkers -> 0 .. MaxWorkers]
      /\ messages \subseteq (0 .. MaxWorkers) \X Workers
      /\ drafts \subseteq Workers /\ reviews \in [Workers -> 0 .. MaxWorkers]
      /\ requested \subseteq Workers /\ customer \subseteq Workers /\ answer \subseteq Workers
  BY TeamAssumption DEF Init
<1>4. /\ cpc \in CoordinatorPlaces /\ idx \in 1 .. MaxWorkers + 4 /\ read \in 0 .. MaxWorkers
      /\ wpc \in [Workers -> SpecialistPlaces] /\ taken \in [Workers -> Nat]
      /\ crashes \in 0 .. MaxCrashes
  BY TeamAssumption DEF Init, CoordinatorPlaces, SpecialistPlaces
<1>5. QED
  BY <1>2, <1>3, <1>4, Zenon DEF TypeOK

\* The type invariant, with the bounds of the team and of the outcomes, is
\* kept by every step.
LEMMA TypeStep ==
    ASSUME TypeOK, PlanKept, EndedOnce, OutcomesRead, Specialists, [Next]_vars
    PROVE  TypeOK'
<1> USE TeamAssumption
<1>0. Team \in Nat /\ Team <= MaxWorkers /\ Len(ends) \in Nat /\ Len(ends) <= Team
  BY TeamSize, EndsBound
<1>a. /\ cpc \in CoordinatorPlaces /\ idx \in 1 .. MaxWorkers + 4 /\ read \in 0 .. MaxWorkers
  BY DEF TypeOK
<1>e. /\ pages \in [0 .. MaxWorkers -> 0 .. MaxWorkers]
      /\ messages \subseteq (0 .. MaxWorkers) \X Workers
  BY DEF TypeOK
<1>t. wpc \in [Workers -> SpecialistPlaces] /\ taken \in [Workers -> Nat]
  BY DEF TypeOK
<1>b. /\ status \in [Workers -> {"none", "active"} \cup Closed]
      /\ wpc \in [Workers -> SpecialistPlaces] /\ taken \in [Workers -> Nat]
      /\ reviews \in [Workers -> 0 .. MaxWorkers] /\ requested \subseteq Workers
      /\ crashes \in 0 .. MaxCrashes /\ ends \in Seq(Workers)
  BY DEF TypeOK
<1>c. (cpc \in {"spawn", "assign", "cancel"} => idx <= Team) /\ read <= Len(ends)
  BY DEF PlanKept, OutcomesRead
<1>d. Team <= MaxWorkers /\ \A k \in 1 .. Team : k \in Workers
  BY <1>0 DEF Workers
<1>1. CASE CoordinatorStarts
  <2>1. UNCHANGED <<replies, status, ends, pages, messages, batches, drafts,
                     reviews, requested, customer, answer, wpc, taken, crashes>>
    BY <1>1 DEF CoordinatorStarts, journal, specialists
  <2>2. /\ cpc' \in CoordinatorPlaces
        /\ idx' \in 1 .. MaxWorkers + 4
        /\ read' \in 0 .. MaxWorkers
    BY <1>0, <1>1 DEF TypeOK, CoordinatorStarts, CoordinatorPlaces
  <2>3. QED
    BY <2>1, <2>2, Zenon DEF TypeOK
<1>2. CASE PlanReply
  <2>1. UNCHANGED <<status, ends, pages, messages, batches, drafts, reviews,
                     requested, customer, answer, read, wpc, taken, crashes>>
    BY <1>2 DEF PlanReply, specialists
  <2>2. /\ replies' \in Seq(0 .. MaxWorkers) /\ Len(replies') <= 3
        /\ cpc' \in CoordinatorPlaces
        /\ idx' \in 1 .. MaxWorkers + 4
    <3>1. PICK reply \in 0 .. MaxWorkers :
               /\ replies' = IF idx <= Len(replies) THEN replies ELSE Append(replies, reply)
               /\ cpc' = CASE reply = 0 -> "plan" [] reply = 1 -> "answer" [] OTHER -> "spawn"
               /\ idx' = IF reply = 0 THEN idx + 1 ELSE 1
      <4>1. idx \in Nat /\ idx > 0 /\ replies \in Seq(0 .. MaxWorkers)
        BY DEF TypeOK
      <4>2. idx <= Len(replies) => replies[idx] \in 0 .. MaxWorkers
        BY <4>1, ElementOfSeq, LenProperties
      <4>3. QED
        BY <1>2, <4>2 DEF PlanReply
    <3>2. idx \in Nat /\ idx <= 3 /\ idx <= Len(replies) + 1 /\ idx > 0
      <4>1. idx \in 1 .. MaxWorkers + 4
        BY DEF TypeOK
      <4>2. cpc = "plan" /\ idx <= 3
        BY <1>2 DEF PlanReply, PlanCalls
      <4>3. idx <= Len(replies) + 1
        BY <4>2 DEF PlanKept
      <4>4. QED
        BY <4>1, <4>2, <4>3
    <3>3. replies \in Seq(0 .. MaxWorkers) /\ Len(replies) <= 3 /\ Len(replies) \in Nat
      BY LenProperties DEF TypeOK
    <3>4. /\ Append(replies, reply) \in Seq(0 .. MaxWorkers)
          /\ Len(Append(replies, reply)) = Len(replies) + 1
      BY <3>3, AppendProperties
    <3>5. replies' \in Seq(0 .. MaxWorkers) /\ Len(replies') <= 3
      <4>1. CASE idx <= Len(replies)
        BY <3>1, <3>3, <4>1
      <4>2. CASE idx > Len(replies)
        <5>1. replies' = Append(replies, reply)
          BY <3>1, <3>2, <3>3, <4>2
        <5>2. Len(replies) + 1 <= 3
          BY <3>2, <3>3, <4>2
        <5>3. QED
          BY <3>4, <5>1, <5>2
      <4>3. QED
        BY <3>2, <3>3, <4>1, <4>2
    <3>6. cpc' \in CoordinatorPlaces /\ idx' \in 1 .. MaxWorkers + 4
      BY <3>1, <3>2 DEF CoordinatorPlaces
    <3>7. QED
      BY <3>5, <3>6
  <2>3. QED
    BY <2>1, <2>2, Zenon DEF TypeOK
<1>3. CASE PlanFails
  <2>1. UNCHANGED <<replies, status, ends, pages, messages, batches, drafts,
                     reviews, requested, customer, answer, idx, read, wpc, taken,
                     crashes>>
    BY <1>3 DEF PlanFails, journal, specialists
  <2>2. cpc' \in CoordinatorPlaces
    BY <1>0, <1>3 DEF TypeOK, PlanFails, CoordinatorPlaces
  <2>3. QED
    BY <2>1, <2>2, Zenon DEF TypeOK
<1>4. CASE SpawnChild
  <2>1. UNCHANGED <<replies, ends, pages, messages, batches, drafts, reviews,
                     requested, customer, answer, read, wpc, taken, crashes>>
    BY <1>4 DEF SpawnChild, specialists
  <2>2. /\ status' \in [Workers -> {"none", "active"} \cup Closed]
        /\ cpc' \in CoordinatorPlaces
        /\ idx' \in 1 .. MaxWorkers + 4
    <3>1. status' \in [Workers -> {"none", "active"} \cup Closed]
      BY <1>4, <1>b DEF SpawnChild
    <3>2. cpc' \in CoordinatorPlaces /\ idx' \in 1 .. MaxWorkers + 4
      BY <1>0, <1>4, <1>a, <1>c DEF SpawnChild, Advance, CoordinatorPlaces
    <3>3. QED
      BY <3>1, <3>2
  <2>3. QED
    BY <2>1, <2>2, Zenon DEF TypeOK
<1>5. CASE SendAssignment
  <2>1. UNCHANGED <<replies, status, ends, pages, batches, drafts, reviews,
                     requested, customer, answer, read, wpc, taken, crashes>>
    BY <1>5 DEF SendAssignment, specialists
  <2>2. /\ messages' \subseteq (0 .. MaxWorkers) \X Workers
        /\ cpc' \in CoordinatorPlaces
        /\ idx' \in 1 .. MaxWorkers + 4
    <3>1. cpc' \in CoordinatorPlaces /\ idx' \in 1 .. MaxWorkers + 4
      BY <1>0, <1>5, <1>a, <1>c DEF SendAssignment, Advance, CoordinatorPlaces
    <3>2. idx \in Workers
      BY <1>5, <1>a, <1>c, <1>d DEF SendAssignment
    <3>3. messages' \subseteq (0 .. MaxWorkers) \X Workers
      BY <1>5, <1>e, <3>2 DEF SendAssignment, Coordinator
    <3>4. QED
      BY <3>1, <3>3
  <2>3. QED
    BY <2>1, <2>2, Zenon DEF TypeOK
<1>6. CASE CollectPage
  <2>1. UNCHANGED <<replies, status, ends, messages, batches, drafts, reviews,
                     requested, customer, answer, wpc, taken, crashes>>
    BY <1>6 DEF CollectPage, specialists
  <2>2. /\ pages' \in [0 .. MaxWorkers -> 0 .. MaxWorkers]
        /\ cpc' \in CoordinatorPlaces
        /\ idx' \in 1 .. MaxWorkers + 4
        /\ read' \in 0 .. MaxWorkers
    <3>1. cpc' \in CoordinatorPlaces /\ idx' \in 1 .. MaxWorkers + 4
      BY <1>6, <1>a DEF CollectPage, CoordinatorPlaces
    <3>2. \A n \in PagesAt(read) : n \in 0 .. MaxWorkers /\ read + n \in 0 .. MaxWorkers
      <4>1. pages[read] \in 0 .. MaxWorkers
        BY <1>a, <1>e
      <4>2. pages[read] > 0 => read + pages[read] <= Len(ends)
        BY <1>a DEF OutcomesRead
      <4>3. QED
        BY <1>0, <1>a, <1>c, <4>1, <4>2 DEF PagesAt
    <3>3. pages' \in [0 .. MaxWorkers -> 0 .. MaxWorkers] /\ read' \in 0 .. MaxWorkers
      BY <1>6, <1>a, <1>e, <3>2 DEF CollectPage
    <3>4. QED
      BY <3>1, <3>3
  <2>3. QED
    BY <2>1, <2>2, Zenon DEF TypeOK
<1>7. CASE CancelChild
  <2>1. UNCHANGED <<replies, status, ends, pages, messages, batches, drafts,
                     reviews, customer, answer, read, wpc, taken, crashes>>
    BY <1>7 DEF CancelChild, specialists
  <2>2. /\ requested' \subseteq Workers
        /\ cpc' \in CoordinatorPlaces
        /\ idx' \in 1 .. MaxWorkers + 4
    <3>1. cpc' \in CoordinatorPlaces /\ idx' \in 1 .. MaxWorkers + 4
      BY <1>0, <1>7, <1>a, <1>c DEF CancelChild, Advance, CoordinatorPlaces
    <3>2. requested' \subseteq Workers
      BY <1>7, <1>a, <1>b, <1>c, <1>d DEF CancelChild
    <3>3. QED
      BY <3>1, <3>2
  <2>3. QED
    BY <2>1, <2>2, Zenon DEF TypeOK
<1>8. CASE Answer
  <2>1. UNCHANGED <<replies, status, ends, pages, messages, batches, drafts,
                     reviews, requested, customer, idx, read, wpc, taken, crashes>>
    BY <1>8 DEF Answer, specialists
  <2>2. /\ answer' \subseteq Workers
        /\ cpc' \in CoordinatorPlaces
    BY <1>0, <1>8, <1>a, <1>b, <1>c DEF Answer, Contributions, CoordinatorPlaces
  <2>3. QED
    BY <2>1, <2>2, Zenon DEF TypeOK
<1>9. CASE CoordinatorCrashes
  <2>1. UNCHANGED <<replies, status, ends, pages, messages, batches, drafts,
                     reviews, requested, customer, answer, wpc, taken>>
    BY <1>9 DEF CoordinatorCrashes, journal, specialists
  <2>2. /\ cpc' \in CoordinatorPlaces
        /\ idx' \in 1 .. MaxWorkers + 4
        /\ read' \in 0 .. MaxWorkers
        /\ crashes' \in 0 .. MaxCrashes
    BY <1>0, <1>9 DEF TypeOK, CoordinatorCrashes, CoordinatorPlaces
  <2>3. QED
    BY <2>1, <2>2, Zenon DEF TypeOK
<1>10. ASSUME NEW i \in Workers, SpecialistStarts(i) PROVE TypeOK'
  <2>1. UNCHANGED <<replies, status, ends, pages, messages, batches, drafts,
                     reviews, requested, customer, answer, cpc, idx, read, crashes>>
    BY <1>10 DEF SpecialistStarts, journal, coordinator
  <2>2. /\ wpc' \in [Workers -> SpecialistPlaces]
        /\ taken' \in [Workers -> Nat]
    BY <1>0, <1>10 DEF TypeOK, SpecialistStarts, Go, SpecialistPlaces
  <2>3. QED
    BY <2>1, <2>2, Zenon DEF TypeOK
<1>11. ASSUME NEW i \in Workers, Receive(i) PROVE TypeOK'
  <2>1. UNCHANGED <<replies, status, ends, pages, messages, drafts, reviews,
                     requested, customer, answer, cpc, idx, read, crashes>>
    BY <1>11 DEF Receive, coordinator
  <2>2. /\ batches' \in [Workers -> Seq(SUBSET (0 .. MaxWorkers))]
        /\ wpc' \in [Workers -> SpecialistPlaces]
        /\ taken' \in [Workers -> Nat]
    <3>1. batches \in [Workers -> Seq(SUBSET (0 .. MaxWorkers))]
      BY DEF TypeOK
    <3>2. Undelivered(i) \subseteq 0 .. MaxWorkers
      BY DEF Undelivered
    <3>3. \A batch \in SUBSET Undelivered(i) :
             Append(batches[i], batch) \in Seq(SUBSET (0 .. MaxWorkers))
      BY <3>1, <3>2, AppendProperties
    <3>4. batches' \in [Workers -> Seq(SUBSET (0 .. MaxWorkers))]
      <4>1. CASE UNCHANGED batches
        BY <3>1, <4>1
      <4>2. CASE \E batch \in SUBSET Undelivered(i) :
                    batches' = [batches EXCEPT ![i] = Append(@, batch)]
        BY <3>1, <3>3, <4>2
      <4>3. QED
        BY <1>11, <4>1, <4>2, Zenon DEF Receive
    <3>5. taken' \in [Workers -> Nat] /\ wpc' \in [Workers -> SpecialistPlaces]
      <4>1. taken' = taken \/ taken' = [taken EXCEPT ![i] = @ + 1]
        BY <1>11, Zenon DEF Receive
      <4>2. \/ wpc' = wpc \/ wpc' = [wpc EXCEPT ![i] = "waiting"]
            \/ wpc' = [wpc EXCEPT ![i] = "failed"]
        BY <1>11, Zenon DEF Receive, Go
      <4>3. QED
        <5>1. taken' \in [Workers -> Nat]
          BY <1>t, <4>1
        <5>2. wpc' \in [Workers -> SpecialistPlaces]
          BY <1>t, <4>2 DEF SpecialistPlaces
        <5>3. QED
          BY <5>1, <5>2
    <3>6. QED
      BY <3>4, <3>5
  <2>3. QED
    BY <2>1, <2>2, Zenon DEF TypeOK
<1>12. ASSUME NEW i \in Workers, Draft(i) PROVE TypeOK'
  <2>1. UNCHANGED <<replies, status, ends, pages, messages, batches, reviews,
                     requested, customer, answer, cpc, idx, read, taken, crashes>>
    BY <1>12 DEF Draft, coordinator
  <2>2. /\ drafts' \subseteq Workers
        /\ wpc' \in [Workers -> SpecialistPlaces]
    BY <1>0, <1>12 DEF TypeOK, Draft, Go, SpecialistPlaces
  <2>3. QED
    BY <2>1, <2>2, Zenon DEF TypeOK
<1>13. ASSUME NEW i \in Workers, SendFindings(i) PROVE TypeOK'
  <2>1. UNCHANGED <<replies, status, ends, pages, batches, drafts, reviews,
                     requested, customer, answer, cpc, idx, read, taken, crashes>>
    BY <1>13 DEF SendFindings, coordinator
  <2>2. /\ messages' \subseteq (0 .. MaxWorkers) \X Workers
        /\ wpc' \in [Workers -> SpecialistPlaces]
    <3>1. Following(i) \in Workers
      BY <1>13, Ring DEF SendFindings, Specialists, Specialist
    <3>2. QED
      <4>1. <<i, Following(i)>> \in (0 .. MaxWorkers) \X Workers
        BY <3>1 DEF Workers
      <4>2. QED
        BY <1>13, <1>b, <1>e, <4>1 DEF SendFindings, Go, SpecialistPlaces
  <2>3. QED
    BY <2>1, <2>2, Zenon DEF TypeOK
<1>14. ASSUME NEW i \in Workers, Review(i) PROVE TypeOK'
  <2>1. UNCHANGED <<replies, status, ends, pages, messages, batches, drafts,
                     requested, customer, answer, cpc, idx, read, taken, crashes>>
    BY <1>14 DEF Review, coordinator
  <2>2. /\ reviews' \in [Workers -> 0 .. MaxWorkers]
        /\ wpc' \in [Workers -> SpecialistPlaces]
    <3>1. Previous(i) \in 0 .. MaxWorkers
      <4>1. status[i] # "none"
        BY <1>14 DEF Review, Specialists, Specialist
      <4>2. i \in 1 .. Team
        BY <4>1 DEF Specialists, Specialist
      <4>3. QED
        <5>1. Previous(i) \in 1 .. Team
          BY <4>2, Ring
        <5>2. QED
          BY <1>0, <5>1
    <3>2. QED
      BY <1>14, <1>b, <3>1 DEF Review, Go, SpecialistPlaces
  <2>3. QED
    BY <2>1, <2>2, Zenon DEF TypeOK
<1>15. ASSUME NEW i \in Workers, Complete(i) PROVE TypeOK'
  <2>1. UNCHANGED <<replies, pages, messages, batches, drafts, reviews, requested,
                     customer, answer, cpc, idx, read, taken, crashes>>
    BY <1>15 DEF Complete, coordinator
  <2>2. /\ status' \in [Workers -> {"none", "active"} \cup Closed]
        /\ ends' \in Seq(Workers)
        /\ wpc' \in [Workers -> SpecialistPlaces]
    BY <1>15, AppendProperties DEF TypeOK, Complete, End, Go, Closed, SpecialistPlaces
  <2>3. QED
    BY <2>1, <2>2, Zenon DEF TypeOK
<1>16. ASSUME NEW i \in Workers, SpecialistCrashes(i) PROVE TypeOK'
  <2>1. UNCHANGED <<replies, status, ends, pages, messages, batches, drafts,
                     reviews, requested, customer, answer, cpc, idx, read>>
    BY <1>16 DEF SpecialistCrashes, journal, coordinator
  <2>2. /\ wpc' \in [Workers -> SpecialistPlaces]
        /\ taken' \in [Workers -> Nat]
        /\ crashes' \in 0 .. MaxCrashes
    BY <1>b, <1>16 DEF SpecialistCrashes, Go, SpecialistPlaces
  <2>3. QED
    BY <2>1, <2>2, Zenon DEF TypeOK
<1>17. ASSUME NEW i \in Workers, CustomerCancels(i) PROVE TypeOK'
  <2>1. UNCHANGED <<replies, status, ends, pages, messages, batches, drafts,
                     reviews, requested, answer, cpc, idx, read, wpc, taken, crashes>>
    BY <1>17 DEF CustomerCancels, coordinator, specialists
  <2>2. customer' \subseteq Workers
    BY <1>0, <1>17 DEF TypeOK, CustomerCancels
  <2>3. QED
    BY <2>1, <2>2, Zenon DEF TypeOK
<1>18. ASSUME NEW i \in Workers, CancelTakesEffect(i) PROVE TypeOK'
  <2>1. UNCHANGED <<replies, pages, messages, batches, drafts, reviews, requested,
                     customer, answer, cpc, idx, read, taken, crashes>>
    BY <1>18 DEF CancelTakesEffect, coordinator
  <2>2. /\ status' \in [Workers -> {"none", "active"} \cup Closed]
        /\ ends' \in Seq(Workers)
        /\ wpc' \in [Workers -> SpecialistPlaces]
    BY <1>18, AppendProperties
       DEF TypeOK, CancelTakesEffect, End, Go, Closed, SpecialistPlaces
  <2>3. QED
    BY <2>1, <2>2, Zenon DEF TypeOK
<1>19. CASE UNCHANGED vars
  BY <1>19, Zenon DEF vars, journal, coordinator, specialists, TypeOK
<1>20. QED
  BY <1>1, <1>2, <1>3, <1>4, <1>5, <1>6, <1>7, <1>8, <1>9, <1>10, <1>11, <1>12, <1>13,
     <1>14, <1>15, <1>16, <1>17, <1>18, <1>19
     DEF Next, CoordinatorStep, SpecialistStep

-----------------------------------------------------------------------------
(* The steps of the specialists as the coordinator sees them.              *)

Working(i) ==
    \/ SpecialistStarts(i) \/ Receive(i) \/ Draft(i) \/ SendFindings(i)
    \/ Review(i) \/ SpecialistCrashes(i) \/ CustomerCancels(i)

Ending(i) == Complete(i) \/ CancelTakesEffect(i)

\* A specialist at work leaves all the coordinator reads as it was.
LEMMA WorkingFrame ==
    ASSUME NEW i \in Workers, Working(i)
    PROVE  /\ UNCHANGED <<replies, status, ends, pages, requested, answer>>
           /\ UNCHANGED <<cpc, idx, read>>
BY DEF Working, SpecialistStarts, Receive, Draft, SendFindings, Review, SpecialistCrashes,
       CustomerCancels, journal, coordinator

\* A specialist that ends was active, and is one more outcome.
LEMMA EndingFrame ==
    ASSUME TypeOK, Specialists, NEW i \in Workers, Ending(i)
    PROVE  /\ status[i] = "active" /\ status' = [status EXCEPT ![i] = status'[i]]
           /\ status'[i] = IF Complete(i) THEN "completed" ELSE "cancelled"
           /\ ends' = Append(ends, i) /\ wpc' = [wpc EXCEPT ![i] = "done"]
           /\ UNCHANGED <<replies, pages, messages, batches, drafts, reviews, requested,
                          customer, answer, taken>>
           /\ UNCHANGED <<cpc, idx, read>>
<1>1. status \in [Workers -> {"none", "active"} \cup Closed]
  BY DEF TypeOK
<1>2. CASE Complete(i)
  <2>1. status[i] = "active"
    BY <1>1, <1>2 DEF Complete, Specialists, Specialist, Closed
  <2>2. QED
    BY <1>1, <1>2, <2>1 DEF Complete, End, Go, coordinator
<1>3. CASE CancelTakesEffect(i) /\ ~Complete(i)
  BY <1>1, <1>3 DEF CancelTakesEffect, End, Go, coordinator
<1>4. QED
  BY <1>2, <1>3 DEF Ending

\* Every step is one of the coordinator, of a specialist at work or that
\* ends, or changes nothing.
LEMMA StepsOfNext ==
    ASSUME [Next]_vars
    PROVE  \/ CoordinatorStarts \/ PlanReply \/ PlanFails \/ SpawnChild \/ SendAssignment
           \/ CollectPage \/ CancelChild \/ Answer \/ CoordinatorCrashes
           \/ \E i \in Workers : Working(i) \/ Ending(i)
           \/ UNCHANGED vars
BY DEF Next, CoordinatorStep, SpecialistStep, Working, Ending

-----------------------------------------------------------------------------
(* The plan.                                                               *)

\* The reply of a model call: a team is only ever planned when there is none.
LEMMA PlanReplyStep ==
    ASSUME TypeOK, PlanKept, PlanReply
    PROVE  /\ cpc = "plan" /\ read' = read
           /\ \/ replies' = replies /\ Team' = Team
              \/ Team = 0
           /\ \A k \in 1 .. Len(replies') - 1 : replies'[k] = 0
           /\ \/ /\ cpc' = "plan" /\ idx' <= Len(replies') + 1
                 /\ \A k \in 1 .. idx' - 1 : replies'[k] = 0
              \/ cpc' = "answer" /\ Team' = 0
              \/ cpc' = "spawn" /\ Team' >= 2 /\ idx' = 1 /\ idx' <= Team'
<1> DEFINE n == Len(replies)
<1>1. replies \in Seq(0 .. MaxWorkers) /\ idx \in Nat /\ idx >= 1
  BY DEF TypeOK
<1>2. n \in Nat /\ \A k \in 1 .. n : replies[k] \in 0 .. MaxWorkers
  BY <1>1, ElementOfSeq, LenProperties
<1>3. /\ \A k \in 1 .. n - 1 : replies[k] = 0
      /\ cpc = "plan" => idx <= n + 1 /\ \A k \in 1 .. idx - 1 : replies[k] = 0
  BY DEF PlanKept
<1>4. cpc = "plan" /\ read' = read
  BY DEF PlanReply
<1>5. PICK reply \in IF idx <= n THEN {replies[idx]} ELSE 0 .. MaxWorkers :
         /\ replies' = IF idx <= n THEN replies ELSE Append(replies, reply)
         /\ cpc' = CASE reply = 0 -> "plan" [] reply = 1 -> "answer" [] OTHER -> "spawn"
         /\ idx' = IF reply = 0 THEN idx + 1 ELSE 1
  BY DEF PlanReply
<1>6. reply \in Nat
  BY <1>1, <1>2, <1>5, TeamAssumption
<1>7. /\ Len(replies') \in Nat /\ idx <= Len(replies') /\ replies'[idx] = reply
      /\ \A k \in 1 .. Len(replies') - 1 : replies'[k] = 0
      /\ \A k \in 1 .. idx - 1 : replies'[k] = 0
      /\ replies' # <<>> /\ (replies' = replies \/ Team = 0)
  <2>1. CASE idx <= n
    <3>1. replies' = replies /\ reply = replies[idx]
      BY <1>5, <2>1
    <3>2. replies # <<>>
      BY <1>1, <2>1, EmptySeq
    <3>3. QED
      BY <1>1, <1>2, <1>3, <1>4, <2>1, <3>1, <3>2
  <2>2. CASE idx > n
    <3>1. replies' = Append(replies, reply) /\ idx = n + 1
      BY <1>1, <1>2, <1>3, <1>4, <1>5, <2>2
    <3>2. reply \in 0 .. MaxWorkers
      BY <1>1, <1>2, <1>5, <2>2
    <3>3. /\ Append(replies, reply) \in Seq(0 .. MaxWorkers)
          /\ Len(Append(replies, reply)) = n + 1
          /\ \A k \in 1 .. n : Append(replies, reply)[k] = replies[k]
          /\ Append(replies, reply)[n + 1] = reply
      BY <1>1, <3>2, AppendProperties
    <3>4. Append(replies, reply) # <<>>
      <4>1. Len(<<>>) = 0
        BY EmptySeq
      <4>2. n + 1 # 0
        BY <1>2
      <4>3. QED
        BY <3>3, <4>1, <4>2, Zenon
    <3>5. \A k \in 1 .. n : replies[k] = 0
      BY <1>2, <1>3, <1>4, <3>1
    <3>6. Team = 0
      BY <1>2, <3>5 DEF Team
    <3>7. QED
      BY <1>2, <3>1, <3>3, <3>4, <3>5, <3>6
  <2>3. QED
    BY <1>1, <1>2, <2>1, <2>2
<1>8. reply # 0 => idx = Len(replies')
  BY <1>1, <1>7
<1>9. Team' = IF replies'[Len(replies')] >= 2 THEN replies'[Len(replies')] ELSE 0
  BY <1>7 DEF Team
<1>10. replies' = replies => Team' = Team
  BY DEF Team
<1>11. CASE reply = 0
  BY <1>1, <1>4, <1>5, <1>7, <1>10, <1>11
<1>12. CASE reply = 1
  BY <1>4, <1>5, <1>7, <1>8, <1>9, <1>10, <1>12
<1>13. CASE reply >= 2
  BY <1>4, <1>5, <1>6, <1>7, <1>8, <1>9, <1>10, <1>13
<1>14. QED
  BY <1>6, <1>11, <1>12, <1>13

\* The team stays the same in every other step, and once there is one.
LEMMA TeamSame == replies' = replies => Team' = Team
BY DEF Team

\* The facts about the plan are kept.
LEMMA PlanStep ==
    ASSUME TypeOK, PlanKept, Specialists, [Next]_vars
    PROVE  PlanKept'
<1>1. idx \in Nat /\ idx >= 1 /\ read \in Nat /\ cpc \in CoordinatorPlaces
  BY DEF TypeOK
<1>2. Team \in Nat
  BY TeamSize
<1>3. Len(replies) \in Nat
  BY LenProperties DEF TypeOK
<1>4. CASE PlanReply
  <2>1. read' = 0
    BY <1>4, PlanReplyStep DEF PlanKept
  <2>2. QED
    BY <1>4, <2>1, PlanReplyStep DEF PlanKept
<1>5. CASE replies' = replies /\ ~PlanReply
  <2>1. Team' = Team
    BY <1>5, TeamSame
  <2>2. /\ \A k \in 1 .. Len(replies) - 1 : replies[k] = 0
        /\ cpc = "plan" => idx <= Len(replies) + 1 /\ read = 0
        /\ cpc = "plan" => \A k \in 1 .. idx - 1 : replies[k] = 0
        /\ cpc \in {"spawn", "assign", "collect", "waiting", "cancel"} => Team >= 2
        /\ cpc \in {"spawn", "assign", "cancel"} => idx <= Team
        /\ cpc \in {"spawn", "assign"} => read = 0
    BY DEF PlanKept
  <2>3. SUFFICES
          /\ cpc' = "plan" => \/ cpc = "plan" /\ idx' = idx /\ read' = read
                              \/ idx' = 1 /\ read' = 0
          /\ cpc' \in {"spawn", "assign", "collect", "waiting", "cancel"} => Team >= 2
          /\ cpc' \in {"spawn", "assign", "cancel"} => idx' <= Team
          /\ cpc' \in {"spawn", "assign"} => read' = 0
    BY <1>3, <1>5, <2>1, <2>2 DEF PlanKept
  <2>4. CASE CoordinatorStarts
    BY <2>4 DEF CoordinatorStarts
  <2>5. CASE PlanFails
    BY <2>5 DEF PlanFails
  <2>6. CASE SpawnChild
    BY <1>1, <1>2, <2>2, <2>6 DEF SpawnChild, Advance
  <2>7. CASE SendAssignment
    BY <1>1, <1>2, <2>2, <2>7 DEF SendAssignment, Advance
  <2>8. CASE CollectPage
    BY <1>1, <1>2, <2>2, <2>8 DEF CollectPage
  <2>9. CASE CancelChild
    BY <1>1, <1>2, <2>2, <2>9 DEF CancelChild, Advance
  <2>10. CASE Answer
    BY <2>10 DEF Answer
  <2>11. CASE CoordinatorCrashes
    BY <2>11 DEF CoordinatorCrashes
  <2>12. CASE UNCHANGED <<cpc, idx, read>>
    BY <2>2, <2>12
  <2>13. (\E i \in Workers : Working(i) \/ Ending(i)) \/ UNCHANGED vars
            => UNCHANGED <<cpc, idx, read>>
    BY WorkingFrame, EndingFrame DEF vars, coordinator
  <2>14. QED
    BY <1>5, <2>4, <2>5, <2>6, <2>7, <2>8, <2>9, <2>10, <2>11, <2>12, <2>13, StepsOfNext
<1>6. replies' = replies \/ PlanReply
  <2>1. (\E i \in Workers : Working(i) \/ Ending(i)) => replies' = replies
    BY WorkingFrame, EndingFrame
  <2>2. QED
    BY <2>1, StepsOfNext DEF CoordinatorStarts, PlanFails, SpawnChild, SendAssignment,
       CollectPage, CancelChild, Answer, CoordinatorCrashes, journal, vars
<1>7. QED
  BY <1>4, <1>5, <1>6

\* The team never changes once there is one.
LEMMA TeamKept ==
    ASSUME TypeOK, PlanKept, Specialists, [Next]_vars
    PROVE  Team' = Team \/ Team = 0
<1>1. replies' = replies \/ PlanReply
  BY StepsOfNext, WorkingFrame, EndingFrame
     DEF CoordinatorStarts, PlanFails, SpawnChild, SendAssignment, CollectPage, CancelChild,
         Answer, CoordinatorCrashes, journal, vars
<1>2. QED
  BY <1>1, TeamSame, PlanReplyStep

-----------------------------------------------------------------------------
(* The outcomes.                                                           *)

\* What each step does to the outcomes and to the states of specialists.
LEMMA OutcomeSteps ==
    ASSUME [Next]_vars
    PROVE  \/ UNCHANGED <<ends, status>>
           \/ SpawnChild /\ ends' = ends
           \/ \E i \in Workers : Ending(i)
<1>1. (\E i \in Workers : Working(i)) => UNCHANGED <<ends, status>>
  BY WorkingFrame
<1>2. QED
  BY <1>1, StepsOfNext
     DEF CoordinatorStarts, PlanReply, PlanFails, SpawnChild, SendAssignment, CollectPage,
         CancelChild, Answer, CoordinatorCrashes, journal, vars

\* An outcome stays where it is in their order, and what it is.
LEMMA OutcomesKept ==
    ASSUME TypeOK, EndedOnce, Specialists, [Next]_vars
    PROVE  /\ Len(ends) \in Nat /\ Len(ends') \in Nat /\ Len(ends) <= Len(ends')
           /\ \A k \in 1 .. Len(ends) :
                 ends'[k] = ends[k] /\ status'[ends[k]] = status[ends[k]]
<1>1. Len(ends) \in Nat /\ \A k \in 1 .. Len(ends) : ends[k] \in Workers
  BY ElementOfSeq, LenProperties DEF TypeOK
<1>2. status \in [Workers -> {"none", "active"} \cup Closed]
  BY DEF TypeOK
<1>3. \A k \in 1 .. Len(ends) : status[ends[k]] \in Closed
  BY DEF EndedOnce
<1>4. CASE UNCHANGED <<ends, status>>
  BY <1>1, <1>4
<1>5. CASE SpawnChild /\ ends' = ends
  <2>1. status' = [status EXCEPT ![idx] = IF @ = "none" THEN "active" ELSE @]
    BY <1>5 DEF SpawnChild
  <2>2. \A k \in 1 .. Len(ends) : status'[ends[k]] = status[ends[k]]
    BY <1>1, <1>2, <1>3, <2>1 DEF Closed
  <2>3. QED
    BY <1>1, <1>5, <2>2
<1>6. ASSUME NEW i \in Workers, Ending(i)
      PROVE  /\ Len(ends') = Len(ends) + 1
             /\ \A k \in 1 .. Len(ends) :
                   ends'[k] = ends[k] /\ status'[ends[k]] = status[ends[k]]
  <2>1. /\ status[i] = "active" /\ status' = [status EXCEPT ![i] = status'[i]]
        /\ ends' = Append(ends, i)
    BY <1>6, EndingFrame
  <2>2. /\ Len(ends') = Len(ends) + 1
        /\ \A k \in 1 .. Len(ends) : ends'[k] = ends[k]
    BY <2>1, OneMoreOutcome DEF Closed
  <2>3. \A k \in 1 .. Len(ends) : ends[k] # i
    BY <1>3, <2>1 DEF Closed
  <2>4. QED
    BY <1>1, <1>2, <2>1, <2>2, <2>3
<1>7. QED
  BY <1>1, <1>4, <1>5, <1>6, OutcomeSteps

\* No specialist ends twice.
LEMMA EndedStep ==
    ASSUME TypeOK, PlanKept, EndedOnce, Specialists, [Next]_vars
    PROVE  EndedOnce'
<1>1. Team \in Nat /\ Len(ends) \in Nat /\ Len(ends) <= Team
  BY TeamSize, EndsBound
<1>2. Team' = Team \/ Team = 0
  BY TeamKept
<1>3. \A k \in 1 .. Len(ends) :
         ends'[k] \in 1 .. Team' /\ status'[ends'[k]] \in Closed /\ ends'[k] = ends[k]
  BY <1>1, <1>2, OutcomesKept DEF EndedOnce
<1>4. CASE ends' = ends
  BY <1>3, <1>4 DEF EndedOnce, Outcomes
<1>5. ASSUME NEW i \in Workers, Ending(i)
      PROVE  EndedOnce'
  <2>1. /\ status[i] = "active" /\ status' = [status EXCEPT ![i] = status'[i]]
        /\ status'[i] \in Closed /\ ends' = Append(ends, i) /\ replies' = replies
    BY <1>5, EndingFrame DEF Closed
  <2>2. /\ Len(ends') = Len(ends) + 1 /\ ends'[Len(ends) + 1] = i
        /\ IsFiniteSet(Outcomes(Len(ends))')
        /\ Cardinality(Outcomes(Len(ends))') = Len(ends) + 1
    BY <2>1, OneMoreOutcome DEF Closed
  <2>3. i \in 1 .. Team'
    BY <2>1, TeamSame DEF Specialists, Specialist
  <2>4. \A k \in 1 .. Len(ends') : ends'[k] \in 1 .. Team' /\ status'[ends'[k]] \in Closed
    BY <1>1, <1>3, <2>1, <2>2, <2>3
  <2>5. QED
    BY <2>2, <2>4 DEF EndedOnce
<1>6. QED
  BY <1>4, <1>5, OutcomeSteps

\* Reading goes on with completions only, and ends with all of them.
LEMMA OutcomesStep ==
    ASSUME TypeOK, PlanKept, EndedOnce, OutcomesRead, Specialists, [Next]_vars
    PROVE  OutcomesRead'
<1> DEFINE broken(n) == \E k \in 1 .. n : status'[ends'[k]] # "completed"
<1>1. /\ Team \in Nat /\ Len(ends) \in Nat /\ Len(ends) <= Team /\ Len(ends') \in Nat
      /\ Len(ends) <= Len(ends')
  BY TeamSize, EndsBound, OutcomesKept
<1>2. /\ \A a \in 0 .. MaxWorkers : pages[a] \in Nat /\ (pages[a] > 0 => a + pages[a] <= Len(ends))
      /\ read \in 0 .. MaxWorkers /\ read <= Len(ends)
  <2>1. pages \in [0 .. MaxWorkers -> 0 .. MaxWorkers] /\ read \in 0 .. MaxWorkers
    BY DEF TypeOK
  <2>2. QED
    BY <2>1, TeamAssumption DEF OutcomesRead
<1>3. \A n \in 0 .. Len(ends) : broken(n) <=> Broken(n)
  BY <1>1, OutcomesKept DEF Broken
<1> DEFINE Goal ==
             /\ \A a \in 0 .. MaxWorkers : pages'[a] > 0 => a + pages'[a] <= Len(ends')
             /\ read' <= Len(ends')
             /\ cpc' \in {"collect", "waiting"} => ~broken(read')
             /\ cpc' \in {"answer", "done"} /\ Team' > 0 => read' = Team' /\ ~broken(read')
             /\ cpc' = "done" => answer' = Contributions'
<1>4. SUFFICES Goal
  BY DEF OutcomesRead, Broken
<1> HIDE DEF broken
<1>5. CASE CollectPage
  <2>1. Team' = Team /\ ends' = ends /\ Team >= 2
    BY <1>5, TeamSame DEF CollectPage, PlanKept
  <2>2. CASE pages' = pages /\ read' = read /\ cpc' = "waiting"
    BY <1>1, <1>2, <1>3, <1>5, <2>1, <2>2 DEF CollectPage, OutcomesRead
  <2>3. ASSUME NEW n \in PagesAt(read), pages' = [pages EXCEPT ![read] = n],
               read' = read + n,
               cpc' = IF Broken(read + n) THEN "cancel"
                      ELSE IF read + n < Team THEN "collect" ELSE "answer"
        PROVE  Goal
    <3>1. n \in Nat /\ read + n <= Len(ends)
      BY <1>1, <1>2 DEF PagesAt
    <3>2. \A a \in 0 .. MaxWorkers : pages'[a] > 0 => a + pages'[a] <= Len(ends')
      BY <1>1, <1>2, <2>1, <2>3, <3>1 DEF TypeOK
    <3>3. read + n \in 0 .. Len(ends)
      BY <1>2, <3>1
    <3>4. broken(read') <=> Broken(read + n)
      BY <1>3, <2>3, <3>3
    <3>5. cpc' = "answer" => read' = Team
      BY <1>1, <1>2, <2>3, <3>1
    <3>6. QED
      BY <2>1, <2>3, <3>1, <3>2, <3>4, <3>5
  <2>4. QED
    BY <1>5, <2>2, <2>3 DEF CollectPage
<1>6. CASE /\ UNCHANGED <<pages, answer>>
           /\ \/ read' = 0 /\ cpc' \notin {"answer", "done"}
              \/ read' = read /\ UNCHANGED <<cpc, replies>>
              \/ read' = read /\ cpc' \in {"plan", "failed", "spawn", "assign", "cancel"}
              \/ read' = read /\ read = 0 /\ cpc' = "collect"
              \/ read' = read /\ cpc' = "answer" /\ Team' = 0
  <2>1. broken(0) <=> FALSE
    BY DEF broken
  <2>2. /\ \A a \in 0 .. MaxWorkers : pages'[a] > 0 => a + pages'[a] <= Len(ends')
        /\ read' <= Len(ends')
    BY <1>1, <1>2, <1>6
  <2>3. CASE read' = read /\ UNCHANGED <<cpc, replies>>
    <3>1. Team' = Team /\ (broken(read') <=> Broken(read))
      BY <1>1, <1>2, <1>3, <2>3, TeamSame
    <3>2. cpc' = "done" => answer' = Contributions'
      BY <1>1, <1>2, <1>6, <2>3, OutcomesKept DEF OutcomesRead, Contributions
    <3>3. QED
      BY <2>2, <2>3, <3>1, <3>2 DEF OutcomesRead
  <2>4. QED
    BY <1>6, <2>1, <2>2, <2>3
<1>7. CASE Answer
  <2>1. /\ UNCHANGED <<pages, read, ends, replies>> /\ cpc = "answer" /\ cpc' = "done"
        /\ answer' = Contributions
    BY <1>7 DEF Answer
  <2>2. Contributions' = Contributions
    BY <2>1 DEF Contributions
  <2>3. broken(read') <=> Broken(read)
    BY <1>1, <1>2, <1>3, <2>1
  <2>4. Team' = Team
    BY <2>1, TeamSame
  <2>5. QED
    BY <1>2, <2>1, <2>2, <2>3, <2>4 DEF OutcomesRead
<1>8. QED
  <2>1. /\ CoordinatorStarts \/ PlanFails \/ CancelChild \/ CoordinatorCrashes => <1>6!1
        /\ SpawnChild => <1>6!1
        /\ SendAssignment => <1>6!1
    BY DEF CoordinatorStarts, PlanFails, CancelChild, CoordinatorCrashes, SpawnChild,
           SendAssignment, Advance, PlanKept, journal
  <2>2. PlanReply => <1>6!1
    BY PlanReplyStep DEF PlanReply
  <2>3. (\E i \in Workers : Working(i) \/ Ending(i)) \/ UNCHANGED vars => <1>6!1
    BY WorkingFrame, EndingFrame DEF vars, journal, coordinator
  <2>4. QED
    BY <1>5, <1>6, <1>7, <2>1, <2>2, <2>3, StepsOfNext

-----------------------------------------------------------------------------
(* Messages.                                                               *)

\* Messages and drafts stay recorded.
LEMMA RecordsKept ==
    ASSUME [Next]_vars
    PROVE  /\ messages \subseteq messages' /\ drafts \subseteq drafts'
           /\ \/ messages' = messages \/ SendAssignment
              \/ \E i \in Workers : SendFindings(i)
<1>1. CASE \E i \in Workers : Draft(i)
  BY <1>1 DEF Draft
<1>2. CASE \E i \in Workers : SendFindings(i)
  BY <1>2 DEF SendFindings
<1>3. CASE SendAssignment
  BY <1>3 DEF SendAssignment
<1>4. CASE /\ ~SendAssignment
           /\ \A i \in Workers : ~Draft(i) /\ ~SendFindings(i)
  <2>1. messages' = messages /\ drafts' = drafts
    BY <1>4 DEF Next, CoordinatorStep, SpecialistStep, CoordinatorStarts, PlanReply, PlanFails,
       SpawnChild, CollectPage, CancelChild, Answer, CoordinatorCrashes, SpecialistStarts,
       Receive, Review, Complete, SpecialistCrashes, CustomerCancels, CancelTakesEffect,
       journal, vars
  <2>2. QED
    BY <2>1
<1>5. QED
  BY <1>1, <1>2, <1>3, <1>4

\* Messages go round the ring only.
LEMMA RingStepKept ==
    ASSUME TypeOK, PlanKept, RingMessages, Specialists, [Next]_vars
    PROVE  RingMessages'
<1> SUFFICES ASSUME NEW from \in 0 .. MaxWorkers, NEW to \in Workers, <<from, to>> \in messages'
             PROVE  /\ to \in 1 .. Team'
                    /\ from # Coordinator => from = Previous(to)' /\ from \in drafts'
  BY DEF RingMessages
<1>1. CASE <<from, to>> \in messages
  <2>1. to \in 1 .. Team /\ (from # Coordinator => from = Previous(to) /\ from \in drafts)
    BY <1>1 DEF RingMessages
  <2>2. Team' = Team
    BY <2>1, TeamKept
  <2>3. Previous(to)' = Previous(to)
    BY <2>2 DEF Previous
  <2>4. QED
    BY <2>1, <2>2, <2>3, RecordsKept
<1>2. CASE <<from, to>> \notin messages /\ SendAssignment
  <2>1. from = Coordinator /\ to = idx
    BY <1>2 DEF SendAssignment
  <2>2. idx \in 1 .. Team /\ Team' = Team
    <3>1. idx \in Nat /\ idx >= 1
      BY DEF TypeOK
    <3>2. cpc = "assign" /\ replies' = replies
      BY <1>2 DEF SendAssignment
    <3>3. idx <= Team /\ Team \in Nat
      BY <3>2, TeamSize DEF PlanKept
    <3>4. QED
      BY <3>1, <3>2, <3>3, TeamSame
  <2>3. QED
    BY <2>1, <2>2
<1>3. CASE <<from, to>> \notin messages /\ \E i \in Workers : SendFindings(i)
  <2>1. PICK i \in Workers : SendFindings(i)
    BY <1>3
  <2>2. /\ from = i /\ to = Following(i) /\ wpc[i] = "send"
        /\ replies' = replies /\ drafts' = drafts
    BY <1>3, <2>1 DEF SendFindings
  <2>3. i \in 1 .. Team /\ i \in drafts
    BY <2>2 DEF Specialists, Specialist
  <2>4. /\ Following(i) \in 1 .. Team /\ Previous(Following(i)) = i
    BY <2>3, Ring
  <2>5. Team' = Team /\ Previous(to)' = Previous(to)
    BY <2>2, TeamSame DEF Previous
  <2>6. QED
    BY <2>2, <2>3, <2>4, <2>5
<1>4. QED
  BY <1>1, <1>2, <1>3, RecordsKept

-----------------------------------------------------------------------------
(* What a specialist may find in its inbox.                                *)

\* A set of at most two values has at most two elements.
LEMMA PairSize ==
    ASSUME NEW a, NEW b, NEW S \in SUBSET {a, b}
    PROVE  Cardinality(S) <= 2
<1>1. IsFiniteSet({a}) /\ Cardinality({a}) = 1
  BY FS_Singleton
<1>2. /\ IsFiniteSet({a} \cup {b})
      /\ Cardinality({a} \cup {b}) = IF b \in {a} THEN Cardinality({a}) ELSE Cardinality({a}) + 1
  BY <1>1, FS_AddElement
<1>3. {a} \cup {b} = {a, b}
  OBVIOUS
<1>4. IsFiniteSet({a, b}) /\ Cardinality({a, b}) <= 2
  BY <1>1, <1>2, <1>3
<1>5. Cardinality(S) <= Cardinality({a, b}) /\ IsFiniteSet(S)
  BY <1>4, FS_Subset
<1>6. Cardinality(S) \in Nat /\ Cardinality({a, b}) \in Nat
  BY <1>4, <1>5, FS_CardinalityType
<1>7. QED
  BY <1>4, <1>5, <1>6

\* Whatever it has received was sent to it.
LEMMA InboxSent ==
    ASSUME TypeOK, NEW i \in Workers, Specialist(i)
    PROVE  \A from \in Inbox(i) : <<from, i>> \in messages
<1>1. taken[i] \in Nat /\ taken[i] <= Len(batches[i]) /\ Len(batches[i]) \in Nat
  <2>1. batches[i] \in Seq(SUBSET (0 .. MaxWorkers))
    BY DEF TypeOK
  <2>2. taken[i] \in Nat
    BY DEF TypeOK
  <2>3. QED
    BY <2>1, <2>2, LenProperties DEF Specialist
<1>2. \A k \in 1 .. Len(batches[i]) : \A from \in batches[i][k] : <<from, i>> \in messages
  BY DEF Specialist
<1>3. QED
  BY <1>1, <1>2 DEF Inbox, Received

\* A surplus message is out of the question: only the coordinator and the
\* previous specialist ever write to it.
LEMMA NoSurplus ==
    ASSUME TypeOK, RingMessages, NEW i \in Workers, NEW S \in SUBSET (0 .. MaxWorkers),
           \A from \in S : <<from, i>> \in messages
    PROVE  Cardinality(S) <= InboxLimit
<1>1. S \in SUBSET {Coordinator, Previous(i)}
  BY DEF RingMessages
<1>2. Cardinality(S) <= 2
  BY <1>1, PairSize
<1>3. QED
  BY <1>2 DEF InboxLimit

-----------------------------------------------------------------------------
(* The specialists.                                                        *)

\* Who has ended stays as it is.
LEMMA ClosedKept ==
    ASSUME TypeOK, Specialists, [Next]_vars, NEW i \in Workers, status[i] \in Closed
    PROVE  status'[i] = status[i]
<1>1. status \in [Workers -> {"none", "active"} \cup Closed]
  BY DEF TypeOK
<1>2. CASE SpawnChild
  <2>1. status' = [status EXCEPT ![idx] = IF @ = "none" THEN "active" ELSE @]
    BY <1>2 DEF SpawnChild
  <2>2. QED
    BY <1>1, <2>1 DEF Closed
<1>3. ASSUME NEW j \in Workers, Ending(j)
      PROVE  status'[i] = status[i]
  <2>1. status[j] = "active" /\ status' = [status EXCEPT ![j] = status'[j]]
    BY <1>3, EndingFrame
  <2>2. QED
    BY <1>1, <2>1 DEF Closed
<1>4. QED
  BY <1>2, <1>3, OutcomeSteps

\* A specialist that a step does not touch.
LEMMA SpecialistSame ==
    ASSUME TypeOK, PlanKept, Specialists, [Next]_vars, NEW i \in Workers,
           status'[i] = status[i], wpc'[i] = wpc[i], taken'[i] = taken[i],
           batches'[i] = batches[i], reviews'[i] = reviews[i]
    PROVE  Specialist(i)'
<1>1. Specialist(i) /\ messages \subseteq messages' /\ drafts \subseteq drafts'
  BY RecordsKept DEF Specialists
<1>2. CASE Team' = Team
  <2>1. Previous(i)' = Previous(i) /\ Following(i)' = Following(i)
    BY <1>2 DEF Previous, Following
  <2>2. wpc[i] = "failed" => status'[Following(i)] = "cancelled"
    <3>1. SUFFICES ASSUME wpc[i] = "failed" PROVE status'[Following(i)] = "cancelled"
      OBVIOUS
    <3>2. status[Following(i)] = "cancelled" /\ i \in 1 .. Team
      BY <1>1, <3>1 DEF Specialist
    <3>3. Following(i) \in Workers
      BY <3>2, Ring
    <3>4. QED
      BY <3>2, <3>3, ClosedKept DEF Closed
  <2>3. QED
    BY <1>1, <1>2, <2>1, <2>2 DEF Specialist
<1>3. CASE Team = 0
  <2>1. i \notin 1 .. Team
    BY <1>3
  <2>2. status[i] = "none" /\ wpc[i] = "off" /\ reviews[i] = 0
    BY <1>1, <2>1 DEF Specialist
  <2>3. QED
    BY <1>1, <2>2 DEF Specialist, Closed
<1>4. QED
  BY <1>2, <1>3, TeamKept

\* What a step of one specialist leaves to the others.
LEMMA OthersSame ==
    ASSUME TypeOK, Specialists, NEW i \in Workers, Working(i) \/ Ending(i),
           NEW j \in Workers, j # i
    PROVE  /\ status'[j] = status[j] /\ wpc'[j] = wpc[j] /\ taken'[j] = taken[j]
           /\ batches'[j] = batches[j] /\ reviews'[j] = reviews[j]
<1>1. /\ status \in [Workers -> {"none", "active"} \cup Closed]
      /\ wpc \in [Workers -> SpecialistPlaces] /\ taken \in [Workers -> Nat]
      /\ reviews \in [Workers -> 0 .. MaxWorkers]
  BY DEF TypeOK
<1>2. batches \in [Workers -> Seq(SUBSET (0 .. MaxWorkers))]
  BY DEF TypeOK
<1>3. CASE Ending(i)
  BY <1>1, <1>3, EndingFrame
<1>4. CASE Working(i)
  <2>1. status'[j] = status[j]
    BY <1>4, WorkingFrame
  <2>2. batches'[j] = batches[j]
    <3>1. CASE Receive(i)
      BY <1>2, <3>1 DEF Receive
    <3>2. CASE ~Receive(i)
      BY <1>4, <3>2 DEF Working, SpecialistStarts, Draft, SendFindings, Review,
         SpecialistCrashes, CustomerCancels, journal
    <3>3. QED
      BY <3>1, <3>2
  <2>3. reviews'[j] = reviews[j]
    BY <1>1, <1>4 DEF Working, SpecialistStarts, Receive, Draft, SendFindings, Review,
       SpecialistCrashes, CustomerCancels, journal
  <2>4. wpc'[j] = wpc[j]
    BY <1>1, <1>4 DEF Working, SpecialistStarts, Receive, Draft, SendFindings, Review,
       SpecialistCrashes, CustomerCancels, Go, specialists
  <2>5. taken'[j] = taken[j]
    BY <1>1, <1>4 DEF Working, SpecialistStarts, Receive, Draft, SendFindings, Review,
       SpecialistCrashes, CustomerCancels, specialists
  <2>6. QED
    BY <2>1, <2>2, <2>3, <2>4, <2>5
<1>5. QED
  BY <1>3, <1>4

\* The coordinator touches a specialist only to spawn it.
LEMMA CoordinatorLeaves ==
    ASSUME CoordinatorStep \/ CoordinatorCrashes \/ UNCHANGED vars
    PROVE  UNCHANGED <<wpc, taken, batches, reviews>> /\ (UNCHANGED status \/ SpawnChild)
BY DEF CoordinatorStep, CoordinatorStarts, PlanReply, PlanFails, SpawnChild, SendAssignment,
       CollectPage, CancelChild, Answer, CoordinatorCrashes, journal, specialists, vars

\* Starting, crashing and receiving keep the facts about a specialist: what
\* it has in its inbox is never too much.
LEMMA ReceivingKept ==
    ASSUME TypeOK, PlanKept, RingMessages, Specialists, [Next]_vars, NEW i \in Workers,
           SpecialistStarts(i) \/ SpecialistCrashes(i) \/ CustomerCancels(i) \/ Receive(i)
    PROVE  Specialist(i)'
<1>1. Specialist(i) /\ messages' = messages /\ drafts' = drafts /\ reviews' = reviews
      /\ status' = status /\ replies' = replies
  BY DEF Specialists, SpecialistStarts, SpecialistCrashes, CustomerCancels, Receive, journal
<1>2. Team' = Team
  BY <1>1, TeamSame
<1>3. Previous(i)' = Previous(i) /\ Following(i)' = Following(i)
  BY <1>2 DEF Previous, Following
<1>4. /\ wpc \in [Workers -> SpecialistPlaces] /\ taken \in [Workers -> Nat]
      /\ status[i] \in {"none", "active"} \cup Closed
  BY DEF TypeOK
<1>5. batches[i] \in Seq(SUBSET (0 .. MaxWorkers)) /\ Len(batches[i]) \in Nat
  BY LenProperties DEF TypeOK
<1>6. SUFFICES
        /\ wpc'[i] \in {"off", "waiting", "assignment"} \/ wpc'[i] = wpc[i]
        /\ wpc'[i] # "off" => status[i] # "none"
        /\ wpc'[i] = "done" <=> wpc[i] = "done"
        /\ taken'[i] <= Len(batches'[i])
        /\ \A k \in 1 .. Len(batches'[i]) :
              \A from \in batches'[i][k] : <<from, i>> \in messages
  BY <1>1, <1>2, <1>3 DEF Specialist
<1>7. CASE SpecialistStarts(i)
  <2>1. /\ batches' = batches /\ wpc'[i] = "assignment" /\ taken'[i] = 0
        /\ wpc[i] # "done" /\ status[i] = "active"
    BY <1>4, <1>7 DEF SpecialistStarts, Go, journal
  <2>2. QED
    BY <1>1, <1>5, <2>1 DEF Specialist
<1>8. CASE SpecialistCrashes(i)
  <2>1. batches' = batches /\ wpc'[i] = "off" /\ taken'[i] = 0 /\ wpc[i] # "done"
    BY <1>4, <1>8 DEF SpecialistCrashes, Go, journal
  <2>2. QED
    BY <1>1, <1>5, <2>1 DEF Specialist
<1>9. CASE CustomerCancels(i)
  <2>1. batches' = batches /\ wpc' = wpc /\ taken' = taken
    BY <1>9 DEF CustomerCancels, specialists
  <2>2. QED
    BY <1>1, <1>5, <2>1 DEF Specialist
<1>10. CASE Receive(i)
  <2> DEFINE n == Len(batches[i])
  <2>1. /\ wpc[i] # "done" /\ wpc[i] # "off" /\ taken[i] <= n /\ status[i] # "none"
        /\ \A k \in 1 .. n : \A from \in batches[i][k] : <<from, i>> \in messages
    BY <1>1, <1>10 DEF Receive, Specialist
  <2>2. CASE /\ wpc' = [wpc EXCEPT ![i] = "waiting"]
             /\ UNCHANGED <<batches, taken>>
    BY <1>4, <2>1, <2>2
  <2>3. CASE /\ \/ taken[i] < n /\ UNCHANGED batches
                \/ /\ taken[i] = n
                   /\ \E batch \in SUBSET Undelivered(i) \ {{}} :
                         batches' = [batches EXCEPT ![i] = Append(@, batch)]
             /\ taken' = [taken EXCEPT ![i] = @ + 1]
             /\ IF Cardinality(Inbox(i) \cup batches'[i][taken[i] + 1]) > InboxLimit
                THEN wpc' = [wpc EXCEPT ![i] = "failed"] ELSE UNCHANGED wpc
    <3>1. /\ Len(batches'[i]) \in Nat /\ taken[i] + 1 <= Len(batches'[i])
          /\ \A k \in 1 .. Len(batches'[i]) :
                /\ batches'[i][k] \in SUBSET (0 .. MaxWorkers)
                /\ \A from \in batches'[i][k] : <<from, i>> \in messages
      <4>1. taken[i] \in Nat /\ \A k \in 1 .. n : batches[i][k] \in SUBSET (0 .. MaxWorkers)
        BY <1>4, <1>5, ElementOfSeq
      <4>2. CASE taken[i] < n /\ UNCHANGED batches
        BY <1>5, <2>1, <4>1, <4>2
      <4>3. ASSUME taken[i] = n, NEW batch \in SUBSET Undelivered(i),
                   batches' = [batches EXCEPT ![i] = Append(@, batch)]
            PROVE  /\ Len(batches'[i]) \in Nat /\ taken[i] + 1 <= Len(batches'[i])
                   /\ \A k \in 1 .. Len(batches'[i]) :
                         /\ batches'[i][k] \in SUBSET (0 .. MaxWorkers)
                         /\ \A from \in batches'[i][k] : <<from, i>> \in messages
        <5>1. batch \in SUBSET (0 .. MaxWorkers) /\ \A from \in batch : <<from, i>> \in messages
          BY DEF Undelivered
        <5>2. batches'[i] = Append(batches[i], batch)
          BY <4>3 DEF TypeOK
        <5>3. /\ Len(batches'[i]) = n + 1 /\ batches'[i][n + 1] = batch
              /\ \A k \in 1 .. n : batches'[i][k] = batches[i][k]
          BY <1>5, <5>1, <5>2, AppendProperties
        <5>4. SUFFICES ASSUME NEW k \in 1 .. n + 1
                       PROVE  /\ batches'[i][k] \in SUBSET (0 .. MaxWorkers)
                              /\ \A from \in batches'[i][k] : <<from, i>> \in messages
          BY <1>5, <4>1, <4>3, <5>3
        <5>5. CASE k \in 1 .. n
          BY <2>1, <4>1, <5>3, <5>5
        <5>6. CASE k = n + 1
          BY <5>1, <5>3, <5>6
        <5>7. QED
          BY <1>5, <5>5, <5>6
      <4>4. QED
        BY <2>3, <4>2, <4>3
    <3>2. Inbox(i) \in SUBSET (0 .. MaxWorkers)
      <4>1. taken[i] \in Nat /\ \A k \in 1 .. n : batches[i][k] \in SUBSET (0 .. MaxWorkers)
        BY <1>4, <1>5, ElementOfSeq
      <4>2. QED
        BY <1>5, <2>1, <4>1 DEF Inbox, Received
    <3>3. Cardinality(Inbox(i) \cup batches'[i][taken[i] + 1]) <= InboxLimit
      <4>1. taken[i] + 1 \in 1 .. Len(batches'[i])
        BY <1>4, <3>1
      <4>2. \A from \in Inbox(i) \cup batches'[i][taken[i] + 1] : <<from, i>> \in messages
        BY <1>1, <3>1, <4>1, InboxSent
      <4>3. Inbox(i) \cup batches'[i][taken[i] + 1] \in SUBSET (0 .. MaxWorkers)
        BY <3>1, <3>2, <4>1
      <4>4. QED
        BY <4>2, <4>3, NoSurplus
    <3>4. Cardinality(Inbox(i) \cup batches'[i][taken[i] + 1]) \in Nat /\ InboxLimit \in Nat
      <4>1. IsFiniteSet(0 .. MaxWorkers)
        BY TeamAssumption, FS_Interval
      <4>2. Inbox(i) \cup batches'[i][taken[i] + 1] \in SUBSET (0 .. MaxWorkers)
        BY <1>4, <3>1, <3>2
      <4>3. IsFiniteSet(Inbox(i) \cup batches'[i][taken[i] + 1])
        BY <4>1, <4>2, FS_Subset
      <4>4. QED
        BY <4>3, FS_CardinalityType DEF InboxLimit
    <3>5. wpc' = wpc
      BY <2>3, <3>3, <3>4
    <3>6. taken'[i] = taken[i] + 1
      BY <1>4, <2>3
    <3>7. QED
      BY <2>1, <3>1, <3>5, <3>6
  <2>4. QED
    BY <1>10, <2>2, <2>3 DEF Receive, Go
<1>11. QED
  BY <1>7, <1>8, <1>9, <1>10

\* A specialist that drafts is not its own peer, and has its assignment.
LEMMA DraftingKept ==
    ASSUME TypeOK, Specialists, NEW i \in Workers, Draft(i)
    PROVE  Specialist(i)'
<1>1. Specialist(i) /\ UNCHANGED <<messages, reviews, status, replies, batches, taken>>
  BY DEF Specialists, Draft
<1>2. wpc[i] = "assignment" /\ Coordinator \in Inbox(i)
  BY DEF Draft, HasAssignment
<1>3. <<Coordinator, i>> \in messages
  BY <1>1, <1>2, InboxSent
<1>4. i \in 1 .. Team
  BY <1>1, <1>2 DEF Specialist
<1>5. i # Previous(i) /\ i # Following(i)
  BY <1>4, Ring
<1>6. wpc'[i] = "send" /\ drafts' = drafts \cup {i}
  BY <1>5 DEF Draft, Go, TypeOK
<1>7. Team' = Team
  BY <1>1, TeamSame
<1>8. Previous(i)' = Previous(i)
  BY <1>7 DEF Previous
<1>9. QED
  BY <1>1, <1>2, <1>3, <1>4, <1>6, <1>7, <1>8 DEF Specialist

\* A specialist is refused only by a peer that was cancelled: one that
\* completed has its message already.
LEMMA SendingKept ==
    ASSUME TypeOK, PlanKept, Specialists, NEW i \in Workers, SendFindings(i), [Next]_vars
    PROVE  Specialist(i)'
<1>1. Specialist(i) /\ UNCHANGED <<reviews, status, replies, batches, taken, drafts>>
  BY DEF Specialists, SendFindings
<1>2. wpc[i] = "send" /\ i \in 1 .. Team
  BY <1>1 DEF SendFindings, Specialist
<1>3. Team' = Team
  BY <1>1, TeamSame
<1>4. Previous(i)' = Previous(i) /\ Following(i)' = Following(i)
  BY <1>3 DEF Previous, Following
<1>5. /\ Following(i) \in Workers /\ Following(i) \in 1 .. Team
      /\ Previous(Following(i)) = i
  BY <1>2, Ring
<1>6. messages \subseteq messages'
  BY RecordsKept
<1>7. wpc'[i] = "failed" \/ wpc'[i] = "finding"
  BY DEF SendFindings, Go, TypeOK
<1>8. wpc'[i] = "failed" => status[Following(i)] = "cancelled"
  <2>1. SUFFICES ASSUME wpc'[i] = "failed", status[Following(i)] # "cancelled"
                 PROVE  FALSE
    OBVIOUS
  <2>2. status[Following(i)] \in Closed /\ <<i, Following(i)>> \notin messages
    BY <2>1 DEF SendFindings, Go, Refused, TypeOK
  <2>3. status[Following(i)] = "completed"
    BY <2>1, <2>2 DEF Closed
  <2>4. Specialist(Following(i))
    BY <1>5 DEF Specialists
  <2>5. reviews[Following(i)] = i /\ <<reviews[Following(i)], Following(i)>> \in messages
    BY <1>5, <2>3, <2>4 DEF Specialist
  <2>6. QED
    BY <2>2, <2>5
<1>9. <<Coordinator, i>> \in messages /\ i \in drafts
  BY <1>1, <1>2 DEF Specialist
<1>10. QED
  BY <1>1, <1>2, <1>3, <1>4, <1>6, <1>7, <1>8, <1>9 DEF Specialist

\* The finding that is reviewed is the one of the previous specialist.
LEMMA ReviewingKept ==
    ASSUME TypeOK, Specialists, NEW i \in Workers, Review(i)
    PROVE  Specialist(i)'
<1>1. Specialist(i) /\ UNCHANGED <<messages, status, replies, batches, taken, drafts>>
  BY DEF Specialists, Review
<1>2. wpc[i] = "finding" /\ Previous(i) \in Inbox(i)
  BY DEF Review, HasFinding
<1>3. wpc'[i] = "complete" /\ reviews'[i] = Previous(i)
  BY DEF Review, Go, TypeOK
<1>4. <<Previous(i), i>> \in messages
  BY <1>1, <1>2, InboxSent
<1>5. i \in 1 .. Team
  BY <1>1, <1>2 DEF Specialist
<1>6. Previous(i) # 0
  <2>1. Previous(i) \in 1 .. Team
    BY <1>5, Ring
  <2>2. QED
    BY <2>1
<1>7. Team' = Team
  BY <1>1, TeamSame
<1>8. Previous(i)' = Previous(i) /\ Following(i)' = Following(i)
  BY <1>7 DEF Previous, Following
<1>9. QED
  BY <1>1, <1>2, <1>3, <1>4, <1>5, <1>6, <1>7, <1>8 DEF Specialist

\* A specialist that ends completed after its review, or was cancelled.
LEMMA EndingKept ==
    ASSUME TypeOK, Specialists, NEW i \in Workers, Ending(i)
    PROVE  Specialist(i)'
<1>1. /\ Specialist(i) /\ status[i] = "active"
      /\ UNCHANGED <<messages, reviews, replies, batches, taken, drafts>>
  BY EndingFrame DEF Specialists
<1>2. status'[i] = (IF Complete(i) THEN "completed" ELSE "cancelled") /\ wpc'[i] = "done"
  BY EndingFrame DEF TypeOK
<1>3. Complete(i) => wpc[i] = "complete"
  BY DEF Complete
<1>4. Team' = Team
  BY <1>1, TeamSame
<1>5. Previous(i)' = Previous(i)
  BY <1>4 DEF Previous
<1>6. QED
  BY <1>1, <1>2, <1>3, <1>4, <1>5 DEF Specialist, Closed

\* The facts about the specialists are kept.
LEMMA SpecialistsStep ==
    ASSUME TypeOK, PlanKept, RingMessages, Specialists, [Next]_vars
    PROVE  Specialists'
<1> SUFFICES ASSUME NEW j \in Workers PROVE Specialist(j)'
  BY DEF Specialists
<1>1. ASSUME NEW i \in Workers, Working(i) \/ Ending(i) PROVE Specialist(j)'
  <2>1. CASE j # i
    BY <1>1, <2>1, OthersSame, SpecialistSame
  <2>2. CASE j = i
    BY <1>1, <2>2, ReceivingKept, DraftingKept, SendingKept, ReviewingKept, EndingKept
       DEF Working
  <2>3. QED
    BY <2>1, <2>2
<1>2. CASE CoordinatorStep \/ CoordinatorCrashes \/ UNCHANGED vars
  <2>1. UNCHANGED <<wpc, taken, batches, reviews>> /\ (UNCHANGED status \/ SpawnChild)
    BY <1>2, CoordinatorLeaves
  <2>2. CASE status'[j] = status[j]
    BY <2>1, <2>2, SpecialistSame
  <2>3. CASE SpawnChild /\ status'[j] # status[j]
    <3>1. status' = [status EXCEPT ![idx] = IF @ = "none" THEN "active" ELSE @]
          /\ UNCHANGED <<messages, replies, drafts>> /\ cpc = "spawn"
      BY <2>3 DEF SpawnChild
    <3>2. j = idx /\ status[j] = "none" /\ status'[j] = "active"
      BY <2>3, <3>1 DEF TypeOK
    <3>3. j \in 1 .. Team
      <4>1. idx \in Nat /\ idx >= 1 /\ idx <= Team /\ Team \in Nat
        <5>1. idx \in Nat /\ idx >= 1
          BY DEF TypeOK
        <5>2. idx <= Team
          BY <3>1 DEF PlanKept
        <5>3. QED
          BY <5>1, <5>2, TeamSize
      <4>2. QED
        BY <3>2, <4>1
    <3>4. Team' = Team
      BY <3>1, TeamSame
    <3>5. Previous(j)' = Previous(j)
      BY <3>4 DEF Previous
    <3>6. Specialist(j) /\ wpc[j] = "off"
      BY <3>2 DEF Specialists, Specialist
    <3>7. QED
      BY <2>1, <3>1, <3>2, <3>3, <3>4, <3>5, <3>6 DEF Specialist, Closed
  <2>4. QED
    BY <2>1, <2>2, <2>3
<1>3. QED
  BY <1>1, <1>2, StepsOfNext DEF CoordinatorStep

-----------------------------------------------------------------------------
(* Who was cancelled first.                                                *)

\* The coordinator goes on to cancel only when some specialist is cancelled:
\* an assignment is refused, or an outcome is not a completion.
LEMMA CancelReason ==
    ASSUME TypeOK, PlanKept, EndedOnce, OutcomesRead, Specialists, [Next]_vars,
           cpc # "cancel", cpc' = "cancel"
    PROVE  \E i \in Workers : status[i] = "cancelled"
<1>1. CASE SendAssignment
  <2>1. Refused(Coordinator, idx)
    BY <1>1 DEF SendAssignment, Advance
  <2>2. idx \in Workers
    <3>1. idx \in Nat /\ idx >= 1
      BY DEF TypeOK
    <3>2. idx <= Team /\ Team \in Nat
      BY <1>1, TeamSize DEF PlanKept, SendAssignment
    <3>3. QED
      BY <3>1, <3>2, Ring
  <2>3. status[idx] = "cancelled"
    BY <2>1, <2>2 DEF Refused, Closed, Specialists, Specialist
  <2>4. QED
    BY <2>2, <2>3
<1>2. CASE CollectPage
  <2>1. PICK n \in PagesAt(read) : Broken(read + n)
    BY <1>2 DEF CollectPage
  <2>2. /\ Len(ends) \in Nat /\ \A k \in 1 .. Len(ends) : ends[k] \in Workers
    BY ElementOfSeq, LenProperties DEF TypeOK
  <2>3. read \in 0 .. MaxWorkers /\ pages[read] \in Nat /\ read <= Len(ends)
    <3>1. read \in 0 .. MaxWorkers /\ pages \in [0 .. MaxWorkers -> 0 .. MaxWorkers]
      BY DEF TypeOK
    <3>2. QED
      BY <3>1, TeamAssumption DEF OutcomesRead
  <2>4. pages[read] > 0 => read + pages[read] <= Len(ends)
    BY <2>3 DEF OutcomesRead
  <2>5. n \in Nat /\ read + n <= Len(ends)
    BY <2>2, <2>3, <2>4 DEF PagesAt
  <2>6. PICK k \in 1 .. Len(ends) : status[ends[k]] # "completed"
    BY <2>1, <2>2, <2>3, <2>5 DEF Broken
  <2>7. status[ends[k]] = "cancelled" /\ ends[k] \in Workers
    BY <2>2, <2>6 DEF EndedOnce, Closed
  <2>8. QED
    BY <2>7
<1>3. QED
  <2>1. PlanReply => cpc' # "cancel"
    BY PlanReplyStep
  <2>2. CoordinatorStarts \/ PlanFails \/ SpawnChild \/ CancelChild \/ Answer
           \/ CoordinatorCrashes => cpc' # "cancel"
    BY DEF CoordinatorStarts, PlanFails, SpawnChild, CancelChild, Answer,
       CoordinatorCrashes, Advance
  <2>3. (\E i \in Workers : Working(i) \/ Ending(i)) \/ UNCHANGED vars => cpc' = cpc
    BY WorkingFrame, EndingFrame DEF vars, coordinator
  <2>4. QED
    BY <1>1, <1>2, <2>1, <2>2, <2>3, StepsOfNext

\* Requests are only ever added, by the coordinator or by the customer.
LEMMA RequestSteps ==
    ASSUME [Next]_vars, TypeOK, Specialists
    PROVE  /\ requested \subseteq requested' /\ customer \subseteq customer'
           /\ requested' = requested \/ cpc = "cancel"
<1>1. CASE CancelChild
  BY <1>1 DEF CancelChild
<1>2. ASSUME NEW i \in Workers, Working(i) \/ Ending(i)
      PROVE  requested' = requested /\ customer \subseteq customer'
  BY <1>2, WorkingFrame, EndingFrame
     DEF Working, SpecialistStarts, Receive, Draft, SendFindings, Review, SpecialistCrashes,
         CustomerCancels, journal
<1>3. CASE ~CancelChild /\ (CoordinatorStep \/ CoordinatorCrashes \/ UNCHANGED vars)
  <2>1. UNCHANGED <<requested, customer>>
    BY <1>3
       DEF CoordinatorStep, CoordinatorStarts, PlanReply, PlanFails, SpawnChild,
           SendAssignment, CollectPage, Answer, CoordinatorCrashes, journal, vars
  <2>2. QED
    BY <2>1
<1>4. QED
  BY <1>1, <1>2, <1>3, StepsOfNext DEF CoordinatorStep

\* The first to be cancelled is cancelled by the customer.
LEMMA CustomerStep ==
    ASSUME TypeOK, PlanKept, EndedOnce, OutcomesRead, Specialists, CustomerFirst, [Next]_vars
    PROVE  CustomerFirst'
<1>1. status \in [Workers -> {"none", "active"} \cup Closed] /\ customer \subseteq Workers
  BY DEF TypeOK
<1>2. /\ requested \subseteq requested' /\ customer \subseteq customer'
      /\ requested' = requested \/ cpc = "cancel"
  BY RequestSteps
<1>3. ASSUME NEW i \in Workers, status'[i] = "cancelled"
      PROVE  i \in requested' \cup customer'
  <2>1. CASE status[i] = "cancelled"
    BY <1>2, <2>1 DEF CustomerFirst
  <2>2. CASE status[i] # "cancelled"
    <3>1. SpawnChild => status'[i] = status[i] \/ status'[i] = "active"
      BY <1>1 DEF SpawnChild
    <3>2. PICK j \in Workers : Ending(j)
      BY <1>3, <2>2, <3>1, OutcomeSteps
    <3>3. i = j /\ ~Complete(j)
      BY <1>1, <1>3, <2>2, <3>2, EndingFrame
    <3>4. i \in requested \cup customer
      BY <3>2, <3>3 DEF Ending, CancelTakesEffect
    <3>5. QED
      BY <1>2, <3>4
  <2>3. QED
    BY <2>1, <2>2
<1>4. (\E i \in customer : status[i] = "cancelled")
         => \E i \in customer' : status'[i] = "cancelled"
  BY <1>1, <1>2, ClosedKept DEF Closed
<1>5. requested # {} \/ cpc = "cancel" => \E i \in customer : status[i] = "cancelled"
  BY DEF CustomerFirst
<1>6. (\E i \in Workers : status[i] = "cancelled") => \E i \in customer : status[i] = "cancelled"
  BY <1>5 DEF CustomerFirst
<1>7. requested' # {} \/ cpc' = "cancel" => \E i \in customer' : status'[i] = "cancelled"
  BY <1>2, <1>4, <1>5, <1>6, CancelReason
<1>8. QED
  BY <1>3, <1>7 DEF CustomerFirst

-----------------------------------------------------------------------------
(* The theorems.                                                           *)

\* The invariant holds initially and is kept by every step.
LEMMA TeamInvariant == Spec => []TeamInv
<1>1. Init => TeamInv
  <2> SUFFICES ASSUME Init PROVE TeamInv
    OBVIOUS
  <2>1. TypeOK
    BY TypeInit
  <2>2. Team = 0 /\ Len(ends) = 0 /\ Len(replies) = 0
    BY EmptySeq DEF Init, Team
  <2>3. PlanKept /\ RingMessages /\ CustomerFirst
    BY <2>2 DEF Init, PlanKept, RingMessages, CustomerFirst
  <2>4. EndedOnce
    <3>1. Outcomes(Len(ends)) = {}
      BY <2>2 DEF Outcomes
    <3>2. QED
      BY <2>2, <3>1, FS_EmptySet DEF EndedOnce
  <2>5. OutcomesRead
    BY <2>2, TeamAssumption DEF Init, OutcomesRead
  <2>6. Specialists
    <3>1. Len(<<>>) = 0
      BY EmptySeq
    <3>2. QED
      BY <3>1 DEF Init, Specialists, Specialist, Closed
  <2>7. QED
    BY <2>1, <2>3, <2>4, <2>5, <2>6 DEF TeamInv
<1>2. TeamInv /\ [Next]_vars => TeamInv'
  BY TypeStep, PlanStep, EndedStep, OutcomesStep, RingStepKept, SpecialistsStep, CustomerStep
     DEF TeamInv
<1>3. QED
  BY <1>1, <1>2, PTL DEF Spec

\* The answer of a team has the findings of every specialist, each of which
\* completed: main collects page by page until the last outcome is held, and
\* answers only from completions (managed_parallel_assistant.py).
THEOREM WholeAnswer == Spec => []AnswerIsWhole
<1>1. TeamInv => AnswerIsWhole
  <2> SUFFICES ASSUME TeamInv, cpc = "done", Team > 0
               PROVE  answer = 1 .. Team /\ \A i \in answer : status[i] = "completed"
    BY DEF AnswerIsWhole
  <2>1. Len(ends) \in Nat /\ Len(ends) <= Team /\ (Len(ends) = Team => Outcomes(Team) = 1 .. Team)
    BY EndsBound DEF TeamInv
  <2>2. Team \in Nat /\ read = Team /\ read <= Len(ends) /\ ~Broken(Team) /\ answer = Contributions
    BY TeamSize DEF TeamInv, OutcomesRead
  <2>3. answer = Outcomes(Team) /\ Outcomes(Team) = 1 .. Team
    BY <2>1, <2>2 DEF Contributions, Outcomes
  <2>4. \A i \in Outcomes(Team) : status[i] = "completed"
    BY <2>2 DEF Outcomes, Broken
  <2>5. QED
    BY <2>3, <2>4
<1>2. QED
  BY <1>1, TeamInvariant, PTL

\* A specialist that completed reviewed the recorded draft that its
\* predecessor in the ring had sent it, never its own (_worker).
THEOREM PeerReviewed == Spec => []ReviewsPeer
<1>1. TeamInv => ReviewsPeer
  <2> SUFFICES ASSUME TeamInv, NEW i \in Workers, reviews[i] # 0 \/ status[i] = "completed"
               PROVE  reviews[i] # i /\ reviews[i] \in drafts /\ <<reviews[i], i>> \in messages
    BY DEF ReviewsPeer
  <2>1. /\ i \in 1 .. Team /\ reviews[i] = Previous(i) /\ <<reviews[i], i>> \in messages
        /\ reviews[i] # 0 /\ reviews[i] \in 0 .. MaxWorkers
    BY DEF TeamInv, Specialists, Specialist, TypeOK
  <2>2. Previous(i) # i
    BY <2>1, Ring DEF TeamInv
  <2>3. reviews[i] \in drafts
    BY <2>1 DEF TeamInv, RingMessages, Coordinator
  <2>4. QED
    BY <2>1, <2>2, <2>3
<1>2. QED
  BY <1>1, TeamInvariant, PTL

\* A specialist fails only because the next one was cancelled: a send is
\* refused for nothing else, and no inbox is ever too full (_worker, receive).
THEOREM FailsOnlyForCancelled == Spec => []FailsForCancelledPeer
<1>1. TeamInv => FailsForCancelledPeer
  BY DEF TeamInv, Specialists, Specialist, FailsForCancelledPeer
<1>2. QED
  BY <1>1, TeamInvariant, PTL

\* The coordinator asks specialists to stop only after the customer had one
\* cancelled (main's branches that cancel the children).
THEOREM CancelsAfterCustomer == Spec => []CancelsOnlyBroken
<1>1. TeamInv => CancelsOnlyBroken
  BY DEF TeamInv, CustomerFirst, CancelsOnlyBroken
<1>2. QED
  BY <1>1, TeamInvariant, PTL
=============================================================================
