------------------------------ MODULE Listings ------------------------------
(***************************************************************************)
(* A listing read page by page while what it lists comes and goes.  A page *)
(* may come back empty although more follow, and a server may answer a     *)
(* cursor it has given before.  The readers differ in how they go on:      *)
(*   noting     Compute.iterate, Volumes.iter and Workspaces._rows         *)
(*              remember every cursor and raise at one that returns;       *)
(*   searching  Sandboxes.connect and the command line's _resolve_sandbox  *)
(*              do the same and look for one active sandbox of a name;     *)
(*   following  Sandboxes.iterate, ManagedAgents.iterate and               *)
(*              ManagedRuns.iterate compare a cursor with the last one     *)
(*              only, stop at it without a word, and follow any other;     *)
(*   counting   Client.iter_workloads asks by offset, and stops when the   *)
(*              next one does not advance.                                 *)
(* The asynchronous client has the same readers.                           *)
(***************************************************************************)
EXTENDS Integers, FiniteSets, FiniteSetsExt

CONSTANTS Items,      \* positions in the order of the listing, from 1
          Named,      \* those that carry the name that is searched for
          PageSize,   \* items the server looks at for one page
          None        \* no cursor

ListingAssumption ==
    /\ Items \subseteq Nat \ {0} /\ IsFiniteSet(Items) /\ Named \subseteq Items
    /\ PageSize \in Nat \ {0} /\ None \notin Nat

VARIABLES
    items,   \* item -> "absent", "active", "ended" or "gone"
    steady,  \* history: items active from the first request on
    reader   \* [kind, phase, cursor, seen, got]

vars == <<items, steady, reader>>

Noting    == {"compute", "compute_async", "volumes", "volumes_async", "rows", "rows_async"}
Searching == {"connect", "connect_async", "resolve"}
Following == {"sandboxes", "sandboxes_async", "agents", "agents_async", "runs", "runs_async"}
Counting  == {"workloads", "workloads_async"}
Kinds     == Noting \cup Searching \cup Following \cup Counting

\* stopped: ended at a cursor or an offset that did not advance.
Phases == {"idle", "reading", "returned", "raised", "stopped"}

TypeOK ==
    /\ items \in [Items -> {"absent", "active", "ended", "gone"}]
    /\ steady \subseteq Items
    /\ reader \in [kind: Kinds, phase: Phases, cursor: Nat,
                   seen: SUBSET Items, got: SUBSET Items]

Init ==
    /\ items \in [Items -> {"absent", "active"}] /\ steady = {}
    /\ \E kind \in Kinds :
          reader = [kind |-> kind, phase |-> "idle", cursor |-> 0, seen |-> {}, got |-> {}]

-----------------------------------------------------------------------------
(* What is listed.                                                         *)

\* Workloads are listed from the newest.
Created(i) ==
    /\ items[i] = "absent" /\ items' = [items EXCEPT ![i] = "active"]
    /\ reader.kind \in Counting => \A j \in Items : items[j] # "absent" => i < j
    /\ UNCHANGED <<steady, reader>>

\* It ends and stays listed for a while, a workload for good; then it is gone.
Ended(i) ==
    /\ items[i] \in {"active", "ended"}
    /\ items[i] = "ended" => reader.kind \notin Counting
    /\ items' = [items EXCEPT ![i] = IF @ = "active" THEN "ended" ELSE "gone"]
    /\ steady' = IF reader.kind \in Counting THEN steady ELSE steady \ {i}
    /\ UNCHANGED reader

Listed == { i \in Items : items[i] \in {"active", "ended"} }

\* Items after the cursor, of which a page covers the first PageSize.
After(cursor) == { i \in Listed : i > cursor }
Covered(cursor) ==
    { i \in After(cursor) : Cardinality({ j \in After(cursor) : j < i }) < PageSize }

\* The filter is applied to what a page covers.
Rows(kind, cursor) ==
    IF kind \in Searching THEN Covered(cursor) \cap Named ELSE Covered(cursor)

\* The next cursor: the end of the page; none, when nothing follows; or one that
\* was given before.
NextCursors(cursor, seen) ==
    LET page == Covered(cursor) IN
    seen \cup (IF After(cursor) = page THEN {None} ELSE {})
         \cup (IF page = {} THEN {} ELSE {Max(page)})

\* By offset: the rows behind so many others, and the next offset, which may stall.
RowsAt(offset) ==
    LET place(i) == Cardinality({ j \in Listed : j < i }) IN
    { i \in Listed : place(i) \in offset .. offset + PageSize - 1 }
NextOffsets(offset) ==
    {offset, IF Cardinality(Listed) > offset + PageSize THEN offset + PageSize ELSE None}

-----------------------------------------------------------------------------
(* The readers.                                                            *)

Begin ==
    /\ reader.phase = "idle" /\ reader' = [reader EXCEPT !.phase = "reading"]
    /\ steady' = { i \in Items : items[i] = "active" }
    /\ UNCHANGED items

\* What a row adds: a search takes active items only.
Taken(kind, rows) ==
    IF kind \in Searching THEN { i \in rows : items[i] = "active" } ELSE rows

\* mutant: an empty page ends the listing.
EndsWhenEmpty(next, rows) == next = None \/ rows = {}

Ends(next, rows) == next = None

\* mutant: the cursors given before are not remembered.
RepeatsNever(next, seen) == FALSE

Repeats(next, seen) == next \in seen

\* A search returns one match and raises otherwise.
Outcome(kind, got) ==
    IF kind \notin Searching \/ Cardinality(got) = 1 THEN "returned" ELSE "raised"

Remember(kind) ==
    /\ reader.phase = "reading" /\ reader.kind = kind
    /\ LET rows == Rows(reader.kind, reader.cursor)
           got == reader.got \cup Taken(reader.kind, rows) IN
       \E next \in NextCursors(reader.cursor, reader.seen) :
          reader' =
              IF reader.kind = "resolve" /\ Cardinality(got) > 1
              THEN [reader EXCEPT !.phase = "raised", !.got = got]
              ELSE IF Ends(next, rows)
              THEN [reader EXCEPT !.phase = Outcome(reader.kind, got), !.got = got]
              ELSE IF Repeats(next, reader.seen)
              THEN [reader EXCEPT !.phase = "raised", !.got = got]
              ELSE [reader EXCEPT !.cursor = next, !.seen = @ \cup {next}, !.got = got]
    /\ UNCHANGED <<items, steady>>

ComputePage      == Remember("compute")
ComputePageAsync == Remember("compute_async")
VolumesPage      == Remember("volumes")
VolumesPageAsync == Remember("volumes_async")
RowsPage         == Remember("rows")
RowsPageAsync    == Remember("rows_async")
ConnectPage      == Remember("connect")
ConnectPageAsync == Remember("connect_async")
ResolvePage      == Remember("resolve")

\* Only a cursor equal to the last is noticed, and nothing is raised: a reader
\* that is given an older one reads on from there.
Follow(kind) ==
    /\ reader.phase = "reading" /\ reader.kind = kind
    /\ LET rows == Rows(kind, reader.cursor)
           got == reader.got \cup rows IN
       \E next \in NextCursors(reader.cursor, reader.seen) :
          reader' =
              IF Ends(next, rows) THEN [reader EXCEPT !.phase = "returned", !.got = got]
              ELSE IF next = reader.cursor THEN [reader EXCEPT !.phase = "stopped", !.got = got]
              ELSE [reader EXCEPT !.cursor = next, !.seen = @ \cup {next}, !.got = got]
    /\ UNCHANGED <<items, steady>>

SandboxesPage      == Follow("sandboxes")
SandboxesPageAsync == Follow("sandboxes_async")
AgentsPage         == Follow("agents")
AgentsPageAsync    == Follow("agents_async")
RunsPage           == Follow("runs")
RunsPageAsync      == Follow("runs_async")

\* The cursor is an offset.
Count(kind) ==
    /\ reader.phase = "reading" /\ reader.kind = kind
    /\ \E next \in NextOffsets(reader.cursor) :
          LET got == reader.got \cup RowsAt(reader.cursor) IN
          reader' = IF next = None THEN [reader EXCEPT !.phase = "returned", !.got = got]
                    ELSE IF next <= reader.cursor THEN [reader EXCEPT !.phase = "stopped", !.got = got]
                    ELSE [reader EXCEPT !.cursor = next, !.got = got]
    /\ UNCHANGED <<items, steady>>

WorkloadsPage      == Count("workloads")
WorkloadsPageAsync == Count("workloads_async")

ReadPage ==
    \/ ComputePage \/ ComputePageAsync \/ VolumesPage \/ VolumesPageAsync \/ RowsPage \/ RowsPageAsync
    \/ ConnectPage \/ ConnectPageAsync \/ ResolvePage
    \/ SandboxesPage \/ SandboxesPageAsync \/ AgentsPage \/ AgentsPageAsync \/ RunsPage \/ RunsPageAsync
    \/ WorkloadsPage \/ WorkloadsPageAsync

\* A request fails for good, or its answer has no valid cursor.
ReadFails ==
    /\ reader.phase = "reading" /\ reader' = [reader EXCEPT !.phase = "raised"]
    /\ UNCHANGED <<items, steady>>

Next ==
    \/ \E i \in Items : Created(i) \/ Ended(i)
    \/ Begin \/ ReadPage \/ ReadFails

\* A reader that has begun goes on asking.
Fairness == WF_vars(ReadPage)

Spec == Init /\ [][Next]_vars /\ Fairness

-----------------------------------------------------------------------------
(* A listing that returns has every item that was there from its first     *)
(* request to its last, and a search that returns a sandbox returns one of *)
(* that name that was active, and the only one that was active throughout  *)
(* (_compute.py:96-105; _volumes.py:54-66; _sandboxes.py:493-510).         *)
(* Workloads keep their place behind those that arrive meanwhile.          *)
ListingComplete ==
    reader.phase = "returned" =>
        IF reader.kind \notin Searching THEN steady \subseteq reader.got
        ELSE /\ Cardinality(reader.got) = 1 /\ reader.got \subseteq Named
             /\ steady \cap Named \subseteq reader.got

(* The reader compares with the last cursor only, and was given an older.  *)
Back == reader.kind \in Following /\ \E c \in reader.seen : c > reader.cursor

(* A listing comes to an end, with a result or an error, even if the       *)
(* server keeps answering cursors it has given before (the seen sets of    *)
(* the same loops), or an offset that does not advance.  A reader that     *)
(* knows only its last cursor ends unless the server goes back further:    *)
(* two cursors in turn would keep it reading (_sandboxes.py:594-601,       *)
(* _managed_agents.py:133-140, 228-235).                                   *)
ListingEnds ==
    reader.phase = "reading" ~>
        reader.phase \in {"returned", "raised", "stopped"} \/ Back
=============================================================================
