--------------------------- MODULE Services_proofs ---------------------------
(***************************************************************************)
(* What the composition of the services promises, for every value of the   *)
(* constants, from what Effects_proofs and Replays_proofs show of each.    *)
(***************************************************************************)
EXTENDS Effects_proofs, Replays_proofs

-----------------------------------------------------------------------------
(* Listings.  What was there when the reader began, and still is, lies     *)
(* before its cursor only if the reader has it: the cursor is the end of a *)
(* page that covers everything up to there, and so is every cursor given   *)
(* before, which a server may give again.  For workloads the place of an   *)
(* item in the listing only grows.                                         *)

\* How many are listed before item i.
PlaceOf(i) == Cardinality({ j \in List!Listed : j < i })

\* A reader with this cursor has passed item i.
Behind(c, i) == IF c.kind \in List!Counting THEN PlaceOf(i) < c.cursor ELSE i <= c.cursor

\* A reader has what it looks for among what it has passed.
HasOf(c, i) == i \in c.got \/ (c.kind \in List!Searching /\ i \notin NamedItems)

\* What is known of a reader.
ReaderSound(c) ==
    /\ c.phase = "idle" => c.cursor = 0 /\ c.seen = {}
    /\ c.kind \in List!Searching => c.got \subseteq NamedItems
    /\ c.phase = "reading" => \A i \in steady : Behind(c, i) => HasOf(c, i)
    /\ c.phase = "reading" /\ c.kind \notin List!Counting =>
          \A n \in c.seen : \A i \in steady : i <= n => HasOf(c, i)
    /\ c.phase = "returned" => \A i \in steady : HasOf(c, i)
    /\ c.phase = "returned" /\ c.kind \in List!Searching => Cardinality(c.got) = 1

ItemStates == {"absent", "active", "ended", "gone"}
ItemSets == SUBSET Items
Readers == [kind : List!Kinds, phase : List!Phases, cursor : Nat, seen : ItemSets, got : ItemSets]

\* Item i may still be listed, for this kind of reader.
Stays(sort, i) == items[i] = "active" \/ (sort \in List!Counting /\ items[i] = "ended")

ListingInv ==
    /\ items \in [Items -> ItemStates] /\ steady \in ItemSets
    /\ reader \in Readers /\ ReaderSound(reader)
    /\ \A i \in steady : Stays(reader.kind, i)


\* The size of a set does not depend on the module that takes it.
LEMMA ListSizes ==
    ASSUME NEW S PROVE List!Cardinality(S) = Cardinality(S)
BY Zenon DEF List!Cardinality, Cardinality

\* The items are finitely many, so are those of a page.
LEMMA ItemsFinite ==
    ASSUME List!ListingAssumption, NEW S \in ItemSets
    PROVE  /\ IsFiniteSet(S) /\ Cardinality(S) \in Nat /\ S \subseteq Nat
           /\ \A T \in ItemSets : T \subseteq S => Cardinality(T) <= Cardinality(S)
           /\ \A T \in ItemSets : T \subseteq S /\ Cardinality(T) = Cardinality(S) => T = S
<1>1. IsFiniteSet(Items)
  <2>1. List!IsFiniteSet(Items)
    BY DEF List!ListingAssumption
  <2>2. QED
    BY <2>1, Zenon DEF List!IsFiniteSet, IsFiniteSet
<1>2. IsFiniteSet(S)
  BY <1>1, FS_Subset DEF ItemSets
<1>3. S \subseteq Nat
  BY DEF List!ListingAssumption, ItemSets
<1>4. \A T \in ItemSets : T \subseteq S =>
         Cardinality(T) <= Cardinality(S) /\ (Cardinality(T) = Cardinality(S) => T = S)
  BY <1>2, FS_Subset
<1>5. QED
  BY <1>2, <1>3, <1>4, FS_CardinalityType

\* Fewer items lie before an earlier one.
LEMMA FewerBefore ==
    ASSUME List!ListingAssumption, NEW S \in ItemSets, NEW i \in S, NEW j \in S, i < j
    PROVE  Cardinality({ k \in S : k < i }) < Cardinality({ k \in S : k < j })
<1>. DEFINE A == { k \in S : k < i }
            B == { k \in S : k < j }
<1>1. i \in Nat /\ j \in Nat /\ S \subseteq Nat
  BY ItemsFinite
<1>2. A \in ItemSets /\ B \in ItemSets
  BY DEF ItemSets
<1>3. A \subseteq B /\ i \in B /\ i \notin A
  <2>1. \A k \in S : k < i => k < j
    BY <1>1
  <2>2. ~(i < i)
    BY <1>1
  <2>3. QED
    BY <2>1, <2>2
<1>. HIDE DEF A, B
<1>4. Cardinality(A) \in Nat /\ Cardinality(B) \in Nat /\ Cardinality(A) <= Cardinality(B)
      /\ Cardinality(A) # Cardinality(B)
  BY <1>2, <1>3, ItemsFinite
<1>5. Cardinality(A) < Cardinality(B)
  BY <1>4
<1>6. QED
  BY <1>5 DEF A, B

\* The end of a page is one of its items, and no item of it lies behind.
LEMMA PageEnd ==
    ASSUME List!ListingAssumption, NEW S \in ItemSets, S # {}
    PROVE  List!Max(S) \in S /\ \A i \in S : i <= List!Max(S)
<1>. DEFINE After(i) == Cardinality({ k \in S : k > i })
            D == { After(i) : i \in S }
<1>1. S \subseteq Nat
  BY ItemsFinite
<1>2. \A i \in S : { k \in S : k > i } \in ItemSets
  BY DEF ItemSets
<1>3. \A i \in S : After(i) \in Nat
  BY <1>2, ItemsFinite
<1>4. PICK n \in D : \A m \in D : n <= m
  <2>1. D \subseteq Nat /\ D # {}
    BY <1>3
  <2>. HIDE DEF D
  <2>2. QED
    BY <2>1, LeastOf
<1>5. PICK i \in S : n = After(i)
  BY <1>4
<1>6. ASSUME NEW j \in S, ~(j <= i)  PROVE FALSE
  <2>. DEFINE A == { k \in S : k > j }
              B == { k \in S : k > i }
  <2>1. i \in Nat /\ j \in Nat /\ i < j
    BY <1>1, <1>6
  <2>2. A \subseteq B /\ j \in B /\ j \notin A /\ A \in ItemSets /\ B \in ItemSets
    <3>1. \A k \in S : k > j => k > i
      BY <1>1, <2>1
    <3>2. ~(j > j) /\ j > i
      BY <2>1
    <3>3. QED
      BY <1>2, <3>1, <3>2
  <2>3. Cardinality(B) <= Cardinality(A)
    BY <1>4, <1>5
  <2>. HIDE DEF A, B
  <2>4. Cardinality(A) \in Nat /\ Cardinality(B) \in Nat /\ Cardinality(A) <= Cardinality(B)
        /\ Cardinality(A) # Cardinality(B)
    BY <2>2, ItemsFinite
  <2>5. QED
    BY <2>3, <2>4
<1>7. \E x \in S : \A y \in S : x >= y
  BY <1>1, <1>6
<1>8. List!Max(S) \in S /\ \A y \in S : List!Max(S) >= y
  BY <1>7, Zenon DEF List!Max
<1>9. QED
  BY <1>1, <1>8

\* What is listed are items.
LEMMA ListedItems ==
    ASSUME List!ListingAssumption
    PROVE  /\ List!Listed \in ItemSets
           /\ \A cursor : List!After(cursor) \in ItemSets /\ List!Covered(cursor) \in ItemSets
           /\ \A offset : List!RowsAt(offset) \in ItemSets
           /\ \A i : { j \in List!Listed : j < i } \in ItemSets
BY DEF ItemSets, List!Listed, List!After, List!Covered, List!RowsAt

\* A page has all the items up to its end.
LEMMA PageFull ==
    ASSUME List!ListingAssumption, NEW cursor \in Nat,
           NEW m \in List!Covered(cursor), NEW i \in List!After(cursor), i <= m
    PROVE  i \in List!Covered(cursor)
<1>1. List!After(cursor) \in ItemSets /\ m \in List!After(cursor)
  BY ListedItems DEF List!Covered
<1>2. List!After(cursor) \subseteq Nat
  BY <1>1, ItemsFinite
<1>. DEFINE Before(k) == { j \in List!After(cursor) : j < k }
<1>3. \A k : Before(k) \in ItemSets /\ Cardinality(Before(k)) \in Nat
  BY <1>1, ItemsFinite DEF ItemSets
<1>4. Cardinality(Before(m)) < PageSize
  BY ListSizes DEF List!Covered
<1>5. CASE i = m
  BY <1>5
<1>6. CASE i # m
  <2>1. i < m
    BY <1>1, <1>2, <1>6
  <2>2. Cardinality(Before(i)) < Cardinality(Before(m))
    BY <1>1, <2>1, FewerBefore
  <2>3. PageSize \in Nat
    BY DEF List!ListingAssumption
  <2>4. Cardinality(Before(i)) < PageSize
    <3>. HIDE DEF Before
    <3>. QED
      BY <1>3, <1>4, <2>2, <2>3
  <2>5. QED
    BY <2>4, ListSizes DEF List!Covered
<1>7. QED
  BY <1>5, <1>6

\* The cursors an answer may have: given before, none, or the end of the page.
LEMMA CursorCases ==
    ASSUME List!ListingAssumption, NEW cursor \in Nat, NEW seen \in ItemSets,
           NEW next \in List!NextCursors(cursor, seen)
    PROVE  \/ next \in seen
           \/ next = None /\ List!After(cursor) = List!Covered(cursor)
           \/ /\ next \in List!Covered(cursor) /\ next \in Nat
              /\ \A i \in List!After(cursor) : i <= next => i \in List!Covered(cursor)
<1>1. CASE next \notin seen /\ ~(next = None /\ List!After(cursor) = List!Covered(cursor))
  <2>1. List!Covered(cursor) # {} /\ next = List!Max(List!Covered(cursor))
    BY <1>1 DEF List!NextCursors
  <2>2. List!Covered(cursor) \in ItemSets
    BY ListedItems
  <2>3. next \in List!Covered(cursor) /\ next \in Nat
    BY <2>1, <2>2, PageEnd, ItemsFinite
  <2>4. QED
    BY <2>3, PageFull
<1>2. QED
  BY <1>1

\* What a row is kept for.
Keeps(sort) == IF sort \in List!Searching THEN NamedItems ELSE Items

\* Reading a page takes what is looked for on it.
LEMMA TakenSound ==
    ASSUME List!ListingAssumption, ListingInv, NEW sort \in List!Kinds, NEW cursor \in Nat,
           sort = reader.kind, sort \notin List!Counting,
           NEW i \in steady, i \in List!Covered(cursor)
    PROVE  i \in List!Taken(sort, List!Rows(sort, cursor)) \/ (sort \in List!Searching /\ i \notin NamedItems)
<1>1. items[i] = "active"
  BY DEF ListingInv, Stays
<1>2. QED
  BY <1>1 DEF List!Taken, List!Rows

\* An item that stays is listed.
LEMMA SteadyListed ==
    ASSUME List!ListingAssumption, ListingInv, NEW i \in steady
    PROVE  i \in List!Listed /\ i \in Nat /\ i > 0
<1>1. i \in Items
  BY DEF ListingInv, ItemSets
<1>2. items[i] \in {"active", "ended"}
  BY DEF ListingInv, Stays
<1>3. QED
  BY <1>1, <1>2 DEF List!Listed, List!ListingAssumption

\* What a page by cursor adds: rows looked for, of this listing.
LEMMA RowsOf ==
    ASSUME List!ListingAssumption, NEW sort \in List!Kinds, NEW cursor \in Nat, NEW got \in ItemSets,
           sort \in List!Searching => got \subseteq NamedItems
    PROVE  /\ got \cup List!Taken(sort, List!Rows(sort, cursor)) \in ItemSets
           /\ sort \in List!Searching =>
                 got \cup List!Taken(sort, List!Rows(sort, cursor)) \subseteq NamedItems
<1>1. List!Covered(cursor) \in ItemSets
  BY ListedItems
<1>2. List!Taken(sort, List!Rows(sort, cursor)) \subseteq List!Covered(cursor)
  BY DEF List!Taken, List!Rows
<1>3. sort \in List!Searching => List!Taken(sort, List!Rows(sort, cursor)) \subseteq NamedItems
  BY DEF List!Taken, List!Rows
<1>4. QED
  BY <1>1, <1>2, <1>3 DEF ItemSets

-----------------------------------------------------------------------------
\* What a reader has after this page.
GotAfter(c) == c.got \cup List!Taken(c.kind, List!Rows(c.kind, c.cursor))

\* It has item i, or does not look for it.
Finds(c, i) == i \in GotAfter(c) \/ (c.kind \in List!Searching /\ i \notin NamedItems)

\* After a page a reader has what it looks for up to the page's end; after the last, all.
LEMMA PageTaken ==
    ASSUME List!ListingAssumption, ListingInv, reader.phase = "reading",
           reader.kind \notin List!Counting
    PROVE  /\ GotAfter(reader) \in ItemSets
           /\ reader.kind \in List!Searching => GotAfter(reader) \subseteq NamedItems
           /\ List!After(reader.cursor) = List!Covered(reader.cursor) => \A i \in steady : Finds(reader, i)
           /\ \A next \in Nat :
                 (\A i \in List!After(reader.cursor) : i <= next => i \in List!Covered(reader.cursor))
                    => \A i \in steady : i <= next => Finds(reader, i)
<1>1. reader.kind \in List!Kinds /\ reader.cursor \in Nat /\ reader.got \in ItemSets
  BY DEF ListingInv, Readers
<1>2. reader.kind \in List!Searching => reader.got \subseteq NamedItems
  BY DEF ListingInv, ReaderSound
<1>3. ASSUME NEW i \in steady, i \in List!Covered(reader.cursor)  PROVE Finds(reader, i)
  BY <1>1, <1>3, TakenSound DEF Finds, GotAfter
<1>4. ASSUME NEW i \in steady, i <= reader.cursor  PROVE Finds(reader, i)
  <2>1. HasOf(reader, i)
    BY <1>4 DEF ListingInv, ReaderSound, Behind
  <2>2. QED
    BY <2>1 DEF HasOf, Finds, GotAfter
<1>5. ASSUME NEW i \in steady, ~(i <= reader.cursor)  PROVE i \in List!After(reader.cursor)
  <2>1. i \in List!Listed /\ i \in Nat
    BY SteadyListed
  <2>2. i > reader.cursor
    BY <1>1, <1>5, <2>1
  <2>3. QED
    BY <2>1, <2>2 DEF List!After
<1>6. QED
  BY <1>1, <1>2, <1>3, <1>4, <1>5, RowsOf DEF GotAfter

\* A step of the reader alone keeps the invariant if what is known of it still holds.
LEMMA ReaderMoves ==
    ASSUME ListingInv, UNCHANGED <<items, steady>>, NEW c \in Readers, reader' = c,
           c.kind = reader.kind, ReaderSound(c)
    PROVE  ListingInv'
<1>1. ReaderSound(c)'
  BY DEF ReaderSound, Behind, HasOf, PlaceOf, List!Listed
<1>2. \A i \in steady : Stays(c.kind, i)'
  BY DEF ListingInv, Stays
<1>3. QED
  BY <1>1, <1>2 DEF ListingInv

\* The first request.
LEMMA BeginKeeps ==
    ASSUME List!ListingAssumption, ListingInv, List!Begin PROVE ListingInv'
<1>1. reader \in Readers /\ reader.phase = "idle" /\ reader.cursor = 0 /\ reader.seen = {}
      /\ (reader.kind \in List!Searching => reader.got \subseteq NamedItems)
  BY DEF List!Begin, ListingInv, ReaderSound
<1>2. /\ reader' \in Readers /\ reader'.phase = "reading" /\ reader'.kind = reader.kind
      /\ reader'.cursor = 0 /\ reader'.got = reader.got /\ reader'.seen = {}
  BY <1>1 DEF List!Begin, Readers, List!Phases
<1>3. items' = items /\ steady' \in ItemSets /\ \A i \in steady' : items[i] = "active"
  BY DEF List!Begin, ItemSets
<1>4. \A i \in Items : ~(i <= 0)
  BY DEF List!ListingAssumption
<1>5. \A i : ~(PlaceOf(i) < 0)
  <2>1. \A i : PlaceOf(i) \in Nat
    BY ListedItems, ItemsFinite DEF PlaceOf
  <2>2. QED
    BY <2>1
<1>6. \A i : PlaceOf(i)' = PlaceOf(i)
  BY <1>3 DEF PlaceOf, List!Listed
<1>7. \A i \in steady' : ~Behind(reader, i)'
  <2>1. TAKE i \in steady'
  <2>2. i \in Items
    BY <1>3 DEF ItemSets
  <2>3. ~(i <= reader'.cursor)
    BY <1>2, <1>4, <2>2
  <2>4. ~(PlaceOf(i)' < reader'.cursor)
    BY <1>2, <1>5, <1>6
  <2>5. QED
    BY <2>3, <2>4 DEF Behind
<1>8. ReaderSound(reader)'
  BY <1>1, <1>2, <1>7 DEF ReaderSound
<1>9. \A i \in steady' : Stays(reader.kind, i)'
  BY <1>3 DEF Stays
<1>10. items' \in [Items -> ItemStates]
  BY <1>3 DEF ListingInv
<1>11. QED
  BY <1>2, <1>3, <1>8, <1>9, <1>10 DEF ListingInv

\* A request fails.
LEMMA FailKeeps ==
    ASSUME List!ListingAssumption, ListingInv, List!ReadFails PROVE ListingInv'
<1>1. reader \in Readers /\ reader.phase = "reading" /\ ReaderSound(reader)
  BY DEF List!ReadFails, ListingInv
<1>2. PICK c : c = reader'
  OBVIOUS
<1>3. c \in Readers /\ c.phase = "raised" /\ c.kind = reader.kind /\ c.got = reader.got
  BY <1>1, <1>2 DEF List!ReadFails, Readers, List!Phases
<1>4. ReaderSound(c)
  BY <1>1, <1>3 DEF ReaderSound
<1>5. QED
  BY <1>2, <1>3, <1>4, ReaderMoves DEF List!ReadFails

\* A reader that goes on to another cursor, or ends, after a page.
LEMMA PageKeeps ==
    ASSUME List!ListingAssumption, ListingInv, UNCHANGED <<items, steady>>,
           reader.phase = "reading", reader.kind \notin List!Counting,
           NEW c \in Readers, reader' = c, c.kind = reader.kind, c.got = GotAfter(reader),
           \/ c.phase \in {"raised", "stopped"}
           \/ /\ c.phase = "returned" /\ List!After(reader.cursor) = List!Covered(reader.cursor)
              /\ c.kind \in List!Searching => Cardinality(c.got) = 1
           \/ /\ c.phase = "reading" /\ c.seen = reader.seen \cup {c.cursor}
              /\ \/ c.cursor \in reader.seen
                 \/ \A i \in List!After(reader.cursor) : i <= c.cursor => i \in List!Covered(reader.cursor)
    PROVE  ListingInv'
<1>1. c.kind \in List!Searching => c.got \subseteq NamedItems
  BY PageTaken
<1>2. \A i : Finds(reader, i) => HasOf(c, i)
  BY DEF Finds, HasOf
<1>3. c.phase = "returned" => \A i \in steady : HasOf(c, i)
  BY <1>2, PageTaken
<1>4. c.phase = "reading" =>
         /\ \A i \in steady : Behind(c, i) => HasOf(c, i)
         /\ \A n \in c.seen : \A i \in steady : i <= n => HasOf(c, i)
  <2>1. c.cursor \in Nat
    BY DEF Readers
  <2>2. \A n \in reader.seen : \A i \in steady : i <= n => Finds(reader, i)
    <3>1. \A i : HasOf(reader, i) => Finds(reader, i)
      BY DEF HasOf, Finds, GotAfter
    <3>2. \A n \in reader.seen : \A i \in steady : i <= n => HasOf(reader, i)
      BY DEF ListingInv, ReaderSound
    <3>3. QED
      BY <3>1, <3>2
  <2>3. c.phase = "reading" => \A i \in steady : i <= c.cursor => Finds(reader, i)
    BY <2>1, <2>2, PageTaken
  <2>4. c.phase = "reading" => \A n \in c.seen : \A i \in steady : i <= n => Finds(reader, i)
    BY <2>2, <2>3
  <2>5. QED
    BY <1>2, <2>3, <2>4 DEF Behind
<1>5. ReaderSound(c)
  BY <1>1, <1>3, <1>4 DEF ReaderSound
<1>6. QED
  BY <1>5, ReaderMoves

\* What a reader can do after a page.
LEMMA RememberCases ==
    ASSUME List!ListingAssumption, ListingInv, NEW sort, List!Remember(sort)
    PROVE  /\ reader.phase = "reading" /\ reader.kind = sort /\ UNCHANGED <<items, steady>>
           /\ \E next \in List!NextCursors(reader.cursor, reader.seen) :
                 \/ reader' = [reader EXCEPT !.phase = "raised", !.got = GotAfter(reader)]
                 \/ /\ next = None
                    /\ reader' = [reader EXCEPT !.phase = List!Outcome(reader.kind, GotAfter(reader)),
                                                !.got = GotAfter(reader)]
                 \/ /\ next # None /\ next \notin reader.seen
                    /\ reader' = [reader EXCEPT !.cursor = next, !.seen = @ \cup {next},
                                                !.got = GotAfter(reader)]
<1>1. List!Remember(reader.kind) /\ reader.kind = sort /\ reader.phase = "reading"
      /\ UNCHANGED <<items, steady>>
  BY DEF List!Remember
<1>2. PICK next \in List!NextCursors(reader.cursor, reader.seen) :
         reader' =
              IF reader.kind = "resolve" /\ List!Cardinality(GotAfter(reader)) > 1
              THEN [reader EXCEPT !.phase = "raised", !.got = GotAfter(reader)]
              ELSE IF List!Ends(next, List!Rows(reader.kind, reader.cursor))
              THEN [reader EXCEPT !.phase = List!Outcome(reader.kind, GotAfter(reader)), !.got = GotAfter(reader)]
              ELSE IF List!Repeats(next, reader.seen)
              THEN [reader EXCEPT !.phase = "raised", !.got = GotAfter(reader)]
              ELSE [reader EXCEPT !.cursor = next, !.seen = @ \cup {next}, !.got = GotAfter(reader)]
  BY Zenon DEF List!Remember, GotAfter
<1>3. QED
  BY <1>1, <1>2 DEF List!Ends, List!Repeats

\* A page of a reader that remembers cursors.
LEMMA RememberKeeps ==
    ASSUME List!ListingAssumption, ListingInv, NEW sort, sort \notin List!Counting,
           List!Remember(sort)
    PROVE  ListingInv'
<1>1. /\ reader \in Readers /\ reader.cursor \in Nat /\ reader.seen \in ItemSets
      /\ reader.phase = "reading" /\ reader.kind \notin List!Counting
      /\ reader.kind \in List!Kinds
      /\ UNCHANGED <<items, steady>>
  BY RememberCases DEF ListingInv, Readers
<1>2. GotAfter(reader) \in ItemSets
  BY <1>1, PageTaken
<1>3. PICK next \in List!NextCursors(reader.cursor, reader.seen) :
         \/ reader' = [reader EXCEPT !.phase = "raised", !.got = GotAfter(reader)]
         \/ /\ next = None
            /\ reader' = [reader EXCEPT !.phase = List!Outcome(reader.kind, GotAfter(reader)),
                                        !.got = GotAfter(reader)]
         \/ /\ next # None /\ next \notin reader.seen
            /\ reader' = [reader EXCEPT !.cursor = next, !.seen = @ \cup {next}, !.got = GotAfter(reader)]
  BY RememberCases
<1>4. PICK c : c = reader'
  OBVIOUS
<1>5. CASE reader' = [reader EXCEPT !.phase = "raised", !.got = GotAfter(reader)]
  <2>1. c \in Readers /\ c.kind = reader.kind /\ c.got = GotAfter(reader) /\ c.phase = "raised"
    BY <1>1, <1>2, <1>4, <1>5 DEF Readers, List!Phases
  <2>2. QED
    BY <1>1, <1>4, <2>1, PageKeeps
<1>6. CASE /\ next = None
           /\ reader' = [reader EXCEPT !.phase = List!Outcome(reader.kind, GotAfter(reader)),
                                       !.got = GotAfter(reader)]
  <2>1. /\ List!Outcome(reader.kind, GotAfter(reader)) \in {"returned", "raised"}
        /\ List!Outcome(reader.kind, GotAfter(reader)) = "returned" /\ reader.kind \in List!Searching
              => Cardinality(GotAfter(reader)) = 1
    BY ListSizes DEF List!Outcome
  <2>2. /\ c \in Readers /\ c.kind = reader.kind /\ c.got = GotAfter(reader)
        /\ c.phase = List!Outcome(reader.kind, GotAfter(reader))
    BY <1>1, <1>2, <1>4, <1>6, <2>1 DEF Readers, List!Phases
  <2>3. next \notin Nat /\ next \notin reader.seen
    BY <1>1, <1>6, ItemsFinite DEF List!ListingAssumption
  <2>4. List!After(reader.cursor) = List!Covered(reader.cursor)
    BY <1>1, <2>3, CursorCases
  <2>5. QED
    BY <1>1, <1>4, <2>1, <2>2, <2>4, PageKeeps
<1>7. CASE /\ next # None /\ next \notin reader.seen
           /\ reader' = [reader EXCEPT !.cursor = next, !.seen = @ \cup {next}, !.got = GotAfter(reader)]
  <2>1. /\ next \in List!Covered(reader.cursor) /\ next \in Nat
        /\ \A i \in List!After(reader.cursor) : i <= next => i \in List!Covered(reader.cursor)
    BY <1>1, <1>7, CursorCases
  <2>2. reader.seen \cup {next} \in ItemSets
    BY <1>1, <2>1, ListedItems DEF ItemSets
  <2>3. /\ c \in Readers /\ c.kind = reader.kind /\ c.got = GotAfter(reader)
        /\ c.phase = "reading" /\ c.cursor = next /\ c.seen = reader.seen \cup {next}
    BY <1>1, <1>2, <1>4, <1>7, <2>1, <2>2 DEF Readers, List!Phases
  <2>4. QED
    BY <1>1, <1>4, <2>1, <2>3, PageKeeps
<1>8. QED
  BY <1>3, <1>5, <1>6, <1>7

\* A page of a reader that compares a cursor with the last one.
LEMMA FollowKeeps ==
    ASSUME List!ListingAssumption, ListingInv, NEW sort \in List!Following, List!Follow(sort)
    PROVE  ListingInv'
<1>0. sort \notin List!Counting /\ sort \notin List!Searching
  BY DEF List!Following, List!Counting, List!Searching
<1>1. /\ reader \in Readers /\ reader.cursor \in Nat /\ reader.seen \in ItemSets
      /\ reader.phase = "reading" /\ reader.kind \notin List!Counting /\ reader.kind = sort
      /\ reader.kind \in List!Kinds
      /\ UNCHANGED <<items, steady>>
  BY <1>0 DEF ListingInv, Readers, List!Follow
<1>2. GotAfter(reader) \in ItemSets
  BY <1>1, PageTaken
<1>3. GotAfter(reader) = reader.got \cup List!Rows(sort, reader.cursor)
  BY <1>0, <1>1 DEF GotAfter, List!Taken
<1>4. PICK next \in List!NextCursors(reader.cursor, reader.seen) :
         reader' =
              IF List!Ends(next, List!Rows(sort, reader.cursor))
              THEN [reader EXCEPT !.phase = "returned", !.got = GotAfter(reader)]
              ELSE IF next = reader.cursor THEN [reader EXCEPT !.phase = "stopped", !.got = GotAfter(reader)]
              ELSE [reader EXCEPT !.cursor = next, !.seen = @ \cup {next}, !.got = GotAfter(reader)]
  BY <1>3, Zenon DEF List!Follow
<1>5. PICK c : c = reader'
  OBVIOUS
<1>6. reader.seen \subseteq Nat /\ None \notin Nat
  BY <1>1, ItemsFinite DEF List!ListingAssumption
<1>7. CASE next = None
  <2>1. reader' = [reader EXCEPT !.phase = "returned", !.got = GotAfter(reader)]
    BY <1>4, <1>7 DEF List!Ends
  <2>2. /\ c \in Readers /\ c.kind = reader.kind /\ c.got = GotAfter(reader)
        /\ c.phase = "returned"
    BY <1>1, <1>2, <1>5, <2>1 DEF Readers, List!Phases
  <2>3. List!After(reader.cursor) = List!Covered(reader.cursor)
    <3>1. next \notin Nat /\ next \notin reader.seen
      BY <1>6, <1>7
    <3>2. QED
      BY <1>1, <3>1, CursorCases
  <2>4. QED
    BY <1>0, <1>1, <1>5, <2>2, <2>3, PageKeeps
<1>8. CASE next # None /\ next = reader.cursor
  <2>1. reader' = [reader EXCEPT !.phase = "stopped", !.got = GotAfter(reader)]
    BY <1>4, <1>8 DEF List!Ends
  <2>2. /\ c \in Readers /\ c.kind = reader.kind /\ c.got = GotAfter(reader)
        /\ c.phase = "stopped"
    BY <1>1, <1>2, <1>5, <2>1 DEF Readers, List!Phases
  <2>3. QED
    BY <1>1, <1>5, <2>2, PageKeeps
<1>9. CASE next # None /\ next # reader.cursor
  <2>1. reader' = [reader EXCEPT !.cursor = next, !.seen = @ \cup {next}, !.got = GotAfter(reader)]
    BY <1>4, <1>9 DEF List!Ends
  <2>2. /\ next \in Items /\ next \in Nat
        /\ \/ next \in reader.seen
           \/ \A i \in List!After(reader.cursor) : i <= next => i \in List!Covered(reader.cursor)
    <3>1. List!Covered(reader.cursor) \in ItemSets
      BY ListedItems
    <3>2. QED
      BY <1>1, <1>6, <1>9, <3>1, CursorCases DEF ItemSets
  <2>3. reader.seen \cup {next} \in ItemSets
    BY <1>1, <2>2 DEF ItemSets
  <2>4. /\ c \in Readers /\ c.kind = reader.kind /\ c.got = GotAfter(reader)
        /\ c.phase = "reading" /\ c.cursor = next /\ c.seen = reader.seen \cup {next}
    BY <1>1, <1>2, <1>5, <2>1, <2>2, <2>3 DEF Readers, List!Phases
  <2>5. QED
    BY <1>1, <1>5, <2>2, <2>4, PageKeeps
<1>10. QED
  BY <1>7, <1>8, <1>9

\* A page by offset has the items at its places; the last one has all that are left.
LEMMA OffsetPage ==
    ASSUME List!ListingAssumption, NEW offset \in Nat, NEW i \in List!Listed
    PROVE  /\ PlaceOf(i) < offset + PageSize => PlaceOf(i) < offset \/ i \in List!RowsAt(offset)
           /\ PlaceOf(i) < Cardinality(List!Listed)
<1>. DEFINE P == { j \in List!Listed : j < i }
<1>1. P \in ItemSets /\ List!Listed \in ItemSets /\ PageSize \in Nat
  BY ListedItems DEF List!ListingAssumption
<1>2. i \in Nat
  BY <1>1, ItemsFinite
<1>3. P \subseteq List!Listed /\ i \notin P
  BY <1>2
<1>4. PlaceOf(i) = Cardinality(P) /\ List!Cardinality(P) = Cardinality(P)
  BY ListSizes DEF PlaceOf
<1>5. List!RowsAt(offset) = { k \in List!Listed :
          List!Cardinality({ j \in List!Listed : j < k }) \in offset .. offset + PageSize - 1 }
  BY DEF List!RowsAt
<1>. HIDE DEF P
<1>6. Cardinality(P) \in Nat /\ Cardinality(List!Listed) \in Nat
      /\ Cardinality(P) <= Cardinality(List!Listed) /\ Cardinality(P) # Cardinality(List!Listed)
  BY <1>1, <1>3, ItemsFinite
<1>7. Cardinality(P) < Cardinality(List!Listed)
  BY <1>6
<1>8. ASSUME Cardinality(P) < offset + PageSize, ~(Cardinality(P) < offset)
      PROVE  i \in List!RowsAt(offset)
  <2>1. Cardinality(P) \in offset .. offset + PageSize - 1
    BY <1>1, <1>6, <1>8
  <2>2. QED
    BY <1>4, <1>5, <2>1 DEF P
<1>9. QED
  BY <1>4, <1>7, <1>8

\* A page of a reader that counts.
LEMMA CountKeeps ==
    ASSUME List!ListingAssumption, ListingInv, NEW sort \in List!Counting, List!Count(sort)
    PROVE  ListingInv'
<1>. DEFINE got == reader.got \cup List!RowsAt(reader.cursor)
<1>0. sort \notin List!Searching
  BY DEF List!Counting, List!Searching
<1>1. /\ reader \in Readers /\ reader.cursor \in Nat /\ reader.got \in ItemSets
      /\ reader.phase = "reading" /\ reader.kind = sort /\ PageSize \in Nat
      /\ UNCHANGED <<items, steady>>
  BY DEF ListingInv, Readers, List!Count, List!ListingAssumption
<1>2. got \in ItemSets
  BY <1>1, ListedItems DEF ItemSets
<1>3. PICK next \in List!NextOffsets(reader.cursor) :
         reader' = IF next = None THEN [reader EXCEPT !.phase = "returned", !.got = got]
                    ELSE IF next <= reader.cursor THEN [reader EXCEPT !.phase = "stopped", !.got = got]
                    ELSE [reader EXCEPT !.cursor = next, !.got = got]
  BY DEF List!Count
<1>4. PICK c : c = reader'
  OBVIOUS
<1>5. \A i \in steady : PlaceOf(i) < reader.cursor + PageSize => i \in got
  <2>1. TAKE i \in steady
  <2>2. HAVE PlaceOf(i) < reader.cursor + PageSize
  <2>3. i \in List!Listed
    BY SteadyListed
  <2>4. CASE PlaceOf(i) < reader.cursor
    <3>1. HasOf(reader, i)
      BY <1>1, <2>4 DEF ListingInv, ReaderSound, Behind
    <3>2. QED
      BY <1>0, <1>1, <3>1 DEF HasOf
  <2>5. CASE ~(PlaceOf(i) < reader.cursor)
    BY <1>1, <2>2, <2>3, <2>5, OffsetPage
  <2>6. QED
    BY <2>4, <2>5
<1>. HIDE DEF got
<1>6. CASE next = None
  <2>1. c \in Readers /\ c.kind = sort /\ c.got = got /\ c.phase = "returned"
    BY <1>1, <1>2, <1>3, <1>4, <1>6 DEF Readers, List!Phases
  <2>2. Cardinality(List!Listed) <= reader.cursor + PageSize
    <3>1. None \notin Nat /\ List!Cardinality(List!Listed) = Cardinality(List!Listed)
      BY ListSizes DEF List!ListingAssumption
    <3>2. Cardinality(List!Listed) \in Nat
      BY ListedItems, ItemsFinite
    <3>3. reader.cursor # None /\ reader.cursor + PageSize # None
      BY <1>1, <3>1
    <3>4. ~(Cardinality(List!Listed) > reader.cursor + PageSize)
      BY <1>6, <3>1, <3>3 DEF List!NextOffsets
    <3>5. QED
      BY <1>1, <3>2, <3>4
  <2>3. \A i \in steady : i \in got
    <3>1. TAKE i \in steady
    <3>2. PlaceOf(i) < Cardinality(List!Listed)
      BY <1>1, SteadyListed, OffsetPage
    <3>3. Cardinality(List!Listed) \in Nat /\ PlaceOf(i) \in Nat
      BY ListedItems, ItemsFinite DEF PlaceOf
    <3>4. PlaceOf(i) < reader.cursor + PageSize
      BY <1>1, <2>2, <3>2, <3>3
    <3>5. QED
      BY <1>5, <3>4
  <2>4. ReaderSound(c)
    BY <1>0, <2>1, <2>3 DEF ReaderSound, HasOf
  <2>5. QED
    BY <1>1, <1>4, <2>1, <2>4, ReaderMoves
<1>7. CASE next # None /\ next <= reader.cursor
  <2>1. c \in Readers /\ c.kind = sort /\ c.got = got /\ c.phase = "stopped"
    BY <1>1, <1>2, <1>3, <1>4, <1>7 DEF Readers, List!Phases
  <2>2. ReaderSound(c)
    BY <1>0, <2>1 DEF ReaderSound
  <2>3. QED
    BY <1>1, <1>4, <2>1, <2>2, ReaderMoves
<1>8. CASE next # None /\ ~(next <= reader.cursor)
  <2>1. next = reader.cursor + PageSize /\ next \in Nat
    BY <1>1, <1>8 DEF List!NextOffsets
  <2>2. c \in Readers /\ c.kind = sort /\ c.got = got /\ c.phase = "reading" /\ c.cursor = next
    BY <1>1, <1>2, <1>3, <1>4, <1>8, <2>1 DEF Readers, List!Phases
  <2>3. ReaderSound(c)
    BY <1>0, <1>5, <2>1, <2>2 DEF ReaderSound, HasOf, Behind
  <2>4. QED
    BY <1>1, <1>4, <2>2, <2>3, ReaderMoves
<1>9. QED
  BY <1>6, <1>7, <1>8

\* An item appears: it is not one that was there, and the places of the others only grow.
LEMMA CreatedKeeps ==
    ASSUME List!ListingAssumption, ListingInv, NEW i \in Items, List!Created(i)
    PROVE  ListingInv'
<1>1. items[i] = "absent" /\ items' = [items EXCEPT ![i] = "active"] /\ reader' = reader /\ steady' = steady
      /\ items \in [Items -> ItemStates]
  BY DEF List!Created, ListingInv
<1>2. items' \in [Items -> ItemStates] /\ \A j \in Items : j # i => items'[j] = items[j]
  BY <1>1 DEF ItemStates
<1>3. i \notin steady /\ steady \subseteq Items
  BY <1>1 DEF ListingInv, Stays, ItemSets
<1>4. \A j \in steady : Stays(reader.kind, j)'
  BY <1>1, <1>2, <1>3 DEF ListingInv, Stays
<1>5. \A j \in steady : Behind(reader, j)' => Behind(reader, j)
  <2>1. TAKE j \in steady
  <2>2. List!Listed \subseteq List!Listed'
    BY <1>1, <1>2 DEF List!Listed
  <2>. DEFINE P == { k \in List!Listed : k < j }
              Q == { k \in List!Listed' : k < j }
  <2>3. P \subseteq Q /\ P \in ItemSets /\ Q \in ItemSets
    BY <2>2 DEF ItemSets, List!Listed
  <2>4. PlaceOf(j) = Cardinality(P) /\ PlaceOf(j)' = Cardinality(Q)
    BY DEF PlaceOf
  <2>. HIDE DEF P, Q
  <2>5. Cardinality(P) \in Nat /\ Cardinality(Q) \in Nat /\ Cardinality(P) <= Cardinality(Q)
    BY <2>3, ItemsFinite
  <2>6. reader.cursor \in Nat
    BY DEF ListingInv, Readers
  <2>7. PlaceOf(j)' < reader.cursor => PlaceOf(j) < reader.cursor
    BY <2>4, <2>5, <2>6
  <2>8. QED
    BY <1>1, <2>7 DEF Behind
<1>6. ReaderSound(reader)'
  BY <1>1, <1>5 DEF ListingInv, ReaderSound, HasOf
<1>7. QED
  BY <1>1, <1>2, <1>4, <1>6 DEF ListingInv

\* An item ends or goes: one that is gone is not steady, a workload stays listed.
LEMMA EndedKeeps ==
    ASSUME List!ListingAssumption, ListingInv, NEW i \in Items, List!Ended(i)
    PROVE  ListingInv'
<1>1. /\ items[i] \in {"active", "ended"} /\ reader' = reader
      /\ items[i] = "ended" => reader.kind \notin List!Counting
      /\ items' = [items EXCEPT ![i] = IF items[i] = "active" THEN "ended" ELSE "gone"]
      /\ steady' = IF reader.kind \in List!Counting THEN steady ELSE steady \ {i}
      /\ items \in [Items -> ItemStates]
  BY DEF List!Ended, ListingInv
<1>2. items' \in [Items -> ItemStates] /\ \A j \in Items : j # i => items'[j] = items[j]
  BY <1>1 DEF ItemStates
<1>3. items'[i] = IF items[i] = "active" THEN "ended" ELSE "gone"
  BY <1>1
<1>4. steady' \in ItemSets /\ steady' \subseteq steady
  BY <1>1 DEF ListingInv, ItemSets
<1>5. \A j \in steady' : Stays(reader.kind, j)'
  BY <1>1, <1>2, <1>3, <1>4 DEF ListingInv, Stays, ItemSets
<1>6. \A j \in steady' : Behind(reader, j)' => Behind(reader, j)
  <2>1. CASE reader.kind \in List!Counting
    <3>1. List!Listed' = List!Listed
      BY <1>1, <1>2, <1>3, <2>1 DEF List!Listed
    <3>2. QED
      BY <1>1, <3>1 DEF Behind, PlaceOf
  <2>2. CASE reader.kind \notin List!Counting
    BY <1>1, <2>2 DEF Behind
  <2>3. QED
    BY <2>1, <2>2
<1>7. ReaderSound(reader)'
  BY <1>1, <1>4, <1>6 DEF ListingInv, ReaderSound, HasOf
<1>8. QED
  BY <1>1, <1>2, <1>4, <1>5, <1>7 DEF ListingInv

LEMMA ListingInit == ASSUME List!ListingAssumption, List!Init PROVE ListingInv
<1>1. PICK sort \in List!Kinds :
         reader = [kind |-> sort, phase |-> "idle", cursor |-> 0, seen |-> {}, got |-> {}]
  BY DEF List!Init
<1>2. reader \in Readers /\ reader.phase = "idle" /\ reader.cursor = 0
      /\ reader.got = {} /\ reader.seen = {}
  BY <1>1 DEF Readers, List!Phases, ItemSets
<1>3. items \in [Items -> ItemStates] /\ steady = {}
  BY DEF List!Init, ItemStates
<1>4. QED
  BY <1>2, <1>3 DEF ListingInv, ReaderSound, ItemSets

\* Every step of a listing keeps the invariant.
LEMMA ListingPreserved ==
    ASSUME List!ListingAssumption, ListingInv, [List!Next]_(List!vars) PROVE ListingInv'
<1>1. CASE List!ReadPage
  <2>1. \A sort \in List!Noting \cup List!Searching : sort \notin List!Counting
    BY DEF List!Noting, List!Searching, List!Counting
  <2>2. ASSUME NEW sort \in List!Noting \cup List!Searching, List!Remember(sort)  PROVE ListingInv'
    BY <2>1, <2>2, RememberKeeps
  <2>3. \/ \E sort \in List!Noting \cup List!Searching : List!Remember(sort)
        \/ \E sort \in List!Following : List!Follow(sort)
        \/ \E sort \in List!Counting : List!Count(sort)
    BY <1>1 DEF List!ReadPage, List!ComputePage, List!ComputePageAsync, List!VolumesPage,
       List!VolumesPageAsync, List!RowsPage, List!RowsPageAsync, List!ConnectPage,
       List!ConnectPageAsync, List!ResolvePage, List!SandboxesPage, List!SandboxesPageAsync,
       List!AgentsPage, List!AgentsPageAsync, List!RunsPage, List!RunsPageAsync,
       List!WorkloadsPage, List!WorkloadsPageAsync,
       List!Noting, List!Searching, List!Following, List!Counting
  <2>4. QED
    BY <2>2, <2>3, FollowKeeps, CountKeeps
<1>2. CASE UNCHANGED List!vars
  BY <1>2 DEF List!vars, ListingInv, ReaderSound, Behind, HasOf, PlaceOf, List!Listed, Stays
<1>3. CASE (\E i \in Items : List!Created(i) \/ List!Ended(i)) \/ List!Begin \/ List!ReadFails
  BY <1>3, CreatedKeeps, EndedKeeps, BeginKeeps, FailKeeps
<1>4. QED
  BY <1>1, <1>2, <1>3 DEF List!Next

LEMMA ListingHolds == ASSUME ListingInv PROVE List!ListingComplete
<1>. SUFFICES ASSUME reader.phase = "returned"
              PROVE  IF reader.kind \notin List!Searching THEN steady \subseteq reader.got
                     ELSE /\ List!Cardinality(reader.got) = 1 /\ reader.got \subseteq NamedItems
                          /\ steady \cap NamedItems \subseteq reader.got
  BY DEF List!ListingComplete
<1>1. \A i \in steady : HasOf(reader, i)
  BY DEF ListingInv, ReaderSound
<1>2. reader.kind \in List!Searching => reader.got \subseteq NamedItems /\ Cardinality(reader.got) = 1
  BY DEF ListingInv, ReaderSound
<1>3. QED
  BY <1>1, <1>2, ListSizes DEF HasOf

\* A listing that returns has every item that was there from the first request to the last,
\* and a search the one of the name (_compute.py:96-105; _volumes.py:54-66;
\* _sandboxes.py:493-510).
THEOREM ListingsComplete ==
    ASSUME List!ListingAssumption
    PROVE  List!Spec => []List!ListingComplete
<1>1. List!Init => ListingInv
  BY ListingInit
<1>2. ListingInv /\ [List!Next]_(List!vars) => ListingInv'
  BY ListingPreserved
<1>3. ListingInv => List!ListingComplete
  BY ListingHolds
<1>4. QED
  BY <1>1, <1>2, <1>3, PTL DEF List!Spec

-----------------------------------------------------------------------------
(* Progress.  What was printed of each kind is an unbroken range that ends *)
(* at the position the display remembers.  In the last poll, a request     *)
(* that is done has brought everything, because the workload is over.      *)

\* The numbers of a kind in what was printed.
NumbersIn(p, sort) == { p[i][2] : i \in { j \in DOMAIN p : p[j][1] = sort } }

\* Nothing is printed twice or out of order.
Ascending(p) == \A i, j \in DOMAIN p : i < j /\ p[i][1] = p[j][1] => p[i][2] < p[j][2]

\* What a poll may have left to ask: in the last one, always for saved output.
WholePlans == {<<"events", "logs", "saved_logs">>, <<"logs", "saved_logs">>, <<"saved_logs">>, <<>>}
ShortPlans == {<<"events", "logs">>, <<"logs">>, <<>>}
DarkPlans  == {<<"events", "saved_logs">>, <<"saved_logs">>, <<>>}

EventsLeft(q) == q \in {<<"events", "logs", "saved_logs">>, <<"events", "logs">>, <<"events", "saved_logs">>}
LogsLeft(q) == q \in {<<"events", "logs", "saved_logs">>, <<"events", "logs">>, <<"logs", "saved_logs">>, <<"logs">>}

\* The numbers of a workload and what the display remembers of it.
WorkSound ==
    /\ work.base <= work.saved /\ work.saved <= work.output
    /\ work.over => work.saved = work.output

ViewSound ==
    /\ view.event <= work.events /\ view.chunk <= work.output
    /\ live # "served" => view.chunk = 0
    /\ live # "absent" => view.live
    /\ view.over => work.over
    /\ view.saved <= work.saved /\ view.attempt <= work.attempt
    /\ view.attempt # work.attempt => view.saved <= work.base

PrintedSound ==
    /\ Ascending(printed)
    /\ NumbersIn(printed, "events") = 1 .. view.event
    /\ NumbersIn(printed, "logs") = 1 .. view.chunk
    /\ \A n \in NumbersIn(printed, "saved_logs") : n <= view.saved
    /\ view.attempt = work.attempt =>
          (work.base + 1) .. view.saved \subseteq NumbersIn(printed, "saved_logs")

\* Where the poll is.
PlanSound ==
    /\ waiting.pc = "poll" => ~view.over
    /\ waiting.pc = "returned" => view.over /\ todo = <<>>
    /\ view.over => todo \in WholePlans \cup DarkPlans
    /\ ~view.over => todo \in ShortPlans \cup DarkPlans
    /\ view.over /\ todo \in DarkPlans /\ todo \notin WholePlans => ~view.live

\* What a request of the last poll has brought, once it was answered.
LastPollSound ==
    view.over /\ ~missed =>
        /\ ~EventsLeft(todo) => view.event = work.events
        /\ ~EventsLeft(todo) /\ ~LogsLeft(todo) /\ live = "served" => view.chunk = work.output
        /\ ~EventsLeft(todo) /\ ~LogsLeft(todo) /\ todo # <<>> /\ live # "served" =>
              ~view.live \/ view.empty
        /\ todo = <<>> /\ live # "served" =>
              work.base = work.output \/ (view.attempt = work.attempt /\ view.saved = work.saved)
Counts == 0 .. MaxEntries
AttemptsOf == 1 .. 2
AttemptsSeen == 0 .. 2
Marks == 1 .. MaxEntries
Works == [events : Counts, output : Counts, base : Counts, saved : Counts, attempt : AttemptsOf, over : Flags]
Views == [over : Flags, event : Counts, chunk : Counts, live : Flags, empty : Flags,
          attempt : AttemptsSeen, saved : Counts]

Deployments == {"served", "silent", "absent"}
PollPcs == {"poll", "requests", "returned"}
Waitings == [pc : PollPcs, rounds : Nat]
EntrySet == Shown!Kinds \X Nat
Prints == Seq(EntrySet)

ProgressInv ==
    /\ work \in Works /\ live \in Deployments /\ view \in Views
    /\ missed \in Flags /\ printed \in Prints
    /\ waiting \in Waitings
    /\ WorkSound /\ ViewSound /\ PrintedSound /\ PlanSound /\ LastPollSound

-----------------------------------------------------------------------------
\* The plans, from the longest.
PlanELS == <<"events", "logs", "saved_logs">>
PlanEL == <<"events", "logs">>
PlanES == <<"events", "saved_logs">>
PlanLS == <<"logs", "saved_logs">>
PlanL == <<"logs">>
PlanS == <<"saved_logs">>
PlanDone == <<>>
Plans == {PlanELS, PlanEL, PlanES, PlanLS, PlanL, PlanS, PlanDone}

LEMMA PlanFacts ==
    /\ Tail(PlanELS) = PlanLS /\ Tail(PlanLS) = PlanS /\ Tail(PlanS) = PlanDone
    /\ Tail(PlanEL) = PlanL /\ Tail(PlanL) = PlanDone /\ Tail(PlanES) = PlanS
    /\ Head(PlanELS) = "events" /\ Head(PlanLS) = "logs" /\ Head(PlanS) = "saved_logs"
    /\ Head(PlanEL) = "events" /\ Head(PlanL) = "logs" /\ Head(PlanES) = "events"
    /\ PlanELS # PlanEL /\ PlanELS # PlanES /\ PlanEL # PlanES /\ PlanLS # PlanL
    /\ \A q \in {PlanELS, PlanEL, PlanES, PlanLS, PlanL, PlanS} : q # PlanDone
<1>1. /\ Tail(PlanELS) = PlanLS /\ Tail(PlanLS) = PlanS /\ Tail(PlanS) = PlanDone
      /\ Tail(PlanEL) = PlanL /\ Tail(PlanL) = PlanDone /\ Tail(PlanES) = PlanS
  BY DEF PlanELS, PlanEL, PlanES, PlanLS, PlanL, PlanS, PlanDone
<1>2. /\ Head(PlanELS) = "events" /\ Head(PlanLS) = "logs" /\ Head(PlanS) = "saved_logs"
      /\ Head(PlanEL) = "events" /\ Head(PlanL) = "logs" /\ Head(PlanES) = "events"
  BY DEF PlanELS, PlanEL, PlanES, PlanLS, PlanL, PlanS
<1>3. /\ Len(PlanELS) = 3 /\ Len(PlanEL) = 2 /\ Len(PlanES) = 2 /\ Len(PlanLS) = 2
      /\ Len(PlanL) = 1 /\ Len(PlanS) = 1 /\ Len(PlanDone) = 0
  BY DEF PlanELS, PlanEL, PlanES, PlanLS, PlanL, PlanS, PlanDone
<1>4. PlanEL[2] = "logs" /\ PlanES[2] = "saved_logs"
  BY DEF PlanEL, PlanES
<1>5. PlanEL # PlanES
  BY <1>4
<1>6. PlanELS # PlanEL /\ PlanELS # PlanES /\ PlanLS # PlanL
  <2>1. Len(PlanELS) # Len(PlanEL) /\ Len(PlanELS) # Len(PlanES) /\ Len(PlanLS) # Len(PlanL)
    BY <1>3
  <2>2. QED
    BY <2>1, Zenon
<1>7. /\ PlanELS # PlanDone /\ PlanEL # PlanDone /\ PlanES # PlanDone
      /\ PlanLS # PlanDone /\ PlanL # PlanDone /\ PlanS # PlanDone
  BY <1>3
<1>8. QED
  BY <1>1, <1>2, <1>5, <1>6, <1>7, Zenon

\* The same plans by the kind of deployment, and by what they still ask.
LEMMA PlanSets ==
    /\ WholePlans = {PlanELS, PlanLS, PlanS, PlanDone}
    /\ ShortPlans = {PlanEL, PlanL, PlanDone}
    /\ DarkPlans = {PlanES, PlanS, PlanDone}
    /\ \A q : EventsLeft(q) <=> q \in {PlanELS, PlanEL, PlanES}
    /\ \A q : LogsLeft(q) <=> q \in {PlanELS, PlanEL, PlanLS, PlanL}
BY Zenon DEF WholePlans, ShortPlans, DarkPlans, EventsLeft, LogsLeft,
   PlanELS, PlanEL, PlanES, PlanLS, PlanL, PlanS, PlanDone

\* One request of a plan is answered.
LEMMA PlanStep ==
    ASSUME NEW q \in Plans, q # PlanDone
    PROVE  /\ q \in WholePlans => Tail(q) \in WholePlans
           /\ q \in ShortPlans => Tail(q) \in ShortPlans
           /\ q \in DarkPlans => Tail(q) \in DarkPlans
           /\ Tail(q) \in Plans /\ ~EventsLeft(Tail(q)) /\ Tail(q) # PlanES
           /\ Head(q) = "events" <=> EventsLeft(q)
           /\ Head(q) = "logs" <=> LogsLeft(q) /\ ~EventsLeft(q)
           /\ Head(q) = "events" => (LogsLeft(Tail(q)) <=> LogsLeft(q))
           /\ Head(q) = "events" => Tail(q) # PlanDone
           /\ Head(q) = "logs" => ~LogsLeft(Tail(q))
           /\ Head(q) = "saved_logs" => Tail(q) = PlanDone
           /\ EventsLeft(q) /\ ~LogsLeft(q) => q = PlanES
<1>1. q \in {PlanELS, PlanEL, PlanES, PlanLS, PlanL, PlanS}
  BY DEF Plans
<1>. HIDE DEF Plans
<1>2. PlanLS # PlanELS /\ PlanLS # PlanEL /\ PlanLS # PlanES /\ PlanLS # PlanS
  BY PlanFacts
<1>3. PlanL # PlanELS /\ PlanL # PlanEL /\ PlanL # PlanES /\ PlanL # PlanS
  BY PlanFacts
<1>4. PlanS # PlanELS /\ PlanS # PlanEL /\ PlanS # PlanES
  BY PlanFacts
<1>5. QED
  BY <1>1, <1>2, <1>3, <1>4, PlanFacts, PlanSets DEF Plans

-----------------------------------------------------------------------------
\* The entries of a page.
LEMMA PageOf ==
    ASSUME NEW k \in Shown!Kinds, NEW from \in Nat, NEW to \in Nat, from <= to
    PROVE  /\ Shown!Entries(k, from, to) \in Prints
           /\ Len(Shown!Entries(k, from, to)) = to - from
           /\ \A i \in 1 .. (to - from) : Shown!Entries(k, from, to)[i] = <<k, from + i>>
<1>. DEFINE e == [i \in 1 .. (to - from) |-> <<k, from + i>>]
<1>1. Shown!Entries(k, from, to) = e
  BY DEF Shown!Entries
<1>2. to - from \in Nat
  OBVIOUS
<1>3. \A i \in 1 .. (to - from) : <<k, from + i>> \in EntrySet
  BY DEF EntrySet
<1>4. e \in [1 .. (to - from) -> EntrySet]
  BY <1>3
<1>5. e \in Prints /\ Len(e) = to - from
  <2>. HIDE DEF e
  <2>. QED
    BY <1>2, <1>4 DEF Prints
<1>6. QED
  BY <1>1, <1>5

\* What is printed after this page.
Appended(p, k, from, to) == p \o Shown!Entries(k, from, to)

\* An entry of it is an old one, or one of the page.
LEMMA AppendedEntries ==
    ASSUME NEW p \in Prints, NEW k \in Shown!Kinds, NEW from \in Nat, NEW to \in Nat, from <= to
    PROVE  /\ Appended(p, k, from, to) \in Prints
           /\ Len(Appended(p, k, from, to)) = Len(p) + (to - from)
           /\ \A i \in 1 .. Len(p) : Appended(p, k, from, to)[i] = p[i]
           /\ \A i \in 1 .. (to - from) : Appended(p, k, from, to)[Len(p) + i] = <<k, from + i>>
<1>. DEFINE e == Shown!Entries(k, from, to)
<1>1. /\ e \in Prints /\ Len(e) = to - from
      /\ \A i \in 1 .. (to - from) : e[i] = <<k, from + i>>
  BY PageOf
<1>. HIDE DEF e
<1>2. p \in Seq(EntrySet) /\ e \in Seq(EntrySet)
  BY <1>1 DEF Prints
<1>3. p \o e \in Seq(EntrySet) /\ Len(p \o e) = Len(p) + Len(e)
  BY <1>2
<1>4. \A i \in 1 .. Len(p) : (p \o e)[i] = p[i]
  BY <1>2
<1>5. \A i \in 1 .. Len(e) : (p \o e)[Len(p) + i] = e[i]
  BY <1>2
<1>6. QED
  BY <1>1, <1>3, <1>4, <1>5 DEF Appended, Prints, e

\* A number of a kind is that of an entry.
LEMMA NumberAt ==
    ASSUME NEW p \in Prints, NEW k, NEW n
    PROVE  n \in NumbersIn(p, k) <=> \E i \in 1 .. Len(p) : p[i][1] = k /\ p[i][2] = n
<1>1. DOMAIN p = 1 .. Len(p)
  BY DEF Prints
<1>2. QED
  BY <1>1, Zenon DEF NumbersIn

\* A page beyond all that was printed of its kind keeps the order and adds its numbers.
LEMMA AppendedSound ==
    ASSUME NEW p \in Prints, NEW k \in Shown!Kinds, NEW from \in Nat, NEW to \in Nat, from <= to,
           Ascending(p), \A n \in NumbersIn(p, k) : n <= from
    PROVE  /\ Appended(p, k, from, to) \in Prints
           /\ Ascending(Appended(p, k, from, to))
           /\ NumbersIn(Appended(p, k, from, to), k) = NumbersIn(p, k) \cup ((from + 1) .. to)
           /\ \A other \in Shown!Kinds \ {k} :
                 NumbersIn(Appended(p, k, from, to), other) = NumbersIn(p, other)
<1>. DEFINE q == Appended(p, k, from, to)
            d == to - from
<1>1. d \in Nat /\ q \in Prints /\ Len(p) \in Nat /\ Len(q) = Len(p) + d
  BY AppendedEntries DEF Prints
<1>2. \A i \in 1 .. Len(p) : q[i] = p[i]
  BY AppendedEntries
<1>3. \A i \in 1 .. d : q[Len(p) + i] = <<k, from + i>>
  BY AppendedEntries
<1>. HIDE DEF q, d
<1>4. \A i \in 1 .. Len(q) : i \in 1 .. Len(p) \/ \E j \in 1 .. d : i = Len(p) + j
  <2>1. TAKE i \in 1 .. Len(q)
  <2>2. CASE i \notin 1 .. Len(p)
    <3>1. i - Len(p) \in 1 .. d /\ i = Len(p) + (i - Len(p))
      BY <1>1, <2>2
    <3>2. QED
      BY <3>1
  <2>3. QED
    BY <2>2
<1>5. \A i \in 1 .. Len(p) : p[i][1] \in Shown!Kinds /\ p[i][2] \in Nat
  BY DEF Prints, EntrySet
<1>6. \A i \in 1 .. Len(p) : p[i][1] = k => p[i][2] <= from
  <2>1. TAKE i \in 1 .. Len(p)
  <2>2. HAVE p[i][1] = k
  <2>3. p[i][2] \in NumbersIn(p, k)
    BY <2>2, NumberAt
  <2>4. QED
    BY <2>3
<1>7. Ascending(q)
  <2>1. DOMAIN q = 1 .. Len(q) /\ DOMAIN p = 1 .. Len(p)
    BY <1>1 DEF Prints
  <2>2. SUFFICES ASSUME NEW i \in 1 .. Len(q), NEW j \in 1 .. Len(q), i < j, q[i][1] = q[j][1]
                 PROVE  q[i][2] < q[j][2]
    BY <2>1 DEF Ascending
  <2>3. CASE j \in 1 .. Len(p)
    <3>1. i \in 1 .. Len(p)
      BY <1>1, <2>2, <2>3
    <3>2. QED
      BY <1>2, <2>1, <2>2, <2>3, <3>1 DEF Ascending
  <2>4. CASE i \in 1 .. Len(p) /\ j \notin 1 .. Len(p)
    <3>1. PICK m \in 1 .. d : j = Len(p) + m
      BY <1>4, <2>4
    <3>2. q[j] = <<k, from + m>> /\ q[i] = p[i]
      BY <1>2, <1>3, <2>4, <3>1
    <3>3. p[i][1] = k /\ q[j][2] = from + m /\ m \in Nat /\ m > 0
      BY <1>1, <2>2, <3>1, <3>2
    <3>4. p[i][2] <= from /\ p[i][2] \in Nat
      BY <1>5, <1>6, <2>4, <3>3
    <3>5. QED
      BY <3>2, <3>3, <3>4
  <2>5. CASE i \notin 1 .. Len(p)
    <3>1. PICK l \in 1 .. d : i = Len(p) + l
      BY <1>4, <2>5
    <3>2. PICK m \in 1 .. d : j = Len(p) + m
      <4>1. j \notin 1 .. Len(p)
        BY <1>1, <2>2, <3>1
      <4>2. QED
        BY <1>4, <4>1
    <3>3. q[i][2] = from + l /\ q[j][2] = from + m
      BY <1>3, <3>1, <3>2
    <3>4. l < m
      BY <1>1, <2>2, <3>1, <3>2
    <3>5. QED
      BY <3>1, <3>2, <3>3, <3>4
  <2>6. QED
    BY <2>3, <2>4, <2>5
<1>8. ASSUME NEW n  PROVE n \in NumbersIn(q, k) <=> n \in NumbersIn(p, k) \/ n \in (from + 1) .. to
  <2>1. ASSUME n \in NumbersIn(q, k)  PROVE n \in NumbersIn(p, k) \/ n \in (from + 1) .. to
    <3>1. PICK i \in 1 .. Len(q) : q[i][1] = k /\ q[i][2] = n
      BY <1>1, <2>1, NumberAt
    <3>2. CASE i \in 1 .. Len(p)
      BY <1>2, <3>1, <3>2, NumberAt
    <3>3. CASE i \notin 1 .. Len(p)
      <4>1. PICK j \in 1 .. d : i = Len(p) + j
        BY <1>4, <3>3
      <4>2. n = from + j
        BY <1>3, <3>1, <4>1
      <4>3. QED
        BY <4>2 DEF d
    <3>4. QED
      BY <3>2, <3>3
  <2>2. ASSUME n \in NumbersIn(p, k)  PROVE n \in NumbersIn(q, k)
    <3>1. PICK i \in 1 .. Len(p) : p[i][1] = k /\ p[i][2] = n
      BY <2>2, NumberAt
    <3>2. i \in 1 .. Len(q) /\ q[i] = p[i]
      BY <1>1, <1>2
    <3>3. QED
      BY <1>1, <3>1, <3>2, NumberAt
  <2>3. ASSUME n \in (from + 1) .. to  PROVE n \in NumbersIn(q, k)
    <3>1. n - from \in 1 .. d /\ from + (n - from) = n
      BY <2>3 DEF d
    <3>2. Len(p) + (n - from) \in 1 .. Len(q)
      BY <1>1, <3>1
    <3>3. q[Len(p) + (n - from)] = <<k, n>>
      BY <1>3, <3>1
    <3>4. QED
      BY <1>1, <3>2, <3>3, NumberAt
  <2>4. QED
    BY <2>1, <2>2, <2>3
<1>9. ASSUME NEW other \in Shown!Kinds \ {k}, NEW n
      PROVE  n \in NumbersIn(q, other) <=> n \in NumbersIn(p, other)
  <2>1. ASSUME n \in NumbersIn(q, other)  PROVE n \in NumbersIn(p, other)
    <3>1. PICK i \in 1 .. Len(q) : q[i][1] = other /\ q[i][2] = n
      BY <1>1, <2>1, NumberAt
    <3>2. i \in 1 .. Len(p)
      <4>1. SUFFICES ASSUME i \notin 1 .. Len(p)  PROVE FALSE
        OBVIOUS
      <4>2. PICK j \in 1 .. d : i = Len(p) + j
        BY <1>4, <4>1
      <4>3. q[i][1] = k
        BY <1>3, <4>2
      <4>4. QED
        BY <3>1, <4>3
    <3>3. QED
      BY <1>2, <3>1, <3>2, NumberAt
  <2>2. ASSUME n \in NumbersIn(p, other)  PROVE n \in NumbersIn(q, other)
    <3>1. PICK i \in 1 .. Len(p) : p[i][1] = other /\ p[i][2] = n
      BY <2>2, NumberAt
    <3>2. i \in 1 .. Len(q) /\ q[i] = p[i]
      BY <1>1, <1>2
    <3>3. QED
      BY <1>1, <3>1, <3>2, NumberAt
  <2>3. QED
    BY <2>1, <2>2
<1>10. QED
  BY <1>1, <1>7, <1>8, <1>9 DEF q

-----------------------------------------------------------------------------
\* What the workload may do between two requests.
WorkMoves(w) ==
    /\ w.events >= work.events /\ w.output >= work.output /\ w.saved >= work.saved
    /\ w.base <= w.saved /\ w.saved <= w.output
    /\ w.over => w.saved = w.output
    /\ \/ w.attempt = work.attempt /\ w.base = work.base
       \/ w.attempt = 2 /\ work.attempt = 1 /\ w.base = work.output

\* Fields of the records are numbers.
LEMMA ProgressNumbers ==
    ASSUME Shown!ProgressAssumption
    PROVE  /\ \A w \in Works : /\ w.events \in Nat /\ w.output \in Nat /\ w.base \in Nat
                               /\ w.saved \in Nat /\ w.attempt \in 1 .. 2
           /\ \A v \in Views : /\ v.event \in Nat /\ v.chunk \in Nat /\ v.saved \in Nat
                               /\ v.attempt \in 0 .. 2
BY DEF Shown!ProgressAssumption, Works, Views, Counts, AttemptsOf, AttemptsSeen

LEMMA WorkKeeps ==
    ASSUME Shown!ProgressAssumption, ProgressInv, ~work.over, NEW w \in Works, work' = w,
           WorkMoves(w), UNCHANGED <<live, view, todo, missed, printed, waiting>>
    PROVE  ProgressInv'
<1>1. /\ work.events \in Nat /\ work.output \in Nat /\ work.base \in Nat /\ work.saved \in Nat
      /\ work.attempt \in 1 .. 2
      /\ w.events \in Nat /\ w.output \in Nat /\ w.base \in Nat /\ w.saved \in Nat
      /\ view.event \in Nat /\ view.chunk \in Nat /\ view.saved \in Nat /\ view.attempt \in 0 .. 2
  BY ProgressNumbers DEF ProgressInv
<1>2. ~view.over
  BY DEF ProgressInv, ViewSound
<1>3. WorkSound'
  BY DEF WorkMoves, WorkSound
<1>4. /\ view.event <= work.events /\ view.chunk <= work.output /\ view.saved <= work.saved
      /\ view.attempt <= work.attempt /\ (view.attempt # work.attempt => view.saved <= work.base)
      /\ work.base <= work.saved /\ work.saved <= work.output
  BY DEF ProgressInv, ViewSound, WorkSound
<1>5. /\ view.event <= w.events /\ view.chunk <= w.output /\ view.saved <= w.saved
      /\ view.attempt <= w.attempt /\ (view.attempt # w.attempt => view.saved <= w.base)
      /\ view.attempt = w.attempt => work.attempt = w.attempt /\ w.base = work.base
  BY <1>1, <1>4 DEF WorkMoves
<1>6. ViewSound'
  BY <1>2, <1>5 DEF ProgressInv, ViewSound
<1>7. PrintedSound'
  BY <1>5 DEF ProgressInv, PrintedSound
<1>8. PlanSound' /\ LastPollSound'
  BY <1>2 DEF ProgressInv, PlanSound, LastPollSound
<1>9. QED
  BY <1>3, <1>6, <1>7, <1>8 DEF ProgressInv

\* The workload goes on.
LEMMA WorksKeeps ==
    ASSUME Shown!ProgressAssumption, ProgressInv, Shown!Works PROVE ProgressInv'
<1>1. /\ work \in Works /\ ~work.over /\ UNCHANGED <<live, view, todo, missed, printed, waiting>>
      /\ work.base <= work.saved /\ work.saved <= work.output
  BY DEF ProgressInv, WorkSound, Shown!Works
<1>2. /\ work.events \in Nat /\ work.output \in Nat /\ work.base \in Nat /\ work.saved \in Nat
      /\ work.attempt \in 1 .. 2 /\ MaxEntries \in Nat
  BY <1>1, ProgressNumbers DEF Shown!ProgressAssumption
<1>3. PICK w : w = work'
  OBVIOUS
<1>4. CASE work.events < MaxEntries /\ work' = [work EXCEPT !.events = @ + 1]
  <2>1. /\ w \in Works /\ w.events = work.events + 1 /\ w.output = work.output /\ w.saved = work.saved
        /\ w.base = work.base /\ w.attempt = work.attempt /\ w.over = work.over
    <3>1. work.events + 1 \in Counts
      BY <1>2, <1>4 DEF Counts
    <3>2. QED
      BY <1>1, <1>3, <1>4, <3>1 DEF Works
  <2>2. WorkMoves(w)
    BY <1>1, <1>2, <2>1 DEF WorkMoves
  <2>3. QED
    BY <1>1, <1>3, <2>1, <2>2, WorkKeeps
<1>5. CASE work.output < MaxEntries /\ work' = [work EXCEPT !.output = @ + 1]
  <2>1. /\ w \in Works /\ w.events = work.events /\ w.output = work.output + 1 /\ w.saved = work.saved
        /\ w.base = work.base /\ w.attempt = work.attempt /\ w.over = work.over
    <3>1. work.output + 1 \in Counts
      BY <1>2, <1>5 DEF Counts
    <3>2. QED
      BY <1>1, <1>3, <1>5, <3>1 DEF Works
  <2>2. WorkMoves(w)
    BY <1>1, <1>2, <2>1 DEF WorkMoves
  <2>3. QED
    BY <1>1, <1>3, <2>1, <2>2, WorkKeeps
<1>6. CASE work' = [work EXCEPT !.saved = work.output]
  <2>1. /\ w \in Works /\ w.events = work.events /\ w.output = work.output /\ w.saved = work.output
        /\ w.base = work.base /\ w.attempt = work.attempt /\ w.over = work.over
    BY <1>1, <1>3, <1>6 DEF Works
  <2>2. WorkMoves(w)
    BY <1>1, <1>2, <2>1 DEF WorkMoves
  <2>3. QED
    BY <1>1, <1>3, <2>1, <2>2, WorkKeeps
<1>7. CASE /\ work.attempt = 1
           /\ work' = [work EXCEPT !.attempt = 2, !.base = work.output, !.saved = work.output]
  <2>1. /\ w \in Works /\ w.events = work.events /\ w.output = work.output /\ w.saved = work.output
        /\ w.base = work.output /\ w.attempt = 2 /\ w.over = work.over
    <3>1. 2 \in AttemptsOf
      BY DEF AttemptsOf
    <3>2. QED
      BY <1>1, <1>3, <1>7, <3>1 DEF Works
  <2>2. WorkMoves(w)
    BY <1>1, <1>2, <1>7, <2>1 DEF WorkMoves
  <2>3. QED
    BY <1>1, <1>3, <2>1, <2>2, WorkKeeps
<1>8. CASE work' = [work EXCEPT !.over = TRUE, !.saved = work.output]
  <2>1. /\ w \in Works /\ w.events = work.events /\ w.output = work.output /\ w.saved = work.output
        /\ w.base = work.base /\ w.attempt = work.attempt
    <3>1. TRUE \in Flags
      BY DEF Flags
    <3>2. QED
      BY <1>1, <1>3, <1>8, <3>1 DEF Works
  <2>2. WorkMoves(w)
    BY <1>1, <1>2, <2>1 DEF WorkMoves
  <2>3. QED
    BY <1>1, <1>3, <2>1, <2>2, WorkKeeps
<1>9. QED
  BY <1>4, <1>5, <1>6, <1>7, <1>8 DEF Shown!Works

\* Sequences with the same elements are the same.
LEMMA SeqSame ==
    ASSUME NEW S, NEW s \in Seq(S), NEW t \in Seq(S), Len(s) = Len(t),
           \A i \in 1 .. Len(s) : s[i] = t[i]
    PROVE  s = t
BY SMT

\* Short sequences are joined.
LEMMA JoinTwo == ASSUME NEW x, NEW y PROVE <<x>> \o <<y>> = <<x, y>>
<1>. DEFINE S == {x, y}
            s == <<x>> \o <<y>>
            t == <<x, y>>
<1>1. s \in Seq(S) /\ Len(s) = 2 /\ s[1] = x /\ s[2] = y
  OBVIOUS
<1>2. t \in Seq(S) /\ Len(t) = 2 /\ t[1] = x /\ t[2] = y
  OBVIOUS
<1>. HIDE DEF s, t
<1>3. \A i \in 1 .. Len(s) : s[i] = t[i]
  BY <1>1, <1>2
<1>4. s = t
  BY <1>1, <1>2, <1>3, SeqSame
<1>5. QED
  BY <1>4 DEF s, t

LEMMA JoinThree == ASSUME NEW x, NEW y, NEW z PROVE <<x, y>> \o <<z>> = <<x, y, z>>
<1>. DEFINE S == {x, y, z}
            s == <<x, y>> \o <<z>>
            t == <<x, y, z>>
<1>1. s \in Seq(S) /\ Len(s) = 3 /\ s[1] = x /\ s[2] = y /\ s[3] = z
  OBVIOUS
<1>2. t \in Seq(S) /\ Len(t) = 3 /\ t[1] = x /\ t[2] = y /\ t[3] = z
  OBVIOUS
<1>. HIDE DEF s, t
<1>3. \A i \in 1 .. Len(s) : s[i] = t[i]
  BY <1>1, <1>2
<1>4. s = t
  BY <1>1, <1>2, <1>3, SeqSame
<1>5. QED
  BY <1>4 DEF s, t

LEMMA JoinNone == ASSUME NEW S, NEW s \in Seq(S) PROVE s \o <<>> = s
BY SMT

\* What a poll asks for.
LEMMA PollAsks ==
    ASSUME NEW over
    PROVE  /\ view.live /\ over => Shown!Requests(over) = PlanELS
           /\ view.live /\ ~over => Shown!Requests(over) = PlanEL
           /\ ~view.live => Shown!Requests(over) = PlanES
<1>1. <<"events">> \o <<"logs">> \o <<"saved_logs">> = PlanELS
  <2>1. <<"events">> \o <<"logs">> = <<"events", "logs">>
    BY JoinTwo
  <2>2. <<"events", "logs">> \o <<"saved_logs">> = <<"events", "logs", "saved_logs">>
    BY JoinThree
  <2>3. QED
    BY <2>1, <2>2, Zenon DEF PlanELS
<1>2. <<"events">> \o <<"logs">> \o <<>> = PlanEL
  <2>1. <<"events">> \o <<"logs">> = <<"events", "logs">>
    BY JoinTwo
  <2>2. <<"events", "logs">> \o <<>> = <<"events", "logs">>
    BY JoinNone
  <2>3. QED
    BY <2>1, <2>2, Zenon DEF PlanEL
<1>3. <<"events">> \o <<>> \o <<"saved_logs">> = PlanES
  <2>1. <<"events">> \o <<>> = <<"events">>
    BY JoinNone
  <2>2. <<"events">> \o <<"saved_logs">> = <<"events", "saved_logs">>
    BY JoinTwo
  <2>3. QED
    BY <2>1, <2>2, Zenon DEF PlanES
<1>4. CASE view.live /\ over
  BY <1>1, <1>4, Zenon DEF Shown!Requests
<1>5. CASE view.live /\ ~over
  BY <1>2, <1>5, Zenon DEF Shown!Requests
<1>6. CASE ~view.live
  BY <1>3, <1>6, Zenon DEF Shown!Requests
<1>7. QED
  BY <1>4, <1>5, <1>6

\* A poll begins.
LEMMA PollKeeps ==
    ASSUME Shown!ProgressAssumption, ProgressInv, Shown!Poll PROVE ProgressInv'
<1>1. /\ view \in Views /\ work \in Works /\ waiting \in Waitings /\ UNCHANGED <<work, live, printed>>
      /\ waiting.pc = "poll" /\ missed' = FALSE /\ todo' = Shown!Requests(work.over)
      /\ view' = [view EXCEPT !.over = work.over]
  BY DEF ProgressInv, Shown!Poll
<1>2. /\ view' \in Views /\ view'.over = work.over /\ view'.event = view.event
      /\ view'.chunk = view.chunk /\ view'.live = view.live /\ view'.saved = view.saved
      /\ view'.attempt = view.attempt
  BY <1>1 DEF Views, Works
<1>3. waiting' \in Waitings /\ waiting'.pc = "requests"
  <2>1. waiting.rounds + (IF work.over THEN 0 ELSE 1) \in Nat
    BY <1>1 DEF Waitings
  <2>2. waiting' = [pc |-> "requests", rounds |-> waiting.rounds + (IF work.over THEN 0 ELSE 1)]
    BY DEF Shown!Poll
  <2>3. QED
    BY <2>1, <2>2 DEF Waitings, PollPcs
<1>4. /\ todo' \in {PlanELS, PlanEL, PlanES}
      /\ todo' = PlanELS => work.over
      /\ todo' = PlanEL => ~work.over
      /\ todo' = PlanES => ~view.live
  BY <1>1, PollAsks, PlanFacts
<1>5. EventsLeft(todo') /\ todo' # <<>>
  BY <1>4, PlanSets, PlanFacts DEF PlanDone
<1>6. ViewSound'
  BY <1>1, <1>2 DEF ProgressInv, ViewSound
<1>7. PrintedSound'
  BY <1>1, <1>2 DEF ProgressInv, PrintedSound
<1>8. PlanSound'
  <2>1. view'.over => todo' \in WholePlans \cup DarkPlans
    BY <1>2, <1>4, PlanSets
  <2>2. ~view'.over => todo' \in ShortPlans \cup DarkPlans
    BY <1>2, <1>4, PlanSets
  <2>3. todo' \in DarkPlans /\ todo' \notin WholePlans => ~view'.live
    BY <1>2, <1>4, PlanSets, PlanFacts
  <2>4. QED
    BY <1>3, <2>1, <2>2, <2>3 DEF PlanSound
<1>9. LastPollSound'
  BY <1>5 DEF LastPollSound
<1>10. missed' \in Flags
  BY <1>1 DEF Flags
<1>11. QED
  BY <1>1, <1>2, <1>3, <1>6, <1>7, <1>8, <1>9, <1>10 DEF ProgressInv, WorkSound

\* What is left to ask, before and after a request.
LEMMA AskingPlan ==
    ASSUME ProgressInv, waiting.pc = "requests", todo # <<>>
    PROVE  /\ todo \in Plans /\ todo # PlanDone
           /\ view.over => Tail(todo) \in WholePlans \cup DarkPlans
           /\ ~view.over => Tail(todo) \in ShortPlans \cup DarkPlans
           /\ ~(Tail(todo) \in DarkPlans /\ Tail(todo) \notin WholePlans)
<1>1. todo \in WholePlans \cup ShortPlans \cup DarkPlans
  BY DEF ProgressInv, PlanSound
<1>2. todo \in Plans /\ todo # PlanDone
  BY <1>1, PlanSets DEF Plans, PlanDone
<1>3. view.over => Tail(todo) \in WholePlans \cup DarkPlans
  BY <1>2, PlanStep DEF ProgressInv, PlanSound
<1>4. ~view.over => Tail(todo) \in ShortPlans \cup DarkPlans
  BY <1>2, PlanStep DEF ProgressInv, PlanSound
<1>5. Tail(todo) # PlanES
  BY <1>2, PlanStep
<1>6. QED
  BY <1>2, <1>3, <1>4, <1>5, PlanSets

\* The plan after a request, which is asked again or done.
LEMMA PlanGoesOn ==
    ASSUME ProgressInv, waiting.pc = "requests", todo # <<>>,
           view'.over = view.over, view.live \/ ~view'.live, waiting' = waiting,
           todo' = todo \/ todo' = Tail(todo)
    PROVE  PlanSound'
<1>1. PlanSound
  BY DEF ProgressInv
<1>2. CASE todo' = todo
  BY <1>1, <1>2 DEF PlanSound
<1>3. CASE todo' = Tail(todo)
  BY <1>3, AskingPlan DEF PlanSound
<1>4. QED
  BY <1>2, <1>3

\* The numbers that a request meets.
LEMMA AskingNumbers ==
    ASSUME Shown!ProgressAssumption, ProgressInv
    PROVE  /\ work.events \in Nat /\ work.output \in Nat /\ work.base \in Nat /\ work.saved \in Nat
           /\ view.event \in Nat /\ view.chunk \in Nat /\ view.saved \in Nat
           /\ view.event <= work.events /\ view.chunk <= work.output /\ view.saved <= work.saved
           /\ work.base <= work.saved /\ work.saved <= work.output
           /\ EntryPage \in Nat /\ EntryPage > 0 /\ MaxEntries \in Nat
           /\ work.events <= MaxEntries /\ work.output <= MaxEntries
<1>1. work \in Works /\ view \in Views
  BY DEF ProgressInv
<1>2. work.events <= MaxEntries /\ work.output <= MaxEntries
  BY <1>1 DEF Works, Counts
<1>3. QED
  BY <1>1, <1>2, ProgressNumbers DEF ProgressInv, ViewSound, WorkSound, Shown!ProgressAssumption

\* Where a page ends: with the entries there are, or later than it began.
PageStop(have, at) == IF have < at + EntryPage THEN have ELSE at + EntryPage

LEMMA PageStops ==
    ASSUME Shown!ProgressAssumption, NEW have \in Nat, NEW at \in Nat, at <= have, have <= MaxEntries
    PROVE  /\ PageStop(have, at) \in Counts /\ PageStop(have, at) \in Nat
           /\ at <= PageStop(have, at) /\ PageStop(have, at) <= have
           /\ ~(PageStop(have, at) > at) => have = at
BY DEF Shown!ProgressAssumption, PageStop, Counts

\* What remains to be asked after a request of the last poll.
LEMMA LastPlan ==
    ASSUME ProgressInv, waiting.pc = "requests", todo # <<>>, view.over
    PROVE  /\ LogsLeft(todo) => Tail(todo) # <<>>
           /\ EventsLeft(todo) /\ ~LogsLeft(todo) => ~view.live
<1>1. todo \in Plans /\ todo # PlanDone /\ todo \in WholePlans \cup DarkPlans
  BY AskingPlan DEF ProgressInv, PlanSound
<1>2. LogsLeft(todo) => todo \in {PlanELS, PlanLS}
  BY <1>1, PlanSets, PlanFacts
<1>3. PlanLS # PlanDone /\ PlanS # PlanDone
  BY PlanFacts
<1>4. LogsLeft(todo) => Tail(todo) # PlanDone
  BY <1>2, <1>3, PlanFacts
<1>5. EventsLeft(todo) /\ ~LogsLeft(todo) => todo \in DarkPlans /\ todo \notin WholePlans
  BY <1>1, PlanSets, PlanFacts, PlanStep
<1>6. QED
  BY <1>4, <1>5 DEF ProgressInv, PlanSound, PlanDone

\* A page of events.
LEMMA EventsKeep ==
    ASSUME Shown!ProgressAssumption, ProgressInv, Shown!TakeEvents PROVE ProgressInv'
<1>. DEFINE last == PageStop(work.events, view.event)
<1>1. /\ waiting.pc = "requests" /\ todo # <<>> /\ Head(todo) = "events"
      /\ UNCHANGED <<work, live, missed, waiting>>
      /\ view' = [view EXCEPT !.event = last]
      /\ printed' = Appended(printed, "events", view.event, last)
      /\ todo' = todo \/ todo' = Tail(todo)
      /\ todo' # todo => ~(view.over /\ last > view.event)
      /\ view.over /\ last > view.event => todo' = todo
  BY DEF Shown!TakeEvents, Shown!Asking, Shown!Again, PageStop, Appended
<1>2. /\ last \in Counts /\ last \in Nat /\ view.event <= last /\ last <= work.events
      /\ ~(last > view.event) => work.events = view.event
  BY AskingNumbers, PageStops
<1>. HIDE DEF last
<1>3. view \in Views /\ work \in Works /\ view.event \in Nat /\ work.events \in Nat
      /\ printed \in Prints
  BY AskingNumbers DEF ProgressInv
<1>4. /\ view' \in Views /\ view'.over = view.over /\ view'.event = last
      /\ view'.chunk = view.chunk /\ view'.live = view.live /\ view'.saved = view.saved
      /\ view'.attempt = view.attempt /\ view'.empty = view.empty
  BY <1>1, <1>2, <1>3 DEF Views
<1>5. ViewSound'
  BY <1>1, <1>2, <1>4 DEF ProgressInv, ViewSound
<1>6. printed' \in Prints /\ PrintedSound'
  <2>1. Ascending(printed) /\ NumbersIn(printed, "events") = 1 .. view.event
        /\ NumbersIn(printed, "logs") = 1 .. view.chunk
        /\ (\A n \in NumbersIn(printed, "saved_logs") : n <= view.saved)
        /\ (view.attempt = work.attempt =>
               (work.base + 1) .. view.saved \subseteq NumbersIn(printed, "saved_logs"))
    BY DEF ProgressInv, PrintedSound
  <2>2. \A n \in NumbersIn(printed, "events") : n <= view.event
    BY <1>3, <2>1
  <2>3. {"events", "logs", "saved_logs"} \subseteq Shown!Kinds
    BY DEF Shown!Kinds
  <2>4. /\ printed' \in Prints /\ Ascending(printed')
        /\ NumbersIn(printed', "events") = NumbersIn(printed, "events") \cup ((view.event + 1) .. last)
        /\ NumbersIn(printed', "logs") = NumbersIn(printed, "logs")
        /\ NumbersIn(printed', "saved_logs") = NumbersIn(printed, "saved_logs")
    BY <1>1, <1>2, <1>3, <2>1, <2>2, <2>3, AppendedSound
  <2>5. (1 .. view.event) \cup ((view.event + 1) .. last) = 1 .. last
    BY <1>2, <1>3
  <2>6. QED
    BY <1>1, <1>4, <2>1, <2>4, <2>5 DEF PrintedSound
<1>7. PlanSound'
  BY <1>1, <1>4, PlanGoesOn
<1>8. LastPollSound'
  <2>1. SUFFICES ASSUME view.over, ~missed  PROVE LastPollSound'
    BY <1>1, <1>4 DEF LastPollSound
  <2>2. EventsLeft(todo) /\ todo \in Plans /\ todo # PlanDone
    BY <1>1, AskingPlan, PlanStep
  <2>3. CASE todo' = todo
    BY <1>1, <2>2, <2>3 DEF LastPollSound
  <2>4. CASE todo' # todo
    <3>1. work.events = last /\ todo' = Tail(todo)
      BY <1>1, <1>2, <1>3, <2>1, <2>4
    <3>2. todo' # <<>> /\ (LogsLeft(todo') <=> LogsLeft(todo))
      BY <1>1, <2>2, <3>1, PlanStep DEF PlanDone
    <3>3. ~LogsLeft(todo') => ~view.live /\ live # "served"
      BY <1>1, <2>1, <2>2, <3>2, LastPlan DEF ProgressInv, ViewSound
    <3>4. QED
      BY <1>1, <1>4, <3>1, <3>2, <3>3 DEF LastPollSound
  <2>5. QED
    BY <2>3, <2>4
<1>9. QED
  BY <1>1, <1>4, <1>5, <1>6, <1>7, <1>8 DEF ProgressInv, WorkSound

\* A page of live output.
LEMMA ChunksKeep ==
    ASSUME Shown!ProgressAssumption, ProgressInv, Shown!TakeChunks PROVE ProgressInv'
<1>. DEFINE last == PageStop(work.output, view.chunk)
<1>1. PICK first \in {view.chunk, view.chunk + 1} \ {0} :
         LET empty == live = "silent" \/ first > last
         IN /\ view' = [view EXCEPT !.chunk = IF empty THEN view.chunk ELSE last,
                                    !.empty = empty /\ view.chunk = 0]
            /\ printed' = IF empty THEN printed
                          ELSE Appended(printed, "logs", Shown!Beyond(first) - 1, last)
            /\ todo' = IF Shown!Again(~empty /\ last > view.chunk) THEN todo ELSE Tail(todo)
  BY Zenon DEF Shown!TakeChunks, PageStop, Appended
<1>2. /\ waiting.pc = "requests" /\ todo # <<>> /\ Head(todo) = "logs" /\ live # "absent"
      /\ UNCHANGED <<work, live, missed, waiting>>
  BY DEF Shown!TakeChunks, Shown!Asking
<1>3. /\ last \in Counts /\ last \in Nat /\ view.chunk <= last /\ last <= work.output
      /\ ~(last > view.chunk) => work.output = view.chunk
  BY AskingNumbers, PageStops
<1>. HIDE DEF last
<1>. DEFINE empty == live = "silent" \/ first > last
            chunk == IF empty THEN view.chunk ELSE last
            bare == empty /\ view.chunk = 0
<1>4. /\ view \in Views /\ work \in Works /\ view.chunk \in Nat /\ work.output \in Nat
      /\ printed \in Prints /\ view.chunk \in Counts
  BY AskingNumbers DEF ProgressInv, Views
<1>5. chunk \in Counts /\ chunk \in Nat /\ view.chunk <= chunk /\ chunk <= work.output
  BY <1>3, <1>4
<1>6. bare \in Flags
  BY Zenon DEF Flags
<1>7. /\ view' = [view EXCEPT !.chunk = chunk, !.empty = bare]
      /\ printed' = IF empty THEN printed ELSE Appended(printed, "logs", Shown!Beyond(first) - 1, last)
      /\ todo' = IF Shown!Again(~empty /\ last > view.chunk) THEN todo ELSE Tail(todo)
  BY <1>1, Zenon
<1>8. live = "silent" => empty /\ view.chunk = 0
  BY DEF ProgressInv, ViewSound
<1>9. ~(~empty /\ last > view.chunk) /\ live = "served" => work.output = chunk
  BY <1>3, <1>4
<1>10. ~empty => chunk = last /\ Shown!Beyond(first) - 1 = view.chunk
  BY <1>4 DEF Shown!Beyond
<1>11. empty => chunk = view.chunk
  OBVIOUS
<1>12. live # "served" => chunk = 0 /\ bare
  BY <1>2, <1>8, <1>11 DEF ProgressInv, Deployments
<1>. HIDE DEF empty, chunk, bare
<1>13. /\ view' \in Views /\ view'.over = view.over /\ view'.event = view.event
       /\ view'.chunk = chunk /\ view'.live = view.live /\ view'.saved = view.saved
       /\ view'.attempt = view.attempt /\ view'.empty = bare
  BY <1>4, <1>5, <1>6, <1>7 DEF Views
<1>14. ViewSound'
  BY <1>2, <1>5, <1>12, <1>13 DEF ProgressInv, ViewSound
<1>15. printed' \in Prints /\ PrintedSound'
  <2>1. Ascending(printed) /\ NumbersIn(printed, "events") = 1 .. view.event
        /\ NumbersIn(printed, "logs") = 1 .. view.chunk
        /\ (\A n \in NumbersIn(printed, "saved_logs") : n <= view.saved)
        /\ (view.attempt = work.attempt =>
               (work.base + 1) .. view.saved \subseteq NumbersIn(printed, "saved_logs"))
    BY DEF ProgressInv, PrintedSound
  <2>2. CASE empty
    BY <1>2, <1>4, <1>7, <1>11, <1>13, <2>1, <2>2 DEF PrintedSound
  <2>3. CASE ~empty
    <3>1. printed' = Appended(printed, "logs", view.chunk, last) /\ chunk = last
      BY <1>7, <1>10, <2>3
    <3>2. \A n \in NumbersIn(printed, "logs") : n <= view.chunk
      BY <1>4, <2>1
    <3>3. {"events", "logs", "saved_logs"} \subseteq Shown!Kinds
      BY DEF Shown!Kinds
    <3>4. /\ printed' \in Prints /\ Ascending(printed')
          /\ NumbersIn(printed', "logs") = NumbersIn(printed, "logs") \cup ((view.chunk + 1) .. last)
          /\ NumbersIn(printed', "events") = NumbersIn(printed, "events")
          /\ NumbersIn(printed', "saved_logs") = NumbersIn(printed, "saved_logs")
      BY <1>3, <1>4, <2>1, <3>1, <3>2, <3>3, AppendedSound
    <3>5. (1 .. view.chunk) \cup ((view.chunk + 1) .. last) = 1 .. last
      BY <1>3, <1>4
    <3>6. QED
      BY <1>2, <1>13, <2>1, <3>1, <3>4, <3>5 DEF PrintedSound
  <2>4. QED
    BY <2>2, <2>3
<1>16. todo' = todo \/ todo' = Tail(todo)
  BY <1>7
<1>17. PlanSound'
  BY <1>2, <1>13, <1>16, PlanGoesOn
<1>18. LastPollSound'
  <2>1. SUFFICES ASSUME view.over, ~missed  PROVE LastPollSound'
    BY <1>2, <1>13 DEF LastPollSound
  <2>2. LogsLeft(todo) /\ ~EventsLeft(todo) /\ todo \in Plans /\ todo # PlanDone
    BY <1>2, AskingPlan, PlanStep
  <2>3. view.event = work.events
    BY <2>1, <2>2 DEF ProgressInv, LastPollSound
  <2>4. CASE todo' = todo
    BY <1>2, <1>13, <2>2, <2>3, <2>4 DEF LastPollSound
  <2>5. CASE todo' # todo
    <3>1. ~(~empty /\ last > view.chunk) /\ todo' = Tail(todo)
      BY <1>7, <2>1, <2>5 DEF Shown!Again
    <3>2. todo' # <<>>
      BY <1>2, <2>1, <2>2, <3>1, LastPlan
    <3>3. QED
      BY <1>2, <1>9, <1>12, <1>13, <2>3, <3>1, <3>2 DEF LastPollSound
  <2>6. QED
    BY <2>4, <2>5
<1>19. QED
  BY <1>2, <1>13, <1>14, <1>15, <1>17, <1>18 DEF ProgressInv, WorkSound

\* Live output is there, so saved output is not asked for.
LEMMA PassKeeps ==
    ASSUME Shown!ProgressAssumption, ProgressInv, Shown!SkipSaved PROVE ProgressInv'
<1>1. /\ waiting.pc = "requests" /\ todo # <<>> /\ Head(todo) = "saved_logs"
      /\ view.live /\ ~view.empty /\ todo' = Tail(todo)
      /\ UNCHANGED <<work, live, view, missed, printed, waiting>>
  BY DEF Shown!SkipSaved, Shown!Asking
<1>2. todo \in Plans /\ todo # PlanDone
  BY <1>1, AskingPlan
<1>3. ~EventsLeft(todo) /\ ~LogsLeft(todo)
  BY <1>1, <1>2, PlanStep
<1>4. PlanSound'
  BY <1>1, PlanGoesOn
<1>5. LastPollSound'
  BY <1>1, <1>3 DEF ProgressInv, LastPollSound
<1>6. QED
  BY <1>1, <1>4, <1>5 DEF ProgressInv, WorkSound, ViewSound, PrintedSound

\* Saved output continues what was printed of the attempt.
LEMMA SavedKeeps ==
    ASSUME Shown!ProgressAssumption, ProgressInv, Shown!TakeSaved PROVE ProgressInv'
<1>. DEFINE shown == IF view.attempt = work.attempt THEN view.saved ELSE work.base
<1>1. /\ waiting.pc = "requests" /\ todo # <<>> /\ Head(todo) = "saved_logs" /\ todo' = Tail(todo)
      /\ UNCHANGED <<work, live, missed, waiting>>
      /\ IF work.saved = work.base
         THEN UNCHANGED <<view, printed>>
         ELSE /\ view' = [view EXCEPT !.attempt = work.attempt, !.saved = work.saved]
              /\ printed' = Appended(printed, "saved_logs", shown, work.saved)
  BY DEF Shown!TakeSaved, Shown!Asking, Appended
<1>2. todo \in Plans /\ todo # PlanDone
  BY <1>1, AskingPlan
<1>3. ~EventsLeft(todo) /\ ~LogsLeft(todo) /\ todo' = PlanDone
  BY <1>1, <1>2, PlanStep
<1>4. /\ work.base \in Nat /\ work.saved \in Nat /\ work.output \in Nat /\ view.saved \in Nat
      /\ view.saved <= work.saved /\ work.base <= work.saved
      /\ view \in Views /\ work \in Works /\ printed \in Prints
      /\ view.attempt # work.attempt => view.saved <= work.base
  BY AskingNumbers DEF ProgressInv, ViewSound
<1>5. shown \in Nat /\ shown <= work.saved /\ view.saved <= shown
  BY <1>4
<1>6. CASE work.saved = work.base
  <2>1. UNCHANGED <<view, printed>>
    BY <1>1, <1>6
  <2>2. PlanSound'
    BY <1>1, <2>1, PlanGoesOn
  <2>3. view.over => work.base = work.output
    BY <1>6 DEF ProgressInv, ViewSound, WorkSound
  <2>4. LastPollSound'
    BY <1>1, <1>3, <2>1, <2>3 DEF ProgressInv, LastPollSound
  <2>5. QED
    BY <1>1, <2>1, <2>2, <2>4 DEF ProgressInv, WorkSound, ViewSound, PrintedSound
<1>7. CASE work.saved # work.base
  <2>1. /\ view' = [view EXCEPT !.attempt = work.attempt, !.saved = work.saved]
        /\ printed' = Appended(printed, "saved_logs", shown, work.saved)
    BY <1>1, <1>7
  <2>2. work.attempt \in AttemptsSeen
    BY <1>4 DEF Works, AttemptsOf, AttemptsSeen
  <2>3. /\ view' \in Views /\ view'.over = view.over /\ view'.event = view.event
        /\ view'.chunk = view.chunk /\ view'.live = view.live /\ view'.saved = work.saved
        /\ view'.attempt = work.attempt /\ view'.empty = view.empty
    BY <1>4, <2>1, <2>2 DEF Views, Works
  <2>4. ViewSound'
    <3>1. work.attempt <= work.attempt
      BY <1>4, ProgressNumbers
    <3>2. QED
      BY <1>1, <1>4, <2>3, <3>1 DEF ProgressInv, ViewSound
  <2>5. printed' \in Prints /\ PrintedSound'
    <3>1. Ascending(printed) /\ NumbersIn(printed, "events") = 1 .. view.event
          /\ NumbersIn(printed, "logs") = 1 .. view.chunk
          /\ (\A n \in NumbersIn(printed, "saved_logs") : n <= view.saved)
          /\ (view.attempt = work.attempt =>
                 (work.base + 1) .. view.saved \subseteq NumbersIn(printed, "saved_logs"))
      BY DEF ProgressInv, PrintedSound
    <3>2. {"events", "logs", "saved_logs"} \subseteq Shown!Kinds
      BY DEF Shown!Kinds
    <3>3. \A n \in NumbersIn(printed, "saved_logs") : n \in Nat
      BY <1>4, NumberAt DEF Prints, EntrySet
    <3>4. \A n \in NumbersIn(printed, "saved_logs") : n <= shown
      BY <1>4, <1>5, <3>1, <3>3
    <3>5. (work.base + 1) .. work.saved \subseteq
             NumbersIn(printed, "saved_logs") \cup ((shown + 1) .. work.saved)
      <4>1. CASE view.attempt = work.attempt
        BY <1>4, <3>1, <4>1
      <4>2. CASE view.attempt # work.attempt
        BY <4>2
      <4>3. QED
        BY <4>1, <4>2
    <3>. HIDE DEF shown
    <3>6. /\ printed' \in Prints /\ Ascending(printed')
          /\ NumbersIn(printed', "saved_logs") =
                NumbersIn(printed, "saved_logs") \cup ((shown + 1) .. work.saved)
          /\ NumbersIn(printed', "events") = NumbersIn(printed, "events")
          /\ NumbersIn(printed', "logs") = NumbersIn(printed, "logs")
      BY <1>4, <1>5, <2>1, <3>1, <3>2, <3>4, AppendedSound
    <3>7. \A n \in NumbersIn(printed', "saved_logs") : n <= work.saved
      BY <1>4, <1>5, <3>3, <3>4, <3>6
    <3>8. QED
      BY <1>1, <2>3, <3>1, <3>5, <3>6, <3>7 DEF PrintedSound
  <2>6. PlanSound'
    BY <1>1, <2>3, PlanGoesOn
  <2>7. LastPollSound'
    BY <1>1, <1>3, <2>3 DEF ProgressInv, LastPollSound
  <2>8. QED
    BY <1>1, <2>3, <2>4, <2>5, <2>6, <2>7 DEF ProgressInv, WorkSound
<1>8. QED
  BY <1>6, <1>7

\* A request had no answer, or its route is missing.
LEMMA UnavailableKeeps ==
    ASSUME Shown!ProgressAssumption, ProgressInv, Shown!Unavailable PROVE ProgressInv'
<1>1. /\ waiting.pc = "requests" /\ todo # <<>> /\ todo' = Tail(todo)
      /\ UNCHANGED <<work, live, printed, waiting>> /\ view \in Views
  BY DEF Shown!Unavailable, ProgressInv
<1>2. CASE /\ Head(todo) = "logs" /\ live = "absent" /\ missed' = missed
           /\ view' = [view EXCEPT !.live = FALSE, !.empty = FALSE]
  <2>1. /\ view' \in Views /\ view'.over = view.over /\ view'.event = view.event
        /\ view'.chunk = view.chunk /\ view'.live = FALSE /\ view'.saved = view.saved
        /\ view'.attempt = view.attempt
    <3>1. FALSE \in Flags
      BY DEF Flags
    <3>2. QED
      BY <1>1, <1>2, <3>1 DEF Views
  <2>2. LogsLeft(todo) /\ ~EventsLeft(todo)
    BY <1>1, <1>2, AskingPlan, PlanStep
  <2>3. ViewSound' /\ PrintedSound'
    BY <1>1, <1>2, <2>1 DEF ProgressInv, ViewSound, PrintedSound
  <2>4. PlanSound'
    BY <1>1, <2>1, PlanGoesOn
  <2>5. LastPollSound'
    <3>1. SUFFICES ASSUME view.over, ~missed  PROVE LastPollSound'
      BY <1>2, <2>1 DEF LastPollSound
    <3>2. todo' # <<>> /\ view.event = work.events
      BY <1>1, <2>2, <3>1, LastPlan DEF ProgressInv, LastPollSound
    <3>3. QED
      BY <1>1, <1>2, <2>1, <3>2 DEF LastPollSound
  <2>6. QED
    BY <1>1, <1>2, <2>1, <2>3, <2>4, <2>5 DEF ProgressInv, WorkSound
<1>3. CASE /\ missed' = TRUE
           /\ view' = [view EXCEPT !.empty = IF Head(todo) = "logs" THEN FALSE ELSE view.empty]
  <2>. DEFINE bare == IF Head(todo) = "logs" THEN FALSE ELSE view.empty
  <2>1. bare \in Flags /\ missed' \in Flags
    BY <1>1, <1>3, Zenon DEF Views, Flags
  <2>2. view' = [view EXCEPT !.empty = bare]
    BY <1>3
  <2>. HIDE DEF bare
  <2>3. /\ view' \in Views /\ view'.over = view.over /\ view'.event = view.event
        /\ view'.chunk = view.chunk /\ view'.live = view.live /\ view'.saved = view.saved
        /\ view'.attempt = view.attempt
    BY <1>1, <2>1, <2>2 DEF Views
  <2>4. ViewSound' /\ PrintedSound'
    BY <1>1, <2>3 DEF ProgressInv, ViewSound, PrintedSound
  <2>5. PlanSound'
    BY <1>1, <2>3, PlanGoesOn
  <2>6. LastPollSound'
    BY <1>3 DEF LastPollSound
  <2>7. QED
    BY <1>1, <2>1, <2>3, <2>4, <2>5, <2>6 DEF ProgressInv, WorkSound
<1>4. QED
  BY <1>2, <1>3 DEF Shown!Unavailable, Shown!Asking

\* A poll is over.
LEMMA RoundKeeps ==
    ASSUME Shown!ProgressAssumption, ProgressInv, Shown!RoundEnds PROVE ProgressInv'
<1>. DEFINE pc == IF view.over THEN "returned" ELSE "poll"
<1>1. /\ waiting.pc = "requests" /\ todo = <<>> /\ waiting' = [waiting EXCEPT !.pc = pc]
      /\ UNCHANGED <<work, live, view, todo, missed, printed>> /\ waiting \in Waitings
  BY DEF Shown!RoundEnds, ProgressInv
<1>2. pc \in PollPcs /\ (pc = "poll" => ~view.over) /\ (pc = "returned" => view.over)
  BY DEF PollPcs
<1>. HIDE DEF pc
<1>3. waiting' \in Waitings /\ waiting'.pc = pc
  BY <1>1, <1>2 DEF Waitings
<1>4. PlanSound'
  BY <1>1, <1>2, <1>3 DEF ProgressInv, PlanSound
<1>5. LastPollSound' /\ WorkSound' /\ ViewSound' /\ PrintedSound'
  BY <1>1 DEF ProgressInv, LastPollSound, WorkSound, ViewSound, PrintedSound
<1>6. QED
  BY <1>1, <1>3, <1>4, <1>5 DEF ProgressInv

LEMMA ProgressInit == ASSUME Shown!ProgressAssumption, Shown!Init PROVE ProgressInv
<1>1. /\ work = [events |-> 0, output |-> 0, base |-> 0, saved |-> 0, attempt |-> 1, over |-> FALSE]
      /\ live \in Deployments
      /\ view = [over |-> FALSE, event |-> 0, chunk |-> 0, live |-> TRUE, empty |-> FALSE,
                 attempt |-> 0, saved |-> 0]
      /\ todo = <<>> /\ missed = FALSE /\ printed = <<>>
      /\ waiting = [pc |-> "poll", rounds |-> 0]
  BY DEF Shown!Init, Deployments
<1>2. 0 \in Counts /\ 1 \in AttemptsOf /\ 0 \in AttemptsSeen /\ TRUE \in Flags /\ FALSE \in Flags
  BY DEF Shown!ProgressAssumption, Counts, AttemptsOf, AttemptsSeen, Flags
<1>3. work \in Works /\ view \in Views /\ missed \in Flags
  BY <1>1, <1>2 DEF Works, Views
<1>4. waiting \in Waitings /\ waiting.pc = "poll"
  BY <1>1 DEF Waitings, PollPcs
<1>5. WorkSound /\ ViewSound
  BY <1>1 DEF WorkSound, ViewSound
<1>6. printed \in Prints /\ PrintedSound
  <2>1. printed \in Prints /\ Len(printed) = 0 /\ DOMAIN printed = {}
    BY <1>1 DEF Prints
  <2>2. \A k : NumbersIn(printed, k) = {}
    BY <2>1 DEF NumbersIn
  <2>3. 1 .. 0 = {} /\ view.event = 0 /\ view.chunk = 0 /\ view.attempt # work.attempt
    BY <1>1
  <2>4. QED
    BY <2>1, <2>2, <2>3 DEF PrintedSound, Ascending
<1>7. PlanSound /\ LastPollSound
  <2>1. ~view.over /\ todo = PlanDone
    BY <1>1 DEF PlanDone
  <2>2. QED
    BY <1>4, <2>1, PlanSets DEF PlanSound, LastPollSound
<1>8. QED
  BY <1>1, <1>3, <1>4, <1>5, <1>6, <1>7 DEF ProgressInv

\* Every step of the display, and of what it shows, keeps the invariant.
LEMMA ProgressPreserved ==
    ASSUME Shown!ProgressAssumption, ProgressInv, [Shown!Next]_(Shown!vars) PROVE ProgressInv'
<1>1. CASE Shown!Next
  BY <1>1, WorksKeeps, PollKeeps, EventsKeep, ChunksKeep, PassKeeps, SavedKeeps, UnavailableKeeps,
     RoundKeeps DEF Shown!Next
<1>2. CASE UNCHANGED Shown!vars
  BY <1>2 DEF Shown!vars, ProgressInv, WorkSound, ViewSound, PrintedSound, PlanSound, LastPollSound
<1>3. QED
  BY <1>1, <1>2

LEMMA ProgressHolds ==
    ASSUME Shown!ProgressAssumption, ProgressInv PROVE Shown!OutputShown
<1>1. \A sort : Shown!Of(sort) = NumbersIn(printed, sort)
  BY Zenon DEF Shown!Of, NumbersIn
<1>2. \A i, j \in DOMAIN printed : i < j /\ printed[i][1] = printed[j][1] => printed[i][2] < printed[j][2]
  BY DEF ProgressInv, PrintedSound, Ascending
<1>3. ASSUME waiting.pc = "returned", ~missed
      PROVE  /\ NumbersIn(printed, "events") = 1 .. work.events
             /\ live = "served" => NumbersIn(printed, "logs") = 1 .. work.output
             /\ live # "served" => (work.base + 1) .. work.output \subseteq NumbersIn(printed, "saved_logs")
  <2>1. view.over /\ todo = <<>> /\ work.over /\ work.saved = work.output
    BY <1>3 DEF ProgressInv, PlanSound, ViewSound, WorkSound
  <2>2. ~EventsLeft(todo) /\ ~LogsLeft(todo)
    BY <2>1, PlanSets, PlanFacts DEF PlanDone
  <2>3. /\ view.event = work.events
        /\ live = "served" => view.chunk = work.output
        /\ live # "served" =>
              work.base = work.output \/ (view.attempt = work.attempt /\ view.saved = work.saved)
    BY <1>3, <2>1, <2>2 DEF ProgressInv, LastPollSound
  <2>4. work.base = work.output => (work.base + 1) .. work.output = {}
    BY AskingNumbers
  <2>5. QED
    BY <2>1, <2>3, <2>4 DEF ProgressInv, PrintedSound
<1>4. QED
  BY <1>1, <1>2, <1>3 DEF Shown!OutputShown

\* Nothing is printed twice or out of order, and once the workload is over all of it has been
\* shown, unless a request of the last poll had no answer (__init__.py:1300-1331,
\* _terminal.py:221-292).
THEOREM ProgressShown ==
    ASSUME Shown!ProgressAssumption
    PROVE  Shown!Spec => []Shown!OutputShown
<1>1. Shown!Init => ProgressInv
  BY ProgressInit
<1>2. ProgressInv /\ [Shown!Next]_(Shown!vars) => ProgressInv'
  BY ProgressPreserved
<1>3. ProgressInv => Shown!OutputShown
  BY ProgressHolds
<1>4. QED
  BY <1>1, <1>2, <1>3, PTL DEF Shown!Spec

-----------------------------------------------------------------------------
(* Measurements.  Whatever the hours were, the sums over them satisfy what *)
(* the SDK asks of them, and no sum that differs in one number does.       *)

\* The size of a set does not depend on the module that takes it.
LEMMA TotalsSizes ==
    ASSUME NEW S PROVE Totals!Cardinality(S) = Cardinality(S)
BY Zenon DEF Totals!Cardinality, Cardinality

\* Hours of any kind.
HourNames == {"absent", "unknown", "free", "idle", "busy", "foreign", "hour",
              "unforecast", "unmeasured", "covered", "missed", "trusted", "gap"}
HourRows == Seq(HourNames)
KindSets == SUBSET HourNames

\* Sums are numbers, at most that of the hours, and grow with the kinds that count.
LEMMA SumOf ==
    ASSUME NEW hours \in HourRows, NEW kinds \in KindSets
    PROVE  /\ Totals!CountIn(hours, kinds) \in Nat
           /\ Totals!CountIn(hours, kinds) <= Len(hours)
           /\ \A more \in KindSets : kinds \subseteq more =>
                 Totals!CountIn(hours, kinds) <= Totals!CountIn(hours, more)
<1>. DEFINE In(ks) == { i \in DOMAIN hours : hours[i] \in ks }
<1>1. DOMAIN hours = 1 .. Len(hours) /\ Len(hours) \in Nat
  BY DEF HourRows
<1>2. IsFiniteSet(DOMAIN hours) /\ Cardinality(DOMAIN hours) = Len(hours)
  <2>1. IsFiniteSet(1 .. Len(hours))
        /\ Cardinality(1 .. Len(hours)) = IF 1 > Len(hours) THEN 0 ELSE Len(hours) - 1 + 1
    BY <1>1, FS_Interval
  <2>2. Cardinality(1 .. Len(hours)) = Len(hours)
    BY <1>1, <2>1
  <2>3. QED
    BY <1>1, <2>1, <2>2
<1>3. \A ks : /\ In(ks) \subseteq DOMAIN hours /\ IsFiniteSet(In(ks))
              /\ Cardinality(In(ks)) \in Nat /\ Cardinality(In(ks)) <= Len(hours)
  BY <1>2, FS_Subset, FS_CardinalityType
<1>4. \A ks : Totals!CountIn(hours, ks) = Cardinality(In(ks))
  BY TotalsSizes DEF Totals!CountIn
<1>5. ASSUME NEW more \in KindSets, kinds \subseteq more
      PROVE  Cardinality(In(kinds)) <= Cardinality(In(more))
  <2>1. In(kinds) \subseteq In(more)
    BY <1>5
  <2>. HIDE DEF In
  <2>2. QED
    BY <1>3, <2>1, FS_Subset
<1>. HIDE DEF In
<1>6. QED
  BY <1>3, <1>4, <1>5

-----------------------------------------------------------------------------
(* Utilization.                                                            *)

\* The sums of one window of utilization.
MetricsOf(capacity, unknown, allocated, busy, foreign) ==
    LET known == unknown = 0 /\ capacity > 0
    IN [status |-> IF capacity = 0 THEN "no_data" ELSE IF unknown > 0 THEN "partial" ELSE "complete",
        capacity |-> capacity, unknown |-> unknown,
        allocated |-> IF known THEN allocated ELSE -1,
        busy |-> IF known THEN busy ELSE -1,
        idle |-> IF known THEN allocated - busy ELSE -1,
        stranded |-> IF known THEN capacity - allocated ELSE -1,
        foreign |-> IF known THEN foreign ELSE -1]

\* How these sums relate.
LEMMA MetricsSums ==
    ASSUME NEW hours \in HourRows
    PROVE  \E capacity, unknown, allocated, busy, foreign \in Nat :
              /\ Totals!Metrics(hours) = MetricsOf(capacity, unknown, allocated, busy, foreign)
              /\ unknown <= capacity /\ allocated <= capacity /\ busy <= allocated /\ foreign <= allocated
<1>. DEFINE Sum(ks) == Totals!CountIn(hours, ks)
            there == Totals!HourKinds.metrics \ {"absent"}
            held == {"idle", "busy", "foreign"}
            active == {"busy", "foreign"}
<1>1. /\ there \in KindSets /\ held \in KindSets /\ active \in KindSets
      /\ {"unknown"} \in KindSets /\ {"foreign"} \in KindSets
      /\ {"unknown"} \subseteq there /\ held \subseteq there /\ active \subseteq held
      /\ {"foreign"} \subseteq held
  BY DEF Totals!HourKinds, KindSets, HourNames
<1>2. Totals!Metrics(hours) =
         MetricsOf(Sum(there), Sum({"unknown"}), Sum(held), Sum(active), Sum({"foreign"}))
  BY Zenon DEF Totals!Metrics, MetricsOf
<1>. HIDE DEF there, held, active
<1>3. /\ Sum(there) \in Nat /\ Sum({"unknown"}) \in Nat /\ Sum(held) \in Nat
      /\ Sum(active) \in Nat /\ Sum({"foreign"}) \in Nat
  BY <1>1, SumOf
<1>4. /\ Sum({"unknown"}) <= Sum(there) /\ Sum(held) <= Sum(there)
      /\ Sum(active) <= Sum(held) /\ Sum({"foreign"}) <= Sum(held)
  BY <1>1, SumOf
<1>. HIDE DEF Sum
<1>5. QED
  BY <1>2, <1>3, <1>4

\* The sums are accepted, and no other number in place of one of them.
LEMMA MetricsJudged ==
    ASSUME NEW hours \in HourRows
    PROVE  /\ Totals!MetricsAccepted(Totals!Metrics(hours))
           /\ \A f \in {"allocated", "busy", "idle", "stranded"}, by \in {-1, 1} :
                 ~Totals!MetricsAccepted([Totals!Metrics(hours) EXCEPT ![f] = @ + by])
           /\ Totals!Metrics(hours).status # "partial" =>
                 \A f \in {"capacity", "unknown"}, by \in {-1, 1} :
                    ~Totals!MetricsAccepted([Totals!Metrics(hours) EXCEPT ![f] = @ + by])
<1>1. PICK capacity, unknown, allocated, busy, foreign \in Nat :
         /\ Totals!Metrics(hours) = MetricsOf(capacity, unknown, allocated, busy, foreign)
         /\ unknown <= capacity /\ allocated <= capacity /\ busy <= allocated /\ foreign <= allocated
  BY MetricsSums
<1>. DEFINE m == MetricsOf(capacity, unknown, allocated, busy, foreign)
<1>2. Totals!MetricsAccepted(m)
  BY <1>1 DEF Totals!MetricsAccepted, MetricsOf
<1>3. ASSUME NEW by \in {-1, 1}
      PROVE  /\ ~Totals!MetricsAccepted([m EXCEPT !["allocated"] = @ + by])
             /\ ~Totals!MetricsAccepted([m EXCEPT !["busy"] = @ + by])
             /\ ~Totals!MetricsAccepted([m EXCEPT !["idle"] = @ + by])
             /\ ~Totals!MetricsAccepted([m EXCEPT !["stranded"] = @ + by])
  <2>1. ~Totals!MetricsAccepted([m EXCEPT !["allocated"] = @ + by])
    <3>1. CASE unknown = 0 /\ capacity > 0
      BY <1>1, <1>3, <3>1 DEF Totals!MetricsAccepted, MetricsOf
    <3>2. CASE ~(unknown = 0 /\ capacity > 0)
      BY <1>1, <1>3, <3>2 DEF Totals!MetricsAccepted, MetricsOf
    <3>3. QED
      BY <3>1, <3>2
  <2>2. ~Totals!MetricsAccepted([m EXCEPT !["busy"] = @ + by])
    <3>1. CASE unknown = 0 /\ capacity > 0
      BY <1>1, <1>3, <3>1 DEF Totals!MetricsAccepted, MetricsOf
    <3>2. CASE ~(unknown = 0 /\ capacity > 0)
      BY <1>1, <1>3, <3>2 DEF Totals!MetricsAccepted, MetricsOf
    <3>3. QED
      BY <3>1, <3>2
  <2>3. ~Totals!MetricsAccepted([m EXCEPT !["idle"] = @ + by])
    <3>1. CASE unknown = 0 /\ capacity > 0
      BY <1>1, <1>3, <3>1 DEF Totals!MetricsAccepted, MetricsOf
    <3>2. CASE ~(unknown = 0 /\ capacity > 0)
      BY <1>1, <1>3, <3>2 DEF Totals!MetricsAccepted, MetricsOf
    <3>3. QED
      BY <3>1, <3>2
  <2>4. ~Totals!MetricsAccepted([m EXCEPT !["stranded"] = @ + by])
    <3>1. CASE unknown = 0 /\ capacity > 0
      BY <1>1, <1>3, <3>1 DEF Totals!MetricsAccepted, MetricsOf
    <3>2. CASE ~(unknown = 0 /\ capacity > 0)
      BY <1>1, <1>3, <3>2 DEF Totals!MetricsAccepted, MetricsOf
    <3>3. QED
      BY <3>1, <3>2
  <2>5. QED
    BY <2>1, <2>2, <2>3, <2>4
<1>4. ASSUME NEW by \in {-1, 1}, m.status # "partial"
      PROVE  /\ ~Totals!MetricsAccepted([m EXCEPT !["capacity"] = @ + by])
             /\ ~Totals!MetricsAccepted([m EXCEPT !["unknown"] = @ + by])
  BY <1>1, <1>4 DEF Totals!MetricsAccepted, MetricsOf
<1>5. QED
  BY <1>1, <1>2, <1>3, <1>4, Zenon

-----------------------------------------------------------------------------
(* Calibration.                                                            *)

\* The days all of whose hours are of these kinds.
DaysOf(hours, kinds) ==
    { d \in 1 .. (Len(hours) \div Day) : \A h \in 1 .. Day : hours[(d - 1) * Day + h] \in kinds }

\* Products keep the order.
LEMMA TimesDay ==
    ASSUME NEW a \in Nat, NEW b \in Nat, a <= b, Day \in Nat
    PROVE  a * Day <= b * Day
<1>1. PICK c \in Nat : b = a + c
  <2>1. b - a \in Nat /\ b = a + (b - a)
    OBVIOUS
  <2>2. QED
    BY <2>1
<1>2. (a + c) * Day = a * Day + c * Day
  OBVIOUS
<1>3. c * Day \in Nat /\ a * Day \in Nat
  OBVIOUS
<1>4. QED
  BY <1>1, <1>2, <1>3

\* An hour of a whole day is one of the hours.
LEMMA HourOfDay ==
    ASSUME Totals!MeasurementsAssumption, NEW n \in Nat, NEW d \in 1 .. (n \div Day), NEW h \in 1 .. Day
    PROVE  (d - 1) * Day + h \in 1 .. n
<1>1. Day \in Nat /\ Day > 0
  BY DEF Totals!MeasurementsAssumption
<1>2. n \div Day \in Nat /\ (n \div Day) * Day <= n
  BY <1>1
<1>3. d \in Nat /\ d - 1 \in Nat /\ d <= n \div Day /\ h \in Nat /\ h <= Day /\ h > 0
  BY <1>1, <1>2
<1>4. d * Day <= (n \div Day) * Day
  BY <1>1, <1>2, <1>3, TimesDay
<1>5. d * Day = (d - 1) * Day + Day
  BY <1>1, <1>3
<1>6. (d - 1) * Day \in Nat /\ d * Day \in Nat /\ (n \div Day) * Day \in Nat
  BY <1>1, <1>2, <1>3
<1>7. QED
  BY <1>1, <1>2, <1>3, <1>4, <1>5, <1>6

\* An hour belongs to one day.
LEMMA DayOfHour ==
    ASSUME Totals!MeasurementsAssumption, NEW d \in Nat, NEW e \in Nat,
           NEW h \in 1 .. Day, NEW g \in 1 .. Day, d * Day + h = e * Day + g
    PROVE  d = e /\ h = g
<1>1. Day \in Nat /\ Day > 0 /\ h \in Nat /\ g \in Nat /\ 1 <= h /\ h <= Day /\ 1 <= g /\ g <= Day
  BY DEF Totals!MeasurementsAssumption
<1>2. d * Day \in Nat /\ e * Day \in Nat
  BY <1>1
<1>3. ASSUME NEW a \in Nat, NEW b \in Nat, a < b  PROVE a * Day + Day <= b * Day
  <2>1. (a + 1) * Day <= b * Day
    BY <1>1, <1>3, TimesDay
  <2>2. (a + 1) * Day = a * Day + Day
    BY <1>1
  <2>3. QED
    BY <2>1, <2>2
<1>4. ~(d < e)
  <2>1. SUFFICES ASSUME d < e  PROVE FALSE
    OBVIOUS
  <2>2. d * Day + Day <= e * Day
    BY <1>3, <2>1
  <2>3. QED
    BY <1>1, <1>2, <2>2
<1>5. ~(e < d)
  <2>1. SUFFICES ASSUME e < d  PROVE FALSE
    OBVIOUS
  <2>2. e * Day + Day <= d * Day
    BY <1>3, <2>1
  <2>3. QED
    BY <1>1, <1>2, <2>2
<1>6. d = e
  BY <1>4, <1>5
<1>7. h = g
  BY <1>1, <1>2, <1>6
<1>8. QED
  BY <1>6, <1>7

\* Whole days have a day's hours each, and more days are whole when more kinds count.
LEMMA WholeDays ==
    ASSUME Totals!MeasurementsAssumption, NEW hours \in HourRows, NEW kinds \in KindSets
    PROVE  /\ Cardinality(DaysOf(hours, kinds)) \in Nat
           /\ Cardinality(DaysOf(hours, kinds)) * Day <= Totals!CountIn(hours, kinds)
           /\ \A more \in KindSets : kinds \subseteq more =>
                 Cardinality(DaysOf(hours, kinds)) <= Cardinality(DaysOf(hours, more))
<1>. DEFINE n == Len(hours)
            W == DaysOf(hours, kinds)
            H == 1 .. Day
            E == { i \in DOMAIN hours : hours[i] \in kinds }
            f == [p \in W \X H |-> (p[1] - 1) * Day + p[2]]
<1>1. n \in Nat /\ DOMAIN hours = 1 .. n /\ Day \in Nat /\ Day > 0
  BY DEF HourRows, Totals!MeasurementsAssumption
<1>2. n \div Day \in Nat
  BY <1>1
<1>3. \A ks : /\ DaysOf(hours, ks) \subseteq 1 .. (n \div Day)
              /\ IsFiniteSet(DaysOf(hours, ks)) /\ Cardinality(DaysOf(hours, ks)) \in Nat
  <2>1. IsFiniteSet(1 .. (n \div Day))
    BY <1>2, FS_Interval
  <2>2. \A ks : DaysOf(hours, ks) \subseteq 1 .. (n \div Day)
    BY DEF DaysOf
  <2>3. QED
    BY <2>1, <2>2, FS_Subset, FS_CardinalityType
<1>4. IsFiniteSet(E) /\ Cardinality(E) \in Nat
  <2>1. IsFiniteSet(1 .. n)
    BY <1>1, FS_Interval
  <2>2. E \subseteq 1 .. n
    BY <1>1
  <2>3. QED
    BY <2>1, <2>2, FS_Subset, FS_CardinalityType
<1>5. IsFiniteSet(H) /\ Cardinality(H) = Day
  <2>1. IsFiniteSet(H) /\ Cardinality(H) = IF 1 > Day THEN 0 ELSE Day - 1 + 1
    BY <1>1, FS_Interval
  <2>2. QED
    BY <1>1, <2>1
<1>6. \A p \in W \X H : p[1] \in 1 .. (n \div Day) /\ p[2] \in H /\ (p[1] - 1) * Day + p[2] \in E
  <2>1. TAKE p \in W \X H
  <2>2. p[1] \in 1 .. (n \div Day) /\ p[2] \in H
    BY <1>3
  <2>3. (p[1] - 1) * Day + p[2] \in 1 .. n
    BY <1>1, <2>2, HourOfDay
  <2>4. hours[(p[1] - 1) * Day + p[2]] \in kinds
    BY DEF DaysOf
  <2>5. QED
    BY <1>1, <2>2, <2>3, <2>4
<1>7. f \in Injection(W \X H, E)
  <2>1. f \in [W \X H -> E]
    BY <1>6
  <2>2. ASSUME NEW p \in W \X H, NEW q \in W \X H, f[p] = f[q]  PROVE p = q
    <3>1. (p[1] - 1) * Day + p[2] = (q[1] - 1) * Day + q[2]
      BY <2>2
    <3>2. p[1] - 1 \in Nat /\ q[1] - 1 \in Nat /\ p[2] \in 1 .. Day /\ q[2] \in 1 .. Day
          /\ p[1] \in Nat /\ q[1] \in Nat
      BY <1>2, <1>6
    <3>3. p[1] - 1 = q[1] - 1 /\ p[2] = q[2]
      BY <3>1, <3>2, DayOfHour
    <3>4. p[1] = q[1] /\ p[2] = q[2]
      BY <3>2, <3>3
    <3>5. p = <<p[1], p[2]>> /\ q = <<q[1], q[2]>>
      OBVIOUS
    <3>6. QED
      BY <3>4, <3>5, Zenon
  <2>3. DOMAIN f = W \X H
    OBVIOUS
  <2>. HIDE DEF f
  <2>4. IsInjective(f)
    BY <2>2, <2>3, Zenon DEF IsInjective
  <2>5. QED
    BY <2>1, <2>4, Zenon DEF Injection
<1>8. Cardinality(W \X H) <= Cardinality(E)
  BY <1>4, <1>7, FS_Injection
<1>9. Cardinality(W \X H) = Cardinality(W) * Cardinality(H)
  BY <1>3, <1>5, FS_Product
<1>10. Totals!CountIn(hours, kinds) = Cardinality(E)
  BY TotalsSizes DEF Totals!CountIn
<1>11. ASSUME NEW more \in KindSets, kinds \subseteq more
       PROVE  Cardinality(DaysOf(hours, kinds)) <= Cardinality(DaysOf(hours, more))
  <2>1. DaysOf(hours, kinds) \subseteq DaysOf(hours, more)
    BY <1>11 DEF DaysOf
  <2>2. QED
    BY <1>3, <2>1, FS_Subset
<1>. HIDE DEF E, H, f
<1>12. QED
  BY <1>3, <1>5, <1>8, <1>9, <1>10, <1>11

\* The sums of a calibration.
CalibrationOf(n, length, forecast, covered, complete, coveredDays) ==
    [status |-> IF n = 0 THEN "no_data" ELSE IF n = length THEN "complete" ELSE "partial",
     window |-> length, expected |-> length, forecast |-> forecast, evaluated |-> n,
     covered |-> covered, coverage |-> <<covered, n>>,
     complete |-> complete, coveredDays |-> coveredDays]

\* How these sums relate.
LEMMA CalibrationSums ==
    ASSUME Totals!MeasurementsAssumption, NEW hours \in HourRows
    PROVE  \E n, forecast, covered, complete, coveredDays \in Nat :
              /\ Totals!Calibration(hours) =
                    CalibrationOf(n, Len(hours), forecast, covered, complete, coveredDays)
              /\ covered <= n /\ n <= forecast /\ forecast <= Len(hours)
              /\ coveredDays <= complete /\ complete * Day <= n
<1>. DEFINE evaluated == {"covered", "missed"}
            foreseen == evaluated \cup {"unmeasured"}
            Sum(ks) == Totals!CountIn(hours, ks)
            Whole(ks) == Cardinality(DaysOf(hours, ks))
<1>1. /\ evaluated \in KindSets /\ foreseen \in KindSets /\ {"covered"} \in KindSets
      /\ {"covered"} \subseteq evaluated /\ evaluated \subseteq foreseen
  BY DEF KindSets, HourNames
<1>2. \A ks : Totals!Cardinality({ d \in 1 .. (Len(hours) \div Day) :
                                   \A h \in 1 .. Day : hours[(d - 1) * Day + h] \in ks }) = Whole(ks)
  BY TotalsSizes, Zenon DEF DaysOf
<1>3. Totals!Calibration(hours) =
         CalibrationOf(Sum(evaluated), Len(hours), Sum(foreseen), Sum({"covered"}),
                       Whole(evaluated), Whole({"covered"}))
  BY <1>2, Zenon DEF Totals!Calibration, CalibrationOf
<1>. HIDE DEF evaluated, foreseen
<1>4. /\ Sum(evaluated) \in Nat /\ Sum(foreseen) \in Nat /\ Sum({"covered"}) \in Nat
      /\ Sum({"covered"}) <= Sum(evaluated) /\ Sum(evaluated) <= Sum(foreseen)
      /\ Sum(foreseen) <= Len(hours)
  BY <1>1, SumOf
<1>5. /\ Whole(evaluated) \in Nat /\ Whole({"covered"}) \in Nat
      /\ Whole({"covered"}) <= Whole(evaluated) /\ Whole(evaluated) * Day <= Sum(evaluated)
  BY <1>1, WholeDays
<1>. HIDE DEF Sum, Whole
<1>6. QED
  BY <1>3, <1>4, <1>5

LEMMA CalibrationJudged ==
    ASSUME Totals!MeasurementsAssumption, NEW hours \in HourRows, Len(hours) > 0
    PROVE  /\ Totals!CalibrationAccepted(Totals!Calibration(hours))
           /\ \A f \in {"expected", "covered"}, by \in {-1, 1} :
                 ~Totals!CalibrationAccepted([Totals!Calibration(hours) EXCEPT ![f] = @ + by])
<1>1. PICK n, forecast, covered, complete, coveredDays \in Nat :
         /\ Totals!Calibration(hours) =
               CalibrationOf(n, Len(hours), forecast, covered, complete, coveredDays)
         /\ covered <= n /\ n <= forecast /\ forecast <= Len(hours)
         /\ coveredDays <= complete /\ complete * Day <= n
  BY CalibrationSums
<1>. DEFINE c == CalibrationOf(n, Len(hours), forecast, covered, complete, coveredDays)
<1>2. Len(hours) \in Nat /\ Len(hours) > 0
  BY DEF HourRows
<1>3. Totals!CalibrationAccepted(c)
  <2>1. c.coverage[1] * n = c.covered * c.coverage[2]
    BY DEF CalibrationOf
  <2>2. QED
    BY <1>1, <1>2, <2>1 DEF Totals!CalibrationAccepted, CalibrationOf
<1>4. ASSUME NEW by \in {-1, 1}  PROVE ~Totals!CalibrationAccepted([c EXCEPT !["expected"] = @ + by])
  <2>. DEFINE d == [c EXCEPT !["expected"] = @ + by]
  <2>1. d.expected = Len(hours) + by /\ d.window = Len(hours)
    BY DEF CalibrationOf
  <2>2. d.expected # d.window
    BY <1>2, <2>1
  <2>. HIDE DEF d
  <2>3. ~Totals!CalibrationAccepted(d)
    BY <2>2 DEF Totals!CalibrationAccepted
  <2>4. QED
    BY <2>3 DEF d
<1>5. ASSUME NEW by \in {-1, 1}  PROVE ~Totals!CalibrationAccepted([c EXCEPT !["covered"] = @ + by])
  <2>. DEFINE d == [c EXCEPT !["covered"] = @ + by]
  <2>1. /\ d.covered = covered + by /\ d.evaluated = n
        /\ d.coverage[1] = covered /\ d.coverage[2] = n
    BY DEF CalibrationOf
  <2>2. ASSUME NEW e, ~(0 <= e.covered /\ e.covered <= e.evaluated)
        PROVE  ~Totals!CalibrationAccepted(e)
    BY <2>2 DEF Totals!CalibrationAccepted
  <2>3. ASSUME NEW e, e.evaluated > 0 /\ e.coverage[1] * e.evaluated # e.covered * e.coverage[2]
        PROVE  ~Totals!CalibrationAccepted(e)
    BY <2>3 DEF Totals!CalibrationAccepted
  <2>4. CASE n = 0
    <3>1. covered = 0
      BY <1>1, <2>4
    <3>2. ~(0 <= d.covered /\ d.covered <= d.evaluated)
      BY <2>1, <2>4, <3>1
    <3>3. QED
      BY <2>2, <3>2
  <2>5. CASE n # 0
    <3>1. covered * n # (covered + by) * n
      <4>1. (covered + by) * n = covered * n + by * n
        BY <1>1
      <4>2. by * n # 0 /\ by * n \in Int /\ covered * n \in Int
        BY <1>1, <2>5
      <4>3. QED
        BY <4>1, <4>2
    <3>2. d.evaluated > 0 /\ d.coverage[1] * d.evaluated # d.covered * d.coverage[2]
      BY <1>1, <2>1, <2>5, <3>1
    <3>3. QED
      BY <2>3, <3>2
  <2>6. QED
    BY <2>4, <2>5
<1>6. QED
  BY <1>1, <1>3, <1>4, <1>5, Zenon

-----------------------------------------------------------------------------
(* Shadow runs.                                                            *)

LEMMA ShadowJudged ==
    ASSUME Totals!MeasurementsAssumption, NEW hours \in HourRows, NEW ended \in BOOLEAN,
           Len(hours) <= Cycle
    PROVE  /\ Totals!ShadowAccepted(Totals!Shadow(hours, ended))
           /\ \A f \in {"trusted", "gaps"}, by \in {-1, 1} :
                 ~Totals!ShadowAccepted([Totals!Shadow(hours, ended) EXCEPT ![f] = @ + by])
<1>. DEFINE trusted == Totals!CountIn(hours, {"trusted"})
            elapsed == Len(hours)
            producer == "trusted" \in { hours[i] : i \in DOMAIN hours }
            qualifies == ended /\ trusted = Cycle
            s == [trusted |-> trusted, elapsed |-> elapsed, gaps |-> elapsed - trusted,
                  state |-> IF ended THEN "completed" ELSE "running", ended |-> ended,
                  producer |-> producer, qualifies |-> qualifies]
<1>1. Totals!Shadow(hours, ended) = s
  BY DEF Totals!Shadow
<1>2. trusted \in Nat /\ trusted <= elapsed /\ elapsed \in Nat /\ Cycle \in Nat /\ Cycle > 0
  BY SumOf DEF KindSets, HourNames, HourRows, Totals!MeasurementsAssumption
<1>3. ~producer => trusted = 0
  <2>1. SUFFICES ASSUME ~producer  PROVE trusted = 0
    OBVIOUS
  <2>2. { i \in DOMAIN hours : hours[i] \in {"trusted"} } = {}
    BY <2>1
  <2>3. QED
    BY <2>2, TotalsSizes, FS_EmptySet DEF Totals!CountIn
<1>. HIDE DEF trusted, producer
<1>4. /\ s.trusted = trusted /\ s.elapsed = elapsed /\ s.gaps = elapsed - trusted
      /\ s.state = (IF ended THEN "completed" ELSE "running") /\ s.ended = ended
      /\ s.producer = producer /\ s.qualifies = qualifies
  BY Zenon
<1>5. Totals!ShadowAccepted(s)
  <2>. HIDE DEF s
  <2>1. \A m \in {s.trusted, s.elapsed, s.gaps} : 0 <= m /\ m <= Cycle
    BY <1>2, <1>4
  <2>2. (s.state = "completed") <=> s.ended
    BY <1>4
  <2>3. s.trusted <= s.elapsed /\ s.gaps = s.elapsed - s.trusted
    BY <1>2, <1>4
  <2>4. ~s.producer => s.trusted = 0 /\ ~s.qualifies
    <3>1. trusted = 0 => ~qualifies
      BY <1>2
    <3>. HIDE DEF qualifies
    <3>2. QED
      BY <1>3, <1>4, <3>1, Zenon
  <2>5. s.qualifies => s.state = "completed" /\ s.trusted = Cycle
    BY <1>4
  <2>6. QED
    BY <2>1, <2>2, <2>3, <2>4, <2>5 DEF Totals!ShadowAccepted
<1>6. ASSUME NEW by \in {-1, 1}
      PROVE  /\ ~Totals!ShadowAccepted([s EXCEPT !["trusted"] = @ + by])
             /\ ~Totals!ShadowAccepted([s EXCEPT !["gaps"] = @ + by])
  <2>1. ASSUME NEW d, d.gaps # d.elapsed - d.trusted  PROVE ~Totals!ShadowAccepted(d)
    BY <2>1 DEF Totals!ShadowAccepted
  <2>2. ~Totals!ShadowAccepted([s EXCEPT !["trusted"] = @ + by])
    <3>. DEFINE d == [s EXCEPT !["trusted"] = @ + by]
    <3>1. d.trusted = trusted + by /\ d.elapsed = elapsed /\ d.gaps = elapsed - trusted
      OBVIOUS
    <3>. HIDE DEF d
    <3>2. d.gaps # d.elapsed - d.trusted
      BY <1>2, <3>1
    <3>3. ~Totals!ShadowAccepted(d)
      BY <2>1, <3>2
    <3>4. QED
      BY <3>3 DEF d
  <2>3. ~Totals!ShadowAccepted([s EXCEPT !["gaps"] = @ + by])
    <3>. DEFINE d == [s EXCEPT !["gaps"] = @ + by]
    <3>1. d.trusted = trusted /\ d.elapsed = elapsed /\ d.gaps = (elapsed - trusted) + by
      OBVIOUS
    <3>. HIDE DEF d
    <3>2. d.gaps # d.elapsed - d.trusted
      BY <1>2, <3>1
    <3>3. ~Totals!ShadowAccepted(d)
      BY <2>1, <3>2
    <3>4. QED
      BY <3>3 DEF d
  <2>4. QED
    BY <2>2, <2>3
<1>. HIDE DEF s
<1>7. QED
  BY <1>1, <1>5, <1>6

-----------------------------------------------------------------------------
(* Buckets.                                                                *)

\* The cuts at or before a place.
UpTo(cuts, h) == { g \in cuts : g <= h }
RankOf(cuts, h) == Cardinality(UpTo(cuts, h))

\* Every rank up to their number is that of one cut.
LEMMA RanksOf ==
    ASSUME NEW cuts \in SUBSET Nat, IsFiniteSet(cuts)
    PROVE  /\ Cardinality(cuts) \in Nat
           /\ \A c \in cuts : RankOf(cuts, c) \in 1 .. Cardinality(cuts)
           /\ \A c, d \in cuts : RankOf(cuts, c) = RankOf(cuts, d) => c = d
           /\ \A i \in 1 .. Cardinality(cuts) : \E c \in cuts : RankOf(cuts, c) = i
<1>. DEFINE n == Cardinality(cuts)
            f == [c \in cuts |-> RankOf(cuts, c)]
<1>1. n \in Nat
  BY FS_CardinalityType
<1>2. \A h : /\ UpTo(cuts, h) \in SUBSET cuts /\ IsFiniteSet(UpTo(cuts, h))
             /\ RankOf(cuts, h) \in Nat /\ RankOf(cuts, h) <= n
  <2>1. \A h : UpTo(cuts, h) \in SUBSET cuts
    BY DEF UpTo
  <2>2. QED
    BY <2>1, FS_Subset, FS_CardinalityType DEF RankOf
<1>3. \A c \in cuts : RankOf(cuts, c) \in 1 .. n
  <2>1. TAKE c \in cuts
  <2>2. c \in UpTo(cuts, c)
    BY DEF UpTo
  <2>3. RankOf(cuts, c) # 0
    BY <1>2, <2>2, FS_EmptySet DEF RankOf
  <2>4. QED
    BY <1>1, <1>2, <2>3
<1>4. ASSUME NEW c \in cuts, NEW d \in cuts, c < d  PROVE RankOf(cuts, c) # RankOf(cuts, d)
  <2>1. UpTo(cuts, c) \in SUBSET UpTo(cuts, d)
    <3>1. \A g \in cuts : g <= c => g <= d
      BY <1>4
    <3>2. QED
      BY <3>1 DEF UpTo
  <2>2. d \in UpTo(cuts, d) /\ d \notin UpTo(cuts, c)
    BY <1>4 DEF UpTo
  <2>3. QED
    BY <1>2, <2>1, <2>2, FS_Subset DEF RankOf
<1>5. \A c, d \in cuts : RankOf(cuts, c) = RankOf(cuts, d) => c = d
  <2>1. \A c, d \in cuts : c < d \/ d < c \/ c = d
    OBVIOUS
  <2>2. QED
    BY <1>4, <2>1
<1>6. f \in Injection(cuts, 1 .. n)
  <2>1. f \in [cuts -> 1 .. n]
    BY <1>3
  <2>2. IsInjective(f)
    BY <1>5 DEF IsInjective
  <2>3. QED
    BY <2>1, <2>2, Zenon DEF Injection
<1>7. IsFiniteSet(1 .. n) /\ Cardinality(1 .. n) = n
  <2>1. IsFiniteSet(1 .. n) /\ Cardinality(1 .. n) = IF 1 > n THEN 0 ELSE n - 1 + 1
    BY <1>1, FS_Interval
  <2>2. QED
    BY <1>1, <2>1
<1>8. f \in Surjection(cuts, 1 .. n)
  <2>. HIDE DEF f
  <2>1. QED
    BY <1>6, <1>7, FS_Injection
<1>9. \A i \in 1 .. n : \E c \in cuts : f[c] = i
  <2>. HIDE DEF f
  <2>1. QED
    BY <1>8 DEF Surjection
<1>10. QED
  BY <1>1, <1>3, <1>5, <1>9

\* The cut that follows a place has the next rank.
LEMMA NextRank ==
    ASSUME NEW cuts \in SUBSET Nat, IsFiniteSet(cuts), NEW b \in Nat, NEW d \in cuts,
           b < d, \A g \in cuts : ~(b < g /\ g < d)
    PROVE  RankOf(cuts, d) = RankOf(cuts, b) + 1
<1>1. UpTo(cuts, d) = UpTo(cuts, b) \cup {d}
  <2>1. \A g \in cuts : g <= d <=> g <= b \/ g = d
    OBVIOUS
  <2>2. QED
    BY <2>1 DEF UpTo
<1>2. d \notin UpTo(cuts, b)
  BY DEF UpTo
<1>3. IsFiniteSet(UpTo(cuts, b))
  <2>1. UpTo(cuts, b) \in SUBSET cuts
    BY DEF UpTo
  <2>2. QED
    BY <2>1, FS_Subset
<1>4. QED
  BY <1>1, <1>2, <1>3, FS_AddElement DEF RankOf

\* A day ends where the next multiple of its hours is.
LEMMA DayEnds ==
    ASSUME Totals!MeasurementsAssumption, NEW b \in Nat
    PROVE  /\ b % Day \in 0 .. (Day - 1)
           /\ (b + (Day - (b % Day))) % Day = 0
           /\ \A g \in Nat : b < g /\ g < b + (Day - (b % Day)) => g % Day # 0
<1>1. Day \in Nat /\ Day > 0
  BY DEF Totals!MeasurementsAssumption
<1>2. \A x \in Nat : /\ x \div Day \in Nat /\ x % Day \in Nat /\ x % Day < Day
                     /\ x = (x \div Day) * Day + (x % Day)
  BY <1>1
<1>3. ASSUME NEW p \in Nat, NEW q \in Nat, p < q  PROVE p * Day + Day <= q * Day
  <2>1. (p + 1) * Day <= q * Day
    BY <1>1, <1>3, TimesDay
  <2>2. (p + 1) * Day = p * Day + Day
    BY <1>1
  <2>3. QED
    BY <2>1, <2>2
<1>. DEFINE m == b \div Day
            d == b + (Day - (b % Day))
<1>4. m \in Nat /\ m * Day \in Nat /\ b = m * Day + (b % Day) /\ d = m * Day + Day
  BY <1>1, <1>2
<1>5. (m + 1) * Day = m * Day + Day /\ m + 1 \in Nat
  BY <1>1, <1>4
<1>. HIDE DEF m
<1>6. d % Day = 0
  <2>. DEFINE q == d \div Day
              r == d % Day
  <2>1. d \in Nat
    BY <1>1, <1>4
  <2>. HIDE DEF d
  <2>2. q \in Nat /\ r \in Nat /\ r < Day /\ d = q * Day + r
    BY <1>2, <2>1
  <2>. HIDE DEF q, r
  <2>3. q * Day \in Nat
    BY <1>1, <2>2
  <2>4. ~(q < m + 1)
    BY <1>1, <1>3, <1>4, <1>5, <2>2, <2>3
  <2>5. ~(m + 1 < q)
    BY <1>1, <1>3, <1>4, <1>5, <2>2, <2>3
  <2>6. q = m + 1
    BY <1>5, <2>2, <2>4, <2>5
  <2>7. r = 0
    BY <1>4, <1>5, <2>2, <2>3, <2>6
  <2>8. QED
    BY <2>7 DEF r
<1>7. ASSUME NEW g \in Nat, b < g, g < d, g % Day = 0  PROVE FALSE
  <2>. DEFINE k == g \div Day
  <2>1. k \in Nat /\ g = k * Day
    <3>1. k \in Nat /\ g = k * Day + 0
      BY <1>2, <1>7
    <3>2. k * Day \in Nat
      BY <1>1, <3>1
    <3>. HIDE DEF k
    <3>3. QED
      BY <3>1, <3>2
  <2>. HIDE DEF k, d
  <2>2. ~(k <= m)
    <3>1. SUFFICES ASSUME k <= m  PROVE FALSE
      OBVIOUS
    <3>2. k * Day <= m * Day
      BY <1>1, <1>4, <2>1, <3>1, TimesDay
    <3>3. QED
      BY <1>2, <1>4, <1>7, <2>1, <3>2
  <2>3. m * Day + Day <= k * Day
    BY <1>3, <1>4, <2>1, <2>2
  <2>4. QED
    BY <1>1, <1>4, <1>7, <2>1, <2>3
<1>8. QED
  BY <1>1, <1>2, <1>6, <1>7

\* What a window is cut at.
Cuttings == {"hour", "day"}

\* The cuts of a window of hours, and the bound at each rank.
CutsOf(first, end, by) == { h \in (first + 1) .. end : by = "hour" \/ h % Day = 0 \/ h = end }
BoundOf(cuts, first, i) == IF i = 0 THEN first ELSE CHOOSE h \in cuts : RankOf(cuts, h) = i

\* The end of the bucket that begins here.
EndOf(first, end, by, b) ==
    LET length == IF by = "hour" THEN 1 ELSE Day - (b % Day)
    IN b + (IF length < end - b THEN length ELSE end - b)

\* The cut after a place before the end.
LEMMA CutAfter ==
    ASSUME Totals!MeasurementsAssumption, NEW first \in Nat, NEW end \in Nat, NEW by \in Cuttings,
           NEW b \in Nat, first <= b, b < end
    PROVE  /\ EndOf(first, end, by, b) \in CutsOf(first, end, by)
           /\ b < EndOf(first, end, by, b)
           /\ \A g \in CutsOf(first, end, by) : ~(b < g /\ g < EndOf(first, end, by, b))
<1>. DEFINE d == EndOf(first, end, by, b)
<1>1. Day \in Nat /\ Day > 0
  BY DEF Totals!MeasurementsAssumption
<1>2. CASE by = "hour"
  <2>1. d = b + 1
    BY <1>2 DEF EndOf
  <2>2. QED
    BY <1>2, <2>1 DEF CutsOf
<1>3. CASE by = "day"
  <2>. DEFINE e == b + (Day - (b % Day))
  <2>1. /\ b % Day \in Nat /\ b % Day < Day /\ e % Day = 0
        /\ \A g \in Nat : b < g /\ g < e => g % Day # 0
    <3>1. /\ b % Day \in 0 .. (Day - 1) /\ e % Day = 0
          /\ \A g \in Nat : b < g /\ g < e => g % Day # 0
      BY DayEnds, Zenon
    <3>2. b % Day \in Nat /\ b % Day < Day
      BY <1>1, <3>1
    <3>3. QED
      BY <3>1, <3>2
  <2>2. e \in Nat /\ b < e
    BY <1>1, <2>1
  <2>3. d = IF e < end THEN e ELSE end
    BY <1>1, <1>3, <2>1 DEF EndOf
  <2>. HIDE DEF e, d
  <2>4. CutsOf(first, end, by) = { h \in (first + 1) .. end : h % Day = 0 \/ h = end }
    BY <1>3 DEF CutsOf
  <2>5. d \in (first + 1) .. end /\ (d % Day = 0 \/ d = end) /\ b < d /\ d \in Nat
    BY <2>1, <2>2, <2>3
  <2>6. \A g \in (first + 1) .. end : b < g /\ g < d => g % Day # 0 /\ g # end
    BY <2>1, <2>2, <2>3
  <2>7. d \in CutsOf(first, end, by) /\ \A g \in CutsOf(first, end, by) : ~(b < g /\ g < d)
    BY <2>4, <2>5, <2>6
  <2>8. QED
    BY <2>5, <2>7 DEF d
<1>4. QED
  BY <1>2, <1>3 DEF Cuttings

\* The bounds are the cuts in order, the last one the end.
LEMMA BoundsOf ==
    ASSUME Totals!MeasurementsAssumption, NEW first \in Nat, NEW end \in Nat, NEW by \in Cuttings,
           first < end, NEW cuts, cuts = CutsOf(first, end, by), NEW n, n = Cardinality(cuts)
    PROVE  /\ n \in Nat /\ n > 0
           /\ BoundOf(cuts, first, 0) = first /\ BoundOf(cuts, first, n) = end
           /\ \A i \in 1 .. n :
                 /\ BoundOf(cuts, first, i - 1) \in first .. (end - 1)
                 /\ BoundOf(cuts, first, i) = EndOf(first, end, by, BoundOf(cuts, first, i - 1))
                 /\ BoundOf(cuts, first, i - 1) < BoundOf(cuts, first, i)
                 /\ BoundOf(cuts, first, i) \in Nat
<1>. DEFINE B(i) == BoundOf(cuts, first, i)
<1>1. cuts \in SUBSET Nat /\ IsFiniteSet(cuts)
  <2>1. cuts \in SUBSET ((first + 1) .. end)
    BY DEF CutsOf
  <2>2. IsFiniteSet((first + 1) .. end)
    BY FS_Interval
  <2>3. QED
    BY <2>1, <2>2, FS_Subset
<1>2. end \in cuts /\ \A c \in cuts : first < c /\ c <= end
  BY DEF CutsOf
<1>3. /\ n \in Nat
      /\ \A c \in cuts : RankOf(cuts, c) \in 1 .. n
      /\ \A c, d \in cuts : RankOf(cuts, c) = RankOf(cuts, d) => c = d
      /\ \A i \in 1 .. n : \E c \in cuts : RankOf(cuts, c) = i
  BY <1>1, RanksOf
<1>4. RankOf(cuts, end) = n
  <2>1. UpTo(cuts, end) = cuts
    BY <1>2 DEF UpTo
  <2>2. QED
    BY <2>1 DEF RankOf
<1>5. RankOf(cuts, first) = 0
  <2>1. UpTo(cuts, first) = {}
    BY <1>1, <1>2 DEF UpTo
  <2>2. QED
    BY <2>1, FS_EmptySet DEF RankOf
<1>6. n > 0
  BY <1>2, <1>3, <1>4
<1>7. B(0) = first
  BY DEF BoundOf
<1>8. \A i \in 1 .. n : B(i) \in cuts /\ RankOf(cuts, B(i)) = i
  <2>1. TAKE i \in 1 .. n
  <2>2. PICK c \in cuts : RankOf(cuts, c) = i
    BY <1>3
  <2>3. i # 0
    OBVIOUS
  <2>4. B(i) = CHOOSE h \in cuts : RankOf(cuts, h) = i
    BY <2>3 DEF BoundOf
  <2>. HIDE DEF B
  <2>5. QED
    BY <2>2, <2>4
<1>9. \A i \in 0 .. n : RankOf(cuts, B(i)) = i /\ B(i) \in Nat /\ first <= B(i)
  <2>1. TAKE i \in 0 .. n
  <2>2. i = 0 \/ i \in 1 .. n
    BY <1>3
  <2>. HIDE DEF B
  <2>3. QED
    BY <1>1, <1>2, <1>5, <1>7, <1>8, <2>2
<1>. HIDE DEF B
<1>10. \A i \in 1 .. n : /\ B(i - 1) \in first .. (end - 1)
                         /\ B(i) = EndOf(first, end, by, B(i - 1))
                         /\ B(i - 1) < B(i) /\ B(i) \in Nat
  <2>1. TAKE i \in 1 .. n
  <2>2. i - 1 \in 0 .. n /\ i - 1 # n
    BY <1>3
  <2>3. RankOf(cuts, B(i - 1)) = i - 1 /\ B(i - 1) \in Nat /\ first <= B(i - 1)
    BY <1>9, <2>2
  <2>4. B(i - 1) # end
    BY <1>4, <2>2, <2>3
  <2>5. B(i - 1) <= end
    <3>1. CASE i - 1 = 0
      BY <1>7, <3>1
    <3>2. CASE i - 1 # 0
      <4>1. i - 1 \in 1 .. n
        BY <1>3, <3>2
      <4>2. QED
        BY <1>2, <1>8, <4>1
    <3>3. QED
      BY <3>1, <3>2
  <2>6. B(i - 1) < end
    BY <2>3, <2>4, <2>5
  <2>. DEFINE d == EndOf(first, end, by, B(i - 1))
  <2>7. /\ d \in cuts /\ B(i - 1) < d
        /\ \A g \in cuts : ~(B(i - 1) < g /\ g < d)
    BY <2>3, <2>6, CutAfter
  <2>. HIDE DEF d
  <2>8. RankOf(cuts, d) = (i - 1) + 1
    BY <1>1, <2>3, <2>7, NextRank
  <2>9. RankOf(cuts, d) = i
    BY <2>8
  <2>10. d = B(i)
    BY <1>3, <1>8, <2>7, <2>9
  <2>11. QED
    BY <1>1, <2>3, <2>6, <2>7, <2>10 DEF d
<1>11. B(n) = end
  <2>1. n \in 1 .. n
    BY <1>3, <1>6
  <2>2. B(n) \in cuts /\ RankOf(cuts, B(n)) = n
    BY <1>8, <2>1
  <2>3. RankOf(cuts, B(n)) = RankOf(cuts, end)
    BY <1>4, <2>2
  <2>4. \A c, d \in cuts : RankOf(cuts, c) = RankOf(cuts, d) => c = d
    BY <1>3
  <2>5. QED
    BY <1>2, <2>2, <2>3, <2>4
<1>12. QED
  BY <1>3, <1>6, <1>7, <1>10, <1>11 DEF B

\* The buckets of a window.
BucketsOf(first, end, by, cuts) ==
    [first |-> first, end |-> end, by |-> by,
     starts |-> [i \in 1 .. Cardinality(cuts) |-> BoundOf(cuts, first, i - 1)],
     ends |-> [i \in 1 .. Cardinality(cuts) |-> BoundOf(cuts, first, i)]]

LEMMA BucketsCut ==
    ASSUME NEW hours \in HourRows, NEW first \in Nat, NEW by
    PROVE  Totals!Buckets(hours, first, by) =
              BucketsOf(first, first + Len(hours), by, CutsOf(first, first + Len(hours), by))
<1>. DEFINE end == first + Len(hours)
            cuts == CutsOf(first, end, by)
            n == Cardinality(cuts)
<1>1. n \in Nat
  <2>1. cuts \in SUBSET ((first + 1) .. end)
    BY DEF CutsOf
  <2>2. IsFiniteSet((first + 1) .. end)
    BY FS_Interval DEF HourRows
  <2>3. QED
    BY <2>1, <2>2, FS_Subset, FS_CardinalityType
<1>2. \A i : BoundOf(cuts, first, i) =
          IF i = 0 THEN first ELSE CHOOSE h \in cuts : Totals!Cardinality({ g \in cuts : g <= h }) = i
  BY Zenon DEF BoundOf, RankOf, UpTo, Totals!Cardinality, Cardinality
<1>3. Totals!Cardinality(cuts) = n
  BY TotalsSizes
<1>. DEFINE boundTo(m) == [i \in 0 .. m |-> IF i = 0 THEN first
                ELSE CHOOSE h \in cuts : Totals!Cardinality({ g \in cuts : g <= h }) = i]
            Row(m) == [first |-> first, end |-> end, by |-> by,
                       starts |-> [i \in 1 .. m |-> boundTo(m)[i - 1]],
                       ends |-> [i \in 1 .. m |-> boundTo(m)[i]]]
            bound == boundTo(n)
<1>4. Totals!Buckets(hours, first, by) = Row(n)
  <2>1. Totals!Buckets(hours, first, by) = Row(Totals!Cardinality(cuts))
    BY Zenon DEF Totals!Buckets, CutsOf
  <2>. HIDE DEF Row, cuts, n
  <2>2. QED
    BY <1>3, <2>1, Zenon
<1>5. \A i \in 1 .. n : bound[i - 1] = BoundOf(cuts, first, i - 1) /\ bound[i] = BoundOf(cuts, first, i)
  <2>1. TAKE i \in 1 .. n
  <2>2. i - 1 \in 0 .. n /\ i \in 0 .. n
    BY <1>1
  <2>3. QED
    BY <1>2, <2>2, Zenon
<1>. HIDE DEF boundTo, n
<1>6. /\ [i \in 1 .. n |-> bound[i - 1]] = [i \in 1 .. n |-> BoundOf(cuts, first, i - 1)]
      /\ [i \in 1 .. n |-> bound[i]] = [i \in 1 .. n |-> BoundOf(cuts, first, i)]
  BY <1>5, Zenon
<1>7. QED
  BY <1>4, <1>6, Zenon DEF BucketsOf, n

\* The buckets of a window are accepted, and none that ends an hour later.
LEMMA BucketsAt ==
    ASSUME Totals!MeasurementsAssumption, NEW first \in Nat, NEW end \in Nat, NEW by \in Cuttings,
           first < end, NEW cuts, cuts = CutsOf(first, end, by), NEW n, n = Cardinality(cuts)
    PROVE  /\ Totals!BucketsAccepted(BucketsOf(first, end, by, cuts))
           /\ DOMAIN BucketsOf(first, end, by, cuts).ends = 1 .. n
           /\ \A i \in 1 .. n :
                 ~Totals!BucketsAccepted([BucketsOf(first, end, by, cuts) EXCEPT !.ends[i] = @ + 1])
<1>. DEFINE B(i) == BoundOf(cuts, first, i)
            starts == [i \in 1 .. n |-> B(i - 1)]
            ends == [i \in 1 .. n |-> B(i)]
            b == [first |-> first, end |-> end, by |-> by, starts |-> starts, ends |-> ends]
            Later(i) == [ends EXCEPT ![i] = ends[i] + 1]
            d(i) == [first |-> first, end |-> end, by |-> by, starts |-> starts, ends |-> Later(i)]
<1>1. BucketsOf(first, end, by, cuts) = b
  BY Zenon DEF BucketsOf
<1>2. end \in Nat /\ first < end
  OBVIOUS
<1>3. /\ n \in Nat /\ n > 0 /\ B(0) = first /\ B(n) = end
      /\ \A i \in 1 .. n : /\ B(i - 1) \in first .. (end - 1)
                           /\ B(i) = EndOf(first, end, by, B(i - 1))
                           /\ B(i - 1) < B(i) /\ B(i) \in Nat
  BY BoundsOf, SMT
<1>. HIDE DEF B
<1>4. /\ \A i \in 1 .. n : starts[i] = B(i - 1) /\ ends[i] = B(i)
      /\ DOMAIN ends = 1 .. n /\ Len(starts) = n
  BY <1>3
<1>5. \A i \in 1 .. n : DOMAIN Later(i) = 1 .. n /\ Later(i)[i] = B(i) + 1
                        /\ \A j \in 1 .. n : j # i => Later(i)[j] = B(j)
  BY <1>4
<1>. HIDE DEF starts, ends
<1>6. \A i \in 1 .. n : [b EXCEPT !.ends[i] = @ + 1] = d(i)
  OBVIOUS
<1>. HIDE DEF Later
<1>7. b.first = first /\ b.end = end /\ b.by = by /\ b.starts = starts /\ b.ends = ends
  OBVIOUS
<1>8. \A i : d(i).first = first /\ d(i).end = end /\ d(i).by = by /\ d(i).starts = starts /\ d(i).ends = Later(i)
  OBVIOUS
<1>. HIDE DEF b, d
<1>9. \A c, at : c.by = by => Totals!Interval(c, at) = IF by = "hour" THEN 1 ELSE Day - (at % Day)
  BY DEF Totals!Interval
<1>10. \A c, at : c.by = by /\ c.end = end =>
          EndOf(first, end, by, at) =
             at + (IF Totals!Interval(c, at) < end - at THEN Totals!Interval(c, at) ELSE end - at)
  BY <1>9, Zenon DEF EndOf
<1>11. Totals!BucketsAccepted(b)
  <2>. DEFINE Expected(i) == IF i = 1 THEN b.first ELSE b.ends[i - 1]
  <2>1. \A i \in 1 .. n : Expected(i) = B(i - 1)
    <3>1. TAKE i \in 1 .. n
    <3>2. i = 1 \/ i - 1 \in 1 .. n
      BY <1>3
    <3>3. i = 1 => i - 1 = 0
      OBVIOUS
    <3>4. QED
      BY <1>3, <1>4, <1>7, <3>2, <3>3
  <2>. HIDE DEF Expected
  <2>2. \A i \in 1 .. n : 
           LET left == b.end - Expected(i)
               length == IF Totals!Interval(b, Expected(i)) < left THEN Totals!Interval(b, Expected(i)) ELSE left
           IN  /\ b.starts[i] < b.ends[i]
               /\ b.starts[i] = Expected(i) /\ b.ends[i] = Expected(i) + length
    <3>1. TAKE i \in 1 .. n
    <3>2. b.starts[i] = Expected(i) /\ b.starts[i] < b.ends[i]
      BY <1>3, <1>4, <1>7, <2>1
    <3>3. b.ends[i] = EndOf(first, end, by, Expected(i))
      BY <1>3, <1>4, <1>7, <2>1
    <3>4. QED
      BY <1>7, <1>10, <3>2, <3>3
  <2>3. b.first < b.end /\ Len(b.starts) > 0 /\ b.ends[Len(b.starts)] = b.end
    BY <1>2, <1>3, <1>4, <1>7
  <2>4. Len(b.starts) = n
    BY <1>4, <1>7
  <2>5. QED
    BY <2>2, <2>3, <2>4 DEF Totals!BucketsAccepted, Expected
<1>12. ASSUME NEW i \in 1 .. n  PROVE ~Totals!BucketsAccepted(d(i))
  <2>. DEFINE c == d(i)
              Expected == IF i = 1 THEN c.first ELSE c.ends[i - 1]
              left == c.end - Expected
              length == IF Totals!Interval(c, Expected) < left THEN Totals!Interval(c, Expected) ELSE left
  <2>1. Expected = B(i - 1)
    <3>1. i = 1 \/ (i - 1 \in 1 .. n /\ i - 1 # i)
      BY <1>3
    <3>2. i = 1 => i - 1 = 0
      OBVIOUS
    <3>3. QED
      BY <1>3, <1>5, <1>8, <3>1, <3>2
  <2>2. c.ends[i] = B(i) + 1
    BY <1>5, <1>8
  <2>. HIDE DEF Expected
  <2>3. Expected + length = B(i)
    BY <1>3, <1>8, <1>10, <2>1
  <2>. HIDE DEF length, left
  <2>4. c.ends[i] # Expected + length
    BY <1>3, <2>2, <2>3
  <2>5. Len(c.starts) = n
    BY <1>4, <1>8
  <2>6. QED
    BY <2>4, <2>5 DEF Totals!BucketsAccepted, Expected, length, left
<1>13. DOMAIN b.ends = 1 .. n
  BY <1>4, <1>7
<1>14. \A i \in 1 .. n : ~Totals!BucketsAccepted([b EXCEPT !.ends[i] = @ + 1])
  BY <1>6, <1>12, Zenon
<1>15. QED
  BY <1>1, <1>11, <1>13, <1>14, Zenon

LEMMA BucketsJudged ==
    ASSUME Totals!MeasurementsAssumption, NEW hours \in HourRows, Len(hours) > 0,
           NEW first \in Nat, NEW by \in Cuttings
    PROVE  /\ Totals!BucketsAccepted(Totals!Buckets(hours, first, by))
           /\ \A i \in DOMAIN Totals!Buckets(hours, first, by).ends :
                 ~Totals!BucketsAccepted([Totals!Buckets(hours, first, by) EXCEPT !.ends[i] = @ + 1])
<1>1. PICK end \in Nat : end = first + Len(hours) /\ first < end
  BY DEF HourRows
<1>2. PICK cuts : cuts = CutsOf(first, end, by)
  OBVIOUS
<1>3. PICK n : n = Cardinality(cuts)
  OBVIOUS
<1>. DEFINE b == BucketsOf(first, end, by, cuts)
<1>4. /\ Totals!BucketsAccepted(b) /\ DOMAIN b.ends = 1 .. n
      /\ \A i \in 1 .. n : ~Totals!BucketsAccepted([b EXCEPT !.ends[i] = @ + 1])
  <2>1. first < end
    BY <1>1
  <2>2. Totals!BucketsAccepted(BucketsOf(first, end, by, cuts))
    BY <1>2, <1>3, <2>1, BucketsAt
  <2>3. DOMAIN BucketsOf(first, end, by, cuts).ends = 1 .. n
    BY <1>2, <1>3, <2>1, BucketsAt
  <2>4. \A i \in 1 .. n :
                 ~Totals!BucketsAccepted([BucketsOf(first, end, by, cuts) EXCEPT !.ends[i] = @ + 1])
    BY <1>2, <1>3, <2>1, BucketsAt
  <2>5. QED
    BY <2>2, <2>3, <2>4
<1>5. Totals!Buckets(hours, first, by) = b
  BY <1>1, <1>2, BucketsCut, Zenon
<1>. HIDE DEF b
<1>6. QED
  BY <1>4, <1>5, Zenon

-----------------------------------------------------------------------------
(* Readings.                                                               *)

Judgements == {"reading", "accepted", "refused"}
TotalTopics == {"metrics", "buckets", "calibration", "shadow"}
Off1 == {-1, 1}

\* What an answer may be: the sums, or the sums with one number off.
ReadingSound(row) ==
    /\ Totals!Accepted(row)
    /\ \A f \in Totals!Determined(row), by \in Off1 : ~Totals!Accepted([row EXCEPT ![f] = @ + by])
    /\ window = "buckets" => \A i \in DOMAIN row.ends : ~Totals!Accepted([row EXCEPT !.ends[i] = @ + 1])

\* The hours are of the kinds of their topic, a shadow cycle does not exceed its
\* length, and what was judged was judged as it deserves.
TotalsInv ==
    /\ window \in TotalTopics
    /\ rows \in HourRows
    /\ window = "shadow" => Len(rows) <= Cycle
    /\ judge \in Judgements
    /\ judge # "reading" => (judge = "accepted" <=> totals.honest)

\* An answer that adds the hours up is accepted, and one that is off is not.
LEMMA AnswerJudged ==
    ASSUME Totals!MeasurementsAssumption, TotalsInv, rows # <<>>, NEW row \in Totals!Says(window, rows)
    PROVE  ReadingSound(row)
<1>1. rows \in HourRows /\ Len(rows) > 0 /\ Len(rows) \in Nat
  BY DEF TotalsInv, HourRows
<1>2. CASE window = "metrics"
  <2>1. row = Totals!Metrics(rows)
    BY <1>2 DEF Totals!Says
  <2>2. \A r : Totals!Accepted(r) = Totals!MetricsAccepted(r)
    BY <1>2 DEF Totals!Accepted
  <2>3. Totals!Determined(row) =
           {"allocated", "busy", "idle", "stranded"}
           \cup (IF row.status = "partial" THEN {} ELSE {"capacity", "unknown"})
    BY <1>2 DEF Totals!Determined
  <2>4. /\ Totals!MetricsAccepted(row)
        /\ \A f \in {"allocated", "busy", "idle", "stranded"}, by \in {-1, 1} :
              ~Totals!MetricsAccepted([row EXCEPT ![f] = @ + by])
        /\ row.status # "partial" =>
              \A f \in {"capacity", "unknown"}, by \in {-1, 1} :
                 ~Totals!MetricsAccepted([row EXCEPT ![f] = @ + by])
    BY <1>1, <2>1, MetricsJudged, Zenon
  <2>5. window # "buckets"
    BY <1>2
  <2>6. \A f \in Totals!Determined(row) :
           f \in {"allocated", "busy", "idle", "stranded"}
           \/ (row.status # "partial" /\ f \in {"capacity", "unknown"})
    BY <2>3
  <2>7. QED
    BY <2>2, <2>4, <2>5, <2>6, Zenon DEF ReadingSound, Off1
<1>3. CASE window = "buckets"
  <2>1. PICK first \in 0 .. (Day - 1), by \in Cuttings : row = Totals!Buckets(rows, first, by)
    BY <1>3 DEF Totals!Says, Cuttings
  <2>2. first \in Nat
    BY <2>1 DEF Totals!MeasurementsAssumption
  <2>3. \A r : Totals!Accepted(r) = Totals!BucketsAccepted(r)
    BY <1>3 DEF Totals!Accepted
  <2>4. Totals!Determined(row) = {}
    BY <1>3 DEF Totals!Determined
  <2>5. /\ Totals!BucketsAccepted(row)
        /\ \A i \in DOMAIN row.ends : ~Totals!BucketsAccepted([row EXCEPT !.ends[i] = @ + 1])
    BY <1>1, <2>1, <2>2, BucketsJudged, Zenon
  <2>6. QED
    BY <2>3, <2>4, <2>5, Zenon DEF ReadingSound
<1>4. CASE window = "calibration"
  <2>1. row = Totals!Calibration(rows)
    BY <1>4 DEF Totals!Says
  <2>2. \A r : Totals!Accepted(r) = Totals!CalibrationAccepted(r)
    BY <1>4 DEF Totals!Accepted
  <2>3. Totals!Determined(row) = {"expected", "covered"}
    BY <1>4 DEF Totals!Determined
  <2>4. /\ Totals!CalibrationAccepted(row)
        /\ \A f \in {"expected", "covered"}, by \in {-1, 1} :
              ~Totals!CalibrationAccepted([row EXCEPT ![f] = @ + by])
    BY <1>1, <2>1, CalibrationJudged, Zenon
  <2>5. window # "buckets"
    BY <1>4
  <2>6. QED
    BY <2>2, <2>3, <2>4, <2>5, Zenon DEF ReadingSound, Off1
<1>5. CASE window = "shadow"
  <2>1. PICK ended \in BOOLEAN : row = Totals!Shadow(rows, ended)
    BY <1>5 DEF Totals!Says
  <2>2. \A r : Totals!Accepted(r) = Totals!ShadowAccepted(r)
    BY <1>5 DEF Totals!Accepted
  <2>3. Totals!Determined(row) = {"trusted", "gaps"}
    BY <1>5 DEF Totals!Determined
  <2>4. /\ Totals!ShadowAccepted(row)
        /\ \A f \in {"trusted", "gaps"}, by \in {-1, 1} :
              ~Totals!ShadowAccepted([row EXCEPT ![f] = @ + by])
    <3>1. Len(rows) <= Cycle
      BY <1>5 DEF TotalsInv
    <3>2. QED
      BY <1>1, <2>1, <3>1, ShadowJudged, Zenon
  <2>5. window # "buckets"
    BY <1>5
  <2>6. QED
    BY <2>2, <2>3, <2>4, <2>5, Zenon DEF ReadingSound, Off1
<1>6. QED
  BY <1>2, <1>3, <1>4, <1>5 DEF TotalsInv, TotalTopics

LEMMA TotalsInit == ASSUME Totals!MeasurementsAssumption, Totals!Init PROVE TotalsInv
<1>1. DOMAIN Totals!HourKinds = TotalTopics
  BY DEF Totals!HourKinds, TotalTopics
<1>2. rows = <<>> /\ rows \in HourRows /\ judge = "reading"
  BY DEF Totals!Init, HourRows
<1>3. QED
  BY <1>1, <1>2 DEF Totals!Init, TotalsInv, Judgements, Totals!MeasurementsAssumption

LEMMA TotalsPreserved ==
    ASSUME Totals!MeasurementsAssumption, TotalsInv, [Totals!Next]_(Totals!vars)
    PROVE  TotalsInv'
<1>1. CASE UNCHANGED Totals!vars
  BY <1>1 DEF TotalsInv, Totals!vars
<1>2. CASE Totals!HourPasses
  <2>1. PICK sort \in Totals!HourKinds[window] : rows' = Append(rows, sort)
    BY <1>2 DEF Totals!HourPasses
  <2>2. sort \in HourNames
    <3>1. \A t \in TotalTopics : Totals!HourKinds[t] \subseteq HourNames
      BY DEF Totals!HourKinds, TotalTopics, HourNames
    <3>2. QED
      BY <3>1 DEF TotalsInv
  <2>3. rows \in HourRows /\ rows' \in HourRows /\ Len(rows') = Len(rows) + 1 /\ Len(rows) \in Nat
    BY <2>1, <2>2 DEF TotalsInv, HourRows
  <2>4. window' = window /\ judge' = judge /\ totals' = totals
        /\ (window = "shadow" => Len(rows) < Cycle)
    BY <1>2 DEF Totals!HourPasses
  <2>5. window' = "shadow" => Len(rows') <= Cycle
    BY <2>3, <2>4 DEF Totals!MeasurementsAssumption
  <2>6. QED
    BY <2>3, <2>4, <2>5, Zenon DEF TotalsInv
<1>3. CASE Totals!Answers
  <2>1. window' = window /\ rows' = rows /\ rows # <<>>
        /\ judge' = (IF Totals!Accepted(totals'.row) THEN "accepted" ELSE "refused")
    BY <1>3 DEF Totals!Answers
  <2>2. PICK row \in Totals!Says(window, rows) :
           \/ totals' = [honest |-> TRUE, row |-> row]
           \/ \E f \in Totals!Determined(row), by \in {-1, 1} :
                 totals' = [honest |-> FALSE, row |-> [row EXCEPT ![f] = @ + by]]
           \/ /\ window = "buckets"
              /\ \E i \in DOMAIN row.ends : totals' = [honest |-> FALSE, row |-> [row EXCEPT !.ends[i] = @ + 1]]
    BY <1>3, Zenon DEF Totals!Answers
  <2>3. ReadingSound(row)
    BY <2>1, <2>2, AnswerJudged
  <2>4. \/ totals'.honest = TRUE /\ Totals!Accepted(totals'.row)
        \/ totals'.honest = FALSE /\ ~Totals!Accepted(totals'.row)
    <3>1. CASE totals' = [honest |-> TRUE, row |-> row]
      <4>1. totals'.honest = TRUE /\ totals'.row = row
        BY <3>1
      <4>2. QED
        BY <2>3, <4>1, Zenon DEF ReadingSound
    <3>2. ASSUME NEW f \in Totals!Determined(row), NEW by \in {-1, 1},
                 totals' = [honest |-> FALSE, row |-> [row EXCEPT ![f] = @ + by]]
          PROVE  totals'.honest = FALSE /\ ~Totals!Accepted(totals'.row)
      <4>. DEFINE r == [row EXCEPT ![f] = @ + by]
      <4>1. ~Totals!Accepted(r)
        BY <2>3, <3>2, Zenon DEF ReadingSound, Off1
      <4>2. totals' = [honest |-> FALSE, row |-> r]
        BY <3>2
      <4>. HIDE DEF r
      <4>3. totals'.honest = FALSE /\ totals'.row = r
        BY <4>2
      <4>4. QED
        BY <4>1, <4>3, Zenon
    <3>3. ASSUME window = "buckets", NEW i \in DOMAIN row.ends,
                 totals' = [honest |-> FALSE, row |-> [row EXCEPT !.ends[i] = @ + 1]]
          PROVE  totals'.honest = FALSE /\ ~Totals!Accepted(totals'.row)
      <4>. DEFINE r == [row EXCEPT !.ends[i] = @ + 1]
      <4>1. ~Totals!Accepted(r)
        BY <2>3, <3>3, Zenon DEF ReadingSound
      <4>2. totals' = [honest |-> FALSE, row |-> r]
        BY <3>3
      <4>. HIDE DEF r
      <4>3. totals'.honest = FALSE /\ totals'.row = r
        BY <4>2
      <4>4. QED
        BY <4>1, <4>3, Zenon
    <3>4. QED
      BY <2>2, <3>1, <3>2, <3>3, Zenon
  <2>5. judge' \in Judgements /\ (judge' = "accepted" <=> totals'.honest)
    <3>1. "accepted" # "refused" /\ "accepted" \in Judgements /\ "refused" \in Judgements
      BY DEF Judgements
    <3>2. QED
      BY <2>1, <2>4, <3>1, Zenon
  <2>6. QED
    BY <2>1, <2>5, Zenon DEF TotalsInv
<1>4. CASE Totals!ReadsAgain
  BY <1>4 DEF Totals!ReadsAgain, TotalsInv, Judgements
<1>5. QED
  BY <1>1, <1>2, <1>3, <1>4 DEF Totals!Next

LEMMA TotalsHolds == ASSUME TotalsInv PROVE Totals!TotalsJudged
BY Zenon DEF TotalsInv, Totals!TotalsJudged

\* What hourly rows add up to is accepted whenever it is read, and a number that
\* the others determine is noticed when it is wrong.
THEOREM TotalsSound ==
    ASSUME Totals!MeasurementsAssumption PROVE Totals!Spec => []Totals!TotalsJudged
<1>1. Totals!Init => TotalsInv
  BY TotalsInit
<1>2. TotalsInv /\ [Totals!Next]_(Totals!vars) => TotalsInv'
  BY TotalsPreserved
<1>3. TotalsInv => Totals!TotalsJudged
  BY TotalsHolds
<1>4. QED
  BY <1>1, <1>2, <1>3, PTL DEF Totals!Spec

-----------------------------------------------------------------------------
(* The composition.  A behaviour of Services is one of a single part, so   *)
(* what holds of the parts holds of it.                                    *)

\* A step of the composition is one of a part or a stutter, and leaves the part as it is.
LEMMA OnePart ==
    ASSUME [Next]_vars
    PROVE  /\ part' = part
           /\ part = "executions" => [Exec!Next]_(Exec!vars)
           /\ part = "downloads" => [Down!Next]_(Down!vars)
           /\ part = "calls" => [Calls!Next]_(Calls!vars)
           /\ part = "assistant" => [Talk!Next]_(Talk!vars)
           /\ part = "pools" => [Rented!Next]_(Rented!vars)
           /\ part = "snapshots" => [Packed!Next]_(Packed!vars)
           /\ part = "login" => [SignIn!Next]_(SignIn!vars)
           /\ part = "launch" => [Machines!Next]_(Machines!vars)
           /\ part = "imports" => [Exports!Next]_(Exports!vars)
           /\ part = "commands" => [Typed!Next]_(Typed!vars)
           /\ part = "mutations" => [Changes!Next]_(Changes!vars)
           /\ part = "tasks" => [Awaited!Next]_(Awaited!vars)
           /\ part = "listings" => [List!Next]_(List!vars)
           /\ part = "progress" => [Shown!Next]_(Shown!vars)
           /\ part = "measurements" => [Totals!Next]_(Totals!vars)
           /\ part = "files" => [Files!Next]_(Files!vars)
           /\ part = "artifacts" => [Blobs!Next]_(Blobs!vars)
           /\ part = "projects" => [Uploads!Next]_(Uploads!vars)
           /\ part = "events" => [Emitted!Next]_(Emitted!vars)
<1>1. \A p : Only(p) => part = p /\ part' = part
  BY DEF Only
<1>2. CASE UNCHANGED vars
  <2>1. /\ part' = part
        /\ UNCHANGED execVars /\ UNCHANGED downVars /\ UNCHANGED loginVars
        /\ UNCHANGED launchVars /\ UNCHANGED typedVars /\ UNCHANGED exportsVars
        /\ UNCHANGED changesVars /\ UNCHANGED awaitedVars /\ UNCHANGED callsVars
        /\ UNCHANGED talkVars /\ UNCHANGED poolsVars /\ UNCHANGED packVars
        /\ UNCHANGED listVars /\ UNCHANGED shownVars /\ UNCHANGED totalsVars
        /\ UNCHANGED filesVars /\ UNCHANGED blobsVars /\ UNCHANGED uploadsVars
        /\ UNCHANGED emittedVars
    BY <1>2 DEF vars
  <2>2. UNCHANGED Exec!vars /\ UNCHANGED Down!vars /\ UNCHANGED SignIn!vars
    BY <2>1 DEF execVars, Exec!vars, downVars, Down!vars, loginVars, SignIn!vars
  <2>3. UNCHANGED Machines!vars /\ UNCHANGED Exports!vars /\ UNCHANGED Awaited!vars
    BY <2>1 DEF launchVars, Machines!vars, exportsVars, Exports!vars, awaitedVars, Awaited!vars
  <2>4. UNCHANGED Typed!vars /\ UNCHANGED Changes!vars
    BY <2>1 DEF typedVars, Typed!vars, changesVars, Changes!vars
  <2>5. UNCHANGED Calls!vars /\ UNCHANGED Talk!vars /\ UNCHANGED Rented!vars
    BY <2>1 DEF callsVars, Calls!vars, talkVars, Talk!vars, poolsVars, Rented!vars
  <2>6. UNCHANGED Packed!vars
    BY <2>1 DEF packVars, Packed!vars
  <2>7. UNCHANGED List!vars /\ UNCHANGED Shown!vars /\ UNCHANGED Totals!vars
    BY <2>1 DEF listVars, List!vars, shownVars, Shown!vars, totalsVars, Totals!vars
  <2>8. UNCHANGED Files!vars /\ UNCHANGED Blobs!vars
    BY <2>1 DEF filesVars, Files!vars, blobsVars, Blobs!vars
  <2>9. UNCHANGED Uploads!vars /\ UNCHANGED Emitted!vars
    BY <2>1 DEF uploadsVars, Uploads!vars, emittedVars, Emitted!vars
  <2>10. QED
    BY <2>1, <2>2, <2>3, <2>4, <2>5, <2>6, <2>7, <2>8, <2>9
<1>3. CASE Next
  BY <1>1, <1>3 DEF Next, ExecutionsStep, FilesStep, DownloadsStep, CallsStep, ArtifactsStep,
     LoginStep, LaunchStep, ListingsStep, CommandsStep, SnapshotsStep, PoolsStep, MeasurementsStep,
     ProgressStep, ProjectsStep, ImportsStep, MutationsStep, EventsStep, TasksStep, AssistantStep
<1>4. QED
  BY <1>2, <1>3

\* A behaviour that is one of downloads keeps their invariant.
LEMMA DownloadsPart == Spec => [](part = "downloads" => DownloadsInv)
<1>1. Init => (part = "downloads" => DownloadsInv)
  BY InstancesMeetTheirAssumptions, DownloadsInit DEF Init
<1>2. (part = "downloads" => DownloadsInv) /\ [Next]_vars => (part = "downloads" => DownloadsInv)'
  BY InstancesMeetTheirAssumptions, OnePart, DownloadsPreserved
<1>3. QED
  BY <1>1, <1>2, PTL DEF Spec

\* A behaviour that is one of logins keeps their invariant.
LEMMA LoginPart == Spec => [](part = "login" => LoginInv)
<1>1. Init => (part = "login" => LoginInv)
  BY InstancesMeetTheirAssumptions, LoginInit DEF Init
<1>2. (part = "login" => LoginInv) /\ [Next]_vars => (part = "login" => LoginInv)'
  BY InstancesMeetTheirAssumptions, OnePart, LoginPreserved
<1>3. QED
  BY <1>1, <1>2, PTL DEF Spec

\* A behaviour that is one of executions keeps their invariant.
LEMMA ExecutionsPart == Spec => [](part = "executions" => ExecutionsInv)
<1>1. Init => (part = "executions" => ExecutionsInv)
  BY InstancesMeetTheirAssumptions, ExecutionsInit DEF Init
<1>2. (part = "executions" => ExecutionsInv) /\ [Next]_vars => (part = "executions" => ExecutionsInv)'
  BY InstancesMeetTheirAssumptions, OnePart, ExecutionsPreserved
<1>3. QED
  BY <1>1, <1>2, PTL DEF Spec

\* A behaviour that is one of imports keeps their invariant.
LEMMA ImportsPart == Spec => [](part = "imports" => ImportsInv)
<1>1. Init => (part = "imports" => ImportsInv)
  BY InstancesMeetTheirAssumptions, ImportsInit DEF Init
<1>2. (part = "imports" => ImportsInv) /\ [Next]_vars => (part = "imports" => ImportsInv)'
  BY InstancesMeetTheirAssumptions, OnePart, ImportsPreserved
<1>3. QED
  BY <1>1, <1>2, PTL DEF Spec

\* A behaviour that is one of commands keeps their invariant.
LEMMA CommandsPart == Spec => [](part = "commands" => CommandsInv)
<1>1. Init => (part = "commands" => CommandsInv)
  BY InstancesMeetTheirAssumptions, CommandsInit DEF Init
<1>2. (part = "commands" => CommandsInv) /\ [Next]_vars => (part = "commands" => CommandsInv)'
  BY InstancesMeetTheirAssumptions, OnePart, CommandsPreserved
<1>3. QED
  BY <1>1, <1>2, PTL DEF Spec

\* A behaviour that is one of changes keeps their invariant.
LEMMA ChangesPart == Spec => [](part = "mutations" => ChangesInv)
<1>1. Init => (part = "mutations" => ChangesInv)
  BY InstancesMeetTheirAssumptions, ChangesInit DEF Init
<1>2. (part = "mutations" => ChangesInv) /\ [Next]_vars => (part = "mutations" => ChangesInv)'
  BY InstancesMeetTheirAssumptions, OnePart, ChangesPreserved
<1>3. QED
  BY <1>1, <1>2, PTL DEF Spec

\* A behaviour that is one of tasks keeps their invariant.
LEMMA TasksPart == Spec => [](part = "tasks" => AwaitedInv)
<1>1. Init => (part = "tasks" => AwaitedInv)
  BY InstancesMeetTheirAssumptions, AwaitedInit DEF Init
<1>2. (part = "tasks" => AwaitedInv) /\ [Next]_vars => (part = "tasks" => AwaitedInv)'
  BY InstancesMeetTheirAssumptions, OnePart, AwaitedStep
<1>3. QED
  BY <1>1, <1>2, PTL DEF Spec

\* A behaviour that is one of calls keeps their invariant.
LEMMA CallsPart == Spec => [](part = "calls" => CallsInv)
<1>1. Init => (part = "calls" => CallsInv)
  BY InstancesMeetTheirAssumptions, CallsInit DEF Init
<1>2. (part = "calls" => CallsInv) /\ [Next]_vars => (part = "calls" => CallsInv)'
  BY InstancesMeetTheirAssumptions, OnePart, CallsPreserved
<1>3. QED
  BY <1>1, <1>2, PTL DEF Spec

\* A behaviour that is one of launches keeps their invariant.
LEMMA LaunchPart == Spec => [](part = "launch" => LaunchInv)
<1>1. Init => (part = "launch" => LaunchInv)
  BY InstancesMeetTheirAssumptions, LaunchInit DEF Init
<1>2. (part = "launch" => LaunchInv) /\ [Next]_vars => (part = "launch" => LaunchInv)'
  BY InstancesMeetTheirAssumptions, OnePart, LaunchPreserved
<1>3. QED
  BY <1>1, <1>2, PTL DEF Spec

\* A behaviour that is one of assistants keeps their invariant.
LEMMA TalkPart == Spec => [](part = "assistant" => TalkInv)
<1>1. Init => (part = "assistant" => TalkInv)
  BY InstancesMeetTheirAssumptions, TalkInit DEF Init
<1>2. (part = "assistant" => TalkInv) /\ [Next]_vars => (part = "assistant" => TalkInv)'
  BY InstancesMeetTheirAssumptions, OnePart, TalkPreserved
<1>3. QED
  BY <1>1, <1>2, PTL DEF Spec

\* A behaviour that is one of a pool keeps their invariant.
LEMMA PoolsPart == Spec => [](part = "pools" => PoolsInv)
<1>1. Init => (part = "pools" => PoolsInv)
  BY InstancesMeetTheirAssumptions, PoolsInit DEF Init
<1>2. (part = "pools" => PoolsInv) /\ [Next]_vars => (part = "pools" => PoolsInv)'
  BY InstancesMeetTheirAssumptions, OnePart, PoolsPreserved
<1>3. QED
  BY <1>1, <1>2, PTL DEF Spec

\* A behaviour that is one of packing keeps their invariant.
LEMMA SnapshotsPart == Spec => [](part = "snapshots" => SnapshotInv)
<1>1. Init => (part = "snapshots" => SnapshotInv)
  BY InstancesMeetTheirAssumptions, SnapshotInit DEF Init
<1>2. (part = "snapshots" => SnapshotInv) /\ [Next]_vars => (part = "snapshots" => SnapshotInv)'
  BY InstancesMeetTheirAssumptions, OnePart, SnapshotPreserved
<1>3. QED
  BY <1>1, <1>2, PTL DEF Spec

\* A behaviour that is one of listings keeps their invariant.
LEMMA ListingsPart == Spec => [](part = "listings" => ListingInv)
<1>1. Init => (part = "listings" => ListingInv)
  BY InstancesMeetTheirAssumptions, ListingInit DEF Init
<1>2. (part = "listings" => ListingInv) /\ [Next]_vars => (part = "listings" => ListingInv)'
  BY InstancesMeetTheirAssumptions, OnePart, ListingPreserved
<1>3. QED
  BY <1>1, <1>2, PTL DEF Spec

\* A behaviour that is one of displays keeps their invariant.
LEMMA ProgressPart == Spec => [](part = "progress" => ProgressInv)
<1>1. Init => (part = "progress" => ProgressInv)
  BY InstancesMeetTheirAssumptions, ProgressInit DEF Init
<1>2. (part = "progress" => ProgressInv) /\ [Next]_vars => (part = "progress" => ProgressInv)'
  BY InstancesMeetTheirAssumptions, OnePart, ProgressPreserved
<1>3. QED
  BY <1>1, <1>2, PTL DEF Spec

\* A behaviour that is one of totals keeps their invariant.
LEMMA TotalsPart == Spec => [](part = "measurements" => TotalsInv)
<1>1. Init => (part = "measurements" => TotalsInv)
  BY InstancesMeetTheirAssumptions, TotalsInit DEF Init
<1>2. (part = "measurements" => TotalsInv) /\ [Next]_vars => (part = "measurements" => TotalsInv)'
  BY InstancesMeetTheirAssumptions, OnePart, TotalsPreserved
<1>3. QED
  BY <1>1, <1>2, PTL DEF Spec

\* A behaviour that is one of files keeps their invariant.
LEMMA FilesPart == Spec => [](part = "files" => FilesInv)
<1>1. Init => (part = "files" => FilesInv)
  BY InstancesMeetTheirAssumptions, FilesInit DEF Init
<1>2. (part = "files" => FilesInv) /\ [Next]_vars => (part = "files" => FilesInv)'
  BY InstancesMeetTheirAssumptions, OnePart, FilesPreserved
<1>3. QED
  BY <1>1, <1>2, PTL DEF Spec

\* A behaviour that is one of artifacts keeps their invariant.
LEMMA BlobsPart == Spec => [](part = "artifacts" => BlobsInv)
<1>1. Init => (part = "artifacts" => BlobsInv)
  BY InstancesMeetTheirAssumptions, BlobsInit DEF Init
<1>2. (part = "artifacts" => BlobsInv) /\ [Next]_vars => (part = "artifacts" => BlobsInv)'
  BY InstancesMeetTheirAssumptions, OnePart, BlobsPreserved
<1>3. QED
  BY <1>1, <1>2, PTL DEF Spec

\* A behaviour that is one of uploads keeps their invariant.
LEMMA UploadsPart == Spec => [](part = "projects" => UploadsInv)
<1>1. Init => (part = "projects" => UploadsInv)
  BY InstancesMeetTheirAssumptions, UploadsInit DEF Init
<1>2. (part = "projects" => UploadsInv) /\ [Next]_vars => (part = "projects" => UploadsInv)'
  BY InstancesMeetTheirAssumptions, OnePart, UploadsPreserved
<1>3. QED
  BY <1>1, <1>2, PTL DEF Spec

\* A behaviour that is one of events keeps their invariant.
LEMMA EmittedPart == Spec => [](part = "events" => EmittedInv)
<1>1. Init => (part = "events" => EmittedInv)
  BY InstancesMeetTheirAssumptions, EmittedInit DEF Init
<1>2. (part = "events" => EmittedInv) /\ [Next]_vars => (part = "events" => EmittedInv)'
  BY InstancesMeetTheirAssumptions, OnePart, EmittedPreserved
<1>3. QED
  BY <1>1, <1>2, PTL DEF Spec

\* What a download leaves at its destination is verified and whole, whenever it is
\* interrupted (_outputs.py:67-114).
THEOREM PublicationsWhole == Spec => []PublishedWhole
<1>1. (part = "downloads" => DownloadsInv) => PublishedWhole
  BY DEF DownloadsInv, PublishedWhole
<1>2. QED
  BY <1>1, DownloadsPart, PTL

\* A download told not to overwrite never takes the place of a file, even of one that
\* appeared after it looked (_outputs.py:103-110).
THEOREM FilesStay == Spec => NothingOverwritten
<1>1. (part = "downloads" => DownloadsInv) /\ [Next]_vars
         => [part = "downloads" => Down!PublishesBeside]_vars
  <2>1. ASSUME part = "downloads" => DownloadsInv, Next, part = "downloads"
        PROVE  Down!PublishesBeside \/ UNCHANGED vars
    <3>1. CASE Down!Next
      BY <2>1, <3>1, InstancesMeetTheirAssumptions, DownloadsNext
    <3>2. CASE UNCHANGED Down!vars
      BY <3>2 DEF Down!vars, Down!PublishesBeside
    <3>3. QED
      BY <2>1, <3>1, <3>2, OnePart
  <2>2. QED
    BY <2>1
<1>2. QED
  BY <1>1, DownloadsPart, PTL DEF Spec, NothingOverwritten

\* A key that reached this computer is stored or shown unless its process was killed, and
\* the file never pairs it with another key's name (cli.py:1203-1245, config.py:486-527).
THEOREM KeysAccounted == Spec => []KeyAccountedFor
<1>1. (part = "login" => LoginInv) => KeyAccountedFor
  BY DEF LoginInv, KeyAccountedFor
<1>2. QED
  BY <1>1, LoginPart, PTL

\* Nobody who gave a time is held longer: a wait for a command (_sandboxes.py:818-827), a
\* login (login.py:231-259), an import (_assets.py:241-256).
THEOREM DeadlinesMet == Spec => []DeadlinesKept
<1>1. (part = "executions" => ExecutionsInv) /\ (part = "login" => LoginInv)
         /\ (part = "imports" => ImportsInv) => DeadlinesKept
  BY DEF ExecutionsInv, LoginInv, ImportsInv, DeadlinesKept
<1>2. QED
  BY <1>1, ExecutionsPart, LoginPart, ImportsPart, PTL

\* Nobody is left without a word, or told what is not so: of a command, but for Ctrl-C at
\* two points and one refusal (cli.py:144-202, 344-361, 554-577, 787), an import (_assets.py:244-260), a change and a sandbox's block
\* (_operations.py:169-187, _sandboxes.py:722-731) and a cancelled wait
\* (__init__.py:2044-2050).
THEOREM EverythingTold == Spec => []NothingUntold
<1>1. CommandsInv => Typed!NothingUntold /\ Typed!SaidIsSo
  BY InstancesMeetTheirAssumptions, CommandsTell DEF CommandsInv
<1>2. ImportsInv => Exports!ExportNamed
  BY DEF ImportsInv
<1>3. ChangesInv => Changes!ReturnedIsDone /\ Changes!QuietExit
  BY DEF ChangesInv
<1>4. AwaitedInv => Awaited!ToldOrCancelled /\ Awaited!CancelPursued
  BY Zenon DEF AwaitedInv, CancelInv, Pursued, Awaited!ToldOrCancelled, Awaited!CancelPursued,
     Awaited!Interrupted
<1>5. /\ part = "commands" => CommandsInv
      /\ part = "imports" => ImportsInv
      /\ part = "mutations" => ChangesInv
      /\ part = "tasks" => AwaitedInv
      => NothingUntold
  BY <1>1, <1>2, <1>3, <1>4 DEF NothingUntold
<1>6. QED
  BY <1>5, CommandsPart, ImportsPart, ChangesPart, TasksPart, PTL

\* What costs money happens once: a completion, unless an entrypoint asked again after an
\* expired result or a closed broker (_agent_broker.py:65-135), a machine, unless a start of a
\* workspace arrives late (_compute.py:226-230, 242-252, 266-298), what a user of the command
\* line wanted, where it is not silent (cli.py:344-361), a change of a service
\* (_managed_agents.py:72-85), a workload (__init__.py:1761-1767) and the assistant's model
\* call (managed_assistant.py:78-86).
THEOREM EverythingPaidOnce == Spec => []PaidOnce
<1>1. CallsInv => Calls!PaidOnce
  BY InstancesMeetTheirAssumptions, CallsPaidOnce
<1>2. LaunchInv => Machines!OneMachinePerLaunch
  BY DEF LaunchInv, MachineInv, Machines!OneMachinePerLaunch
<1>3. CommandsInv => Typed!OneEffectPerWish
  BY InstancesMeetTheirAssumptions, CommandsOnce
<1>4. ChangesInv => Changes!OneEffectPerWish
  BY InstancesMeetTheirAssumptions, ChangesOnce
<1>5. AwaitedInv => Awaited!OneWorkload
  BY InstancesMeetTheirAssumptions, AwaitedPays
<1>6. TalkInv => Talk!AskedOnce
  BY DEF TalkInv, Talk!AskedOnce
<1>7. /\ part = "calls" => CallsInv
      /\ part = "launch" => LaunchInv
      /\ part = "commands" => CommandsInv
      /\ part = "mutations" => ChangesInv
      /\ part = "tasks" => AwaitedInv
      /\ part = "assistant" => TalkInv
      => PaidOnce
  BY <1>1, <1>2, <1>3, <1>4, <1>5, <1>6 DEF PaidOnce
<1>8. QED
  BY <1>7, CallsPart, LaunchPart, CommandsPart, ChangesPart, TasksPart, TalkPart, PTL

\* Accounts of the same thing agree: a replay gets the answers the earlier session got, unless
\* one asked again blindly (_agent_models.py:29-142, _agent_broker.py:121-135), a saved conversation is that of the recorded answers
\* (managed_assistant.py:62-94), the callers of a pool are told one decision
\* (_pool_proposals.py:58-122) and a change is applied to what its author had seen
\* (_operations.py:287-290).
THEOREM EverythingAgrees == Spec => []ReplaysAgree
<1>1. CallsInv => Calls!RepliesAgree /\ Calls!LeavesRecorded
  BY InstancesMeetTheirAssumptions, CallsAgree, CallsLeave
<1>2. TalkInv => Talk!ConversationKept
  BY TalkKept
<1>3. PoolsInv => Rented!ConfirmedHeld /\ Rented!DecisionsAgree /\ Rented!RecordsReadable
  BY PoolsAgree
<1>4. ChangesInv => Changes!NoEditUndone /\ Changes!AppliedAsAsked
  BY DEF ChangesInv
<1>5. /\ part = "calls" => CallsInv
      /\ part = "assistant" => TalkInv
      /\ part = "pools" => PoolsInv
      /\ part = "mutations" => ChangesInv
      => ReplaysAgree
  BY <1>1, <1>2, <1>3, <1>4 DEF ReplaysAgree
<1>6. QED
  BY <1>5, CallsPart, TalkPart, PoolsPart, ChangesPart, PTL

\* A packed directory holds contents that existed: each file one it had
\* (_projects.py:112-135), and a workspace's archive the whole tree of one moment
\* (_workspace_archive.py:113-234).
THEOREM SnapshotsWhole == Spec => []SnapshotTaken
<1>1. (part = "snapshots" => SnapshotInv) => SnapshotTaken
  BY InstancesMeetTheirAssumptions, SnapshotsHold DEF SnapshotTaken
<1>2. QED
  BY <1>1, SnapshotsPart, PTL

\* What is read page by page while it changes is not cut short: the output of a command
\* (_sandboxes.py:838-856), a listing (_compute.py:92-122, _sandboxes.py:493-510,
\* cli.py:316-340) and what a workload reports and prints (_terminal.py:221-292); and the
\* totals of a window of hours are judged rightly (_pools.py:168-210).
THEOREM ReadsWhole == Spec => []ReadsComplete
<1>1. ExecutionsInv => Exec!OutputComplete
  BY DEF ExecutionsInv
<1>2. ListingInv => List!ListingComplete
  BY InstancesMeetTheirAssumptions, ListingHolds
<1>3. ProgressInv => Shown!OutputShown
  BY InstancesMeetTheirAssumptions, ProgressHolds
<1>4. TotalsInv => Totals!TotalsJudged
  BY TotalsHolds
<1>5. /\ part = "executions" => ExecutionsInv
      /\ part = "listings" => ListingInv
      /\ part = "progress" => ProgressInv
      /\ part = "measurements" => TotalsInv
      => ReadsComplete
  BY <1>1, <1>2, <1>3, <1>4 DEF ReadsComplete
<1>6. QED
  BY <1>5, ExecutionsPart, ListingsPart, ProgressPart, TotalsPart, PTL

\* What arrives is what was given, whole: a write to and a read of a sandbox's file with
\* other writers at work (_sandbox_files.py:104-193), an artifact uploaded by one session
\* and completed by the next (_agent_artifacts.py:92-157), a project that is packed,
\* uploaded once and cached (_projects.py:185-220), and the lines a trainer's threads
\* write about its attempts (_rl_events.py:163-167, 272-289, 353-380).
THEOREM TransfersKeptWhole == Spec => []TransfersWhole
<1>1. FilesInv => Files!WriteIsWhole /\ Files!ReadIsWhole
  BY FilesHold
<1>2. BlobsInv => Blobs!CommittedIsGiven
  BY BlobsHold
<1>3. UploadsInv => Uploads!MadeFromThis /\ Uploads!RefusedForChange
  BY UploadsHold
<1>4. EmittedInv => Emitted!LinesWhole /\ Emitted!AttemptsKept /\ Emitted!NothingDropped
  BY EmittedHold
<1>5. /\ part = "files" => FilesInv
      /\ part = "artifacts" => BlobsInv
      /\ part = "projects" => UploadsInv
      /\ part = "events" => EmittedInv
      => TransfersWhole
  BY <1>1, <1>2, <1>3, <1>4 DEF TransfersWhole
<1>6. QED
  BY <1>5, FilesPart, BlobsPart, UploadsPart, EmittedPart, PTL
=============================================================================
