--------------------------- MODULE Effects_proofs ----------------------------
(***************************************************************************)
(* What calls do to services and to this computer, for every value of the  *)
(* constants: nothing twice, nothing undone, nothing without a word.  The  *)
(* parts are those of Services, under the same names and variables; they   *)
(* share no state, and each has its own section: its inductive invariant,  *)
(* the lemma of one step, the theorem.                                     *)
(***************************************************************************)
EXTENDS Services, Sequences, FiniteSets, FiniteSetTheorems, WellFoundedInduction, TLAPS

-----------------------------------------------------------------------------
(* Downloads.  Only verified bytes come as far as a publication, and a     *)
(* download that replaces was told it may.  The directory is never put     *)
(* back, so a temporary file left for another directory stays out of place.*)

DownloadsInv ==
    /\ Down!TypeOK /\ directory <= user
    /\ \A p \in Downloaders :
          /\ pull[p].identity <= directory
          /\ pull[p].phase \in {"idle", "copy"} => pull[p].size <= FilePieces
          /\ pull[p].phase \in {"publish", "link"} => pull[p].size = FilePieces /\ pull[p].intact
          /\ pull[p].phase = "publish" => pull[p].overwrite
          /\ pull[p].phase = "idle" => temporary[p] = None
    /\ Down!PublishedWhole

\* The initial state of the downloads satisfies their invariant.
LEMMA DownloadsInit ==
    ASSUME Down!DownloadsAssumption, Down!Init
    PROVE  DownloadsInv
<1> USE DEF Down!DownloadsAssumption, Down!Init, Down!Directories
<1>1. /\ directory = 0 /\ user = 0 /\ MaxUser \in Nat /\ FilePieces \in Nat
      /\ temporary = [p \in Downloaders |-> None]
  OBVIOUS
<1>2. /\ present \in [0 .. MaxUser -> Down!Contents \cup {None}]
      /\ \A d \in 0 .. MaxUser : present[d] # None => Down!Whole(present[d])
  <2>1. Down!UserContent \in Down!Contents /\ Down!Whole(Down!UserContent)
    BY DEF Down!UserContent, Down!Contents, Down!Whole
  <2>2. PICK saved \in {None, Down!UserContent} :
           present = [d \in Down!Directories |-> IF d = 0 THEN saved ELSE None]
    OBVIOUS
  <2>3. QED
    BY <2>1, <2>2
<1>3. PICK Fresh : Fresh = { [phase |-> "idle", overwrite |-> overwrite, identity |-> 0,
           published |-> FALSE, size |-> 0, intact |-> TRUE] : overwrite \in BOOLEAN }
  OBVIOUS
<1>4. /\ pull \in [Downloaders -> Down!Calls]
      /\ \A p \in Downloaders : pull[p].phase = "idle" /\ pull[p].identity = 0 /\ pull[p].size = 0
  <2>1. pull \in [Downloaders -> Fresh]
    BY <1>3
  <2>2. ASSUME NEW c \in Fresh  PROVE  c \in Down!Calls /\ c.phase = "idle" /\ c.identity = 0 /\ c.size = 0
    <3>1. PICK overwrite \in BOOLEAN :
             c = [phase |-> "idle", overwrite |-> overwrite, identity |-> 0, published |-> FALSE,
                  size |-> 0, intact |-> TRUE]
      BY <1>3
    <3>2. 0 \in Down!Directories /\ 0 \in 0 .. FilePieces + 1
      BY <1>1
    <3>3. QED
      BY <3>1, <3>2 DEF Down!Calls
  <2>3. QED
    BY <2>1, <2>2
<1>5. Down!TypeOK
  BY <1>1, <1>2, <1>4 DEF Down!TypeOK
<1>6. Down!PublishedWhole
  BY <1>2, <1>4 DEF Down!PublishedWhole
<1>7. QED
  BY <1>1, <1>4, <1>5, <1>6 DEF DownloadsInv

\* A step of one download keeps the invariant when what it makes of its call, its
\* temporary file and the destination is sound.
LEMMA DownloadKept ==
    ASSUME Down!DownloadsAssumption, DownloadsInv, NEW p \in Downloaders,
           NEW c \in Down!Calls, NEW t \in Down!Directories \cup {None},
           pull' = [pull EXCEPT ![p] = c], temporary' = [temporary EXCEPT ![p] = t],
           c.identity <= directory, c.phase # "idle", c.phase = "copy" => c.size <= FilePieces,
           c.phase \in {"publish", "link"} => c.size = FilePieces /\ c.intact,
           c.phase = "publish" => c.overwrite,
           c.phase = "done" /\ t # None => c.identity # directory,
           present' \in [Down!Directories -> Down!Contents \cup {None}],
           \A d \in Down!Directories : present'[d] # None => Down!Whole(present'[d]),
           UNCHANGED <<directory, user>>
    PROVE  DownloadsInv'
<1> USE DEF DownloadsInv, Down!TypeOK
<1>1. pull' \in [Downloaders -> Down!Calls] /\ temporary' \in [Downloaders -> Down!Directories \cup {None}]
  OBVIOUS
<1>2. Down!TypeOK'
  BY <1>1 DEF Down!Directories, Down!Contents, Down!Calls
<1>3. ASSUME NEW q \in Downloaders
      PROVE  /\ pull'[q].identity <= directory'
             /\ pull'[q].phase \in {"idle", "copy"} => pull'[q].size <= FilePieces
             /\ pull'[q].phase \in {"publish", "link"} => pull'[q].size = FilePieces /\ pull'[q].intact
             /\ pull'[q].phase = "publish" => pull'[q].overwrite
             /\ pull'[q].phase = "idle" => temporary'[q] = None
             /\ pull'[q].phase = "done" /\ temporary'[q] # None => pull'[q].identity # directory'
  BY DEF Down!PublishedWhole
<1>4. Down!PublishedWhole'
  BY <1>3 DEF Down!PublishedWhole, Down!Whole, Down!Directories
<1>5. QED
  BY <1>2, <1>3, <1>4

\* What the steps make of a call.
LEMMA DownloadFields ==
    ASSUME NEW c \in Down!Calls
    PROVE  /\ \A phase \in {"copy", "publish", "link", "finally", "done", "killed"} :
                 [c EXCEPT !.phase = phase] \in Down!Calls
           /\ \A d \in Down!Directories : [c EXCEPT !.phase = "copy", !.identity = d] \in Down!Calls
           /\ \A n \in 0 .. FilePieces + 1, intact \in BOOLEAN, phase \in {"copy", "finally"} :
                 [c EXCEPT !.size = n, !.intact = intact, !.phase = phase] \in Down!Calls
           /\ [c EXCEPT !.phase = "finally", !.published = TRUE] \in Down!Calls
           /\ c.size \in 0 .. FilePieces + 1 /\ c.intact \in BOOLEAN /\ c.identity \in Down!Directories
<1>1. \A phase \in {"copy", "publish", "link", "finally", "done", "killed"} :
         [c EXCEPT !.phase = phase] \in Down!Calls
  BY DEF Down!Calls
<1>2. \A d \in Down!Directories : [c EXCEPT !.phase = "copy", !.identity = d] \in Down!Calls
  BY DEF Down!Calls
<1>3. \A n \in 0 .. FilePieces + 1, intact \in BOOLEAN, phase \in {"copy", "finally"} :
         [c EXCEPT !.size = n, !.intact = intact, !.phase = phase] \in Down!Calls
  BY DEF Down!Calls
<1>4. [c EXCEPT !.phase = "finally", !.published = TRUE] \in Down!Calls
  BY DEF Down!Calls
<1>5. c.size \in 0 .. FilePieces + 1 /\ c.intact \in BOOLEAN /\ c.identity \in Down!Directories
  BY DEF Down!Calls
<1>6. QED
  BY <1>1, <1>2, <1>3, <1>4, <1>5

\* A step of one download keeps the invariant when what it makes of its call and of its
\* temporary file is sound, and the destination is as it was.
LEMMA DownloadQuiet ==
    ASSUME Down!DownloadsAssumption, DownloadsInv, NEW p \in Downloaders,
           NEW c \in Down!Calls, NEW t \in Down!Directories \cup {None},
           pull' = [pull EXCEPT ![p] = c], temporary' = [temporary EXCEPT ![p] = t],
           c.identity <= directory, c.phase # "idle", c.phase = "copy" => c.size <= FilePieces,
           c.phase \in {"publish", "link"} => c.size = FilePieces /\ c.intact,
           c.phase = "publish" => c.overwrite,
           c.phase = "done" /\ t # None => c.identity # directory,
           UNCHANGED <<directory, present, user>>
    PROVE  DownloadsInv' /\ Down!PublishesBeside
<1>1. /\ present \in [Down!Directories -> Down!Contents \cup {None}]
      /\ \A d \in Down!Directories : present[d] # None => Down!Whole(present[d])
  BY DEF DownloadsInv, Down!TypeOK, Down!PublishedWhole
<1>2. DownloadsInv'
  BY <1>1, DownloadKept
<1>3. QED
  BY <1>2 DEF Down!PublishesBeside

\* A download that publishes verified bytes, over a file only if it was told it may.
LEMMA DownloadPublishes ==
    ASSUME Down!DownloadsAssumption, DownloadsInv, NEW p \in Downloaders,
           NEW t \in Down!Directories \cup {None}, temporary' = [temporary EXCEPT ![p] = t],
           pull[p].size = FilePieces, pull[p].intact, Down!Publish(p),
           ~pull[p].overwrite => present[directory] = None, UNCHANGED <<directory, user>>
    PROVE  DownloadsInv' /\ Down!PublishesBeside
<1>1. /\ pull \in [Downloaders -> Down!Calls] /\ directory \in Down!Directories
      /\ pull[p].identity <= directory /\ FilePieces \in Nat
      /\ present \in [Down!Directories -> Down!Contents \cup {None}]
      /\ \A d \in Down!Directories : present[d] # None => Down!Whole(present[d])
  BY DEF DownloadsInv, Down!TypeOK, Down!PublishedWhole, Down!DownloadsAssumption
<1>2. PICK c : c = [pull[p] EXCEPT !.phase = "finally", !.published = TRUE]
  OBVIOUS
<1>3. PICK b : b = [by |-> p, size |-> pull[p].size, intact |-> pull[p].intact]
  OBVIOUS
<1>4. c \in Down!Calls /\ c.phase = "finally" /\ c.identity = pull[p].identity
  <2>1. c \in Down!Calls
    BY <1>1, <1>2, DownloadFields
  <2>2. QED
    BY <1>1, <1>2 DEF Down!Calls
<1>5. b \in Down!Contents /\ Down!Whole(b)
  BY <1>1, <1>3, DownloadFields DEF Down!Contents, Down!Whole
<1>6. pull' = [pull EXCEPT ![p] = c] /\ present' = [present EXCEPT ![directory] = b]
  BY <1>2, <1>3, Zenon DEF Down!Publish
<1>7. /\ present' \in [Down!Directories -> Down!Contents \cup {None}]
      /\ \A d \in Down!Directories : present'[d] # None => Down!Whole(present'[d])
  BY <1>1, <1>5, <1>6
<1>8. DownloadsInv'
  BY <1>1, <1>4, <1>6, <1>7, DownloadKept
<1>9. Down!PublishesBeside
  BY <1>1, <1>6 DEF Down!PublishesBeside
<1>10. QED
  BY <1>8, <1>9

\* Every step keeps it, and one that publishes without leave to overwrite finds
\* nothing at the destination.
LEMMA DownloadsNext ==
    ASSUME Down!DownloadsAssumption, DownloadsInv, Down!Next
    PROVE  DownloadsInv' /\ Down!PublishesBeside
<1> DEFINE S(p) == pull[p]
<1>1. directory \in Down!Directories /\ directory \in Nat /\ FilePieces \in Nat
  BY DEF DownloadsInv, Down!TypeOK, Down!DownloadsAssumption, Down!Directories
<1>2. ASSUME NEW p \in Downloaders
      PROVE  /\ S(p) \in Down!Calls /\ temporary = [temporary EXCEPT ![p] = temporary[p]]
             /\ temporary[p] \in Down!Directories \cup {None}
             /\ S(p).identity <= directory
             /\ S(p).phase \in {"idle", "copy"} => S(p).size <= FilePieces
             /\ S(p).phase \in {"publish", "link"} => S(p).size = FilePieces /\ S(p).intact
             /\ S(p).phase = "publish" => S(p).overwrite
             /\ S(p).phase = "idle" => temporary[p] = None
  BY DEF DownloadsInv, Down!TypeOK
<1>3. ASSUME NEW p \in Downloaders,
             NEW phase \in {"copy", "publish", "link", "finally", "done", "killed"},
             NEW t \in Down!Directories \cup {None},
             Down!Goto(p, phase), temporary' = [temporary EXCEPT ![p] = t],
             phase \in {"publish", "link"} => S(p).size = FilePieces /\ S(p).intact,
             phase = "publish" => S(p).overwrite, phase # "copy",
             phase = "done" /\ t # None => S(p).identity # directory,
             UNCHANGED <<directory, present, user>>
      PROVE  DownloadsInv' /\ Down!PublishesBeside
  <2>1. PICK c : c = [S(p) EXCEPT !.phase = phase]
    OBVIOUS
  <2>2. c \in Down!Calls
    BY <1>2, <2>1, DownloadFields
  <2>3. /\ c.phase = phase /\ c.size = S(p).size /\ c.intact = S(p).intact
        /\ c.overwrite = S(p).overwrite /\ c.identity = S(p).identity
    BY <1>2, <2>1 DEF Down!Calls
  <2>4. pull' = [pull EXCEPT ![p] = c]
    BY <1>3, <2>1, Zenon DEF Down!Goto
  <2>5. QED
    BY <1>2, <1>3, <2>2, <2>3, <2>4, DownloadQuiet
<1>4. ASSUME NEW p \in Downloaders, Down!Begin(p)  PROVE  DownloadsInv' /\ Down!PublishesBeside
  <2>1. S(p).phase = "idle" /\ temporary[p] = None /\ UNCHANGED <<directory, present, user>>
    BY <1>2, <1>4 DEF Down!Begin
  <2>2. CASE Down!Refused(p)
    BY <1>2, <1>3, <1>4, <2>1, <2>2 DEF Down!Begin
  <2>3. CASE ~Down!Refused(p)
    <3>1. PICK c : c = [S(p) EXCEPT !.phase = "copy", !.identity = directory]
      OBVIOUS
    <3>2. c \in Down!Calls
      BY <1>1, <1>2, <3>1, DownloadFields
    <3>3. c.phase = "copy" /\ c.identity = directory /\ c.size = S(p).size
      BY <1>2, <3>1 DEF Down!Calls
    <3>4. /\ pull' = [pull EXCEPT ![p].phase = "copy", ![p].identity = directory]
          /\ temporary' = [temporary EXCEPT ![p] = directory]
      BY <1>4, <2>3 DEF Down!Begin
    <3>5. pull' = [pull EXCEPT ![p] = c]
      BY <3>1, <3>4, Zenon
    <3>6. c.size <= FilePieces /\ c.identity <= directory
      BY <1>1, <1>2, <2>1, <3>3
    <3>7. QED
      BY <1>1, <2>1, <3>2, <3>3, <3>4, <3>5, <3>6, DownloadQuiet
  <2>4. QED
    BY <2>2, <2>3
<1>5. ASSUME NEW p \in Downloaders, Down!Copy(p)  PROVE  DownloadsInv' /\ Down!PublishesBeside
  <2>1. PICK intact \in BOOLEAN :
           pull' = [pull EXCEPT ![p].size = S(p).size + 1, ![p].intact = @ /\ intact,
                                ![p].phase = IF S(p).size + 1 > FilePieces THEN "finally" ELSE "copy"]
    BY <1>5 DEF Down!Copy
  <2>2. S(p).phase = "copy" /\ UNCHANGED <<directory, present, temporary, user>>
    BY <1>5 DEF Down!Copy
  <2>3. PICK n, phase, whole : /\ n = S(p).size + 1 /\ whole = (S(p).intact /\ intact)
                                  /\ phase = IF S(p).size + 1 > FilePieces THEN "finally" ELSE "copy"
    OBVIOUS
  <2>4. PICK c : c = [S(p) EXCEPT !.size = n, !.intact = whole, !.phase = phase]
    OBVIOUS
  <2>5. phase \in {"copy", "finally"} /\ whole \in BOOLEAN
    <3>1. \A b \in BOOLEAN : (b /\ intact) \in BOOLEAN
      OBVIOUS
    <3>2. S(p).intact \in BOOLEAN
      BY <1>2, DownloadFields
    <3>3. whole \in BOOLEAN
      BY <2>3, <3>1, <3>2, Zenon
    <3>4. QED
      BY <2>3, <3>3
  <2>6. n \in 0 .. FilePieces + 1 /\ (phase = "copy" => n <= FilePieces)
    <3>1. S(p).size \in 0 .. FilePieces + 1
      BY <1>2, DownloadFields
    <3>2. S(p).size <= FilePieces
      BY <1>2, <2>2
    <3>3. QED
      BY <1>1, <2>3, <3>1, <3>2
  <2>7. c \in Down!Calls
    BY <1>2, <2>4, <2>5, <2>6, DownloadFields
  <2>8. c.phase = phase /\ c.identity = S(p).identity /\ c.size = n
    BY <1>2, <2>4 DEF Down!Calls
  <2>9. pull' = [pull EXCEPT ![p] = c]
    BY <2>1, <2>3, <2>4, Zenon
  <2>10. /\ c.identity <= directory /\ c.phase \in {"copy", "finally"}
         /\ c.phase = "copy" => c.size <= FilePieces
    BY <1>2, <2>5, <2>6, <2>8
  <2>11. QED
    BY <1>2, <2>2, <2>7, <2>9, <2>10, DownloadQuiet
<1>6. ASSUME NEW p \in Downloaders, Down!StreamEnds(p)  PROVE  DownloadsInv' /\ Down!PublishesBeside
  <2>1. PICK phase \in {"finally", "publish", "link"} :
           /\ Down!Goto(p, phase) /\ UNCHANGED <<directory, present, temporary, user>>
           /\ phase \in {"publish", "link"} => S(p).size = FilePieces /\ S(p).intact
           /\ phase = "publish" => S(p).overwrite
    BY <1>6 DEF Down!StreamEnds, Down!Verified
  <2>2. QED
    BY <1>2, <1>3, <2>1
<1>7. ASSUME NEW p \in Downloaders, Down!AsyncCancelled(p)
      PROVE  DownloadsInv' /\ Down!PublishesBeside
  BY <1>2, <1>3, <1>7 DEF Down!AsyncCancelled
<1>8. ASSUME NEW p \in Downloaders, Down!Replace(p)  PROVE  DownloadsInv' /\ Down!PublishesBeside
  <2>1. S(p).phase = "publish" /\ UNCHANGED <<directory, user>>
    BY <1>8 DEF Down!Replace
  <2>2. CASE Down!TemporaryFound(p)
    BY <1>2, <1>8, <2>1, <2>2, DownloadPublishes DEF Down!Replace
  <2>3. CASE ~Down!TemporaryFound(p)
    BY <1>2, <1>3, <1>8, <2>1, <2>3 DEF Down!Replace
  <2>4. QED
    BY <2>2, <2>3
<1>9. ASSUME NEW p \in Downloaders, Down!Link(p)  PROVE  DownloadsInv' /\ Down!PublishesBeside
  <2>1. S(p).phase = "link" /\ UNCHANGED <<directory, temporary, user>>
    BY <1>9 DEF Down!Link
  <2>2. CASE S(p).identity = directory /\ Down!Linkable(p)
    BY <1>2, <1>9, <2>1, <2>2, DownloadPublishes DEF Down!Link, Down!Linkable
  <2>3. CASE ~(S(p).identity = directory /\ Down!Linkable(p))
    BY <1>2, <1>3, <1>9, <2>1, <2>3 DEF Down!Link
  <2>4. QED
    BY <2>2, <2>3
<1>10. ASSUME NEW p \in Downloaders, Down!Finally(p)  PROVE  DownloadsInv' /\ Down!PublishesBeside
  <2>1. Down!Goto(p, "done") /\ UNCHANGED <<directory, present, user>>
    BY <1>10 DEF Down!Finally
  <2>2. CASE Down!Tidied(p)
    BY <1>3, <1>10, <2>1, <2>2 DEF Down!Finally
  <2>3. CASE ~Down!Tidied(p)
    BY <1>2, <1>3, <1>10, <2>1, <2>3 DEF Down!Finally, Down!Tidied
  <2>4. QED
    BY <2>2, <2>3
<1>11. ASSUME NEW p \in Downloaders, Down!Killed(p)  PROVE  DownloadsInv' /\ Down!PublishesBeside
  BY <1>2, <1>3, <1>11 DEF Down!Killed
<1>12. ASSUME Down!UserSaves \/ Down!UserRemoves
       PROVE  DownloadsInv' /\ Down!PublishesBeside
  <2>1. PICK saved \in {Down!UserContent, None} :
           /\ present' = [present EXCEPT ![directory] = saved]
           /\ user < MaxUser /\ user' = user + 1 /\ UNCHANGED <<directory, temporary, pull>>
    BY <1>12 DEF Down!UserSaves, Down!UserRemoves
  <2>2. Down!UserContent \in Down!Contents /\ Down!Whole(Down!UserContent)
    BY <1>1 DEF Down!UserContent, Down!Contents, Down!Whole
  <2>3. /\ present' \in [Down!Directories -> Down!Contents \cup {None}]
        /\ \A d \in Down!Directories : present'[d] # None => Down!Whole(present'[d])
    BY <1>1, <2>1, <2>2 DEF DownloadsInv, Down!TypeOK, Down!PublishedWhole
  <2>4. user' \in 0 .. MaxUser /\ directory' <= user'
    BY <1>1, <2>1 DEF DownloadsInv, Down!TypeOK, Down!DownloadsAssumption
  <2>5. QED
    BY <2>1, <2>3, <2>4 DEF DownloadsInv, Down!TypeOK, Down!PublishedWhole, Down!PublishesBeside,
       Down!Whole, Down!Directories, Down!Contents, Down!Calls
<1>13. ASSUME Down!UserMoves  PROVE  DownloadsInv' /\ Down!PublishesBeside
  <2>1. /\ user < MaxUser /\ user' = user + 1 /\ directory' = directory + 1
        /\ UNCHANGED <<present, temporary, pull>>
    BY <1>13 DEF Down!UserMoves
  <2>2. user' \in 0 .. MaxUser /\ directory' <= user' /\ directory' \in Down!Directories
    BY <1>1, <2>1 DEF DownloadsInv, Down!TypeOK, Down!DownloadsAssumption, Down!Directories
  <2>3. ASSUME NEW p \in Downloaders
        PROVE  S(p).identity <= directory' /\ S(p).identity # directory'
    <3>1. S(p).identity \in Nat
      <4>1. S(p).identity \in Down!Directories
        BY <1>2, DownloadFields
      <4>2. QED
        BY <4>1 DEF Down!Directories, Down!DownloadsAssumption
    <3>2. QED
      BY <1>1, <1>2, <2>1, <3>1
  <2>4. Down!TypeOK'
    BY <2>1, <2>2 DEF DownloadsInv, Down!TypeOK, Down!Directories, Down!Contents, Down!Calls
  <2>5. Down!PublishedWhole'
    BY <2>1, <2>3 DEF DownloadsInv, Down!PublishedWhole, Down!Whole, Down!Directories
  <2>6. Down!PublishesBeside
    BY <2>1 DEF Down!PublishesBeside
  <2>7. QED
    BY <2>1, <2>2, <2>3, <2>4, <2>5, <2>6 DEF DownloadsInv
<1>14. QED
  BY <1>4, <1>5, <1>6, <1>7, <1>8, <1>9, <1>10, <1>11, <1>12, <1>13 DEF Down!Next

\* Every step or stutter keeps the invariant.
LEMMA DownloadsPreserved ==
    ASSUME Down!DownloadsAssumption, DownloadsInv, [Down!Next]_(Down!vars) PROVE DownloadsInv'
<1>1. ASSUME UNCHANGED Down!vars  PROVE DownloadsInv'
  BY <1>1 DEF DownloadsInv, Down!vars, Down!TypeOK, Down!PublishedWhole, Down!Whole,
     Down!Directories, Down!Contents, Down!Calls
<1>2. QED
  BY <1>1, DownloadsNext

\* So it holds in every behaviour.
LEMMA DownloadsInvariant ==
    ASSUME Down!DownloadsAssumption
    PROVE  Down!Spec => []DownloadsInv
<1>1. Down!Init => DownloadsInv
  BY DownloadsInit
<1>2. DownloadsInv /\ [Down!Next]_(Down!vars) => DownloadsInv'
  BY DownloadsPreserved
<1>3. QED
  BY <1>1, <1>2, PTL DEF Down!Spec

\* What a download leaves at its destination is verified and whole, and none that ended
\* leaves a temporary file behind in place (_outputs.py:67-114).
THEOREM DownloadsWhole ==
    ASSUME Down!DownloadsAssumption
    PROVE  Down!Spec => []Down!PublishedWhole
<1>1. DownloadsInv => Down!PublishedWhole
  BY DEF DownloadsInv
<1>2. QED
  BY <1>1, DownloadsInvariant, PTL

\* A download told not to overwrite never takes the place of a file, even of one that
\* appeared after it looked (_outputs.py:103-110).
THEOREM DownloadsBeside ==
    ASSUME Down!DownloadsAssumption
    PROVE  Down!Spec => Down!NothingOverwritten
<1>1. DownloadsInv /\ [Down!Next]_(Down!vars) => [Down!PublishesBeside]_(Down!vars)
  BY DownloadsNext
<1>2. QED
  BY <1>1, DownloadsInvariant, PTL DEF Down!Spec, Down!NothingOverwritten

-----------------------------------------------------------------------------
(* Login.  A key that was collected is on its way to the file, kept, or    *)
(* lost with its process; time is only spent by polls, which are begun in  *)
(* time.                                                                   *)

LoginStates == [phase: SignIn!Phases, spent: Nat, interval: 1 .. MaxInterval, named: BOOLEAN]

InTime(spent) == \A t \in RequestTimes :
                    (\A u \in RequestTimes : u <= t) => spent <= Lifetime + t

LoginInv ==
    /\ SignIn!TypeOK /\ login \in [Logins -> LoginStates]
    /\ SignIn!KeyAccountedFor /\ SignIn!PollsWithinDeadline

\* What the steps make of a login.
LEMMA LoginFields ==
    ASSUME NEW s \in LoginStates
    PROVE  /\ \A phase \in SignIn!Phases : [s EXCEPT !.phase = phase] \in LoginStates
           /\ \A phase \in SignIn!Phases, named \in BOOLEAN :
                 [s EXCEPT !.phase = phase, !.named = named] \in LoginStates
           /\ \A interval \in 1 .. MaxInterval, spent \in Nat :
                 [s EXCEPT !.interval = interval, !.spent = spent] \in LoginStates
           /\ s.phase \in SignIn!Phases /\ s.spent \in Nat /\ s.interval \in 1 .. MaxInterval
<1>1. \A phase \in SignIn!Phases : [s EXCEPT !.phase = phase] \in LoginStates
  BY DEF LoginStates
<1>2. \A phase \in SignIn!Phases, named \in BOOLEAN :
         [s EXCEPT !.phase = phase, !.named = named] \in LoginStates
  BY DEF LoginStates
<1>3. \A interval \in 1 .. MaxInterval, spent \in Nat :
         [s EXCEPT !.interval = interval, !.spent = spent] \in LoginStates
  BY DEF LoginStates
<1>4. s.phase \in SignIn!Phases /\ s.spent \in Nat /\ s.interval \in 1 .. MaxInterval
  BY DEF LoginStates
<1>5. QED
  BY <1>1, <1>2, <1>3, <1>4

\* The interval stays between one and its ceiling.
LEMMA BackoffBounded ==
    ASSUME MaxInterval \in Nat, NEW interval \in 1 .. MaxInterval, NEW limited \in BOOLEAN
    PROVE  SignIn!Backoff(interval, limited) \in 1 .. MaxInterval
<1>1. 2 * interval \in Nat /\ 2 * interval >= 1 /\ (3 * interval) \div 2 \in Nat /\ (3 * interval) \div 2 >= 1
  OBVIOUS
<1>2. ASSUME NEW n \in Nat, n >= 1  PROVE SignIn!Least(n, MaxInterval) \in 1 .. MaxInterval
  BY <1>2 DEF SignIn!Least
<1>3. QED
  BY <1>1, <1>2 DEF SignIn!Backoff

\* A pause begun by a poll that was begun in time ends in time.
LEMMA PauseInTime ==
    ASSUME SignIn!LoginAssumption, NEW l, NEW spent \in Nat, spent < Lifetime,
           NEW t \in RequestTimes, NEW wait \in Nat
    PROVE  /\ SignIn!Pause(l, spent + t, wait) \in Nat
           /\ InTime(SignIn!Pause(l, spent + t, wait))
<1>1. Lifetime \in Nat /\ t \in Nat /\ RequestTimes \subseteq Nat
  BY DEF SignIn!LoginAssumption
<1>2. /\ SignIn!Pause(l, spent + t, wait) \in Nat
      /\ SignIn!Pause(l, spent + t, wait) <= Lifetime + t
  BY <1>1 DEF SignIn!Pause, SignIn!Least, SignIn!Greatest
<1>3. PICK n \in Nat : n = SignIn!Pause(l, spent + t, wait)
  BY <1>2
<1>4. InTime(n)
  BY <1>1, <1>2, <1>3 DEF InTime
<1>5. QED
  BY <1>2, <1>3, <1>4

\* A step of one login keeps the invariant when it keeps its own key.
LEMMA LoginKept ==
    ASSUME SignIn!LoginAssumption, LoginInv, NEW l \in Logins, NEW s \in LoginStates,
           NEW c \in {"none", "pending", "approved", "collected", "gone"},
           login' = [login EXCEPT ![l] = s], console' = [console EXCEPT ![l] = c],
           InTime(s.spent), kept' \in SUBSET Logins, kept \subseteq kept',
           c = "collected" => l \in kept' \/ s.phase \in {"save", "write", "lost", "killed"},
           file' \in [key: Logins \cup {None}, id: Logins \cup {None}],
           file'.id # None => file'.id = file'.key, logout' = logout
    PROVE  LoginInv'
<1>1. /\ login \in [Logins -> LoginStates] /\ SignIn!KeyAccountedFor /\ SignIn!PollsWithinDeadline
      /\ console \in [Logins -> {"none", "pending", "approved", "collected", "gone"}]
      /\ logout \in {"idle", "found", "done"}
  BY DEF LoginInv, SignIn!TypeOK
<1>2. login' \in [Logins -> LoginStates]
  BY <1>1
<1>3. console' \in [Logins -> {"none", "pending", "approved", "collected", "gone"}]
  BY <1>1
<1>4. ASSUME NEW m \in Logins
      PROVE  /\ login'[m].phase \in SignIn!Phases /\ login'[m].spent \in Nat
             /\ login'[m].interval \in 1 .. MaxInterval /\ login'[m].named \in BOOLEAN
  BY <1>2 DEF LoginStates
<1>5. SignIn!TypeOK'
  BY <1>1, <1>3, <1>4 DEF SignIn!TypeOK, SignIn!Phases
<1>6. SignIn!KeyAccountedFor'
  BY <1>1 DEF SignIn!KeyAccountedFor
<1>7. ASSUME NEW m \in Logins  PROVE  InTime(login'[m].spent)
  BY <1>1 DEF SignIn!PollsWithinDeadline, InTime
<1>8. SignIn!PollsWithinDeadline'
  BY <1>7 DEF SignIn!PollsWithinDeadline, InTime
<1>9. QED
  BY <1>2, <1>5, <1>6, <1>8 DEF LoginInv, LoginStates, SignIn!Phases

\* Every step keeps it.
LEMMA LoginNext ==
    ASSUME SignIn!LoginAssumption, LoginInv, SignIn!Next
    PROVE  LoginInv'
<1>1. /\ file \in [key: Logins \cup {None}, id: Logins \cup {None}] /\ kept \in SUBSET Logins
      /\ file.id # None => file.id = file.key
      /\ logout \in {"idle", "found", "done"} /\ None \notin Logins
      /\ MaxInterval \in Nat /\ Lifetime \in Nat /\ RequestTimes \subseteq Nat /\ RetryAfters \subseteq Nat
  BY DEF LoginInv, SignIn!TypeOK, SignIn!KeyAccountedFor, SignIn!LoginAssumption
<1>2. ASSUME NEW l \in Logins
      PROVE  /\ login[l] \in LoginStates /\ InTime(login[l].spent)
             /\ console[l] \in {"none", "pending", "approved", "collected", "gone"}
             /\ console[l] = "collected" =>
                   l \in kept \/ login[l].phase \in {"save", "write", "lost", "killed"}
             /\ login = [login EXCEPT ![l] = login[l]] /\ console = [console EXCEPT ![l] = console[l]]
  BY DEF LoginInv, SignIn!TypeOK, SignIn!KeyAccountedFor, SignIn!PollsWithinDeadline, InTime
<1>3. ASSUME NEW l \in Logins, NEW phase \in SignIn!Phases, SignIn!Goto(l, phase),
             NEW c \in {"none", "pending", "approved", "collected", "gone"},
             console' = [console EXCEPT ![l] = c],
             kept' \in SUBSET Logins, kept \subseteq kept',
             c = "collected" => l \in kept' \/ phase \in {"save", "write", "lost", "killed"},
             file' \in [key: Logins \cup {None}, id: Logins \cup {None}],
             file'.id # None => file'.id = file'.key, UNCHANGED logout
      PROVE  LoginInv'
  <2>1. PICK s : s = [login[l] EXCEPT !.phase = phase]
    OBVIOUS
  <2>2. s \in LoginStates
    BY <1>2, <2>1, LoginFields
  <2>3. s.phase = phase /\ s.spent = login[l].spent
    BY <1>2, <2>1 DEF LoginStates
  <2>4. login' = [login EXCEPT ![l] = s]
    BY <1>3, <2>1, Zenon DEF SignIn!Goto
  <2>5. QED
    BY <1>2, <1>3, <2>2, <2>3, <2>4, LoginKept
<1>4. ASSUME NEW l \in Logins, SignIn!Prepare(l)  PROVE  LoginInv'
  <2>1. PICK phase \in {"ended", "start"} : SignIn!Goto(l, phase)
    BY <1>4 DEF SignIn!Prepare
  <2>2. phase \in SignIn!Phases /\ UNCHANGED <<file, console, logout, kept>> /\ login[l].phase = "idle"
    BY <1>4 DEF SignIn!Prepare, SignIn!Phases
  <2>3. QED
    BY <1>1, <1>2, <1>3, <2>1, <2>2
<1>5. ASSUME NEW l \in Logins, SignIn!StartCode(l)  PROVE  LoginInv'
  <2>1. PICK phase \in SignIn!Phases, c \in {"pending", console[l]} :
           /\ SignIn!Goto(l, phase) /\ console' = [console EXCEPT ![l] = c]
           /\ login[l].phase = "start" /\ UNCHANGED <<file, logout, kept>>
    BY <1>2, <1>5 DEF SignIn!StartCode, SignIn!Phases
  <2>2. QED
    BY <1>1, <1>2, <1>3, <2>1
<1>6. ASSUME NEW l \in Logins, SignIn!Decide(l)  PROVE  LoginInv'
  <2>1. PICK c \in {"approved", "gone"} : console' = [console EXCEPT ![l] = c]
    BY <1>6 DEF SignIn!Decide
  <2>2. UNCHANGED <<file, login, logout, kept>>
    BY <1>6 DEF SignIn!Decide
  <2>3. QED
    BY <1>1, <1>2, <2>1, <2>2, LoginKept
<1>7. ASSUME NEW l \in Logins, SignIn!TimesOut(l) \/ SignIn!PollFails(l)  PROVE  LoginInv'
  <2>1. /\ SignIn!Goto(l, "ended") /\ login[l].phase = "poll" /\ "ended" \in SignIn!Phases
        /\ UNCHANGED <<file, console, logout, kept>>
    BY <1>7 DEF SignIn!TimesOut, SignIn!PollFails, SignIn!Asks, SignIn!Phases
  <2>2. QED
    BY <1>1, <1>2, <1>3, <2>1
<1>8. ASSUME NEW l \in Logins, SignIn!PollPending(l)  PROVE  LoginInv'
  <2>1. /\ login[l].phase = "poll" /\ login[l].spent < Lifetime /\ console[l] = "pending"
        /\ UNCHANGED <<file, console, logout, kept>>
    BY <1>8 DEF SignIn!PollPending, SignIn!Asks
  <2>2. PICK limited, t, wait :
           /\ limited \in BOOLEAN /\ t \in RequestTimes
           /\ wait \in SignIn!Waits(SignIn!Backoff(login[l].interval, limited), limited)
           /\ login' = [login EXCEPT ![l].interval = SignIn!Backoff(login[l].interval, limited),
                                     ![l].spent = SignIn!Pause(l, login[l].spent + t, wait)]
    BY <1>8, Zenon DEF SignIn!PollPending
  <2>3. login[l].spent \in Nat /\ login[l].interval \in 1 .. MaxInterval
    BY <1>2, LoginFields
  <2>4. PICK interval \in 1 .. MaxInterval : interval = SignIn!Backoff(login[l].interval, limited)
    BY <1>1, <2>2, <2>3, BackoffBounded
  <2>5. wait \in Nat
    BY <1>1, <2>2, <2>4 DEF SignIn!Greatest, SignIn!Waits
  <2>6. PICK spent \in Nat : spent = SignIn!Pause(l, login[l].spent + t, wait) /\ InTime(spent)
    BY <2>1, <2>2, <2>3, <2>5, PauseInTime
  <2>7. PICK s : s = [login[l] EXCEPT !.interval = interval, !.spent = spent]
    OBVIOUS
  <2>8. s \in LoginStates
    BY <1>2, <2>7, LoginFields
  <2>9. s.phase = login[l].phase /\ s.spent = spent
    BY <1>2, <2>7 DEF LoginStates
  <2>10. login' = [login EXCEPT ![l] = s]
    <3>1. login' = [login EXCEPT ![l].interval = interval, ![l].spent = spent]
      BY <2>2, <2>4, <2>6
    <3>2. QED
      BY <2>7, <3>1, Zenon
  <2>11. /\ console' = [console EXCEPT ![l] = "pending"] /\ kept' \in SUBSET Logins
         /\ kept \subseteq kept' /\ file' \in [key: Logins \cup {None}, id: Logins \cup {None}]
         /\ file'.id # None => file'.id = file'.key
    BY <1>1, <1>2, <2>1
  <2>12. QED
    BY <2>1, <2>6, <2>8, <2>9, <2>10, <2>11, LoginKept
<1>9. ASSUME NEW l \in Logins, SignIn!PollReleases(l)  PROVE  LoginInv'
  <2>1. /\ login[l].phase = "poll" /\ console' = [console EXCEPT ![l] = "collected"]
        /\ UNCHANGED <<file, logout, kept>>
    BY <1>9 DEF SignIn!PollReleases, SignIn!Asks
  <2>2. /\ kept' \in SUBSET Logins /\ kept \subseteq kept'
        /\ file' \in [key: Logins \cup {None}, id: Logins \cup {None}]
        /\ file'.id # None => file'.id = file'.key
    BY <1>1, <2>1
  <2>3. CASE SignIn!Goto(l, "lost")
    BY <1>3, <2>1, <2>2, <2>3 DEF SignIn!Phases
  <2>4. ASSUME NEW named \in BOOLEAN,
               login' = [login EXCEPT ![l].phase = "save", ![l].named = named]
        PROVE  LoginInv'
    <3>1. PICK s : s = [login[l] EXCEPT !.phase = "save", !.named = named]
      OBVIOUS
    <3>2. s \in LoginStates
      BY <1>2, <3>1, LoginFields DEF SignIn!Phases
    <3>3. s.phase = "save" /\ s.spent = login[l].spent
      BY <1>2, <3>1 DEF LoginStates
    <3>4. login' = [login EXCEPT ![l] = s]
      BY <2>4, <3>1, Zenon
    <3>5. QED
      BY <1>2, <2>1, <2>2, <3>2, <3>3, <3>4, LoginKept
  <2>5. QED
    BY <1>9, <2>3, <2>4 DEF SignIn!PollReleases
<1>10. ASSUME NEW l \in Logins, SignIn!Reveal(l), login[l].phase \in {"save", "write"},
              UNCHANGED <<file, console, logout>>
       PROVE  LoginInv'
  <2>1. SignIn!Goto(l, "shown") /\ kept' = kept \cup {l} /\ "shown" \in SignIn!Phases
    BY <1>10 DEF SignIn!Reveal, SignIn!Show, SignIn!Phases
  <2>2. QED
    BY <1>1, <1>2, <1>3, <1>10, <2>1
<1>11. ASSUME NEW l \in Logins, SignIn!Load(l)  PROVE  LoginInv'
  <2>1. login[l].phase = "save" /\ UNCHANGED <<file, console, logout>>
    BY <1>11 DEF SignIn!Load
  <2>2. CASE SignIn!Goto(l, "write") /\ UNCHANGED kept
    BY <1>1, <1>2, <1>3, <2>1, <2>2 DEF SignIn!Phases
  <2>3. QED
    BY <1>10, <1>11, <2>1, <2>2 DEF SignIn!Load
<1>12. ASSUME NEW l \in Logins, SignIn!Store(l)  PROVE  LoginInv'
  <2>1. login[l].phase = "write" /\ UNCHANGED <<console, logout>>
    BY <1>12 DEF SignIn!Store
  <2>2. CASE SignIn!Goto(l, "saved") /\ file' = SignIn!Stored(l) /\ kept' = kept \cup {l}
    <3>1. /\ file' \in [key: Logins \cup {None}, id: Logins \cup {None}]
          /\ file'.id # None => file'.id = file'.key
      BY <2>2 DEF SignIn!Stored
    <3>2. QED
      BY <1>1, <1>2, <1>3, <2>1, <2>2, <3>1 DEF SignIn!Phases
  <2>3. QED
    BY <1>10, <1>12, <2>1, <2>2 DEF SignIn!Store
<1>13. ASSUME NEW l \in Logins, SignIn!Killed(l)  PROVE  LoginInv'
  <2>1. /\ SignIn!Goto(l, "killed") /\ login[l].phase \in {"start", "poll", "save", "write"}
        /\ "killed" \in SignIn!Phases /\ UNCHANGED <<file, console, logout, kept>>
    BY <1>13 DEF SignIn!Killed, SignIn!Phases
  <2>2. QED
    BY <1>1, <1>2, <1>3, <2>1
<1>14. ASSUME SignIn!LogoutReads \/ SignIn!LogoutWrites  PROVE  LoginInv'
  <2>1. /\ UNCHANGED <<login, console, kept>> /\ logout' \in {"idle", "found", "done"}
        /\ file' \in [key: Logins \cup {None}, id: Logins \cup {None}]
        /\ file'.id # None => file'.id = file'.key
    BY <1>1, <1>14 DEF SignIn!LogoutReads, SignIn!LogoutWrites
  <2>2. QED
    BY <2>1 DEF LoginInv, SignIn!TypeOK, SignIn!KeyAccountedFor, SignIn!PollsWithinDeadline,
       LoginStates, SignIn!Phases
<1>15. QED
  BY <1>4, <1>5, <1>6, <1>7, <1>8, <1>9, <1>11, <1>12, <1>13, <1>14 DEF SignIn!Next

\* The initial state of the login satisfies its invariant.
LEMMA LoginInit ==
    ASSUME SignIn!LoginAssumption, SignIn!Init PROVE LoginInv
<1>1. login \in [Logins -> LoginStates] /\ \A l \in Logins : login[l].spent = 0
  BY DEF SignIn!Init, LoginStates, SignIn!Phases, SignIn!LoginAssumption
<1>2. SignIn!TypeOK
  BY <1>1 DEF SignIn!Init, SignIn!TypeOK, LoginStates
<1>3. SignIn!KeyAccountedFor
  BY DEF SignIn!Init, SignIn!KeyAccountedFor
<1>4. SignIn!PollsWithinDeadline
  BY <1>1 DEF SignIn!PollsWithinDeadline, SignIn!LoginAssumption
<1>5. QED
  BY <1>1, <1>2, <1>3, <1>4 DEF LoginInv

\* And every step or stutter keeps it.
LEMMA LoginPreserved ==
    ASSUME SignIn!LoginAssumption, LoginInv, [SignIn!Next]_(SignIn!vars) PROVE LoginInv'
<1>1. ASSUME UNCHANGED SignIn!vars  PROVE LoginInv'
  BY <1>1 DEF LoginInv, SignIn!vars, SignIn!TypeOK, SignIn!KeyAccountedFor,
     SignIn!PollsWithinDeadline, LoginStates, SignIn!Phases
<1>2. QED
  BY <1>1, LoginNext

\* So the invariant of the login holds in every behaviour.
LEMMA LoginInvariant ==
    ASSUME SignIn!LoginAssumption
    PROVE  SignIn!Spec => []LoginInv
<1>1. SignIn!Init => LoginInv
  BY LoginInit
<1>2. LoginInv /\ [SignIn!Next]_(SignIn!vars) => LoginInv'
  BY LoginPreserved
<1>3. QED
  BY <1>1, <1>2, PTL DEF SignIn!Spec

\* A key that reached this computer is stored or shown unless its process was killed, and
\* the file never pairs it with another key's name (cli.py:1203-1245, config.py:486-527).
THEOREM LoginKeepsKeys ==
    ASSUME SignIn!LoginAssumption
    PROVE  SignIn!Spec => []SignIn!KeyAccountedFor
<1>1. LoginInv => SignIn!KeyAccountedFor
  BY DEF LoginInv
<1>2. QED
  BY <1>1, LoginInvariant, PTL

\* A login is over at most one request after the lifetime of its code (login.py:231-259).
THEOREM LoginInTime ==
    ASSUME SignIn!LoginAssumption
    PROVE  SignIn!Spec => []SignIn!PollsWithinDeadline
<1>1. LoginInv => SignIn!PollsWithinDeadline
  BY DEF LoginInv
<1>2. QED
  BY <1>1, LoginInvariant, PTL

-----------------------------------------------------------------------------
(* Imports.  An export that is observed exists, so that what is read of it *)
(* is one of the three cases the code knows.                               *)

ImportsInv ==
    /\ Exports!TypeOK
    /\ importer.pc = "post" => clock = 0
    /\ importer.pc \in {"loop", "poll"} => export # "none"
    /\ Exports!OverInTime /\ Exports!ExportNamed

\* What a caller makes of the state it has read.
LEMMA SeenSound ==
    ASSUME Exports!TypeOK, NEW state \in {"importing", "ready", "failed"},
           importer' = Exports!Seen(state)
    PROVE  /\ importer' \in [pc: Exports!Ended \cup {"post", "loop", "poll"}, told: BOOLEAN]
           /\ importer'.pc \in {"loop", "returned", "failed"}
           /\ importer'.pc = "failed" => importer'.told
           /\ importer'.pc = "loop" => state = "importing"
<1>1. CASE state = "importing"
  BY <1>1 DEF Exports!Seen, Exports!To, Exports!TypeOK, Exports!Ended
<1>2. CASE state = "ready"
  BY <1>2 DEF Exports!Seen, Exports!To, Exports!TypeOK, Exports!Ended
<1>3. CASE state = "failed"
  BY <1>3 DEF Exports!Seen, Exports!Raises, Exports!TypeOK, Exports!Ended
<1>4. QED
  BY <1>1, <1>2, <1>3

\* The times of a request and of a sleep are cut to what is left.
LEMMA LeastBounded ==
    ASSUME Exports!ImportsAssumption, Exports!TypeOK, clock <= QueryWait, NEW n \in Nat
    PROVE  /\ Exports!Least(n, Exports!Left) \in Nat
           /\ clock + Exports!Least(n, Exports!Left) <= QueryWait
           /\ Exports!Left \in Nat /\ Exports!Least(n, Exports!Left) <= Exports!Left
           /\ clock + Exports!Left = QueryWait
  BY DEF Exports!ImportsAssumption, Exports!TypeOK, Exports!Least, Exports!Left

\* Every step keeps it.
LEMMA ImportsNext ==
    ASSUME Exports!ImportsAssumption, ImportsInv, Exports!Next
    PROVE  ImportsInv'
<1> USE DEF Exports!Ended
<1>0. /\ clock \in Nat /\ clock <= QueryWait
      /\ QueryWait \in Nat /\ QueryHttp \in Nat /\ QueryPoll \in Nat /\ QueryHttp <= QueryWait
  BY DEF ImportsInv, Exports!TypeOK, Exports!OverInTime, Exports!ImportsAssumption
<1>1. /\ Exports!TypeOK
      /\ export \in {"none", "importing", "ready", "failed"}
      /\ importer \in [pc: Exports!Ended \cup {"post", "loop", "poll"}, told: BOOLEAN]
      /\ importer.pc = "post" => clock = 0
      /\ importer.pc \in {"loop", "poll"} => export # "none"
  BY DEF ImportsInv, Exports!TypeOK, Exports!OverInTime, Exports!ImportsAssumption
<1>2. CASE Exports!Exports
  BY <1>2 DEF Exports!Exports, ImportsInv, Exports!TypeOK, Exports!OverInTime, Exports!ExportNamed
<1>3. CASE Exports!Post
  <2>1. importer.pc = "post" /\ clock = 0 /\ export' \in {"none", "importing", "ready"}
        /\ clock' \in Nat /\ clock' <= QueryWait
    <3>1. PICK took \in {0, QueryHttp}, state \in {"none", "importing", "ready"} :
             clock' = clock + took /\ export' = state
      BY <1>3 DEF Exports!Post
    <3>2. importer.pc = "post"
      BY <1>3 DEF Exports!Post
    <3>3. clock = 0
      BY <1>1, <3>2
    <3>4. QED
      BY <1>0, <3>1, <3>2, <3>3
  <2>2. CASE importer' = Exports!To("not begun")
    BY <1>0, <1>1, <2>1, <2>2 DEF Exports!To, ImportsInv, Exports!TypeOK, Exports!OverInTime,
       Exports!ExportNamed
  <2>3. CASE export' # "none" /\ importer' = Exports!Seen(export')
    <3>1. PICK state \in {"importing", "ready", "failed"} : state = export'
      BY <2>1, <2>3
    <3>2. importer' = Exports!Seen(state)
      BY <2>3, <3>1
    <3>3. QED
      BY <1>0, <1>1, <2>1, <3>1, <3>2, SeenSound DEF ImportsInv, Exports!TypeOK, Exports!OverInTime,
         Exports!ExportNamed
  <2>4. QED
    BY <1>3, <2>2, <2>3 DEF Exports!Post
<1>4. CASE Exports!Loop
  <2>1. /\ importer.pc = "loop" /\ UNCHANGED export /\ export # "none"
    BY <1>1, <1>4 DEF Exports!Loop
  <2>2. PICK slept \in Nat, left \in Nat :
           /\ slept = Exports!Least(QueryPoll, Exports!Left) /\ left = Exports!Left
           /\ clock + slept <= QueryWait /\ clock + left = QueryWait /\ slept <= left
    BY <1>0, <1>1, LeastBounded
  <2>3. importer' = IF Exports!InTime(slept) THEN Exports!To("poll") ELSE Exports!Raises("timed out")
    <3>1. slept = Exports!Least(QueryPoll, Exports!Left)
      BY <2>2
    <3>2. QED
      BY <1>4, <3>1, Zenon DEF Exports!Loop
  <2>4. clock' = clock + slept /\ clock' \in Nat /\ clock' <= QueryWait
    <3>1. slept = Exports!Least(QueryPoll, Exports!Left)
      BY <2>2
    <3>2. clock' = clock + slept
      BY <1>4, <3>1, Zenon DEF Exports!Loop
    <3>3. QED
      BY <1>0, <2>2, <3>2
  <2>5. CASE Exports!InTime(slept)
    <3>1. /\ importer' \in [pc: Exports!Ended \cup {"post", "loop", "poll"}, told: BOOLEAN]
          /\ importer'.pc = "poll"
      BY <1>1, <2>3, <2>5 DEF Exports!To
    <3>2. QED
      BY <1>0, <1>1, <2>1, <2>4, <3>1 DEF ImportsInv, Exports!TypeOK, Exports!OverInTime, Exports!ExportNamed
  <2>6. CASE ~Exports!InTime(slept)
    <3>1. /\ importer' \in [pc: Exports!Ended \cup {"post", "loop", "poll"}, told: BOOLEAN]
          /\ importer'.pc = "timed out" /\ importer'.told
      BY <1>1, <2>3, <2>6 DEF Exports!Raises
    <3>2. slept = left
      BY <2>2, <2>6 DEF Exports!InTime
    <3>3. clock' = QueryWait
      BY <2>2, <2>4, <3>2
    <3>4. QED
      BY <1>0, <1>1, <2>1, <2>4, <3>1, <3>3 DEF ImportsInv, Exports!TypeOK, Exports!OverInTime,
         Exports!ExportNamed
  <2>7. QED
    BY <2>5, <2>6
<1>5. CASE Exports!Poll
  <2>1. /\ clock' \in Nat /\ clock' <= QueryWait /\ importer.pc = "poll" /\ UNCHANGED export
        /\ export \in {"importing", "ready", "failed"}
    <3>1. PICK took : took \in {0, Exports!HttpTime} /\ clock' = clock + took
      BY <1>5 DEF Exports!Poll
    <3>2. Exports!HttpTime \in Nat /\ clock + Exports!HttpTime <= QueryWait
      BY <1>0, <1>1, LeastBounded DEF Exports!HttpTime
    <3>3. importer.pc = "poll" /\ UNCHANGED export
      BY <1>5 DEF Exports!Poll
    <3>4. export \in {"importing", "ready", "failed"}
      BY <1>1, <3>3
    <3>5. QED
      BY <1>0, <3>1, <3>2, <3>3, <3>4
  <2>2. CASE importer' = Exports!Seen(export)
    BY <1>0, <1>1, <2>1, <2>2, SeenSound DEF ImportsInv, Exports!TypeOK, Exports!OverInTime,
       Exports!ExportNamed
  <2>3. CASE importer' = Exports!Raises("unobserved")
    BY <1>0, <1>1, <2>1, <2>3 DEF Exports!Raises, ImportsInv, Exports!TypeOK, Exports!OverInTime,
       Exports!ExportNamed
  <2>4. QED
    BY <1>5, <2>2, <2>3 DEF Exports!Poll
<1>6. CASE Exports!Interrupt
  BY <1>0, <1>1, <1>6 DEF Exports!Interrupt, Exports!Raises, ImportsInv, Exports!TypeOK,
     Exports!OverInTime, Exports!ExportNamed
<1>7. QED
  BY <1>2, <1>3, <1>4, <1>5, <1>6 DEF Exports!Next

\* The initial state of the import satisfies its invariant.
LEMMA ImportsInit ==
    ASSUME Exports!ImportsAssumption, Exports!Init PROVE ImportsInv
BY DEF Exports!ImportsAssumption, Exports!Init, ImportsInv, Exports!TypeOK, Exports!OverInTime,
   Exports!ExportNamed, Exports!Ended

\* And every step or stutter keeps it.
LEMMA ImportsPreserved ==
    ASSUME Exports!ImportsAssumption, ImportsInv, [Exports!Next]_(Exports!vars) PROVE ImportsInv'
<1>1. ASSUME UNCHANGED Exports!vars  PROVE ImportsInv'
  BY <1>1 DEF ImportsInv, Exports!vars, Exports!TypeOK, Exports!OverInTime, Exports!ExportNamed,
     Exports!Ended
<1>2. QED
  BY <1>1, ImportsNext

\* So the invariant of the import holds in every behaviour.
LEMMA ImportsInvariant ==
    ASSUME Exports!ImportsAssumption
    PROVE  Exports!Spec => []ImportsInv
<1>1. Exports!Init => ImportsInv
  BY ImportsInit
<1>2. ImportsInv /\ [Exports!Next]_(Exports!vars) => ImportsInv'
  BY ImportsPreserved
<1>3. QED
  BY <1>1, <1>2, PTL DEF Exports!Spec

\* An import is over in time, however its requests and sleeps fall, and does not give up
\* before (_assets.py:241-256).
THEOREM ImportInTime ==
    ASSUME Exports!ImportsAssumption
    PROVE  Exports!Spec => []Exports!OverInTime
<1>1. ImportsInv => Exports!OverInTime
  BY DEF ImportsInv
<1>2. QED
  BY <1>1, ImportsInvariant, PTL

\* Whoever is not handed the export learns its identity (_assets.py:244-260).
THEOREM ImportNamed ==
    ASSUME Exports!ImportsAssumption
    PROVE  Exports!Spec => []Exports!ExportNamed
<1>1. ImportsInv => Exports!ExportNamed
  BY DEF ImportsInv
<1>2. QED
  BY <1>1, ImportsInvariant, PTL

-----------------------------------------------------------------------------
(* Executions.  A reading has all frames up to its cursor, and its end,    *)
(* once it has one, lies between the cursor and what is stored.            *)

ProcessInv == process.stored <= process.written

ReaderInv ==
    /\ output.cursor <= process.stored
    /\ output.follow \/ output.phase = "idle" => output.end = None
    /\ output.phase # "idle" => output.got = 1 .. output.cursor
    /\ output.end # None => output.cursor <= output.end /\ output.end <= process.stored

WaiterInv == /\ waiter.terminal => ~process.running
             /\ waiter.phase = "returned" => waiter.terminal

ExecutionsInv == /\ Exec!TypeOK /\ ProcessInv /\ ReaderInv /\ WaiterInv
                 /\ Exec!OutputComplete /\ Exec!WaitKeepsTime

\* What the command and the service do to the process.
LEMMA ProcessStep ==
    ASSUME Exec!ExecutionAssumption, ExecutionsInv, Exec!Write \/ Exec!Store \/ Exec!Conclude
    PROVE  ExecutionsInv'
<1>1. /\ process.running \in BOOLEAN /\ process.written \in 0 .. MaxFrames
      /\ process.stored \in 0 .. MaxFrames /\ process.stored <= process.written /\ MaxFrames \in Nat
  BY DEF ExecutionsInv, ProcessInv, Exec!TypeOK, Exec!ExecutionAssumption
<1>2. /\ process' \in [running: BOOLEAN, written: 0 .. MaxFrames, stored: 0 .. MaxFrames]
      /\ process'.stored >= process.stored /\ process'.stored <= process'.written
      /\ ~process.running => ~process'.running /\ process'.written = process.written
      /\ UNCHANGED <<output, waiter>>
  <2>1. CASE Exec!Write
    BY <1>1, <2>1 DEF Exec!Write, ExecutionsInv, Exec!TypeOK
  <2>2. CASE Exec!Store
    BY <1>1, <2>2 DEF Exec!Store, ExecutionsInv, Exec!TypeOK
  <2>3. CASE Exec!Conclude
    <3>1. process \in [running: BOOLEAN, written: 0 .. MaxFrames, stored: 0 .. MaxFrames]
      BY DEF ExecutionsInv, Exec!TypeOK
    <3>2. process' = [process EXCEPT !.running = FALSE] /\ UNCHANGED <<output, waiter>>
      BY <2>3 DEF Exec!Conclude
    <3>3. process' \in [running: BOOLEAN, written: 0 .. MaxFrames, stored: 0 .. MaxFrames]
      BY <3>1, <3>2
    <3>4. QED
      BY <1>1, <3>1, <3>2, <3>3
  <2>4. QED
    BY <2>1, <2>2, <2>3
<1>3. process'.stored \in Nat /\ process.stored \in Nat /\ output.cursor \in Nat
      /\ output.end \in Nat \cup {None}
  BY <1>1, <1>2 DEF ExecutionsInv, Exec!TypeOK
<1>4. Exec!TypeOK'
  BY <1>2 DEF ExecutionsInv, Exec!TypeOK
<1>5. ReaderInv'
  BY <1>2, <1>3 DEF ExecutionsInv, ReaderInv
<1>6. WaiterInv' /\ ProcessInv'
  BY <1>2 DEF ExecutionsInv, WaiterInv, ProcessInv
<1>7. Exec!OutputComplete'
  BY <1>2 DEF ExecutionsInv, Exec!OutputComplete
<1>8. Exec!WaitKeepsTime'
  BY <1>2 DEF ExecutionsInv, Exec!WaitKeepsTime
<1>9. QED
  BY <1>4, <1>5, <1>6, <1>7, <1>8 DEF ExecutionsInv

\* A step of the reading keeps the invariant when what it makes of its state does.
LEMMA ReaderKept ==
    ASSUME Exec!ExecutionAssumption, ExecutionsInv, UNCHANGED <<process, waiter>>,
           Exec!TypeOK', ReaderInv', Exec!OutputComplete'
    PROVE  ExecutionsInv'
  BY DEF ExecutionsInv, ProcessInv, WaiterInv, Exec!WaitKeepsTime

\* The page that may be answered, and what the reading makes of it.
LEMMA PageRead ==
    ASSUME Exec!ExecutionAssumption, ExecutionsInv, Exec!ReadPage
    PROVE  ExecutionsInv'
<1>1. /\ process.written \in Nat /\ process.stored \in Nat /\ process.stored <= process.written
      /\ process.stored <= MaxFrames /\ MaxFrames \in Nat /\ OutputPage \in Nat /\ OutputPage >= 1
      /\ output.cursor \in Nat /\ output.cursor <= process.stored /\ None \notin Nat
  BY DEF ExecutionsInv, ProcessInv, ReaderInv, Exec!TypeOK, Exec!ExecutionAssumption
<1>2. /\ output.phase = "reading" /\ output.got = 1 .. output.cursor
      /\ output.end \in Nat \cup {None} /\ output.follow \in BOOLEAN
      /\ output.follow => output.end = None
      /\ output.end # None => output.cursor <= output.end /\ output.end <= process.stored
      /\ UNCHANGED <<process, waiter>>
  BY DEF ExecutionsInv, ReaderInv, Exec!TypeOK, Exec!ReadPage
<1>3. PICK page \in Exec!Pages(output.cursor, Exec!Limit(output)) :
         output' = [output EXCEPT
              !.cursor = page.next, !.end = Exec!End(output, page),
              !.got = output.got \cup (output.cursor + 1 .. page.next),
              !.phase = IF Exec!Finished(Exec!End(output, page), page) THEN "returned"
                        ELSE IF Exec!Stuck(output, Exec!End(output, page), page) THEN "raised"
                        ELSE "reading"]
  BY Zenon DEF Exec!ReadPage
<1>4. Exec!Limit(output) \in Nat /\ (output.end # None => Exec!Limit(output) <= output.end - output.cursor)
  BY <1>1, <1>2 DEF Exec!Limit
<1>5. PICK limit \in Nat : /\ limit = Exec!Limit(output)
                           /\ output.end # None => limit <= output.end - output.cursor
  BY <1>4
<1>6. PICK n \in Nat :
         /\ page = [next |-> output.cursor + n, last |-> process.stored, done |-> ~process.running,
                    complete |-> ~process.running /\ output.cursor + n = process.written]
         /\ n <= process.stored - output.cursor /\ (n = 0 \/ n <= limit)
  <2>1. PICK available \in Nat : available = process.stored - output.cursor
    BY <1>1
  <2>2. page \in { [next |-> output.cursor + n, last |-> process.stored, done |-> ~process.running,
                    complete |-> ~process.running /\ output.cursor + n = process.written] :
                   n \in IF available > 0 THEN 1 .. (IF available < limit THEN available ELSE limit)
                         ELSE {0} }
    BY <1>3, <1>5, <2>1, Zenon DEF Exec!Pages
  <2>3. PICK n \in IF available > 0 THEN 1 .. (IF available < limit THEN available ELSE limit)
                   ELSE {0} :
           page = [next |-> output.cursor + n, last |-> process.stored, done |-> ~process.running,
                   complete |-> ~process.running /\ output.cursor + n = process.written]
    BY <2>2
  <2>4. n \in Nat /\ n <= available /\ (n = 0 \/ n <= limit)
    BY <1>5, <2>1, <2>3
  <2>5. QED
    BY <2>1, <2>3, <2>4
<1>7. PICK next \in Nat : next = output.cursor + n /\ next = page.next /\ next <= process.stored
  BY <1>1, <1>6
<1>8. /\ page.last = process.stored /\ page.done = ~process.running
      /\ page.complete => ~process.running /\ next = process.written
  BY <1>6, <1>7
<1>9. PICK end : end = Exec!End(output, page)
  OBVIOUS
<1>10. /\ output.follow => end = None
       /\ ~output.follow => end \in Nat /\ next <= end /\ end <= process.stored
  BY <1>1, <1>2, <1>5, <1>6, <1>7, <1>8, <1>9 DEF Exec!End
<1>11. PICK phase \in {"returned", "raised", "reading"} :
          /\ phase = IF Exec!Finished(end, page) THEN "returned"
                     ELSE IF Exec!Stuck(output, end, page) THEN "raised" ELSE "reading"
          /\ phase = "returned" => Exec!Finished(end, page)
  OBVIOUS
<1>12. phase = "returned" => /\ output.follow => ~process.running /\ next = process.written
                             /\ ~output.follow => next = end
  BY <1>1, <1>7, <1>8, <1>10, <1>11 DEF Exec!Finished
<1>13. PICK got : got = output.got \cup (output.cursor + 1 .. page.next)
  OBVIOUS
<1>14. got = 1 .. next /\ got \in SUBSET (1 .. MaxFrames)
  BY <1>1, <1>2, <1>7, <1>13
<1>15. output' = [output EXCEPT !.cursor = next, !.end = end, !.got = got, !.phase = phase]
  BY <1>3, <1>7, <1>9, <1>11, <1>13, Zenon
<1>16. /\ output' \in [phase: {"idle", "reading", "returned", "raised"}, follow: BOOLEAN,
                       cursor: Nat, end: Nat \cup {None}, got: SUBSET (1 .. MaxFrames)]
       /\ output'.cursor = next /\ output'.end = end /\ output'.got = got
       /\ output'.phase = phase /\ output'.follow = output.follow
  <2>1. output \in [phase: {"idle", "reading", "returned", "raised"}, follow: BOOLEAN,
                    cursor: Nat, end: Nat \cup {None}, got: SUBSET (1 .. MaxFrames)]
    BY DEF ExecutionsInv, Exec!TypeOK
  <2>2. end \in Nat \cup {None}
    BY <1>2, <1>10
  <2>3. QED
    BY <1>14, <1>15, <2>1, <2>2
<1>17. Exec!TypeOK'
  BY <1>2, <1>16 DEF ExecutionsInv, Exec!TypeOK
<1>18. ReaderInv'
  BY <1>2, <1>7, <1>10, <1>14, <1>16 DEF ReaderInv
<1>19. Exec!OutputComplete'
  BY <1>2, <1>12, <1>14, <1>16 DEF Exec!OutputComplete
<1>20. QED
  BY <1>2, <1>17, <1>18, <1>19, ReaderKept

\* A reading that begins or fails.
LEMMA ReaderStep ==
    ASSUME Exec!ExecutionAssumption, ExecutionsInv, Exec!StartReading \/ Exec!ReadFails
    PROVE  ExecutionsInv'
<1>1. /\ output \in [phase: {"idle", "reading", "returned", "raised"}, follow: BOOLEAN,
                     cursor: Nat, end: Nat \cup {None}, got: SUBSET (1 .. MaxFrames)]
      /\ process.stored \in 0 .. MaxFrames /\ MaxFrames \in Nat
  BY DEF ExecutionsInv, Exec!TypeOK, Exec!ExecutionAssumption
<1>2. CASE Exec!StartReading
  <2>1. PICK after \in 0 .. process.stored :
           output' = [output EXCEPT !.phase = "reading", !.cursor = after, !.got = 1 .. after]
    BY <1>2 DEF Exec!StartReading
  <2>2. UNCHANGED <<process, waiter>> /\ output.end = None
    BY <1>2 DEF Exec!StartReading, ExecutionsInv, ReaderInv
  <2>3. /\ output' \in [phase: {"idle", "reading", "returned", "raised"}, follow: BOOLEAN,
                       cursor: Nat, end: Nat \cup {None}, got: SUBSET (1 .. MaxFrames)]
        /\ output'.cursor = after /\ output'.end = None /\ output'.got = 1 .. after
        /\ output'.phase = "reading"
    <3>1. PICK got \in SUBSET (1 .. MaxFrames) : got = 1 .. after
      BY <1>1, <2>1
    <3>2. after \in Nat /\ output' = [output EXCEPT !.phase = "reading", !.cursor = after, !.got = got]
      BY <1>1, <2>1, <3>1
    <3>3. QED
      BY <1>1, <2>2, <3>1, <3>2
  <2>4. Exec!TypeOK'
    BY <2>2, <2>3 DEF ExecutionsInv, Exec!TypeOK
  <2>5. ReaderInv' /\ Exec!OutputComplete'
    BY <1>1, <2>2, <2>3 DEF ReaderInv, Exec!OutputComplete
  <2>6. QED
    BY <2>2, <2>4, <2>5, ReaderKept
<1>3. CASE Exec!ReadFails
  <2>1. /\ output' = [output EXCEPT !.phase = "raised"] /\ output.phase = "reading"
        /\ UNCHANGED <<process, waiter>>
    BY <1>3 DEF Exec!ReadFails
  <2>2. /\ output' \in [phase: {"idle", "reading", "returned", "raised"}, follow: BOOLEAN,
                       cursor: Nat, end: Nat \cup {None}, got: SUBSET (1 .. MaxFrames)]
        /\ output'.cursor = output.cursor /\ output'.end = output.end
        /\ output'.got = output.got /\ output'.follow = output.follow /\ output'.phase = "raised"
    BY <1>1, <2>1
  <2>3. Exec!TypeOK'
    BY <2>1, <2>2 DEF ExecutionsInv, Exec!TypeOK
  <2>4. ReaderInv' /\ Exec!OutputComplete'
    BY <2>1, <2>2 DEF ExecutionsInv, ReaderInv, Exec!OutputComplete
  <2>5. QED
    BY <2>1, <2>3, <2>4, ReaderKept
<1>4. QED
  BY <1>2, <1>3

\* A wait: its polls are cut to the time that is left.
LEMMA WaiterStep ==
    ASSUME Exec!ExecutionAssumption, ExecutionsInv,
           Exec!StartWaiting \/ Exec!WaitEnds \/ Exec!PollAnswered \/ Exec!PollFails
    PROVE  ExecutionsInv'
<1>1. /\ waiter \in [phase: {"idle", "waiting", "returned", "raised"},
                     timeout: Timeouts \cup {None}, spent: Nat, terminal: BOOLEAN]
      /\ Timeouts \subseteq Nat /\ PollTimes \subseteq Nat /\ LongPoll \in Nat /\ None \notin Nat
      /\ process.running \in BOOLEAN
      /\ waiter.timeout # None => waiter.spent <= waiter.timeout
      /\ WaiterInv
  BY DEF ExecutionsInv, Exec!TypeOK, Exec!ExecutionAssumption, Exec!WaitKeepsTime
<1>2. PICK w : /\ waiter' = w /\ UNCHANGED <<process, output>>
               /\ w \in [phase: {"idle", "waiting", "returned", "raised"},
                         timeout: Timeouts \cup {None}, spent: Nat, terminal: BOOLEAN]
               /\ w.timeout # None => w.spent <= w.timeout
               /\ w.terminal => ~process.running
               /\ w.phase = "returned" => w.terminal
  <2>1. CASE Exec!StartWaiting
    BY <1>1, <2>1 DEF Exec!StartWaiting, WaiterInv
  <2>2. CASE Exec!WaitEnds
    BY <1>1, <2>2 DEF Exec!WaitEnds, WaiterInv
  <2>3. CASE Exec!PollAnswered
    <3>1. PICK t \in PollTimes : /\ t <= Exec!PollTimeout(waiter)
                                 /\ waiter' = [waiter EXCEPT !.spent = Exec!After(waiter, t),
                                                             !.terminal = ~process.running]
      BY <2>3 DEF Exec!PollAnswered
    <3>2. Exec!Polls(waiter) /\ UNCHANGED <<process, output>>
      BY <2>3 DEF Exec!PollAnswered
    <3>3. PICK spent \in Nat : /\ spent = Exec!After(waiter, t)
                               /\ waiter.timeout # None => spent <= waiter.timeout
      BY <1>1, <3>1, <3>2 DEF Exec!After, Exec!Polls, Exec!PollTimeout, Exec!Remaining
    <3>4. PICK terminal \in BOOLEAN : terminal = ~process.running
      OBVIOUS
    <3>5. waiter' = [waiter EXCEPT !.spent = spent, !.terminal = terminal]
      BY <3>1, <3>3, <3>4
    <3>6. waiter.phase = "waiting"
      BY <3>2 DEF Exec!Polls
    <3>7. /\ waiter' \in [phase: {"idle", "waiting", "returned", "raised"},
                          timeout: Timeouts \cup {None}, spent: Nat, terminal: BOOLEAN]
          /\ waiter'.timeout = waiter.timeout /\ waiter'.spent = spent
          /\ waiter'.terminal = terminal /\ waiter'.phase = "waiting"
      BY <1>1, <3>5, <3>6
    <3>8. QED
      BY <3>2, <3>3, <3>4, <3>7
  <2>4. CASE Exec!PollFails
    <3>1. /\ Exec!Polls(waiter) /\ UNCHANGED <<process, output>>
          /\ waiter' = [waiter EXCEPT !.phase = "raised",
                                      !.spent = Exec!After(waiter, Exec!PollTimeout(waiter))]
      BY <2>4 DEF Exec!PollFails
    <3>2. PICK spent \in Nat : /\ spent = Exec!After(waiter, Exec!PollTimeout(waiter))
                               /\ waiter.timeout # None => spent <= waiter.timeout
      BY <1>1, <3>1 DEF Exec!After, Exec!Polls, Exec!PollTimeout, Exec!Remaining
    <3>3. waiter' = [waiter EXCEPT !.phase = "raised", !.spent = spent]
      BY <3>1, <3>2
    <3>4. /\ waiter' \in [phase: {"idle", "waiting", "returned", "raised"},
                          timeout: Timeouts \cup {None}, spent: Nat, terminal: BOOLEAN]
          /\ waiter'.timeout = waiter.timeout /\ waiter'.spent = spent
          /\ waiter'.terminal = waiter.terminal /\ waiter'.phase = "raised"
      BY <1>1, <3>3
    <3>5. waiter.terminal => ~process.running
      BY <1>1 DEF WaiterInv
    <3>6. QED
      BY <3>1, <3>2, <3>4, <3>5
  <2>5. QED
    BY <2>1, <2>2, <2>3, <2>4
<1>3. QED
  BY <1>2 DEF ExecutionsInv, Exec!TypeOK, ProcessInv, ReaderInv, WaiterInv, Exec!OutputComplete,
     Exec!WaitKeepsTime

\* The initial state of the execution satisfies its invariant.
LEMMA ExecutionsInit ==
    ASSUME Exec!ExecutionAssumption, Exec!Init PROVE ExecutionsInv
<1>1. Exec!TypeOK
  BY DEF Exec!ExecutionAssumption, Exec!Init, Exec!TypeOK
<1>2. ProcessInv /\ ReaderInv /\ WaiterInv
  BY DEF Exec!ExecutionAssumption, Exec!Init, ProcessInv, ReaderInv, WaiterInv
<1>3. Exec!OutputComplete /\ Exec!WaitKeepsTime
  BY DEF Exec!ExecutionAssumption, Exec!Init, Exec!OutputComplete, Exec!WaitKeepsTime
<1>4. QED
  BY <1>1, <1>2, <1>3 DEF ExecutionsInv

\* And every step or stutter keeps it.
LEMMA ExecutionsPreserved ==
    ASSUME Exec!ExecutionAssumption, ExecutionsInv, [Exec!Next]_(Exec!vars) PROVE ExecutionsInv'
<1>1. ASSUME UNCHANGED Exec!vars  PROVE ExecutionsInv'
  BY <1>1 DEF ExecutionsInv, Exec!vars, Exec!TypeOK, ProcessInv, ReaderInv, WaiterInv,
     Exec!OutputComplete, Exec!WaitKeepsTime
<1>2. QED
  BY <1>1, ProcessStep, PageRead, ReaderStep, WaiterStep DEF Exec!Next

\* So the invariant of the execution holds in every behaviour.
LEMMA ExecutionsInvariant ==
    ASSUME Exec!ExecutionAssumption
    PROVE  Exec!Spec => []ExecutionsInv
<1>1. Exec!Init => ExecutionsInv
  BY ExecutionsInit
<1>2. ExecutionsInv /\ [Exec!Next]_(Exec!vars) => ExecutionsInv'
  BY ExecutionsPreserved
<1>3. QED
  BY <1>1, <1>2, PTL DEF Exec!Spec

\* Output that is read while it is written is not cut short (_sandboxes.py:838-856).
THEOREM OutputIsComplete ==
    ASSUME Exec!ExecutionAssumption
    PROVE  Exec!Spec => []Exec!OutputComplete
<1>1. ExecutionsInv => Exec!OutputComplete
  BY DEF ExecutionsInv
<1>2. QED
  BY <1>1, ExecutionsInvariant, PTL

\* A wait never outlasts the time it was given, and returns for a command that has ended
\* (_sandboxes.py:818-827).
THEOREM WaitInTime ==
    ASSUME Exec!ExecutionAssumption
    PROVE  Exec!Spec => []Exec!WaitKeepsTime
<1>1. ExecutionsInv => Exec!WaitKeepsTime
  BY DEF ExecutionsInv
<1>2. QED
  BY <1>1, ExecutionsInvariant, PTL

-----------------------------------------------------------------------------
(* Launch.  A launch that is about to start a workspace's machine has seen *)
(* that it never ran, so no launch rented it yet, though a late start may  *)
(* since; an instance's start is remembered by its key, also a late one.   *)

MachineInv ==
    /\ server.rented + server.stray <= server.begun /\ server.rented <= 1
    /\ server.started <=> server.rented + server.stray >= 1
    /\ server.state = "none" => server.begun = 0
    /\ server.state = "active" => server.begun >= 1

LaunchInv ==
    /\ Machines!TypeOK /\ MachineInv
    /\ ~launch.keep => server.rented + server.stray <= 1
    /\ launch.keep /\ launch.pc = "start" => server.rented = 0
    /\ launch.pc \in {"wait", "returned"} => server.begun >= 1

Servers == [state: {"none", "stopped", "active"}, begun: Nat, rented: Nat, stray: Nat,
            late: Nat, started: BOOLEAN]
Launches == [pc: {"idle", "history", "start", "wait", "returned", "refused", "uncertain", "failed", "timed out"},
             keep: BOOLEAN, replayed: BOOLEAN, state: {"none", "stopped", "active"}, n: 0 .. MaxLaunches]

\* The user's own starts and stops rent nothing.
LEMMA MachineUsed ==
    ASSUME server \in Servers, MachineInv, Machines!UserStarts \/ Machines!Stops
    PROVE  /\ MachineInv' /\ server' \in Servers
           /\ server'.begun >= server.begun /\ server'.rented = server.rented
           /\ server'.stray = server.stray
<1>1. CASE Machines!UserStarts
  <2>1. PICK begun \in Nat : begun = server.begun + 1
    BY DEF Servers
  <2>2. server' = [server EXCEPT !.state = "active", !.begun = begun] /\ server.state = "stopped"
    BY <1>1, <2>1 DEF Machines!UserStarts
  <2>3. server' \in Servers
    BY <2>2 DEF Servers
  <2>4. QED
    BY <2>1, <2>2, <2>3 DEF MachineInv, Servers
<1>2. CASE Machines!Stops
  <2>1. server' = [server EXCEPT !.state = "stopped"] /\ server.state = "active"
    BY <1>2 DEF Machines!Stops
  <2>2. server' \in Servers
    BY <2>1 DEF Servers
  <2>3. QED
    BY <2>1, <2>2 DEF MachineInv, Servers
<1>3. QED
  BY <1>1, <1>2

\* Nor does a create.
LEMMA MachineCreated ==
    ASSUME server \in Servers, MachineInv, Machines!Create
    PROVE  /\ MachineInv' /\ server' \in Servers /\ server'.state # "none"
           /\ server'.begun = server.begun /\ server'.rented = server.rented
           /\ server'.stray = server.stray
<1>1. CASE server.state = "none"
  <2>1. server' = [server EXCEPT !.state = "stopped"]
    BY <1>1 DEF Machines!Create
  <2>2. server' \in Servers
    BY <2>1 DEF Servers
  <2>3. QED
    BY <1>1, <2>1, <2>2 DEF MachineInv, Servers
<1>2. CASE server.state # "none"
  BY <1>2 DEF Machines!Create, MachineInv
<1>3. QED
  BY <1>1, <1>2

\* The start of a launch rents at most one machine, and one has been started then.
LEMMA StartedGood ==
    ASSUME server \in Servers, MachineInv, NEW m, m = Machines!Started,
           ~launch.keep => server.rented + server.stray <= 1,
           launch.keep => server.rented = 0
    PROVE  /\ m \in Servers
           /\ ~launch.keep => m.rented + m.stray <= 1
           /\ m.rented + m.stray <= m.begun /\ m.rented <= 1
           /\ m.started <=> m.rented + m.stray >= 1
           /\ m.state = "none" => m.begun = 0
           /\ m.state = "active" => m.begun >= 1
           /\ m.begun >= 1
<1>1. CASE ~Machines!Rents
  <2>1. m = server
    BY <1>1 DEF Machines!Started
  <2>2. server.begun >= 1
    BY <1>1 DEF Machines!Rents, MachineInv, Servers
  <2>3. QED
    BY <2>1, <2>2 DEF MachineInv, Servers
<1>2. CASE Machines!Rents
  <2>1. /\ server.rented = 0 /\ server.rented \in Nat /\ server.stray \in Nat
        /\ ~launch.keep => server.stray = 0
    <3>1. launch.keep \/ ~server.started
      BY <1>2 DEF Machines!Rents
    <3>2. QED
      BY <3>1 DEF MachineInv, Servers
  <2>2. PICK begun \in Nat : begun = server.begun + 1
    BY DEF Servers
  <2>3. m = [server EXCEPT !.state = "active", !.begun = begun, !.rented = 1, !.started = TRUE]
    BY <1>2, <2>1, <2>2 DEF Machines!Started
  <2>4. m \in Servers
    <3>1. [server EXCEPT !.state = "active", !.begun = begun, !.rented = 1, !.started = TRUE]
             \in Servers
      BY DEF Servers
    <3>2. QED
      BY <2>3, <3>1
  <2>5. QED
    BY <2>1, <2>2, <2>3, <2>4 DEF MachineInv, Servers
<1>3. QED
  BY <1>1, <1>2

\* A late start rents no instance that was rented before.
LEMMA MachineLate ==
    ASSUME server \in Servers, launch \in Launches, MachineInv, Machines!ArrivesLate,
           ~launch.keep => server.rented + server.stray <= 1
    PROVE  /\ MachineInv' /\ server' \in Servers
           /\ ~launch.keep => server'.rented + server'.stray <= 1
           /\ server'.begun >= server.begun /\ server'.rented = server.rented
<1>1. PICK late \in Nat : late = server.late - 1
  BY DEF Machines!ArrivesLate, Servers
<1>2. CASE ~Machines!Rents
  <2>1. server' = [server EXCEPT !.late = late]
    BY <1>1, <1>2 DEF Machines!ArrivesLate
  <2>2. server' \in Servers
    BY <2>1 DEF Servers
  <2>3. QED
    BY <2>1, <2>2 DEF MachineInv, Servers
<1>3. CASE Machines!Rents
  <2>1. ~launch.keep => server.rented = 0 /\ server.stray = 0
    BY <1>3 DEF Machines!Rents, MachineInv, Servers
  <2>2. PICK begun \in Nat, stray \in Nat : begun = server.begun + 1 /\ stray = server.stray + 1
    BY DEF Servers
  <2>3. server' = [server EXCEPT !.state = "active", !.begun = begun, !.stray = stray,
                                 !.late = late, !.started = TRUE]
    BY <1>1, <1>3, <2>2 DEF Machines!ArrivesLate
  <2>4. server' \in Servers
    BY <2>3 DEF Servers
  <2>5. QED
    BY <2>1, <2>2, <2>3, <2>4 DEF MachineInv, Servers
<1>4. QED
  BY <1>2, <1>3

\* That an attempt is still on its way changes nothing yet.
LEMMA MachineWaits ==
    ASSUME NEW m \in Servers, server' \in Machines!MaybeLate(m)
    PROVE  /\ server' \in Servers
           /\ server' = [m EXCEPT !.late = server'.late]
<1>1. m.late + 1 \in Nat
  BY DEF Servers
<1>2. QED
  BY <1>1 DEF Machines!MaybeLate, Servers

\* The invariant is one of its parts.
LEMMA LaunchParts ==
    ASSUME LaunchInv
    PROVE  /\ server \in Servers /\ launch \in Launches /\ MachineInv
           /\ ~launch.keep => server.rented + server.stray <= 1
           /\ launch.keep /\ launch.pc = "start" => server.rented = 0
           /\ launch.pc \in {"wait", "returned"} => server.begun >= 1
  BY DEF LaunchInv, Machines!TypeOK, Servers, Launches

\* Every step keeps it.
LEMMA LaunchNext ==
    ASSUME Machines!LaunchAssumption, LaunchInv, Machines!Next
    PROVE  LaunchInv'
<1>1. /\ server \in Servers /\ launch \in Launches /\ MachineInv
      /\ ~launch.keep => server.rented + server.stray <= 1
      /\ launch.keep /\ launch.pc = "start" => server.rented = 0
      /\ launch.pc \in {"wait", "returned"} => server.begun >= 1
      /\ server.begun \in Nat /\ launch.n \in 0 .. MaxLaunches /\ MaxLaunches \in Nat
  BY LaunchParts DEF Servers, Launches, Machines!LaunchAssumption
<1>2. ASSUME server' \in Servers, MachineInv', NEW l \in Launches, launch' = l,
             ~l.keep => server'.rented + server'.stray <= 1,
             l.keep /\ l.pc = "start" => server'.rented = 0,
             l.pc \in {"wait", "returned"} => server'.begun >= 1
      PROVE  LaunchInv'
  BY <1>2 DEF LaunchInv, Machines!TypeOK, Servers, Launches
<1>3. CASE Machines!UserStarts \/ Machines!Stops
  <2>1. UNCHANGED launch
    BY <1>3 DEF Machines!UserStarts, Machines!Stops
  <2>2. /\ MachineInv' /\ server' \in Servers /\ server'.begun >= server.begun
        /\ server'.rented = server.rented /\ server'.stray = server.stray
    BY <1>1, <1>3, MachineUsed
  <2>3. server'.begun \in Nat
    BY <2>2 DEF Servers
  <2>4. QED
    BY <1>1, <1>2, <2>1, <2>2, <2>3
<1>4. CASE Machines!LaunchCreates
  <2>1. launch.n < MaxLaunches /\ Machines!Create
    BY <1>4 DEF Machines!LaunchCreates
  <2>2. /\ MachineInv' /\ server' \in Servers /\ server'.state # "none"
        /\ server'.begun = server.begun /\ server'.rented = server.rented
        /\ server'.stray = server.stray
    BY <1>1, <2>1, MachineCreated
  <2>3. PICK replayed \in {server.state # "none"} \cup (IF launch.keep THEN {} ELSE {FALSE}) :
           launch' = [launch EXCEPT !.n = launch.n + 1, !.replayed = replayed, !.state = server'.state,
                                    !.pc = Machines!AfterCreate(launch.keep, server'.state, replayed)]
    BY <1>4 DEF Machines!LaunchCreates
  <2>4. PICK n \in 0 .. MaxLaunches : n = launch.n + 1
    BY <1>1, <2>1
  <2>5. PICK state \in {"stopped", "active"} : state = server'.state
    BY <2>2 DEF Servers
  <2>6. PICK pc \in {"history", "start", "wait"} :
           pc = Machines!AfterCreate(launch.keep, server'.state, replayed)
    BY DEF Machines!AfterCreate
  <2>7. replayed \in BOOLEAN
    BY <2>3
  <2>8. PICK l : l = [launch EXCEPT !.n = n, !.replayed = replayed, !.state = state, !.pc = pc]
    OBVIOUS
  <2>9. l \in Launches /\ l.pc = pc /\ l.keep = launch.keep
    BY <1>1, <2>4, <2>5, <2>6, <2>7, <2>8 DEF Launches
  <2>10. launch' = l
    BY <2>3, <2>4, <2>5, <2>6, <2>8, Zenon
  <2>11. launch.keep /\ pc = "start" => server'.rented = 0
    <3>1. SUFFICES ASSUME launch.keep, pc = "start"  PROVE  server'.rented = 0
      OBVIOUS
    <3>2. replayed = (server.state # "none")
      BY <2>3, <3>1
    <3>3. ~replayed
      BY <2>5, <2>6, <2>7, <3>1 DEF Machines!AfterCreate
    <3>4. server.state = "none"
      BY <3>2, <3>3
    <3>5. QED
      BY <1>1, <2>2, <3>4 DEF MachineInv, Servers
  <2>12. pc = "wait" => server'.begun >= 1
    BY <2>2, <2>5, <2>6 DEF Machines!AfterCreate, MachineInv
  <2>13. QED
    BY <1>1, <1>2, <2>2, <2>6, <2>9, <2>10, <2>11, <2>12
<1>5. CASE Machines!LaunchCreateFails
  <2>1. /\ launch.n < MaxLaunches
        /\ Machines!Create \/ UNCHANGED server
        /\ launch' = [launch EXCEPT !.n = launch.n + 1, !.pc = "failed"]
    BY <1>5 DEF Machines!LaunchCreateFails
  <2>2. /\ MachineInv' /\ server' \in Servers
        /\ server'.rented = server.rented /\ server'.stray = server.stray
    BY <1>1, <2>1, MachineCreated DEF MachineInv
  <2>3. PICK n \in 0 .. MaxLaunches : n = launch.n + 1
    <3>1. launch.n < MaxLaunches
      BY <2>1
    <3>2. QED
      BY <1>1, <3>1
  <2>4. launch' \in Launches /\ launch'.pc = "failed" /\ launch'.keep = launch.keep
    BY <1>1, <2>1, <2>3 DEF Launches
  <2>5. QED
    BY <1>1, <1>2, <2>2, <2>4
<1>6. ASSUME NEW pc \in {"start", "refused", "wait", "uncertain", "failed", "returned", "timed out"},
             launch' = [launch EXCEPT !.pc = pc], MachineInv', server' \in Servers,
             ~launch.keep => server'.rented + server'.stray <= 1,
             pc = "start" => server'.rented = 0,
             pc \in {"wait", "returned"} => server'.begun >= 1
      PROVE  LaunchInv'
  <2>1. launch' \in Launches /\ launch'.pc = pc /\ launch'.keep = launch.keep
    BY <1>1, <1>6 DEF Launches
  <2>2. QED
    BY <1>2, <1>6, <2>1
<1>7. CASE Machines!ReadsHistory
  <2>1. PICK pc \in {"start", "refused"} :
           /\ launch' = [launch EXCEPT !.pc = pc] /\ UNCHANGED server
           /\ pc = "start" => server.begun = 0
    BY <1>7 DEF Machines!ReadsHistory
  <2>2. server.begun = 0 => server.rented = 0
    BY <1>1 DEF MachineInv, Servers
  <2>3. MachineInv'
    BY <1>1, <2>1 DEF MachineInv
  <2>4. QED
    BY <1>1, <1>6, <2>1, <2>2, <2>3
<1>8. CASE Machines!LaunchStarts
  <2>1. launch.keep => server.rented = 0
    BY <1>1, <1>8 DEF Machines!LaunchStarts
  <2>2. PICK pc \in {"wait", "uncertain", "failed"}, m \in {Machines!Started, server} :
           /\ launch' = [launch EXCEPT !.pc = pc]
           /\ server' \in Machines!MaybeLate(m)
           /\ pc = "wait" => m = Machines!Started
    BY <1>8, Zenon DEF Machines!LaunchStarts
  <2>3. m \in Servers /\ (~launch.keep => m.rented + m.stray <= 1) /\ m.begun \in Nat
        /\ m.rented \in Nat /\ m.stray \in Nat
        /\ m.rented + m.stray <= m.begun /\ m.rented <= 1
        /\ (m.started <=> m.rented + m.stray >= 1)
        /\ (m.state = "none" => m.begun = 0) /\ (m.state = "active" => m.begun >= 1)
        /\ (pc = "wait" => m.begun >= 1)
    <3>1. CASE m = Machines!Started
      <4>1. /\ m \in Servers /\ (~launch.keep => m.rented + m.stray <= 1)
            /\ m.rented + m.stray <= m.begun /\ m.rented <= 1
            /\ (m.started <=> m.rented + m.stray >= 1)
            /\ (m.state = "none" => m.begun = 0) /\ (m.state = "active" => m.begun >= 1)
            /\ m.begun >= 1
        BY <1>1, <2>1, <3>1, StartedGood
      <4>2. QED
        BY <4>1 DEF Servers
    <3>2. CASE m = server /\ pc # "wait"
      BY <1>1, <3>2 DEF MachineInv, Servers
    <3>3. QED
      BY <2>2, <3>1, <3>2
  <2>4. server' \in Servers /\ server' = [m EXCEPT !.late = server'.late]
    BY <2>2, <2>3, MachineWaits
  <2>5. /\ server'.rented = m.rented /\ server'.stray = m.stray /\ server'.begun = m.begun
        /\ server'.started = m.started /\ server'.state = m.state
    <3>1. PICK late : late = server'.late
      OBVIOUS
    <3>2. server' = [m EXCEPT !.late = late]
      BY <2>4, <3>1
    <3>3. QED
      BY <2>3, <3>2 DEF Servers
  <2>6. MachineInv'
    BY <2>3, <2>5 DEF MachineInv
  <2>7. QED
    BY <1>6, <2>2, <2>3, <2>4, <2>5, <2>6
<1>8a. CASE Machines!ArrivesLate
  <2>1. UNCHANGED launch
    BY <1>8a DEF Machines!ArrivesLate
  <2>2. /\ MachineInv' /\ server' \in Servers /\ server'.begun >= server.begun
        /\ ~launch.keep => server'.rented + server'.stray <= 1
        /\ server'.rented = server.rented
    BY <1>1, <1>8a, MachineLate
  <2>3. server'.begun \in Nat
    BY <2>2 DEF Servers
  <2>4. QED
    BY <1>1, <1>2, <2>1, <2>2, <2>3
<1>9. CASE Machines!Waits
  <2>1. PICK pc \in {"returned", "failed", "timed out"} : launch' = [launch EXCEPT !.pc = pc]
    BY <1>9 DEF Machines!Waits
  <2>2. launch.pc = "wait" /\ UNCHANGED server
    BY <1>9 DEF Machines!Waits
  <2>3. MachineInv'
    BY <1>1, <2>2 DEF MachineInv
  <2>4. QED
    BY <1>1, <1>6, <2>1, <2>2, <2>3
<1>10. QED
  BY <1>3, <1>4, <1>5, <1>7, <1>8, <1>8a, <1>9 DEF Machines!Next

\* It holds initially, and every step or stutter keeps it.
LEMMA LaunchInit ==
    ASSUME Machines!LaunchAssumption, Machines!Init
    PROVE  LaunchInv
<1>1. Machines!TypeOK
  BY DEF Machines!LaunchAssumption, Machines!Init, Machines!TypeOK
<1>2. QED
  BY <1>1 DEF Machines!Init, LaunchInv, MachineInv

LEMMA LaunchPreserved ==
    ASSUME Machines!LaunchAssumption, LaunchInv, [Machines!Next]_(Machines!vars)
    PROVE  LaunchInv'
<1>1. CASE UNCHANGED Machines!vars
  BY <1>1 DEF LaunchInv, Machines!vars, Machines!TypeOK, MachineInv
<1>2. QED
  BY <1>1, LaunchNext

\* However often a launch is repeated with its key, and whatever became of its machine in
\* between, the starts it makes rent one machine at most; a late attempt of them none but
\* where a workspace, whose start does not replay by key, was stopped since
\* (_compute.py:226-230, 242-255).
THEOREM LaunchRentsOnce ==
    ASSUME Machines!LaunchAssumption
    PROVE  Machines!Spec => []Machines!OneMachinePerLaunch
<1>1. Machines!Init => LaunchInv
  BY LaunchInit
<1>2. LaunchInv /\ [Machines!Next]_(Machines!vars) => LaunchInv'
  BY LaunchPreserved
<1>3. LaunchInv => Machines!OneMachinePerLaunch
  BY DEF LaunchInv, MachineInv, Machines!OneMachinePerLaunch
<1>4. QED
  BY <1>1, <1>2, <1>3, PTL DEF Machines!Spec

-----------------------------------------------------------------------------
(* Asynchronous tasks.  A request that is under way, was accepted or may   *)
(* yet arrive carries a key of the caller's run() calls so far; and a      *)
(* cancellation that was answered is one the control plane has received.   *)

RunKeys == IF explicit THEN {0} ELSE 1 .. task.runs

KeysInv ==
    /\ service.accepted \subseteq RunKeys
    /\ afloat \subseteq RunKeys \cup {Awaited!CancelKey}
    /\ requests["run"].at # "off" => task.key \in RunKeys
    /\ \A r \in {"run", "cancel"} : requests[r].at = "hold" => requests[r].attempt < MaxRetries

\* What is known of a cancellation `at` when the task is `where`.
Pursued(at, where, cancelled, told) ==
    /\ at = "answered" => cancelled
    /\ at # "off" => where \in {"cancelling", "raised", "closed"}
    /\ where = "cancelling" => at # "dropped"
    /\ at # "off" /\ where \in {"raised", "closed"} => cancelled \/ told
    /\ at # "off" /\ where # "closed" => cancelled \/ at \in {"sent", "hold", "failed"}

CancelInv == Pursued(requests["cancel"].at, task.at, service.cancelled, task.told)

AwaitedInv == Awaited!TypeOK /\ KeysInv /\ CancelInv

Tasks == [at: {"idle", "run", "wait", "cancelling"} \cup Awaited!Over, runs: 0 .. MaxRuns,
          key: Awaited!Keys, told: BOOLEAN]
Requests == [at: {"off", "sent", "hold", "answered", "failed", "dropped"}, attempt: 0 .. MaxRetries]
Services == [accepted: SUBSET Awaited!Keys, cancelled: BOOLEAN, over: BOOLEAN]

\* What the service receives under a key it may be sent.
LEMMA ReceiveSound ==
    ASSUME service \in Services, NEW r \in {"run", "cancel"}, NEW k,
           r = "run" => k \in Awaited!Keys, Awaited!Receive(r, k)
    PROVE  /\ service' \in Services
           /\ service'.accepted = IF r = "run" THEN service.accepted \cup {k} ELSE service.accepted
           /\ service.cancelled => service'.cancelled
           /\ r = "cancel" => service'.cancelled
<1>1. CASE r = "run"
  <2>1. PICK accepted \in SUBSET Awaited!Keys : accepted = service.accepted \cup {k}
    BY <1>1 DEF Services
  <2>2. service' = [service EXCEPT !.accepted = accepted]
    BY <1>1, <2>1 DEF Awaited!Receive
  <2>3. service' \in Services /\ service'.cancelled = service.cancelled
    BY <2>2 DEF Services
  <2>4. QED
    BY <1>1, <2>1, <2>2, <2>3 DEF Services
<1>2. CASE r = "cancel"
  <2>1. service' = [service EXCEPT !.cancelled = TRUE]
    BY <1>2 DEF Awaited!Receive
  <2>2. QED
    BY <1>2, <2>1 DEF Services
<1>3. QED
  BY <1>1, <1>2

\* The invariant is one of its parts.
LEMMA AwaitedParts ==
    ASSUME Awaited!AsyncTasksAssumption, AwaitedInv
    PROVE  /\ explicit \in BOOLEAN /\ task \in Tasks /\ requests \in [{"run", "cancel"} -> Requests]
           /\ service \in Services /\ task.runs \in 0 .. MaxRuns /\ RunKeys \subseteq Awaited!Keys
           /\ MaxRuns \in Nat /\ MaxRetries \in Nat /\ KeysInv /\ CancelInv
<1>1. explicit \in BOOLEAN /\ task \in Tasks /\ MaxRuns \in Nat /\ MaxRetries \in Nat
  BY DEF AwaitedInv, Awaited!TypeOK, Tasks, Awaited!AsyncTasksAssumption
<1>2. requests \in [{"run", "cancel"} -> Requests] /\ service \in Services
  BY DEF AwaitedInv, Awaited!TypeOK, Requests, Services
<1>3. task.runs \in 0 .. MaxRuns
  BY <1>1 DEF Tasks
<1>4. RunKeys \subseteq Awaited!Keys
  BY <1>1, <1>3 DEF RunKeys, Awaited!Keys
<1>5. QED
  BY <1>1, <1>2, <1>3, <1>4 DEF AwaitedInv

\* And follows from them.
LEMMA AwaitedWhole ==
    ASSUME explicit' \in BOOLEAN, task' \in Tasks, requests' \in [{"run", "cancel"} -> Requests],
           service' \in Services, KeysInv', CancelInv', RunKeys' \subseteq Awaited!Keys
    PROVE  AwaitedInv'
<1>1. afloat' \subseteq Awaited!Keys \cup {Awaited!CancelKey}
  BY DEF KeysInv, Awaited!CancelKey
<1>2. QED
  BY <1>1 DEF AwaitedInv, Awaited!TypeOK, Tasks, Requests, Services, Awaited!Keys, Awaited!Over,
     Awaited!CancelKey

\* An attempt of a request that is under way: answered, given up, or tried again.
LEMMA AwaitedRequest ==
    ASSUME Awaited!AsyncTasksAssumption, AwaitedInv, NEW r \in {"run", "cancel"}, NEW q \in Requests,
           requests[r].at \in {"sent", "hold"}, q.at \in {"sent", "hold", "answered", "failed"},
           requests' = [requests EXCEPT ![r] = q], UNCHANGED <<explicit, task>>,
           afloat' \subseteq afloat \cup {Awaited!Carried(r)},
           UNCHANGED service \/ Awaited!Receive(r, Awaited!Carried(r)),
           q.at = "answered" => Awaited!Receive(r, Awaited!Carried(r)),
           q.at = "hold" => q.attempt < MaxRetries
    PROVE  AwaitedInv'
<1>1. /\ task \in Tasks /\ explicit \in BOOLEAN /\ requests \in [{"run", "cancel"} -> Requests]
      /\ service \in Services /\ RunKeys \subseteq Awaited!Keys /\ KeysInv /\ CancelInv
  BY AwaitedParts
<1>2. PICK k : k = Awaited!Carried(r)
  OBVIOUS
<1>3. (r = "run" => k \in RunKeys) /\ (r = "cancel" => k = Awaited!CancelKey)
  BY <1>1, <1>2 DEF Awaited!Carried, KeysInv
<1>4. /\ service' \in Services
      /\ service.cancelled => service'.cancelled
      /\ service'.accepted \subseteq RunKeys
      /\ r = "cancel" /\ q.at = "answered" => service'.cancelled
  <2>1. CASE Awaited!Receive(r, k)
    <3>1. /\ service' \in Services
          /\ service.cancelled => service'.cancelled
          /\ service'.accepted = IF r = "run" THEN service.accepted \cup {k} ELSE service.accepted
          /\ r = "cancel" => service'.cancelled
      BY <1>1, <1>3, <2>1, ReceiveSound
    <3>2. QED
      BY <1>1, <1>3, <3>1 DEF KeysInv
  <2>2. CASE UNCHANGED service /\ q.at # "answered"
    BY <1>1, <2>2 DEF KeysInv
  <2>3. QED
    BY <1>2, <2>1, <2>2
<1>5. /\ requests' \in [{"run", "cancel"} -> Requests]
      /\ requests'[r] = q
      /\ \A o \in {"run", "cancel"} : o # r => requests'[o] = requests[o]
  BY <1>1
<1>6. RunKeys' = RunKeys
  BY DEF RunKeys
<1>7. KeysInv'
  <2>1. service'.accepted \subseteq RunKeys'
    BY <1>4, <1>6
  <2>2. afloat' \subseteq RunKeys' \cup {Awaited!CancelKey}
    BY <1>1, <1>2, <1>3, <1>6 DEF KeysInv
  <2>3. requests'["run"].at # "off" => task'.key \in RunKeys'
    BY <1>1, <1>5, <1>6 DEF KeysInv
  <2>4. \A o \in {"run", "cancel"} : requests'[o].at = "hold" => requests'[o].attempt < MaxRetries
    BY <1>1, <1>5 DEF KeysInv
  <2>5. QED
    BY <2>1, <2>2, <2>3, <2>4 DEF KeysInv, Awaited!CancelKey
<1>8. CancelInv'
  <2>1. PICK old : old = requests["cancel"].at
    OBVIOUS
  <2>2. PICK new : new = requests'["cancel"].at
    OBVIOUS
  <2>3. \/ r = "cancel" /\ new = q.at /\ old \in {"sent", "hold"}
        \/ r = "run" /\ new = old
    BY <1>5, <2>1, <2>2
  <2>4. Pursued(old, task.at, service.cancelled, task.told)
    BY <1>1, <2>1 DEF CancelInv
  <2>5. Pursued(new, task.at, service'.cancelled, task.told)
    <3>1. CASE r = "cancel"
      BY <1>4, <2>3, <2>4, <3>1, Zenon DEF Pursued
    <3>2. CASE r = "run"
      BY <1>4, <2>3, <2>4, <3>2, Zenon DEF Pursued
    <3>3. QED
      BY <3>1, <3>2
  <2>6. QED
    BY <2>2, <2>5 DEF CancelInv
<1>9. QED
  <2>1. explicit' \in BOOLEAN /\ task' \in Tasks /\ RunKeys' \subseteq Awaited!Keys
    BY <1>1, <1>6
  <2>2. QED
    BY <1>4, <1>5, <1>7, <1>8, <2>1, AwaitedWhole
\* A step of the task between run() calls: what it leaves of its requests is what
\* it had, or not to be sent again.
LEMMA AwaitedMoves ==
    ASSUME Awaited!AsyncTasksAssumption, AwaitedInv, UNCHANGED <<explicit, service>>,
           task' \in Tasks, task'.runs = task.runs, task'.key = task.key,
           requests' \in [{"run", "cancel"} -> Requests],
           \A r \in {"run", "cancel"} :
               requests'[r] = requests[r] \/ requests'[r].at \in {"sent", "dropped"},
           requests'["run"].at # "off" => requests["run"].at # "off",
           \A k \in afloat' :
               k \in afloat \/ k = Awaited!CancelKey \/ (k = task.key /\ requests["run"].at # "off"),
           CancelInv'
    PROVE  AwaitedInv'
<1>1. /\ task \in Tasks /\ explicit \in BOOLEAN /\ service \in Services
      /\ RunKeys \subseteq Awaited!Keys /\ KeysInv
  BY AwaitedParts
<1>2. RunKeys' = RunKeys
  BY DEF RunKeys
<1>3. KeysInv'
  <2>1. service'.accepted \subseteq RunKeys'
    BY <1>1, <1>2 DEF KeysInv
  <2>2. afloat' \subseteq RunKeys' \cup {Awaited!CancelKey}
    BY <1>1, <1>2 DEF KeysInv
  <2>3. requests'["run"].at # "off" => task'.key \in RunKeys'
    BY <1>1, <1>2 DEF KeysInv
  <2>4. \A r \in {"run", "cancel"} : requests'[r].at = "hold" => requests'[r].attempt < MaxRetries
    BY <1>1 DEF KeysInv
  <2>5. QED
    BY <2>1, <2>2, <2>3, <2>4 DEF KeysInv, Awaited!CancelKey
<1>4. explicit' \in BOOLEAN /\ service' \in Services /\ RunKeys' \subseteq Awaited!Keys
  BY <1>1, <1>2
<1>5. QED
  BY <1>3, <1>4, AwaitedWhole

\* A cancelled task gives up a request.
LEMMA DroppedSound ==
    ASSUME requests \in [{"run", "cancel"} -> Requests], NEW r \in {"run", "cancel"}, Awaited!Dropped(r)
    PROVE  /\ requests' \in [{"run", "cancel"} -> Requests]
           /\ requests'[r].at = "dropped"
           /\ \A o \in {"run", "cancel"} : o # r => requests'[o] = requests[o]
           /\ afloat' \subseteq afloat \cup {Awaited!Carried(r)}
<1>1. PICK q \in Requests : q = requests[r]
  OBVIOUS
<1>2. [q EXCEPT !.at = "dropped"] \in Requests /\ [q EXCEPT !.at = "dropped"].at = "dropped"
  BY DEF Requests
<1>3. PICK d \in Requests : d = [q EXCEPT !.at = "dropped"] /\ d.at = "dropped"
  BY <1>2
<1>4. requests' = [requests EXCEPT ![r] = d]
  BY <1>1, <1>3 DEF Awaited!Dropped
<1>5. afloat' \subseteq afloat \cup {Awaited!Carried(r)}
  BY DEF Awaited!Dropped
<1>6. QED
  BY <1>3, <1>4, <1>5

\* A request that is sent for the first time.
LEMMA SentSound ==
    ASSUME Awaited!AsyncTasksAssumption, requests \in [{"run", "cancel"} -> Requests],
           NEW r \in {"run", "cancel"}, Awaited!Sent(r)
    PROVE  /\ requests' \in [{"run", "cancel"} -> Requests]
           /\ requests'[r].at = "sent"
           /\ \A o \in {"run", "cancel"} : o # r => requests'[o] = requests[o]
<1>0. [at |-> "sent", attempt |-> 0] \in Requests
  BY DEF Requests, Awaited!AsyncTasksAssumption
<1>1. PICK q \in Requests : q = [at |-> "sent", attempt |-> 0] /\ q.at = "sent"
  BY <1>0
<1>2. requests' = [requests EXCEPT ![r] = q]
  BY <1>1 DEF Awaited!Sent
<1>3. QED
  BY <1>1, <1>2

\* One attempt, whatever becomes of it.
LEMMA AwaitedAttempts ==
    ASSUME Awaited!AsyncTasksAssumption, AwaitedInv, NEW r \in {"run", "cancel"},
           \/ Awaited!Answered(r) \/ Awaited!NotAnswered(r) \/ Awaited!Unusable(r)
           \/ Awaited!SendAgain(r)
    PROVE  AwaitedInv'
<1>1. requests \in [{"run", "cancel"} -> Requests] /\ KeysInv /\ MaxRetries \in Nat
  BY AwaitedParts
<1>2. PICK q \in Requests : q = requests[r]
  BY <1>1
<1>3. q.attempt \in 0 .. MaxRetries /\ (q.at = "hold" => q.attempt < MaxRetries)
  BY <1>1, <1>2 DEF Requests, KeysInv
<1>4. \A at \in {"sent", "hold", "answered", "failed"} :
          [q EXCEPT !.at = at] \in Requests /\ [q EXCEPT !.at = at].at = at
              /\ [q EXCEPT !.at = at].attempt = q.attempt
  BY DEF Requests
<1>5. CASE Awaited!Answered(r)
  <2>1. PICK new \in Requests : new = [q EXCEPT !.at = "answered"] /\ new.at = "answered"
    BY <1>4
  <2>2. requests' = [requests EXCEPT ![r] = new] /\ requests[r].at = "sent"
    BY <1>2, <1>5, <2>1 DEF Awaited!Answered
  <2>3. UNCHANGED <<explicit, task, afloat>> /\ Awaited!Receive(r, Awaited!Carried(r))
    BY <1>5 DEF Awaited!Answered
  <2>4. QED
    BY <2>1, <2>2, <2>3, AwaitedRequest
<1>6. CASE Awaited!NotAnswered(r)
  <2>1. PICK new \in Requests : /\ new = Awaited!Retried(r) /\ new.at \in {"hold", "failed"}
                                /\ new.at = "hold" => new.attempt < MaxRetries
    <3>1. PICK at \in {"hold", "failed"} :
              at = (IF q.at = "sent" /\ q.attempt < MaxRetries THEN "hold" ELSE "failed")
      OBVIOUS
    <3>2. Awaited!Retried(r) = [q EXCEPT !.at = at]
      BY <1>2, <3>1 DEF Awaited!Retried
    <3>3. at = "hold" => q.attempt < MaxRetries
      BY <3>1
    <3>4. QED
      BY <1>4, <3>2, <3>3
  <2>2. requests' = [requests EXCEPT ![r] = new] /\ requests[r].at = "sent"
    BY <1>6, <2>1 DEF Awaited!NotAnswered
  <2>3. UNCHANGED <<explicit, task, service>> /\ afloat' \subseteq afloat \cup {Awaited!Carried(r)}
    BY <1>6 DEF Awaited!NotAnswered
  <2>4. QED
    BY <2>1, <2>2, <2>3, AwaitedRequest
<1>7. CASE Awaited!Unusable(r)
  <2>1. PICK new \in Requests : new = [q EXCEPT !.at = "failed"] /\ new.at = "failed"
    BY <1>4
  <2>2. requests' = [requests EXCEPT ![r] = new] /\ requests[r].at = "sent"
    BY <1>2, <1>7, <2>1 DEF Awaited!Unusable
  <2>3. UNCHANGED <<explicit, task, afloat>> /\ (UNCHANGED service \/ Awaited!Receive(r, Awaited!Carried(r)))
    BY <1>7 DEF Awaited!Unusable
  <2>4. QED
    BY <2>1, <2>2, <2>3, AwaitedRequest
<1>8. CASE Awaited!SendAgain(r)
  <2>1. requests[r].at = "hold" /\ q.attempt + 1 \in 0 .. MaxRetries
    BY <1>1, <1>2, <1>3, <1>8 DEF Awaited!SendAgain
  <2>2. PICK n \in 0 .. MaxRetries : n = q.attempt + 1
    BY <2>1
  <2>0. [at |-> "sent", attempt |-> n] \in Requests
    BY DEF Requests
  <2>3. PICK new \in Requests : new = [at |-> "sent", attempt |-> n] /\ new.at = "sent"
    BY <2>0
  <2>4. requests' = [requests EXCEPT ![r] = new]
    BY <1>2, <1>8, <2>2, <2>3 DEF Awaited!SendAgain
  <2>5. UNCHANGED <<explicit, task, afloat, service>>
    BY <1>8 DEF Awaited!SendAgain
  <2>6. QED
    BY <2>1, <2>3, <2>4, <2>5, AwaitedRequest
<1>9. QED
  BY <1>5, <1>6, <1>7, <1>8
\* run() begins with a key that is the application's own, or a new one.
LEMMA AwaitedRun ==
    ASSUME Awaited!AsyncTasksAssumption, AwaitedInv, Awaited!Run
    PROVE  AwaitedInv'
<1>1. /\ task \in Tasks /\ explicit \in BOOLEAN /\ requests \in [{"run", "cancel"} -> Requests]
      /\ service \in Services /\ task.runs \in 0 .. MaxRuns /\ MaxRuns \in Nat /\ KeysInv /\ CancelInv
  BY AwaitedParts
<1>2. PICK n \in 1 .. MaxRuns : n = task.runs + 1
  BY <1>1 DEF Awaited!Run
<1>3. PICK key \in Awaited!Keys : key = (IF explicit THEN 0 ELSE n)
  BY <1>1, <1>2 DEF Awaited!Keys
<1>4. Awaited!KeyOf = key
  BY <1>2, <1>3 DEF Awaited!KeyOf
<1>5. task' = [task EXCEPT !.at = "run", !.runs = n, !.key = key] /\ task.at = "idle"
  BY <1>2, <1>4 DEF Awaited!Run
<1>6. /\ task' \in Tasks /\ task'.at = "run" /\ task'.runs = n /\ task'.key = key
      /\ task'.told = task.told
  <2>1. task \in Tasks /\ n \in 0 .. MaxRuns
    BY <1>1, <1>2
  <2>2. PICK t : t = [task EXCEPT !.at = "run", !.runs = n, !.key = key]
    OBVIOUS
  <2>3. t \in Tasks /\ t.at = "run" /\ t.runs = n /\ t.key = key /\ t.told = task.told
    BY <2>1, <2>2 DEF Tasks
  <2>4. QED
    BY <1>5, <2>2, <2>3
<1>7. /\ requests' \in [{"run", "cancel"} -> Requests]
      /\ requests'["run"].at = "sent"
      /\ requests'["cancel"] = requests["cancel"]
  BY <1>1, SentSound DEF Awaited!Run
<1>8. explicit' = explicit /\ afloat' = afloat /\ service' = service
  BY DEF Awaited!Run
<1>9. /\ RunKeys \subseteq RunKeys' /\ key \in RunKeys'
      /\ RunKeys' \subseteq Awaited!Keys
  <2>1. CASE explicit
    BY <1>1, <1>3, <1>8, <2>1 DEF RunKeys, Awaited!Keys
  <2>2. CASE ~explicit
    <3>1. RunKeys = 1 .. task.runs /\ RunKeys' = 1 .. n /\ key = n
      BY <1>3, <1>6, <1>8, <2>2 DEF RunKeys
    <3>2. QED
      BY <1>1, <1>2, <3>1 DEF Awaited!Keys
  <2>3. QED
    BY <2>1, <2>2
<1>10. KeysInv'
  <2>1. service'.accepted \subseteq RunKeys'
    BY <1>1, <1>8, <1>9 DEF KeysInv
  <2>2. afloat' \subseteq RunKeys' \cup {Awaited!CancelKey}
    BY <1>1, <1>8, <1>9 DEF KeysInv
  <2>3. task'.key \in RunKeys'
    BY <1>6, <1>9
  <2>4. \A r \in {"run", "cancel"} : requests'[r].at = "hold" => requests'[r].attempt < MaxRetries
    BY <1>1, <1>7 DEF KeysInv
  <2>5. QED
    BY <2>1, <2>2, <2>3, <2>4 DEF KeysInv, Awaited!CancelKey
<1>11. CancelInv'
  <2>1. requests["cancel"].at = "off"
    BY <1>1, <1>5, Zenon DEF CancelInv, Pursued
  <2>2. requests'["cancel"].at = "off" /\ task'.at = "run"
    BY <1>6, <1>7, <2>1
  <2>3. QED
    BY <2>2 DEF CancelInv, Pursued
<1>12. explicit' \in BOOLEAN /\ service' \in Services
  BY <1>1, <1>8
<1>13. QED
  BY <1>6, <1>7, <1>9, <1>10, <1>11, <1>12, AwaitedWhole

\* The task goes on with what its request came to.
LEMMA AwaitedTaskSteps ==
    ASSUME Awaited!AsyncTasksAssumption, AwaitedInv,
           \/ Awaited!RunEnds \/ Awaited!WaitEnds \/ Awaited!CancelEnds \/ Awaited!CancelledAgain
    PROVE  AwaitedInv'
<1>1. /\ task \in Tasks /\ requests \in [{"run", "cancel"} -> Requests] /\ CancelInv
  BY AwaitedParts
<1>2. UNCHANGED <<explicit, requests, afloat, service>>
  BY DEF Awaited!RunEnds, Awaited!WaitEnds, Awaited!CancelEnds, Awaited!CancelledAgain
<1>3. \A at \in {"wait", "idle", "returned", "timeout"} :
          LET t == [task EXCEPT !.at = at] IN
          /\ t \in Tasks
          /\ t.at = at /\ t.runs = task.runs /\ t.key = task.key /\ t.told = task.told
  BY <1>1 DEF Tasks, Awaited!Over
<1>4. \A told \in BOOLEAN :
          LET t == [task EXCEPT !.at = "raised", !.told = told] IN
          /\ t \in Tasks
          /\ t.at = "raised" /\ t.runs = task.runs /\ t.key = task.key /\ t.told = told
  BY <1>1 DEF Tasks, Awaited!Over
<1>5. task' \in Tasks /\ task'.runs = task.runs /\ task'.key = task.key /\ CancelInv'
  <2>1. CASE Awaited!RunEnds \/ Awaited!WaitEnds
    <3>1. PICK at \in {"wait", "idle", "returned", "timeout"} : task' = [task EXCEPT !.at = at]
      <4>1. CASE Awaited!RunEnds
        <5>1. PICK at \in {"wait", "idle"} :
                  at = (IF requests["run"].at = "answered" THEN "wait" ELSE "idle")
          OBVIOUS
        <5>2. QED
          BY <4>1, <5>1 DEF Awaited!RunEnds
      <4>2. CASE Awaited!WaitEnds
        BY <4>2 DEF Awaited!WaitEnds
      <4>3. QED
        BY <2>1, <4>1, <4>2
    <3>2. task' \in Tasks /\ task'.at = at /\ task'.runs = task.runs /\ task'.key = task.key
      BY <1>3, <3>1
    <3>3. task.at \in {"run", "wait"}
      BY <2>1 DEF Awaited!RunEnds, Awaited!WaitEnds
    <3>4. requests["cancel"].at = "off"
      BY <1>1, <3>3, Zenon DEF CancelInv, Pursued
    <3>5. requests'["cancel"].at = "off" /\ task'.at \in {"wait", "idle", "returned", "timeout"}
      BY <1>2, <3>2, <3>4
    <3>6. CancelInv'
      BY <3>5 DEF CancelInv, Pursued
    <3>7. QED
      BY <3>2, <3>6
  <2>2. CASE Awaited!CancelEnds
    <3>1. PICK told \in BOOLEAN : told = ~(requests["cancel"].at = "answered")
      OBVIOUS
    <3>2. task' = [task EXCEPT !.at = "raised", !.told = told]
      BY <2>2, <3>1 DEF Awaited!CancelEnds, Awaited!ToldOf
    <3>3. task' \in Tasks /\ task'.runs = task.runs /\ task'.key = task.key
      BY <1>4, <3>2
    <3>4. task'.at = "raised" /\ task'.told = told
      BY <1>4, <3>2
    <3>5. requests["cancel"].at \in {"answered", "failed"}
      BY <2>2 DEF Awaited!CancelEnds
    <3>6. PICK at \in {"answered", "failed"} : at = requests["cancel"].at
      BY <3>5
    <3>7. Pursued(at, task.at, service.cancelled, task.told)
      BY <1>1, <3>6 DEF CancelInv
    <3>8. Pursued(at, "raised", service.cancelled, told)
      BY <3>1, <3>6, <3>7 DEF Pursued
    <3>9. CancelInv'
      BY <1>2, <3>4, <3>6, <3>8 DEF CancelInv
    <3>10. QED
      BY <3>3, <3>9
  <2>3. CASE Awaited!CancelledAgain
    <3>1. task' = [task EXCEPT !.at = "raised", !.told = TRUE]
      BY <2>3 DEF Awaited!CancelledAgain, Awaited!ToldOf
    <3>2. task' \in Tasks /\ task'.runs = task.runs /\ task'.key = task.key
      BY <1>4, <3>1
    <3>3. task'.at = "raised" /\ task'.told = TRUE
      BY <1>4, <3>1
    <3>4. PICK at \in {"sent", "hold"} : at = requests["cancel"].at
      BY <2>3 DEF Awaited!CancelledAgain
    <3>5. Pursued(at, "raised", service.cancelled, TRUE)
      BY <3>4 DEF Pursued
    <3>6. CancelInv'
      BY <1>2, <3>3, <3>4, <3>5 DEF CancelInv
    <3>7. QED
      BY <3>2, <3>6
  <2>4. QED
    BY <2>1, <2>2, <2>3
<1>6. QED
  BY <1>1, <1>2, <1>5, AwaitedMoves
\* run() is cancelled while its request is under way.
LEMMA AwaitedRunCancelled ==
    ASSUME Awaited!AsyncTasksAssumption, AwaitedInv, Awaited!RunCancelled
    PROVE  AwaitedInv'
<1>1. /\ task \in Tasks /\ requests \in [{"run", "cancel"} -> Requests] /\ CancelInv
  BY AwaitedParts
<1>2. task.at = "run" /\ requests["run"].at # "off"
  BY DEF Awaited!RunCancelled
<1>3. UNCHANGED <<explicit, service>>
  BY DEF Awaited!RunCancelled
<1>4. /\ requests' \in [{"run", "cancel"} -> Requests]
      /\ requests'["run"].at = "dropped"
      /\ requests'["cancel"] = requests["cancel"]
      /\ afloat' \subseteq afloat \cup {task.key}
  BY <1>1, DroppedSound DEF Awaited!RunCancelled, Awaited!Carried
<1>5. task' = [task EXCEPT !.at = "idle"]
  BY DEF Awaited!RunCancelled
<1>6. /\ task' \in Tasks /\ task'.at = "idle" /\ task'.runs = task.runs /\ task'.key = task.key
  BY <1>1, <1>5 DEF Tasks
<1>7. CancelInv'
  <2>1. requests["cancel"].at = "off"
    BY <1>1, <1>2, Zenon DEF CancelInv, Pursued
  <2>2. requests'["cancel"].at = "off" /\ task'.at = "idle"
    BY <1>4, <1>6, <2>1
  <2>3. QED
    BY <2>2 DEF CancelInv, Pursued
<1>8. \A r \in {"run", "cancel"} :
          requests'[r] = requests[r] \/ requests'[r].at \in {"sent", "dropped"}
  BY <1>4
<1>9. \A k \in afloat' : k \in afloat \/ (k = task.key /\ requests["run"].at # "off")
  BY <1>2, <1>4
<1>10. QED
  BY <1>2, <1>3, <1>4, <1>6, <1>7, <1>8, <1>9, AwaitedMoves

\* The wait is interrupted, and asks for a cancellation.
LEMMA AwaitedWaitCancelled ==
    ASSUME Awaited!AsyncTasksAssumption, AwaitedInv, Awaited!WaitCancelled
    PROVE  AwaitedInv'
<1>1. /\ task \in Tasks /\ requests \in [{"run", "cancel"} -> Requests] /\ CancelInv
  BY AwaitedParts
<1>2. UNCHANGED <<explicit, afloat, service>>
  BY DEF Awaited!WaitCancelled
<1>3. /\ requests' \in [{"run", "cancel"} -> Requests]
      /\ requests'["cancel"].at = "sent"
      /\ requests'["run"] = requests["run"]
  BY <1>1, SentSound DEF Awaited!WaitCancelled
<1>4. task' = [task EXCEPT !.at = "cancelling"]
  BY DEF Awaited!WaitCancelled
<1>5. task' \in Tasks /\ task'.at = "cancelling" /\ task'.runs = task.runs /\ task'.key = task.key
  BY <1>1, <1>4 DEF Tasks
<1>6. CancelInv'
  BY <1>3, <1>5 DEF CancelInv, Pursued
<1>7. \A r \in {"run", "cancel"} :
          requests'[r] = requests[r] \/ requests'[r].at \in {"sent", "dropped"}
  BY <1>3
<1>8. QED
  BY <1>2, <1>3, <1>5, <1>6, <1>7, AwaitedMoves

\* The loop is closed with what it still runs.
LEMMA AwaitedLoopCloses ==
    ASSUME Awaited!AsyncTasksAssumption, AwaitedInv, Awaited!LoopCloses
    PROVE  AwaitedInv'
<1>1. /\ task \in Tasks /\ requests \in [{"run", "cancel"} -> Requests] /\ CancelInv
  BY AwaitedParts
<1>2. UNCHANGED <<explicit, service>>
  BY DEF Awaited!LoopCloses
<1>3. task' = [task EXCEPT !.at = "closed"] /\ task.at \in Awaited!Over \ {"closed"}
  BY DEF Awaited!LoopCloses
<1>4. /\ task' \in Tasks /\ task'.at = "closed" /\ task'.runs = task.runs /\ task'.key = task.key
      /\ task'.told = task.told
  BY <1>1, <1>3 DEF Tasks, Awaited!Over
<1>5. /\ requests' \in [{"run", "cancel"} -> Requests]
      /\ requests'["run"] = requests["run"]
      /\ \/ requests'["cancel"] = requests["cancel"]
         \/ requests["cancel"].at \in {"sent", "hold"} /\ requests'["cancel"].at = "dropped"
      /\ afloat' \subseteq afloat \cup {Awaited!CancelKey}
  <2>1. CASE requests["cancel"].at \in {"sent", "hold"}
    BY <1>1, <2>1, DroppedSound DEF Awaited!LoopCloses, Awaited!Carried
  <2>2. CASE requests["cancel"].at \notin {"sent", "hold"}
    BY <1>1, <2>2 DEF Awaited!LoopCloses
  <2>3. QED
    BY <2>1, <2>2
<1>6. CancelInv'
  <2>1. PICK old : old = requests["cancel"].at
    OBVIOUS
  <2>2. PICK new : new = requests'["cancel"].at
    OBVIOUS
  <2>3. PICK where \in {"returned", "timeout", "raised"} : where = task.at
    BY <1>3 DEF Awaited!Over
  <2>4. new = old \/ (old \in {"sent", "hold"} /\ new = "dropped")
    BY <1>5, <2>1, <2>2
  <2>5. Pursued(old, where, service.cancelled, task.told)
    BY <1>1, <2>1, <2>3 DEF CancelInv
  <2>6. Pursued(new, "closed", service.cancelled, task.told)
    BY <2>3, <2>4, <2>5 DEF Pursued
  <2>7. QED
    BY <1>2, <1>4, <2>2, <2>6 DEF CancelInv
<1>7. \A r \in {"run", "cancel"} :
          requests'[r] = requests[r] \/ requests'[r].at \in {"sent", "dropped"}
  BY <1>5
<1>8. \A k \in afloat' : k \in afloat \/ k = Awaited!CancelKey
  BY <1>5
<1>9. QED
  BY <1>2, <1>4, <1>5, <1>6, <1>7, <1>8, AwaitedMoves

\* The control plane receives what was afloat, or the workload ends.
LEMMA AwaitedService ==
    ASSUME Awaited!AsyncTasksAssumption, AwaitedInv,
           (\E k \in afloat : Awaited!Arrives(k)) \/ Awaited!Concludes
    PROVE  AwaitedInv'
<1>1. /\ task \in Tasks /\ explicit \in BOOLEAN /\ requests \in [{"run", "cancel"} -> Requests]
      /\ service \in Services /\ RunKeys \subseteq Awaited!Keys /\ KeysInv /\ CancelInv
  BY AwaitedParts
<1>2. UNCHANGED <<explicit, task, requests>> /\ afloat' \subseteq afloat
  BY DEF Awaited!Arrives, Awaited!Concludes
<1>3. /\ service' \in Services
      /\ service.cancelled => service'.cancelled
      /\ service'.accepted \subseteq RunKeys
  <2>1. CASE \E k \in afloat : Awaited!Arrives(k)
    <3>1. PICK k \in afloat : Awaited!Arrives(k)
      BY <2>1
    <3>2. PICK r \in {"run", "cancel"} : r = (IF k = Awaited!CancelKey THEN "cancel" ELSE "run")
      OBVIOUS
    <3>3. Awaited!Receive(r, k)
      BY <3>1, <3>2 DEF Awaited!Arrives
    <3>4. r = "run" => k \in RunKeys
      BY <1>1, <3>2 DEF KeysInv
    <3>5. /\ service' \in Services
          /\ service'.accepted = IF r = "run" THEN service.accepted \cup {k} ELSE service.accepted
          /\ service.cancelled => service'.cancelled
      BY <1>1, <3>3, <3>4, ReceiveSound
    <3>6. QED
      BY <1>1, <3>4, <3>5 DEF KeysInv
  <2>2. CASE Awaited!Concludes
    <3>1. service' = [service EXCEPT !.over = TRUE]
      BY <2>2 DEF Awaited!Concludes
    <3>2. service' \in Services /\ service'.cancelled = service.cancelled
      BY <1>1, <3>1 DEF Services
    <3>3. service'.accepted = service.accepted
      BY <1>1, <3>1 DEF Services
    <3>4. QED
      BY <1>1, <3>2, <3>3 DEF KeysInv
  <2>3. QED
    BY <2>1, <2>2
<1>4. RunKeys' = RunKeys
  BY <1>2 DEF RunKeys
<1>5. KeysInv'
  <2>1. service'.accepted \subseteq RunKeys' /\ afloat' \subseteq RunKeys' \cup {Awaited!CancelKey}
    BY <1>1, <1>2, <1>3, <1>4 DEF KeysInv
  <2>2. requests'["run"].at # "off" => task'.key \in RunKeys'
    BY <1>1, <1>2, <1>4 DEF KeysInv
  <2>3. \A r \in {"run", "cancel"} : requests'[r].at = "hold" => requests'[r].attempt < MaxRetries
    BY <1>1, <1>2 DEF KeysInv
  <2>4. QED
    BY <2>1, <2>2, <2>3 DEF KeysInv, Awaited!CancelKey
<1>6. CancelInv'
  <2>1. Pursued(requests["cancel"].at, task.at, service.cancelled, task.told)
    BY <1>1 DEF CancelInv
  <2>2. Pursued(requests["cancel"].at, task.at, service'.cancelled, task.told)
    BY <1>3, <2>1, Zenon DEF Pursued
  <2>3. QED
    BY <1>2, <2>2 DEF CancelInv
<1>7. /\ explicit' \in BOOLEAN /\ task' \in Tasks /\ requests' \in [{"run", "cancel"} -> Requests]
      /\ RunKeys' \subseteq Awaited!Keys
  BY <1>1, <1>2, <1>4
<1>8. QED
  BY <1>3, <1>5, <1>6, <1>7, AwaitedWhole

\* Init and the steps keep the invariant.
LEMMA AwaitedInit ==
    ASSUME Awaited!AsyncTasksAssumption, Awaited!Init PROVE AwaitedInv
<1>1. /\ explicit \in BOOLEAN
      /\ task = [at |-> "idle", runs |-> 0, key |-> 0, told |-> FALSE]
      /\ requests = [r \in {"run", "cancel"} |-> [at |-> "off", attempt |-> 0]]
      /\ afloat = {}
      /\ service = [accepted |-> {}, cancelled |-> FALSE, over |-> FALSE]
  BY DEF Awaited!Init
<1>2. MaxRetries \in Nat /\ MaxRuns \in Nat
  BY DEF Awaited!AsyncTasksAssumption
<1>3. Awaited!TypeOK
  <2>1. [at |-> "off", attempt |-> 0] \in Requests
    BY <1>2 DEF Requests
  <2>2. requests \in [{"run", "cancel"} -> Requests]
    BY <1>1, <2>1
  <2>3. task \in Tasks
    BY <1>1, <1>2 DEF Tasks, Awaited!Keys
  <2>4. service \in Services
    BY <1>1 DEF Services
  <2>5. QED
    BY <1>1, <2>2, <2>3, <2>4 DEF Awaited!TypeOK, Requests, Tasks, Services
<1>4. KeysInv
  BY <1>1 DEF KeysInv
<1>5. CancelInv
  BY <1>1 DEF CancelInv, Pursued
<1>6. QED
  BY <1>3, <1>4, <1>5 DEF AwaitedInv

LEMMA AwaitedStep ==
    ASSUME Awaited!AsyncTasksAssumption, AwaitedInv, [Awaited!Next]_(Awaited!vars) PROVE AwaitedInv'
<1>1. CASE \E r \in {"run", "cancel"} :
               \/ Awaited!Answered(r) \/ Awaited!NotAnswered(r) \/ Awaited!Unusable(r)
               \/ Awaited!SendAgain(r)
  BY <1>1, AwaitedAttempts
<1>2. CASE (\E k \in afloat : Awaited!Arrives(k)) \/ Awaited!Concludes
  BY <1>2, AwaitedService
<1>3. CASE Awaited!Run
  BY <1>3, AwaitedRun
<1>4. CASE \/ Awaited!RunEnds \/ Awaited!WaitEnds \/ Awaited!CancelEnds \/ Awaited!CancelledAgain
  BY <1>4, AwaitedTaskSteps
<1>5. CASE Awaited!RunCancelled
  BY <1>5, AwaitedRunCancelled
<1>6. CASE Awaited!WaitCancelled
  BY <1>6, AwaitedWaitCancelled
<1>7. CASE Awaited!LoopCloses
  BY <1>7, AwaitedLoopCloses
<1>8. CASE UNCHANGED Awaited!vars
  BY <1>8 DEF Awaited!vars, AwaitedInv, Awaited!TypeOK, KeysInv, RunKeys, CancelInv
<1>9. QED
  BY <1>1, <1>2, <1>3, <1>4, <1>5, <1>6, <1>7, <1>8 DEF Awaited!Next

\* The size of a set does not depend on the module that takes it.
LEMMA AwaitedSizes ==
    ASSUME NEW S PROVE Awaited!Cardinality(S) = Cardinality(S)
BY Zenon DEF Awaited!Cardinality, Cardinality

\* Every accepted request carries a key of its own run() call, or the application's.
LEMMA AwaitedPays ==
    ASSUME Awaited!AsyncTasksAssumption, AwaitedInv
    PROVE  Awaited!OneWorkload
<1>1. task.runs \in 0 .. MaxRuns /\ MaxRuns \in Nat /\ service.accepted \subseteq RunKeys
  BY AwaitedParts DEF KeysInv
<1>2. CASE explicit
  <2>1. service.accepted \subseteq {0}
    BY <1>1, <1>2 DEF RunKeys
  <2>2. IsFiniteSet({0}) /\ Cardinality({0}) = 1
    BY FS_Singleton
  <2>3. Cardinality(service.accepted) <= 1
    BY <2>1, <2>2, FS_Subset
  <2>4. Awaited!OneWorkload <=> Cardinality(service.accepted) <= 1
    BY <1>2, AwaitedSizes, Zenon DEF Awaited!OneWorkload
  <2>5. QED
    BY <2>3, <2>4
<1>3. CASE ~explicit
  <2>1. service.accepted \subseteq 1 .. task.runs
    BY <1>1, <1>3 DEF RunKeys
  <2>2. IsFiniteSet(1 .. task.runs) /\ Cardinality(1 .. task.runs) = task.runs
    <3>1. PICK n \in Nat : n = task.runs
      BY <1>1
    <3>2. IsFiniteSet(1 .. n) /\ Cardinality(1 .. n) = (IF 1 > n THEN 0 ELSE n - 1 + 1)
      BY FS_Interval
    <3>3. QED
      BY <3>1, <3>2
  <2>3. Cardinality(service.accepted) <= task.runs
    BY <2>1, <2>2, FS_Subset
  <2>4. Awaited!OneWorkload <=> Cardinality(service.accepted) <= task.runs
    BY <1>3, AwaitedSizes, Zenon DEF Awaited!OneWorkload
  <2>5. QED
    BY <2>3, <2>4
<1>4. QED
  BY <1>2, <1>3

\* Submitting under one key again after a run() was cancelled or failed buys no
\* second workload, wherever the earlier request still is; without a key of the
\* application's own, no run() call buys two (nodus/__init__.py:1761-1767).
THEOREM AwaitedOnce ==
    ASSUME Awaited!AsyncTasksAssumption PROVE Awaited!Spec => []Awaited!OneWorkload
<1>1. Awaited!Init => AwaitedInv
  BY AwaitedInit
<1>2. AwaitedInv /\ [Awaited!Next]_(Awaited!vars) => AwaitedInv'
  BY AwaitedStep
<1>3. AwaitedInv => Awaited!OneWorkload
  BY AwaitedPays
<1>4. QED
  BY <1>1, <1>2, <1>3, PTL DEF Awaited!Spec

\* A wait that was interrupted does not end in silence: the control plane received
\* the cancellation, or the error says it is not confirmed
\* (nodus/__init__.py:2044-2050).
THEOREM AwaitedTold ==
    ASSUME Awaited!AsyncTasksAssumption PROVE Awaited!Spec => []Awaited!ToldOrCancelled
<1>1. Awaited!Init => AwaitedInv
  BY AwaitedInit
<1>2. AwaitedInv /\ [Awaited!Next]_(Awaited!vars) => AwaitedInv'
  BY AwaitedStep
<1>3. AwaitedInv => Awaited!ToldOrCancelled
  BY Zenon DEF AwaitedInv, CancelInv, Pursued, Awaited!ToldOrCancelled, Awaited!Interrupted
<1>4. QED
  BY <1>1, <1>2, <1>3, PTL DEF Awaited!Spec

\* Cancelling the wait again does not take back the cancellation it asked for
\* (nodus/__init__.py:2046).
THEOREM AwaitedPursued ==
    ASSUME Awaited!AsyncTasksAssumption PROVE Awaited!Spec => []Awaited!CancelPursued
<1>1. Awaited!Init => AwaitedInv
  BY AwaitedInit
<1>2. AwaitedInv /\ [Awaited!Next]_(Awaited!vars) => AwaitedInv'
  BY AwaitedStep
<1>3. AwaitedInv => Awaited!CancelPursued
  BY Zenon DEF AwaitedInv, CancelInv, Pursued, Awaited!CancelPursued, Awaited!Interrupted
<1>4. QED
  BY <1>1, <1>2, <1>3, PTL DEF Awaited!Spec

-----------------------------------------------------------------------------
(* Commands.  Whatever was or may yet be applied for a wish is one         *)
(* operation, and until its user knows the result it is the one the next   *)
(* command would ask for: under the key, and on the object, that were      *)
(* shown.                                                                *)

Wishes == [kind : Typed!Kinds, open : BOOLEAN, n : 0 .. MaxCommands, key : 0 .. MaxCommands,
           ref : 0 .. MaxObjects, knows : SUBSET {"key", "object", "result"},
           said : {"nothing", "requested", "not confirmed"}, masked : BOOLEAN]
Commanded == [pc : {"off", "resolve", "confirm", "send", "unguarded", "observe", "cancel"},
              key : 0 .. MaxCommands, target : 0 .. MaxObjects, admitted : BOOLEAN]
Accounts == [named : 0 .. MaxObjects, effects : SUBSET Typed!Operation,
             transit : SUBSET Typed!Operation, cancelled : BOOLEAN]

Asked == account.effects \cup account.transit
Observing == {"unguarded", "observe", "cancel"}

\* The user was told how to ask for it again.
ToldHow(op) == /\ "key" \in intent.knows /\ op.key = intent.key
               /\ op.target # 0 => op.target = intent.ref

CourseInv ==
    /\ command.pc # "off" => intent.open /\ command.key # 0
    /\ intent.open /\ "result" \in intent.knows => intent.kind = "follow"
    /\ intent.kind = "follow" => command.pc \in {"off", "observe", "cancel"} /\ Asked = {}
    /\ command.pc \in {"resolve", "confirm"} => intent.kind \in Typed!Targets
    /\ command.pc = "unguarded" => intent.kind \in {"launch", "exec"}
    /\ command.admitted => command.pc \in Observing \/ "result" \in intent.knows \/ intent.masked

WishInv ==
    ~intent.masked /\ intent.kind # "import" =>
       /\ \A op \in Asked : op.key # 0 /\ (op.target # 0 <=> intent.kind \in Typed!Targets)
       /\ \A op, other \in Asked : op = other
       /\ \/ "result" \in intent.knows \/ command.pc \in Observing
          \/ \A op \in Asked : ToldHow(op)
       /\ command.pc \in {"resolve", "confirm", "send"} /\ intent.key # 0 => command.key = intent.key
       /\ command.pc \in {"confirm", "send"} =>
             /\ command.target # 0 <=> intent.kind \in Typed!Targets
             /\ intent.kind \in Typed!Targets /\ intent.ref # 0 => command.target = intent.ref

CommandsInv == Typed!TypeOK /\ CourseInv /\ WishInv /\ Typed!SaidIsSo
\* The types alone, and back.
LEMMA CommandTypes ==
    ASSUME Typed!CommandsAssumption
    PROVE  /\ Typed!TypeOK <=> intent \in Wishes /\ command \in Commanded /\ account \in Accounts
           /\ MaxCommands \in Nat /\ MaxObjects \in Nat \ {0}
BY DEF Typed!CommandsAssumption, Typed!TypeOK, Wishes, Commanded, Accounts

\* What the server does with an operation.
LEMMA ApplySound ==
    ASSUME Typed!CommandsAssumption, account \in Accounts, NEW op \in Typed!Operation
    PROVE  LET after == Typed!Apply(op) IN
           /\ after \in Accounts /\ after.cancelled = account.cancelled
           /\ after.effects = account.effects \cup {op} /\ after.transit = account.transit \ {op}
<1>1. PICK named \in 0 .. MaxObjects :
         named = IF intent.kind = "delete" /\ op.target = account.named THEN 0 ELSE account.named
  <2>1. account.named \in 0 .. MaxObjects /\ op.target \in 0 .. MaxObjects
    BY DEF Accounts, Typed!Operation
  <2>2. CASE intent.kind = "delete" /\ op.target = account.named
    BY <2>1, <2>2 DEF Typed!CommandsAssumption
  <2>3. CASE ~(intent.kind = "delete" /\ op.target = account.named)
    BY <2>1, <2>3
  <2>4. QED
    BY <2>2, <2>3
<1>2. PICK effects \in SUBSET Typed!Operation : effects = account.effects \cup {op}
  BY DEF Accounts
<1>3. PICK sent \in SUBSET Typed!Operation : sent = account.transit \ {op}
  BY DEF Accounts
<1>4. Typed!Apply(op) = [account EXCEPT !.effects = effects, !.transit = sent, !.named = named]
  BY <1>1, <1>2, <1>3 DEF Typed!Apply, Typed!Unset
<1>5. QED
  BY <1>2, <1>3, <1>4 DEF Accounts

\* What may have become of a request without an answer.
LEMMA UnansweredSound ==
    ASSUME Typed!CommandsAssumption, account \in Accounts, command \in Commanded,
           Typed!Unanswered
    PROVE  /\ account' \in Accounts /\ account'.cancelled = account.cancelled
           /\ Asked' \subseteq Asked \cup {Typed!Operated}
<1>1. PICK op \in Typed!Operation : op = Typed!Operated
  BY DEF Typed!Operated, Typed!Operation, Commanded
<1>2. CASE account' = account
  BY <1>2 DEF Asked
<1>3. CASE account' = Typed!Apply(op)
  BY <1>1, <1>3, ApplySound DEF Asked
<1>4. CASE account' = [account EXCEPT !.transit = @ \cup {op}]
  <2>1. PICK sent \in SUBSET Typed!Operation : sent = account.transit \cup {op}
    BY DEF Accounts
  <2>2. account' = [account EXCEPT !.transit = sent]
    BY <1>4, <2>1
  <2>3. /\ account' \in Accounts /\ account'.cancelled = account.cancelled
        /\ account'.effects = account.effects /\ account'.transit = sent
    BY <2>2 DEF Accounts
  <2>4. QED
    BY <1>1, <2>1, <2>3 DEF Asked
<1>5. QED
  BY <1>1, <1>2, <1>3, <1>4 DEF Typed!Unanswered

\* What a command that ends leaves to its user.
LEMMA ExitSound ==
    ASSUME intent \in Wishes, command \in Commanded, NEW shown \in SUBSET {"key", "object", "result"},
           NEW settled \in BOOLEAN, Typed!Exit(shown, settled)
    PROVE  /\ intent' \in Wishes /\ command' \in Commanded
           /\ command'.pc = "off" /\ command'.admitted = command.admitted
           /\ intent'.kind = intent.kind /\ intent'.masked = intent.masked /\ intent'.said = intent.said
           /\ intent'.knows = intent.knows \cup shown
           /\ intent'.key = IF "key" \in shown THEN command.key ELSE intent.key
           /\ intent'.ref = IF "object" \in shown THEN command.target ELSE intent.ref
           /\ intent'.open => "result" \notin shown
<1>1. PICK knows \in SUBSET {"key", "object", "result"} : knows = intent.knows \cup shown
  BY DEF Wishes
<1>2. PICK key \in 0 .. MaxCommands : key = IF "key" \in shown THEN command.key ELSE intent.key
  BY DEF Wishes, Commanded
<1>3. PICK ref \in 0 .. MaxObjects : ref = IF "object" \in shown THEN command.target ELSE intent.ref
  BY DEF Wishes, Commanded
<1>4. PICK open \in BOOLEAN : open = (~settled /\ "result" \notin shown /\ intent.kind # "import")
  OBVIOUS
<1>5. intent' = [intent EXCEPT !.knows = knows, !.key = key, !.ref = ref, !.open = open]
  BY <1>1, <1>2, <1>3, <1>4 DEF Typed!Exit
<1>6. command' = [command EXCEPT !.pc = "off"]
  BY DEF Typed!Exit
<1>7. command' \in Commanded /\ command'.pc = "off" /\ command'.admitted = command.admitted
  BY <1>6 DEF Commanded
<1>8. intent' \in Wishes
  BY <1>5 DEF Wishes
<1>9. /\ intent'.kind = intent.kind /\ intent'.masked = intent.masked /\ intent'.said = intent.said
      /\ intent'.knows = knows /\ intent'.key = key /\ intent'.ref = ref
      /\ intent'.open = open
  BY <1>5 DEF Wishes
<1>10. intent'.open => "result" \notin shown
  BY <1>4, <1>9
<1>11. QED
  BY <1>1, <1>2, <1>3, <1>7, <1>8, <1>9, <1>10
\* What was asked for is what a command that sends asks for again.
LEMMA SentAgain ==
    ASSUME command \in Commanded, account \in Accounts, CourseInv, WishInv,
           ~intent.masked, intent.kind # "import", command.pc = "send"
    PROVE  \A op \in Asked : op = Typed!Operated
<1>. SUFFICES ASSUME NEW op \in Asked PROVE op = Typed!Operated
  OBVIOUS
<1>1. op \in Typed!Operation
  BY DEF Asked, Accounts
<1>2. ToldHow(op) /\ op.key # 0 /\ (op.target # 0 <=> intent.kind \in Typed!Targets)
  BY DEF CourseInv, WishInv, Observing
<1>3. op.key = command.key
  BY <1>2 DEF WishInv, ToldHow
<1>4. op.target = command.target
  BY <1>2 DEF WishInv, ToldHow
<1>5. QED
  BY <1>1, <1>3, <1>4 DEF Typed!Operation, Typed!Operated

\* A command that ends, with what it asked of the account or without, keeps the invariant.
LEMMA ExitKeeps ==
    ASSUME Typed!CommandsAssumption, CommandsInv, NEW shown \in SUBSET {"key", "object", "result"},
           NEW settled \in BOOLEAN, Typed!Exit(shown, settled), command.pc # "off",
           account' \in Accounts, account'.cancelled = account.cancelled,
           command.pc \in Observing => "result" \in shown,
           Asked' = Asked \/ (command.pc = "send" /\ Asked' \subseteq Asked \cup {Typed!Operated}),
           Asked' # Asked => "result" \in shown \/ shown = Typed!Advice(intent.kind),
           shown \cap {"key", "object"} # {} =>
               command.pc = "send" /\ shown = Typed!Advice(intent.kind)
    PROVE  CommandsInv'
<1>1. intent \in Wishes /\ command \in Commanded /\ account \in Accounts
  BY CommandTypes DEF CommandsInv
<1>2. /\ intent' \in Wishes /\ command' \in Commanded
      /\ command'.pc = "off" /\ command'.admitted = command.admitted
      /\ intent'.kind = intent.kind /\ intent'.masked = intent.masked /\ intent'.said = intent.said
      /\ intent'.knows = intent.knows \cup shown
      /\ intent'.key = IF "key" \in shown THEN command.key ELSE intent.key
      /\ intent'.ref = IF "object" \in shown THEN command.target ELSE intent.ref
      /\ intent'.open => "result" \notin shown
  BY <1>1, ExitSound
<1>3. CourseInv /\ WishInv /\ Typed!SaidIsSo
  BY DEF CommandsInv
<1>4. Typed!TypeOK'
  BY <1>2 DEF Typed!TypeOK, Wishes, Commanded, Accounts
<1>5. CourseInv'
  <2>1. intent'.open /\ "result" \in intent'.knows => intent'.kind = "follow"
    BY <1>2, <1>3 DEF CourseInv, Observing
  <2>2. intent'.kind = "follow" => Asked' = {}
    BY <1>2, <1>3 DEF CourseInv, Observing
  <2>3. command'.admitted => "result" \in intent'.knows \/ intent'.masked
    BY <1>2, <1>3 DEF CourseInv, Observing
  <2>4. QED
    BY <1>2, <2>1, <2>2, <2>3 DEF CourseInv, Observing
<1>6. WishInv'
  <2>. SUFFICES ASSUME ~intent.masked, intent.kind # "import" PROVE WishInv'
    BY <1>2 DEF WishInv
  <2>1. /\ \A op \in Asked : op.key # 0 /\ (op.target # 0 <=> intent.kind \in Typed!Targets)
        /\ \A op, other \in Asked : op = other
        /\ \/ "result" \in intent.knows \/ command.pc \in Observing
           \/ \A op \in Asked : ToldHow(op)
    BY <1>3 DEF WishInv
  <2>2. shown \cap {"key", "object"} = {} /\ Asked' = Asked /\ (\A op \in Asked : ToldHow(op))
           => \A op \in Asked' : ToldHow(op)'
    BY <1>2 DEF ToldHow
  <2>3. command.pc = "send" => \A op \in Asked \cup {Typed!Operated} : op = Typed!Operated
    BY <1>1, <1>3, SentAgain
  <2>4. \/ "result" \in intent'.knows
        \/ \A op \in Asked' : ToldHow(op)'
    <3>1. CASE "result" \in shown \/ "result" \in intent.knows
      BY <1>2, <3>1
    <3>2. CASE /\ "result" \notin shown /\ "result" \notin intent.knows
               /\ shown \cap {"key", "object"} = {}
      <4>1. \A op \in Asked : ToldHow(op)
        BY <2>1, <3>2
      <4>2. Asked' = Asked
        <5>1. "key" \in Typed!Advice(intent.kind)
          BY DEF Typed!Advice
        <5>2. QED
          BY <3>2, <5>1
      <4>3. QED
        BY <2>2, <3>2, <4>1, <4>2
    <3>3. CASE shown \cap {"key", "object"} # {}
      <4>1. command.pc = "send" /\ shown = Typed!Advice(intent.kind)
        BY <3>3
      <4>2. "key" \in shown /\ (intent.kind \in Typed!Targets => "object" \in shown)
        BY <4>1 DEF Typed!Advice
      <4>3. /\ intent'.key = command.key /\ "key" \in intent'.knows
            /\ intent.kind \in Typed!Targets => intent'.ref = command.target
        BY <1>2, <4>2
      <4>4. command.target # 0 => intent.kind \in Typed!Targets
        BY <1>3, <4>1 DEF WishInv
      <4>5. \A op \in Asked' : op = Typed!Operated
        BY <2>3, <4>1
      <4>6. Typed!Operated.key = command.key /\ Typed!Operated.target = command.target
        BY DEF Typed!Operated
      <4>7. QED
        BY <4>3, <4>4, <4>5, <4>6 DEF ToldHow
    <3>4. QED
      BY <3>1, <3>2, <3>3
  <2>5. /\ \A op \in Asked' : op.key # 0 /\ (op.target # 0 <=> intent.kind \in Typed!Targets)
        /\ \A op, other \in Asked' : op = other
    <3>1. CASE command.pc = "send"
      <4>1. Typed!Operated.key = command.key /\ Typed!Operated.target = command.target
        BY DEF Typed!Operated
      <4>2. command.key # 0 /\ (command.target # 0 <=> intent.kind \in Typed!Targets)
        BY <1>3, <3>1 DEF CourseInv, WishInv
      <4>3. \A op \in Asked' : op = Typed!Operated
        BY <2>3, <3>1
      <4>4. QED
        BY <4>1, <4>2, <4>3
    <3>2. CASE command.pc # "send"
      BY <2>1, <3>2
    <3>3. QED
      BY <3>1, <3>2
  <2>6. QED
    BY <1>2, <2>4, <2>5 DEF WishInv
<1>7. Typed!SaidIsSo'
  BY <1>2, <1>3 DEF Typed!SaidIsSo
<1>8. QED
  BY <1>4, <1>5, <1>6, <1>7 DEF CommandsInv
\* A command that goes on: where it stands, and on which object.
LEMMA CommandGoes ==
    ASSUME Typed!CommandsAssumption, CommandsInv, UNCHANGED intent,
           command' \in Commanded, command'.key = command.key, command.pc # "off",
           account' \in Accounts, account'.cancelled = account.cancelled,
           \/ /\ command'.pc \in {"confirm", "send"} /\ Asked' = Asked
              /\ command.pc \in {"resolve", "confirm"} /\ command'.admitted = command.admitted
              /\ ~intent.masked /\ intent.kind # "import" =>
                    command'.target # 0 /\ (intent.ref # 0 => command'.target = intent.ref)
           \/ /\ command'.pc \in Observing /\ command.pc \in {"send", "unguarded", "observe"}
              /\ command'.pc = "unguarded" => intent.kind \in {"launch", "exec"}
              /\ \/ Asked' = Asked
                 \/ command.pc = "send" /\ Asked' \subseteq Asked \cup {Typed!Operated}
    PROVE  CommandsInv'
<1>1. intent \in Wishes /\ command \in Commanded /\ account \in Accounts
  BY CommandTypes DEF CommandsInv
<1>2. CourseInv /\ WishInv /\ Typed!SaidIsSo
  BY DEF CommandsInv
<1>3. Typed!TypeOK'
  BY <1>1 DEF Typed!TypeOK, Wishes, Commanded, Accounts
<1>4. CourseInv'
  BY <1>2 DEF CourseInv, Observing
<1>5. WishInv'
  <2>. SUFFICES ASSUME ~intent.masked, intent.kind # "import" PROVE WishInv'
    BY DEF WishInv
  <2>1. /\ \A op \in Asked : op.key # 0 /\ (op.target # 0 <=> intent.kind \in Typed!Targets)
        /\ \A op, other \in Asked : op = other
        /\ \/ "result" \in intent.knows \/ command.pc \in Observing
           \/ \A op \in Asked : ToldHow(op)
        /\ command.pc \in {"resolve", "confirm", "send"} /\ intent.key # 0 => command.key = intent.key
    BY <1>2 DEF WishInv
  <2>2. CASE command'.pc \in {"confirm", "send"}
    <3>1. \/ "result" \in intent'.knows
          \/ \A op \in Asked' : ToldHow(op)'
      BY <2>1, <2>2 DEF ToldHow, Observing
    <3>2. intent.kind \in Typed!Targets /\ command'.target # 0
             /\ (intent.ref # 0 => command'.target = intent.ref)
      BY <1>2, <2>2 DEF CourseInv, Observing
    <3>3. QED
      BY <2>1, <2>2, <3>1, <3>2 DEF WishInv, Observing
  <2>3. CASE command'.pc \in Observing
    <3>1. /\ \A op \in Asked' : op.key # 0 /\ (op.target # 0 <=> intent.kind \in Typed!Targets)
          /\ \A op, other \in Asked' : op = other
      <4>1. CASE Asked' = Asked
        BY <2>1, <4>1
      <4>2. CASE command.pc = "send" /\ Asked' \subseteq Asked \cup {Typed!Operated}
        <5>1. \A op \in Asked : op = Typed!Operated
          BY <1>1, <1>2, <4>2, SentAgain
        <5>2. Typed!Operated.key = command.key /\ Typed!Operated.target = command.target
          BY DEF Typed!Operated
        <5>3. command.key # 0 /\ (command.target # 0 <=> intent.kind \in Typed!Targets)
          BY <1>2, <4>2 DEF CourseInv, WishInv
        <5>4. \A op \in Asked' : op = Typed!Operated
          BY <4>2, <5>1
        <5>5. QED
          BY <5>2, <5>3, <5>4
      <4>3. QED
        BY <2>3, <4>1, <4>2
    <3>2. QED
      BY <2>3, <3>1 DEF WishInv, Observing
  <2>4. QED
    BY <2>2, <2>3
<1>6. Typed!SaidIsSo'
  BY <1>2 DEF Typed!SaidIsSo
<1>7. QED
  BY <1>3, <1>4, <1>5, <1>6 DEF CommandsInv
\* A command is given, with the key that was shown or one of its own.
LEMMA CommandInvoked ==
    ASSUME Typed!CommandsAssumption, CommandsInv, Typed!Invoke
    PROVE  CommandsInv'
<1>1. /\ intent \in Wishes /\ command \in Commanded /\ account \in Accounts
      /\ MaxCommands \in Nat /\ MaxObjects \in Nat \ {0}
  BY CommandTypes DEF CommandsInv
<1>2. CourseInv /\ WishInv /\ Typed!SaidIsSo
  BY DEF CommandsInv
<1>3. command.pc = "off" /\ intent.open /\ account' = account
  BY DEF Typed!Invoke
<1>4. PICK n \in 1 .. MaxCommands : n = intent.n + 1
  <2>1. intent.n \in 0 .. MaxCommands /\ intent.n < MaxCommands
    BY <1>1 DEF Typed!Invoke, Wishes
  <2>2. QED
    BY <1>1, <2>1
<1>5. PICK key \in 1 .. MaxCommands : key = IF intent.key # 0 THEN intent.key ELSE n
  <2>1. intent.key \in 0 .. MaxCommands
    BY <1>1 DEF Wishes
  <2>2. CASE intent.key # 0
    BY <1>1, <2>1, <2>2
  <2>3. CASE intent.key = 0
    BY <2>3
  <2>4. QED
    BY <2>2, <2>3
<1>6. PICK pc \in {"resolve", "observe", "send"} :
          pc = CASE intent.kind \in Typed!Targets -> "resolve"
                 [] intent.kind = "follow" -> "observe"
                 [] OTHER -> "send"
  OBVIOUS
<1>7. /\ pc = "resolve" => intent.kind \in Typed!Targets
      /\ pc = "send" => intent.kind \notin Typed!Targets /\ intent.kind # "follow"
      /\ intent.kind = "follow" => pc = "observe"
  BY <1>6 DEF Typed!Targets
<1>8. /\ intent' = [intent EXCEPT !.n = n]
      /\ command' = [command EXCEPT !.key = key, !.target = 0, !.pc = pc]
  BY <1>4, <1>5, <1>6, Zenon DEF Typed!Invoke, Typed!Unset
<1>9. /\ intent' \in Wishes
      /\ intent'.kind = intent.kind /\ intent'.open = intent.open /\ intent'.key = intent.key
      /\ intent'.ref = intent.ref /\ intent'.knows = intent.knows /\ intent'.said = intent.said
      /\ intent'.masked = intent.masked
  <2>1. n \in 0 .. MaxCommands
    BY <1>4
  <2>2. \A w \in Wishes : LET v == [w EXCEPT !.n = n] IN
            /\ v \in Wishes
            /\ v.kind = w.kind /\ v.open = w.open /\ v.key = w.key /\ v.ref = w.ref
            /\ v.knows = w.knows /\ v.said = w.said /\ v.masked = w.masked
    BY <2>1 DEF Wishes
  <2>3. QED
    BY <1>1, <1>8, <2>2
<1>10. /\ command' \in Commanded /\ command'.pc = pc /\ command'.key = key /\ command'.target = 0
       /\ command'.admitted = command.admitted
  <2>1. 0 \in 0 .. MaxObjects
    BY <1>1
  <2>2. \A c \in Commanded, k \in 0 .. MaxCommands :
            LET d == [c EXCEPT !.key = k, !.target = 0, !.pc = pc] IN
            /\ d \in Commanded /\ d.pc = pc /\ d.key = k /\ d.target = 0
            /\ d.admitted = c.admitted
    BY <2>1 DEF Commanded
  <2>3. key \in 0 .. MaxCommands
    BY <1>5
  <2>4. QED
    BY <1>1, <1>8, <2>2, <2>3
<1>11. Asked' = Asked
  BY <1>3 DEF Asked
<1>12. Typed!TypeOK'
  BY <1>1, <1>3, <1>9, <1>10 DEF Typed!TypeOK, Wishes, Commanded, Accounts
<1>13. CourseInv'
  BY <1>2, <1>3, <1>7, <1>9, <1>10, <1>11 DEF CourseInv, Observing
<1>14. WishInv'
  <2>. SUFFICES ASSUME ~intent.masked, intent.kind # "import" PROVE WishInv'
    BY <1>9 DEF WishInv
  <2>1. /\ \A op \in Asked : op.key # 0 /\ (op.target # 0 <=> intent.kind \in Typed!Targets)
        /\ \A op, other \in Asked : op = other
        /\ "result" \in intent.knows \/ \A op \in Asked : ToldHow(op)
    BY <1>2, <1>3 DEF WishInv, Observing
  <2>2. \/ "result" \in intent'.knows
        \/ \A op \in Asked' : ToldHow(op)'
    BY <1>9, <1>11, <2>1 DEF ToldHow
  <2>3. intent'.key # 0 => command'.key = intent'.key
    BY <1>5, <1>9, <1>10
  <2>4. command'.pc \in {"confirm", "send"} => intent.kind \notin Typed!Targets /\ command'.target = 0
    BY <1>7, <1>10
  <2>5. QED
    BY <1>9, <1>11, <2>1, <2>2, <2>3, <2>4 DEF WishInv
<1>15. Typed!SaidIsSo'
  BY <1>2, <1>3, <1>9 DEF Typed!SaidIsSo
<1>16. QED
  BY <1>12, <1>13, <1>14, <1>15 DEF CommandsInv

\* The object is found, confirmed; or the observation is interrupted.
LEMMA CommandProceeds ==
    ASSUME Typed!CommandsAssumption, CommandsInv,
           \/ Typed!Resolve \/ Typed!RetryDelete \/ Typed!Interrupted \/ Typed!ReadsState
           \/ Typed!Confirm /\ UNCHANGED intent
    PROVE  CommandsInv'
<1>1. intent \in Wishes /\ command \in Commanded /\ account \in Accounts
  BY CommandTypes DEF CommandsInv
<1>2. CourseInv /\ WishInv
  BY DEF CommandsInv
<1>3. UNCHANGED <<intent, account>> /\ Asked' = Asked
  BY DEF Typed!Resolve, Typed!RetryDelete, Typed!Interrupted, Typed!ReadsState, Typed!Confirm, Asked
<1>4. \A target \in 0 .. MaxObjects, pc \in {"confirm", "send"} :
          LET c == [command EXCEPT !.target = target, !.pc = pc] IN
          /\ c \in Commanded
          /\ c.pc = pc /\ c.target = target /\ c.key = command.key /\ c.admitted = command.admitted
  BY <1>1 DEF Commanded
<1>5. CASE Typed!Resolve \/ Typed!RetryDelete
  <2>1. PICK target \in 0 .. MaxObjects, pc \in {"confirm", "send"} :
            /\ target # 0 /\ (intent.ref # 0 => target = intent.ref)
            /\ command' = [command EXCEPT !.target = target, !.pc = pc]
    <3>1. CASE Typed!Resolve
      <4>1. Typed!Wanted \in 0 .. MaxObjects
        BY <1>1 DEF Typed!Wanted, Typed!Unset, Wishes, Accounts
      <4>2. PICK pc \in {"confirm", "send"} : pc = IF intent.kind = "delete" THEN "confirm" ELSE "send"
        OBVIOUS
      <4>3. command' = [command EXCEPT !.target = Typed!Wanted, !.pc = pc] /\ Typed!Wanted # 0
        BY <3>1, <4>2 DEF Typed!Resolve, Typed!Unset
      <4>4. intent.ref # 0 => Typed!Wanted = intent.ref
        BY DEF Typed!Wanted, Typed!Unset
      <4>5. QED
        BY <4>1, <4>3, <4>4
    <3>2. CASE Typed!RetryDelete
      <4>1. intent.ref \in 0 .. MaxObjects
        BY <1>1 DEF Wishes
      <4>2. command' = [command EXCEPT !.target = intent.ref, !.pc = "confirm"] /\ intent.ref # 0
        BY <3>2 DEF Typed!RetryDelete, Typed!Unset
      <4>3. QED
        BY <4>1, <4>2
    <3>3. QED
      BY <1>5, <3>1, <3>2
  <2>2. command.pc = "resolve"
    BY <1>5 DEF Typed!Resolve, Typed!RetryDelete
  <2>3. /\ command' \in Commanded
        /\ command'.pc \in {"confirm", "send"} /\ command'.target = target
        /\ command'.key = command.key /\ command'.admitted = command.admitted
    BY <1>4, <2>1
  <2>4. QED
    BY <1>1, <1>3, <2>1, <2>2, <2>3, CommandGoes
<1>6. CASE Typed!Confirm /\ UNCHANGED intent
  <2>1. command.pc = "confirm"
    BY <1>6 DEF Typed!Confirm
  <2>2. CASE command' = [command EXCEPT !.pc = "send"]
    <3>1. /\ command' \in Commanded /\ command'.pc = "send" /\ command'.target = command.target
          /\ command'.key = command.key /\ command'.admitted = command.admitted
      BY <1>1, <2>2 DEF Commanded
    <3>2. ~intent.masked /\ intent.kind # "import" =>
              command.target # 0 /\ (intent.ref # 0 => command.target = intent.ref)
      BY <1>2, <2>1 DEF CourseInv, WishInv
    <3>3. QED
      BY <1>1, <1>3, <2>1, <3>1, <3>2, CommandGoes
  <2>3. CASE Typed!Exit({}, TRUE)
    BY <1>1, <1>3, <2>1, <2>3, ExitKeeps DEF Observing
  <2>4. QED
    BY <1>6, <2>2, <2>3 DEF Typed!Confirm
<1>7. CASE Typed!Interrupted \/ Typed!ReadsState
  <2>1. PICK pc \in {"cancel", "unguarded"} :
            /\ command' = [command EXCEPT !.pc = pc] /\ command.pc = "observe"
            /\ pc = "unguarded" => intent.kind \in {"launch", "exec"}
    BY <1>7 DEF Typed!Interrupted, Typed!ReadsState
  <2>2. command' \in Commanded /\ command'.pc = pc /\ command'.key = command.key
    BY <1>1, <2>1 DEF Commanded
  <2>3. QED
    BY <1>1, <1>3, <2>1, <2>2, CommandGoes DEF Observing
<1>8. QED
  BY <1>5, <1>6, <1>7
\* A request is answered, and the command goes on or ends.
LEMMA CommandAnswered ==
    ASSUME Typed!CommandsAssumption, CommandsInv, Typed!Answered
    PROVE  CommandsInv'
<1>1. intent \in Wishes /\ command \in Commanded /\ account \in Accounts
  BY CommandTypes DEF CommandsInv
<1>2. command.pc = "send" /\ account' = Typed!Apply(Typed!Operated)
  BY DEF Typed!Answered
<1>3. Typed!Operated \in Typed!Operation
  BY <1>1 DEF Typed!Operated, Typed!Operation, Commanded
<1>4. /\ account' \in Accounts /\ account'.cancelled = account.cancelled
      /\ Asked' \subseteq Asked \cup {Typed!Operated}
  BY <1>1, <1>2, <1>3, ApplySound DEF Asked
<1>5. CASE intent.kind \in Typed!Waits
  <2>1. PICK pc \in {"observe", "unguarded"} :
            /\ command' = [command EXCEPT !.pc = pc, !.admitted = TRUE] /\ UNCHANGED intent
            /\ pc = "unguarded" => intent.kind = "launch"
    BY <1>5 DEF Typed!Answered
  <2>2. command' \in Commanded /\ command'.pc = pc /\ command'.key = command.key
    BY <1>1, <2>1 DEF Commanded
  <2>3. QED
    BY <1>2, <1>4, <2>1, <2>2, CommandGoes DEF Observing
<1>6. CASE intent.kind \notin Typed!Waits
  <2>1. Typed!Exit({"result"}, TRUE)
    BY <1>6 DEF Typed!Answered
  <2>2. {"result"} \cap {"key", "object"} = {}
    OBVIOUS
  <2>3. QED
    BY <1>2, <1>4, <2>1, <2>2, ExitKeeps DEF Observing
<1>7. QED
  BY <1>5, <1>6

\* A command ends without having changed anything, or without an answer.
LEMMA CommandEnds ==
    ASSUME Typed!CommandsAssumption, CommandsInv,
           \/ Typed!ResolveFails \/ Typed!Refused \/ Typed!OutcomeUnknown
           \/ Typed!Ends \/ Typed!ObservationFails
           \/ Typed!Unguarded /\ Typed!Exit({"result"}, TRUE)
    PROVE  CommandsInv'
<1>1. intent \in Wishes /\ command \in Commanded /\ account \in Accounts
  BY CommandTypes DEF CommandsInv
<1>2. CASE Typed!ResolveFails \/ Typed!Refused
  <2>1. Typed!Exit({}, FALSE) /\ command.pc \in {"resolve", "send"} /\ account' = account
    BY <1>2 DEF Typed!ResolveFails, Typed!Refused
  <2>2. Asked' = Asked
    BY <2>1 DEF Asked
  <2>3. QED
    BY <1>1, <2>1, <2>2, ExitKeeps DEF Observing
<1>3. CASE \/ Typed!Ends \/ Typed!ObservationFails
           \/ Typed!Unguarded /\ Typed!Exit({"result"}, TRUE)
  <2>1. /\ Typed!Exit({"result"}, TRUE) /\ command.pc \in {"unguarded", "observe"}
        /\ account' = account
    BY <1>3 DEF Typed!Ends, Typed!ObservationFails, Typed!Unguarded, Typed!Named
  <2>2. Asked' = Asked
    BY <2>1 DEF Asked
  <2>3. {"result"} \cap {"key", "object"} = {}
    OBVIOUS
  <2>4. QED
    BY <1>1, <2>1, <2>2, <2>3, ExitKeeps
<1>4. CASE Typed!OutcomeUnknown
  <2>1. PICK shown \in SUBSET {"key", "object", "result"} : shown = Typed!Advice(intent.kind)
    BY DEF Typed!Advice
  <2>2. Typed!Exit(shown, FALSE) /\ command.pc = "send" /\ Typed!Unanswered
    BY <1>4, <2>1 DEF Typed!OutcomeUnknown
  <2>3. /\ account' \in Accounts /\ account'.cancelled = account.cancelled
        /\ Asked' \subseteq Asked \cup {Typed!Operated}
    BY <1>1, <2>2, UnansweredSound
  <2>4. QED
    BY <2>1, <2>2, <2>3, ExitKeeps DEF Observing
<1>5. QED
  BY <1>2, <1>3, <1>4

\* A launch is observed.
LEMMA CommandObserves ==
    ASSUME Typed!CommandsAssumption, CommandsInv, Typed!Unguarded, UNCHANGED intent,
           command' = [command EXCEPT !.pc = "observe"]
    PROVE  CommandsInv'
<1>1. intent \in Wishes /\ command \in Commanded /\ account \in Accounts
  BY CommandTypes DEF CommandsInv
<1>2. /\ command' \in Commanded /\ command'.pc = "observe" /\ command'.key = command.key
      /\ command.pc = "unguarded" /\ account' = account /\ Asked' = Asked
  BY <1>1 DEF Typed!Unguarded, Commanded, Asked
<1>3. QED
  BY <1>1, <1>2, CommandGoes DEF Observing

\* A command ends silently, after a request without an answer or while it waits.
LEMMA CommandSilent ==
    ASSUME Typed!CommandsAssumption, CommandsInv, command' = [command EXCEPT !.pc = "off"],
           Typed!Silently, account' \in Accounts, account'.cancelled = account.cancelled,
           intent.kind # "follow"
    PROVE  CommandsInv'
<1>1. intent \in Wishes /\ command \in Commanded /\ account \in Accounts
  BY CommandTypes DEF CommandsInv
<1>2. CourseInv /\ WishInv /\ Typed!SaidIsSo
  BY DEF CommandsInv
<1>3. command' \in Commanded /\ command'.pc = "off" /\ command'.admitted = command.admitted
  BY <1>1 DEF Commanded
<1>4. /\ intent' \in Wishes /\ intent'.masked = TRUE /\ intent'.open = FALSE
      /\ intent'.kind = intent.kind /\ intent'.said = intent.said /\ intent'.knows = intent.knows
  BY <1>1 DEF Typed!Silently, Wishes
<1>5. CourseInv'
  BY <1>2, <1>3, <1>4 DEF CourseInv
<1>6. WishInv' /\ Typed!SaidIsSo'
  BY <1>2, <1>4 DEF WishInv, Typed!SaidIsSo
<1>7. Typed!TypeOK'
  BY <1>3, <1>4 DEF Typed!TypeOK, Wishes, Commanded, Accounts
<1>8. QED
  BY <1>5, <1>6, <1>7 DEF CommandsInv

\* What became of a request outside the handlers.
LEMMA CommandUnguarded ==
    ASSUME Typed!CommandsAssumption, CommandsInv, Typed!Unguarded
    PROVE  CommandsInv'
<1>1. command.pc = "unguarded" /\ account' = account /\ intent.kind # "follow"
  BY DEF Typed!Unguarded, CommandsInv, CourseInv
<1>2. account \in Accounts
  BY CommandTypes DEF CommandsInv
<1>3. CASE UNCHANGED intent /\ command' = [command EXCEPT !.pc = "observe"]
  BY <1>3, CommandObserves
<1>4. CASE Typed!Exit({"result"}, TRUE)
  BY <1>4, CommandEnds
<1>5. CASE command' = [command EXCEPT !.pc = "off"] /\ Typed!Silently
  BY <1>1, <1>2, <1>5, CommandSilent
<1>6. QED
  BY <1>3, <1>4, <1>5 DEF Typed!Unguarded, Typed!Named

\* A refusal after an attempt without an answer, or the end of a cancellation.
LEMMA CommandGivesUp ==
    ASSUME Typed!CommandsAssumption, CommandsInv, Typed!RefusedLater \/ Typed!Cancel
    PROVE  CommandsInv'
<1>1. intent \in Wishes /\ command \in Commanded /\ account \in Accounts
  BY CommandTypes DEF CommandsInv
<1>2. CourseInv /\ WishInv /\ Typed!SaidIsSo
  BY DEF CommandsInv
<1>3. command' = [command EXCEPT !.pc = "off"]
  BY DEF Typed!RefusedLater, Typed!Cancel
<1>4. command' \in Commanded /\ command'.pc = "off" /\ command'.admitted = command.admitted
  BY <1>1, <1>3 DEF Commanded
<1>5. CASE Typed!RefusedLater
  <2>1. account' \in Accounts /\ account'.cancelled = account.cancelled
    BY <1>1, <1>5, UnansweredSound DEF Typed!RefusedLater
  <2>2. intent.kind # "follow"
    BY <1>2, <1>5 DEF Typed!RefusedLater, CourseInv
  <2>3. QED
    BY <1>3, <1>5, <2>1, <2>2, CommandSilent DEF Typed!RefusedLater
<1>6. CASE Typed!Cancel
  <2>1. PICK confirmed \in BOOLEAN :
            /\ account' \in {[account EXCEPT !.cancelled = TRUE]}
                               \cup (IF confirmed THEN {} ELSE {account})
            /\ intent' = [intent EXCEPT !.knows = @ \cup {"result"}, !.open = FALSE,
                                        !.said = Typed!Reports(intent.kind, confirmed)]
    BY <1>6 DEF Typed!Cancel
  <2>2. PICK said \in {"requested", "not confirmed"} : said = Typed!Reports(intent.kind, confirmed)
    BY DEF Typed!Reports
  <2>3. PICK knows \in SUBSET {"key", "object", "result"} : knows = intent.knows \cup {"result"}
    BY <1>1 DEF Wishes
  <2>4. intent' = [intent EXCEPT !.knows = knows, !.open = FALSE, !.said = said]
    BY <2>1, <2>2, <2>3
  <2>5. /\ intent' \in Wishes /\ intent'.open = FALSE /\ intent'.kind = intent.kind
        /\ intent'.said = said /\ intent'.knows = knows /\ intent'.masked = intent.masked
    BY <1>1, <2>4 DEF Wishes
  <2>6. account' \in Accounts /\ Asked' = Asked
    <3>1. account' = account \/ account' = [account EXCEPT !.cancelled = TRUE]
      BY <2>1
    <3>2. /\ account' \in Accounts
          /\ account'.effects = account.effects /\ account'.transit = account.transit
      BY <1>1, <3>1 DEF Accounts
    <3>3. QED
      BY <3>2 DEF Asked
  <2>7. said = "requested" => account'.cancelled
    <3>1. said = "requested" => confirmed
      BY <2>2 DEF Typed!Reports
    <3>2. confirmed => account' = [account EXCEPT !.cancelled = TRUE]
      BY <2>1
    <3>3. [account EXCEPT !.cancelled = TRUE].cancelled
      BY <1>1 DEF Accounts
    <3>4. QED
      BY <3>1, <3>2, <3>3, Zenon
  <2>8. "result" \in intent'.knows
    BY <2>3, <2>5
  <2>9. CourseInv'
    BY <1>2, <1>4, <2>5, <2>6, <2>8 DEF CourseInv
  <2>10. WishInv'
    BY <1>2, <1>4, <2>5, <2>6, <2>8 DEF WishInv
  <2>11. Typed!SaidIsSo'
    BY <2>5, <2>7, Zenon DEF Typed!SaidIsSo
  <2>12. Typed!TypeOK'
    BY <1>4, <2>5, <2>6 DEF Typed!TypeOK, Wishes, Commanded, Accounts
  <2>13. QED
    BY <2>9, <2>10, <2>11, <2>12 DEF CommandsInv
<1>7. QED
  BY <1>5, <1>6

\* What was under way arrives, or the name is given to another object.
LEMMA CommandServer ==
    ASSUME Typed!CommandsAssumption, CommandsInv, Typed!Arrive \/ Typed!Rename
    PROVE  CommandsInv'
<1>1. intent \in Wishes /\ command \in Commanded /\ account \in Accounts
  BY CommandTypes DEF CommandsInv
<1>2. UNCHANGED <<intent, command>>
  BY DEF Typed!Arrive, Typed!Rename
<1>3. account' \in Accounts /\ account'.cancelled = account.cancelled /\ Asked' \subseteq Asked
  <2>1. CASE Typed!Arrive
    <3>1. PICK op \in account.transit : account' = Typed!Apply(op)
      BY <2>1 DEF Typed!Arrive
    <3>2. op \in Typed!Operation
      BY <1>1, <3>1 DEF Accounts
    <3>3. QED
      BY <1>1, <3>1, <3>2, ApplySound DEF Asked
  <2>2. CASE Typed!Rename
    <3>1. account.named \in 0 .. MaxObjects /\ account.named < MaxObjects
      BY <1>1, <2>2 DEF Typed!Rename, Accounts
    <3>2. PICK named \in 0 .. MaxObjects : named = account.named + 1
      BY <3>1 DEF Typed!CommandsAssumption
    <3>3. account' = [account EXCEPT !.named = named]
      BY <2>2, <3>2 DEF Typed!Rename
    <3>4. /\ account' \in Accounts /\ account'.cancelled = account.cancelled
          /\ account'.effects = account.effects /\ account'.transit = account.transit
      BY <1>1, <3>3 DEF Accounts
    <3>5. QED
      BY <3>4 DEF Asked
  <2>3. QED
    BY <2>1, <2>2
<1>4. CourseInv' /\ Typed!SaidIsSo'
  BY <1>2, <1>3 DEF CommandsInv, CourseInv, Typed!SaidIsSo
<1>5. WishInv'
  BY <1>2, <1>3 DEF CommandsInv, WishInv, ToldHow
<1>6. Typed!TypeOK'
  BY <1>1, <1>2, <1>3 DEF Typed!TypeOK, Wishes, Commanded, Accounts
<1>7. QED
  BY <1>4, <1>5, <1>6 DEF CommandsInv

\* A wish that has just been made satisfies the invariant.
LEMMA CommandsInit ==
    ASSUME Typed!CommandsAssumption, Typed!Init PROVE CommandsInv
<1>1. PICK wish \in Typed!Kinds :
          intent = [kind |-> wish, open |-> TRUE, n |-> 0, key |-> 0, ref |-> 0,
                    knows |-> IF wish = "follow" THEN {"result"} ELSE {},
                    said |-> "nothing", masked |-> FALSE]
  BY DEF Typed!Init, Typed!Unset
<1>2. /\ command = [pc |-> "off", key |-> 0, target |-> 0, admitted |-> FALSE]
      /\ account = [named |-> 1, effects |-> {}, transit |-> {}, cancelled |-> FALSE]
  BY DEF Typed!Init, Typed!Unset
<1>3. MaxCommands \in Nat /\ MaxObjects \in Nat \ {0}
  BY DEF Typed!CommandsAssumption
<1>4. PICK knows \in SUBSET {"result"} : knows = IF wish = "follow" THEN {"result"} ELSE {}
  OBVIOUS
<1>5. intent \in Wishes
  BY <1>1, <1>3, <1>4 DEF Wishes
<1>6. command \in Commanded /\ account \in Accounts
  BY <1>2, <1>3 DEF Commanded, Accounts
<1>7. Typed!TypeOK
  BY <1>5, <1>6 DEF Typed!TypeOK, Wishes, Commanded, Accounts
<1>8. /\ command.pc = "off" /\ command.admitted = FALSE /\ Asked = {}
      /\ intent.kind = wish /\ intent.knows = knows /\ intent.said = "nothing"
  BY <1>1, <1>2, <1>4 DEF Asked
<1>9. CourseInv /\ WishInv
  BY <1>4, <1>8 DEF CourseInv, WishInv
<1>10. Typed!SaidIsSo
  BY <1>8 DEF Typed!SaidIsSo
<1>11. QED
  BY <1>7, <1>9, <1>10 DEF CommandsInv

\* Every step or stutter keeps the invariant.
LEMMA CommandsPreserved ==
    ASSUME Typed!CommandsAssumption, CommandsInv, [Typed!Next]_(Typed!vars) PROVE CommandsInv'
<1>1. CASE Typed!Arrive \/ Typed!Rename
  BY <1>1, CommandServer
<1>2. CASE Typed!Invoke
  BY <1>2, CommandInvoked
<1>3. CASE Typed!Resolve \/ Typed!RetryDelete \/ Typed!Interrupted \/ Typed!ReadsState
  BY <1>3, CommandProceeds
<1>4. CASE Typed!Confirm
  <2>1. CASE UNCHANGED intent
    BY <1>4, <2>1, CommandProceeds
  <2>2. CASE Typed!Exit({}, TRUE)
    <3>1. account' = account /\ command.pc = "confirm"
      BY <1>4 DEF Typed!Confirm
    <3>2. account \in Accounts /\ Asked' = Asked
      BY <3>1, CommandTypes DEF CommandsInv, Asked
    <3>3. QED
      BY <2>2, <3>1, <3>2, ExitKeeps DEF Observing
  <2>3. QED
    BY <1>4, <2>1, <2>2 DEF Typed!Confirm
<1>5. CASE Typed!Answered
  BY <1>5, CommandAnswered
<1>6. CASE \/ Typed!ResolveFails \/ Typed!Refused \/ Typed!OutcomeUnknown
           \/ Typed!Ends \/ Typed!ObservationFails
  BY <1>6, CommandEnds
<1>7. CASE Typed!RefusedLater \/ Typed!Cancel
  BY <1>7, CommandGivesUp
<1>7a. CASE Typed!Unguarded
  BY <1>7a, CommandUnguarded
<1>8. CASE UNCHANGED Typed!vars
  BY <1>8 DEF Typed!vars, CommandsInv, Typed!TypeOK, CourseInv, WishInv, ToldHow, Asked,
     Typed!SaidIsSo
<1>9. QED
  BY <1>1, <1>2, <1>3, <1>4, <1>5, <1>6, <1>7, <1>7a, <1>8 DEF Typed!Next

\* The size of a set does not depend on the module that takes it.
LEMMA CommandSizes ==
    ASSUME NEW S PROVE Typed!Cardinality(S) = Cardinality(S)
BY Zenon DEF Typed!Cardinality, Cardinality

\* A user who does as the command line says gets what was wanted once, and on one object,
\* where it was not silent (cli.py:344-361, 653-681, 191-201).
LEMMA CommandsOnce ==
    ASSUME Typed!CommandsAssumption, CommandsInv PROVE Typed!OneEffectPerWish
<1>. SUFFICES ASSUME ~intent.masked, intent.kind # "import"
              PROVE  Typed!Cardinality(account.effects) <= 1
  BY DEF Typed!OneEffectPerWish
<1>1. \A op, other \in account.effects : op = other
  BY DEF CommandsInv, WishInv, Asked
<1>2. CASE account.effects = {}
  <2>1. Cardinality({}) = 0
    BY FS_EmptySet
  <2>2. QED
    BY <1>2, <2>1, CommandSizes
<1>3. CASE account.effects # {}
  <2>1. PICK op : account.effects = {op}
    BY <1>1, <1>3
  <2>2. Cardinality({op}) = 1
    BY FS_Singleton
  <2>3. QED
    BY <2>1, <2>2, CommandSizes
<1>4. QED
  BY <1>2, <1>3

\* A command that has ended has told how to go on with what its requests did or may
\* still do, or was silent at one of three points (cli.py:344-361, 554-577, 798-809, 271-276).
LEMMA CommandsTell ==
    ASSUME Typed!CommandsAssumption, CommandsInv PROVE Typed!NothingUntold
<1>. SUFFICES ASSUME command.pc = "off", ~intent.masked PROVE Typed!NothingUntold
  BY DEF Typed!NothingUntold
<1>1. ASSUME intent.kind # "import", NEW op \in Asked
      PROVE  \/ "result" \in intent.knows
             \/ "key" \in intent.knows /\ op.key = intent.key
                   /\ (op.target # 0 => op.target = intent.ref)
  BY <1>1 DEF CommandsInv, WishInv, ToldHow, Observing
<1>2. command.admitted => "result" \in intent.knows
  BY DEF CommandsInv, CourseInv, Observing
<1>3. QED
  BY <1>1, <1>2 DEF Typed!NothingUntold, Typed!Unset, Asked

\* However its commands are repeated, interrupted and answered late, what the user of the
\* command line wanted is done once at most (cli.py:344-361, 653-681, 191-201), unless a
\* command ended without a word on what may have been accepted: refused after an attempt
\* without an answer, or interrupted at cli.py:787 or at cli.py:564-568.
THEOREM CommandsOnceOnly ==
    ASSUME Typed!CommandsAssumption
    PROVE  Typed!Spec => []Typed!OneEffectPerWish
<1>1. Typed!Init => CommandsInv
  BY CommandsInit
<1>2. CommandsInv /\ [Typed!Next]_(Typed!vars) => CommandsInv'
  BY CommandsPreserved
<1>3. CommandsInv => Typed!OneEffectPerWish
  BY CommandsOnce
<1>4. QED
  BY <1>1, <1>2, <1>3, PTL DEF Typed!Spec

\* A command that ended has told its user how to go on with all that it asked for, but for
\* the same three silences; and a run said to be cancelled was (cli.py:144-170, 344-361,
\* 554-577, 798-809).
THEOREM CommandsTellHow ==
    ASSUME Typed!CommandsAssumption
    PROVE  Typed!Spec => [](Typed!NothingUntold /\ Typed!SaidIsSo)
<1>1. Typed!Init => CommandsInv
  BY CommandsInit
<1>2. CommandsInv /\ [Typed!Next]_(Typed!vars) => CommandsInv'
  BY CommandsPreserved
<1>3. CommandsInv => Typed!NothingUntold /\ Typed!SaidIsSo
  BY CommandsTell DEF CommandsInv
<1>4. QED
  BY <1>1, <1>2, <1>3, PTL DEF Typed!Spec

-----------------------------------------------------------------------------
(* Mutations.  The kind of a call says what protects it, so all calls for  *)
(* a wish are protected in one way.  Under the caller's key, or an         *)
(* identity, at most one effect is possible; under a key made up, all that *)
(* was asked for has the key the next call would use, unless an error hid  *)
(* it.                                                                     *)

Rules == {"own", "bare", "named", "single", "patch", "copied", "checked", "revised"}
Changed == [phase : {"idle", "send", "sent", "returned", "raised", "left", "thrown"},
            rule : SUBSET Rules, key : Nat, told : Nat, tries : 0 .. MaxChanges,
            attempt : 0 .. MaxAttempts, copy : {0, 1}, base : Nat, asked : SUBSET {0, 1},
            seen : SUBSET Nat, masked : BOOLEAN, body : {"none", "ended", "raised"}]
Sendings == [try : 1 .. MaxChanges, attempt : 1 .. MaxAttempts, key : Nat, body : {0, 1}, base : Nat]
Entries == [by : {"caller", "other"}, key : Nat, body : {0, 1}, base : Nat]

Own == {"Client.benchmark", "AsyncClient.benchmark", "ManagedRuns.submit", "ManagedRun.signal",
        "AsyncManagedRuns.submit", "AsyncManagedRun.signal", "Operations.submit",
        "AsyncOperations.submit", "RL.run_example", "AsyncRL.run_example", "RL.launch",
        "AsyncRL.launch", "submit_workload", "create_sandbox", "submit_sandbox_command",
        "sandbox_files, sleep, wake, terminate", "create_agent", "update_agent",
        "submit_agent_run", "signal, pause, resume, retry, cancel",
        "create, start, stop, delete_workspace", "configure_workspace", "run_in_workspace",
        "schedule_workspace, cancel_workspace_schedule"}
Unkeyed == {"Sandbox.request", "AsyncSandbox.request", "Connections.create",
            "AsyncConnections.create", "Client.freeze", "AsyncClient.freeze", "Client.resume",
            "AsyncClient.resume", "Secrets.put", "AsyncSecrets.put",
            "Operations.update_run_draft", "AsyncOperations.update_run_draft"}
Named == {"SSHKeys.add", "AsyncSSHKeys.add", "AgentRuns.create", "AsyncAgentRuns.create",
          "AgentEvents.submit", "AsyncAgentEvents.submit"}
Once == {"Sandbox.request", "AsyncSandbox.request", "Connections.create", "AsyncConnections.create"}
Shared == {"Sandboxes.create", "AsyncSandboxes.create", "Sandbox.request", "AsyncSandbox.request",
           "Client.benchmark", "AsyncClient.benchmark", "ManagedAgent.update",
           "AsyncManagedAgent.update", "ManagedRuns.submit", "AsyncManagedRuns.submit",
           "ManagedRun.signal", "AsyncManagedRun.signal"}
Revised == {"ManagedAgent.update", "ManagedRun.resolve", "AsyncManagedAgent.update",
            "AsyncManagedRun.resolve", "Operations.update_run_draft",
            "AsyncOperations.update_run_draft", "update_agent", "configure_workspace"}

\* What protects the calls of a kind.
Protects(k, rule) ==
    /\ rule \in SUBSET Rules
    /\ "own" \in rule <=> k \in Own
    /\ "bare" \in rule <=> k \in Unkeyed
    /\ "named" \in rule <=> k \in Named
    /\ {"bare", "single"} \subseteq rule <=> k \in Once
    /\ "copied" \in rule <=> k \notin Shared
    /\ "revised" \in rule <=> k \in Revised

AskedUnder(k) == /\ \A r \in wire : r.key = k
                 /\ \A i \in Changes!Mine : history[i].key = k

RuleInv ==
    /\ change.phase = "idle" <=> kind = "none"
    /\ kind = "none" => /\ change.rule = {} /\ change.told = 0 /\ change.tries = 0 /\ ~change.masked
                        /\ change.attempt = 0 /\ change.copy = 0
                        /\ passed = 0 /\ wire = {} /\ history = <<>>
    /\ kind \notin {"none", "with"} => Protects(kind, change.rule)
    /\ kind = "with" =>
          \/ change.rule = {"copied", "checked"}
          \/ change.rule = {} /\ change.phase \in {"left", "thrown"} /\ wire = {}
             /\ Changes!Mine = {} /\ history # <<>>
    /\ kind # "with" => change.phase \notin {"left", "thrown"}
    /\ change.phase \in {"send", "sent"} => change.tries # 0
    /\ change.phase = "send" => /\ change.attempt < MaxAttempts
                                /\ "single" \in change.rule => change.attempt = 0

RevisionInv ==
    /\ \E m \in change.seen : \A s \in change.seen : s <= m
    /\ change.base \in change.seen
    /\ \A r \in wire : r.base \in change.seen

CopyInv ==
    /\ change.phase \in {"send", "sent"} => change.copy \in change.asked
    /\ "copied" \in change.rule => \A r \in wire : r.body \in change.asked

OwnInv ==
    "own" \in change.rule =>
       /\ AskedUnder(1)
       /\ change.phase \in {"send", "sent"} => change.key = 1

MadeUpInv ==
    change.rule \cap {"own", "named", "bare"} = {} /\ ~change.masked =>
       \/ change.phase = "idle"
       \/ change.phase \in {"send", "sent"} /\ change.key # 0 /\ AskedUnder(change.key)
          /\ change.told \in {0, change.key}
       \/ change.phase = "raised" /\ change.told # 0 /\ AskedUnder(change.told)
       \/ change.phase = "raised" /\ wire = {} /\ Changes!Mine = {}
       \/ change.phase \in {"returned", "left", "thrown"} /\ \E k \in Nat \ {0} : AskedUnder(k)

\* One effect, or none.
OnceInv ==
    "bare" \in change.rule \/ (change.masked /\ change.rule \cap {"own", "named"} = {})
       \/ \A i, j \in Changes!Mine : i = j

\* Of a request that is sent once, the effects and what may yet be one.
CountInv ==
    {"bare", "single"} \subseteq change.rule =>
       Cardinality(Changes!Mine) + Cardinality(wire) + (IF change.phase = "send" THEN 1 ELSE 0)
          <= change.tries

ChangesInv ==
    /\ change \in Changed /\ passed \in {0, 1} /\ wire \in SUBSET Sendings /\ IsFiniteSet(wire)
    /\ history \in Seq(Entries)
    /\ RuleInv /\ RevisionInv /\ CopyInv /\ OwnInv /\ MadeUpInv /\ OnceInv /\ CountInv
    /\ Changes!ReturnedIsDone /\ Changes!NoEditUndone /\ Changes!AppliedAsAsked
    /\ Changes!QuietExit

\* A bounded set of numbers has a greatest.
LEMMA Greatest ==
    ASSUME NEW S \in SUBSET Nat, NEW n \in Nat, \A s \in S : s <= n, S # {}
    PROVE  \E m \in S : \A s \in S : s <= m
<1> DEFINE R == {ss \in Nat \X Nat : ss[1] < ss[2]}
           T == {t \in 0 .. n : n - t \in S}
<1>1. IsWellFoundedOn(R, Nat)
  BY NatLessThanWellFounded, Zenon DEF OpToRel
<1>2. T \subseteq Nat /\ T # {}
  <2>1. PICK s \in S : TRUE
    OBVIOUS
  <2>2. n - s \in T
    BY <2>1
  <2>3. QED
    BY <2>2
<1>3. PICK x \in T : \A y \in T : <<y, x>> \notin R
  <2>. HIDE DEF R, T
  <2>. QED
    BY <1>1, <1>2, WFMin, Zenon
<1>4. ASSUME NEW s \in S PROVE s <= n - x
  <2>1. n - s \in T
    OBVIOUS
  <2>2. <<n - s, x>> \notin R
    BY <1>3, <2>1
  <2>3. QED
    BY <2>1, <2>2, <1>2
<1>5. QED
  BY <1>4

\* Newest of what has a greatest is that.
LEMMA NewestIs ==
    ASSUME NEW S, \E m \in S : \A s \in S : s <= m
    PROVE  Changes!Newest(S) \in S
BY DEF Changes!Newest

\* What a service applies, and what is the caller's of it.
LEMMA HistoryGrows ==
    ASSUME history \in Seq(Entries), NEW e \in Entries, history' = Append(history, e)
    PROVE  /\ history' \in Seq(Entries) /\ history' # <<>>
           /\ Len(history) + 1 \in Nat /\ Len(history) + 1 \notin Changes!Mine
           /\ Changes!Mine \subseteq 1 .. Len(history)
           /\ history'[Len(history) + 1] = e
           /\ \A i \in Changes!Mine : history'[i] = history[i]
           /\ Changes!Mine' = IF e.by = "caller" THEN Changes!Mine \cup {Len(history) + 1}
                              ELSE Changes!Mine
<1>1. /\ history' \in Seq(Entries) /\ Len(history') = Len(history) + 1 /\ Len(history) \in Nat
      /\ \A i \in 1 .. Len(history) : history'[i] = history[i]
      /\ history'[Len(history) + 1] = e
  OBVIOUS
<1>2. \A i \in 1 .. Len(history') : i \in 1 .. Len(history) \/ i = Len(history) + 1
  BY <1>1
<1>3. Changes!Mine' = IF e.by = "caller" THEN Changes!Mine \cup {Len(history) + 1}
                      ELSE Changes!Mine
  BY <1>1, <1>2 DEF Changes!Mine
<1>4. history' # <<>>
  BY <1>1
<1>5. QED
  BY <1>1, <1>3, <1>4 DEF Changes!Mine

\* Calls for one wish are protected in one way.
LEMMA SameProtection ==
    ASSUME RuleInv, NEW k, NEW rule, k \notin {"none", "with"}, Protects(k, rule), kind \in {"none", k}
    PROVE  \/ kind = "none"
           \/ /\ "own" \in rule <=> "own" \in change.rule
              /\ "bare" \in rule <=> "bare" \in change.rule
              /\ "named" \in rule <=> "named" \in change.rule
              /\ {"bare", "single"} \subseteq rule <=> {"bare", "single"} \subseteq change.rule
              /\ "copied" \in rule <=> "copied" \in change.rule
              /\ "revised" \in rule <=> "revised" \in change.rule
<1>1. CASE kind = "none"
  BY <1>1
<1>2. CASE kind = k
  <2>1. Protects(k, change.rule)
    BY <1>2 DEF RuleInv
  <2>. QED
    BY <2>1 DEF Protects
<1>3. QED
  BY <1>1, <1>2

\* A key of the caller's own is not made up, and goes with no other identity.
LEMMA Protections ==
    ASSUME NEW k, NEW rule, Protects(k, rule)
    PROVE  "own" \in rule => "bare" \notin rule /\ "named" \notin rule
<1>1. k \in Own => k \notin Unkeyed /\ k \notin Named
  BY DEF Own, Unkeyed, Named
<1>2. QED
  BY <1>1 DEF Protects

\* The invariant when nothing has been done.
LEMMA NothingDone ==
    ASSUME ChangesInv, kind = "none"
    PROVE  /\ change.phase = "idle" /\ change.told = 0 /\ change.tries = 0 /\ ~change.masked
           /\ change.rule = {} /\ passed = 0 /\ wire = {} /\ history = <<>> /\ Changes!Mine = {}
           /\ Cardinality(wire) = 0 /\ Cardinality(Changes!Mine) = 0 /\ \A k : AskedUnder(k)
<1>1. /\ change.phase = "idle" /\ change.told = 0 /\ change.tries = 0 /\ ~change.masked
      /\ change.rule = {} /\ passed = 0 /\ wire = {} /\ history = <<>>
  BY DEF ChangesInv, RuleInv
<1>2. Changes!Mine = {}
  BY <1>1 DEF Changes!Mine
<1>3. Cardinality({}) = 0
  BY FS_EmptySet
<1>4. \A k : AskedUnder(k)
  BY <1>1, <1>2 DEF AskedUnder
<1>5. QED
  BY <1>1, <1>2, <1>3, <1>4

\* A call begins.
LEMMA ChangeBegun ==
    ASSUME Changes!MutationsAssumption, ChangesInv,
           NEW k, NEW rule, k \notin {"none", "with"}, Protects(k, rule), Changes!Begin(k, rule)
    PROVE  ChangesInv'
<1>. DEFINE key == Changes!Key(rule)
            base == Changes!Base
            asked == change.asked \cup {passed}
<1>1. /\ change \in Changed /\ passed \in {0, 1} /\ wire \in SUBSET Sendings /\ IsFiniteSet(wire)
      /\ history \in Seq(Entries)
      /\ RuleInv /\ RevisionInv /\ CopyInv /\ OwnInv /\ MadeUpInv /\ OnceInv /\ CountInv
  BY DEF ChangesInv
<1>2. /\ change.phase \in {"idle", "raised"} /\ change.tries < MaxChanges
      /\ change.tries \in Nat /\ change.told \in Nat /\ MaxChanges \in Nat /\ MaxAttempts \in Nat \ {0}
      /\ kind \in {"none", k} /\ kind' = k
  BY <1>1 DEF Changes!Begin, Changed, Changes!MutationsAssumption
<1>3. rule \in SUBSET Rules
  BY DEF Protects
<1>4. /\ key \in Nat
      /\ "own" \in rule => key = 1
      /\ rule \cap {"own", "named", "bare"} = {} =>
            key # 0 /\ change.told \in {0, key}
  <2>1. CASE "own" \in rule
    <3>1. "bare" \notin rule /\ "named" \notin rule
      BY <2>1, Protections
    <3>2. rule \cap {"bare", "named"} = {}
      BY <3>1
    <3>3. key = 1
      BY <2>1, <3>2 DEF Changes!Key
    <3>4. QED
      BY <2>1, <3>3
  <2>2. CASE "own" \notin rule /\ rule \cap {"bare", "named"} = {}
    <3>1. key = IF change.told # 0 THEN change.told ELSE change.tries + 2
      BY <2>2 DEF Changes!Key
    <3>2. QED
      BY <1>2, <2>2, <3>1
  <2>3. CASE "own" \notin rule /\ rule \cap {"bare", "named"} # {}
    <3>1. key = 0
      BY <2>3 DEF Changes!Key
    <3>2. rule \cap {"own", "named", "bare"} # {}
      BY <2>3
    <3>3. QED
      BY <2>3, <3>1, <3>2
  <2>4. QED
    BY <2>1, <2>2, <2>3
<1>5. base \in change.seen
  BY <1>1, NewestIs DEF Changes!Base, RevisionInv
<1>6. base \in Nat /\ asked \in SUBSET {0, 1}
  BY <1>1, <1>5 DEF Changed
<1>7. change' = [change EXCEPT !.phase = "send", !.rule = rule, !.key = key, !.tries = change.tries + 1,
                               !.attempt = 0, !.copy = passed, !.base = base, !.asked = asked]
  BY DEF Changes!Begin
<1>. HIDE DEF key, base, asked
<1>8. change' \in Changed
  <2>1. PICK number \in 0 .. MaxChanges : number = change.tries + 1
    BY <1>2
  <2>2. 0 \in 0 .. MaxAttempts
    BY <1>2
  <2>3. change' = [change EXCEPT !.phase = "send", !.rule = rule, !.key = key, !.tries = number,
                                 !.attempt = 0, !.copy = passed, !.base = base, !.asked = asked]
    BY <1>7, <2>1
  <2>4. QED
    BY <1>1, <1>3, <1>4, <1>6, <2>2, <2>3 DEF Changed
<1>9. /\ change'.phase = "send" /\ change'.rule = rule /\ change'.key = key
      /\ change'.tries = change.tries + 1 /\ change'.attempt = 0 /\ change'.copy = passed
      /\ change'.base = base /\ change'.asked = asked /\ change'.seen = change.seen
      /\ change'.told = change.told /\ change'.masked = change.masked
  BY <1>1, <1>7 DEF Changed
<1>10. /\ passed' = passed /\ wire' = wire /\ history' = history /\ Changes!Mine' = Changes!Mine
       /\ \A n : AskedUnder(n)' <=> AskedUnder(n)
  BY DEF Changes!Begin, Changes!Mine, AskedUnder
<1>11. RuleInv'
  BY <1>2, <1>9, <1>10 DEF RuleInv
<1>12. RevisionInv'
  BY <1>1, <1>5, <1>9, <1>10 DEF RevisionInv
<1>13. passed \in asked /\ change.asked \subseteq asked
  BY DEF asked
<1>14. kind = "none" \/ change.phase = "raised"
  BY <1>1, <1>2 DEF RuleInv
<1>15. CopyInv' /\ OwnInv' /\ OnceInv' /\ Changes!NoEditUndone' /\ Changes!AppliedAsAsked'
  <2>1. CASE kind = "none"
    BY <1>4, <1>9, <1>10, <1>13, <2>1, NothingDone
       DEF CopyInv, OwnInv, OnceInv, Changes!NoEditUndone, Changes!AppliedAsAsked
  <2>2. CASE kind # "none"
    BY <1>1, <1>2, <1>4, <1>9, <1>10, <1>13, <2>2, SameProtection
       DEF CopyInv, OwnInv, OnceInv, Changes!NoEditUndone, Changes!AppliedAsAsked, ChangesInv
  <2>3. QED
    BY <2>1, <2>2
<1>16. MadeUpInv'
  <2>1. SUFFICES ASSUME rule \cap {"own", "named", "bare"} = {}, ~change.masked
                 PROVE  AskedUnder(key)
    BY <1>4, <1>9, <1>10 DEF MadeUpInv
  <2>2. CASE kind = "none"
    BY <2>2, NothingDone
  <2>3. CASE kind # "none"
    <3>1. change.phase = "raised" /\ change.rule \cap {"own", "named", "bare"} = {}
      BY <1>1, <1>2, <1>14, <2>1, <2>3, SameProtection
    <3>2. (change.told # 0 /\ AskedUnder(change.told)) \/ (wire = {} /\ Changes!Mine = {})
      BY <1>1, <2>1, <3>1 DEF MadeUpInv
    <3>3. QED
      BY <1>4, <2>1, <3>2 DEF AskedUnder
  <2>4. QED
    BY <2>2, <2>3
<1>17. CountInv'
  <2>1. Cardinality(wire) \in Nat /\ Cardinality(Changes!Mine) \in Nat
    <3>1. IsFiniteSet(Changes!Mine)
      <4>1. Len(history) \in Nat
        BY <1>1
      <4>2. IsFiniteSet(1 .. Len(history)) /\ Changes!Mine \in SUBSET (1 .. Len(history))
        BY <4>1, FS_Interval DEF Changes!Mine
      <4>3. QED
        BY <4>2, FS_Subset
    <3>2. QED
      BY <1>1, <3>1, FS_CardinalityType
  <2>2. CASE kind = "none"
    BY <1>2, <1>9, <1>10, <2>2, NothingDone DEF CountInv
  <2>3. CASE kind # "none"
    BY <1>1, <1>2, <1>9, <1>10, <1>14, <2>1, <2>3, SameProtection DEF CountInv
  <2>4. QED
    BY <2>2, <2>3
<1>18. Changes!ReturnedIsDone' /\ Changes!QuietExit'
  BY <1>9 DEF Changes!ReturnedIsDone, Changes!QuietExit
<1>19. QED
  BY <1>1, <1>8, <1>10, <1>11, <1>12, <1>15, <1>16, <1>17, <1>18 DEF ChangesInv

\* Every kind of call is protected as its kind is.
LEMMA KindsProtected ==
    /\ \A k \in {"Sandboxes.create", "AsyncSandboxes.create"} :
          k # "none" /\ k # "with" /\ Protects(k, {"checked"})
    /\ \A k \in {"Sandbox.exec", "AsyncSandbox.exec", "Sandbox.sleep, wake",
                 "Sandbox.terminate", "AsyncSandbox.terminate", "ManagedAgent.pause, resume",
                 "ManagedRun.retry", "ManagedRun.cancel", "AsyncManagedAgent._control",
                 "AsyncManagedRun.retry", "AsyncManagedRun.cancel"} :
          k # "none" /\ k # "with" /\ Protects(k, {"copied", "checked"})
    /\ \A k \in {"SandboxExec.write", "AsyncSandboxExec.write", "Client.cancel"} :
          k # "none" /\ k # "with" /\ Protects(k, {"copied"})
    /\ \A k \in {"Sandbox.request", "AsyncSandbox.request"} :
          k # "none" /\ k # "with" /\ Protects(k, {"bare", "single"})
    /\ \A k \in {"Connections.create", "AsyncConnections.create"} :
          k # "none" /\ k # "with" /\ Protects(k, {"bare", "single", "copied"})
    /\ \A k \in {"Client.freeze", "AsyncClient.freeze", "Client.resume", "AsyncClient.resume"} :
          k # "none" /\ k # "with" /\ Protects(k, {"bare", "copied", "checked"})
    /\ \A k \in {"Client.benchmark", "AsyncClient.benchmark"} :
          k # "none" /\ k # "with" /\ Protects(k, {"own"})
    /\ \A k \in {"Secrets.put", "AsyncSecrets.put"} :
          k # "none" /\ k # "with" /\ Protects(k, {"bare", "copied"})
    /\ \A k \in {"SSHKeys.add", "AsyncSSHKeys.add", "AgentRuns.create",
                 "AsyncAgentRuns.create", "AgentEvents.submit", "AsyncAgentEvents.submit"} :
          k # "none" /\ k # "with" /\ Protects(k, {"named", "copied"})
    /\ \A k \in {"ManagedAgent.update", "AsyncManagedAgent.update"} :
          k # "none" /\ k # "with" /\ Protects(k, {"patch", "checked", "revised"})
    /\ \A k \in {"ManagedRuns.submit", "ManagedRun.signal", "AsyncManagedRuns.submit",
                 "AsyncManagedRun.signal"} :
          k # "none" /\ k # "with" /\ Protects(k, {"own", "checked"})
    /\ \A k \in {"ManagedRun.resolve", "AsyncManagedRun.resolve"} :
          k # "none" /\ k # "with" /\ Protects(k, {"copied", "revised"})
    /\ \A k \in {"Operations.update_run_draft", "AsyncOperations.update_run_draft"} :
          k # "none" /\ k # "with" /\ Protects(k, {"bare", "copied", "checked", "revised"})
    /\ \A k \in {"Operations.submit", "AsyncOperations.submit", "RL.run_example",
                 "AsyncRL.run_example", "RL.launch", "AsyncRL.launch"} :
          k # "none" /\ k # "with" /\ Protects(k, {"own", "copied", "checked"})
    /\ \A k \in {"submit_workload", "create_sandbox", "submit_sandbox_command",
                 "sandbox_files, sleep, wake, terminate", "create_agent", "submit_agent_run",
                 "signal, pause, resume, retry, cancel",
                 "create, start, stop, delete_workspace", "run_in_workspace",
                 "schedule_workspace, cancel_workspace_schedule"} :
          k # "none" /\ k # "with" /\ Protects(k, {"own", "single", "copied"} \cup {})
    /\ \A k \in {"update_agent", "configure_workspace"} :
          k # "none" /\ k # "with" /\ Protects(k, {"own", "single", "copied"} \cup {"revised"})
BY DEF Protects, Rules, Own, Unkeyed, Named, Once, Shared, Revised

\* Every call of a kind is protected as its kind is.
LEMMA ChangeCalled ==
    ASSUME Changes!MutationsAssumption, ChangesInv,
           \/ Changes!WorkloadCall
           \/ Changes!SandboxCall /\ ~Changes!Exit
           \/ Changes!DurableCall \/ Changes!AgentCall \/ Changes!AsyncAgentCall
           \/ Changes!OperationCall \/ Changes!ToolCall
    PROVE  ChangesInv'
<1>1. \A k, rule : k # "none" /\ k # "with" /\ Protects(k, rule) /\ Changes!Begin(k, rule) => ChangesInv'
  BY ChangeBegun
<1>2. CASE Changes!WorkloadCall
  BY <1>1, <1>2, KindsProtected DEF Changes!WorkloadCall,
     Changes!Freeze, Changes!AsyncFreeze, Changes!Resume, Changes!AsyncResume, Changes!Cancel,
     Changes!Benchmark, Changes!AsyncBenchmark, Changes!PutSecret, Changes!AsyncPutSecret,
     Changes!AddKey, Changes!AsyncAddKey
<1>3. CASE Changes!SandboxCall /\ ~Changes!Exit
  BY <1>1, <1>3, KindsProtected DEF Changes!SandboxCall,
     Changes!Create, Changes!AsyncCreate, Changes!CreatePayload, Changes!Exec, Changes!AsyncExec,
     Changes!Lifecycle, Changes!Terminate, Changes!AsyncTerminate, Changes!Write,
     Changes!AsyncWrite, Changes!Guest, Changes!AsyncGuest, Changes!Connect, Changes!AsyncConnect
<1>4. CASE Changes!DurableCall
  BY <1>1, <1>4, KindsProtected DEF Changes!DurableCall,
     Changes!CreateRun, Changes!AsyncCreateRun, Changes!SubmitEvent, Changes!AsyncSubmitEvent
<1>5. CASE Changes!AgentCall
  BY <1>1, <1>5, KindsProtected DEF Changes!AgentCall,
     Changes!Control, Changes!UpdateAgent, Changes!SubmitRun, Changes!RetryRun,
     Changes!SignalRun, Changes!CancelRun, Changes!ResolveRun
<1>6. CASE Changes!AsyncAgentCall
  BY <1>1, <1>6, KindsProtected DEF Changes!AsyncAgentCall,
     Changes!AsyncControl, Changes!AsyncUpdateAgent, Changes!AsyncSubmitRun,
     Changes!AsyncRetryRun, Changes!AsyncSignalRun, Changes!AsyncCancelRun, Changes!AsyncResolveRun
<1>7. CASE Changes!OperationCall
  BY <1>1, <1>7, KindsProtected DEF Changes!OperationCall,
     Changes!UpdateDraft, Changes!AsyncUpdateDraft, Changes!Submit, Changes!AsyncSubmit,
     Changes!RunExample, Changes!AsyncRunExample, Changes!LaunchRun, Changes!AsyncLaunchRun
<1>8. CASE Changes!ToolCall
  BY <1>1, <1>8, KindsProtected DEF Changes!ToolCall,
     Changes!Tool, Changes!SubmitTool, Changes!CreateTool, Changes!CommandTool,
     Changes!SandboxTools, Changes!AgentTools, Changes!RunTool, Changes!RunControlTools,
     Changes!WorkspaceTools, Changes!JobTool, Changes!ScheduleTools
<1>9. QED
  BY <1>2, <1>3, <1>4, <1>5, <1>6, <1>7, <1>8

\* A sandbox's block ends.
LEMMA ChangeExit ==
    ASSUME Changes!MutationsAssumption, ChangesInv, Changes!Exit PROVE ChangesInv'
<1>1. /\ change \in Changed /\ passed \in {0, 1} /\ wire \in SUBSET Sendings /\ IsFiniteSet(wire)
      /\ history \in Seq(Entries) /\ RuleInv /\ RevisionInv
      /\ MaxChanges \in Nat \ {0} /\ MaxAttempts \in Nat \ {0}
  BY DEF ChangesInv, Changes!MutationsAssumption
<1>2. /\ kind = "none" /\ kind' = "with" /\ passed' = passed /\ wire' = wire
  BY DEF Changes!Exit
<1>3. /\ change.phase = "idle" /\ change.told = 0 /\ change.tries = 0 /\ ~change.masked
      /\ change.rule = {} /\ passed = 0 /\ wire = {} /\ history = <<>> /\ Changes!Mine = {}
      /\ \A k : AskedUnder(k)
  BY <1>2, NothingDone
<1>4. PICK body \in {"ended", "raised"} :
          \/ /\ change' = [change EXCEPT !.phase = "send", !.rule = {"copied", "checked"}, !.key = 2,
                                         !.tries = MaxChanges, !.body = body, !.asked = {passed}]
             /\ history' = history
          \/ /\ history' = <<Changes!Others>>
             /\ change' = [change EXCEPT !.phase = IF body = "ended" THEN "left" ELSE "thrown",
                                         !.body = body]
  BY DEF Changes!Exit
<1>5. RevisionInv'
  <2>1. change'.base = change.base /\ change'.seen = change.seen
    BY <1>1, <1>4 DEF Changed
  <2>2. QED
    BY <1>1, <1>2, <1>3, <2>1 DEF RevisionInv
<1>6. CASE /\ change' = [change EXCEPT !.phase = "send", !.rule = {"copied", "checked"}, !.key = 2,
                                       !.tries = MaxChanges, !.body = body, !.asked = {passed}]
           /\ history' = history
  <2>1. MaxChanges \in 0 .. MaxChanges /\ {"copied", "checked"} \in SUBSET Rules
        /\ {passed} \in SUBSET {0, 1}
    BY <1>1 DEF Rules
  <2>2. PICK rule \in SUBSET Rules : rule = {"copied", "checked"}
    BY <2>1
  <2>3. PICK asked \in SUBSET {0, 1} : asked = {passed}
    BY <2>1
  <2>4. change' = [change EXCEPT !.phase = "send", !.rule = rule, !.key = 2, !.tries = MaxChanges,
                                 !.body = body, !.asked = asked]
    BY <1>6, <2>2, <2>3
  <2>5. change' \in Changed
    BY <1>1, <2>1, <2>4 DEF Changed
  <2>6. /\ change'.phase = "send" /\ change'.rule = {"copied", "checked"} /\ change'.key = 2
        /\ change'.told = change.told /\ change'.copy = change.copy /\ change'.asked = {passed}
        /\ change'.attempt = change.attempt /\ change'.masked = change.masked
        /\ change'.tries = MaxChanges
    BY <1>1, <2>2, <2>3, <2>4 DEF Changed
  <2>7. /\ Changes!Mine' = {} /\ \A k : AskedUnder(k)'
    BY <1>2, <1>3, <1>6 DEF AskedUnder, Changes!Mine
  <2>8. change.attempt = 0 /\ change.copy = 0
    BY <1>1, <1>2 DEF RuleInv
  <2>9. RuleInv' /\ CopyInv' /\ OwnInv' /\ MadeUpInv' /\ OnceInv' /\ CountInv'
    BY <1>1, <1>2, <1>3, <2>6, <2>7, <2>8
       DEF RuleInv, CopyInv, OwnInv, MadeUpInv, OnceInv, CountInv
  <2>10. /\ Changes!ReturnedIsDone' /\ Changes!NoEditUndone' /\ Changes!AppliedAsAsked'
         /\ Changes!QuietExit'
    BY <2>6, <2>7 DEF Changes!ReturnedIsDone, Changes!NoEditUndone, Changes!AppliedAsAsked,
       Changes!QuietExit
  <2>11. QED
    BY <1>1, <1>2, <1>5, <1>6, <2>5, <2>9, <2>10 DEF ChangesInv
<1>7. CASE /\ history' = <<Changes!Others>>
           /\ change' = [change EXCEPT !.phase = IF body = "ended" THEN "left" ELSE "thrown",
                                       !.body = body]
  <2>1. PICK phase \in {"left", "thrown"} : phase = IF body = "ended" THEN "left" ELSE "thrown"
    OBVIOUS
  <2>2. change' = [change EXCEPT !.phase = phase, !.body = body]
    BY <1>7, <2>1
  <2>3. change' \in Changed
    BY <1>1, <2>2 DEF Changed
  <2>4. /\ change'.phase \in {"left", "thrown"} /\ change'.rule = {} /\ change'.masked = change.masked
    BY <1>1, <1>3, <2>1, <2>2 DEF Changed
  <2>5. Changes!Others \in Entries /\ Changes!Others.by = "other"
    BY <1>3 DEF Changes!Others, Entries
  <2>6. history' \in Seq(Entries) /\ history' # <<>> /\ Len(history') = 1 /\ history'[1] = Changes!Others
    BY <1>7, <2>5
  <2>7. Changes!Mine' = {}
    BY <2>5, <2>6 DEF Changes!Mine
  <2>8. \A k : AskedUnder(k)'
    BY <1>2, <1>3, <2>7 DEF AskedUnder
  <2>9. RuleInv' /\ CopyInv' /\ OwnInv' /\ MadeUpInv' /\ OnceInv' /\ CountInv'
    <3>1. 1 \in Nat \ {0}
      OBVIOUS
    <3>2. MadeUpInv'
      BY <2>4, <2>8, <3>1 DEF MadeUpInv
    <3>3. QED
      BY <1>2, <1>3, <2>4, <2>6, <2>7, <3>2 DEF RuleInv, CopyInv, OwnInv, OnceInv, CountInv
  <2>10. /\ Changes!ReturnedIsDone' /\ Changes!NoEditUndone' /\ Changes!AppliedAsAsked'
         /\ Changes!QuietExit'
    BY <2>4, <2>6 DEF Changes!ReturnedIsDone, Changes!NoEditUndone, Changes!AppliedAsAsked,
       Changes!QuietExit
  <2>11. QED
    BY <1>1, <1>2, <1>5, <2>3, <2>6, <2>9, <2>10 DEF ChangesInv
<1>8. QED
  BY <1>4, <1>6, <1>7

\* The counts of what was applied and of what may yet be are numbers.
LEMMA ChangeCounts ==
    ASSUME ChangesInv
    PROVE  /\ IsFiniteSet(Changes!Mine) /\ Cardinality(Changes!Mine) \in Nat
           /\ Cardinality(wire) \in Nat
<1>1. history \in Seq(Entries) /\ IsFiniteSet(wire)
  BY DEF ChangesInv
<1>2. Len(history) \in Nat
  BY <1>1
<1>3. IsFiniteSet(1 .. Len(history)) /\ Changes!Mine \in SUBSET (1 .. Len(history))
  BY <1>2, FS_Interval DEF Changes!Mine
<1>4. IsFiniteSet(Changes!Mine)
  BY <1>3, FS_Subset
<1>5. QED
  BY <1>1, <1>4, FS_CardinalityType

\* The types of what a call goes with.
LEMMA ChangeTypes ==
    ASSUME Changes!MutationsAssumption, ChangesInv
    PROVE  /\ change \in Changed /\ passed \in {0, 1} /\ wire \in SUBSET Sendings /\ IsFiniteSet(wire)
           /\ history \in Seq(Entries) /\ MaxChanges \in Nat \ {0} /\ MaxAttempts \in Nat \ {0}
           /\ change.phase \in {"idle", "send", "sent", "returned", "raised", "left", "thrown"}
           /\ change.rule \in SUBSET Rules /\ change.key \in Nat /\ change.told \in Nat
           /\ change.tries \in 0 .. MaxChanges /\ change.attempt \in 0 .. MaxAttempts
           /\ change.copy \in {0, 1} /\ change.base \in Nat /\ change.asked \in SUBSET {0, 1}
           /\ change.seen \in SUBSET Nat /\ change.masked \in BOOLEAN
           /\ \A r \in wire : /\ r.try \in 1 .. MaxChanges /\ r.attempt \in 1 .. MaxAttempts
                              /\ r.key \in Nat /\ r.body \in {0, 1} /\ r.base \in Nat
<1>1. /\ change \in Changed /\ passed \in {0, 1} /\ wire \in SUBSET Sendings /\ IsFiniteSet(wire)
      /\ history \in Seq(Entries) /\ MaxChanges \in Nat \ {0} /\ MaxAttempts \in Nat \ {0}
  BY DEF ChangesInv, Changes!MutationsAssumption
<1>2. /\ change.phase \in {"idle", "send", "sent", "returned", "raised", "left", "thrown"}
      /\ change.rule \in SUBSET Rules /\ change.key \in Nat /\ change.told \in Nat
      /\ change.tries \in 0 .. MaxChanges /\ change.attempt \in 0 .. MaxAttempts
      /\ change.copy \in {0, 1} /\ change.base \in Nat /\ change.asked \in SUBSET {0, 1}
      /\ change.seen \in SUBSET Nat
  BY <1>1 DEF Changed
<1>3. change.masked \in BOOLEAN
  BY <1>1, Zenon DEF Changed
<1>4. \A r \in wire : /\ r.try \in 1 .. MaxChanges /\ r.attempt \in 1 .. MaxAttempts
                      /\ r.key \in Nat /\ r.body \in {0, 1} /\ r.base \in Nat
  BY <1>1 DEF Sendings
<1>5. QED
  BY <1>1, <1>2, <1>3, <1>4

\* An attempt is sent.
LEMMA ChangeSent ==
    ASSUME Changes!MutationsAssumption, ChangesInv, Changes!Send PROVE ChangesInv'
<1>1. /\ change.phase = "send" /\ kind' = kind /\ passed' = passed /\ history' = history
  BY DEF Changes!Send
<1>2. RuleInv /\ RevisionInv /\ CopyInv /\ OwnInv /\ MadeUpInv /\ OnceInv /\ CountInv
      /\ Changes!NoEditUndone /\ Changes!AppliedAsAsked
  BY DEF ChangesInv
<1>3. change.attempt < MaxAttempts /\ kind # "none"
  BY <1>1, <1>2 DEF RuleInv
<1>4. PICK attempt \in 1 .. MaxAttempts : attempt = change.attempt + 1
  BY <1>3, ChangeTypes
<1>5. PICK body \in {0, 1} : body = Changes!Payload
  BY ChangeTypes DEF Changes!Payload
<1>6. "copied" \in change.rule => body \in change.asked
  BY <1>1, <1>2, <1>5 DEF Changes!Payload, CopyInv
<1>7. change.tries \in 1 .. MaxChanges
  BY <1>1, <1>2, <1>3, ChangeTypes DEF RuleInv
<1>8. [try |-> change.tries, attempt |-> attempt, key |-> change.key, body |-> body,
       base |-> change.base] \in Sendings
  BY <1>7, ChangeTypes DEF Sendings
<1>9. PICK r \in Sendings : r = [try |-> change.tries, attempt |-> attempt, key |-> change.key,
                                 body |-> body, base |-> change.base]
  BY <1>8
<1>10. r.key = change.key /\ r.body = body /\ r.base = change.base
  BY <1>9
<1>11. wire' = wire \cup {r} /\ change' = [change EXCEPT !.phase = "sent", !.attempt = attempt]
  BY <1>4, <1>5, <1>9 DEF Changes!Send
<1>12. /\ change' \in Changed /\ change'.phase = "sent" /\ change'.rule = change.rule
       /\ change'.key = change.key /\ change'.told = change.told /\ change'.tries = change.tries
       /\ change'.copy = change.copy /\ change'.base = change.base
       /\ change'.asked = change.asked /\ change'.seen = change.seen
       /\ change'.masked = change.masked
  <2>1. change \in Changed /\ attempt \in 0 .. MaxAttempts
    BY ChangeTypes
  <2>2. QED
    BY <1>11, <2>1 DEF Changed
<1>13. wire' \in SUBSET Sendings /\ IsFiniteSet(wire')
  BY <1>11, ChangeTypes, FS_AddElement
<1>14. /\ Changes!Mine' = Changes!Mine
       /\ \A k : AskedUnder(k) /\ r.key = k => AskedUnder(k)'
  BY <1>1, <1>11 DEF Changes!Mine, AskedUnder
<1>15. RuleInv'
  BY <1>1, <1>2, <1>3, <1>12 DEF RuleInv
<1>16. RevisionInv' /\ CopyInv'
  BY <1>1, <1>2, <1>6, <1>10, <1>11, <1>12 DEF RevisionInv, CopyInv
<1>17. OwnInv' /\ OnceInv'
  BY <1>1, <1>2, <1>10, <1>12, <1>14 DEF OwnInv, OnceInv
<1>18. MadeUpInv'
  BY <1>1, <1>2, <1>10, <1>12, <1>14 DEF MadeUpInv
<1>19. CountInv'
  <2>1. Cardinality(wire') <= Cardinality(wire) + 1 /\ Cardinality(wire') \in Nat
    <3>1. Cardinality(wire') = IF r \in wire THEN Cardinality(wire) ELSE Cardinality(wire) + 1
      BY <1>11, ChangeTypes, FS_AddElement
    <3>2. QED
      BY <3>1, ChangeCounts
  <2>2. QED
    BY <1>1, <1>2, <1>12, <1>14, <2>1, ChangeCounts, ChangeTypes DEF CountInv
<1>20. /\ Changes!ReturnedIsDone' /\ Changes!QuietExit' /\ Changes!NoEditUndone'
       /\ Changes!AppliedAsAsked'
  BY <1>1, <1>2, <1>12, <1>14 DEF Changes!ReturnedIsDone, Changes!QuietExit, Changes!NoEditUndone,
     Changes!AppliedAsAsked
<1>21. QED
  BY <1>1, <1>12, <1>13, <1>15, <1>16, <1>17, <1>18, <1>19, <1>20, ChangeTypes DEF ChangesInv

\* What has a greatest number has one with a number more.
LEMMA GreatestGrows ==
    ASSUME NEW S \in SUBSET Nat, \E m \in S : \A s \in S : s <= m, NEW v \in Nat
    PROVE  \E m \in S \cup {v} : \A s \in S \cup {v} : s <= m
<1>1. PICK m \in S : \A s \in S : s <= m
  OBVIOUS
<1>2. CASE v <= m
  BY <1>1, <1>2
<1>3. CASE m <= v
  BY <1>1, <1>3
<1>4. QED
  BY <1>2, <1>3

SameCall(c) ==
    /\ c \in Changed /\ c.rule = change.rule /\ c.key = change.key /\ c.tries = change.tries
    /\ c.attempt = change.attempt /\ c.copy = change.copy /\ c.base = change.base
    /\ c.asked = change.asked

\* The ways a call goes on or ends.
LEMMA Outcomes ==
    ASSUME Changes!MutationsAssumption, ChangesInv
    PROVE  /\ \A phase \in {"send", "sent", "returned", "raised", "left", "thrown"} :
                 LET c == [change EXCEPT !.phase = phase]
                 IN  /\ SameCall(c) /\ c.phase = phase /\ c.seen = change.seen
                     /\ c.told = change.told /\ c.masked = change.masked
           /\ LET c == Changes!RaisedNaming
              IN  /\ SameCall(c) /\ c.phase = "raised" /\ c.seen = change.seen
                  /\ c.told = change.key /\ c.masked = change.masked
           /\ LET c == Changes!RaisedBare
              IN  /\ SameCall(c) /\ c.phase = "raised" /\ c.seen = change.seen /\ c.told = 0
                  /\ c.masked = (change.masked \/ wire # {} \/ Changes!Mine # {})
           /\ \A v \in Nat :
                 LET c == Changes!Returned(v)
                 IN  /\ SameCall(c) /\ c.phase = "returned" /\ c.seen = change.seen \cup {v}
                     /\ c.told = change.told /\ c.masked = change.masked
           /\ \A v \in Nat :
                 LET c == [change EXCEPT !.seen = @ \cup {v}]
                 IN  /\ SameCall(c) /\ c.phase = change.phase /\ c.seen = change.seen \cup {v}
                     /\ c.told = change.told /\ c.masked = change.masked
           /\ \A masked \in BOOLEAN :
                 LET c == [change EXCEPT !.phase = "raised", !.masked = masked]
                 IN  /\ SameCall(c) /\ c.phase = "raised" /\ c.seen = change.seen
                     /\ c.told = change.told /\ c.masked = masked
<1>1. change \in Changed /\ change.key \in Nat /\ change.seen \in SUBSET Nat
  BY ChangeTypes
<1>2. \A phase \in {"send", "sent", "returned", "raised", "left", "thrown"} :
         LET c == [change EXCEPT !.phase = phase]
         IN  /\ SameCall(c) /\ c.phase = phase /\ c.seen = change.seen
             /\ c.told = change.told /\ c.masked = change.masked
  BY <1>1 DEF Changed, SameCall
<1>3. LET c == Changes!RaisedNaming
      IN  /\ SameCall(c) /\ c.phase = "raised" /\ c.seen = change.seen
          /\ c.told = change.key /\ c.masked = change.masked
  BY <1>1 DEF Changed, SameCall, Changes!RaisedNaming
<1>4. LET c == Changes!RaisedBare
      IN  /\ SameCall(c) /\ c.phase = "raised" /\ c.seen = change.seen /\ c.told = 0
          /\ c.masked = (change.masked \/ wire # {} \/ Changes!Mine # {})
  <2>1. PICK masked \in BOOLEAN : masked = (change.masked \/ wire # {} \/ Changes!Mine # {})
    BY Zenon
  <2>2. Changes!RaisedBare = [change EXCEPT !.phase = "raised", !.told = 0, !.masked = masked]
    BY <2>1, Zenon DEF Changes!RaisedBare
  <2>3. LET c == [change EXCEPT !.phase = "raised", !.told = 0, !.masked = masked]
        IN  /\ SameCall(c) /\ c.phase = "raised" /\ c.seen = change.seen /\ c.told = 0
            /\ c.masked = masked
    BY <1>1 DEF Changed, SameCall
  <2>4. QED
    BY <2>1, <2>2, <2>3, Zenon
<1>5. \A v \in Nat :
         LET c == Changes!Returned(v)
         IN  /\ SameCall(c) /\ c.phase = "returned" /\ c.seen = change.seen \cup {v}
             /\ c.told = change.told /\ c.masked = change.masked
  <2>1. \A v \in Nat, seen \in SUBSET Nat :
           LET c == [change EXCEPT !.phase = "returned", !.seen = seen]
           IN  /\ SameCall(c) /\ c.phase = "returned" /\ c.seen = seen
               /\ c.told = change.told /\ c.masked = change.masked
    BY <1>1 DEF Changed, SameCall
  <2>2. \A v \in Nat : change.seen \cup {v} \in SUBSET Nat
    BY <1>1
  <2>3. QED
    BY <2>1, <2>2 DEF Changes!Returned
<1>6. \A v \in Nat :
         LET c == [change EXCEPT !.seen = @ \cup {v}]
         IN  /\ SameCall(c) /\ c.phase = change.phase /\ c.seen = change.seen \cup {v}
             /\ c.told = change.told /\ c.masked = change.masked
  <2>1. \A seen \in SUBSET Nat :
           LET c == [change EXCEPT !.seen = seen]
           IN  /\ SameCall(c) /\ c.phase = change.phase /\ c.seen = seen
               /\ c.told = change.told /\ c.masked = change.masked
    BY <1>1 DEF Changed, SameCall
  <2>2. \A v \in Nat : change.seen \cup {v} \in SUBSET Nat
    BY <1>1
  <2>3. QED
    BY <2>1, <2>2
<1>7. \A masked \in BOOLEAN :
         LET c == [change EXCEPT !.phase = "raised", !.masked = masked]
         IN  /\ SameCall(c) /\ c.phase = "raised" /\ c.seen = change.seen
             /\ c.told = change.told /\ c.masked = masked
  BY <1>1 DEF Changed, SameCall
<1>8. QED
  BY <1>2, <1>3, <1>4, <1>5, <1>6, <1>7

\* A caller moves, with what was asked for and applied as it was.
LEMMA ChangeMoves ==
    ASSUME Changes!MutationsAssumption, ChangesInv,
           kind' = kind, passed' = passed, wire' = wire, history' = history, SameCall(change'),
           change.seen \subseteq change'.seen,
           \E m \in change'.seen : \A s \in change'.seen : s <= m,
           change.masked => change'.masked,
           change'.phase \in {"send", "sent"} => change.phase \in {"send", "sent"},
           change'.phase = "send" => "single" \notin change.rule,
           RuleInv', MadeUpInv', Changes!ReturnedIsDone', Changes!QuietExit'
    PROVE  ChangesInv'
<1>1. RuleInv /\ RevisionInv /\ CopyInv /\ OwnInv /\ OnceInv /\ CountInv
      /\ Changes!NoEditUndone /\ Changes!AppliedAsAsked
  BY DEF ChangesInv
<1>2. Changes!Mine' = Changes!Mine /\ \A k : AskedUnder(k)' <=> AskedUnder(k)
  BY DEF Changes!Mine, AskedUnder
<1>3. RevisionInv' /\ CopyInv'
  BY <1>1 DEF RevisionInv, CopyInv, SameCall
<1>4. OwnInv' /\ OnceInv'
  BY <1>1, <1>2 DEF OwnInv, OnceInv, SameCall
<1>5. CountInv'
  BY <1>1, <1>2, ChangeCounts, ChangeTypes DEF CountInv, SameCall
<1>6. Changes!NoEditUndone' /\ Changes!AppliedAsAsked'
  BY <1>1, <1>2 DEF Changes!NoEditUndone, Changes!AppliedAsAsked, SameCall
<1>7. QED
  BY <1>3, <1>4, <1>5, <1>6, ChangeTypes DEF ChangesInv, SameCall

\* A call goes on with another attempt, ends, or is read about.
LEMMA ChangeSettles ==
    ASSUME Changes!MutationsAssumption, ChangesInv,
           \/ Changes!NoAnswer \/ Changes!Busy \/ Changes!Misread \/ Changes!Interrupted
           \/ Changes!Read \/ Changes!Leave
    PROVE  ChangesInv'
<1>1. kind' = kind /\ passed' = passed /\ wire' = wire /\ history' = history
  BY DEF Changes!NoAnswer, Changes!Busy, Changes!Misread, Changes!Interrupted, Changes!Read,
     Changes!Leave
<1>2. RuleInv /\ RevisionInv /\ MadeUpInv /\ Changes!ReturnedIsDone /\ Changes!QuietExit
      /\ history \in Seq(Entries)
  BY DEF ChangesInv
<1>3. Changes!Mine' = Changes!Mine /\ \A k : AskedUnder(k)' <=> AskedUnder(k)
  BY <1>1 DEF Changes!Mine, AskedUnder
<1>4. \E m \in change.seen : \A s \in change.seen : s <= m
  BY <1>2 DEF RevisionInv
<1>5. \A v \in Nat : \E m \in change.seen \cup {v} : \A s \in change.seen \cup {v} : s <= m
  BY <1>4, ChangeTypes, GreatestGrows
<1>6. CASE /\ change.phase = "sent" /\ Changes!Again /\ change' = [change EXCEPT !.phase = "send"]
  <2>1. /\ SameCall(change') /\ change'.phase = "send" /\ change'.seen = change.seen
        /\ change'.told = change.told /\ change'.masked = change.masked
    BY <1>6, Outcomes
  <2>2. "single" \notin change.rule /\ change.attempt < MaxAttempts
    BY <1>6 DEF Changes!Again
  <2>3. RuleInv'
    BY <1>1, <1>2, <1>6, <2>1, <2>2 DEF RuleInv, SameCall
  <2>4. MadeUpInv' /\ Changes!ReturnedIsDone' /\ Changes!QuietExit'
    BY <1>1, <1>2, <1>3, <1>6, <2>1
       DEF MadeUpInv, Changes!ReturnedIsDone, Changes!QuietExit, SameCall
  <2>5. QED
    BY <1>1, <1>4, <1>6, <2>1, <2>2, <2>3, <2>4, ChangeMoves
<1>7. CASE /\ change.phase = "sent" /\ change' = Changes!RaisedNaming
  <2>1. /\ SameCall(change') /\ change'.phase = "raised" /\ change'.seen = change.seen
        /\ change'.told = change.key /\ change'.masked = change.masked
    BY <1>7, Outcomes
  <2>2. RuleInv'
    BY <1>1, <1>2, <1>7, <2>1 DEF RuleInv, SameCall
  <2>3. MadeUpInv' /\ Changes!ReturnedIsDone' /\ Changes!QuietExit'
    BY <1>1, <1>2, <1>3, <1>7, <2>1
       DEF MadeUpInv, Changes!ReturnedIsDone, Changes!QuietExit, SameCall
  <2>4. QED
    BY <1>1, <1>4, <1>7, <2>1, <2>2, <2>3, ChangeMoves
<1>8. CASE /\ change.phase = "sent" /\ change' = Changes!RaisedBare
  <2>1. /\ SameCall(change') /\ change'.phase = "raised" /\ change'.seen = change.seen
        /\ change'.told = 0
        /\ change'.masked = (change.masked \/ wire # {} \/ Changes!Mine # {})
    BY <1>8, Outcomes
  <2>2. RuleInv'
    BY <1>1, <1>2, <1>8, <2>1 DEF RuleInv, SameCall
  <2>3. change.masked => change'.masked
    BY <2>1
  <2>4. ~change'.masked => wire = {} /\ Changes!Mine = {}
    BY <2>1
  <2>5. MadeUpInv' /\ Changes!ReturnedIsDone' /\ Changes!QuietExit'
    BY <1>1, <1>3, <2>1, <2>4
       DEF MadeUpInv, Changes!ReturnedIsDone, Changes!QuietExit
  <2>6. QED
    BY <1>1, <1>4, <1>8, <2>1, <2>2, <2>3, <2>5, ChangeMoves
<1>9. CASE /\ change.phase = "sent" /\ "checked" \notin change.rule /\ change' = Changes!Returned(0)
  <2>1. /\ SameCall(change') /\ change'.phase = "returned" /\ change'.seen = change.seen \cup {0}
        /\ change'.told = change.told /\ change'.masked = change.masked
    BY <1>9, Outcomes
  <2>2. RuleInv'
    BY <1>1, <1>2, <1>9, <2>1 DEF RuleInv, SameCall
  <2>3. Changes!ReturnedIsDone' /\ Changes!QuietExit'
    BY <1>9, <2>1 DEF Changes!ReturnedIsDone, Changes!QuietExit, SameCall
  <2>4. MadeUpInv'
    BY <1>1, <1>2, <1>3, <1>9, <2>1, ChangeTypes DEF MadeUpInv, SameCall
  <2>5. QED
    BY <1>1, <1>5, <1>9, <2>1, <2>2, <2>3, <2>4, ChangeMoves
<1>10. CASE Changes!Interrupted
  <2>1. PICK masked \in BOOLEAN :
            masked = (change.masked \/ (change.told = 0 /\ (wire # {} \/ Changes!Mine # {})))
    BY Zenon
  <2>2. change' = [change EXCEPT !.phase = "raised", !.masked = masked]
    BY <1>10, <2>1, Zenon DEF Changes!Interrupted
  <2>3. /\ SameCall(change') /\ change'.phase = "raised" /\ change'.seen = change.seen
        /\ change'.told = change.told /\ change'.masked = masked
    BY <2>2, Outcomes
  <2>4. change.phase \in {"send", "sent"}
    BY <1>10 DEF Changes!Interrupted
  <2>5. RuleInv'
    BY <1>1, <1>2, <2>3, <2>4 DEF RuleInv, SameCall
  <2>6. /\ change.masked => masked
        /\ ~masked => ~change.masked /\ (change.told # 0 \/ (wire = {} /\ Changes!Mine = {}))
    BY <2>1
  <2>7. MadeUpInv'
    BY <1>1, <1>2, <1>3, <2>3, <2>4, <2>6 DEF MadeUpInv, SameCall
  <2>8. Changes!ReturnedIsDone' /\ Changes!QuietExit'
    BY <2>3 DEF Changes!ReturnedIsDone, Changes!QuietExit
  <2>9. QED
    BY <1>1, <1>4, <2>3, <2>4, <2>5, <2>6, <2>7, <2>8, ChangeMoves
<1>11. CASE Changes!Read
  <2>1. Len(history) \in Nat
    BY <1>2
  <2>2. /\ change.phase \in {"idle", "raised"}
        /\ change' = [change EXCEPT !.seen = @ \cup {Len(history)}]
    BY <1>11 DEF Changes!Read
  <2>3. /\ SameCall(change') /\ change'.phase = change.phase
        /\ change'.seen = change.seen \cup {Len(history)}
        /\ change'.told = change.told /\ change'.masked = change.masked
    BY <2>1, <2>2, Outcomes
  <2>4. RuleInv'
    BY <1>1, <1>2, <1>3, <2>2, <2>3 DEF RuleInv, SameCall
  <2>5. MadeUpInv' /\ Changes!ReturnedIsDone' /\ Changes!QuietExit'
    BY <1>1, <1>2, <1>3, <2>2, <2>3
       DEF MadeUpInv, Changes!ReturnedIsDone, Changes!QuietExit, SameCall
  <2>6. QED
    BY <1>1, <1>5, <2>1, <2>2, <2>3, <2>4, <2>5, ChangeMoves
<1>12. CASE Changes!Leave
  <2>1. PICK phase \in {"left", "thrown"} :
            phase = IF change.body = "ended" /\ (change.phase = "returned" \/ Changes!Swallows)
                    THEN "left" ELSE "thrown"
    OBVIOUS
  <2>2. kind = "with" /\ change.phase \in {"returned", "raised"} /\ change' = [change EXCEPT !.phase = phase]
    BY <1>12, <2>1 DEF Changes!Leave
  <2>3. /\ SameCall(change') /\ change'.phase = phase /\ change'.seen = change.seen
        /\ change'.told = change.told /\ change'.masked = change.masked
    BY <2>2, Outcomes
  <2>4. change.rule = {"copied", "checked"}
    BY <1>2, <2>2 DEF RuleInv
  <2>5. phase = "left" => Changes!Mine # {}
    BY <1>2, <2>1, <2>2, <2>4 DEF Changes!ReturnedIsDone, Changes!Swallows
  <2>6. phase = "left" => history # <<>>
    BY <2>5 DEF Changes!Mine
  <2>7. RuleInv'
    BY <1>1, <1>2, <1>3, <2>2, <2>3, <2>4 DEF RuleInv, SameCall
  <2>8. Changes!ReturnedIsDone' /\ Changes!QuietExit'
    BY <1>1, <2>1, <2>3, <2>6 DEF Changes!ReturnedIsDone, Changes!QuietExit
  <2>9. MadeUpInv'
    <3>1. CASE \E k \in Nat \ {0} : AskedUnder(k)
      BY <1>3, <2>1, <2>3, <3>1 DEF MadeUpInv
    <3>2. CASE wire = {} /\ Changes!Mine = {}
      <4>1. AskedUnder(1) /\ 1 \in Nat \ {0}
        BY <3>2 DEF AskedUnder
      <4>2. QED
        BY <3>1, <4>1
    <3>3. CASE change.masked \/ change.rule \cap {"own", "named", "bare"} # {}
      BY <2>3, <3>3 DEF MadeUpInv, SameCall
    <3>4. QED
      BY <1>2, <2>2, <3>1, <3>2, <3>3, ChangeTypes DEF MadeUpInv
  <2>10. QED
    BY <1>1, <1>4, <2>1, <2>2, <2>3, <2>7, <2>8, <2>9, ChangeMoves
<1>13. CASE Changes!NoAnswer
  BY <1>6, <1>7, <1>13 DEF Changes!NoAnswer
<1>14. CASE Changes!Busy
  BY <1>6, <1>8, <1>14 DEF Changes!Busy
<1>15. CASE Changes!Misread
  BY <1>7, <1>8, <1>9, <1>15 DEF Changes!Misread, Changes!Unconfirmed
<1>16. QED
  BY <1>10, <1>11, <1>12, <1>13, <1>14, <1>15

\* A request arrives and is applied, replayed or refused; its answer reaches its caller or
\* nobody.
LEMMA ChangeArrives ==
    ASSUME Changes!MutationsAssumption, ChangesInv, NEW r \in wire, Changes!Arrive(r)
    PROVE  ChangesInv'
<1>. DEFINE next == Len(history) + 1
            entry == [by |-> "caller", key |-> r.key, body |-> r.body, base |-> r.base]
            Applied == ~Changes!Known(r) /\ ~Changes!Stale(r) /\ history' = Append(history, entry)
<1>1. kind' = kind /\ passed' = passed /\ wire' = wire \ {r}
  BY DEF Changes!Arrive
<1>2. /\ RuleInv /\ RevisionInv /\ CopyInv /\ OwnInv /\ MadeUpInv /\ OnceInv /\ CountInv
      /\ Changes!ReturnedIsDone /\ Changes!NoEditUndone /\ Changes!AppliedAsAsked
      /\ Changes!QuietExit
  BY DEF ChangesInv
<1>3. kind # "none" /\ change.phase # "idle" /\ wire # {}
  BY <1>2 DEF RuleInv
<1>4. Len(history) \in Nat /\ next \in Nat /\ r \in Sendings
  BY ChangeTypes
<1>5. \A v \in Nat : \E m \in change.seen \cup {v} : \A s \in change.seen \cup {v} : s <= m
  BY <1>2, ChangeTypes, GreatestGrows DEF RevisionInv
<1>6. Changes!Known(r) => Changes!Mine # {}
  <2>1. CASE {"bare", "revised"} \subseteq change.rule /\ history # <<>>
             /\ Changes!SameEdit(history[Len(history)], r)
    <3>1. Len(history) \in 1 .. Len(history)
      BY <2>1, ChangeTypes
    <3>2. Len(history) \in Changes!Mine
      BY <2>1, <3>1 DEF Changes!SameEdit, Changes!Mine
    <3>3. QED
      BY <3>2
  <2>2. QED
    BY <2>1 DEF Changes!Known
<1>7. Changes!Replayed(r) # {} => Changes!Newest(Changes!Replayed(r)) \in Nat
  <2>1. Changes!Replayed(r) \in SUBSET Nat /\ \A s \in Changes!Replayed(r) : s <= Len(history)
    BY <1>4 DEF Changes!Replayed, Changes!Mine
  <2>2. QED
    BY <1>4, <2>1, Greatest, NewestIs
\* What becomes of the call.
<1>8. PICK v \in Nat :
          \/ change' = change
          \/ change.phase = "sent" /\ change' = Changes!RaisedBare
          \/ /\ change.phase = "sent" /\ change' = Changes!Returned(v)
             /\ Applied \/ Changes!Mine # {}
  <2>1. \A w \in Nat : (change' = Changes!Returned(w) /\ change.phase = "sent"
                           /\ (Applied \/ Changes!Mine # {})) =>
            \E v \in Nat : /\ change.phase = "sent" /\ change' = Changes!Returned(v)
                           /\ Applied \/ Changes!Mine # {}
    OBVIOUS
  <2>2. change' = change \/ Changes!Waits(r)
    BY DEF Changes!Arrive
  <2>3. Changes!Waits(r) => change.phase = "sent"
    BY DEF Changes!Waits
  <2>4. CASE change' = change
    BY <1>4, <2>4
  <2>5. CASE change' # change /\ Applied
    <3>1. change' = Changes!Returned(next)
      BY <2>5, <1>6 DEF Changes!Arrive
    <3>2. QED
      BY <1>4, <2>2, <2>3, <2>5, <3>1
  <2>6. CASE change' # change /\ Changes!Known(r)
    <3>1. \/ change' = Changes!RaisedBare
          \/ Changes!Replayed(r) # {} /\ change' = Changes!Returned(Changes!Newest(Changes!Replayed(r)))
      BY <2>6 DEF Changes!Arrive
    <3>2. QED
      BY <1>4, <1>6, <1>7, <2>2, <2>3, <2>6, <3>1
  <2>7. CASE change' # change /\ ~Changes!Known(r) /\ ~Applied
    <3>1. change' = Changes!RaisedBare
      BY <2>7 DEF Changes!Arrive
    <3>2. QED
      BY <1>4, <2>2, <2>3, <2>7, <3>1
  <2>8. QED
    BY <2>4, <2>5, <2>6, <2>7
<1>9. Applied \/ history' = history
  BY DEF Changes!Arrive
<1>10. /\ SameCall(change') /\ change.seen \subseteq change'.seen
       /\ \E m \in change'.seen : \A s \in change'.seen : s <= m
       /\ change.masked => change'.masked
       /\ \/ change' = change
          \/ change.phase = "sent" /\ change'.phase = "raised" /\ change'.masked
          \/ change.phase = "sent" /\ change'.phase = "returned" /\ (Applied \/ Changes!Mine # {})
  <2>1. CASE change' = change
    BY <1>2, <2>1, ChangeTypes DEF SameCall, RevisionInv
  <2>2. CASE change.phase = "sent" /\ change' = Changes!RaisedBare
    <3>1. /\ SameCall(change') /\ change'.phase = "raised" /\ change'.seen = change.seen
          /\ change'.masked = (change.masked \/ wire # {} \/ Changes!Mine # {})
      BY <2>2, Outcomes
    <3>2. change'.masked
      BY <1>3, <3>1
    <3>3. QED
      BY <1>2, <2>2, <3>1, <3>2 DEF RevisionInv
  <2>3. CASE /\ change.phase = "sent" /\ change' = Changes!Returned(v)
             /\ Applied \/ Changes!Mine # {}
    <3>1. /\ SameCall(change') /\ change'.phase = "returned" /\ change'.seen = change.seen \cup {v}
          /\ change'.masked = change.masked
      BY <2>3, Outcomes
    <3>2. QED
      BY <1>5, <2>3, <3>1
  <2>4. QED
    BY <1>8, <2>1, <2>2, <2>3
<1>11. /\ entry \in Entries /\ entry.by = "caller" /\ entry.key = r.key /\ entry.body = r.body
  BY ChangeTypes DEF Entries
\* What becomes of what was applied.
<1>12. /\ history' \in Seq(Entries) /\ Changes!Mine \subseteq 1 .. Len(history)
       /\ \A i \in Changes!Mine : history'[i] = history[i]
       /\ history # <<>> => history' # <<>>
       /\ \/ /\ Applied /\ Changes!Mine' = Changes!Mine \cup {next} /\ next \notin Changes!Mine
             /\ history'[next].key = r.key /\ history'[next].body = r.body
          \/ Changes!Mine' = Changes!Mine /\ ~Applied
  <2>1. history \in Seq(Entries)
    BY ChangeTypes
  <2>2. CASE Applied
    <3>1. history' = Append(history, entry)
      BY <2>2
    <3>. HIDE DEF entry
    <3>2. QED
      BY <1>11, <2>1, <2>2, <3>1, HistoryGrows
  <2>3. CASE ~Applied
    BY <1>9, <2>1, <2>3 DEF Changes!Mine
  <2>4. QED
    BY <2>2, <2>3
<1>. HIDE DEF entry, next
<1>13. \A k : AskedUnder(k) => AskedUnder(k)'
  <2>. SUFFICES ASSUME NEW k, AskedUnder(k) PROVE AskedUnder(k)'
    OBVIOUS
  <2>1. r.key = k
    BY DEF AskedUnder
  <2>2. QED
    BY <1>1, <1>12, <2>1 DEF AskedUnder
<1>14. RuleInv'
  BY <1>1, <1>2, <1>3, <1>10 DEF RuleInv, SameCall
<1>15. RevisionInv' /\ CopyInv'
  BY <1>1, <1>2, <1>10 DEF RevisionInv, CopyInv, SameCall
<1>16. OwnInv'
  BY <1>2, <1>10, <1>13 DEF OwnInv, SameCall
<1>17. MadeUpInv'
  <2>. SUFFICES ASSUME change.rule \cap {"own", "named", "bare"} = {}, ~change'.masked
                PROVE  MadeUpInv'
    BY <1>10 DEF MadeUpInv, SameCall
  <2>1. CASE change' = change
    BY <1>2, <1>3, <1>13, <2>1 DEF MadeUpInv
  <2>2. CASE change.phase = "sent" /\ change'.phase = "returned"
    <3>1. change.key # 0 /\ AskedUnder(change.key)
      BY <1>2, <1>10, <2>2 DEF MadeUpInv
    <3>2. change.key \in Nat \ {0}
      BY <3>1, ChangeTypes
    <3>3. \E k \in Nat \ {0} : AskedUnder(k)'
      <4>1. PICK k \in Nat \ {0} : k = change.key
        BY <3>2
      <4>2. AskedUnder(k)
        BY <3>1, <4>1
      <4>3. QED
        BY <1>13, <4>2
    <3>4. QED
      BY <2>2, <3>3 DEF MadeUpInv
  <2>3. QED
    BY <1>10, <2>1, <2>2
<1>18. OnceInv'
  <2>. SUFFICES ASSUME "bare" \notin change.rule,
                       ~(change'.masked /\ change.rule \cap {"own", "named"} = {}), Applied
                PROVE  Changes!Mine = {}
    BY <1>2, <1>10, <1>12 DEF OnceInv, SameCall
  <2>1. ~Changes!Known(r)
    OBVIOUS
  <2>2. CASE "own" \in change.rule
    BY <1>2, <2>1, <2>2 DEF OwnInv, AskedUnder, Changes!Known
  <2>3. CASE "named" \in change.rule
    BY <2>1, <2>3 DEF Changes!Known
  <2>4. CASE "own" \notin change.rule /\ "named" \notin change.rule
    <3>1. ~change.masked /\ change.rule \cap {"own", "named", "bare"} = {}
      BY <1>10, <2>4
    <3>2. PICK k : k # 0 /\ AskedUnder(k)
      BY <1>2, <1>3, <3>1 DEF MadeUpInv
    <3>3. QED
      BY <2>1, <3>2 DEF AskedUnder, Changes!Known
  <2>5. QED
    BY <2>2, <2>3, <2>4
<1>19. /\ wire' \in SUBSET Sendings /\ IsFiniteSet(wire')
       /\ Cardinality(wire') = Cardinality(wire) - 1
  BY <1>1, ChangeTypes, FS_RemoveElement
<1>20. CountInv'
  <2>1. Cardinality(Changes!Mine') \in {Cardinality(Changes!Mine), Cardinality(Changes!Mine) + 1}
    BY <1>12, ChangeCounts, FS_AddElement
  <2>2. change'.phase = "send" => change.phase = "send"
    BY <1>10
  <2>3. QED
    BY <1>2, <1>10, <1>19, <2>1, <2>2, ChangeCounts, ChangeTypes DEF CountInv, SameCall
<1>21. Changes!ReturnedIsDone' /\ Changes!QuietExit'
  <2>1. change'.phase = "left" => history' # <<>>
    BY <1>2, <1>10, <1>12 DEF Changes!QuietExit
  <2>2. change'.phase = "returned" /\ "checked" \in change.rule => Changes!Mine' # {}
    BY <1>2, <1>10, <1>12 DEF Changes!ReturnedIsDone
  <2>3. QED
    BY <1>10, <2>1, <2>2 DEF Changes!ReturnedIsDone, Changes!QuietExit, SameCall
<1>22. Changes!NoEditUndone'
  <2>. SUFFICES ASSUME "revised" \in change.rule, NEW i \in Changes!Mine' PROVE i - 1 \in change.seen
    BY <1>10 DEF Changes!NoEditUndone, SameCall
  <2>1. CASE i \in Changes!Mine
    BY <1>2, <2>1 DEF Changes!NoEditUndone
  <2>2. CASE Applied /\ i = next
    <3>1. r.base = Len(history) /\ r.base \in change.seen
      BY <1>2, <2>2 DEF Changes!Stale, RevisionInv
    <3>2. QED
      BY <1>4, <2>2, <3>1 DEF next
  <2>3. QED
    BY <1>12, <2>1, <2>2
<1>23. Changes!AppliedAsAsked'
  <2>. SUFFICES ASSUME "copied" \in change.rule, NEW i \in Changes!Mine'
                PROVE  history'[i].body \in change.asked
    BY <1>10 DEF Changes!AppliedAsAsked, SameCall
  <2>1. CASE i \in Changes!Mine
    BY <1>2, <1>12, <2>1 DEF Changes!AppliedAsAsked
  <2>2. CASE Applied /\ i = next
    BY <1>2, <1>12, <2>2 DEF CopyInv
  <2>3. QED
    BY <1>12, <2>1, <2>2
<1>24. QED
  BY <1>1, <1>10, <1>12, <1>14, <1>15, <1>16, <1>17, <1>18, <1>19, <1>20, <1>21, <1>22, <1>23,
     ChangeTypes DEF ChangesInv, SameCall

\* Somebody else edits the thing, or the program the objects it passed.
LEMMA ChangeBeside ==
    ASSUME Changes!MutationsAssumption, ChangesInv, Changes!Other \/ Changes!Edit PROVE ChangesInv'
<1>1. /\ change' = change /\ kind' = kind /\ wire' = wire /\ passed' \in {0, 1}
      /\ change.phase = "idle" => passed' = passed /\ history' = history
  <2>1. CASE Changes!Other
    <3>1. kind # "none"
      BY <2>1 DEF Changes!Other, ChangesInv, RuleInv
    <3>2. change.phase # "idle"
      BY <3>1 DEF ChangesInv, RuleInv
    <3>3. QED
      BY <2>1, <3>2, ChangeTypes DEF Changes!Other
  <2>2. CASE Changes!Edit
    BY <2>2 DEF Changes!Edit
  <2>3. QED
    BY <2>1, <2>2
<1>2. /\ history' \in Seq(Entries) /\ Changes!Mine' = Changes!Mine
      /\ \A i \in Changes!Mine : history'[i] = history[i]
      /\ history # <<>> => history' # <<>>
  <2>1. CASE Changes!Other
    <3>1. Changes!Others \in Entries /\ Changes!Others.by = "other"
      BY ChangeTypes DEF Changes!Others, Entries
    <3>2. history' = Append(history, Changes!Others) /\ history \in Seq(Entries)
      BY <2>1, ChangeTypes DEF Changes!Other
    <3>3. QED
      BY <3>1, <3>2, HistoryGrows
  <2>2. CASE Changes!Edit
    BY <2>2, ChangeTypes DEF Changes!Edit, Changes!Mine
  <2>3. QED
    BY <2>1, <2>2
<1>3. \A k : AskedUnder(k)' <=> AskedUnder(k)
  BY <1>1, <1>2 DEF AskedUnder
<1>4. RuleInv' /\ RevisionInv' /\ CopyInv' /\ OwnInv'
  BY <1>1, <1>2, <1>3 DEF ChangesInv, RuleInv, RevisionInv, CopyInv, OwnInv
<1>5. MadeUpInv' /\ OnceInv' /\ CountInv'
  BY <1>1, <1>2, <1>3 DEF ChangesInv, MadeUpInv, OnceInv, CountInv
<1>6. Changes!ReturnedIsDone' /\ Changes!NoEditUndone' /\ Changes!AppliedAsAsked' /\ Changes!QuietExit'
  BY <1>1, <1>2 DEF ChangesInv, Changes!ReturnedIsDone, Changes!NoEditUndone,
     Changes!AppliedAsAsked, Changes!QuietExit
<1>7. QED
  BY <1>1, <1>2, <1>4, <1>5, <1>6, ChangeTypes DEF ChangesInv

LEMMA ChangesInit ==
    ASSUME Changes!MutationsAssumption, Changes!Init PROVE ChangesInv
<1>1. kind = "none" /\ passed = 0 /\ wire = {} /\ history = <<>>
  BY DEF Changes!Init
<1>2. 0 \in 0 .. MaxChanges /\ 0 \in 0 .. MaxAttempts
  BY DEF Changes!MutationsAssumption
<1>3. \A rule \in SUBSET Rules, asked \in SUBSET {0, 1}, seen \in SUBSET Nat :
         LET c == [phase |-> "idle", rule |-> rule, key |-> 0, told |-> 0, tries |-> 0,
                   attempt |-> 0, copy |-> 0, base |-> 0, asked |-> asked, seen |-> seen,
                   masked |-> FALSE, body |-> "none"]
         IN  /\ c \in Changed /\ c.phase = "idle" /\ c.rule = rule /\ c.told = 0 /\ c.tries = 0
             /\ c.attempt = 0 /\ c.copy = 0 /\ c.base = 0 /\ c.seen = seen /\ ~c.masked
  BY <1>2 DEF Changed
<1>4. /\ change \in Changed /\ change.phase = "idle" /\ change.rule = {} /\ change.told = 0
      /\ change.tries = 0 /\ change.attempt = 0 /\ change.copy = 0 /\ change.base = 0
      /\ change.seen = {0} /\ ~change.masked
  <2>1. {} \in SUBSET Rules /\ {} \in SUBSET {0, 1} /\ {0} \in SUBSET Nat
    OBVIOUS
  <2>2. QED
    BY <1>3, <2>1 DEF Changes!Init
<1>5. Changes!Mine = {}
  BY <1>1 DEF Changes!Mine
<1>6. RuleInv /\ RevisionInv /\ CopyInv /\ OwnInv /\ MadeUpInv /\ OnceInv /\ CountInv
  BY <1>1, <1>4, <1>5 DEF RuleInv, RevisionInv, CopyInv, OwnInv, MadeUpInv, OnceInv, CountInv
<1>7. Changes!ReturnedIsDone /\ Changes!NoEditUndone /\ Changes!AppliedAsAsked /\ Changes!QuietExit
  BY <1>4, <1>5 DEF Changes!ReturnedIsDone, Changes!NoEditUndone, Changes!AppliedAsAsked,
     Changes!QuietExit
<1>8. IsFiniteSet(wire) /\ wire \in SUBSET Sendings /\ history \in Seq(Entries)
  BY <1>1, FS_EmptySet
<1>9. QED
  BY <1>1, <1>4, <1>6, <1>7, <1>8 DEF ChangesInv

\* Every step or stutter keeps the invariant.
LEMMA ChangesPreserved ==
    ASSUME Changes!MutationsAssumption, ChangesInv, [Changes!Next]_(Changes!vars) PROVE ChangesInv'
<1>1. CASE UNCHANGED Changes!vars
  <2>1. /\ kind' = kind /\ change' = change /\ passed' = passed /\ wire' = wire
        /\ history' = history
    BY <1>1 DEF Changes!vars
  <2>2. Changes!Mine' = Changes!Mine /\ \A k : AskedUnder(k)' <=> AskedUnder(k)
    BY <2>1 DEF Changes!Mine, AskedUnder
  <2>3. RuleInv' /\ RevisionInv' /\ CopyInv' /\ OwnInv' /\ MadeUpInv' /\ OnceInv' /\ CountInv'
    BY <2>1, <2>2 DEF ChangesInv, RuleInv, RevisionInv, CopyInv, OwnInv, MadeUpInv, OnceInv,
       CountInv
  <2>4. QED
    BY <2>1, <2>2, <2>3 DEF ChangesInv, Changes!ReturnedIsDone, Changes!NoEditUndone,
       Changes!AppliedAsAsked, Changes!QuietExit
<1>2. CASE \E r \in wire : Changes!Arrive(r)
  BY <1>2, ChangeArrives
<1>3. CASE \/ Changes!WorkloadCall
           \/ Changes!SandboxCall /\ ~Changes!Exit
           \/ Changes!DurableCall \/ Changes!AgentCall \/ Changes!AsyncAgentCall
           \/ Changes!OperationCall \/ Changes!ToolCall
  BY <1>3, ChangeCalled
<1>4. QED
  BY <1>1, <1>2, <1>3, ChangeExit, ChangeSent, ChangeSettles, ChangeBeside DEF Changes!Next

\* The size of a set does not depend on the module that takes it.
LEMMA ChangeSizes ==
    ASSUME NEW S PROVE Changes!Cardinality(S) = Cardinality(S)
BY Zenon DEF Changes!Cardinality, Cardinality

\* What a caller wants once happens once.
LEMMA ChangesOnce ==
    ASSUME Changes!MutationsAssumption, ChangesInv PROVE Changes!OneEffectPerWish
<1>1. ASSUME {"single", "bare"} \subseteq change.rule
      PROVE  Cardinality(Changes!Mine) <= change.tries
  BY <1>1, ChangeCounts, ChangeTypes DEF ChangesInv, CountInv
<1>2. ASSUME \A i, j \in Changes!Mine : i = j  PROVE Cardinality(Changes!Mine) <= 1
  <2>1. CASE Changes!Mine = {}
    BY <2>1, FS_EmptySet
  <2>2. CASE Changes!Mine # {}
    <3>1. PICK i : Changes!Mine = {i}
      BY <1>2, <2>2
    <3>2. Cardinality({i}) = 1
      BY FS_Singleton
    <3>3. QED
      BY <3>1, <3>2
  <2>3. QED
    BY <2>1, <2>2
<1>3. ASSUME "bare" \notin change.rule,
             ~(change.masked /\ change.rule \cap {"own", "named"} = {})
      PROVE  Cardinality(Changes!Mine) <= 1
  BY <1>2, <1>3 DEF ChangesInv, OnceInv
<1>4. QED
  BY <1>1, <1>3, ChangeSizes DEF Changes!OneEffectPerWish

\* What a caller wants once happens once, however often the transport and the caller repeat
\* it (_sandboxes.py:85-100, 753-765, _managed_agents.py:72-85).
THEOREM ChangesOnceOnly ==
    ASSUME Changes!MutationsAssumption
    PROVE  Changes!Spec => []Changes!OneEffectPerWish
<1>1. Changes!Init => ChangesInv
  BY ChangesInit
<1>2. ChangesInv /\ [Changes!Next]_(Changes!vars) => ChangesInv'
  BY ChangesPreserved
<1>3. ChangesInv => Changes!OneEffectPerWish
  BY ChangesOnce
<1>4. QED
  BY <1>1, <1>2, <1>3, PTL DEF Changes!Spec

\* A change is applied as it was asked, to what its author had seen
\* (_operations.py:142-149, 287-290, _managed_agents.py:181-190).
THEOREM ChangesAsAsked ==
    ASSUME Changes!MutationsAssumption
    PROVE  Changes!Spec => [](Changes!NoEditUndone /\ Changes!AppliedAsAsked)
<1>1. Changes!Init => ChangesInv
  BY ChangesInit
<1>2. ChangesInv /\ [Changes!Next]_(Changes!vars) => ChangesInv'
  BY ChangesPreserved
<1>3. ChangesInv => Changes!NoEditUndone /\ Changes!AppliedAsAsked
  BY DEF ChangesInv
<1>4. QED
  BY <1>1, <1>2, <1>3, PTL DEF Changes!Spec
=============================================================================
