----------------------------- MODULE Downloads ------------------------------
(***************************************************************************)
(* Publication of downloaded bytes at one local path: nodus/_outputs.py,   *)
(* verified_file, under Client.download_output, Workload.download and      *)
(* export_files.  Several downloads of one process or several, the user    *)
(* and whoever renames directories meet at one destination.  A download    *)
(* writes a temporary file beside it, verifies length and hash, and only   *)
(* then publishes: by replacing, or by linking when it must not overwrite. *)
(***************************************************************************)
EXTENDS Integers, FiniteSets

CONSTANTS
    Downloaders,    \* downloads aimed at the path
    Pieces,         \* pieces of the declared content
    MaxUser,        \* bound: things the user does to the path or its directory
    User,           \* the user's own content
    None            \* no file

DownloadsAssumption == Pieces \in Nat \ {0} /\ MaxUser \in Nat /\ User \notin Downloaders

VARIABLES
    directory,   \* which directory the path leads to; a rename makes it another
    present,     \* directory -> what the destination's name holds in it
    temporary,   \* downloader -> the directory its temporary file is in, or None
    call,        \* downloader -> its call
    user         \* what the user has done, counted

vars == <<directory, present, temporary, call, user>>

Directories == 0 .. MaxUser
\* A published content: whose, how many pieces of it, and whether they are intact.
Contents == [by: Downloaders \cup {User}, size: 0 .. Pieces + 1, intact: BOOLEAN]
Whole(content) == content.by = User \/ (content.size = Pieces /\ content.intact)
Calls == [phase: {"idle", "copy", "publish", "link", "finally", "done", "killed"},
          overwrite: BOOLEAN, identity: Directories, published: BOOLEAN,
          size: 0 .. Pieces + 1, intact: BOOLEAN]

TypeOK ==
    /\ directory \in Directories /\ user \in 0 .. MaxUser
    /\ present \in [Directories -> Contents \cup {None}]
    /\ temporary \in [Downloaders -> Directories \cup {None}]
    /\ call \in [Downloaders -> Calls]

UserContent == [by |-> User, size |-> 0, intact |-> TRUE]

Init ==
    /\ directory = 0 /\ user = 0
    /\ \E content \in {None, UserContent} :
          present = [d \in Directories |-> IF d = 0 THEN content ELSE None]
    /\ temporary = [p \in Downloaders |-> None]
    /\ call \in [Downloaders -> { [phase |-> "idle", overwrite |-> overwrite, identity |-> 0,
                   published |-> FALSE, size |-> 0, intact |-> TRUE] : overwrite \in BOOLEAN }]

Goto(p, phase) == call' = [call EXCEPT ![p].phase = phase]

\* An existing destination is refused before anything is written.
Refused(p) == ~call[p].overwrite /\ present[directory] # None

Begin(p) ==
    /\ call[p].phase = "idle"
    /\ IF Refused(p)
       THEN Goto(p, "done") /\ UNCHANGED temporary
       ELSE /\ call' = [call EXCEPT ![p].phase = "copy", ![p].identity = directory]
            /\ temporary' = [temporary EXCEPT ![p] = directory]
    /\ UNCHANGED <<directory, present, user>>

\* A piece arrives, as the server sent it or damaged; too many are refused at once.
Copy(p) ==
    /\ call[p].phase = "copy"
    /\ \E intact \in BOOLEAN :
          LET size == call[p].size + 1 IN
          call' = [call EXCEPT ![p].size = size, ![p].intact = @ /\ intact,
                               ![p].phase = IF size > Pieces THEN "finally" ELSE "copy"]
    /\ UNCHANGED <<directory, present, temporary, user>>

\* mutant: only the length is compared.
VerifiedByLength(p) == call[p].size = Pieces

\* Content-Length and X-Nodus-SHA256 after the last piece.
Verified(p) == call[p].size = Pieces /\ call[p].intact

\* The stream ends, where it should or earlier, or the transfer is interrupted.
StreamEnds(p) ==
    /\ call[p].phase = "copy"
    /\ Goto(p, IF ~Verified(p) THEN "finally" ELSE IF call[p].overwrite THEN "publish" ELSE "link")
    /\ UNCHANGED <<directory, present, temporary, user>>

\* The task of an asynchronous download is cancelled between two pieces; from the
\* verification to the publication it awaits nothing.
AsyncCancelled(p) ==
    /\ call[p].phase = "copy"
    /\ Goto(p, "finally")
    /\ UNCHANGED <<directory, present, temporary, user>>

TemporaryFound(p) == temporary[p] = directory

Publish(p) ==
    /\ present' = [present EXCEPT ![directory] =
                      [by |-> p, size |-> call[p].size, intact |-> call[p].intact]]
    /\ call' = [call EXCEPT ![p].phase = "finally", ![p].published = TRUE]

\* os.replace, which takes the temporary name away.
Replace(p) ==
    /\ call[p].phase = "publish"
    /\ IF TemporaryFound(p)
       THEN Publish(p) /\ temporary' = [temporary EXCEPT ![p] = None]
       ELSE Goto(p, "finally") /\ UNCHANGED <<present, temporary>>
    /\ UNCHANGED <<directory, user>>

\* mutant: the earlier test of the destination is relied on.
LinkableUnseen(p) == TemporaryFound(p)

\* os.link fails when the destination exists.
Linkable(p) == TemporaryFound(p) /\ present[directory] = None

\* The directory is compared with the one the transfer began in, then the link made.
Link(p) ==
    /\ call[p].phase = "link"
    /\ IF call[p].identity = directory /\ Linkable(p)
       THEN Publish(p)
       ELSE Goto(p, "finally") /\ UNCHANGED present
    /\ UNCHANGED <<directory, temporary, user>>

Tidied(p) == call[p].identity = directory

Finally(p) ==
    /\ call[p].phase = "finally"
    /\ temporary' = IF Tidied(p) THEN [temporary EXCEPT ![p] = None] ELSE temporary
    /\ Goto(p, "done")
    /\ UNCHANGED <<directory, present, user>>

\* The process is killed: nothing is tidied up.
Killed(p) ==
    /\ call[p].phase \in {"copy", "publish", "link", "finally"}
    /\ Goto(p, "killed")
    /\ UNCHANGED <<directory, present, temporary, user>>

-----------------------------------------------------------------------------
(* The user saves a file under that name, removes it, or puts another      *)
(* directory at its place.                                                 *)

UserSaves ==
    /\ user < MaxUser /\ user' = user + 1
    /\ present' = [present EXCEPT ![directory] = UserContent]
    /\ UNCHANGED <<directory, temporary, call>>

UserRemoves ==
    /\ user < MaxUser /\ user' = user + 1
    /\ present' = [present EXCEPT ![directory] = None]
    /\ UNCHANGED <<directory, temporary, call>>

UserMoves ==
    /\ user < MaxUser /\ user' = user + 1
    /\ directory' = directory + 1
    /\ UNCHANGED <<present, temporary, call>>

Next ==
    \/ \E p \in Downloaders :
          \/ Begin(p) \/ Copy(p) \/ StreamEnds(p) \/ AsyncCancelled(p)
          \/ Replace(p) \/ Link(p) \/ Finally(p) \/ Killed(p)
    \/ UserSaves \/ UserRemoves \/ UserMoves

Spec == Init /\ [][Next]_vars

-----------------------------------------------------------------------------
(* Whatever stands at the destination is the user's file or a complete     *)
(* verified download, also while downloads run, fail, collide or are       *)
(* killed; and one that ended leaves no temporary file behind in a         *)
(* directory that is still in place (_outputs.py:96-114).                  *)
PublishedWhole ==
    /\ \A d \in Directories : present[d] # None => Whole(present[d])
    /\ \A p \in Downloaders :
          call[p].phase = "done" /\ temporary[p] # None => call[p].identity # directory

(* A download told not to overwrite never takes the place of a file, even  *)
(* of one that appeared after it looked (_outputs.py:78-82, 103-110).      *)
PublishesBeside ==
    \A p \in Downloaders, d \in Directories :
        call'[p].published /\ ~call[p].published /\ ~call[p].overwrite
           /\ present'[d] # present[d] => present[d] = None

NothingOverwritten == [][PublishesBeside]_vars
=============================================================================
