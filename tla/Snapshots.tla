----------------------------- MODULE Snapshots -----------------------------
(***************************************************************************)
(* Packing a local directory while its user goes on working in it:         *)
(* build_workspace_archive (nodus/_workspace_archive.py), which lists the  *)
(* whole tree, then reads it, then looks at every directory again; and     *)
(* archive_project (nodus/_projects.py), which lists and reads one         *)
(* directory after the other and checks each file alone.                   *)
(*                                                                         *)
(* A file is read in two pieces through one descriptor, which stays on the *)
(* inode it was opened on.  Every write changes what fstat says of an      *)
(* inode: two writes within the resolution of the file system's clock that *)
(* leave the size alone are told apart by neither function.  The tree is a *)
(* root, its file 1 and its sub-directory with file 2; directories stay,   *)
(* names in them come and go.  Headers and digests are abstracted to the   *)
(* content they describe.                                                  *)
(***************************************************************************)
EXTENDS Naturals

CONSTANTS MaxEdits   \* bound: what the user does to the tree

SnapshotsAssumption == MaxEdits \in Nat

Files == {1, 2}              \* file f is in directory f
Directories == {1, 2}        \* 2 is an entry of 1
Inodes == 1 .. 2 + MaxEdits
Gone == [inode |-> 0, version |-> 0]
Identity == [inode : Inodes, version : 0 .. MaxEdits] \cup {Gone}

VARIABLES
    tree,      \* [file -> the inode under the name, 0 if there is none]
    aside,     \* [file -> an inode moved aside, or 0]
    version,   \* [inode -> the edit that wrote its content last]
    changed,   \* [directory -> number of changes of its names]
    edits,     \* number of edits
    moments,   \* the whole tree at each moment since the call began
    call       \* [mode, pc, at, begun, listed, first, second]: the packing

vars == <<tree, aside, version, changed, edits, moments, call>>

TypeOK ==
    /\ tree \in [Files -> 0 .. 2 + MaxEdits] /\ aside \in [Files -> 0 .. 2 + MaxEdits]
    /\ version \in [Inodes -> 0 .. MaxEdits] /\ edits \in 0 .. MaxEdits
    /\ changed \in [Directories -> 0 .. MaxEdits]
    /\ moments \subseteq [Files -> Identity]
    /\ call \in [mode : {"workspace", "project"}, at : 1 .. 3,
                 pc : {"enter", "list", "open", "read", "check", "packed", "refused"},
                 begun : [Directories -> 0 .. MaxEdits], listed : [Files -> Identity],
                 first : [Files -> Identity], second : [Files -> Identity]]

Stat(inode) == IF inode = 0 THEN Gone ELSE [inode |-> inode, version |-> version[inode]]
Whole(inodes, versions) ==
    [f \in Files |-> IF inodes[f] = 0 THEN Gone
                     ELSE [inode |-> inodes[f], version |-> versions[inodes[f]]]]

Init ==
    /\ tree = [f \in Files |-> f] /\ aside = [f \in Files |-> 0]
    /\ version = [i \in Inodes |-> 0]
    /\ changed = [d \in Directories |-> 0] /\ edits = 0
    /\ moments = {Whole(tree, version)}
    /\ \E mode \in {"workspace", "project"} :
          call = [mode |-> mode, pc |-> "enter", at |-> 1, begun |-> changed,
                  listed |-> [f \in Files |-> Gone], first |-> [f \in Files |-> Gone],
                  second |-> [f \in Files |-> Gone]]

-----------------------------------------------------------------------------
(* The user at work.                                                       *)

Edits ==
    /\ edits < MaxEdits /\ edits' = edits + 1
    /\ call.pc \notin {"packed", "refused"} /\ UNCHANGED call
    /\ moments' = moments \cup {Whole(tree', version')}

Renames(f) == changed' = [changed EXCEPT ![f] = @ + 1]

\* Writes a file in place: whoever has it open reads the new content.
Writes ==
    /\ \E f \in Files : tree[f] # 0 /\ version' = [version EXCEPT ![tree[f]] = edits + 1]
    /\ UNCHANGED <<tree, aside, changed>> /\ Edits

\* Saves a new file under a name.
Saves ==
    /\ edits < MaxEdits
    /\ \E f \in Files : Renames(f) /\ tree' = [tree EXCEPT ![f] = 3 + edits]
    /\ version' = [version EXCEPT ![3 + edits] = edits + 1]
    /\ UNCHANGED aside /\ Edits

\* Moves a file aside (or away for good), and back as the same file.
MovesAside ==
    /\ \E f \in Files : tree[f] # 0 /\ aside[f] = 0 /\ Renames(f)
                        /\ tree' = [tree EXCEPT ![f] = 0] /\ aside' = [aside EXCEPT ![f] = tree[f]]
    /\ UNCHANGED version /\ Edits
MovesBack ==
    /\ \E f \in Files : aside[f] # 0 /\ Renames(f)
                        /\ tree' = [tree EXCEPT ![f] = aside[f]] /\ aside' = [aside EXCEPT ![f] = 0]
    /\ UNCHANGED version /\ Edits

-----------------------------------------------------------------------------
(* Packing.                                                                *)

Working == UNCHANGED <<tree, aside, version, changed, edits, moments>>

Refuse == call' = [call EXCEPT !.pc = "refused"]

\* mutant: directories are not looked at again.
DirectoryAny(d) == TRUE

\* A directory has the identity it was found with, and so the same names.
DirectoryKept(d) == changed[d] = call.begun[d]

\* A workspace's directory must be the one that was found.
Enter ==
    /\ call.pc = "enter"
    /\ IF call.mode = "workspace" /\ ~DirectoryKept(call.at) THEN Refuse
       ELSE call' = [call EXCEPT !.pc = "list"]
    /\ Working

\* The names of a directory with what lstat says of each.  A workspace's whole tree
\* is listed before anything is read.
List ==
    /\ call.pc = "list"
    /\ LET found == [call EXCEPT !.listed[call.at] = Stat(tree[call.at]),
                                 !.begun[2] = IF call.at = 1 THEN changed[2] ELSE @]
       IN call' = IF call.mode = "project" THEN [found EXCEPT !.pc = "open"]
                  ELSE IF call.at = 1 THEN [found EXCEPT !.pc = "enter", !.at = 2]
                  ELSE [found EXCEPT !.pc = "open", !.at = 1]
    /\ Working

\* Nothing is left: a workspace's directories are looked at again.
After(at) ==
    IF at < 2 THEN [at |-> 2, pc |-> IF call.mode = "workspace" THEN "open" ELSE "enter"]
    ELSE IF call.mode = "workspace" THEN [at |-> 1, pc |-> "check"] ELSE [at |-> 3, pc |-> "packed"]

Skip ==
    /\ call.pc = "open" /\ call.listed[call.at] = Gone
    /\ call' = [call EXCEPT !.at = After(call.at).at, !.pc = After(call.at).pc]
    /\ Working

\* mutant: a file that was replaced since it was listed is packed.
OpensAny(listed, now) == now # Gone

\* The file that was listed; of a project's only inode and size are compared.
Opens(listed, now) ==
    IF call.mode = "workspace" THEN now = listed ELSE now # Gone /\ now.inode = listed.inode

\* The file is opened, and its first piece read.
Open ==
    /\ call.pc = "open" /\ call.listed[call.at] # Gone
    /\ LET now == Stat(tree[call.at]) IN
       IF Opens(call.listed[call.at], now)
       THEN call' = [call EXCEPT !.pc = "read", !.first[call.at] = now]
       ELSE Refuse
    /\ Working

\* mutant: what has been read is not looked at again.
ReadAny(before, after) == TRUE

\* After the copy the descriptor's file is what it was when it was opened.
ReadWhole(before, after) == before = after

\* The rest of the file is read from the same descriptor.
Read ==
    /\ call.pc = "read"
    /\ LET now == Stat(call.first[call.at].inode) IN
       IF ReadWhole(call.first[call.at], now)
       THEN call' = [call EXCEPT !.second[call.at] = now,
                                 !.at = After(call.at).at, !.pc = After(call.at).pc]
       ELSE Refuse
    /\ Working

Check ==
    /\ call.pc = "check"
    /\ IF ~DirectoryKept(call.at) THEN Refuse
       ELSE call' = [call EXCEPT !.at = @ + 1, !.pc = IF call.at = 2 THEN "packed" ELSE @]
    /\ Working

Next ==
    \/ Writes \/ Saves \/ MovesAside \/ MovesBack
    \/ Enter \/ List \/ Skip \/ Open \/ Read \/ Check

Spec == Init /\ [][Next]_vars

-----------------------------------------------------------------------------
(* Each packed file is one content the file had at some moment             *)
(* (_projects.py:112-135).                                                 *)
FilesWhole ==
    call.pc = "packed" =>
       \A f \in Files : call.listed[f] # Gone =>
          /\ call.first[f] = call.second[f]
          /\ \E m \in moments : m[f] = call.first[f]

(* A workspace's archive is the whole tree as it was at one moment of the  *)
(* call, whatever the user did meanwhile (_workspace_archive.py:113-147,   *)
(* 176-188, 218-234).                                                      *)
SnapshotOfAMoment == call.pc = "packed" /\ call.mode = "workspace" => call.first \in moments

=============================================================================
