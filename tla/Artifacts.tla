----------------------------- MODULE Artifacts -------------------------------
(***************************************************************************)
(* A large result on its way into the store of a run: put_blob and         *)
(* get_blob of nodus/agent_runtime.py (database storage) and put and get   *)
(* of nodus/_agent_artifacts.py (object storage).  An object is named by   *)
(* the hash of its bytes, so every session that replays the entrypoint     *)
(* uploads the same object and meets what earlier ones left of it: chunks  *)
(* accepted but not yet durable, an unfinished verification, requests      *)
(* applied after their answer was given up.                                *)
(***************************************************************************)
EXTENDS Integers, FiniteSets

CONSTANTS
    Chunks,         \* chunks of the object
    MaxSessions,    \* bound: sessions of the run
    MaxCalls        \* bound: uploads one session tries

ArtifactsAssumption ==
    Chunks \in Nat \ {0} /\ MaxSessions \in Nat \ {0} /\ MaxCalls \in Nat \ {0}

VARIABLES
    storage,   \* "object" or "database"
    epoch,     \* the newest session
    object,    \* [status, stored, pending]: the service's record
    put,       \* session -> its upload [phase, offset, failed, calls]
    get,       \* the reader [phase, at, intact]
    transit    \* requests given up by their session: <<session, action, offset>>

vars == <<storage, epoch, object, put, get, transit>>

Sessions == 1 .. MaxSessions
Actions  == {"begin", "put", "commit"}
Objects  == [status: {"absent", "uploading", "verifying", "committed"},
             stored: 0 .. Chunks, pending: BOOLEAN]

TypeOK ==
    /\ storage \in {"object", "database"} /\ epoch \in 0 .. MaxSessions /\ object \in Objects
    /\ put \in [Sessions -> [phase: {"none", "idle", "begin", "put", "confirm", "commit", "verify",
                                     "returned", "raised"},
                             offset: 0 .. Chunks, failed: BOOLEAN, calls: 0 .. MaxCalls]]
    /\ get \in [phase: {"reading", "returned", "raised"}, at: 0 .. Chunks, intact: BOOLEAN]
    /\ transit \subseteq Sessions \X Actions \X (0 .. Chunks)

Init ==
    /\ storage \in {"object", "database"} /\ epoch = 0 /\ transit = {}
    /\ object = [status |-> "absent", stored |-> 0, pending |-> FALSE]
    /\ put = [d \in Sessions |-> [phase |-> "none", offset |-> 0, failed |-> FALSE, calls |-> 0]]
    /\ get = [phase |-> "reading", at |-> 0, intact |-> TRUE]

-----------------------------------------------------------------------------
(* The store.                                                              *)

Accepts(o, offset) == o.status = "uploading" /\ ~o.pending /\ o.stored = offset

\* What a request may make of the record: a chunk is taken at the end of what
\* is there, durable at once or later; a commit waits for the last chunk.
Applied(o, action, offset) ==
    IF action = "begin"
    THEN {IF o.status = "absent" THEN [o EXCEPT !.status = "uploading"] ELSE o}
    ELSE IF action = "put"
    THEN IF ~Accepts(o, offset) THEN {o}
         ELSE {[o EXCEPT !.stored = o.stored + 1]} \cup
              (IF storage = "object" THEN {[o EXCEPT !.pending = TRUE]} ELSE {})
    ELSE IF o.status # "uploading" \/ o.pending \/ o.stored # Chunks THEN {o}
         ELSE {[o EXCEPT !.status = IF storage = "object" THEN "verifying" ELSE "committed"]}

Persist ==
    /\ object.pending
    /\ object' = [object EXCEPT !.pending = FALSE, !.stored = @ + 1]
    /\ UNCHANGED <<storage, epoch, put, get, transit>>

\* The bytes are read back and hashed; a failed verification starts again.
Verify ==
    /\ object.status = "verifying"
    /\ object' \in {[object EXCEPT !.status = "committed"],
                    [status |-> "uploading", stored |-> 0, pending |-> FALSE]}
    /\ UNCHANGED <<storage, epoch, put, get, transit>>

\* A request whose answer nobody waits for any more; another session's is refused.
ApplyLate(r) ==
    /\ transit' = transit \ {r}
    /\ object' \in IF r[1] = epoch THEN Applied(object, r[2], r[3]) ELSE {object}
    /\ UNCHANGED <<storage, epoch, put, get>>

-----------------------------------------------------------------------------
(* put.                                                                    *)

Open(d) ==
    /\ d = epoch + 1 /\ epoch' = d
    /\ put' = [put EXCEPT ![d].phase = "idle"]
    /\ UNCHANGED <<storage, object, get, transit>>

\* The entrypoint stores its result, again after an error if the session lives.
CallPut(d) ==
    /\ put[d].phase \in {"idle", "raised"} /\ put[d].calls < MaxCalls /\ ~put[d].failed
    /\ put' = [put EXCEPT ![d] =
          [put[d] EXCEPT !.phase = "begin", !.offset = 0, !.calls = put[d].calls + 1]]
    /\ UNCHANGED <<storage, epoch, object, get, transit>>

\* An unestablished outcome ends the session, but not that of a database blob.
Raised(p) == [p EXCEPT !.phase = "raised", !.failed = p.failed \/ storage = "object"]

\* mutant: an object whose bytes are all accepted counts as stored.
SettledWhenSent(o) == o.status \in {"verifying", "committed"}

Settled(o) == o.status = "committed"

\* The head of the loop over chunks, of object storage.
NextChunk(p, o) ==
    [p EXCEPT !.offset = o.stored,
              !.phase = IF o.status = "uploading" /\ o.stored < Chunks THEN "put"
                        ELSE IF Settled(o) THEN "returned" ELSE "commit"]

\* What the driver makes of a receipt, by the request it answers.
AfterBegin(p, o) ==
    IF storage = "object" THEN NextChunk(p, o)
    ELSE IF o.status = "committed" THEN [p EXCEPT !.phase = "returned"]
    ELSE [p EXCEPT !.phase = "put"]

\* The acknowledged offset: it may be behind the chunk just sent, never elsewhere.
AfterChunk(p, o) ==
    IF storage = "database"
    THEN IF o.status = "verifying" THEN Raised(p)
         ELSE [p EXCEPT !.offset = p.offset + 1,
                        !.phase = IF p.offset + 1 = Chunks THEN "commit" ELSE "put"]
    ELSE IF o.stored > p.offset THEN NextChunk(p, o)
    ELSE IF o.stored = p.offset /\ o.status = "uploading" THEN [p EXCEPT !.phase = "confirm"]
    ELSE Raised(p)

AfterCommit(p, o) ==
    IF Settled(o) THEN [p EXCEPT !.phase = "returned"]
    ELSE IF o.status = "verifying" THEN [p EXCEPT !.phase = "verify"]
    ELSE Raised(p)

Action(p) ==
    IF p.phase \in {"confirm", "verify"} THEN "begin" ELSE p.phase

After(p, o) ==
    CASE p.phase = "begin" -> AfterBegin(p, o)
      [] p.phase \in {"put", "confirm"} -> AfterChunk(p, o)
      [] p.phase \in {"commit", "verify"} -> AfterCommit(p, o)

Sends(d) == put[d].phase \in {"begin", "put", "confirm", "commit", "verify"} /\ ~put[d].failed

\* A request is answered, by the record it leaves behind.
Request(d) ==
    /\ Sends(d) /\ d = epoch
    /\ \E o \in Applied(object, Action(put[d]), put[d].offset) :
          /\ object' = o
          /\ put' = [put EXCEPT ![d] = After(put[d], o)]
    /\ UNCHANGED <<storage, epoch, get, transit>>

\* Refused, not answered in three attempts, not verifiable, or past the deadline.
GiveUp(d) ==
    /\ put[d].phase \in {"begin", "put", "confirm", "commit", "verify"}
    /\ put' = [put EXCEPT ![d] = Raised(put[d])]
    /\ transit' \in {transit, transit \cup {<<d, Action(put[d]), put[d].offset>>}}
    /\ UNCHANGED <<storage, epoch, object, get>>

-----------------------------------------------------------------------------
(* get, by a driver that has the reference.                                *)

HashAgrees(intact) == intact

\* A chunk of a committed object; its bytes may be damaged on the way.
ReadChunk ==
    /\ get.phase = "reading"
    /\ \E intact \in BOOLEAN :
          LET all == get.intact /\ intact IN
          get' = IF object.status # "committed" THEN [get EXCEPT !.phase = "raised"]
                 ELSE [at |-> get.at + 1, intact |-> all,
                       phase |-> IF get.at + 1 < Chunks THEN "reading"
                                 ELSE IF HashAgrees(all) THEN "returned" ELSE "raised"]
    /\ UNCHANGED <<storage, epoch, object, put, transit>>

Next ==
    \/ Persist \/ Verify \/ ReadChunk
    \/ \E r \in transit : ApplyLate(r)
    \/ \E d \in Sessions : Open(d) \/ CallPut(d) \/ Request(d) \/ GiveUp(d)

Spec == Init /\ [][Next]_vars

-----------------------------------------------------------------------------
(* A reference handed to the entrypoint names bytes that are stored,       *)
(* verified and stay so, whichever session brought which chunk, and the    *)
(* bytes it is read back as are those bytes: all chunks, undamaged         *)
(* (_agent_artifacts.py:92-125, 146-157; agent_runtime.py:43-92).          *)
CommittedIsGiven ==
    /\ (\E d \in Sessions : put[d].phase = "returned") =>
          object.status = "committed" /\ object.stored = Chunks
    /\ get.phase = "returned" => get.at = Chunks /\ get.intact
=============================================================================
