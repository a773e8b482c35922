----------------------------- MODULE Workspaces -----------------------------
(***************************************************************************)
(* Handles on one GPU workspace or standalone instance (_workspaces.py,    *)
(* _workspace_files.py); an instance has local disk only, no saved files.  *)
(* A handle keeps the last view it was shown and acts on it: it stops the  *)
(* session, replaces the file revision and extends the configuration that  *)
(* the view names.  Other handles, the schedule, the machine and the       *)
(* server's file verification change the workspace between any two         *)
(* requests, and a request may be applied without its answer, or long      *)
(* after its caller gave up.  The server is external (openapi.yaml).       *)
(***************************************************************************)
EXTENDS Naturals, FiniteSets

CONSTANTS Handles,       \* handles of one process or of several
          AsyncHandles,  \* those of an asynchronous client
          Fields,        \* configuration fields
          Segments,      \* segments of a project archive: 1..n, in order
          MaxCalls,      \* calls per handle
          MaxSessions,   \* compute sessions
          MaxRevisions,  \* revisions of the saved files, of the configuration
          MaxLost        \* requests whose answer is lost

ASSUME WorkspaceAssumption ==
    /\ AsyncHandles \subseteq Handles /\ Segments \subseteq Nat \ {0}
    /\ MaxCalls \in Nat /\ MaxSessions \in Nat
    /\ MaxRevisions \in Nat /\ MaxLost \in Nat

VARIABLES ws,      \* the workspace as the server has it
          handle,  \* per handle: where its call is, its view, its intent
          late,    \* requests under way whose caller has given up
          lost     \* answers lost so far

vars == <<ws, handle, late, lost>>


NoKey == <<>>
NoUpload == [id |-> NoKey, base |-> 0, seen |-> 0, stored |-> {}, phase |-> "none"]

\* mutant: an answer updates the revision and leaves the configuration as it was
ViewKeepsConfiguration(w) ==
    [state |-> w.state, session |-> w.session, files |-> w.files,
     cfg |-> [f \in Fields |-> 0], crev |-> w.crev, upload |-> w.upload.id]

\* What an answer tells; a handle absorbs all of it (_absorb).
View(w) == [state |-> w.state, session |-> w.session, files |-> w.files,
            cfg |-> w.cfg, crev |-> w.crev, upload |-> w.upload.id]

NoView == [state |-> "", session |-> 0, files |-> 0,
           cfg |-> [f \in Fields |-> 0], crev |-> 0, upload |-> NoKey]

Keys == Handles \X Nat
Configurations == [Fields -> {0, 1}]
States == {"stopped", "creating", "ready", "stopping", "failed", "deleted"}

Uploads == [id : Keys \cup {NoKey}, base : Nat, seen : Nat, stored : SUBSET Segments,
            phase : {"none", "uploading", "verifying"}]

WorkspaceStates ==
    [state : States, session : Nat, begun : Nat, instance : BOOLEAN,
     starts : SUBSET [key : Keys, intent : Keys, session : Nat], files : Nat,
     saved : BOOLEAN, upload : Uploads, wake : BOOLEAN, committed : SUBSET Keys,
     abandoned : SUBSET Keys, cfg : Configurations, crev : Nat, named : SUBSET Fields]

Views == [state : States \cup {""}, session : Nat, files : Nat,
          cfg : Configurations, crev : Nat, upload : Keys \cup {NoKey}]

HandleStates ==
    [pc : {"idle", "stop", "stopped", "ready", "stopping", "begin", "put", "verify",
           "interrupted", "erase"},
     view : Views, calls : Nat, deleted : BOOLEAN, intent : Keys \cup {NoKey},
     key : Keys \cup {NoKey}, skip : SUBSET Segments, offered : Nat, began : Nat]

Requests ==
    [op : {"start"}, key : Keys, intent : Keys] \cup [op : {"stop"}, session : Nat]
    \cup [op : {"configure"}, rev : Nat, field : Fields, cfg : Configurations]
    \cup [op : {"begin"}, key : Keys, seen : Nat, base : Nat]
    \cup [op : {"put"}, key : Keys, index : Segments] \cup [op : {"finalize"}, key : Keys]
    \cup [op : {"erase"}, base : Nat] \cup [op : {"delete"}] \cup [op : {"wake"}, on : BOOLEAN]

\* Type invariant.
TypeOK ==
    /\ ws \in WorkspaceStates
    /\ handle \in [Handles -> HandleStates]
    /\ late \subseteq Requests
    /\ lost \in Nat

Init ==
    /\ \E instance \in BOOLEAN :
          ws = [state |-> "stopped", session |-> 0, begun |-> 0, instance |-> instance,
             starts |-> {}, files |-> 0, saved |-> FALSE, upload |-> NoUpload, wake |-> FALSE,
             committed |-> {}, abandoned |-> {},
             cfg |-> [f \in Fields |-> 0], crev |-> 1, named |-> {}]
    /\ handle = [h \in Handles |->
                   [pc |-> "idle", view |-> NoView, calls |-> 0, deleted |-> FALSE,
                    intent |-> NoKey, key |-> NoKey, skip |-> {},
                    offered |-> 0, began |-> 0]]
    /\ late = {}
    /\ lost = 0

--------------------------------------------------------------------------------
(* The server. *)

Active == ws.state \in {"creating", "ready"}
Idle == ws.state \in {"stopped", "failed"}
Replaceable(base) == base = ws.files \/ (base = 0 /\ ~ws.saved)
Known(key) == key \in {ws.upload.id} \cup ws.committed \cup ws.abandoned
Started(key) == \E s \in ws.starts : s.key = key

\* A start that begins nothing: compute runs already, or the key is known.  Only
\* an instance's start is replayed by its key (_compute.py:226).
NothingToStart(key) == Active \/ (ws.instance /\ Started(key))

\* The requests the server accepts, one kind per operation that changes something.
Accepts(r) ==
    /\ ws.state # "deleted"
    /\ CASE r.op = "start"     -> NothingToStart(r.key) \/ (Idle /\ ws.begun < MaxSessions)
         [] r.op = "configure" -> \/ r.cfg = ws.cfg
                                  \/ /\ r.rev = ws.crev /\ ws.crev < MaxRevisions
                                     /\ Idle /\ ws.upload = NoUpload
         [] r.op = "begin"     -> \/ Known(r.key)
                                  \/ /\ ~ws.instance
                                     /\ Replaceable(r.base) /\ ws.files < MaxRevisions
                                     /\ Idle /\ ws.upload = NoUpload
         [] r.op \in {"put", "finalize"} ->
                                  ws.upload.id = r.key /\ ws.upload.phase = "uploading"
         [] r.op = "erase"     -> /\ ws.saved /\ r.base = ws.files /\ ws.files < MaxRevisions
                                  /\ Idle /\ ws.upload = NoUpload
         [] r.op = "delete"    -> Idle /\ ws.upload = NoUpload
         [] r.op \in {"stop", "wake"} -> TRUE

\* What an accepted request makes of the workspace.
Applied(r) ==
    CASE r.op = "start" /\ NothingToStart(r.key) -> ws
      [] r.op = "start" /\ ~NothingToStart(r.key) ->
           [ws EXCEPT !.state = "creating", !.begun = @ + 1,
                      !.starts = @ \cup {[key |-> r.key, intent |-> r.intent,
                                           session |-> ws.begun + 1]}]
      [] r.op = "stop" ->
           IF Active /\ ws.session = r.session THEN [ws EXCEPT !.state = "stopping"] ELSE ws
      [] r.op = "configure" ->
           IF r.cfg = ws.cfg THEN ws
           ELSE [ws EXCEPT !.cfg = r.cfg, !.crev = @ + 1, !.named = {r.field}]
      [] r.op = "begin" ->
           IF Known(r.key) THEN ws
           ELSE [ws EXCEPT !.upload = [id |-> r.key, base |-> r.base, seen |-> r.seen,
                                       stored |-> {}, phase |-> "uploading"]]
      [] r.op = "put" -> [ws EXCEPT !.upload.stored = @ \cup {r.index}]
      [] r.op = "finalize" -> [ws EXCEPT !.upload.phase = "verifying"]
      [] r.op = "erase" -> [ws EXCEPT !.saved = FALSE, !.files = @ + 1]
      [] r.op = "delete" -> [ws EXCEPT !.state = "deleted"]
      [] r.op = "wake" -> [ws EXCEPT !.wake = r.on]

\* A started session becomes available, and then ready.
Provision ==
    /\ ws.state = "creating"
    /\ ws' = IF ws.session = 0 THEN [ws EXCEPT !.session = ws.begun]
                               ELSE [ws EXCEPT !.state = "ready"]

\* The schedule starts compute by itself.
ScheduledStart ==
    /\ ws.wake /\ Idle /\ ws.begun < MaxSessions
    /\ ws' = [ws EXCEPT !.state = "creating", !.begun = @ + 1, !.wake = FALSE]

\* A stopping session saves the project, which an instance does not have, and
\* releases compute.
Release ==
    /\ ws.state = "stopping"
    /\ \/ /\ ~ws.instance /\ ws.files < MaxRevisions
          /\ ws' = [ws EXCEPT !.state = "stopped", !.session = 0,
                              !.files = @ + 1, !.saved = TRUE]
       \/ /\ ws.instance
          /\ ws' = [ws EXCEPT !.state = "stopped", !.session = 0]

SessionFails ==
    /\ Active \/ ws.state = "stopping"
    /\ ws' = [ws EXCEPT !.state = "failed", !.session = 0]

\* A finalized upload is published if it is whole and its base is still current.
Publish ==
    /\ ws.upload.phase = "verifying" /\ ws.upload.stored = Segments
    /\ Replaceable(ws.upload.base)
    /\ ws' = [ws EXCEPT !.upload = NoUpload, !.files = @ + 1, !.saved = TRUE,
                        !.committed = @ \cup {ws.upload.id}]

\* An upload is found unacceptable, or discarded from a browser.
Discard ==
    /\ ws.upload # NoUpload
    /\ ws' = [ws EXCEPT !.upload = NoUpload, !.abandoned = @ \cup {ws.upload.id}]

ServerStep ==
    /\ Provision \/ ScheduledStart \/ Release \/ SessionFails \/ Publish \/ Discard
    /\ UNCHANGED <<handle, late, lost>>

\* A request is applied although its caller has given up on it.
Arrive(r) ==
    /\ Accepts(r)
    /\ ws' = Applied(r)
    /\ late' = late \ {r}
    /\ UNCHANGED <<handle, lost>>

--------------------------------------------------------------------------------
(* One request of a handle. *)

Raised(s) == [s EXCEPT !.pc = "idle", !.intent = NoKey, !.key = NoKey,
                       !.skip = {}, !.offered = 0, !.began = 0]

\* An attempt of a request is not answered.
Unanswered(r) ==
    /\ lost < MaxLost
    /\ lost' = lost + 1
    /\ late' = late \cup {r}

\* Answered at once, or after an attempt without an answer, which may still
\* arrive; or no attempt is answered.  An answer may be a refusal; one that comes
\* after an unanswered attempt may be for the rate of the requests alone.
Ask(h, r, answered, unanswered) ==
    \/ /\ Accepts(r)
       /\ ws' = Applied(r)
       /\ handle' = [handle EXCEPT ![h] = answered]
       /\ (UNCHANGED <<late, lost>> \/ Unanswered(r))
    \/ /\ ~Accepts(r)
       /\ handle' = [handle EXCEPT ![h] = Raised(unanswered)]
       /\ UNCHANGED <<ws, late, lost>>
    \/ /\ Unanswered(r)
       /\ \E s \in {unanswered, Raised(unanswered)} : handle' = [handle EXCEPT ![h] = s]
       /\ UNCHANGED ws

\* mutant: the error does not carry the key, so a retry is a new request
ErrorWithoutKey(s, key) == [s EXCEPT !.pc = "idle"]

\* A failure of unknown outcome carries the key (_uncertain, _with_key).
WithKey(s, key) == [s EXCEPT !.pc = "idle", !.key = key]

Interrupted(s) == [s EXCEPT !.pc = "interrupted"]

\* What the answer to a begun transfer tells the uploader (_transfer): which
\* segments to skip, that there is nothing left to send, or that it is not active.
Transfer(s, w) ==
    IF s.key \in w.abandoned THEN Raised(s)
    ELSE [s EXCEPT !.pc = IF w.upload.id = s.key /\ w.upload.phase = "uploading"
                          THEN "put" ELSE "verify",
                   !.skip = w.upload.stored]

\* A new call: the handle is free, and the workspace was not deleted through it.
Enter(h) ==
    /\ handle[h].pc = "idle" /\ ~handle[h].deleted
    /\ handle[h].calls < MaxCalls

Fresh(h) == <<h, handle[h].calls>>
Called(h) == [handle[h] EXCEPT !.calls = @ + 1, !.intent = NoKey, !.key = NoKey,
                               !.offered = 0, !.began = 0]

\* mutant: a call trusts the view the handle already has
Unrefreshed(s) == s

\* refresh() reads all of it again.
Refreshed(s) == [s EXCEPT !.view = View(ws)]

\* A call that reads first ends there when the workspace is gone.
Reads(h) == Enter(h) /\ ws.state # "deleted"
Goes(h, s) == handle' = [handle EXCEPT ![h] = s] /\ UNCHANGED <<ws, late, lost>>

\* start(): a new intent, or again the one whose outcome is unknown, with the
\* key its error carried.
Start(h) ==
    /\ Enter(h)
    /\ \E again \in {FALSE, handle[h].intent # NoKey} :
         LET intent == IF again THEN handle[h].intent ELSE Fresh(h)
             key == IF again /\ handle[h].key # NoKey THEN handle[h].key ELSE Fresh(h)
             r == [op |-> "start", key |-> key, intent |-> intent]
         IN  Ask(h, r, [Called(h) EXCEPT !.view = View(Applied(r))],
                 WithKey([Called(h) EXCEPT !.intent = intent], key))

\* stop(): read; without a session there is nothing to stop.
Stop(h) ==
    /\ Reads(h)
    /\ LET s == [Refreshed(Called(h)) EXCEPT !.offered = ws.session,
                                             !.began = IF Active THEN ws.begun ELSE 0]
       IN  Goes(h, [s EXCEPT !.pc = IF s.view.session = 0 THEN "stopped" ELSE "stop"])

\* ... else ask for the end of the session that was read.
StopSession(h) ==
    /\ handle[h].pc = "stop"
    /\ LET r == [op |-> "stop", session |-> handle[h].view.session]
       IN  Ask(h, r, [handle[h] EXCEPT !.pc = "stopped", !.view = View(Applied(r))],
               Raised(handle[h]))

Return(h) ==
    /\ handle[h].pc = "stopped"
    /\ Goes(h, Raised(handle[h]))

\* wait_until_ready(), wait_until_stopped(): read until the state decides or the
\* deadline has passed.
WaitUntil(h, goal, over) ==
    /\ \/ Reads(h)
       \/ handle[h].pc = goal /\ ws.state # "deleted"
    /\ \E deadline \in BOOLEAN :
         Goes(h, [Refreshed(IF handle[h].pc = goal THEN handle[h] ELSE Called(h))
                    EXCEPT !.pc = IF ws.state \in over \/ deadline THEN "idle" ELSE goal])

WaitReady(h) == WaitUntil(h, "ready", {"ready", "stopped", "failed", "stopping"})
WaitStopped(h) == WaitUntil(h, "stopping", {"stopped", "failed"})

\* The whole configuration of the view with one field changed, under the view's
\* revision (_configure_body).
Body(v, f) == [op |-> "configure", rev |-> v.crev, field |-> f,
               cfg |-> [v.cfg EXCEPT ![f] = 1 - @]]

\* configure(): the view's configuration with one field changed.  It reads only
\* if the handle has no revision yet.
Configure(h, f) ==
    /\ Reads(h)
    /\ LET s == IF handle[h].view.crev = 0 THEN Refreshed(Called(h)) ELSE Called(h)
           r == Body(s.view, f)
       IN  Ask(h, r, [s EXCEPT !.view = View(Applied(r))], Raised(s))

\* schedule() and unschedule().
Schedule(h, on) ==
    /\ Enter(h)
    /\ LET r == [op |-> "wake", on |-> on] IN Ask(h, r, Called(h), Raised(Called(h)))

Confirmed(s) == [s EXCEPT !.deleted = TRUE]

\* delete(): once confirmed, the handle refuses every further call.
Delete(h) ==
    /\ Enter(h)
    /\ Ask(h, [op |-> "delete"], Confirmed(Called(h)), Raised(Called(h)))

--------------------------------------------------------------------------------
(* Files. *)

\* mutant: the revision is read again just before it is used
NewestRevision(v) == ws.files

\* The revision a replacement or an erasure names.
ReplaceRevision(v) == v.files

\* upload(): read; refused unless compute is stopped and no upload is pending.
Upload(h) ==
    /\ Reads(h)
    /\ LET s == Refreshed(Called(h))
       IN  /\ s.view.state = "stopped" /\ s.view.upload = NoKey
           /\ Goes(h, [s EXCEPT !.pc = "begin", !.key = Fresh(h), !.skip = {}])

\* Begin the transfer.  The answer lists the segments the server already has.
Begin(h) ==
    /\ handle[h].pc = "begin"
    /\ LET r == [op |-> "begin", key |-> handle[h].key, seen |-> handle[h].view.files,
                 base |-> ReplaceRevision(handle[h].view)]
       IN  Ask(h, r, Transfer(handle[h], Applied(r)), Interrupted(handle[h]))

\* mutant: a segment that was not acknowledged counts as sent
PutUnchecked(h) ==
    /\ handle[h].pc = "put" /\ Segments # handle[h].skip
    /\ \E next \in Segments \ handle[h].skip :
          /\ \A i \in Segments \ handle[h].skip : next <= i
          /\ LET s == [handle[h] EXCEPT !.skip = @ \cup {next}]
             IN  Ask(h, [op |-> "put", key |-> handle[h].key, index |-> next], s, s)

\* The first segment the server does not have; all others are skipped.
Put(h) ==
    /\ handle[h].pc = "put" /\ Segments # handle[h].skip
    /\ \E next \in Segments \ handle[h].skip :
          /\ \A i \in Segments \ handle[h].skip : next <= i
          /\ Ask(h, [op |-> "put", key |-> handle[h].key, index |-> next],
                 [handle[h] EXCEPT !.skip = @ \cup {next}], Interrupted(handle[h]))

Finalize(h) ==
    /\ handle[h].pc = "put" /\ Segments = handle[h].skip
    /\ Ask(h, [op |-> "finalize", key |-> handle[h].key],
           [handle[h] EXCEPT !.pc = "verify"], Interrupted(handle[h]))

\* The upload returns when no upload is pending any more, or at its deadline.
AwaitVerified(h) ==
    /\ handle[h].pc = "verify" /\ ws.state # "deleted"
    /\ \E deadline \in BOOLEAN :
         Goes(h, LET s == Refreshed(handle[h])
                 IN  IF s.view.upload = NoKey \/ deadline THEN Raised(s) ELSE s)

\* upload_files() again with the key, the directory and the revision of an
\* interrupted upload; or the application leaves it.
Retry(h) ==
    /\ handle[h].pc = "interrupted"
    /\ \/ /\ handle[h].calls < MaxCalls
          /\ Goes(h, [handle[h] EXCEPT !.pc = "begin", !.calls = @ + 1])
       \/ Goes(h, Raised(handle[h]))

\* delete_files(): read, then erase the revision that was read.
DeleteFiles(h) ==
    /\ Reads(h)
    /\ Goes(h, [Refreshed(Called(h)) EXCEPT !.pc = "erase"])

EraseFiles(h) ==
    /\ handle[h].pc = "erase"
    /\ LET r == [op |-> "erase", base |-> handle[h].view.files]
       IN  Ask(h, r, Raised(handle[h]), Raised(handle[h]))

\* A call that polls finds the workspace gone.
Missing(h) ==
    /\ ws.state = "deleted" /\ handle[h].pc \in {"ready", "stopping", "verify"}
    /\ Goes(h, Raised(handle[h]))

\* The methods of an asynchronous handle are the same, with an await at every
\* request and sleep, where its task can be cancelled: the call ends there.
TaskCancelled(h) ==
    /\ h \in AsyncHandles /\ handle[h].pc \notin {"idle", "stopped"}
    /\ Goes(h, Raised(handle[h]))

--------------------------------------------------------------------------------
HandleStep(h) ==
    \/ Start(h) \/ Stop(h) \/ StopSession(h) \/ Return(h)
    \/ WaitReady(h) \/ WaitStopped(h)
    \/ \E f \in Fields : Configure(h, f)
    \/ \E on \in BOOLEAN : Schedule(h, on)
    \/ Delete(h) \/ DeleteFiles(h) \/ EraseFiles(h) \/ Missing(h)
    \/ Upload(h) \/ Begin(h) \/ Put(h) \/ Finalize(h) \/ AwaitVerified(h) \/ Retry(h)
    \/ TaskCancelled(h)

Next == ServerStep \/ (\E r \in late : Arrive(r)) \/ (\E h \in Handles : HandleStep(h))

Spec == Init /\ [][Next]_vars

--------------------------------------------------------------------------------
\* stop() does what it says to the session there was to stop: when it returns
\* without an error, the session that was available when it was called is
\* stopping or over, whatever other handles did in between.
StopEndsSession ==
    \A h \in Handles :
        handle[h].pc = "stopped" /\ handle[h].offered # 0
            => ~(Active /\ ws.session = handle[h].offered)

\* "Compute keeps running. Call wait_until_ready again or stop() to release it"
\* (_start_pending): when stop() returns without an error, the compute that was
\* requested before the call, available or not, no longer runs.
StopReleases ==
    \A h \in Handles :
        handle[h].pc = "stopped" /\ handle[h].began # 0
            => ~(Active /\ ws.begun = handle[h].began)

\* One logical start, repeated after its outcome was unknown, is one request: all
\* it begins is begun under one key.  So it rents an instance once; a workspace
\* with files, whose start the server does not replay, once more if a repetition
\* or a late attempt arrives when the session is over.  A start that was refused
\* is over, also when an earlier attempt of it was not answered: its error says
\* nothing of a key (_uncertain, _with_key).
OneSessionPerIntent ==
    \A s, t \in ws.starts :
        s.intent = t.intent => s.key = t.key /\ (ws.instance => s = t)

\* Saved files are replaced only by an upload whose caller had seen exactly the
\* revision that is replaced: what a session or another upload saved since the
\* check that compute is stopped is never overwritten.
NoFilesOverwritten ==
    [][ ws.saved /\ ws'.files # ws.files /\ ws.upload # NoUpload /\ ws'.upload = NoUpload
            => ws.upload.seen = ws.files ]_vars

\* A new configuration differs from the one it replaces only in the fields its
\* caller named: a change made through another handle is never undone.
NoChangeUndone ==
    [][ \A f \in Fields : ws'.cfg[f] # ws.cfg[f] => f \in ws'.named ]_vars

\* A transfer is finalized only when the server has every segment, also when it
\* was interrupted and begun again.
FinalizedWhole == ws.upload.phase = "verifying" => ws.upload.stored = Segments
=============================================================================
