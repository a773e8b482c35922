-------------------------- MODULE Workspaces_proofs --------------------------
(***************************************************************************)
(* What holds of Workspaces for any number of handles, calls, sessions,    *)
(* revisions and lost answers: stop() ends the session there was, what a   *)
(* start begins is begun under one key, uploads are finalized whole, saved files are only   *)
(* replaced by who has seen them, and no configuration change is undone.   *)
(***************************************************************************)
EXTENDS Workspaces, TLAPS

-----------------------------------------------------------------------------
(* The inductive invariant: of the workspace itself, of every request that *)
(* may still arrive, and of what every handle remembers.                   *)

\* Every start was asked for under the key of its intent, and an instance's
\* began one session.
GoodStarts ==
    /\ \A s \in ws.starts : s.key = s.intent
    /\ ws.instance => \A s, t \in ws.starts : s.key = t.key => s = t

\* A session is known by its number once it is available.
GoodCompute ==
    /\ Idle \/ ws.state = "deleted" => ws.session = 0
    /\ ws.state \in {"ready", "stopping"} => ws.session = ws.begun
    /\ ws.state = "creating" => ws.session \in {0, ws.begun}
    /\ Active => ws.begun > 0
    /\ GoodStarts

\* An upload has a key, names the revision its caller has seen, and is
\* finalized whole.
GoodFiles ==
    /\ ws.upload = NoUpload \/ ws.upload.id \in Keys
    /\ ws.upload.seen = ws.upload.base
    /\ FinalizedWhole

GoodWorkspace == GoodCompute /\ GoodFiles /\ ws.crev > 0

\* A start has the key of its intent; a configuration differs only in its
\* field from the one whose revision it names; a transfer names what its
\* caller has seen, and is finalized when all of it is stored.
GoodRequest(r) ==
    /\ r.op = "start" => r.key = r.intent
    /\ r.op = "stop" => r.session # 0
    /\ r.op = "configure" =>
          /\ r.rev <= ws.crev
          /\ r.rev = ws.crev => \A f \in Fields \ {r.field} : r.cfg[f] = ws.cfg[f]
    /\ r.op = "begin" => r.seen = r.base
    /\ r.op = "finalize" =>
          /\ Known(r.key)
          /\ ws.upload.id = r.key => ws.upload.stored = Segments

\* Session n was available at some time, if n is not 0.
Available(n) ==
    /\ n <= ws.begun
    /\ ws.state = "creating" /\ ws.session = 0 => n < ws.begun

\* A handle: an intent is repeated under its key, the view is the
\* configuration of its revision, skipped segments are stored, and the
\* session that stop() was to end is the one it asked about, and then over.
GoodHandle(s) ==
    /\ s.intent # NoKey => s.key = s.intent
    /\ s.pc \in {"begin", "put", "verify", "interrupted"} => s.key # NoKey
    /\ s.pc = "put" => /\ Known(s.key)
                       /\ ws.upload.id = s.key => s.skip \subseteq ws.upload.stored
    /\ s.view.crev <= ws.crev /\ (s.view.crev = ws.crev => s.view.cfg = ws.cfg)
    /\ Available(s.offered)
    /\ s.pc = "stop" => s.view.session = s.offered /\ s.offered # 0
    /\ s.pc = "stopped" /\ s.offered # 0 => (s.offered = ws.begun => ~Active)

WorkspacesInv ==
    /\ TypeOK /\ GoodWorkspace
    /\ \A r \in late : GoodRequest(r)
    /\ \A h \in Handles : GoodHandle(handle[h])

-----------------------------------------------------------------------------
(* What every step of the workspace does to what others remember of it.    *)

\* Sessions are numbered upwards; compute runs again only as a new one.
ComputeOnward ==
    /\ ws'.begun >= ws.begun /\ (ws'.begun = ws.begun /\ Active' => Active)
    /\ ws'.state = "creating" /\ ws'.session = 0 =>
          ws'.begun > ws.begun \/ (ws.state = "creating" /\ ws.session = 0)

\* A key once used is not used for another upload, and segments stay stored.
FilesOnward ==
    \A k \in Keys : Known(k) =>
        /\ Known(k)'
        /\ ws'.upload.id = k => ws.upload.id = k /\ ws.upload.stored \subseteq ws'.upload.stored

\* A configuration is replaced under a new revision.
ConfigurationOnward ==
    ws'.crev >= ws.crev /\ (ws'.crev = ws.crev => ws'.cfg = ws.cfg)

\* The action properties, of one step.
FilesSeen ==
    ws.saved /\ ws'.files # ws.files /\ ws.upload # NoUpload /\ ws'.upload = NoUpload
        => ws.upload.seen = ws.files
FieldsNamed == \A f \in Fields : ws'.cfg[f] # ws.cfg[f] => f \in ws'.named

ComputeSound       == GoodCompute' /\ ComputeOnward
FilesSound         == GoodFiles' /\ FilesOnward /\ FilesSeen
ConfigurationSound == ws'.crev > 0 /\ ConfigurationOnward /\ FieldsNamed

Sound == ws' \in WorkspaceStates /\ ComputeSound /\ FilesSound /\ ConfigurationSound

-----------------------------------------------------------------------------
(* Types.                                                                  *)

\* There is no key like NoKey.
LEMMA NoKeyIsNone == NoKey \notin Keys
BY DEF NoKey, Keys

\* The fields of a request.
LEMMA RequestFields ==
    ASSUME NEW r \in Requests
    PROVE  /\ r.op \in {"start", "stop", "configure", "begin", "put", "finalize", "erase",
                        "delete", "wake"}
           /\ r.op = "start" => r \in [op : {"start"}, key : Keys, intent : Keys]
           /\ r.op = "stop" => r.session \in Nat
           /\ r.op = "configure" =>
                 r.rev \in Nat /\ r.field \in Fields /\ r.cfg \in Configurations
           /\ r.op = "begin" => r.key \in Keys /\ r.seen \in Nat /\ r.base \in Nat
           /\ r.op = "put" => r.key \in Keys /\ r.index \in Segments
           /\ r.op = "finalize" => r.key \in Keys
           /\ r.op = "erase" => r.base \in Nat
           /\ r.op = "wake" => r.on \in BOOLEAN
BY DEF Requests

\* The fields of the workspace.
LEMMA WorkspaceFields ==
    ASSUME ws \in WorkspaceStates
    PROVE  /\ ws.state \in States /\ ws.session \in Nat /\ ws.begun \in Nat
           /\ ws.files \in Nat /\ ws.crev \in Nat /\ ws.cfg \in Configurations
           /\ ws.upload \in Uploads
           /\ ws.upload.id \in Keys \cup {NoKey} /\ ws.upload.stored \subseteq Segments
           /\ ws.upload.phase \in {"none", "uploading", "verifying"}
           /\ ws.upload.base \in Nat /\ ws.upload.seen \in Nat
BY DEF WorkspaceStates, Uploads

\* What steps make of a workspace is one.
LEMMA ComputeTypes ==
    ASSUME ws \in WorkspaceStates, NEW n \in Nat, NEW state \in States
    PROVE  /\ [ws EXCEPT !.state = state] \in WorkspaceStates
           /\ [ws EXCEPT !.session = n] \in WorkspaceStates
           /\ [ws EXCEPT !.state = state, !.session = n] \in WorkspaceStates
           /\ \A T \in SUBSET [key : Keys, intent : Keys, session : Nat] :
                 [ws EXCEPT !.state = state, !.begun = n, !.starts = T] \in WorkspaceStates
           /\ \A b \in BOOLEAN :
                 [ws EXCEPT !.state = state, !.begun = n, !.wake = b] \in WorkspaceStates
           /\ \A m \in Nat, b \in BOOLEAN :
                 [ws EXCEPT !.state = state, !.session = n, !.files = m, !.saved = b]
                    \in WorkspaceStates
           /\ \A b \in BOOLEAN : [ws EXCEPT !.wake = b] \in WorkspaceStates
BY DEF WorkspaceStates

\* The same of uploads.
LEMMA UploadTypes ==
    ASSUME ws \in WorkspaceStates, NEW u \in Uploads
    PROVE  /\ [ws EXCEPT !.upload = u] \in WorkspaceStates
           /\ \A C \in SUBSET Keys :
                 [ws EXCEPT !.upload = u, !.abandoned = C] \in WorkspaceStates
           /\ \A C \in SUBSET Keys, n \in Nat, b \in BOOLEAN :
                 [ws EXCEPT !.upload = u, !.files = n, !.saved = b, !.committed = C]
                    \in WorkspaceStates
BY DEF WorkspaceStates

\* The same of erased files.
LEMMA EraseTypes ==
    ASSUME ws \in WorkspaceStates, NEW n \in Nat, NEW b \in BOOLEAN
    PROVE  [ws EXCEPT !.saved = b, !.files = n] \in WorkspaceStates
BY DEF WorkspaceStates

\* The same of configurations.
LEMMA ConfigurationTypes ==
    ASSUME ws \in WorkspaceStates, NEW c \in Configurations, NEW n \in Nat,
           NEW F \in SUBSET Fields
    PROVE  [ws EXCEPT !.cfg = c, !.crev = n, !.named = F] \in WorkspaceStates
BY DEF WorkspaceStates

-----------------------------------------------------------------------------
(* Steps of the workspace, by the part they change.                        *)

\* A step that leaves compute as it is.
LEMMA ComputeSame ==
    ASSUME ws \in WorkspaceStates, GoodCompute, ws'.state = ws.state,
           ws'.session = ws.session, ws'.begun = ws.begun, ws'.starts = ws.starts,
           ws'.instance = ws.instance
    PROVE  ComputeSound
<1>1. GoodStarts'
  BY DEF GoodCompute, GoodStarts
<1>2. QED
  BY <1>1, WorkspaceFields DEF ComputeSound, GoodCompute, ComputeOnward, Active, Idle

\* A step that leaves the upload and the keys as they are, and perhaps
\* replaces the files.
LEMMA FilesSame ==
    ASSUME ws \in WorkspaceStates, GoodFiles, ws'.upload = ws.upload,
           ws'.committed = ws.committed, ws'.abandoned = ws.abandoned
    PROVE  FilesSound
BY WorkspaceFields DEF FilesSound, GoodFiles, FinalizedWhole, FilesOnward, FilesSeen, Known

\* A step that leaves the configuration as it is.
LEMMA ConfigurationSame ==
    ASSUME ws \in WorkspaceStates, ws.crev > 0, ws'.crev = ws.crev, ws'.cfg = ws.cfg
    PROVE  ConfigurationSound
BY WorkspaceFields DEF ConfigurationSound, ConfigurationOnward, FieldsNamed

\* Nothing happens.
LEMMA SameSound ==
    ASSUME ws \in WorkspaceStates, GoodWorkspace, ws' = ws
    PROVE  Sound
BY ComputeSame, FilesSame, ConfigurationSame DEF Sound, GoodWorkspace

\* Compute begins, is provisioned, stops, fails or goes with the workspace.
LEMMA ComputeSteps ==
    ASSUME ws \in WorkspaceStates, GoodWorkspace,
           ws'.upload = ws.upload, ws'.committed = ws.committed, ws'.abandoned = ws.abandoned,
           ws'.crev = ws.crev, ws'.cfg = ws.cfg,
           (ws'.starts = ws.starts /\ ws'.instance = ws.instance) \/ GoodStarts',
           \/ /\ Idle /\ ws'.state = "creating" /\ ws'.begun = ws.begun + 1
              /\ ws'.session = ws.session
           \/ /\ Idle /\ ws'.state = "deleted" /\ ws'.begun = ws.begun
              /\ ws'.session = ws.session
           \/ /\ ws.state = "creating" /\ ws.session = 0 /\ ws'.state = "creating"
              /\ ws'.begun = ws.begun /\ ws'.session = ws.begun
           \/ /\ ws.state = "creating" /\ ws.session # 0 /\ ws'.state = "ready"
              /\ ws'.begun = ws.begun /\ ws'.session = ws.session
           \/ /\ Active /\ ws.session # 0 /\ ws'.state = "stopping"
              /\ ws'.begun = ws.begun /\ ws'.session = ws.session
           \/ /\ ws'.state \in {"stopped", "failed"} /\ ws'.session = 0
              /\ ws'.begun = ws.begun
    PROVE  ComputeSound /\ FilesSound /\ ConfigurationSound
<1>1. FilesSound /\ ConfigurationSound
  BY FilesSame, ConfigurationSame DEF GoodWorkspace
<1>2. ws.begun \in Nat /\ ws.session \in Nat /\ ws.state \in States
  BY WorkspaceFields
<1>3. GoodCompute
  BY DEF GoodWorkspace
<1>4. GoodStarts'
  BY <1>3 DEF GoodCompute, GoodStarts
<1>5. ComputeSound
  BY <1>2, <1>3, <1>4
     DEF ComputeSound, ComputeOnward, GoodCompute, Active, Idle, States
<1>6. QED
  BY <1>1, <1>5

\* No upload is a value of that field.
LEMMA NoUploadType == NoUpload \in Uploads
BY DEF NoUpload, Uploads

\* An upload is over, and its key is used up.
LEMMA UploadOver ==
    ASSUME ws'.upload = NoUpload,
           ws'.committed \cup ws'.abandoned = ws.committed \cup ws.abandoned \cup {ws.upload.id}
    PROVE  GoodFiles' /\ FilesOnward
<1>1. ws'.upload.id = NoKey /\ ws'.upload.phase = "none" /\ ws'.upload.seen = ws'.upload.base
  BY DEF NoUpload
<1>2. GoodFiles'
  BY <1>1 DEF GoodFiles, FinalizedWhole
<1>3. ASSUME NEW k \in Keys, Known(k)
      PROVE  Known(k)' /\ ws'.upload.id # k
  BY <1>1, <1>3, NoKeyIsNone DEF Known
<1>4. QED
  BY <1>2, <1>3 DEF FilesOnward

\* The server by itself.
LEMMA ServerSound ==
    ASSUME ws \in WorkspaceStates, GoodWorkspace, ServerStep
    PROVE  Sound
<1>1. /\ ws.begun \in Nat /\ ws.session \in Nat /\ ws.files \in Nat /\ ws.state \in States
      /\ ws.upload \in Uploads /\ ws.begun + 1 \in Nat /\ ws.files + 1 \in Nat
  BY WorkspaceFields
<1>2. TRUE \in BOOLEAN /\ FALSE \in BOOLEAN
  OBVIOUS
<1>3. CASE Provision
  <2>1. \/ ws.session = 0 /\ ws' = [ws EXCEPT !.session = ws.begun]
        \/ ws.session # 0 /\ ws' = [ws EXCEPT !.state = "ready"]
    BY <1>3 DEF Provision
  <2>2. ws' \in WorkspaceStates
    BY <1>1, <2>1, ComputeTypes DEF States
  <2>3. ComputeSound /\ FilesSound /\ ConfigurationSound
    BY <1>3, <2>1, ComputeSteps DEF Provision, WorkspaceStates
  <2>4. QED
    BY <2>2, <2>3 DEF Sound
<1>4. CASE ScheduledStart
  <2>1. Idle /\ ws' = [ws EXCEPT !.state = "creating", !.begun = ws.begun + 1, !.wake = FALSE]
    BY <1>4 DEF ScheduledStart
  <2>2. ws' \in WorkspaceStates
    <3>1. "creating" \in States
      BY DEF States
    <3>2. \A b \in BOOLEAN :
             [ws EXCEPT !.state = "creating", !.begun = ws.begun + 1, !.wake = b]
                \in WorkspaceStates
      BY <1>1, <3>1, ComputeTypes
    <3>3. QED
      BY <1>2, <2>1, <3>2, Zenon
  <2>3. ComputeSound /\ FilesSound /\ ConfigurationSound
    BY <2>1, ComputeSteps DEF WorkspaceStates
  <2>4. QED
    BY <2>2, <2>3 DEF Sound
<1>5. CASE Release
  <2>1. \/ ws' = [ws EXCEPT !.state = "stopped", !.session = 0, !.files = ws.files + 1,
                            !.saved = TRUE]
        \/ ws' = [ws EXCEPT !.state = "stopped", !.session = 0]
    BY <1>5 DEF Release
  <2>2. ws' \in WorkspaceStates
    <3>1. "stopped" \in States /\ 0 \in Nat
      BY DEF States
    <3>2. \A b \in BOOLEAN :
             [ws EXCEPT !.state = "stopped", !.session = 0, !.files = ws.files + 1, !.saved = b]
                \in WorkspaceStates
      BY <1>1, <3>1, ComputeTypes
    <3>3. [ws EXCEPT !.state = "stopped", !.session = 0] \in WorkspaceStates
      BY <3>1, ComputeTypes
    <3>4. QED
      BY <1>2, <2>1, <3>2, <3>3, Zenon
  <2>3. ComputeSound /\ FilesSound /\ ConfigurationSound
    BY <2>1, ComputeSteps DEF WorkspaceStates
  <2>4. QED
    BY <2>2, <2>3 DEF Sound
<1>6. CASE SessionFails
  <2>1. ws' = [ws EXCEPT !.state = "failed", !.session = 0]
    BY <1>6 DEF SessionFails
  <2>2. ws' \in WorkspaceStates
    BY <2>1, ComputeTypes DEF States
  <2>3. ComputeSound /\ FilesSound /\ ConfigurationSound
    BY <2>1, ComputeSteps DEF WorkspaceStates
  <2>4. QED
    BY <2>2, <2>3 DEF Sound
<1>7. CASE Publish
  <2>1. /\ ws' = [ws EXCEPT !.upload = NoUpload, !.files = ws.files + 1, !.saved = TRUE,
                            !.committed = ws.committed \cup {ws.upload.id}]
        /\ ws.upload.phase = "verifying" /\ Replaceable(ws.upload.base)
    BY <1>7 DEF Publish
  <2>2. ws.upload.id \in Keys
    BY <2>1 DEF GoodWorkspace, GoodFiles, NoUpload
  <2>3. ws.committed \cup {ws.upload.id} \in SUBSET Keys
    BY <2>2 DEF WorkspaceStates
  <2>4. ws' \in WorkspaceStates
    <3> DEFINE n == ws.files + 1
               keys == ws.committed \cup {ws.upload.id}
    <3>1. /\ ws' = [ws EXCEPT !.upload = NoUpload, !.files = n, !.saved = TRUE,
                              !.committed = keys]
          /\ n \in Nat /\ keys \in SUBSET Keys
      BY <1>1, <2>1, <2>3
    <3> HIDE DEF n, keys
    <3>2. \A b \in BOOLEAN :
             [ws EXCEPT !.upload = NoUpload, !.files = n, !.saved = b, !.committed = keys]
                \in WorkspaceStates
      BY <3>1, NoUploadType, UploadTypes
    <3>3. QED
      BY <1>2, <3>1, <3>2, Zenon
  <2>5. /\ ws'.upload = NoUpload /\ ws'.committed = ws.committed \cup {ws.upload.id}
        /\ ws'.abandoned = ws.abandoned
        /\ ws'.state = ws.state /\ ws'.session = ws.session /\ ws'.begun = ws.begun
        /\ ws'.starts = ws.starts /\ ws'.instance = ws.instance /\ ws'.crev = ws.crev /\ ws'.cfg = ws.cfg
    BY <2>1 DEF WorkspaceStates
  <2>6. ws.saved => ws.upload.seen = ws.files
    BY <2>1 DEF GoodWorkspace, GoodFiles, Replaceable
  <2>7. FilesSound
    BY <2>5, <2>6, UploadOver DEF FilesSound, FilesSeen
  <2>8. QED
    BY <2>4, <2>5, <2>7, ComputeSame, ConfigurationSame DEF Sound, GoodWorkspace
<1>8. CASE Discard
  <2>1. /\ ws' = [ws EXCEPT !.upload = NoUpload,
                            !.abandoned = ws.abandoned \cup {ws.upload.id}]
        /\ ws.upload # NoUpload
    BY <1>8 DEF Discard
  <2>2. ws.upload.id \in Keys
    BY <2>1 DEF GoodWorkspace, GoodFiles
  <2>3. ws.abandoned \cup {ws.upload.id} \in SUBSET Keys
    BY <2>2 DEF WorkspaceStates
  <2>4. ws' \in WorkspaceStates
    <3> DEFINE keys == ws.abandoned \cup {ws.upload.id}
    <3>1. ws' = [ws EXCEPT !.upload = NoUpload, !.abandoned = keys] /\ keys \in SUBSET Keys
      BY <2>1, <2>3
    <3> HIDE DEF keys
    <3>2. QED
      BY <3>1, NoUploadType, UploadTypes
  <2>5. /\ ws'.upload = NoUpload /\ ws'.abandoned = ws.abandoned \cup {ws.upload.id}
        /\ ws'.committed = ws.committed /\ ws'.files = ws.files
        /\ ws'.state = ws.state /\ ws'.session = ws.session /\ ws'.begun = ws.begun
        /\ ws'.starts = ws.starts /\ ws'.instance = ws.instance /\ ws'.crev = ws.crev /\ ws'.cfg = ws.cfg
    BY <2>1 DEF WorkspaceStates
  <2>6. FilesSound
    BY <2>5, UploadOver DEF FilesSound, FilesSeen
  <2>7. QED
    BY <2>4, <2>5, <2>6, ComputeSame, ConfigurationSame DEF Sound, GoodWorkspace
<1>9. QED
  BY <1>3, <1>4, <1>5, <1>6, <1>7, <1>8 DEF ServerStep

-----------------------------------------------------------------------------
(* Requests that the server accepts.                                       *)

\* A start begins a session under its key, unless there is nothing to start.
LEMMA StartSound ==
    ASSUME ws \in WorkspaceStates, GoodWorkspace, NEW r \in Requests, GoodRequest(r),
           r.op = "start", Accepts(r), ws' = Applied(r)
    PROVE  Sound
<1>1. CASE NothingToStart(r.key)
  BY <1>1, SameSound DEF Applied
<1>2. CASE ~NothingToStart(r.key)
  <2> DEFINE new == [key |-> r.key, intent |-> r.intent, session |-> ws.begun + 1]
             all == ws.starts \cup {new}
  <2>1. /\ ws' = [ws EXCEPT !.state = "creating", !.begun = ws.begun + 1, !.starts = all]
        /\ Idle /\ r.key = r.intent
    BY <1>2 DEF Applied, Accepts, GoodRequest, NothingToStart
  <2>2. new \in [key : Keys, intent : Keys, session : Nat] /\ new.key = r.key /\ new.intent = r.key
    <3>1. r \in [op : {"start"}, key : Keys, intent : Keys] /\ ws.begun + 1 \in Nat
      BY RequestFields, WorkspaceFields
    <3>2. QED
      BY <2>1, <3>1
  <2> HIDE DEF new
  <2>2a. all \in SUBSET [key : Keys, intent : Keys, session : Nat]
    <3>1. ws.starts \in SUBSET [key : Keys, intent : Keys, session : Nat]
      BY DEF WorkspaceStates
    <3>2. QED
      BY <2>2, <3>1
  <2>3. /\ \A s \in all : s.key = s.intent
        /\ ws.instance => \A s, t \in all : s.key = t.key => s = t
    <3>1. GoodStarts
      BY DEF GoodWorkspace, GoodCompute
    <3>2. ws.instance => \A s \in ws.starts : s.key # new.key
      BY <1>2, <2>2 DEF NothingToStart, Started
    <3>3. QED
      BY <2>2, <3>1, <3>2 DEF GoodStarts
  <2>4. ws.begun + 1 \in Nat /\ "creating" \in States
    BY WorkspaceFields DEF States
  <2> HIDE DEF all
  <2>5. ws' \in WorkspaceStates
    <3> DEFINE n == ws.begun + 1
    <3>1. /\ ws' = [ws EXCEPT !.state = "creating", !.begun = n, !.starts = all]
          /\ n \in Nat
      BY <2>1, <2>4
    <3> HIDE DEF n
    <3>2. n \in Nat
      BY <3>1
    <3>3. [ws EXCEPT !.state = "creating", !.begun = n, !.starts = all] \in WorkspaceStates
      BY <2>2a, <2>4, <3>2, ComputeTypes
    <3>4. QED
      BY <3>1, <3>3, Zenon
  <2>6. ComputeSound /\ FilesSound /\ ConfigurationSound
    <3>1. ws'.starts = all /\ ws'.instance = ws.instance
      BY <2>1 DEF WorkspaceStates
    <3>2. GoodStarts'
      BY <2>3, <3>1 DEF GoodStarts
    <3>3. QED
      BY <2>1, <3>2, ComputeSteps DEF WorkspaceStates
  <2>7. QED
    BY <2>5, <2>6 DEF Sound
<1>3. QED
  BY <1>1, <1>2

\* A stop ends the session it names; then that one is over.
LEMMA StopSound ==
    ASSUME ws \in WorkspaceStates, GoodWorkspace, NEW r \in Requests, GoodRequest(r),
           r.op = "stop", ws' = Applied(r)
    PROVE  /\ Sound
           /\ Available(r.session) => (r.session = ws'.begun => ~Active')
<1>1. CASE Active /\ ws.session = r.session
  <2>1. ws' = [ws EXCEPT !.state = "stopping"] /\ ws.session # 0
    BY <1>1 DEF Applied, GoodRequest
  <2>2. ws' \in WorkspaceStates
    BY <2>1, ComputeTypes DEF States
  <2>3. ComputeSound /\ FilesSound /\ ConfigurationSound
    BY <1>1, <2>1, ComputeSteps DEF WorkspaceStates
  <2>4. ~Active'
    BY <2>1 DEF Active, WorkspaceStates
  <2>5. QED
    BY <2>2, <2>3, <2>4 DEF Sound
<1>2. CASE ~(Active /\ ws.session = r.session)
  <2>1. ws' = ws
    BY <1>2 DEF Applied
  <2>2. Available(r.session) => (r.session = ws.begun => ~Active)
    BY <1>2, RequestFields, WorkspaceFields
       DEF Available, GoodWorkspace, GoodCompute, Active
  <2>3. QED
    BY <2>1, <2>2, SameSound DEF Active
<1>3. QED
  BY <1>1, <1>2

\* A configuration is replaced by one that differs in the field it names.
LEMMA ConfigureSound ==
    ASSUME ws \in WorkspaceStates, GoodWorkspace, NEW r \in Requests, GoodRequest(r),
           r.op = "configure", Accepts(r), ws' = Applied(r)
    PROVE  Sound
<1>1. CASE r.cfg = ws.cfg
  BY <1>1, SameSound DEF Applied
<1>2. CASE r.cfg # ws.cfg
  <2>1. /\ ws' = [ws EXCEPT !.cfg = r.cfg, !.crev = ws.crev + 1, !.named = {r.field}]
        /\ r.rev = ws.crev
    BY <1>2 DEF Applied, Accepts
  <2>2. /\ r.field \in Fields /\ r.cfg \in Configurations /\ ws.crev \in Nat
        /\ {r.field} \in SUBSET Fields /\ ws.crev + 1 \in Nat
    BY RequestFields, WorkspaceFields
  <2>3. ws' \in WorkspaceStates
    <3> DEFINE c == r.cfg
               n == ws.crev + 1
               F == {r.field}
    <3>1. /\ ws' = [ws EXCEPT !.cfg = c, !.crev = n, !.named = F]
          /\ c \in Configurations /\ n \in Nat /\ F \in SUBSET Fields
      BY <2>1, <2>2
    <3> HIDE DEF c, n, F
    <3>2. c \in Configurations /\ n \in Nat /\ F \in SUBSET Fields
      BY <3>1
    <3>3. [ws EXCEPT !.cfg = c, !.crev = n, !.named = F] \in WorkspaceStates
      BY <3>2, ConfigurationTypes
    <3>4. QED
      BY <3>1, <3>3, Zenon
  <2>4. /\ ws'.upload = ws.upload /\ ws'.committed = ws.committed
        /\ ws'.abandoned = ws.abandoned /\ ws'.state = ws.state
        /\ ws'.session = ws.session /\ ws'.begun = ws.begun /\ ws'.starts = ws.starts
        /\ ws'.instance = ws.instance
        /\ ws'.cfg = r.cfg /\ ws'.crev = ws.crev + 1 /\ ws'.named = {r.field}
    BY <2>1 DEF WorkspaceStates
  <2>5. \A f \in Fields \ {r.field} : r.cfg[f] = ws.cfg[f]
    BY <2>1 DEF GoodRequest
  <2>6. ConfigurationSound
    BY <2>2, <2>4, <2>5 DEF ConfigurationSound, ConfigurationOnward, FieldsNamed, GoodWorkspace
  <2>7. QED
    BY <2>3, <2>4, <2>6, ComputeSame, FilesSame DEF Sound, GoodWorkspace
<1>3. QED
  BY <1>1, <1>2

\* A step that changes only the upload.
LEMMA UploadSteps ==
    ASSUME ws \in WorkspaceStates, GoodWorkspace, NEW u \in Uploads,
           ws' = [ws EXCEPT !.upload = u], u.id \in Keys, u.seen = u.base,
           u.phase = "verifying" => u.stored = Segments,
           \/ u.id = ws.upload.id /\ ws.upload.stored \subseteq u.stored
           \/ ws.upload = NoUpload /\ ~Known(u.id)
    PROVE  Sound /\ ws'.upload = u
<1>1. ws' \in WorkspaceStates
  BY UploadTypes
<1>2. /\ ws'.upload = u /\ ws'.committed = ws.committed /\ ws'.abandoned = ws.abandoned
      /\ ws'.state = ws.state /\ ws'.session = ws.session /\ ws'.begun = ws.begun
      /\ ws'.starts = ws.starts /\ ws'.instance = ws.instance /\ ws'.files = ws.files /\ ws'.cfg = ws.cfg
      /\ ws'.crev = ws.crev
  BY DEF WorkspaceStates
<1>3. ws.upload = NoUpload => ws.upload.id = NoKey
  BY DEF NoUpload
<1>4. FilesOnward
  BY <1>2, <1>3, NoKeyIsNone DEF FilesOnward, Known
<1>5. GoodFiles' /\ FilesSeen
  BY <1>2 DEF GoodFiles, FinalizedWhole, FilesSeen
<1>6. QED
  BY <1>1, <1>2, <1>4, <1>5, ComputeSame, ConfigurationSame
     DEF Sound, FilesSound, GoodWorkspace

\* A transfer is begun under a new key, or the one of the key is told.
LEMMA BeginSound ==
    ASSUME ws \in WorkspaceStates, GoodWorkspace, NEW r \in Requests, GoodRequest(r),
           r.op = "begin", Accepts(r), ws' = Applied(r)
    PROVE  Sound /\ Known(r.key)'
<1>1. CASE Known(r.key)
  <2>1. ws' = ws
    BY <1>1 DEF Applied
  <2>2. Known(r.key)'
    BY <1>1, <2>1 DEF Known
  <2>3. QED
    BY <2>1, <2>2, SameSound
<1>2. CASE ~Known(r.key)
  <2> DEFINE u == [id |-> r.key, base |-> r.base, seen |-> r.seen,
                   stored |-> {}, phase |-> "uploading"]
  <2>1. r.key \in Keys /\ r.base \in Nat /\ r.seen \in Nat
    BY RequestFields
  <2>2. u \in Uploads /\ u.id = r.key /\ u.phase = "uploading"
    BY <2>1 DEF Uploads
  <2>3. u.seen = u.base
    BY DEF GoodRequest
  <2>4. ws' = [ws EXCEPT !.upload = u] /\ ws.upload = NoUpload
    BY <1>2 DEF Applied, Accepts
  <2> HIDE DEF u
  <2>5. Sound /\ ws'.upload = u
    BY <1>2, <2>1, <2>2, <2>3, <2>4, UploadSteps
  <2>6. QED
    BY <2>2, <2>5 DEF Known
<1>3. QED
  BY <1>1, <1>2

\* One more segment is stored.
LEMMA PutSound ==
    ASSUME ws \in WorkspaceStates, GoodWorkspace, NEW r \in Requests,
           r.op = "put", Accepts(r), ws' = Applied(r)
    PROVE  /\ Sound /\ Known(r.key)'
           /\ ws'.upload.stored = ws.upload.stored \cup {r.index} /\ ws'.upload.id = r.key
<1> DEFINE more == ws.upload.stored \cup {r.index}
           u == [ws.upload EXCEPT !.stored = more]
<1>1. r.key \in Keys /\ r.index \in Segments
  BY RequestFields
<1>2. ws.upload \in Uploads /\ ws.upload.stored \subseteq Segments
  BY WorkspaceFields
<1>3. more \in SUBSET Segments /\ ws.upload.stored \subseteq more
  BY <1>1, <1>2
<1>4. ws.upload.id = r.key /\ ws.upload.phase = "uploading" /\ ws.upload.seen = ws.upload.base
  BY DEF Accepts, GoodWorkspace, GoodFiles
<1> HIDE DEF more
<1>5. /\ u \in Uploads /\ u.id = r.key /\ u.phase = "uploading" /\ u.seen = u.base
      /\ u.stored = more
  BY <1>2, <1>3, <1>4 DEF Uploads
<1>6. ws' = [ws EXCEPT !.upload = u]
  BY DEF Applied, more, WorkspaceStates
<1> HIDE DEF u
<1>7. Sound /\ ws'.upload = u
  <2>1. /\ u \in Uploads /\ u.id \in Keys /\ u.seen = u.base
        /\ u.phase = "verifying" => u.stored = Segments
        /\ u.id = ws.upload.id /\ ws.upload.stored \subseteq u.stored
    BY <1>1, <1>3, <1>4, <1>5
  <2>2. QED
    BY <1>6, <2>1, UploadSteps
<1>8. Known(r.key)'
  BY <1>5, <1>7 DEF Known
<1>9. QED
  BY <1>5, <1>7, <1>8 DEF more

\* A transfer is finalized when all its segments are stored.
LEMMA FinalizeSound ==
    ASSUME ws \in WorkspaceStates, GoodWorkspace, NEW r \in Requests, GoodRequest(r),
           r.op = "finalize", Accepts(r), ws' = Applied(r)
    PROVE  Sound
<1> DEFINE u == [ws.upload EXCEPT !.phase = "verifying"]
<1>1. r.key \in Keys
  BY RequestFields
<1>2. ws.upload \in Uploads
  BY WorkspaceFields
<1>3. /\ ws.upload.id = r.key /\ ws.upload.seen = ws.upload.base
      /\ ws.upload.stored = Segments
  BY DEF Accepts, GoodWorkspace, GoodFiles, GoodRequest
<1>4. u \in Uploads /\ u.id = r.key /\ u.seen = u.base /\ u.stored = Segments
  BY <1>2, <1>3 DEF Uploads
<1>5. ws' = [ws EXCEPT !.upload = u]
  BY DEF Applied, WorkspaceStates
<1> HIDE DEF u
<1>6. QED
  BY <1>1, <1>3, <1>4, <1>5, UploadSteps

\* Every accepted request.
LEMMA AppliedSound ==
    ASSUME ws \in WorkspaceStates, GoodWorkspace, NEW r \in Requests, GoodRequest(r),
           Accepts(r), ws' = Applied(r)
    PROVE  Sound
<1>1. CASE r.op = "erase"
  <2>1. ws' = [ws EXCEPT !.saved = FALSE, !.files = ws.files + 1]
    BY <1>1 DEF Applied
  <2>2. ws' \in WorkspaceStates
    <3> DEFINE n == ws.files + 1
    <3>1. n \in Nat /\ FALSE \in BOOLEAN /\ ws' = [ws EXCEPT !.saved = FALSE, !.files = n]
      BY <2>1, WorkspaceFields
    <3> HIDE DEF n
    <3>2. \A b \in BOOLEAN : [ws EXCEPT !.saved = b, !.files = n] \in WorkspaceStates
      BY <3>1, EraseTypes
    <3>3. [ws EXCEPT !.saved = FALSE, !.files = n] \in WorkspaceStates
      BY <3>1, <3>2, Zenon
    <3>4. QED
      BY <3>1, <3>3, Zenon
  <2>3. /\ ws'.upload = ws.upload /\ ws'.committed = ws.committed
        /\ ws'.abandoned = ws.abandoned /\ ws'.state = ws.state
        /\ ws'.session = ws.session /\ ws'.begun = ws.begun /\ ws'.starts = ws.starts
        /\ ws'.instance = ws.instance
        /\ ws'.cfg = ws.cfg /\ ws'.crev = ws.crev
    BY <2>1 DEF WorkspaceStates
  <2>4. QED
    BY <2>2, <2>3, ComputeSame, FilesSame, ConfigurationSame DEF Sound, GoodWorkspace
<1>2. CASE r.op = "delete"
  <2>1. ws' = [ws EXCEPT !.state = "deleted"] /\ Idle
    BY <1>2 DEF Applied, Accepts
  <2>2. ws' \in WorkspaceStates
    BY <2>1, WorkspaceFields, ComputeTypes DEF States
  <2>3. ComputeSound /\ FilesSound /\ ConfigurationSound
    BY <2>1, ComputeSteps DEF WorkspaceStates
  <2>4. QED
    BY <2>2, <2>3 DEF Sound
<1>3. CASE r.op = "wake"
  <2>1. ws' = [ws EXCEPT !.wake = r.on] /\ r.on \in BOOLEAN
    BY <1>3, RequestFields DEF Applied
  <2>2. ws' \in WorkspaceStates
    BY <2>1, WorkspaceFields, ComputeTypes DEF States
  <2>3. /\ ws'.upload = ws.upload /\ ws'.committed = ws.committed
        /\ ws'.abandoned = ws.abandoned /\ ws'.state = ws.state
        /\ ws'.session = ws.session /\ ws'.begun = ws.begun /\ ws'.starts = ws.starts
        /\ ws'.instance = ws.instance
        /\ ws'.cfg = ws.cfg /\ ws'.crev = ws.crev
    BY <2>1 DEF WorkspaceStates
  <2>4. QED
    BY <2>2, <2>3, ComputeSame, FilesSame, ConfigurationSame DEF Sound, GoodWorkspace
<1>4. QED
  BY <1>1, <1>2, <1>3, RequestFields, StartSound, StopSound, ConfigureSound, BeginSound,
     PutSound, FinalizeSound

-----------------------------------------------------------------------------
(* What is remembered across a step of the workspace.                      *)

\* The fields of a handle.
LEMMA HandleFields ==
    ASSUME NEW s \in HandleStates
    PROVE  /\ s.pc \in {"idle", "stop", "stopped", "ready", "stopping", "begin", "put", "verify",
                        "interrupted", "erase"}
           /\ s.view \in Views /\ s.calls \in Nat /\ s.deleted \in BOOLEAN
           /\ s.intent \in Keys \cup {NoKey} /\ s.key \in Keys \cup {NoKey}
           /\ s.skip \subseteq Segments /\ s.offered \in Nat /\ s.began \in Nat
           /\ s.view.session \in Nat /\ s.view.files \in Nat /\ s.view.crev \in Nat
           /\ s.view.cfg \in Configurations
BY DEF HandleStates, Views

\* A request stays good.
LEMMA RequestKept ==
    ASSUME ws \in WorkspaceStates, Sound, NEW r \in Requests, GoodRequest(r)
    PROVE  GoodRequest(r)'
<1>1. ASSUME r.op = "configure"
      PROVE  /\ r.rev <= ws'.crev
             /\ r.rev = ws'.crev => \A f \in Fields \ {r.field} : r.cfg[f] = ws'.cfg[f]
  <2>1. r.rev \in Nat /\ ws.crev \in Nat /\ ws'.crev \in Nat
    BY <1>1, RequestFields, WorkspaceFields DEF Sound, WorkspaceStates
  <2>2. ConfigurationOnward
    BY DEF Sound, ConfigurationSound
  <2>3. QED
    BY <1>1, <2>1, <2>2 DEF ConfigurationOnward, GoodRequest
<1>2. ASSUME r.op = "finalize"
      PROVE  Known(r.key)' /\ (ws'.upload.id = r.key => ws'.upload.stored = Segments)
  <2>1. r.key \in Keys
    BY <1>2, RequestFields
  <2>2. ws'.upload.stored \subseteq Segments
    BY DEF Sound, WorkspaceStates, Uploads
  <2>3. FilesOnward /\ Known(r.key) /\ (ws.upload.id = r.key => ws.upload.stored = Segments)
    BY <1>2 DEF Sound, FilesSound, GoodRequest
  <2>4. QED
    BY <2>1, <2>2, <2>3 DEF FilesOnward
<1>3. QED
  BY <1>1, <1>2 DEF GoodRequest

\* A session that was available was.
LEMMA AvailableKept ==
    ASSUME ws \in WorkspaceStates, Sound, NEW n \in Nat, Available(n)
    PROVE  Available(n)'
<1>1. ws.begun \in Nat /\ ws'.begun \in Nat
  BY DEF Sound, WorkspaceStates
<1>2. ComputeOnward
  BY DEF Sound, ComputeSound
<1>3. QED
  BY <1>1, <1>2 DEF ComputeOnward, Available

\* A handle stays good.
LEMMA HandleKept ==
    ASSUME ws \in WorkspaceStates, Sound, NEW s \in HandleStates, GoodHandle(s)
    PROVE  GoodHandle(s)'
<1>1. s.key \in Keys \cup {NoKey} /\ s.offered \in Nat /\ s.view.crev \in Nat
  BY HandleFields
<1>2. /\ ws.crev \in Nat /\ ws'.crev \in Nat /\ ws.begun \in Nat /\ ws'.begun \in Nat
      /\ ConfigurationOnward /\ ComputeOnward /\ FilesOnward
  BY DEF Sound, WorkspaceStates, ConfigurationSound, ComputeSound, FilesSound
<1>3. s.pc = "put" => /\ Known(s.key)'
                      /\ ws'.upload.id = s.key => s.skip \subseteq ws'.upload.stored
  BY <1>1, <1>2 DEF FilesOnward, GoodHandle
<1>4. s.view.crev <= ws'.crev /\ (s.view.crev = ws'.crev => s.view.cfg = ws'.cfg)
  BY <1>1, <1>2 DEF ConfigurationOnward, GoodHandle
<1>5. Available(s.offered)'
  BY <1>1, AvailableKept DEF GoodHandle
<1>6. s.pc = "stopped" /\ s.offered # 0 => (s.offered = ws'.begun => ~Active')
  <2>1. s.offered <= ws.begun
    BY DEF GoodHandle, Available
  <2>2. QED
    BY <1>1, <1>2, <2>1 DEF ComputeOnward, GoodHandle
<1>7. QED
  BY <1>3, <1>4, <1>5, <1>6 DEF GoodHandle

\* One handle takes a step, and perhaps leaves a request under way.
LEMMA StepKept ==
    ASSUME WorkspacesInv, Sound, NEW h \in Handles, NEW s \in HandleStates, GoodHandle(s)',
           handle' = [handle EXCEPT ![h] = s], lost' \in Nat,
           \A r \in late' : r \in late \/ (r \in Requests /\ GoodRequest(r)')
    PROVE  WorkspacesInv'
<1>1. /\ ws \in WorkspaceStates /\ handle \in [Handles -> HandleStates]
      /\ late \subseteq Requests
  BY DEF WorkspacesInv, TypeOK
<1>2. handle' \in [Handles -> HandleStates]
  BY <1>1
<1>3. ASSUME NEW r \in late'
      PROVE  r \in Requests /\ GoodRequest(r)'
  <2>1. CASE r \in late
    BY <1>1, <2>1, RequestKept DEF WorkspacesInv
  <2>2. QED
    BY <2>1
<1>4. ASSUME NEW g \in Handles
      PROVE  GoodHandle(handle[g])'
  <2>1. PICK t \in HandleStates : t = handle'[g]
    BY <1>2
  <2>2. GoodHandle(t)'
    <3>1. CASE g = h
      <4>1. t = s
        BY <1>1, <2>1, <3>1
      <4>2. QED
        BY <4>1
    <3>2. CASE g # h
      <4>1. t = handle[g]
        BY <1>1, <2>1, <3>2
      <4>2. GoodHandle(t)
        BY <4>1 DEF WorkspacesInv
      <4>3. QED
        BY <1>1, <4>2, HandleKept
    <3>3. QED
      BY <3>1, <3>2
  <2>3. QED
    BY <2>1, <2>2 DEF GoodHandle, Available
<1>5. TypeOK'
  BY <1>2, <1>3 DEF TypeOK, Sound
<1>6. GoodWorkspace'
  BY DEF GoodWorkspace, Sound, ComputeSound, FilesSound, ConfigurationSound
<1>7. QED
  BY <1>3, <1>4, <1>5, <1>6 DEF WorkspacesInv

\* The same when no handle does.
LEMMA IdleKept ==
    ASSUME WorkspacesInv, Sound, UNCHANGED <<handle, lost>>, late' \subseteq late
    PROVE  WorkspacesInv'
<1>1. /\ ws \in WorkspaceStates /\ handle \in [Handles -> HandleStates]
      /\ late \subseteq Requests
  BY DEF WorkspacesInv, TypeOK
<1>2. ASSUME NEW r \in late'
      PROVE  r \in Requests /\ GoodRequest(r)'
  BY <1>1, RequestKept DEF WorkspacesInv
<1>3. ASSUME NEW g \in Handles
      PROVE  GoodHandle(handle[g])'
  <2>1. PICK t \in HandleStates : t = handle[g]
    BY <1>1
  <2>2. GoodHandle(t)'
    BY <1>1, <2>1, HandleKept DEF WorkspacesInv
  <2>3. QED
    BY <2>1, <2>2 DEF GoodHandle, Available
<1>4. TypeOK'
  BY <1>1, <1>2 DEF WorkspacesInv, TypeOK, Sound
<1>5. GoodWorkspace'
  BY DEF GoodWorkspace, Sound, ComputeSound, FilesSound, ConfigurationSound
<1>6. QED
  BY <1>2, <1>3, <1>4, <1>5 DEF WorkspacesInv

-----------------------------------------------------------------------------
(* Steps of handles.                                                       *)

\* The view of a workspace is one.
LEMMA ViewTypes ==
    ASSUME NEW w \in WorkspaceStates
    PROVE  View(w) \in Views /\ View(w).crev = w.crev /\ View(w).cfg = w.cfg
           /\ View(w).session = w.session /\ View(w).files = w.files
BY DEF WorkspaceStates, Uploads, View, Views

\* A handle that is told of the workspace stays good.
LEMMA ViewGood ==
    ASSUME WorkspacesInv, NEW s \in HandleStates, GoodHandle(s), s.pc # "stop"
    PROVE  /\ [s EXCEPT !.view = View(ws)] \in HandleStates
           /\ GoodHandle([s EXCEPT !.view = View(ws)])
<1> DEFINE v == View(ws)
<1>1. v \in Views /\ v.crev = ws.crev /\ v.cfg = ws.cfg
  BY ViewTypes DEF WorkspacesInv, TypeOK
<1>2. ws.crev \in Nat
  BY WorkspaceFields DEF WorkspacesInv, TypeOK
<1> HIDE DEF v
<1>3. [s EXCEPT !.view = v] \in HandleStates
  BY <1>1 DEF HandleStates
<1>4. GoodHandle([s EXCEPT !.view = v])
  BY <1>1, <1>2 DEF GoodHandle, HandleStates
<1>5. QED
  BY <1>3, <1>4 DEF v

\* So does one that is told of what its request has made of it.
LEMMA AnswerGood ==
    ASSUME ws' \in WorkspaceStates, NEW s \in HandleStates, GoodHandle(s)', s.pc # "stop",
           NEW a, a = [s EXCEPT !.view = View(ws')]
    PROVE  a \in HandleStates /\ GoodHandle(a)'
<1>1. View(ws') \in Views /\ View(ws').crev = ws'.crev /\ View(ws').cfg = ws'.cfg
  BY ViewTypes
<1>2. ws'.crev \in Nat
  BY DEF WorkspaceStates
<1>3. PICK v \in Views : v = View(ws')
  BY <1>1
<1>4. a = [s EXCEPT !.view = v] /\ v.crev = ws'.crev /\ v.cfg = ws'.cfg
  BY <1>1, <1>3
<1>5. a \in HandleStates
  BY <1>4 DEF HandleStates
<1>6. GoodHandle(a)'
  BY <1>2, <1>4 DEF GoodHandle, HandleStates
<1>7. QED
  BY <1>5, <1>6

\* A call that raised leaves a good handle.
LEMMA RaisedGood ==
    ASSUME WorkspacesInv, NEW s \in HandleStates, GoodHandle(s)
    PROVE  Raised(s) \in HandleStates /\ GoodHandle(Raised(s))
<1>1. NoKey \in Keys \cup {NoKey} /\ {} \in SUBSET Segments /\ 0 \in Nat
  OBVIOUS
<1>2. Raised(s) \in HandleStates
  BY <1>1 DEF Raised, HandleStates
<1>3. Available(0)
  BY WorkspaceFields
     DEF Available, WorkspacesInv, TypeOK, GoodWorkspace, GoodCompute, Active
<1>4. GoodHandle(Raised(s))
  BY <1>3 DEF Raised, GoodHandle, HandleStates
<1>5. QED
  BY <1>2, <1>4

\* A new call begins with a good handle.
LEMMA CalledGood ==
    ASSUME WorkspacesInv, NEW h \in Handles, handle[h].pc = "idle"
    PROVE  /\ handle[h] \in HandleStates /\ GoodHandle(handle[h])
           /\ Called(h) \in HandleStates /\ GoodHandle(Called(h)) /\ Called(h).pc = "idle"
           /\ Called(h).view = handle[h].view /\ Fresh(h) \in Keys
<1>1. handle[h] \in HandleStates /\ GoodHandle(handle[h])
  BY DEF WorkspacesInv, TypeOK
<1>2. handle[h].calls + 1 \in Nat /\ handle[h].calls \in Nat
  BY <1>1, HandleFields
<1>3. Called(h) \in HandleStates
  BY <1>1, <1>2 DEF Called, HandleStates
<1>4. Available(0)
  BY WorkspaceFields
     DEF Available, WorkspacesInv, TypeOK, GoodWorkspace, GoodCompute, Active
<1>5. GoodHandle(Called(h)) /\ Called(h).pc = "idle" /\ Called(h).view = handle[h].view
  BY <1>1, <1>4 DEF Called, GoodHandle, HandleStates
<1>6. Fresh(h) \in Keys
  BY <1>2 DEF Fresh, Keys
<1>7. QED
  BY <1>1, <1>3, <1>5, <1>6

\* A step without a request.
LEMMA GoesKept ==
    ASSUME WorkspacesInv, NEW h \in Handles, NEW s \in HandleStates, GoodHandle(s), Goes(h, s)
    PROVE  WorkspacesInv' /\ Sound
<1>1. ws \in WorkspaceStates /\ lost \in Nat
  BY DEF WorkspacesInv, TypeOK
<1>2. Sound
  BY <1>1, SameSound DEF Goes, WorkspacesInv
<1>3. GoodHandle(s)'
  BY <1>1, <1>2, HandleKept
<1>4. QED
  BY <1>1, <1>2, <1>3, StepKept DEF Goes

\* A step with a request, answered, refused or without an answer.
LEMMA AskKept ==
    ASSUME WorkspacesInv, NEW h \in Handles, NEW r \in Requests, GoodRequest(r),
           NEW a, NEW b \in HandleStates, GoodHandle(b), Ask(h, r, a, b),
           Sound /\ Accepts(r) /\ ws' = Applied(r) => a \in HandleStates /\ GoodHandle(a)'
    PROVE  WorkspacesInv' /\ Sound
<1>1. ws \in WorkspaceStates /\ lost \in Nat /\ GoodWorkspace
  BY DEF WorkspacesInv, TypeOK
<1>2. lost' \in Nat /\ (late' = late \/ late' = late \cup {r})
  BY <1>1 DEF Ask, Unanswered
<1>3. CASE Accepts(r) /\ ws' = Applied(r) /\ handle' = [handle EXCEPT ![h] = a]
  <2>1. Sound
    BY <1>1, <1>3, AppliedSound
  <2>2. a \in HandleStates /\ GoodHandle(a)'
    BY <1>3, <2>1
  <2>3. GoodRequest(r)'
    BY <1>1, <2>1, RequestKept
  <2>4. QED
    BY <1>2, <1>3, <2>1, <2>2, <2>3, StepKept
<1>4. ASSUME NEW s \in HandleStates, GoodHandle(s), ws' = ws,
             handle' = [handle EXCEPT ![h] = s]
      PROVE  WorkspacesInv' /\ Sound
  <2>1. Sound
    BY <1>1, <1>4, SameSound
  <2>2. GoodRequest(r)' /\ GoodHandle(s)'
    BY <1>1, <1>4, <2>1, RequestKept, HandleKept
  <2>3. QED
    BY <1>2, <1>4, <2>1, <2>2, StepKept
<1>5. Raised(b) \in HandleStates /\ GoodHandle(Raised(b))
  BY RaisedGood
<1>6. QED
  BY <1>3, <1>4, <1>5 DEF Ask

\* A start is asked for under the key of its intent.
LEMMA StartKept ==
    ASSUME WorkspacesInv, NEW h \in Handles, Start(h)
    PROVE  WorkspacesInv' /\ Sound
<1>1. handle[h].pc = "idle"
  BY DEF Start, Enter
<1>2. /\ handle[h] \in HandleStates /\ GoodHandle(handle[h]) /\ Fresh(h) \in Keys
      /\ Called(h) \in HandleStates /\ GoodHandle(Called(h)) /\ Called(h).pc = "idle"
  BY <1>1, CalledGood
<1>3. PICK c \in HandleStates : c = Called(h)
  BY <1>2
<1>4. GoodHandle(c) /\ c.pc = "idle"
  BY <1>2, <1>3
<1>5. PICK k, r, a, b :
         /\ k \in Keys /\ r \in Requests
         /\ r = [op |-> "start", key |-> k, intent |-> k]
         /\ a = [c EXCEPT !.view = View(Applied(r))]
         /\ b = WithKey([c EXCEPT !.intent = k], k)
         /\ Ask(h, r, a, b)
  <2> DEFINE intent(again) == IF again THEN handle[h].intent ELSE Fresh(h)
             key(again) == IF again /\ handle[h].key # NoKey THEN handle[h].key ELSE Fresh(h)
             r(i, k) == [op |-> "start", key |-> k, intent |-> i]
  <2>1. PICK again \in {FALSE, handle[h].intent # NoKey} :
           Ask(h, r(intent(again), key(again)),
               [c EXCEPT !.view = View(Applied(r(intent(again), key(again))))],
               WithKey([c EXCEPT !.intent = intent(again)], key(again)))
    BY <1>3, Zenon DEF Start
  <2>2. key(again) = intent(again) /\ key(again) \in Keys
    BY <1>2, HandleFields, NoKeyIsNone DEF GoodHandle
  <2>3. PICK k \in Keys : k = key(again)
    BY <2>2
  <2>4. Ask(h, r(k, k), [c EXCEPT !.view = View(Applied(r(k, k)))],
            WithKey([c EXCEPT !.intent = k], k))
    BY <2>1, <2>2, <2>3, Zenon
  <2>5. r(k, k) \in Requests
    BY DEF Requests
  <2>6. QED
    BY <2>4, <2>5, Zenon
<1>6. GoodRequest(r)
  BY <1>5 DEF GoodRequest
<1>7. b \in HandleStates /\ GoodHandle(b)
  BY <1>4, <1>5 DEF WithKey, GoodHandle, HandleStates
<1>8. ASSUME Sound, ws' = Applied(r)
      PROVE  a \in HandleStates /\ GoodHandle(a)'
  <2>1. ws' \in WorkspaceStates /\ ws \in WorkspaceStates
    BY <1>8 DEF Sound, WorkspacesInv, TypeOK
  <2>2. GoodHandle(c)'
    BY <1>4, <1>8, <2>1, HandleKept
  <2>3. a = [c EXCEPT !.view = View(ws')]
    BY <1>5, <1>8
  <2>4. QED
    BY <1>4, <2>1, <2>2, <2>3, AnswerGood
<1>9. QED
  BY <1>5, <1>6, <1>7, <1>8, AskKept

\* stop() names the session that it reads.
LEMMA StopKept ==
    ASSUME WorkspacesInv, NEW h \in Handles, Stop(h)
    PROVE  WorkspacesInv' /\ Sound
<1>1. handle[h].pc = "idle"
  BY DEF Stop, Reads, Enter
<1>2. Called(h) \in HandleStates /\ GoodHandle(Called(h)) /\ Called(h).pc = "idle"
  BY <1>1, CalledGood
<1>3. PICK c \in HandleStates : c = Refreshed(Called(h))
  BY <1>2, ViewGood DEF Refreshed
<1>4. GoodHandle(c) /\ c.view = View(ws) /\ c.pc = "idle"
  BY <1>2, <1>3, ViewGood DEF Refreshed, HandleStates
<1>5. PICK began \in Nat, pc \in {"stop", "stopped"} :
         /\ Goes(h, [c EXCEPT !.offered = ws.session, !.began = began, !.pc = pc])
         /\ pc = "stop" <=> c.view.session # 0
  <2> DEFINE began == IF Active THEN ws.begun ELSE 0
             pc == IF c.view.session = 0 THEN "stopped" ELSE "stop"
  <2>1. began \in Nat
    BY WorkspaceFields DEF WorkspacesInv, TypeOK
  <2>2. Goes(h, [[c EXCEPT !.offered = ws.session, !.began = began] EXCEPT !.pc = pc])
    BY <1>3 DEF Stop, HandleStates
  <2>3. Goes(h, [c EXCEPT !.offered = ws.session, !.began = began, !.pc = pc])
    BY <2>2
  <2>4. QED
    BY <2>1, <2>3
<1>6. ws.session \in Nat /\ c.view.session = ws.session /\ Available(ws.session)
  BY <1>4, ViewTypes, WorkspaceFields
     DEF Available, WorkspacesInv, TypeOK, GoodWorkspace, GoodCompute, Active, Idle, States
<1>7. PICK s : s = [c EXCEPT !.offered = ws.session, !.began = began, !.pc = pc]
  OBVIOUS
<1>8. s \in HandleStates
  BY <1>5, <1>6, <1>7 DEF HandleStates
<1>9. GoodHandle(s)
  BY <1>4, <1>5, <1>6, <1>7 DEF GoodHandle, HandleStates
<1>10. QED
  BY <1>5, <1>7, <1>8, <1>9, GoesKept

\* The session that was read is over when its end was asked for.
LEMMA StopSessionKept ==
    ASSUME WorkspacesInv, NEW h \in Handles, StopSession(h)
    PROVE  WorkspacesInv' /\ Sound
<1>1. PICK s \in HandleStates : s = handle[h]
  BY DEF WorkspacesInv, TypeOK
<1>2. GoodHandle(s) /\ s.pc = "stop"
  BY <1>1 DEF WorkspacesInv, StopSession
<1>3. s.view.session \in Nat /\ s.view.session # 0 /\ s.view.session = s.offered
  BY <1>2, HandleFields DEF GoodHandle
<1>4. PICK r, a, b :
         /\ r \in Requests
         /\ r = [op |-> "stop", session |-> s.view.session]
         /\ a = [s EXCEPT !.pc = "stopped", !.view = View(Applied(r))]
         /\ b = Raised(s) /\ Ask(h, r, a, b)
  <2>1. [op |-> "stop", session |-> s.view.session] \in Requests
    BY <1>3 DEF Requests
  <2>2. QED
    BY <1>1, <2>1, Zenon DEF StopSession
<1>4a. r \in Requests
  BY <1>4
<1>5. GoodRequest(r)
  BY <1>3, <1>4 DEF GoodRequest
<1>6. b \in HandleStates /\ GoodHandle(b)
  BY <1>2, <1>4, RaisedGood
<1>7. ASSUME Sound, ws' = Applied(r)
      PROVE  a \in HandleStates /\ GoodHandle(a)'
  <2>1. ws' \in WorkspaceStates /\ ws \in WorkspaceStates /\ GoodWorkspace
    BY <1>7 DEF Sound, WorkspacesInv, TypeOK
  <2>2. PICK t : t = [s EXCEPT !.pc = "stopped"]
    OBVIOUS
  <2>3. t \in HandleStates /\ t.pc = "stopped" /\ a = [t EXCEPT !.view = View(ws')]
    BY <1>4, <1>7, <2>2 DEF HandleStates
  <2>4. s.offered = ws'.begun => ~Active'
    <3>1. Available(r.session) /\ r.session = s.offered /\ r.op = "stop"
      BY <1>2, <1>3, <1>4 DEF GoodHandle
    <3>2. QED
      BY <1>4a, <1>5, <1>7, <2>1, <3>1, StopSound
  <2>5. GoodHandle(s)'
    BY <1>2, <1>7, <2>1, HandleKept
  <2>6. GoodHandle(t)'
    BY <1>2, <2>2, <2>4, <2>5 DEF GoodHandle, HandleStates
  <2>7. QED
    BY <2>1, <2>3, <2>6, AnswerGood
<1>8. QED
  BY <1>4, <1>5, <1>6, <1>7, AskKept

\* A call ends, with or without an error.
LEMMA EndKept ==
    ASSUME WorkspacesInv, NEW h \in Handles, Goes(h, Raised(handle[h]))
    PROVE  WorkspacesInv' /\ Sound
<1>1. handle[h] \in HandleStates /\ GoodHandle(handle[h])
  BY DEF WorkspacesInv, TypeOK
<1>2. PICK s \in HandleStates : s = Raised(handle[h])
  BY <1>1, RaisedGood
<1>3. GoodHandle(s)
  BY <1>1, <1>2, RaisedGood
<1>4. QED
  BY <1>2, <1>3, GoesKept

\* Outside transfers and stop(), only the view, the key and the past matter.
LEMMA PcGood ==
    ASSUME NEW s \in HandleStates, GoodHandle(s), NEW p \in {"idle", "ready", "stopping", "erase"}
    PROVE  [s EXCEPT !.pc = p] \in HandleStates /\ GoodHandle([s EXCEPT !.pc = p])
BY DEF GoodHandle, HandleStates

\* Waiting reads.
LEMMA WaitKept ==
    ASSUME WorkspacesInv, NEW h \in Handles, NEW goal \in {"ready", "stopping"}, NEW over,
           WaitUntil(h, goal, over)
    PROVE  WorkspacesInv' /\ Sound
<1>1. PICK c \in HandleStates :
         /\ c = IF handle[h].pc = goal THEN handle[h] ELSE Called(h)
         /\ GoodHandle(c) /\ c.pc # "stop"
  <2>1. CASE handle[h].pc = goal
    BY <2>1 DEF WorkspacesInv, TypeOK
  <2>2. CASE handle[h].pc # goal
    BY <2>2, CalledGood DEF WaitUntil, Reads, Enter
  <2>3. QED
    BY <2>1, <2>2
<1>2. PICK s \in HandleStates : s = Refreshed(c) /\ GoodHandle(s)
  BY <1>1, ViewGood DEF Refreshed
<1>3. PICK p \in {"idle", goal} : Goes(h, [s EXCEPT !.pc = p])
  <2>1. \E deadline \in BOOLEAN :
           Goes(h, [s EXCEPT !.pc = IF ws.state \in over \/ deadline THEN "idle" ELSE goal])
    BY <1>1, <1>2, Zenon DEF WaitUntil
  <2>2. QED
    BY <2>1
<1>4. PICK t : t = [s EXCEPT !.pc = p]
  OBVIOUS
<1>5. t \in HandleStates /\ GoodHandle(t)
  BY <1>2, <1>4, PcGood
<1>6. QED
  BY <1>3, <1>4, <1>5, GoesKept

\* A configuration is the one of the view, in all fields but one.
LEMMA ConfigureKept ==
    ASSUME WorkspacesInv, NEW h \in Handles, NEW f \in Fields, Configure(h, f)
    PROVE  WorkspacesInv' /\ Sound
<1>1. /\ Called(h) \in HandleStates /\ GoodHandle(Called(h)) /\ Called(h).pc = "idle"
  BY CalledGood DEF Configure, Reads, Enter
<1>2. PICK s \in HandleStates :
         /\ s = IF handle[h].view.crev = 0 THEN Refreshed(Called(h)) ELSE Called(h)
         /\ GoodHandle(s) /\ s.pc = "idle"
  <2>1. /\ Refreshed(Called(h)) \in HandleStates /\ GoodHandle(Refreshed(Called(h)))
        /\ Refreshed(Called(h)).pc = "idle"
    BY <1>1, ViewGood DEF Refreshed, HandleStates
  <2>2. QED
    BY <1>1, <2>1
<1>3. s.view.crev \in Nat /\ s.view.cfg \in Configurations
  BY HandleFields
<1>4. /\ Body(s.view, f) \in Requests /\ Body(s.view, f).op = "configure"
      /\ Body(s.view, f).rev = s.view.crev /\ Body(s.view, f).field = f
      /\ \A g \in Fields \ {f} : Body(s.view, f).cfg[g] = s.view.cfg[g]
  <2>1. PICK cfg : cfg = [s.view.cfg EXCEPT ![f] = 1 - @]
    OBVIOUS
  <2>2. cfg \in Configurations /\ \A g \in Fields \ {f} : cfg[g] = s.view.cfg[g]
    BY <1>3, <2>1 DEF Configurations
  <2>3. Body(s.view, f) = [op |-> "configure", rev |-> s.view.crev, field |-> f, cfg |-> cfg]
    BY <2>1 DEF Body
  <2>4. QED
    BY <1>3, <2>2, <2>3 DEF Requests
<1>5. PICK r, a, b :
         /\ r \in Requests
         /\ r = Body(s.view, f) /\ a = [s EXCEPT !.view = View(Applied(r))] /\ b = Raised(s)
         /\ Ask(h, r, a, b)
  BY <1>2, <1>4, Zenon DEF Configure
<1>6. GoodRequest(r)
  BY <1>2, <1>4, <1>5 DEF GoodRequest, GoodHandle
<1>7. b \in HandleStates /\ GoodHandle(b)
  BY <1>2, <1>5, RaisedGood
<1>8. ASSUME Sound, ws' = Applied(r)
      PROVE  a \in HandleStates /\ GoodHandle(a)'
  <2>1. ws' \in WorkspaceStates /\ ws \in WorkspaceStates
    BY <1>8 DEF Sound, WorkspacesInv, TypeOK
  <2>2. GoodHandle(s)'
    BY <1>2, <1>8, <2>1, HandleKept
  <2>3. QED
    BY <1>2, <1>5, <1>8, <2>1, <2>2, AnswerGood
<1>9. QED
  BY <1>5, <1>6, <1>7, <1>8, AskKept

\* A request whose answer tells the handle nothing of the workspace.
LEMMA PlainKept ==
    ASSUME WorkspacesInv, NEW h \in Handles, NEW r \in Requests, GoodRequest(r),
           NEW a \in HandleStates, GoodHandle(a), NEW b \in HandleStates, GoodHandle(b),
           Ask(h, r, a, b)
    PROVE  WorkspacesInv' /\ Sound
<1>1. ASSUME Sound
      PROVE  GoodHandle(a)'
  BY <1>1, HandleKept DEF WorkspacesInv, TypeOK
<1>2. QED
  BY <1>1, AskKept

\* schedule() and unschedule().
LEMMA ScheduleKept ==
    ASSUME WorkspacesInv, NEW h \in Handles, NEW on \in BOOLEAN, Schedule(h, on)
    PROVE  WorkspacesInv' /\ Sound
<1>1. Called(h) \in HandleStates /\ GoodHandle(Called(h))
  BY CalledGood DEF Schedule, Enter
<1>2. [op |-> "wake", on |-> on] \in Requests
  BY DEF Requests
<1>3. PICK r, a, b :
         /\ r \in Requests
         /\ r = [op |-> "wake", on |-> on] /\ a = Called(h) /\ b = Raised(a) /\ Ask(h, r, a, b)
  BY <1>2, Zenon DEF Schedule
<1>4. GoodRequest(r)
  BY <1>3 DEF GoodRequest
<1>5. QED
  BY <1>1, <1>3, <1>4, RaisedGood, PlainKept

\* delete().
LEMMA DeleteKept ==
    ASSUME WorkspacesInv, NEW h \in Handles, Delete(h)
    PROVE  WorkspacesInv' /\ Sound
<1>1. PICK c \in HandleStates : c = Called(h) /\ GoodHandle(c)
  BY CalledGood DEF Delete, Enter
<1>2. [op |-> "delete"] \in Requests
  BY DEF Requests
<1>3. PICK r, a, b :
         /\ r \in Requests
         /\ r = [op |-> "delete"] /\ a = Confirmed(c) /\ b = Raised(c) /\ Ask(h, r, a, b)
  BY <1>1, <1>2, Zenon DEF Delete
<1>4. GoodRequest(r)
  BY <1>3 DEF GoodRequest
<1>5. a \in HandleStates /\ GoodHandle(a)
  BY <1>1, <1>3 DEF Confirmed, GoodHandle, HandleStates
<1>6. b \in HandleStates /\ GoodHandle(b)
  BY <1>1, <1>3, RaisedGood
<1>7. QED
  BY <1>3, <1>4, <1>5, <1>6, PlainKept

\* delete_files() reads, then erases.
LEMMA EraseKept ==
    ASSUME WorkspacesInv, NEW h \in Handles, DeleteFiles(h) \/ EraseFiles(h)
    PROVE  WorkspacesInv' /\ Sound
<1>1. CASE DeleteFiles(h)
  <2>1. Called(h) \in HandleStates /\ GoodHandle(Called(h)) /\ Called(h).pc = "idle"
    BY <1>1, CalledGood DEF DeleteFiles, Reads, Enter
  <2>2. PICK s \in HandleStates : s = Refreshed(Called(h)) /\ GoodHandle(s)
    BY <2>1, ViewGood DEF Refreshed
  <2>3. PICK t : t = [s EXCEPT !.pc = "erase"]
    OBVIOUS
  <2>4. t \in HandleStates /\ GoodHandle(t)
    BY <2>2, <2>3, PcGood
  <2>5. Goes(h, t)
    BY <1>1, <2>2, <2>3 DEF DeleteFiles
  <2>6. QED
    BY <2>4, <2>5, GoesKept
<1>2. CASE EraseFiles(h)
  <2>1. PICK s \in HandleStates : s = handle[h] /\ GoodHandle(s)
    BY DEF WorkspacesInv, TypeOK
  <2>2. [op |-> "erase", base |-> s.view.files] \in Requests
    BY HandleFields DEF Requests
  <2>3. PICK r, a :
           /\ r \in Requests
           /\ r = [op |-> "erase", base |-> s.view.files] /\ a = Raised(s) /\ Ask(h, r, a, a)
    BY <1>2, <2>1, <2>2, Zenon DEF EraseFiles
  <2>4. GoodRequest(r)
    BY <2>3 DEF GoodRequest
  <2>5. a \in HandleStates /\ GoodHandle(a)
    BY <2>1, <2>3, RaisedGood
  <2>6. QED
    BY <2>3, <2>4, <2>5, PlainKept
<1>3. QED
  BY <1>1, <1>2

\* upload() reads, and starts a transfer under a key of its own.
LEMMA UploadKept ==
    ASSUME WorkspacesInv, NEW h \in Handles, Upload(h)
    PROVE  WorkspacesInv' /\ Sound
<1>1. /\ Called(h) \in HandleStates /\ GoodHandle(Called(h)) /\ Called(h).pc = "idle"
      /\ Fresh(h) \in Keys /\ Called(h).intent = NoKey
  BY CalledGood DEF Upload, Reads, Enter, Called, HandleStates
<1>2. PICK s \in HandleStates : s = Refreshed(Called(h)) /\ GoodHandle(s)
  BY <1>1, ViewGood DEF Refreshed
<1>3. s.intent = NoKey
  BY <1>1, <1>2 DEF Refreshed, HandleStates
<1>4. PICK k, t :
         /\ k \in Keys
         /\ t = [s EXCEPT !.pc = "begin", !.key = k, !.skip = {}] /\ Goes(h, t)
  BY <1>1, <1>2 DEF Upload
<1>5. t \in HandleStates
  BY <1>4 DEF HandleStates
<1>6. GoodHandle(t)
  BY <1>2, <1>3, <1>4, NoKeyIsNone DEF GoodHandle, HandleStates
<1>7. QED
  BY <1>4, <1>5, <1>6, GoesKept

\* An interrupted transfer keeps its key.
LEMMA InterruptedGood ==
    ASSUME NEW s \in HandleStates, GoodHandle(s), s.key # NoKey
    PROVE  Interrupted(s) \in HandleStates /\ GoodHandle(Interrupted(s))
BY DEF Interrupted, GoodHandle, HandleStates

\* A transfer is begun with what was read, and skips what is stored.
LEMMA BeginKept ==
    ASSUME WorkspacesInv, NEW h \in Handles, Begin(h)
    PROVE  WorkspacesInv' /\ Sound
<1>1. PICK s \in HandleStates : s = handle[h] /\ GoodHandle(s)
  BY DEF WorkspacesInv, TypeOK
<1>2. s.pc = "begin" /\ s.key \in Keys /\ s.view.files \in Nat
  BY <1>1, HandleFields DEF Begin, GoodHandle
<1>3. PICK r, a, b :
         /\ r \in Requests
         /\ r = [op |-> "begin", key |-> s.key, seen |-> s.view.files, base |-> s.view.files]
         /\ a = Transfer(s, Applied(r)) /\ b = Interrupted(s) /\ Ask(h, r, a, b)
  <2>1. [op |-> "begin", key |-> s.key, seen |-> s.view.files, base |-> s.view.files]
           \in Requests
    BY <1>2 DEF Requests
  <2>2. QED
    BY <1>1, <2>1, Zenon DEF Begin, ReplaceRevision
<1>3a. r \in Requests
  BY <1>3
<1>4. GoodRequest(r)
  BY <1>3 DEF GoodRequest
<1>5. b \in HandleStates /\ GoodHandle(b)
  BY <1>1, <1>2, <1>3, InterruptedGood, NoKeyIsNone
<1>6. ASSUME Sound, Accepts(r), ws' = Applied(r)
      PROVE  a \in HandleStates /\ GoodHandle(a)'
  <2>1. ws' \in WorkspaceStates /\ ws \in WorkspaceStates /\ GoodWorkspace
    BY <1>6 DEF Sound, WorkspacesInv, TypeOK
  <2>2. Known(s.key)'
    <3>1. r.op = "begin" /\ r.key = s.key
      BY <1>3
    <3>2. Known(r.key)'
      BY <1>3a, <1>4, <1>6, <2>1, <3>1, BeginSound
    <3>3. QED
      BY <3>1, <3>2 DEF Known
  <2>3. a = Transfer(s, ws')
    BY <1>3, <1>6
  <2>4. CASE s.key \in ws'.abandoned
    <3>1. a = Raised(s)
      BY <2>3, <2>4 DEF Transfer
    <3>2. a \in HandleStates /\ GoodHandle(a)
      BY <1>1, <3>1, RaisedGood
    <3>3. QED
      BY <1>6, <2>1, <3>2, HandleKept
  <2>5. CASE s.key \notin ws'.abandoned
    <3>1. PICK p \in {"put", "verify"}, stored \in SUBSET Segments :
             a = [s EXCEPT !.pc = p, !.skip = stored] /\ stored = ws'.upload.stored
      <4>1. ws'.upload.stored \in SUBSET Segments
        BY <2>1 DEF WorkspaceStates, Uploads
      <4>2. QED
        BY <2>3, <2>5, <4>1 DEF Transfer
    <3>2. a \in HandleStates
      BY <3>1 DEF HandleStates
    <3>3. GoodHandle(s)'
      BY <1>1, <1>6, <2>1, HandleKept
    <3>4. s.key # NoKey
      BY <1>2, NoKeyIsNone
    <3>5. GoodHandle(a)'
      BY <2>2, <3>1, <3>3, <3>4 DEF GoodHandle, HandleStates
    <3>6. QED
      BY <3>2, <3>5
  <2>6. QED
    BY <2>4, <2>5
<1>7. QED
  BY <1>3, <1>4, <1>5, <1>6, AskKept

\* A segment that is skipped from now on is stored.
LEMMA PutKept ==
    ASSUME WorkspacesInv, NEW h \in Handles, Put(h)
    PROVE  WorkspacesInv' /\ Sound
<1>1. PICK s \in HandleStates : s = handle[h] /\ GoodHandle(s)
  BY DEF WorkspacesInv, TypeOK
<1>2. s.pc = "put" /\ s.key \in Keys /\ s.skip \subseteq Segments
  BY <1>1, HandleFields DEF Put, GoodHandle
<1>3. PICK next, r, a, b :
         /\ next \in Segments /\ r \in Requests
         /\ r = [op |-> "put", key |-> s.key, index |-> next]
         /\ a = [s EXCEPT !.skip = s.skip \cup {next}] /\ b = Interrupted(s)
         /\ Ask(h, r, a, b)
  <2>1. PICK next \in Segments :
           Ask(h, [op |-> "put", key |-> s.key, index |-> next],
               [s EXCEPT !.skip = s.skip \cup {next}], Interrupted(s))
    BY <1>1 DEF Put
  <2>2. [op |-> "put", key |-> s.key, index |-> next] \in Requests
    BY <1>2 DEF Requests
  <2>3. PICK r \in Requests : r = [op |-> "put", key |-> s.key, index |-> next]
    BY <2>2
  <2>4. PICK a : a = [s EXCEPT !.skip = s.skip \cup {next}]
    OBVIOUS
  <2>5. Ask(h, r, a, Interrupted(s))
    BY <2>1, <2>3, <2>4, Zenon
  <2>6. QED
    BY <2>3, <2>4, <2>5, Zenon
<1>3a. r \in Requests
  BY <1>3
<1>4. GoodRequest(r) /\ r.op = "put" /\ r.key = s.key /\ r.index = next
  BY <1>3 DEF GoodRequest
<1>5. b \in HandleStates /\ GoodHandle(b)
  BY <1>1, <1>2, <1>3, InterruptedGood, NoKeyIsNone
<1>6. ASSUME Sound, Accepts(r), ws' = Applied(r)
      PROVE  a \in HandleStates /\ GoodHandle(a)'
  <2>1. ws' \in WorkspaceStates /\ ws \in WorkspaceStates /\ GoodWorkspace
    BY <1>6 DEF Sound, WorkspacesInv, TypeOK
  <2>2. /\ ws'.upload.stored = ws.upload.stored \cup {r.index} /\ ws'.upload.id = r.key
        /\ ws.upload.id = r.key
    BY <1>3a, <1>4, <1>6, <2>1, PutSound DEF Accepts
  <2>3. PICK skip : skip = s.skip \cup {next}
    OBVIOUS
  <2>4. skip \subseteq Segments /\ a = [s EXCEPT !.skip = skip]
    BY <1>2, <1>3, <2>3
  <2>5. skip \subseteq ws'.upload.stored
    <3>1. s.skip \subseteq ws.upload.stored
      BY <1>1, <1>2, <1>4, <2>2 DEF GoodHandle
    <3>2. QED
      BY <1>4, <2>2, <2>3, <3>1
  <2>6. GoodHandle(s)'
    BY <1>1, <1>6, <2>1, HandleKept
  <2>7. a \in HandleStates
    BY <2>4 DEF HandleStates
  <2>8. GoodHandle(a)'
    BY <2>4, <2>5, <2>6 DEF GoodHandle, HandleStates
  <2>9. QED
    BY <2>7, <2>8
<1>7. QED
  BY <1>3, <1>4, <1>5, <1>6, AskKept

\* A transfer is finalized when every segment is stored.
LEMMA FinalizeKept ==
    ASSUME WorkspacesInv, NEW h \in Handles, Finalize(h)
    PROVE  WorkspacesInv' /\ Sound
<1>1. PICK s \in HandleStates : s = handle[h] /\ GoodHandle(s)
  BY DEF WorkspacesInv, TypeOK
<1>2. s.pc = "put" /\ s.key \in Keys /\ s.skip = Segments /\ s.key # NoKey
  BY <1>1, HandleFields, NoKeyIsNone DEF Finalize, GoodHandle
<1>3. PICK r, a, b :
         /\ r \in Requests
         /\ r = [op |-> "finalize", key |-> s.key]
         /\ a = [s EXCEPT !.pc = "verify"] /\ b = Interrupted(s) /\ Ask(h, r, a, b)
  <2>1. [op |-> "finalize", key |-> s.key] \in Requests
    BY <1>2 DEF Requests
  <2>2. QED
    BY <1>1, <2>1, Zenon DEF Finalize
<1>4. GoodRequest(r)
  <2>1. r.op = "finalize" /\ r.key = s.key
    BY <1>3
  <2>2. Known(r.key) /\ (ws.upload.id = r.key => Segments \subseteq ws.upload.stored)
    BY <1>1, <1>2, <2>1 DEF GoodHandle
  <2>3. ws.upload.stored \subseteq Segments
    BY WorkspaceFields DEF WorkspacesInv, TypeOK
  <2>4. QED
    BY <2>1, <2>2, <2>3 DEF GoodRequest
<1>5. b \in HandleStates /\ GoodHandle(b)
  BY <1>1, <1>2, <1>3, InterruptedGood
<1>6. a \in HandleStates /\ GoodHandle(a)
  BY <1>1, <1>2, <1>3 DEF GoodHandle, HandleStates
<1>7. QED
  BY <1>3, <1>4, <1>5, <1>6, PlainKept

\* The upload awaits its verification.
LEMMA VerifyKept ==
    ASSUME WorkspacesInv, NEW h \in Handles, AwaitVerified(h)
    PROVE  WorkspacesInv' /\ Sound
<1>1. PICK s \in HandleStates : s = handle[h] /\ GoodHandle(s) /\ s.pc = "verify"
  BY DEF WorkspacesInv, TypeOK, AwaitVerified
<1>2. PICK t \in HandleStates : t = Refreshed(s) /\ GoodHandle(t)
  BY <1>1, ViewGood DEF Refreshed
<1>3. PICK e : e \in {t, Raised(t)} /\ Goes(h, e)
  <2>1. PICK deadline \in BOOLEAN :
           Goes(h, IF t.view.upload = NoKey \/ deadline THEN Raised(t) ELSE t)
    BY <1>1, <1>2, Zenon DEF AwaitVerified
  <2>2. QED
    BY <2>1
<1>4. e \in HandleStates /\ GoodHandle(e)
  BY <1>2, <1>3, RaisedGood
<1>5. QED
  BY <1>3, <1>4, GoesKept

\* An interrupted upload is repeated under its key, or left.
LEMMA RetryKept ==
    ASSUME WorkspacesInv, NEW h \in Handles, Retry(h)
    PROVE  WorkspacesInv' /\ Sound
<1>1. PICK s \in HandleStates : s = handle[h] /\ GoodHandle(s) /\ s.pc = "interrupted"
  BY DEF WorkspacesInv, TypeOK, Retry
<1>2. CASE Goes(h, [s EXCEPT !.pc = "begin", !.calls = s.calls + 1])
  <2>1. PICK n \in Nat : n = s.calls + 1
    BY HandleFields
  <2>2. PICK t : t = [s EXCEPT !.pc = "begin", !.calls = n]
    OBVIOUS
  <2>3. t \in HandleStates
    BY <2>2 DEF HandleStates
  <2>4. GoodHandle(t)
    BY <1>1, <2>2 DEF GoodHandle, HandleStates
  <2>5. QED
    BY <1>2, <2>1, <2>2, <2>3, <2>4, GoesKept
<1>3. CASE Goes(h, Raised(handle[h]))
  BY <1>3, EndKept
<1>4. QED
  BY <1>1, <1>2, <1>3 DEF Retry

-----------------------------------------------------------------------------
(* The theorems.                                                           *)

\* Every step keeps the invariant, and is sound for the workspace.
LEMMA NextKept ==
    ASSUME WorkspacesInv, [Next]_vars
    PROVE  WorkspacesInv' /\ Sound
<1>1. ws \in WorkspaceStates /\ GoodWorkspace /\ late \subseteq Requests
  BY DEF WorkspacesInv, TypeOK
<1>2. CASE UNCHANGED vars
  BY <1>1, <1>2, SameSound, IdleKept DEF vars
<1>3. CASE ServerStep
  BY <1>1, <1>3, ServerSound, IdleKept DEF ServerStep
<1>4. ASSUME NEW r \in late, Arrive(r)
      PROVE  WorkspacesInv' /\ Sound
  <2>1. r \in Requests /\ GoodRequest(r)
    BY <1>1 DEF WorkspacesInv
  <2>2. Sound
    BY <1>1, <1>4, <2>1, AppliedSound DEF Arrive
  <2>3. QED
    BY <1>4, <2>2, IdleKept DEF Arrive
<1>5. ASSUME NEW h \in Handles, HandleStep(h)
      PROVE  WorkspacesInv' /\ Sound
  <2>1. CASE Start(h) \/ Stop(h) \/ StopSession(h)
    BY <2>1, StartKept, StopKept, StopSessionKept
  <2>2. CASE Return(h) \/ Missing(h) \/ TaskCancelled(h)
    BY <2>2, EndKept DEF Return, Missing, TaskCancelled
  <2>3. CASE WaitReady(h) \/ WaitStopped(h)
    BY <2>3, WaitKept DEF WaitReady, WaitStopped
  <2>4. CASE \E f \in Fields : Configure(h, f)
    BY <2>4, ConfigureKept
  <2>5. CASE \E on \in BOOLEAN : Schedule(h, on)
    BY <2>5, ScheduleKept
  <2>6. CASE Delete(h) \/ DeleteFiles(h) \/ EraseFiles(h)
    BY <2>6, DeleteKept, EraseKept
  <2>7. CASE Upload(h) \/ Begin(h) \/ Put(h) \/ Finalize(h) \/ AwaitVerified(h) \/ Retry(h)
    BY <2>7, UploadKept, BeginKept, PutKept, FinalizeKept, VerifyKept, RetryKept
  <2>8. QED
    BY <1>5, <2>1, <2>2, <2>3, <2>4, <2>5, <2>6, <2>7 DEF HandleStep
<1>6. QED
  BY <1>2, <1>3, <1>4, <1>5 DEF Next

\* It holds at the beginning.
LEMMA InitGood == Init => WorkspacesInv
<1> SUFFICES ASSUME Init PROVE WorkspacesInv
  OBVIOUS
<1>1. [f \in Fields |-> 0] \in Configurations
  BY DEF Configurations
<1>2. /\ ws.state = "stopped" /\ ws.session = 0 /\ ws.begun = 0 /\ ws.starts = {}
      /\ ws.upload = NoUpload /\ ws.crev = 1
  BY DEF Init
<1>3. ws \in WorkspaceStates
  <2>1. FALSE \in BOOLEAN
    OBVIOUS
  <2>2. \A c \in Configurations, b \in BOOLEAN, e \in BOOLEAN :
           [state |-> "stopped", session |-> 0, begun |-> 0, instance |-> e, starts |-> {},
            files |-> 0, saved |-> b, upload |-> NoUpload, wake |-> b,
            committed |-> {}, abandoned |-> {}, cfg |-> c, crev |-> 1, named |-> {}]
              \in WorkspaceStates
    BY NoUploadType DEF WorkspaceStates, States
  <2>3. QED
    BY <1>1, <2>1, <2>2, Zenon DEF Init
<1>4. PICK s : s = [pc |-> "idle", view |-> NoView, calls |-> 0, deleted |-> FALSE,
                    intent |-> NoKey, key |-> NoKey, skip |-> {},
                    offered |-> 0, began |-> 0]
  OBVIOUS
<1>5. NoView \in Views /\ NoView.crev = 0
  BY <1>1 DEF NoView, Views
<1>6. s \in HandleStates
  <2>1. FALSE \in BOOLEAN
    OBVIOUS
  <2>2. \A v \in Views, b \in BOOLEAN :
           [pc |-> "idle", view |-> v, calls |-> 0, deleted |-> b,
            intent |-> NoKey, key |-> NoKey, skip |-> {}, offered |-> 0, began |-> 0]
              \in HandleStates
    BY DEF HandleStates
  <2>3. QED
    BY <1>4, <1>5, <2>1, <2>2, Zenon
<1>7. GoodHandle(s)
  BY <1>2, <1>4, <1>5 DEF GoodHandle, Available
<1>8. \A h \in Handles : handle[h] = s
  BY <1>4 DEF Init
<1>9. handle \in [Handles -> HandleStates]
  BY <1>4, <1>6 DEF Init
<1>10. \A h \in Handles : GoodHandle(handle[h])
  BY <1>7, <1>8
<1>11. GoodWorkspace
  BY <1>2 DEF GoodWorkspace, GoodCompute, GoodStarts, GoodFiles, FinalizedWhole, NoUpload, Idle, Active
<1>12. QED
  BY <1>3, <1>9, <1>10, <1>11 DEF WorkspacesInv, TypeOK, Init

\* Every behaviour of the workspace and its handles keeps the invariant.
THEOREM WorkspacesInvariant == Spec => []WorkspacesInv
<1>1. Init => WorkspacesInv
  BY InitGood
<1>2. WorkspacesInv /\ [Next]_vars => WorkspacesInv'
  BY NextKept
<1>3. QED
  BY <1>1, <1>2, PTL DEF Spec

\* stop(): when it returns without an error, the session that was available
\* when it was called is stopping or over (_workspaces.py, stop).
THEOREM SessionEnded == Spec => []StopEndsSession
<1>1. WorkspacesInv => StopEndsSession
  BY WorkspaceFields
     DEF WorkspacesInv, TypeOK, GoodWorkspace, GoodCompute, GoodHandle, StopEndsSession, Active
<1>2. QED
  BY <1>1, WorkspacesInvariant, PTL

\* start(): all that a logical start begins, although it is repeated after its
\* answer was lost, is begun under one key; an instance, whose start is replayed,
\* is rented once (_workspaces.py, start, _with_key and _uncertain).  A workspace
\* with files may be rented again by a repetition that arrives after its session.
THEOREM OneRental == Spec => []OneSessionPerIntent
<1>1. WorkspacesInv => OneSessionPerIntent
  BY DEF WorkspacesInv, GoodWorkspace, GoodCompute, GoodStarts, OneSessionPerIntent
<1>2. QED
  BY <1>1, WorkspacesInvariant, PTL

\* _transfer(): a transfer is finalized only when the server has every segment.
THEOREM WholeUploads == Spec => []FinalizedWhole
<1>1. WorkspacesInv => FinalizedWhole
  BY DEF WorkspacesInv, GoodWorkspace, GoodFiles
<1>2. QED
  BY <1>1, WorkspacesInvariant, PTL

\* upload_files(): saved files are replaced only by an upload whose caller has
\* seen the revision that is replaced.
THEOREM FilesKept == Spec => NoFilesOverwritten
<1>1. WorkspacesInv /\ [Next]_vars => [FilesSeen]_vars
  BY NextKept DEF Sound, FilesSound
<1>2. QED
  BY <1>1, WorkspacesInvariant, PTL DEF Spec, NoFilesOverwritten, FilesSeen

\* configure(): a change made through another handle is never undone.
THEOREM ChangesKept == Spec => NoChangeUndone
<1>1. WorkspacesInv /\ [Next]_vars => [FieldsNamed]_vars
  BY NextKept DEF Sound, ConfigurationSound
<1>2. QED
  BY <1>1, WorkspacesInvariant, PTL DEF Spec, NoChangeUndone, FieldsNamed
=============================================================================
