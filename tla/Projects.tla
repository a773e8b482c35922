------------------------------- MODULE Projects -------------------------------
(***************************************************************************)
(* A local project is packed, uploaded as an asset and made into a sandbox *)
(* or a managed agent, or uploaded by the MCP tool only                    *)
(* (nodus/_projects.py, _assets.py, _mcp_transfers.py, the create methods  *)
(* of _sandboxes.py and _managed_agents.py).  The caller repeats a call    *)
(* with its idempotency key; in between the project is edited, the program *)
(* restarts and loses its cache, and a lost request may still be applied.  *)
(* Threads or tasks of one program share its cache.                        *)
(*                                                                         *)
(* The server is external: it keeps one asset per upload key and one       *)
(* object per kind and key, and refuses either with other contents.  All   *)
(* calls use one idempotency key.                                          *)
(***************************************************************************)
EXTENDS Naturals, FiniteSets

CONSTANTS Tasks,        \* threads of a Client, or tasks of an AsyncClient
          MaxTries,     \* bound: calls, repeated ones included
          MaxEvents     \* bound: edits and restarts

ProjectsAssumption == MaxTries \in Nat /\ MaxEvents \in Nat

VARIABLES
    async,     \* the program has an AsyncClient, or a Client
    project,   \* what the folder holds
    cache,     \* <<kind, digest>>: _project_uploads
    assets,    \* <<upload key, digest>>: the server's assets
    objects,   \* <<kind, digest>>: what the server created
    calls,     \* task -> [pc, kind, digest, source]: source is what the asset holds
    late,      \* [what, kind, digest]: requests without an answer that may be applied
    used,      \* <<kind, digest>>: what was given under the key
    tries,     \* calls so far
    events     \* edits and restarts so far

vars == <<async, project, cache, assets, objects, calls, late, used, tries, events>>

Contents == {"a", "b"}
Kinds == {"sandbox", "agent", "tool"}
Over == {"idle", "returned", "conflict", "unready", "failed", "stopped"}

TypeOK ==
    /\ async \in BOOLEAN /\ project \in Contents
    /\ cache \subseteq (Kinds \X Contents) /\ objects \subseteq (Kinds \X Contents)
    /\ assets \subseteq (Kinds \X Contents) /\ used \subseteq (Kinds \X Contents)
    /\ calls \in [Tasks -> [pc: Over \cup {"upload", "create"}, kind: Kinds,
                            digest: Contents, source: Contents]]
    /\ late \subseteq [what: {"upload", "create"}, kind: Kinds, digest: Contents]
    /\ tries \in 0 .. MaxTries /\ events \in 0 .. MaxEvents

Init ==
    /\ async \in BOOLEAN /\ project = "a"
    /\ cache = {} /\ assets = {} /\ objects = {} /\ late = {} /\ used = {}
    /\ calls = [t \in Tasks |-> [pc |-> "idle", kind |-> "sandbox", digest |-> "a",
                            source |-> "a"]]
    /\ tries = 0 /\ events = 0

-----------------------------------------------------------------------------
(* The server.                                                             *)

\* mutant: the caller's key alone names the asset.
UploadKeyBare(kind) == "sandbox"

\* _upload_key: the kind of creation is part of the name of the asset; the tool uses
\* the caller's key as it is.
UploadKey(kind) == kind

Takes(store, name, digest) == \A entry \in store : entry[1] = name => entry[2] = digest

Upload(kind, digest) ==
    assets' = IF Takes(assets, UploadKey(kind), digest) THEN assets \cup {<<UploadKey(kind), digest>>}
              ELSE assets

Create(kind, digest) ==
    objects' = IF Takes(objects, kind, digest) THEN objects \cup {<<kind, digest>>} ELSE objects

AppliedLate ==
    /\ \E r \in late :
          /\ late' = late \ {r}
          /\ IF r.what = "upload" THEN Upload(r.kind, r.digest) /\ UNCHANGED objects
             ELSE Create(r.kind, r.digest) /\ UNCHANGED assets
    /\ UNCHANGED <<async, project, cache, calls, used, tries, events>>

-----------------------------------------------------------------------------
(* The user and the program.                                               *)

Edit ==
    /\ events < MaxEvents
    /\ \E content \in Contents \ {project} : project' = content
    /\ events' = events + 1 /\ UNCHANGED <<async, cache, assets, objects, calls, late, used, tries>>

Sent(t) == [what |-> calls[t].pc, kind |-> calls[t].kind,
            digest |-> IF calls[t].pc = "upload" THEN calls[t].digest ELSE calls[t].source]

\* The program ends and starts again: its requests may still be on their way.
Restart ==
    /\ events < MaxEvents /\ events' = events + 1
    /\ cache' = {}
    /\ late' = late \cup {Sent(t) : t \in {u \in Tasks : calls[u].pc \in {"upload", "create"}}}
    /\ calls' = [t \in Tasks |-> IF calls[t].pc \in Over THEN calls[t]
                                 ELSE [calls[t] EXCEPT !.pc = "stopped"]]
    /\ UNCHANGED <<async, project, assets, objects, used, tries>>

Ends(t, how) == calls' = [calls EXCEPT ![t].pc = how]

\* mutant: an upload that was made under the key serves whatever is packed now.
CacheRefusesNever(kind, digest) == FALSE

\* _cached: another content than before under this kind and key.
CacheRefuses(kind, digest) == kind # "tool" /\ ~Takes(cache, kind, digest)

Cached(kind) == {entry[2] : entry \in {e \in cache : e[1] = kind}}

\* The project is packed and compared with the cache.
Packs(t, kinds) ==
    /\ calls[t].pc \in Over /\ tries < MaxTries /\ tries' = tries + 1
    /\ \E kind \in kinds :
          /\ used' = used \cup {<<kind, project>>}
          /\ calls' = [calls EXCEPT ![t] =
                [pc |-> IF CacheRefuses(kind, project) THEN "conflict"
                        ELSE IF Cached(kind) # {} THEN "create" ELSE "upload",
                 kind |-> kind, digest |-> project,
                 source |-> IF Cached(kind) # {} THEN CHOOSE c \in Cached(kind) : TRUE ELSE project]]
    /\ UNCHANGED <<async, project, cache, assets, objects, late, events>>

\* upload_project and upload_project_async, of create
Pack(t) == ~async /\ Packs(t, {"sandbox", "agent"})
AsyncPack(t) == async /\ Packs(t, {"sandbox", "agent"})

\* The MCP tool upload_project
ToolPack(t) == async /\ Packs(t, {"tool"})

\* Assets.upload with _upload_headers: the asset is ready, not ready, or the key has
\* another content.
Uploaded(t) ==
    LET kind == calls[t].kind
        digest == calls[t].digest
    IN /\ calls[t].pc = "upload" /\ Upload(kind, digest)
       /\ \/ /\ ~Takes(assets, UploadKey(kind), digest)
             /\ Ends(t, "conflict") /\ UNCHANGED cache
          \/ /\ Takes(assets, UploadKey(kind), digest)
             /\ IF kind = "tool" THEN Ends(t, "returned") /\ UNCHANGED cache
                ELSE Ends(t, "create") /\ cache' = {e \in cache : e[1] # kind} \cup {<<kind, digest>>}
          \/ Ends(t, "unready") /\ UNCHANGED cache
       /\ UNCHANGED <<async, project, objects, late, used, tries, events>>

\* The creation is answered: created, replayed, or refused for another body.
Made(t) ==
    /\ calls[t].pc = "create" /\ Create(calls[t].kind, calls[t].source)
    /\ Ends(t, IF Takes(objects, calls[t].kind, calls[t].source) THEN "returned" ELSE "conflict")
    /\ UNCHANGED <<async, project, cache, assets, late, used, tries, events>>

\* Sandboxes.create, AsyncSandboxes.create, ManagedAgents.create
Created(t) == ~async /\ calls[t].kind = "sandbox" /\ Made(t)
AsyncCreated(t) == async /\ calls[t].kind = "sandbox" /\ Made(t)
AgentCreated(t) == calls[t].kind = "agent" /\ Made(t)

\* Assets._request and Client._request: no answer; applied, not applied, or later.
Unanswered(t) ==
    /\ calls[t].pc \in {"upload", "create"} /\ Ends(t, "failed")
    /\ \E fate \in {"applied", "lost", "late"} :
          /\ IF fate = "applied" /\ calls[t].pc = "upload" THEN Upload(calls[t].kind, calls[t].digest)
             ELSE UNCHANGED assets
          /\ IF fate = "applied" /\ calls[t].pc = "create" THEN Create(calls[t].kind, calls[t].source)
             ELSE UNCHANGED objects
          /\ late' = IF fate = "late" THEN late \cup {Sent(t)} ELSE late
    /\ UNCHANGED <<async, project, cache, used, tries, events>>

Next ==
    \/ AppliedLate \/ Edit \/ Restart
    \/ \E t \in Tasks :
          \/ Pack(t) \/ AsyncPack(t) \/ ToolPack(t) \/ Uploaded(t)
          \/ Created(t) \/ AsyncCreated(t) \/ AgentCreated(t) \/ Unanswered(t)

Spec == Init /\ [][Next]_vars

-----------------------------------------------------------------------------
(* What a creation returns was made from the project that this call        *)
(* packed, not from an earlier state of the folder or another kind's       *)
(* upload under the same key (_projects.py:185-220, _sandboxes.py:545-560, *)
(* _managed_agents.py:108-122).                                            *)
MadeFromThis ==
    \A t \in Tasks :
        calls[t].pc = "returned" /\ calls[t].kind # "tool" =>
            <<calls[t].kind, calls[t].digest>> \in objects

(* A key is refused only to who used it for this kind with another         *)
(* content: not for its use with another kind, and not after a restart     *)
(* with the same files (_projects.py:194-207).                             *)
RefusedForChange ==
    \A t \in Tasks :
        calls[t].pc = "conflict" =>
            \E digest \in Contents \ {calls[t].digest} : <<calls[t].kind, digest>> \in used
=============================================================================
