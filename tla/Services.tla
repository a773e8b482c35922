------------------------------ MODULE Services ------------------------------
(***************************************************************************)
(* Nineteen parts of the SDK: executions in a sandbox, its files,          *)
(* downloads, broker and model calls, artifacts, login, launch, listings,  *)
(* the command line, the packing of a directory, pools, their totals, the  *)
(* display of a workload's progress, uploads of projects, imports, changes *)
(* of services, events of trainers, asynchronous tasks and the assistant.  *)
(* They share no state, so a behaviour belongs to one of them, `part`, and *)
(* the variables of the others are Off.                                    *)
(***************************************************************************)
EXTENDS Integers

CONSTANTS
    None, Original, User,
    MaxFrames, OutputPage, Timeouts, LongPoll, PollTimes,         \* Executions
    Writers, Uploaders, FileChunks, MaxWrites, MaxFileEdits,      \* RemoteFiles
    Downloaders, FilePieces, MaxUser,                             \* Downloads
    Program, JournalPages, MaxDrivers,                            \* AgentCalls
    BlobChunks, BlobSessions, MaxPuts,                            \* Artifacts
    Logins, Lifetime, PollInterval, MaxInterval, RetryAfters, RequestTimes,  \* Login
    MaxLaunches, MachineSessions,                                 \* Launch
    Items, NamedItems, PageSize,                                  \* Listings
    MaxCommands, MaxObjects,                                      \* Commands
    MaxTreeEdits,                                                 \* Snapshots
    PoolThreads, PoolTasks, Topics, ProposalLifetime, MaxPoolCalls,  \* Pools
    Day, Cycle, Hours,                                            \* Measurements
    EntryPage, MaxEntries, MaxRounds,                             \* Progress
    Packers, MaxCreations, MaxEvents,                             \* Projects
    QueryWait, QueryHttp, QueryPoll,                              \* Imports
    MaxChanges, MaxAttempts,                                      \* Mutations
    Reporters, MaxReports, Texts, Attempts, MaxBytes, Numbers,    \* RLEvents
    MaxRetries, MaxRuns,                                          \* AsyncTasks
    Sizes, MaxInput, MaxTurns, MaxTalks, MaxDeaths                \* Assistant

VARIABLES
    part,
    process, output, waiter,                             \* Executions
    content, contents, receipts, wires, local, writer, reading,   \* RemoteFiles
    directory, present, temporary, pull, user,           \* Downloads
    session, segment, record, driver, admissions,        \* AgentCalls
    storage, epoch, object, put, get, transit,           \* Artifacts
    file, login, console, logout, kept,                  \* Login
    server, launch,                                      \* Launch
    items, steady, reader,                               \* Listings
    intent, command, account,                            \* Commands
    tree, aside, version, changed, edits, moments, pack,  \* Snapshots
    topic, minute, pool, burst, act, callers, pending,    \* Pools
    window, rows, totals, judge,                          \* Measurements
    work, live, view, todo, missed, printed, waiting,     \* Progress
    async, project, cache, assets, objects, creations, unanswered, used, tries, events,  \* Projects
    export, importer, clock,                              \* Imports
    kind, change, passed, wire, history,                  \* Mutations
    about, lock, thread, stdout, stored, reported, size,  \* RLEvents
    explicit, task, requests, afloat, service,            \* AsyncTasks
    tasks, run, conversation, restorable, captured, answer, paid, turns, worker, deaths  \* Assistant

Exec == INSTANCE Executions WITH reader <- output, PageCap <- OutputPage

Files == INSTANCE RemoteFiles WITH
    file <- content, transit <- wires, download <- reading,
    Chunks <- FileChunks, MaxCalls <- MaxWrites, MaxEdits <- MaxFileEdits

Down == INSTANCE Downloads WITH call <- pull, Pieces <- FilePieces

Calls == INSTANCE AgentCalls WITH
    epoch <- session, call <- record, transit <- admissions,
    Pages <- JournalPages, MaxSessions <- MaxDrivers

Blobs == INSTANCE Artifacts WITH
    Chunks <- BlobChunks, MaxSessions <- BlobSessions, MaxCalls <- MaxPuts

SignIn == INSTANCE Login WITH Interval <- PollInterval

Machines == INSTANCE Launch WITH
    call <- launch, MaxCalls <- MaxLaunches, MaxSessions <- MachineSessions

List == INSTANCE Listings WITH Named <- NamedItems

Typed == INSTANCE Commands WITH
    process <- command, server <- account, Objects <- MaxObjects, MaxTries <- MaxCommands

Packed == INSTANCE Snapshots WITH call <- pack, MaxEdits <- MaxTreeEdits

Rented == INSTANCE Pools WITH
    now <- minute, calls <- callers, late <- pending,
    Threads <- PoolThreads, Tasks <- PoolTasks, Lifetime <- ProposalLifetime,
    MaxCalls <- MaxPoolCalls

Totals == INSTANCE Measurements WITH topic <- window, answer <- totals, reader <- judge

Shown == INSTANCE Progress WITH PageCap <- EntryPage

Uploads == INSTANCE Projects WITH
    calls <- creations, late <- unanswered, Tasks <- Packers, MaxTries <- MaxCreations

Exports == INSTANCE Imports WITH caller <- importer, now <- clock

Changes == INSTANCE Mutations WITH
    call <- change, object <- passed, MaxTries <- MaxChanges

Emitted == INSTANCE RLEvents WITH Threads <- Reporters

Awaited == INSTANCE AsyncTasks

Talk == INSTANCE Assistant WITH MaxRuns <- MaxTalks

ASSUME InstancesMeetTheirAssumptions ==
    /\ Exec!ExecutionAssumption /\ Files!RemoteFilesAssumption /\ Down!DownloadsAssumption
    /\ Calls!AgentCallsAssumption /\ Blobs!ArtifactsAssumption /\ SignIn!LoginAssumption
    /\ Machines!LaunchAssumption /\ List!ListingAssumption
    /\ Typed!CommandsAssumption /\ Packed!SnapshotsAssumption
    /\ Rented!PoolsAssumption /\ Totals!MeasurementsAssumption /\ Shown!ProgressAssumption
    /\ Uploads!ProjectsAssumption /\ Exports!ImportsAssumption /\ Changes!MutationsAssumption
    /\ Emitted!RLEventsAssumption /\ Awaited!AsyncTasksAssumption /\ Talk!AssistantAssumption

execVars  == <<process, output, waiter>>
filesVars == <<content, contents, receipts, wires, local, writer, reading>>
downVars  == <<directory, present, temporary, pull, user>>
callsVars == <<session, segment, record, driver, admissions>>
blobsVars == <<storage, epoch, object, put, get, transit>>
loginVars == <<file, login, console, logout, kept>>
launchVars == <<server, launch>>
listVars  == <<items, steady, reader>>
typedVars == <<intent, command, account>>
packVars  == <<tree, aside, version, changed, edits, moments, pack>>
poolsVars == <<topic, minute, pool, burst, act, callers, pending>>
totalsVars == <<window, rows, totals, judge>>
shownVars == <<work, live, view, todo, missed, printed, waiting>>
uploadsVars == <<async, project, cache, assets, objects, creations, unanswered, used, tries, events>>
exportsVars == <<export, importer, clock>>
changesVars == <<kind, change, passed, wire, history>>
emittedVars == <<about, lock, thread, stdout, stored, reported, size>>
awaitedVars == <<explicit, task, requests, afloat, service>>
talkVars == <<tasks, run, conversation, restorable, captured, answer, paid, turns, worker, deaths>>
vars == <<part, execVars, filesVars, downVars, callsVars, blobsVars, loginVars, launchVars,
          listVars, typedVars, packVars, poolsVars, totalsVars, shownVars, uploadsVars,
          exportsVars, changesVars, emittedVars, awaitedVars, talkVars>>

Off == "off"
ExecOff == process = Off /\ output = Off /\ waiter = Off
FilesOff == /\ content = Off /\ contents = Off /\ receipts = Off /\ wires = Off
            /\ local = Off /\ writer = Off /\ reading = Off
DownOff == directory = Off /\ present = Off /\ temporary = Off /\ pull = Off /\ user = Off
CallsOff == session = Off /\ segment = Off /\ record = Off /\ driver = Off /\ admissions = Off
BlobsOff == storage = Off /\ epoch = Off /\ object = Off /\ put = Off /\ get = Off /\ transit = Off
LoginOff == file = Off /\ login = Off /\ console = Off /\ logout = Off /\ kept = Off
LaunchOff == server = Off /\ launch = Off
ListOff == items = Off /\ steady = Off /\ reader = Off
TypedOff == intent = Off /\ command = Off /\ account = Off
PackOff == /\ tree = Off /\ aside = Off /\ version = Off /\ changed = Off
           /\ edits = Off /\ moments = Off /\ pack = Off
PoolsOff == /\ topic = Off /\ minute = Off /\ pool = Off /\ burst = Off
            /\ act = Off /\ callers = Off /\ pending = Off
TotalsOff == window = Off /\ rows = Off /\ totals = Off /\ judge = Off
ShownOff == /\ work = Off /\ live = Off /\ view = Off /\ todo = Off
            /\ missed = Off /\ printed = Off /\ waiting = Off
UploadsOff == /\ async = Off /\ project = Off /\ cache = Off /\ assets = Off /\ objects = Off
              /\ creations = Off /\ unanswered = Off /\ used = Off /\ tries = Off /\ events = Off
ExportsOff == export = Off /\ importer = Off /\ clock = Off
ChangesOff == kind = Off /\ change = Off /\ passed = Off /\ wire = Off /\ history = Off
EmittedOff == /\ about = Off /\ lock = Off /\ thread = Off /\ stdout = Off
              /\ stored = Off /\ reported = Off /\ size = Off
AwaitedOff == explicit = Off /\ task = Off /\ requests = Off /\ afloat = Off /\ service = Off
TalkOff == /\ tasks = Off /\ run = Off /\ conversation = Off /\ restorable = Off /\ captured = Off
           /\ answer = Off /\ paid = Off /\ turns = Off /\ worker = Off /\ deaths = Off

Init ==
    /\ part \in {"executions", "files", "downloads", "calls", "artifacts", "login", "launch",
                 "listings", "commands", "snapshots", "pools", "measurements", "progress",
                 "projects", "imports", "mutations", "events", "tasks", "assistant"}
    /\ IF part = "executions" THEN Exec!Init ELSE ExecOff
    /\ IF part = "files" THEN Files!Init ELSE FilesOff
    /\ IF part = "downloads" THEN Down!Init ELSE DownOff
    /\ IF part = "calls" THEN Calls!Init ELSE CallsOff
    /\ IF part = "artifacts" THEN Blobs!Init ELSE BlobsOff
    /\ IF part = "login" THEN SignIn!Init ELSE LoginOff
    /\ IF part = "launch" THEN Machines!Init ELSE LaunchOff
    /\ IF part = "listings" THEN List!Init ELSE ListOff
    /\ IF part = "commands" THEN Typed!Init ELSE TypedOff
    /\ IF part = "snapshots" THEN Packed!Init ELSE PackOff
    /\ IF part = "pools" THEN Rented!Init ELSE PoolsOff
    /\ IF part = "measurements" THEN Totals!Init ELSE TotalsOff
    /\ IF part = "progress" THEN Shown!Init ELSE ShownOff
    /\ IF part = "projects" THEN Uploads!Init ELSE UploadsOff
    /\ IF part = "imports" THEN Exports!Init ELSE ExportsOff
    /\ IF part = "mutations" THEN Changes!Init ELSE ChangesOff
    /\ IF part = "events" THEN Emitted!Init ELSE EmittedOff
    /\ IF part = "tasks" THEN Awaited!Init ELSE AwaitedOff
    /\ IF part = "assistant" THEN Talk!Init ELSE TalkOff

\* A step of one part leaves the others as they are.
Only(p) ==
    /\ part = p /\ UNCHANGED part
    /\ IF p = "executions" THEN TRUE ELSE UNCHANGED execVars
    /\ IF p = "files" THEN TRUE ELSE UNCHANGED filesVars
    /\ IF p = "downloads" THEN TRUE ELSE UNCHANGED downVars
    /\ IF p = "calls" THEN TRUE ELSE UNCHANGED callsVars
    /\ IF p = "artifacts" THEN TRUE ELSE UNCHANGED blobsVars
    /\ IF p = "login" THEN TRUE ELSE UNCHANGED loginVars
    /\ IF p = "launch" THEN TRUE ELSE UNCHANGED launchVars
    /\ IF p = "listings" THEN TRUE ELSE UNCHANGED listVars
    /\ IF p = "commands" THEN TRUE ELSE UNCHANGED typedVars
    /\ IF p = "snapshots" THEN TRUE ELSE UNCHANGED packVars
    /\ IF p = "pools" THEN TRUE ELSE UNCHANGED poolsVars
    /\ IF p = "measurements" THEN TRUE ELSE UNCHANGED totalsVars
    /\ IF p = "progress" THEN TRUE ELSE UNCHANGED shownVars
    /\ IF p = "projects" THEN TRUE ELSE UNCHANGED uploadsVars
    /\ IF p = "imports" THEN TRUE ELSE UNCHANGED exportsVars
    /\ IF p = "mutations" THEN TRUE ELSE UNCHANGED changesVars
    /\ IF p = "events" THEN TRUE ELSE UNCHANGED emittedVars
    /\ IF p = "tasks" THEN TRUE ELSE UNCHANGED awaitedVars
    /\ IF p = "assistant" THEN TRUE ELSE UNCHANGED talkVars

ExecutionsStep == Only("executions") /\ Exec!Next
FilesStep      == Only("files") /\ Files!Next
DownloadsStep  == Only("downloads") /\ Down!Next
CallsStep      == Only("calls") /\ Calls!Next
ArtifactsStep  == Only("artifacts") /\ Blobs!Next
LoginStep      == Only("login") /\ SignIn!Next
LaunchStep     == Only("launch") /\ Machines!Next
ListingsStep   == Only("listings") /\ List!Next
CommandsStep   == Only("commands") /\ Typed!Next
SnapshotsStep  == Only("snapshots") /\ Packed!Next
PoolsStep      == Only("pools") /\ Rented!Next
MeasurementsStep == Only("measurements") /\ Totals!Next
ProgressStep   == Only("progress") /\ Shown!Next
ProjectsStep   == Only("projects") /\ Uploads!Next
ImportsStep    == Only("imports") /\ Exports!Next
MutationsStep  == Only("mutations") /\ Changes!Next
EventsStep     == Only("events") /\ Emitted!Next
TasksStep      == Only("tasks") /\ Awaited!Next
AssistantStep  == Only("assistant") /\ Talk!Next

Next ==
    \/ ExecutionsStep \/ FilesStep \/ DownloadsStep \/ CallsStep \/ ArtifactsStep
    \/ LoginStep \/ LaunchStep \/ ListingsStep \/ CommandsStep \/ SnapshotsStep
    \/ PoolsStep \/ MeasurementsStep \/ ProgressStep \/ ProjectsStep \/ ImportsStep
    \/ MutationsStep \/ EventsStep \/ TasksStep \/ AssistantStep

\* The only fairness: a listing that has begun goes on asking.
NextPage == Only("listings") /\ List!ReadPage

Spec == Init /\ [][Next]_vars /\ WF_vars(NextPage)

-----------------------------------------------------------------------------
(* What is read page by page while it changes is not cut short: output of  *)
(* a command that still writes (_sandboxes.py:838-856); a listing, which   *)
(* misses nothing that was there all along, so that a search by name does  *)
(* not overlook an ambiguity (_compute.py:92-122, _sandboxes.py:493-510,   *)
(* cli.py:316-340); what a workload reports and prints until it is over    *)
(* (_terminal.py:221-292); and the totals of a window of hours are judged  *)
(* rightly, whatever hour it is (_pools.py:168-210).                       *)
ReadsComplete ==
    /\ part = "executions" => Exec!OutputComplete
    /\ part = "listings" => List!ListingComplete
    /\ part = "progress" => Shown!OutputShown
    /\ part = "measurements" => Totals!TotalsJudged

(* A caller that gave a time is not held longer: a wait on a command that  *)
(* is made of long polls (_sandboxes.py:818-827), a login within the       *)
(* lifetime of its code, whatever hints the limiter gives                  *)
(* (login.py:231-259), and an import within the time of a query            *)
(* (_assets.py:241-256).                                                   *)
DeadlinesKept ==
    /\ part = "executions" => Exec!WaitKeepsTime
    /\ part = "login" => SignIn!PollsWithinDeadline
    /\ part = "imports" => Exports!OverInTime

(* What arrives is what was given, whole: a write to and a read of a       *)
(* sandbox's file with other writers at work (_sandbox_files.py:104-193),  *)
(* an artifact uploaded by one session and completed by the next           *)
(* (_agent_artifacts.py:92-157), a project that is packed, uploaded once   *)
(* and cached (_projects.py:185-220), and the lines a trainer's threads    *)
(* write about its attempts (_rl_events.py:163-167, 272-289, 353-380).     *)
TransfersWhole ==
    /\ part = "files" => Files!WriteIsWhole /\ Files!ReadIsWhole
    /\ part = "artifacts" => Blobs!CommittedIsGiven
    /\ part = "projects" => Uploads!MadeFromThis /\ Uploads!RefusedForChange
    /\ part = "events" => Emitted!LinesWhole /\ Emitted!AttemptsKept /\ Emitted!NothingDropped

(* A packed directory holds contents that existed: each file one it had,   *)
(* and a workspace's archive the whole tree of one moment, whatever its    *)
(* user does meanwhile (_projects.py:112-135, _workspace_archive.py:113-   *)
(* 234).                                                                   *)
SnapshotTaken == part = "snapshots" => Packed!FilesWhole /\ Packed!SnapshotOfAMoment

(* What a download leaves at its destination is verified and whole,        *)
(* whenever it is interrupted (_outputs.py:67-114).                        *)
PublishedWhole == part = "downloads" => Down!PublishedWhole

(* A download told not to overwrite never takes the place of a file        *)
(* (_outputs.py:103-110).                                                  *)
NothingOverwritten == [][part = "downloads" => Down!PublishesBeside]_vars

(* What costs money happens once: a completion across restarts of the      *)
(* driver and the entrypoint's own second attempts, unless one of them     *)
(* followed an expired result or a closed broker (_agent_broker.py:65-135, *)
(* _agent.py:105-116), a machine across launches repeated under one key,   *)
(* unless a start of a workspace arrives late (_compute.py:226-230,        *)
(* 242-252, 266-298), what a user of the command line wanted across the    *)
(* commands its messages advise, where it is not silent (cli.py:191-202,   *)
(* 344-361), a change of a service across the repetitions of its transport *)
(* and its caller (_managed_agents.py:72-85), a workload across a          *)
(* cancelled and a repeated run (__init__.py:1761-1767), and the           *)
(* assistant's model call across drivers (managed_assistant.py:78-86).     *)
PaidOnce ==
    /\ part = "calls" => Calls!PaidOnce
    /\ part = "launch" => Machines!OneMachinePerLaunch
    /\ part = "commands" => Typed!OneEffectPerWish
    /\ part = "mutations" => Changes!OneEffectPerWish
    /\ part = "tasks" => Awaited!OneWorkload
    /\ part = "assistant" => Talk!AskedOnce

(* Accounts of the same thing agree: a replay of the entrypoint gets the   *)
(* answers the earlier session got, unless one asked again under another   *)
(* key after an expired result or a closed broker, and a driver that left  *)
(* its segment left that recorded (_agent_models.py:29-142,                *)
(* _agent.py:317-359, _agent_broker.py:121-135); the assistant's saved     *)
(* conversation is that of its recorded answers                            *)
(* (managed_assistant.py:62-94); two callers of a pool are told one        *)
(* decision, of what was agreed, and can read its record                   *)
(* (_pool_proposals.py:58-122, _pool_act_proposals.py:64-122); and a       *)
(* change is applied as it was asked, to what its author had seen          *)
(* (_operations.py:142-149, 287-290).                                      *)
ReplaysAgree ==
    /\ part = "calls" => Calls!RepliesAgree /\ Calls!LeavesRecorded
    /\ part = "assistant" => Talk!ConversationKept
    /\ part = "pools" => Rented!ConfirmedHeld /\ Rented!DecisionsAgree /\ Rented!RecordsReadable
    /\ part = "mutations" => Changes!NoEditUndone /\ Changes!AppliedAsAsked

(* A key that reached this computer is stored or shown, and the            *)
(* credentials file never pairs it with another key's name                 *)
(* (cli.py:1203-1245, config.py:486-547).                                  *)
KeyAccountedFor == part = "login" => SignIn!KeyAccountedFor

(* Nobody is left without a word, or told what is not so: a command that   *)
(* ends, interrupted or not, tells how to go on with what its requests did *)
(* or may still do, but for Ctrl-C at two points and one refusal           *)
(* (Commands), and what it says of a cancellation is true (cli.py:144-202, *)
(* 344-361, 554-577, 787); an import that is not handed over names its     *)
(* export (_assets.py:244-260); a change that returns has taken effect,    *)
(* and a with-block that ends quietly has ended its sandbox                *)
(* (_operations.py:169-187, _sandboxes.py:722-731); and a cancelled wait   *)
(* cancels its workload or says that this is not known                     *)
(* (__init__.py:2044-2050).                                                *)
NothingUntold ==
    /\ part = "commands" => Typed!NothingUntold /\ Typed!SaidIsSo
    /\ part = "imports" => Exports!ExportNamed
    /\ part = "mutations" => Changes!ReturnedIsDone /\ Changes!QuietExit
    /\ part = "tasks" => Awaited!ToldOrCancelled /\ Awaited!CancelPursued

(* A listing ends, also when the server repeats cursors: by an error where *)
(* the reader remembers them all (_volumes.py:54-66, _compute.py:96-105),  *)
(* and without a word where it compares with the last (_sandboxes.py:594-  *)
(* 601, _managed_agents.py:133-140, 228-235).  Such a reader goes on for   *)
(* as long as the server keeps sending it back to cursors before the last. *)
ListingEnds ==
    (part = "listings" /\ reader.phase = "reading")
       ~> (part = "listings" /\ (reader.phase \in {"returned", "raised", "stopped"} \/ List!Back))
=============================================================================
