------------------------------ MODULE Commands ------------------------------
(***************************************************************************)
(* The nodus command line (nodus/cli.py) seen by a user who wants one      *)
(* thing: submit, run or launch something, execute in a sandbox, change a  *)
(* sandbox or workspace, delete a workspace, import a query, follow a run. *)
(* A command can be interrupted (Ctrl-C) or fail while it waits for the    *)
(* server; what it then prints is all the user knows.  The user does as    *)
(* told: repeats with the key and the identity that were printed, looks at *)
(* what was already accepted, and starts afresh when told nothing.         *)
(*                                                                         *)
(* A request stands for all attempts of Client._request: one that ends     *)
(* without an answer may have been applied, be applied later, or be lost.  *)
(* The server, external, applies a key once per object, and others may     *)
(* delete an object and give its name to another.  An interruption meets a *)
(* command while it waits, not between two statements.  Two of those waits *)
(* are outside every handler (Unguarded): Ctrl-C there tells the user      *)
(* nothing, and what is done then is not followed.                         *)
(***************************************************************************)
EXTENDS Naturals, FiniteSets

CONSTANTS MaxTries,   \* bound: commands given for one wish
          Objects     \* bound: objects that bear the name one after another

CommandsAssumption == MaxTries \in Nat /\ Objects \in Nat \ {0}

Creates == {"submit", "run", "launch"}     \* submit: also sandbox new
Targets == {"exec", "act", "delete"}       \* act: sleep, wake, terminate, files, start, stop
Waits   == {"run", "launch", "exec", "import"}
Kinds   == Creates \cup Targets \cup {"import", "follow"}

VARIABLES
    intent,    \* [kind, open, n, key, ref, knows, said, masked]: the wish and what was printed;
               \* masked: it ended without a word on what may have been accepted
    process,   \* [pc, key, target, admitted]: the command at work
    server     \* [named, effects, transit, cancelled]

vars == <<intent, process, server>>

Unset == 0

Operation == [key : 0 .. MaxTries, target : 0 .. Objects]

TypeOK ==
    /\ intent \in [kind : Kinds, open : BOOLEAN, n : 0 .. MaxTries, key : 0 .. MaxTries,
                   ref : 0 .. Objects, knows : SUBSET {"key", "object", "result"},
                   said : {"nothing", "requested", "not confirmed"}, masked : BOOLEAN]
    /\ process \in [pc : {"off", "resolve", "confirm", "send", "unguarded", "observe", "cancel"},
                    key : 0 .. MaxTries, target : 0 .. Objects, admitted : BOOLEAN]
    /\ server \in [named : 0 .. Objects, effects : SUBSET Operation,
                   transit : SUBSET Operation, cancelled : BOOLEAN]

\* A run that is followed exists already.
Init ==
    /\ \E kind \in Kinds :
          intent = [kind |-> kind, open |-> TRUE, n |-> 0, key |-> Unset, ref |-> Unset,
                    knows |-> IF kind = "follow" THEN {"result"} ELSE {},
                    said |-> "nothing", masked |-> FALSE]
    /\ process = [pc |-> "off", key |-> Unset, target |-> Unset, admitted |-> FALSE]
    /\ server = [named |-> 1, effects |-> {}, transit |-> {}, cancelled |-> FALSE]

-----------------------------------------------------------------------------
(* The server and the other users of the account.                          *)

Operated == [key |-> process.key, target |-> process.target]

\* A deleted object loses its name.
Apply(op) ==
    [server EXCEPT !.effects = @ \cup {op}, !.transit = @ \ {op},
                   !.named = IF intent.kind = "delete" /\ op.target = @ THEN Unset ELSE @]

Exists(object) == intent.kind = "delete" => \A op \in server.effects : op.target # object

\* What may have become of a request without an answer.
Unanswered == server' \in {server, Apply(Operated), [server EXCEPT !.transit = @ \cup {Operated}]}

Arrive ==
    /\ \E op \in server.transit : server' = Apply(op)
    /\ UNCHANGED <<intent, process>>

\* Someone gives the name to the next object.
Rename ==
    /\ server.named < Objects
    /\ server' = [server EXCEPT !.named = @ + 1]
    /\ UNCHANGED <<intent, process>>

-----------------------------------------------------------------------------
(* What a command prints when it ends.                                     *)

\* mutant: the user is to repeat the command as it was.
AdviceByName(kind) == IF kind = "import" THEN {} ELSE {"key"}

\* _sandbox_mutation, and _cmd_run's own text: the key, and the identity of what
\* was found under the name.  An import has no key ("check assets").
Advice(kind) ==
    IF kind = "import" THEN {}
    ELSE IF kind \in Targets THEN {"key", "object"} ELSE {"key"}

\* mutant: the recovery of an exec is left to its error.
NamedSilently(kind) == IF kind = "exec" THEN {} ELSE {"result"}

\* The identity of what was accepted: printed at once by run, with the error by
\* exec and launch where it is handled, taken from the error by an import
\* (asset_id_from_error).
Named(kind) == {"result"}

\* The command ends, its user knows what it printed and acts on it.
Exit(printed, settled) ==
    /\ process' = [process EXCEPT !.pc = "off"]
    /\ intent' = [intent EXCEPT
          !.knows = @ \cup printed,
          !.key = IF "key" \in printed THEN process.key ELSE @,
          !.ref = IF "object" \in printed THEN process.target ELSE @,
          !.open = ~settled /\ "result" \notin printed /\ intent.kind # "import"]

-----------------------------------------------------------------------------
(* One command.                                                            *)

\* The key is the one given, or made for this command.
Invoke ==
    /\ process.pc = "off" /\ intent.open /\ intent.n < MaxTries
    /\ intent' = [intent EXCEPT !.n = @ + 1]
    /\ process' = [process EXCEPT
          !.key = IF intent.key # Unset THEN intent.key ELSE intent.n + 1,
          !.target = Unset,
          !.pc = CASE intent.kind \in Targets -> "resolve"
                   [] intent.kind = "follow" -> "observe"
                   [] OTHER -> "send"]
    /\ UNCHANGED server

Wanted == IF intent.ref # Unset THEN intent.ref ELSE server.named

\* An identity, or a name that one active object bears.
Resolve ==
    /\ process.pc = "resolve" /\ Wanted # Unset /\ Exists(Wanted)
    /\ process' = [process EXCEPT !.target = Wanted,
                                  !.pc = IF intent.kind = "delete" THEN "confirm" ELSE "send"]
    /\ UNCHANGED <<intent, server>>

\* A workspace that is gone is deleted again only by its identity and under a key.
RetryDelete ==
    /\ process.pc = "resolve" /\ intent.kind = "delete"
    /\ intent.ref # Unset /\ ~Exists(intent.ref) /\ intent.key # Unset
    /\ process' = [process EXCEPT !.target = intent.ref, !.pc = "confirm"]
    /\ UNCHANGED <<intent, server>>

\* Nothing bears the name, it is ambiguous, or it could not be read.
ResolveFails ==
    /\ process.pc = "resolve" /\ Exit({}, FALSE)
    /\ UNCHANGED server

\* The name, or --yes; anything else cancels the command.
Confirm ==
    /\ process.pc = "confirm"
    /\ \/ process' = [process EXCEPT !.pc = "send"] /\ UNCHANGED intent
       \/ Exit({}, TRUE)
    /\ UNCHANGED server

\* The command ends without a word on what may have been accepted.
Silently == intent' = [intent EXCEPT !.masked = TRUE, !.open = FALSE]

\* The request is answered: the command goes on to observe, or ends.  A launch
\* without a key of its own first asks for those of the team.
Answered ==
    /\ process.pc = "send" /\ server' = Apply(Operated)
    /\ IF intent.kind \in Waits
       THEN /\ \E pc \in {"observe"} \cup (IF intent.kind = "launch" THEN {"unguarded"} ELSE {}) :
                   process' = [process EXCEPT !.pc = pc, !.admitted = TRUE]
            /\ UNCHANGED intent
       ELSE Exit({"result"}, TRUE)

\* A refusal that no earlier attempt of the same request makes doubtful.
Refused ==
    /\ process.pc = "send" /\ Exit({}, FALSE)
    /\ UNCHANGED server

\* A refusal of a later attempt, after one without an answer (run submission_key).
RefusedLater ==
    /\ process.pc = "send" /\ Unanswered
    /\ process' = [process EXCEPT !.pc = "off"] /\ Silently

\* No answer, a status of 500 and above, an unreadable answer, or Ctrl-C.
OutcomeUnknown ==
    /\ process.pc = "send" /\ Unanswered
    /\ Exit(Advice(intent.kind), FALSE)

\* What was observed has ended, well or not.
Ends ==
    /\ process.pc = "observe" /\ Exit({"result"}, TRUE)
    /\ UNCHANGED server

\* The observation fails or is interrupted; what was accepted goes on.
ObservationFails ==
    /\ process.pc = "observe" /\ Exit(Named(intent.kind), TRUE)
    /\ UNCHANGED server

\* The output of an execution could not be read: its state is, before the error is
\* explained.
ReadsState ==
    /\ process.pc = "observe" /\ intent.kind = "exec"
    /\ process' = [process EXCEPT !.pc = "unguarded"]
    /\ UNCHANGED <<intent, server>>

\* The request outside the handlers is over, answered or not: the launch is
\* observed, the error of the execution explained.  Or it is interrupted.
Unguarded ==
    /\ process.pc = "unguarded"
    /\ \/ intent.kind = "launch" /\ process' = [process EXCEPT !.pc = "observe"] /\ UNCHANGED intent
       \/ intent.kind = "exec" /\ Exit(Named(intent.kind), TRUE)
       \/ process' = [process EXCEPT !.pc = "off"] /\ Silently
    /\ UNCHANGED server

\* Ctrl-C while a run is observed requests its cancellation.
Interrupted ==
    /\ process.pc = "observe" /\ intent.kind \in {"run", "follow"}
    /\ process' = [process EXCEPT !.pc = "cancel"]
    /\ UNCHANGED <<intent, server>>

\* mutant: the cancellation that wait made is taken for done.
ReportsPrior(kind, confirmed) ==
    IF confirmed \/ kind = "run" THEN "requested" ELSE "not confirmed"

\* wait cancels and leaves the outcome on the interrupt (_nodus_cancellation);
\* where nothing did, the command cancels (_cancel_on_interrupt).
Reports(kind, confirmed) == IF confirmed THEN "requested" ELSE "not confirmed"

Cancel ==
    /\ process.pc = "cancel"
    /\ \E confirmed \in BOOLEAN :
          /\ server' \in {[server EXCEPT !.cancelled = TRUE]} \cup (IF confirmed THEN {} ELSE {server})
          /\ intent' = [intent EXCEPT !.knows = @ \cup {"result"}, !.open = FALSE,
                                      !.said = Reports(intent.kind, confirmed)]
    /\ process' = [process EXCEPT !.pc = "off"]

Next ==
    \/ Arrive \/ Rename
    \/ Invoke \/ Resolve \/ RetryDelete \/ ResolveFails \/ Confirm
    \/ Answered \/ Refused \/ RefusedLater \/ OutcomeUnknown
    \/ Ends \/ ObservationFails \/ ReadsState \/ Unguarded \/ Interrupted \/ Cancel

Spec == Init /\ [][Next]_vars

-----------------------------------------------------------------------------
(* A user who does as the command line says gets what was wanted once, and *)
(* on one object, also when the name went to another in between            *)
(* (cli.py:344-361, 653-681, 191-201).  Not where the command line was     *)
(* silent (masked), after which a user may start afresh under another key: *)
(* a refusal that follows an unanswered attempt, Ctrl-C while a launch     *)
(* looks for the team's keys (cli.py:787) or while an exec that failed     *)
(* reads its state (cli.py:564-568).  And an import has no key.            *)
OneEffectPerWish ==
    ~intent.masked /\ intent.kind # "import" => Cardinality(server.effects) <= 1

(* A command that has ended has told its user how to go on with whatever   *)
(* its requests did or may still do: the key, and the identity of the      *)
(* object meant, or the identity of what was accepted (cli.py:344-361,     *)
(* 554-577, 798-809, 271-276); but for the three silences named above.     *)
NothingUntold ==
    process.pc = "off" /\ ~intent.masked =>
       /\ intent.kind # "import" =>
             \A op \in server.effects \cup server.transit :
                \/ "result" \in intent.knows
                \/ "key" \in intent.knows /\ op.key = intent.key
                   /\ (op.target # Unset => op.target = intent.ref)
       /\ process.admitted => "result" \in intent.knows

(* A run that is said to be cancelled was (cli.py:144-170,                 *)
(* __init__.py:1388-1408).                                                 *)
SaidIsSo == intent.said = "requested" => server.cancelled

=============================================================================
