------------------------------ MODULE RLEvents ------------------------------
(***************************************************************************)
(* Progress a training workload reports line by line on its standard       *)
(* output (nodus/_rl_events.py).  The runner that reads the lines decodes  *)
(* each, encodes it again its own way and drops what exceeds the limit;    *)
(* the service keeps one event per event_id.  Neither is in this           *)
(* repository.  A behaviour is about one of three things:                  *)
(*   "lines"   threads of one process report through one emitter,          *)
(*   "ids"     attempts are told apart by their event_id,                  *)
(*   "size"    what is accepted here is accepted by the runner.            *)
(***************************************************************************)
EXTENDS Integers, Sequences, FiniteSets

CONSTANTS
    Threads,
    MaxReports,   \* bound: reports of a thread
    Texts,        \* namespaces and task ids: sequences of UTF-8 bytes, at most the limit
    Attempts,     \* attempt numbers, at most MAX_ATTEMPT
    MaxBytes,     \* MAX_EVENT_BYTES
    Numbers       \* magnitudes of a reward or a duration: <<exponent, digits>>

RLEventsAssumption ==
    /\ "free" \notin Threads
    /\ MaxReports \in Nat /\ MaxBytes \in Nat
    /\ Attempts \subseteq Nat \ {0} /\ (\A attempt \in Attempts : attempt <= 1000000)
    /\ \A text \in Texts : text \in Seq({text[i] : i \in DOMAIN text}) /\ Len(text) <= 256
    /\ Numbers \subseteq (-30 .. 30) \X (1 .. 17)

VARIABLES
    about,
    lock,      \* the thread that holds the emitter's lock, or "free"
    thread,    \* what each thread is at: [at, reports]
    stdout,    \* pieces of lines, in the order they were written
    stored,    \* what the service keeps: event_id to attempt
    reported,  \* attempts reported
    size       \* of an event: whether it was accepted here, and its length at the runner

vars == <<about, lock, thread, stdout, stored, reported, size>>

Init ==
    /\ about \in {"lines", "ids", "size"}
    /\ lock = "free"
    /\ thread = [t \in Threads |-> [at |-> "run", reports |-> 0]]
    /\ stdout = <<>>
    /\ stored = << >>
    /\ reported = {}
    /\ size = [known |-> FALSE, accepted |-> FALSE, runner |-> 0]

-----------------------------------------------------------------------------
(* Lines.  A stream may take a line in several pieces.                     *)

At(t, place) == thread' = [thread EXCEPT ![t].at = place]

\* prime_episode_completed calls the customer's scoring, outside the lock; an
\* episode that failed is not scored, and a scoring that raises reports nothing.
Score(t) ==
    /\ about = "lines" /\ thread[t].at = "run" /\ thread[t].reports < MaxReports
    /\ \/ At(t, "scored")
       \/ thread' = [thread EXCEPT ![t].reports = @ + 1]
    /\ UNCHANGED <<about, lock, stdout, stored, reported, size>>

\* task_started, task_completed and a scored episode emit a line;
\* task_exception first writes a diagnostic to stderr under the same lock.
AcquireNone(t) ==                                       \* mutant: written without the lock
    /\ about = "lines" /\ thread[t].at \in {"run", "scored"} /\ thread[t].reports < MaxReports
    /\ At(t, "write")
    /\ UNCHANGED <<about, lock, stdout, stored, reported, size>>

Acquire(t) ==
    /\ about = "lines" /\ thread[t].at \in {"run", "scored"} /\ thread[t].reports < MaxReports
    /\ lock = "free" /\ lock' = t
    /\ \/ At(t, "write")
       \/ thread[t].at = "run" /\ At(t, "diagnose")
    /\ UNCHANGED <<about, stdout, stored, reported, size>>

Diagnose(t) ==
    /\ thread[t].at = "diagnose" /\ At(t, "write")
    /\ UNCHANGED <<about, lock, stdout, stored, reported, size>>

Piece(t, part) == [thread |-> t, report |-> thread[t].reports, part |-> part]

WritePiece(t) ==
    /\ \/ /\ thread[t].at = "write" /\ At(t, "rest")
          /\ stdout' = Append(stdout, Piece(t, "first"))
       \/ /\ thread[t].at = "rest" /\ At(t, "flush")
          /\ stdout' = Append(stdout, Piece(t, "last"))
    /\ UNCHANGED <<about, lock, stored, reported, size>>

Release(t) ==
    /\ thread[t].at = "flush"
    /\ thread' = [thread EXCEPT ![t] = [at |-> "run", reports |-> @.reports + 1]]
    /\ lock' = "free"
    /\ UNCHANGED <<about, stdout, stored, reported, size>>

-----------------------------------------------------------------------------
(* Identities.                                                             *)

\* Lengths and numbers as text.
Digits == <<"0", "1", "2", "3", "4", "5", "6", "7", "8", "9">>
Powers == <<1, 10, 100, 1000, 10000, 100000, 1000000>>
Places(n) == CHOOSE p \in 1 .. 7 : (p = 1 \/ Powers[p] <= n) /\ (p = 7 \/ n < Powers[p + 1])
AsText(n) == [i \in 1 .. Places(n) |-> Digits[((n \div Powers[Places(n) + 1 - i]) % 10) + 1]]

\* _event_id: the hash of every field behind its length.
FieldBare(text) == text                                 \* mutant: fields joined without their length
Field(text) == AsText(Len(text)) \o <<":">> \o text

EventId(a) == Field(a.namespace) \o Field(a.task) \o Field(AsText(a.attempt))

Report ==
    /\ about = "ids" /\ Cardinality(reported) < 2
    /\ \E namespace, task \in Texts, attempt \in Attempts :
          LET a == [namespace |-> namespace, task |-> task, attempt |-> attempt]
          IN  /\ reported' = reported \cup {a}
              /\ stored' = IF EventId(a) \in DOMAIN stored THEN stored
                           ELSE [id \in DOMAIN stored \cup {EventId(a)} |->
                                    IF id = EventId(a) THEN a ELSE stored[id]]
    /\ UNCHANGED <<about, lock, thread, stdout, size>>

-----------------------------------------------------------------------------
(* Sizes.  A number is d.ddd times ten to an exponent; json.dumps writes   *)
(* plain digits for exponents -4 to 15, the runner for -6 to 20.           *)

Figures(number)  == number[2]
Exponent(number)  == number[1]
Mantissa(number)  == Figures(number) + (IF Figures(number) > 1 THEN 1 ELSE 0)
MaxOf(a, b) == IF a < b THEN b ELSE a

\* Digits of the plain form, with a point when some are behind it.
Plain(number) ==
    CASE Exponent(number) < 0 -> 1 - Exponent(number) + Figures(number)
      [] Figures(number) <= Exponent(number) + 1 -> Exponent(number) + 1
      [] OTHER -> Figures(number) + 1
Scientific(number) == Mantissa(number) + 4              \* e+16, e-05

PythonPlain(number) == Exponent(number) \in -4 .. 15
PythonLength(number) ==
    IF ~PythonPlain(number) THEN Scientific(number)
    ELSE Plain(number) + (IF Figures(number) <= Exponent(number) + 1 THEN 2 ELSE 0)   \* 1000.0

\* The runner's: e-7 has one digit less than e-07.
RunnerLength(number) ==
    CASE Exponent(number) \in -6 .. 20 -> Plain(number)
      [] Exponent(number) \in -9 .. -7 -> Scientific(number) - 1
      [] OTHER -> Scientific(number)

GrowthNone(number) == 0                                 \* mutant: the text is measured as it is
Growth(number) ==
    IF ~PythonPlain(number) /\ Exponent(number) \in -6 .. 20
    THEN MaxOf(0, Plain(number) - PythonLength(number)) ELSE 0

Here(reward, duration)   == PythonLength(reward) + PythonLength(duration) + Growth(reward) + Growth(duration)
Runner(reward, duration) == RunnerLength(reward) + RunnerLength(duration)

\* _encode_line measures the event, of which `rest` bytes are not numbers, and
\* raises when it is too long.
Encode ==
    /\ about = "size" /\ ~size.known
    /\ \E reward, duration \in Numbers, rest \in MaxBytes - 60 .. MaxBytes :
          size' = [known |-> TRUE, accepted |-> rest + Here(reward, duration) <= MaxBytes,
                   runner |-> rest + Runner(reward, duration)]
    /\ UNCHANGED <<about, lock, thread, stdout, stored, reported>>

Next ==
    \/ \E t \in Threads : Score(t) \/ Acquire(t) \/ Diagnose(t) \/ WritePiece(t) \/ Release(t)
    \/ Report
    \/ Encode

Spec == Init /\ [][Next]_vars

-----------------------------------------------------------------------------
(* A line is whole: what a thread began to write is completed before any   *)
(* other thread writes (_rl_events.py:163-167, 272-276).                   *)
LinesWhole ==
    \A i \in 1 .. Len(stdout) :
        stdout[i].part = "first" /\ i < Len(stdout) =>
            stdout[i + 1] = [stdout[i] EXCEPT !.part = "last"]

(* Every attempt reported is kept, however often and in whatever words: no *)
(* two attempts have one event_id (_rl_events.py:279-289).                 *)
AttemptsKept == {stored[id] : id \in DOMAIN stored} = reported

(* An event that is accepted here is not dropped by the runner for its     *)
(* size: its own text of the numbers is measured (_rl_events.py:353-380).  *)
NothingDropped == size.accepted => size.runner <= MaxBytes

TypeOK ==
    /\ lock \in Threads \cup {"free"}
    /\ \A t \in Threads : thread[t].at \in {"run", "scored", "diagnose", "write", "rest", "flush"}
=============================================================================
