-------------------------------- MODULE Login --------------------------------
(***************************************************************************)
(* nodus login and nodus logout: the device exchange of nodus/login.py,    *)
(* the command of nodus/cli.py around it and the credentials file of       *)
(* nodus/config.py.  The console hands a key out once, so a login makes    *)
(* sure beforehand that the file can be written, and shows the key when    *)
(* it could not be.  Several logins and a logout of one user meet at the   *)
(* file, which is replaced whole.                                          *)
(*                                                                         *)
(* Times are in half seconds.  A key is named by the login it was made     *)
(* for; the file's other settings and the TOML text are left out.          *)
(***************************************************************************)
EXTENDS Integers, FiniteSets

CONSTANTS
    Logins,         \* logins of one user
    Lifetime,       \* lifetime of a sign-in code
    Interval,       \* the polling interval the console asks for
    MaxInterval,    \* ceiling of the interval (5 seconds in the code)
    RetryAfters,    \* hints of the front door's limiter
    RequestTimes,   \* how long a poll may take
    None            \* no key

LoginAssumption ==
    /\ Lifetime \in Nat \ {0} /\ Interval \in 1 .. MaxInterval /\ MaxInterval \in Nat
    /\ RetryAfters \subseteq Nat /\ RequestTimes \subseteq Nat /\ None \notin Logins

VARIABLES
    file,      \* the stored credentials [key, id]: the key, and the key its metadata names
    login,     \* login -> [phase, spent, interval, named]
    console,   \* login -> its code: "none", "pending", "approved", "collected", "gone"
    logout,    \* the logout command: "idle", "found", "done"
    kept       \* history: keys that were in the file, shown, or refused by name

vars == <<file, login, console, logout, kept>>

Phases == {"idle", "start", "poll", "save", "write", "saved", "shown", "ended", "lost", "killed"}

TypeOK ==
    /\ file \in [key: Logins \cup {None}, id: Logins \cup {None}]
    /\ \A l \in Logins :
          /\ login[l].phase \in Phases /\ login[l].spent \in Nat
          /\ login[l].interval \in 1 .. MaxInterval /\ login[l].named \in BOOLEAN
    /\ console \in [Logins -> {"none", "pending", "approved", "collected", "gone"}]
    /\ logout \in {"idle", "found", "done"}
    /\ kept \subseteq Logins

Init ==
    /\ file = [key |-> None, id |-> None] /\ kept = {} /\ logout = "idle"
    /\ login = [l \in Logins |-> [phase |-> "idle", spent |-> 0, interval |-> Interval,
                                  named |-> FALSE]]
    /\ console = [l \in Logins |-> "none"]

Goto(l, phase) == login' = [login EXCEPT ![l].phase = phase]

-----------------------------------------------------------------------------
(* The exchange.                                                           *)

\* Already signed in, or the file cannot hold a key, or it can.
Prepare(l) ==
    /\ login[l].phase = "idle"
    /\ \E phase \in {"ended", "start"} : Goto(l, phase)
    /\ UNCHANGED <<file, console, logout, kept>>

\* /start answers with a code, its lifetime and the interval, or it fails.
StartCode(l) ==
    /\ login[l].phase = "start"
    /\ \/ Goto(l, "poll") /\ console' = [console EXCEPT ![l] = "pending"]
       \/ Goto(l, "ended") /\ UNCHANGED console
    /\ UNCHANGED <<file, logout, kept>>

\* The human approves in the browser, declines, or lets the code expire.
Decide(l) ==
    /\ console[l] = "pending"
    /\ \E state \in {"approved", "gone"} : console' = [console EXCEPT ![l] = state]
    /\ UNCHANGED <<file, login, logout, kept>>

Least(a, b) == IF a < b THEN a ELSE b
Greatest(a, b) == IF a < b THEN b ELSE a

\* The next interval: half as long again, twice as long for the limiter.
Backoff(interval, limited) ==
    Least(IF limited THEN 2 * interval ELSE (3 * interval) \div 2, MaxInterval)

\* mutant: the limiter's hint is slept whole.
PauseWhole(l, spent, wait) == spent + wait

\* Never past the deadline.
Pause(l, spent, wait) == spent + Least(wait, Greatest(0, Lifetime - spent))

\* The code was not approved before the deadline.
TimesOut(l) ==
    /\ login[l].phase = "poll" /\ login[l].spent >= Lifetime
    /\ Goto(l, "ended")
    /\ UNCHANGED <<file, console, logout, kept>>

Asks(l) == login[l].phase = "poll" /\ login[l].spent < Lifetime

\* What may be slept: the interval, or the limiter's hint when it is longer.
Waits(interval, limited) ==
    {interval} \cup { Greatest(interval, hint) : hint \in IF limited THEN RetryAfters ELSE {} }

\* authorization_pending, or the front door's limiter with or without a hint.
PollPending(l) ==
    /\ Asks(l) /\ console[l] = "pending"
    /\ \E limited \in BOOLEAN, t \in RequestTimes :
          LET interval == Backoff(login[l].interval, limited) IN
          \E wait \in Waits(interval, limited) :
             login' = [login EXCEPT ![l].interval = interval,
                                    ![l].spent = Pause(l, login[l].spent + t, wait)]
    /\ UNCHANGED <<file, console, logout, kept>>

\* The key is released by this very answer, with or without metadata, or the
\* answer is lost with it, which nobody can ask for again.
PollReleases(l) ==
    /\ Asks(l) /\ console[l] = "approved"
    /\ console' = [console EXCEPT ![l] = "collected"]
    /\ \/ \E named \in BOOLEAN :
             login' = [login EXCEPT ![l].phase = "save", ![l].named = named]
       \/ Goto(l, "lost")
    /\ UNCHANGED <<file, logout, kept>>

\* 410, any other refusal, no connection.
PollFails(l) ==
    /\ Asks(l) /\ Goto(l, "ended")
    /\ UNCHANGED <<file, console, logout, kept>>

-----------------------------------------------------------------------------
(* The file.                                                               *)

\* mutant: an unusable or unwritable key is not shown.
ShowNothing(l) == UNCHANGED kept

\* A key that cannot travel in a header is named, an unwritable one is shown.
Show(l) == kept' = kept \cup {l}

Reveal(l) == Goto(l, "shown") /\ Show(l)

\* The header check, and the file read again before it is rewritten.
Load(l) ==
    /\ login[l].phase = "save"
    /\ \/ Goto(l, "write") /\ UNCHANGED kept
       \/ Reveal(l)
    /\ UNCHANGED <<file, console, logout>>

\* mutant: a field the console did not send stays as it was.
StoredNameKept(l) == [key |-> l, id |-> IF login[l].named THEN l ELSE file.id]

\* The key and what names it; a field that was not sent is removed.
Stored(l) == [key |-> l, id |-> IF login[l].named THEN l ELSE None]

\* os.replace, or any failure before it, an interrupt included.
Store(l) ==
    /\ login[l].phase = "write"
    /\ \/ Goto(l, "saved") /\ file' = Stored(l) /\ kept' = kept \cup {l}
       \/ Reveal(l) /\ UNCHANGED file
    /\ UNCHANGED <<console, logout>>

\* The process is killed: before the key came, nothing is lost.
Killed(l) ==
    /\ login[l].phase \in {"start", "poll", "save", "write"}
    /\ Goto(l, "killed")
    /\ UNCHANGED <<file, console, logout, kept>>

\* clear_api_key: the file is read, then written without the credentials.
LogoutReads ==
    /\ logout = "idle"
    /\ logout' = IF file.key = None THEN "done" ELSE "found"
    /\ UNCHANGED <<file, login, console, kept>>

LogoutWrites ==
    /\ logout = "found" /\ logout' = "done"
    /\ file' = [key |-> None, id |-> None]
    /\ UNCHANGED <<login, console, kept>>

Next ==
    \/ \E l \in Logins :
          \/ Prepare(l) \/ StartCode(l) \/ Decide(l)
          \/ TimesOut(l) \/ PollPending(l) \/ PollReleases(l) \/ PollFails(l)
          \/ Load(l) \/ Store(l) \/ Killed(l)
    \/ LogoutReads \/ LogoutWrites

Spec == Init /\ [][Next]_vars

-----------------------------------------------------------------------------
(* A key that reached this computer is accounted for when its login is     *)
(* over: it was stored or shown, unless the process was killed.  And the   *)
(* metadata in the file never names another key than the one beside it,    *)
(* with other logins and a logout at work on the same file                 *)
(* (cli.py:1203-1245; config.py:486-527).                                  *)
KeyAccountedFor ==
    /\ \A l \in Logins : console[l] = "collected" =>
          l \in kept \/ login[l].phase \in {"save", "write", "lost", "killed"}
    /\ file.id # None => file.id = file.key

(* A login never sleeps past the lifetime of its code: it is over at most  *)
(* one request later, whatever hints it was given (login.py:231-259).      *)
PollsWithinDeadline ==
    \A l \in Logins : \A t \in RequestTimes :
        (\A u \in RequestTimes : u <= t) => login[l].spent <= Lifetime + t
=============================================================================
