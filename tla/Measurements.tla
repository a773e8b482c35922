----------------------------- MODULE Measurements -----------------------------
(***************************************************************************)
(* What the SDK accepts of a pool's measurements (nodus/_pools.py,         *)
(* UtilizationMetrics and PoolUtilization; _pool_predict.py,               *)
(* ForecastCalibration; _pool_actions.py, PoolShadowRun): totals that the  *)
(* server adds up from hourly rows.  Hours pass and leave rows, and the    *)
(* rows are read at any moment.  The answer is what the rows say, or it    *)
(* differs from that in one number.                                        *)
(*                                                                         *)
(* The server and its rows are external.  One device, and days and cycles  *)
(* of a few hours, stand for the pool, for 24 hours and for 168.           *)
(***************************************************************************)
EXTENDS Integers, Sequences, FiniteSets

CONSTANTS Day,       \* hours of a day
          Cycle,     \* hours of a shadow cycle
          Hours      \* bound: hours that pass

MeasurementsAssumption == Day \in Nat \ {0} /\ Cycle \in Nat \ {0} /\ Hours \in Nat

VARIABLES
    topic,    \* which totals are read
    rows,     \* the hours so far, oldest first
    answer,   \* [honest, row]: the answer read last, or NoAnswer
    reader    \* "reading", "accepted", "refused"

vars == <<topic, rows, answer, reader>>

NoAnswer == [honest |-> TRUE, row |-> <<>>]

\* An hour of a device, of a forecast, or of a shadow cycle.
HourKinds ==
    [metrics     |-> {"absent", "unknown", "free", "idle", "busy", "foreign"},
     buckets     |-> {"hour"},
     calibration |-> {"unforecast", "unmeasured", "covered", "missed"},
     shadow      |-> {"trusted", "gap"}]

Init ==
    /\ topic \in DOMAIN HourKinds /\ rows = <<>>
    /\ answer = NoAnswer /\ reader = "reading"

-----------------------------------------------------------------------------
(* What the server adds up.                                                *)

CountIn(hours, kinds) == Cardinality({i \in DOMAIN hours : hours[i] \in kinds})

\* The percentages, which repeat these numbers, are left out.
Metrics(hours) ==
    LET capacity == CountIn(hours, HourKinds.metrics \ {"absent"})
        unknown == CountIn(hours, {"unknown"})
        allocated == CountIn(hours, {"idle", "busy", "foreign"})
        busy == CountIn(hours, {"busy", "foreign"})
        known == unknown = 0 /\ capacity > 0
    IN [status |-> IF capacity = 0 THEN "no_data" ELSE IF unknown > 0 THEN "partial" ELSE "complete",
        capacity |-> capacity, unknown |-> unknown,
        allocated |-> IF known THEN allocated ELSE -1,
        busy |-> IF known THEN busy ELSE -1,
        idle |-> IF known THEN allocated - busy ELSE -1,
        stranded |-> IF known THEN capacity - allocated ELSE -1,
        foreign |-> IF known THEN CountIn(hours, {"foreign"}) ELSE -1]

\* The window is cut at the hours or at the days of the calendar; `first` is its
\* first hour.
Buckets(hours, first, by) ==
    LET end == first + Len(hours)
        cuts == {h \in (first + 1) .. end : by = "hour" \/ h % Day = 0 \/ h = end}
        bound[i \in 0 .. Cardinality(cuts)] ==
            IF i = 0 THEN first
            ELSE CHOOSE h \in cuts : Cardinality({g \in cuts : g <= h}) = i
    IN [first |-> first, end |-> end, by |-> by,
        starts |-> [i \in 1 .. Cardinality(cuts) |-> bound[i - 1]],
        ends |-> [i \in 1 .. Cardinality(cuts) |-> bound[i]]]

\* The first hour begins a day; a day is complete when all its hours are evaluated.
Calibration(hours) ==
    LET evaluated == {"covered", "missed"}
        Whole(kinds) == Cardinality({d \in 1 .. (Len(hours) \div Day) :
                            \A h \in 1 .. Day : hours[(d - 1) * Day + h] \in kinds})
        n == CountIn(hours, evaluated)
    IN [status |-> IF n = 0 THEN "no_data" ELSE IF n = Len(hours) THEN "complete" ELSE "partial",
        window |-> Len(hours), expected |-> Len(hours),
        forecast |-> CountIn(hours, evaluated \cup {"unmeasured"}), evaluated |-> n,
        covered |-> CountIn(hours, {"covered"}), coverage |-> <<CountIn(hours, {"covered"}), n>>,
        complete |-> Whole(evaluated), coveredDays |-> Whole({"covered"})]

Shadow(hours, ended) ==
    LET trusted == CountIn(hours, {"trusted"})
    IN [trusted |-> trusted, elapsed |-> Len(hours), gaps |-> Len(hours) - trusted,
        state |-> IF ended THEN "completed" ELSE "running", ended |-> ended,
        producer |-> "trusted" \in {hours[i] : i \in DOMAIN hours},
        qualifies |-> ended /\ trusted = Cycle]

\* What the rows say, at this moment.
Says(about, hours) ==
    CASE about = "metrics" -> {Metrics(hours)}
      [] about = "buckets" -> {Buckets(hours, first, by) : first \in 0 .. (Day - 1), by \in {"hour", "day"}}
      [] about = "calibration" -> {Calibration(hours)}
      [] about = "shadow" -> {Shadow(hours, ended) : ended \in {e \in BOOLEAN : e => Len(hours) = Cycle}}

-----------------------------------------------------------------------------
(* What the SDK accepts.                                                   *)

\* UtilizationMetrics.from_dict
MetricsAccepted(m) ==
    /\ m.capacity >= 0 /\ m.unknown >= 0 /\ m.unknown <= m.capacity
    /\ CASE m.status = "complete" ->
              /\ m.unknown = 0 /\ \A n \in {m.allocated, m.busy, m.idle, m.stranded, m.foreign} : n >= 0
              /\ m.busy <= m.allocated /\ m.allocated <= m.capacity /\ m.foreign <= m.allocated
              /\ m.idle = m.allocated - m.busy /\ m.stranded = m.capacity - m.allocated
         [] OTHER ->
              /\ {m.allocated, m.busy, m.idle, m.stranded, m.foreign} = {-1}
              /\ IF m.status = "partial" THEN m.unknown # 0 ELSE m.capacity = 0 /\ m.unknown = 0

\* mutant: a day's bucket is a day long.
IntervalFull(b, from) == IF b.by = "hour" THEN 1 ELSE Day

\* A day's bucket ends with the day.
Interval(b, from) == IF b.by = "hour" THEN 1 ELSE Day - (from % Day)

\* PoolUtilization.from_dict: the buckets follow one another and fill the window.
BucketsAccepted(b) ==
    LET n == Len(b.starts)
        Expected(i) == IF i = 1 THEN b.first ELSE b.ends[i - 1]
    IN /\ b.first < b.end /\ n > 0
       /\ \A i \in 1 .. n :
             LET left == b.end - Expected(i)
                 length == IF Interval(b, Expected(i)) < left THEN Interval(b, Expected(i)) ELSE left
             IN /\ b.starts[i] < b.ends[i]
                /\ b.starts[i] = Expected(i) /\ b.ends[i] = Expected(i) + length
       /\ b.ends[n] = b.end

\* ForecastCalibration.from_dict
CalibrationAccepted(c) ==
    /\ c.window > 0
    /\ 0 <= c.covered /\ c.covered <= c.evaluated /\ c.evaluated <= c.forecast
    /\ c.forecast <= c.expected /\ 0 <= c.coveredDays /\ c.coveredDays <= c.complete
    /\ c.expected = c.window /\ c.complete * Day <= c.evaluated
    /\ (c.status = "complete") <=> (c.evaluated = c.window)
    /\ (c.status = "no_data") <=> (c.evaluated = 0)
    /\ c.evaluated > 0 => c.coverage[1] * c.evaluated = c.covered * c.coverage[2]

\* PoolShadowRun.from_dict
ShadowAccepted(s) ==
    /\ \A n \in {s.trusted, s.elapsed, s.gaps} : 0 <= n /\ n <= Cycle
    /\ (s.state = "completed") <=> s.ended
    /\ s.trusted <= s.elapsed /\ s.gaps = s.elapsed - s.trusted
    /\ ~s.producer => s.trusted = 0 /\ ~s.qualifies
    /\ s.qualifies => s.state = "completed" /\ s.trusted = Cycle

Accepted(row) ==
    CASE topic = "metrics" -> MetricsAccepted(row)
      [] topic = "buckets" -> BucketsAccepted(row)
      [] topic = "calibration" -> CalibrationAccepted(row)
      [] topic = "shadow" -> ShadowAccepted(row)

-----------------------------------------------------------------------------
(* Steps.                                                                  *)

\* The numbers that the others determine.
Determined(row) ==
    CASE topic = "metrics" ->
            {"allocated", "busy", "idle", "stranded"}
            \cup (IF row.status = "partial" THEN {} ELSE {"capacity", "unknown"})
      [] topic = "buckets" -> {}
      [] topic = "calibration" -> {"expected", "covered"}
      [] topic = "shadow" -> {"trusted", "gaps"}

HourPasses ==
    /\ Len(rows) < Hours /\ reader = "reading"
    /\ topic = "shadow" => Len(rows) < Cycle
    /\ \E kind \in HourKinds[topic] : rows' = Append(rows, kind)
    /\ UNCHANGED <<topic, answer, reader>>

Answers ==
    /\ reader = "reading" /\ rows # <<>>
    /\ \E row \in Says(topic, rows) :
          \/ answer' = [honest |-> TRUE, row |-> row]
          \/ \E f \in Determined(row), by \in {-1, 1} :
                answer' = [honest |-> FALSE, row |-> [row EXCEPT ![f] = @ + by]]
          \/ /\ topic = "buckets"
             /\ \E i \in DOMAIN row.ends : answer' = [honest |-> FALSE, row |-> [row EXCEPT !.ends[i] = @ + 1]]
    /\ reader' = IF Accepted(answer'.row) THEN "accepted" ELSE "refused"
    /\ UNCHANGED <<topic, rows>>

ReadsAgain == reader # "reading" /\ reader' = "reading" /\ answer' = NoAnswer /\ UNCHANGED <<topic, rows>>

Next == HourPasses \/ Answers \/ ReadsAgain

Spec == Init /\ [][Next]_vars

-----------------------------------------------------------------------------
(* What hourly rows add up to is accepted, whenever it is read: a window   *)
(* that begins or ends within a day, an hour without evidence, a cycle     *)
(* that is over; and one wrong number among those that the others          *)
(* determine is noticed (_pools.py:168-210 and 281-300,                    *)
(* _pool_predict.py:170-191, _pool_actions.py:154-186).                    *)
TotalsJudged == reader # "reading" => (reader = "accepted" <=> answer.honest)
=============================================================================
