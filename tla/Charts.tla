------------------------------- MODULE Charts -------------------------------
(***************************************************************************)
(* What the dashboard draws from a series: the axis scale, the grid and    *)
(* the pen strokes of the four report charts, and the live 60 s chart of   *)
(* an axis (web/static/desktop/js/dashboard.js).                           *)
(*                                                                         *)
(* Values are in hundredths of a unit and times in sample periods; a plot  *)
(* is described in data coordinates: the points the pen joins, those it    *)
(* dots, and the range of each axis.                                       *)
(***************************************************************************)
EXTENDS Integers, Sequences, FiniteSets, FiniteSetsExt, Functions

CONSTANTS Readings,    \* values a series may hold
          Missing,     \* null
          Gap,         \* gapMs: longer distances are not joined
          LiveWindow,  \* historyWindowMs
          MaxPoints    \* bound: points of a series

Unit == 100
\* Bound: the largest value that the steps below reach with five gridlines.
LargestReading == 50000 * Unit

ASSUME ChartsAssumption ==
    /\ Readings \subseteq -LargestReading..LargestReading /\ Missing \in Int \ Readings
    /\ Gap \in Nat \ {0} /\ LiveWindow \in Nat \ {0} /\ MaxPoints \in Nat

VARIABLES series,  \* the points, oldest first
          plot     \* what the canvas shows

chartVars == <<series, plot>>

EmptyPlot == [kind |-> "none"]

Measured(s) == {i \in DOMAIN s : s[i].value # Missing}
\* Number(null) is 0.
Coerced(v) == IF v = Missing THEN 0 ELSE v

ChartsInit == series = <<>> /\ plot = EmptyPlot

\* A point of a report or a sample of the stream; some clocks stand still.
NewPoint ==
    /\ Len(series) < MaxPoints
    /\ \E v \in Readings \cup {Missing}, d \in {0, 1, Gap + 1} :
          LET t == IF series = <<>> THEN 0 ELSE series[Len(series)].time + d IN
          series' = Append(series, [time |-> t, value |-> v])
    /\ UNCHANGED plot
-----------------------------------------------------------------------------
(* chartAxisScale *)

Magnitudes == {10, 100, 1000, 10000, 100000}
NiceSteps(m) == {m, 2 * m, (5 * m) \div 2, 5 * m, 10 * m}
CeilDiv(a, b) == (a + b - 1) \div b

AxisScale(values, target) ==
    LET rawMax == Max(values \cup {Unit})
        magnitude == Max({m \in Magnitudes : m * target <= rawMax})
        step == Min({s \in NiceSteps(magnitude) : s * target >= rawMax})
        intervals == Max({1, CeilDiv(rawMax, step)})
    IN  [max |-> intervals * step, step |-> step, intervals |-> intervals,
         decimals |-> IF step < Unit THEN 2 ELSE IF step % Unit = 0 THEN 0 ELSE 1]

MeasuredValues(s) == {s[i].value : i \in Measured(s)}
CoercedValues(s) == {Coerced(s[i].value) : i \in DOMAIN s}
-----------------------------------------------------------------------------
(* The pen *)

\* Neighbours among the points drawn.
Neighbours(I) == {p \in I \X I : p[1] < p[2] /\ ~\E k \in I : p[1] < k /\ k < p[2]}

JoinsAcross(s) == Neighbours(Measured(s))   \* mutant: no moveTo after a gap
Joins(s) == {p \in Neighbours(Measured(s)) : s[p[2]].time - s[p[1]].time <= Gap}

Plotted(kind, s, scale, joins, dots) ==
    [kind |-> kind, max |-> scale.max, step |-> scale.step, intervals |-> scale.intervals,
     decimals |-> scale.decimals, joins |-> joins, dots |-> dots, values |-> MeasuredValues(s)]

\* A line broken at gaps; a single point gets a dot.
GappedPlot(kind, scale) ==
    plot' = Plotted(kind, series, scale, IF series = <<>> THEN {} ELSE Joins(series),
                    IF Cardinality(Measured(series)) = 1 THEN Measured(series) ELSE {})

DrawNetworkReport ==
    /\ GappedPlot("network", AxisScale(MeasuredValues(series), 8))
    /\ UNCHANGED series

\* Nothing but the time axis without points.
DrawPowerReport ==
    /\ IF series = <<>> THEN plot' = EmptyPlot
       ELSE GappedPlot("power", AxisScale(MeasuredValues(series), 8))
    /\ UNCHANGED series

\* A percentage has a fixed scale, the load and the temperature a measured one.
DrawHealthReport(percent) ==
    /\ GappedPlot(IF percent THEN "percent" ELSE "health",
                  IF percent THEN [max |-> 100 * Unit, step |-> 20 * Unit, intervals |-> 5, decimals |-> 0]
                  ELSE AxisScale(CoercedValues(series), 5))
    /\ UNCHANGED series

\* One grid for two scales, no gaps, a missing value is drawn as zero: shown here
\* for the current, whose other axis has a constant series.
DrawCurrentReport ==
    LET current == AxisScale(CoercedValues(series), 6)
        velocity == AxisScale({}, 6)
        grid == Max({current.intervals, velocity.intervals})
    IN  /\ plot' = Plotted("current", series,
                           [current EXCEPT !.intervals = grid, !.max = current.step * grid],
                           Neighbours(DOMAIN series),
                           IF Len(series) = 1 THEN {1} ELSE {})
        /\ UNCHANGED series

\* drawChart and drawChartSeries: samples of the last minute on a scale that spans
\* the values, padded when they are (nearly) equal; age is never negative.  A sample
\* has an actual value and a setpoint, or neither.
LiveRange(values) ==
    LET low == Min(values) high == Max(values)
        pad == Max({(IF high < 0 THEN -high ELSE high) \div 20, Unit})
    IN  IF high = low THEN [low |-> low - pad, high |-> high + pad]
        ELSE [low |-> low, high |-> high]

DrawLive(now) ==
    LET I == Measured(series)
        recent == {i \in I : now - series[i].time <= LiveWindow}
        range == LiveRange(MeasuredValues(series))
    IN  /\ plot' = IF Len(series) < 2 \/ Cardinality(I) < 1 THEN EmptyPlot
                   ELSE [kind |-> "live", low |-> range.low, high |-> range.high,
                         joins |-> Neighbours(recent),
                         ages |-> {Max({0, now - series[i].time}) : i \in recent}]
        /\ UNCHANGED series
-----------------------------------------------------------------------------
ReportDrawings ==
    \/ DrawNetworkReport \/ DrawPowerReport \/ DrawCurrentReport
    \/ DrawHealthReport(TRUE) \/ DrawHealthReport(FALSE)

Clock == IF series = <<>> THEN {0}
         ELSE {series[Len(series)].time - 1, series[Len(series)].time + LiveWindow}
LiveDrawings == \E now \in Clock : DrawLive(now)

ChartsNext == NewPoint \/ ReportDrawings \/ LiveDrawings
-----------------------------------------------------------------------------
\* The plot of a chart whose data has not moved on since.
Gapped == plot.kind \in {"network", "power", "health", "percent"}
Scaled == plot.kind \in {"network", "power", "health", "current"}

ChartsTypeOK ==
    /\ \A i \in DOMAIN series : series[i].value \in Readings \cup {Missing}
    /\ plot.kind \in {"none", "network", "power", "health", "percent", "current", "live"}
    /\ plot.kind # "none" => \A p \in plot.joins : p[1] < p[2] /\ {p[1], p[2]} \subseteq DOMAIN series

\* No report line is drawn across a gap in the telemetry, and none skips or joins
\* a missing value (the gapMs of the three charts).
NoLineAcrossGap ==
    Gapped => \A p \in plot.joins :
        /\ series[p[1]].value # Missing /\ series[p[2]].value # Missing
        /\ series[p[2]].time - series[p[1]].time <= Gap

\* Every value that is not negative lies within the axis of a report chart, whose
\* top gridline is needed (but for the grid that two scales share), and the axis has
\* no more gridlines than asked for (chartAxisScale).
AxisHoldsTheData ==
    Scaled => /\ \A v \in plot.values : v <= plot.max
              /\ plot.kind = "current" \/ plot.max - plot.step < Max(plot.values \cup {Unit})
              /\ plot.intervals <= 8

\* The labels of the gridlines are exact, from the top to zero, though the steps
\* may be 2.5 or 0.25 (chartAxisScale's decimals).
AxisLabelsExact ==
    Scaled => /\ plot.decimals = 0 => plot.step % Unit = 0
              /\ plot.decimals = 1 => plot.step % (Unit \div 10) = 0
              /\ plot.max = plot.intervals * plot.step

\* The live chart never divides by an empty range nor draws a sample outside the
\* last minute, whatever the clocks of the page and of the samples.
LiveChartInFrame ==
    plot.kind = "live" => plot.low < plot.high /\ plot.ages \subseteq 0..LiveWindow

\* What a chart shows is in the data, within its axes, and only what is in the data is
\* joined.
ChartsInv ==
    /\ ChartsTypeOK
    /\ NoLineAcrossGap
    /\ AxisHoldsTheData
    /\ AxisLabelsExact
    /\ LiveChartInFrame
=============================================================================
