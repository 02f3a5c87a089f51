----------------------------- MODULE Calibration -----------------------------
(***************************************************************************)
(* How CRADBus chooses its sample points                                   *)
(* (src/Source/Bus/RAD/rad_bus.cpp: calibrateReadTiming,                   *)
(* calibrateWriteTiming, calibrateSIDReadTiming, verifyC64CIA2DDRA),       *)
(* as operators on what the scan saw: an eye is the set of sample points   *)
(* at which every transfer of the scan was right.  What the scan only      *)
(* counts for its report is left out.                                      *)
(***************************************************************************)
EXTENDS Integers, FiniteSets, FiniteSetsExt, SequencesExt

CONSTANTS
    FirstSample, LastSample, SampleStep, \* the read and the SID scans
    AddrTimes, DataTimes,   \* the write scan's grid: two sequences of times
    Reach,                  \* how far the score of a grid point looks
    Configured,             \* the read and SID times the config file gives
    ConfiguredWrite         \* its write point <<address time, data time>>

ASSUME SamplesAssumption ==
    /\ FirstSample \in Nat \ {0} /\ SampleStep \in Nat \ {0}
    /\ LastSample \in Nat /\ FirstSample <= LastSample

ASSUME GridAssumption ==
    /\ AddrTimes \in Seq(Nat) /\ DataTimes \in Seq(Nat) /\ Reach \in Nat
    /\ ConfiguredWrite \in Nat \X Nat

\* The scan's loop: its i-th sample point, from 1.
SampleCount == ((LastSample - FirstSample) \div SampleStep) + 1
SampleAt(i) == FirstSample + (i - 1) * SampleStep
Samples == {SampleAt(i) : i \in 1..SampleCount}
WritePoints ==
    {ConfiguredWrite} \union (Range(AddrTimes) \X Range(DataTimes))
Grid == (DOMAIN AddrTimes) \X (DOMAIN DataTimes)

--------------------------------------------------------------------------------
(* The longest run of passing samples, found in one pass over the scan.       *)

\* No run is open when start is 0, and none was closed while best is 0.
NoRun == [start |-> 0, end |-> 0, best |-> 0, bestStart |-> 0, bestEnd |-> 0]

CloseRun(run) ==
    LET samples == (run.end - run.start) \div SampleStep + 1 IN
    IF run.start = 0 THEN run
    ELSE IF samples > run.best
    THEN [start |-> 0, end |-> 0,
          best |-> samples, bestStart |-> run.start, bestEnd |-> run.end]
    ELSE [run EXCEPT !.start = 0, !.end = 0]

ScanSample(run, sample, eye) ==
    IF sample \in eye
    THEN [run EXCEPT !.start = IF @ = 0 THEN sample ELSE @, !.end = sample]
    ELSE CloseRun(run)

\* The run's state after the first i samples of the scan.
ScannedRun[i \in Nat] ==
    [eye \in SUBSET Samples |->
        IF i = 0 THEN NoRun
        ELSE ScanSample(ScannedRun[i - 1][eye], SampleAt(i), eye)]

\* Mutant: the last run is not closed after the scan.
OpenLongestRun == ScannedRun[SampleCount]

LongestRun == [eye \in SUBSET Samples |-> CloseRun(ScannedRun[SampleCount][eye])]

Centre(run) ==
    run.bestStart
      + (((run.bestEnd - run.bestStart) \div SampleStep) \div 2) * SampleStep

\* calibrateReadTiming's choice: the centre of the longest run, or, when no
\* sample was free of errors, the time that was configured.
ReadTiming(eye, configured) ==
    LET run == LongestRun[eye] IN
    IF run.best > 0
    THEN [start |-> run.bestStart, end |-> run.bestEnd, selected |-> Centre(run)]
    ELSE [start |-> 0, end |-> 0, selected |-> configured]

\* calibrateSIDReadTiming: a numeric point, else the last sample before PHI2
\* falls when the SID answers there (the numeric point is then left where the
\* scan ended), else the configured point and a SID that is not to be trusted.
SIDTiming(eye, edge, configured) ==
    LET run == LongestRun[eye] IN
    CASE run.best > 0 -> [at |-> Centre(run), edge |-> FALSE, reliable |-> TRUE]
      [] run.best = 0 /\ edge ->
           [at |-> Max(Samples), edge |-> TRUE, reliable |-> TRUE]
      [] OTHER -> [at |-> configured, edge |-> FALSE, reliable |-> FALSE]

--------------------------------------------------------------------------------
(* The write point: the passing point with most passing neighbours, and the   *)
(* nearest to the configured one among those.                                 *)

Score(p, eye) ==
    Cardinality({q \in eye : /\ q[1] - p[1] \in -Reach..Reach
                             /\ q[2] - p[2] \in -Reach..Reach})

Distance(p, configured) ==
    LET da == AddrTimes[p[1]] - configured[1]
        dd == DataTimes[p[2]] - configured[2]
    IN  da * da + dd * dd

NoPoint == [score |-> 0, distance |-> 0, point |-> <<1, 1>>]

\* Mutant: of two equal points the later one is taken, however far it is.
LaterPoint(best, p, eye, configured) ==
    IF p \in eye /\ Score(p, eye) >= best.score
    THEN [score |-> Score(p, eye), distance |-> 0, point |-> p] ELSE best

BetterPoint(best, p, eye, configured) ==
    LET score == Score(p, eye) distance == Distance(p, configured) IN
    IF p \in eye /\ (\/ score > best.score
                     \/ score = best.score /\ distance < best.distance)
    THEN [score |-> score, distance |-> distance, point |-> p] ELSE best

\* Address times in the outer loop, data times in the inner one.
GridCount == Len(AddrTimes) * Len(DataTimes)
GridAt(i) == <<((i - 1) \div Len(DataTimes)) + 1, ((i - 1) % Len(DataTimes)) + 1>>

\* The best of the first i points of the grid.
ScannedPoint[i \in Nat] ==
    [eye \in SUBSET Grid |-> [configured \in WritePoints |->
        IF i = 0 THEN NoPoint
        ELSE BetterPoint(ScannedPoint[i - 1][eye][configured], GridAt(i), eye, configured)]]

BestPoint(eye, configured) == ScannedPoint[GridCount][eye][configured].point

WriteTiming(eye, configured) ==
    LET p == BestPoint(eye, configured) IN
    IF eye = {} THEN configured ELSE <<AddrTimes[p[1]], DataTimes[p[2]]>>

--------------------------------------------------------------------------------
(* What verifyC64CIA2DDRA needs of the read window: two sample points at      *)
(* least, each of which must show the value three times.                      *)

VerifyPoints(window) == {window.start, window.selected, window.end}

MayVerify(window) ==
    window.start > 0 /\ Cardinality(VerifyPoints(window)) >= 2

DDRAVerified(window, right) == MayVerify(window) /\ VerifyPoints(window) \subseteq right

--------------------------------------------------------------------------------
(* Reference definitions, without the scans.                                  *)

\* The runs of adjacent passing samples.
Runs(eye) ==
    {r \in Samples \X Samples :
        /\ r[1] <= r[2] /\ \A s \in Samples : s \in r[1]..r[2] => s \in eye
        /\ r[1] - SampleStep \notin eye /\ r[2] + SampleStep \notin eye}

\* Half the samples of a longest run are on either side of the point, to one.
Centred(point, eye) ==
    \E r \in Runs(eye) :
        /\ \A q \in Runs(eye) : q[2] - q[1] <= r[2] - r[1]
        /\ point \in eye /\ point \in r[1]..r[2]
        /\ (r[2] - point) - (point - r[1]) \in {0, SampleStep}

\* No passing point has more passing neighbours, or as many and is nearer.
BestWrite(times, eye, configured) ==
    \E p \in eye :
        /\ times = <<AddrTimes[p[1]], DataTimes[p[2]]>>
        /\ \A q \in eye : \/ Score(q, eye) < Score(p, eye)
                          \/ /\ Score(q, eye) = Score(p, eye)
                             /\ Distance(q, configured) >= Distance(p, configured)
=============================================================================
