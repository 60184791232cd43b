-------------------------------- MODULE Gates ---------------------------------
(***************************************************************************)
(* The two gates before a cut-over from TeslaFi: the history gate          *)
(* (teslai/gate.py) compares imported months with TeslaFi's own, the live  *)
(* gate (teslai/live_gate.py) looks for telemetry that is missing.         *)
(*                                                                         *)
(* Odometers count tenths of a mile.  The sessions are the finished drives *)
(* of one month, those flagged short left out already: a function from     *)
(* numbers in the order of their start.  So are its charges, to what each  *)
(* has added.  The warnings of the live gate, which never fail it, are     *)
(* left out.                                                               *)
(***************************************************************************)
EXTENDS Integers, SequencesExt

CONSTANTS MaxUnlogged,        \* max_unlogged_miles
          OdometerSlack,      \* 0.5 miles, whatever the distance
          OdometerShare,      \* odometer_tolerance is one part in OdometerShare
          MetricShare,        \* rel_tolerance is one part in MetricShare
          MaxTelemetryGap     \* max_gap

ASSUME GateAssumption ==
    /\ {MaxUnlogged, OdometerSlack, MaxTelemetryGap} \subseteq Nat
    /\ {OdometerShare, MetricShare} \subseteq Nat \ {0}

NoReading == -1

Abs(n) == IF n < 0 THEN -n ELSE n

Readings(drives) == {k \in DOMAIN drives : drives[k].from # NoReading /\ drives[k].to # NoReading}

Miles(drives) == MapThenSumSet(LAMBDA k : drives[k].to - drives[k].from, Readings(drives))

\* Within 0.5 miles, or the given part of the distance.
OdometerFits(miles, moved) ==
    \/ Abs(miles - moved) <= OdometerSlack
    \/ Abs(miles - moved) * OdometerShare <= moved

-----------------------------------------------------------------------------
(* Live gate.                                                              *)

CheckOdometer(drives) ==
    LET known == Readings(drives)
        moved == drives[Max(known)].to - drives[Min(known)].from
    IN  known # {} /\ (moved <= 0 \/ OdometerFits(Miles(drives), moved))

\* pairwise: neighbours in the order.
Pairs(known) == {p \in known \X known : p[1] < p[2] /\ known \cap (p[1] + 1 .. p[2] - 1) = {}}

Continuous(drives, known) == \A p \in Pairs(known) : drives[p[2]].from - drives[p[1]].to <= MaxUnlogged

CheckContinuityButLast(drives) ==  \* mutant: the last pair is not looked at
    Continuous(drives, {k \in Readings(drives) : \E l \in Readings(drives) : k < l})

CheckContinuity(drives) == Continuous(drives, Readings(drives))

\* connected_intervals: link is a function from the times of the rows, which are
\* read in their order.
ReadLink(link, t, state) ==
    CASE link[t] /\ state.start = NoReading -> [state EXCEPT !.start = t]
      [] ~link[t] /\ state.start # NoReading ->
             [start |-> NoReading, found |-> state.found \cup {<<state.start, t>>}]
      [] OTHER -> state

ConnectedIntervals(link, end) ==
    LET last == MapThenFoldSet(LAMBDA t, state : ReadLink(link, t, state),
                               [start |-> NoReading, found |-> {}],
                               LAMBDA t : t, LAMBDA T : Max(T), DOMAIN link)
    IN  last.found \cup (IF last.start = NoReading THEN {} ELSE {<<last.start, end>>})

\* The cursor goes over the events of an interval and then to its end; each step
\* longer than max_gap is a problem.
Steps(stops) ==
    {g \in stops \X stops : /\ g[2] - g[1] > MaxTelemetryGap
                            /\ stops \cap (g[1] + 1 .. g[2] - 1) = {}}

GapsBefore(events, interval) ==  \* mutant: the stretch after the last event is not looked at
    Steps({interval[1]} \cup {t \in events : interval[1] <= t /\ t <= interval[2]})

GapsIn(events, interval) ==
    Steps({interval[1], interval[2]} \cup {t \in events : interval[1] <= t /\ t <= interval[2]})

CheckGaps(link, events, end) == UNION {GapsIn(events, c) : c \in ConnectedIntervals(link, end)}

\* passed: the checks of severity "fail".
LivePassed(drives, link, events, end) ==
    CheckOdometer(drives) /\ CheckContinuity(drives) /\ CheckGaps(link, events, end) = {}

-----------------------------------------------------------------------------
(* History gate: totals_from_sessions and compare, for one month.          *)

OdometerStart(drives) ==
    LET read == {k \in DOMAIN drives : drives[k].from # NoReading}
    IN  IF read = {} THEN NoReading ELSE drives[Min(read)].from

OdometerEnd(drives) ==
    LET read == {k \in DOMAIN drives : drives[k].to # NoReading}
    IN  IF read = {} THEN NoReading ELSE drives[Max(read)].to

OdometerDelta(drives) ==
    IF OdometerStart(drives) = NoReading \/ OdometerEnd(drives) = NoReading THEN 0
    ELSE OdometerEnd(drives) - OdometerStart(drives)

MetricFits(ours, theirs, slack) ==
    Abs(ours - theirs) <= slack \/ Abs(ours - theirs) * MetricShare <= theirs

\* The charges of the month are a function to what each has added, if that is known.
KwhAdded(charges) ==
    LET kwh == [k \in DOMAIN charges |-> IF charges[k] = NoReading THEN 0 ELSE charges[k]]
    IN  MapThenSumSet(LAMBDA k : kwh[k], DOMAIN charges)

NoAnswer == [drives |-> NoReading, miles |-> NoReading, charges |-> NoReading, kwh |-> NoReading]

\* The answer key is TeslaFi's counts and sums for the month, when it has the month.
MonthOk(drives, charges, answer) ==
    /\ answer # NoAnswer
    /\ MetricFits(Cardinality(DOMAIN drives), answer.drives, 1)
    /\ MetricFits(Miles(drives), answer.miles, 0)
    /\ MetricFits(Cardinality(DOMAIN charges), answer.charges, 1)
    /\ MetricFits(KwhAdded(charges), answer.kwh, 0)
    /\ OdometerDelta(drives) > 0 => OdometerFits(Miles(drives), OdometerDelta(drives))

-----------------------------------------------------------------------------
(* What the gates are to find out: the movements of the car, of which some *)
(* have no drive, or one without a reading, and what it was charged with.  *)

Recordings == {"drive", "lost", "noStart", "noEnd"}

Odometer(moves, k) == MapThenSumSet(LAMBDA j : moves[j].miles, {j \in DOMAIN moves : j <= k})

\* The drives that are recorded of the movements.
Recorded(moves) ==
    [k \in {j \in DOMAIN moves : moves[j].as # "lost"} |->
        [from |-> IF moves[k].as = "noStart" THEN NoReading ELSE Odometer(moves, k - 1),
         to   |-> IF moves[k].as = "noEnd" THEN NoReading ELSE Odometer(moves, k)]]

ChargeRecordings == {"charge", "lost", "noEnergy"}

Kwh(plugged, I) == MapThenSumSet(LAMBDA k : plugged[k].kwh, I)

\* The charges that are recorded of the times the car was plugged in.
RecordedCharges(plugged) ==
    [k \in {j \in DOMAIN plugged : plugged[j].as # "lost"} |->
        IF plugged[k].as = "noEnergy" THEN NoReading ELSE plugged[k].kwh]

\* TeslaFi has all of them.
TeslaFiAnswer(moves, plugged) ==
    [drives |-> Len(moves), miles |-> Odometer(moves, Len(moves)),
     charges |-> Len(plugged), kwh |-> Kwh(plugged, DOMAIN plugged)]

Measured(plugged) == {k \in DOMAIN plugged : plugged[k].as = "charge"}

Whole(moves) == {k \in DOMAIN moves : moves[k].as = "drive"}

\* The movement from one whole drive to a later one that no whole drive accounts for.
Missing(moves, a, b) == MapThenSumSet(LAMBDA k : moves[k].miles, (a .. b) \ Whole(moves))

\* Connected, by the rows of the link, from the one time to the other.
ConnectedFrom(link, a, b) ==
    \A t \in a .. b - 1 :
        \E r \in DOMAIN link : r <= t /\ link[r] /\ \A s \in r + 1 .. t : s \in DOMAIN link => link[s]

\* Longer than max_gap, connected, and nothing reported in between.
SilentStretches(link, events, end) ==
    {s \in (0 .. end) \X (0 .. end) :
        /\ s[2] - s[1] > MaxTelemetryGap
        /\ ConnectedFrom(link, s[1], s[2])
        /\ events \cap (s[1] + 1 .. s[2] - 1) = {}}
===============================================================================
