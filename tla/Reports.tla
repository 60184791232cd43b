------------------------------- MODULE Reports --------------------------------
(***************************************************************************)
(* The reports over the table of sessions: the page of a day (days.py),    *)
(* totals by period (totals.py), the calendar, charge locations and maps   *)
(* (insights.py), the monthly sums of the history gate (gate.py) and the   *)
(* state for Home Assistant (homeassistant.py), each with the rows its     *)
(* endpoint of api/app.py and api/views.py selects.                        *)
(*                                                                         *)
(* Local time is that of Tariffs.  Of the figures of a session its miles   *)
(* or kWh, its cost and its duration are kept; totals counts the durations *)
(* in whole minutes, the others in steps.  Formatting is left out, and the *)
(* rounding of sums to decimals.                                           *)
(***************************************************************************)
EXTENDS Tariffs

CONSTANTS Minute,     \* steps of a minute
          Month,      \* days of a month
          MaxPoints   \* max_points of tracks and thin

ASSUME ReportAssumption == {Minute, Month, MaxPoints} \subseteq Nat \ {0}

Running == -1   \* end_ts IS NULL
Unknown == -1   \* an odometer reading, or a counter, that is missing

DayOf(t) == t \div Day
MonthOf(t) == DayOf(t) \div Month

\* The rows of _SESSION_SELECT in the order of their start are a sequence; the
\* queries keep the indices of those they select.
SessionsBetween(rows, from, to) == {i \in DOMAIN rows : from <= rows[i].start /\ rows[i].start < to}

SessionsTouching(rows, from, to) ==  \* mutant: what begins at the next midnight counts
    {i \in DOMAIN rows : rows[i].start <= to /\ (rows[i].end = Running \/ rows[i].end > from)}

SessionsOverlapping(rows, from, to) ==
    {i \in DOMAIN rows : rows[i].start < to /\ (rows[i].end = Running \/ rows[i].end > from)}

\* local_range: the days first..last of an endpoint.
LocalRange(rows, first, last) == SessionsBetween(rows, first * Day, (last + 1) * Day)

Finished(rows) == {i \in DOMAIN rows : rows[i].end # Running}
Drives(rows) == {i \in DOMAIN rows : rows[i].kind = "drive" /\ ~rows[i].short}
Charges(rows) == {i \in DOMAIN rows : rows[i].kind = "charge"}

\* _session_json: what the reports read of a session.
Amount(row) == IF row.amount = Unknown THEN 0 ELSE row.amount
Duration(row) == IF row.end = Running THEN 0 ELSE row.end - row.start
Cost(tariffs, row) ==
    IF row.kind # "charge" \/ row.end = Running THEN 0 ELSE ChargeCost(tariffs, row)

\* The sums a report has over the sessions I.
Sums(tariffs, rows, I) ==
    [drives  |-> Cardinality(I \cap Drives(rows)),
     miles   |-> MapThenSumSet(LAMBDA i : Amount(rows[i]), I \cap Drives(rows)),
     time    |-> MapThenSumSet(LAMBDA i : Duration(rows[i]), I \cap Drives(rows)),
     charges |-> Cardinality(I \cap Charges(rows)),
     kwh     |-> MapThenSumSet(LAMBDA i : Amount(rows[i]), I \cap Charges(rows)),
     cost    |-> MapThenSumSet(LAMBDA i : Cost(tariffs, rows[i]), I \cap Charges(rows))]

-----------------------------------------------------------------------------
(* The reports.                                                            *)

\* The period of so many days (1, or Month) that a session starts in.
Period(row, days) == DayOf(row.start) \div days

\* The sums of totals: every drive counts its whole minutes.
InMinutes(tariffs, rows, I) ==
    [Sums(tariffs, rows, I) EXCEPT !.time =
        MapThenSumSet(LAMBDA i : Duration(rows[i]) \div Minute, I \cap Drives(rows))]

\* totals: by the local period a session starts in, those in progress left out.
Totals(tariffs, rows, I, days) ==
    LET done == I \cap Finished(rows)
    IN  [p \in {Period(rows[i], days) : i \in done} |->
            InMinutes(tariffs, rows, {i \in done : Period(rows[i], days) = p})]

\* aggregate: the same with those in progress.
Aggregate(tariffs, rows, I, days) ==
    [p \in {Period(rows[i], days) : i \in I} |->
        Sums(tariffs, rows, {i \in I : Period(rows[i], days) = p})]

\* calendar of the days first..last, blank where nothing started.
Calendar(tariffs, rows, I, first, last) ==
    LET byDay == Aggregate(tariffs, rows, I, 1)
    IN  [d \in first .. last |-> IF d \in DOMAIN byDay THEN byDay[d] ELSE Sums(tariffs, rows, {})]

CalendarMonth(tariffs, rows, m) ==
    LET first == m * Month
        last == first + Month - 1
    IN  Calendar(tariffs, rows, LocalRange(rows, first, last), first, last)

\* summarize_day: everything that overlaps the day counts.
DayPage(tariffs, rows, d) ==
    LET I == SessionsOverlapping(rows, d * Day, (d + 1) * Day)
    IN  [sessions |-> I, sums |-> Sums(tariffs, rows, I),
         totals |-> Calendar(tariffs, rows, I, d, d)[d]]   \* timeline: "totals"

\* charge_locations: the place a charge ended or began at, or one for the others (the
\* site of an invoice, which names the end of a charge without a place, is left out).
LocationOf(row) == IF row.endPlace # "none" THEN row.endPlace
                   ELSE IF row.startPlace # "none" THEN row.startPlace
                   ELSE IF row.dc THEN "Unnamed Supercharger" ELSE "Unnamed location"

ChargeLocations(tariffs, rows) ==
    [place \in {LocationOf(rows[i]) : i \in Charges(rows)} |->
        Sums(tariffs, rows, {i \in Charges(rows) : LocationOf(rows[i]) = place})]

\* totals_from_sessions of the history gate.
GateMonths(rows) ==
    LET done == Finished(rows)
        of(m) == {i \in done : MonthOf(rows[i].start) = m}
    IN  [m \in {MonthOf(rows[i].start) : i \in done} |->
            [drives  |-> Cardinality(of(m) \cap Drives(rows)),
             miles   |-> MapThenSumSet(LAMBDA i : Amount(rows[i]), of(m) \cap Drives(rows)),
             charges |-> Cardinality(of(m) \cap Charges(rows)),
             kwh     |-> MapThenSumSet(LAMBDA i : Amount(rows[i]), of(m) \cap Charges(rows))]]

\* state_payload: the sessions that began today.
HomeAssistantToday(rows, d) ==
    LET I == SessionsBetween(rows, d * Day, (d + 1) * Day)
    IN  [miles |-> MapThenSumSet(LAMBDA i : Amount(rows[i]), I \cap Drives(rows)),
         kwh   |-> MapThenSumSet(LAMBDA i : Amount(rows[i]), I \cap Charges(rows))]

-----------------------------------------------------------------------------
(* Maps: thin and tracks.                                                  *)

Step(n) == IF n > MaxPoints THEN (n + MaxPoints - 1) \div MaxPoints ELSE 1

EveryStep(points) ==  \* mutant: the last point is not kept
    LET step == Step(Len(points))
    IN  [k \in 1 .. (Len(points) + step - 1) \div step |-> points[(k - 1) * step + 1]]

\* Every step-th point, and the last one: samples at different places.
Thinned(points) ==
    LET step == Step(Len(points))
        kept == [k \in 1 .. (Len(points) + step - 1) \div step |-> points[(k - 1) * step + 1]]
    IN  IF points = <<>> \/ kept[Len(kept)] = points[Len(points)] THEN kept
        ELSE Append(kept, points[Len(points)])

\* The first sample from the i-th on that is no longer before, or at, a time.
NotBefore(samples, i, time) ==
    Min({k \in i .. Len(samples) + 1 : k = Len(samples) + 1 \/ samples[k] >= time})
After(samples, i, time) ==
    Min({k \in i .. Len(samples) + 1 : k = Len(samples) + 1 \/ samples[k] > time})

\* Drives in their order take the samples (by their times) from where the one
\* before stopped; a drive in progress takes those at its start.
Track(samples, state, drive) ==
    LET end == IF drive.end = Running THEN drive.start ELSE drive.end
        i == NotBefore(samples, state.next, drive.start)
        j == After(samples, i, end)
        points == SubSeq(samples, i, j - 1)
        line == [start |-> drive.start, all |-> points, points |-> Thinned(points)]
    IN  [next |-> j,
         tracks |-> IF Len(points) < 2 THEN state.tracks ELSE Append(state.tracks, line)]

Tracks(rows, samples) ==
    LET upTo[i \in 0 .. Len(rows)] ==
            IF i = 0 THEN [next |-> 1, tracks |-> <<>>]
            ELSE IF i \in Drives(rows) THEN Track(samples, upTo[i - 1], rows[i]) ELSE upTo[i - 1]
    IN  upTo[Len(rows)].tracks
===============================================================================
