---------------------------- MODULE Calculations ------------------------------
(***************************************************************************)
(* What the commands and pages of teslai compute from files and tables:    *)
(* the import of TeslaFi's history, the cost of a charge, the reports and  *)
(* the two gates.  A behaviour is one question, for any input within the   *)
(* bounds, and its answer.                                                 *)
(***************************************************************************)
EXTENDS ImportTimes, Reports, Gates

CONSTANTS Midnights,   \* bound: local days that sessions fall on
          Places,      \* kinds of the places that charges are at, "none" for no place
          Horizon,     \* bound: the last time the live gate looks at
          MoveMiles,   \* bound: lengths of the movements of a car
          MaxMoves,    \* bound: movements and charges of a month
          ChargeKwh,   \* bound: what a charge adds
          MaxLinks,    \* bound: link rows of a window of the live gate
          MaxSamples   \* bound: samples of a map

ASSUME CalculationAssumption ==
    /\ {Midnights, Horizon, MaxSamples, MaxMoves} \subseteq Nat
    /\ MoveMiles \subseteq Nat /\ ChargeKwh \subseteq Nat

VARIABLE answer

Questions == {"nothing", "times", "files", "cost", "reports", "map", "drives", "telemetry"}

Init == answer = [of |-> "nothing"]

-----------------------------------------------------------------------------
(* Import.                                                                 *)

\* One file, with a row that is bad, and a clock that is set late.
AskTimes ==
    \E ts \in Instants, lag \in 0 .. Hour, bad \in {"date", "fields"} :
        \E at \in 0 .. Len(ts) :
            LET file == [i \in DOMAIN ts |->
                            CsvRow(ts[i], lag, "online", IF i = at THEN bad ELSE "none")]
            IN  answer' = [of |-> "times", ts |-> ts, file |-> file, report |-> ReadRows(file)]

\* The file, or the two files it was cut into, in either order.
AskFiles ==
    \E ts \in {ts \in Instants : Len(ts) < MaxRows} :
        \E states \in [DOMAIN ts -> RowStates], cut \in 0 .. Len(ts), swapped \in BOOLEAN :
            LET file == [i \in DOMAIN ts |-> CsvRow(ts[i], 0, states[i], "none")]
                head == SubSeq(file, 1, cut)
                tail == SubSeq(file, cut + 1, Len(file))
                files == IF swapped THEN <<tail, head>> ELSE <<head, tail>>
            IN  answer' = [of |-> "files", file |-> file, files |-> files, tail |-> tail,
                           whole |-> ReadRows(file), result |-> Import(files)]

\* Every imported row gets the least instant that its wall clock can stand for
\* and that keeps the order of the file: in the hour that is repeated, in the
\* one that is skipped, and whatever bad rows are left out (to_utc, read_rows).
ImportedInOrder ==
    answer.of = "times" => LeastTimes(answer.ts, answer.file, answer.report)

\* A history that is cut into files, unless within the repeated hour, imports as
\* the whole one does, whatever order the files are given in: the same rows, and
\* links of which the second file may repeat one, and the builder takes those of
\* the whole history, which tell what its rows tell.  The span that --write
\* replaces holds every row (import_teslafi, to_events, import_teslafi_cmd).
FilesMakeOneHistory ==
    answer.of = "files" =>
        LET links == Connectivity(answer.whole.rows)
        IN  /\ \/ answer.tail # <<>> /\ Repeated(answer.tail[1].wall)
               \/ /\ answer.result.rows = answer.whole.rows
                  /\ TakenLinks(answer.result.links) = links
                  /\ Len(answer.result.links) <= Len(links) + 1
            /\ \A k \in DOMAIN answer.result.rows :
                  Replaces(answer.files, answer.result.rows[k].ts)
            /\ LinksTellStates(answer.whole.rows, links)

-----------------------------------------------------------------------------
(* Costs.                                                                  *)

Tariff(windows) == [windows |-> windows, home |-> 1, supercharger |-> 4, public |-> 3]

HomeTariffs ==
    {Tariff(<<w>>) : w \in Windows((SUBSET (0 .. Week - 1)) \ {{}}, 0 .. Day, {3})}
    \cup UNION {{Tariff(<<w, v>>) : v \in Windows({{0, Week - 1}}, {1, Day}, {2})} :
                 w \in Windows({{0}}, 0 .. Day, {3})}

Charge(start, length, from, to, dc, invoice) ==
    [kind |-> "charge", short |-> FALSE, start |-> start, end |-> start + length,
     amount |-> 1, energy |-> TRUE, startPlace |-> from, endPlace |-> to, dc |-> dc,
     invoice |-> invoice]

PricedAt(tariffs, charge) ==
    answer' = [of |-> "cost", tariffs |-> tariffs, charge |-> charge,
               cost |-> ChargeCost(tariffs, charge)]

AskCost ==
    \E start \in 0 .. Week * Day - 1, length \in 1 .. Day + 1 :
        \/ \E t \in HomeTariffs :
              PricedAt(t, Charge(start, length, "home", "home", FALSE, NoInvoice))
        \/ \E from \in Places, to \in Places, dc \in BOOLEAN, invoice \in {NoInvoice, 50} :
              PricedAt(Tariff(<<>>), Charge(start, length, from, to, dc, invoice))

\* A charge at home costs what the owner's windows say for every step of it,
\* also across midnight and across the week, up to the part of a slice in which
\* the price changes; elsewhere it has one price, and an invoice always wins
\* (Window.matches, price_at, charge_cost, _price_kind).
CostIsFair ==
    answer.of = "cost" =>
        LET c == answer.charge
            flat == [home |-> answer.tariffs.home, free |-> 0,
                     supercharger |-> answer.tariffs.supercharger, public |-> answer.tariffs.public]
            fair == IF PriceKind(c) = "home" THEN FairCost(answer.tariffs, c)
                    ELSE flat[PriceKind(c)] * (c.end - c.start)
            split == Cardinality(SplitSlices(answer.tariffs, c))
        IN  IF c.invoice # NoInvoice THEN answer.cost = c.invoice
            ELSE Abs(answer.cost - fair) <= 2 * (Slice - 1) * split

-----------------------------------------------------------------------------
(* Reports.                                                                *)

\* What a session can be: its kind, whether it is short, its amount.
Shapes == {[kind |-> "drive", short |-> FALSE, amount |-> 3],
           [kind |-> "drive", short |-> FALSE, amount |-> Unknown],
           [kind |-> "drive", short |-> TRUE, amount |-> 1],
           [kind |-> "charge", short |-> FALSE, amount |-> 2],
           [kind |-> "idle", short |-> FALSE, amount |-> Unknown]}

Session(shape, start, end) ==
    [Charge(start, 0, "none", IF shape.amount = 2 THEN "home" ELSE "none", FALSE, NoInvoice)
        EXCEPT !.kind = shape.kind, !.short = shape.short, !.amount = shape.amount, !.end = end]

\* Two sessions, the second some time after the first, finished or in progress.
Spans ==
    UNION {{<<x[1], x[2], c, d>> : c \in {x[2], x[2] + 1}, d \in {Running} \cup x[2] + 2 .. Midnights * Day} :
           x \in {ab \in (0 .. Midnights * Day) \X (1 .. Midnights * Day - 2) : ab[1] < ab[2]}}

AskReports ==
    \E x, y \in Shapes, s \in Spans :
        LET rows == <<Session(x, s[1], s[2]), Session(y, s[3], s[4])>>
            tariffs == Tariff(<<[days |-> {1}, start |-> 1, end |-> 0, price |-> 2]>>)
            days == 0 .. Midnights - 1
        IN  answer' =
              [of |-> "reports", rows |-> rows, tariffs |-> tariffs,
               pages  |-> [d \in days |-> DayPage(tariffs, rows, d)],
               daily  |-> Totals(tariffs, rows, LocalRange(rows, 0, Midnights - 1), 1),
               months |-> Totals(tariffs, rows, LocalRange(rows, 0, Midnights - 1), Month),
               gate   |-> GateMonths(rows),
               ha     |-> [d \in days |-> HomeAssistantToday(rows, d)],
               calendar |-> [m \in {MonthOf(d * Day) : d \in days} |-> CalendarMonth(tariffs, rows, m)],
               places |-> ChargeLocations(tariffs, rows)]

Figures == {"drives", "miles", "time", "charges", "kwh", "cost"}

SumOver(report, figure, periods) ==
    MapThenSumSet(LAMBDA p : report[p][figure], periods \cap DOMAIN report)

\* A sum in whole minutes lacks less than a minute of each drive.
CutToMinutes(minutes, time, drives) ==
    Minute * minutes <= time /\ time <= Minute * minutes + (Minute - 1) * drives

\* Every finished session counts in exactly one day and in the month of that day,
\* whichever report counts it; the calendar and Home Assistant add the one in
\* progress, and the page of a day adds those that began before it and reach
\* into it.  The time that totals gives in minutes is short of the others' by
\* less than a minute for each drive (totals, aggregate, calendar,
\* totals_from_sessions, state_payload, summarize_day, charge_locations).
ReportsAgree ==
    answer.of = "reports" =>
        LET rows == answer.rows
            days == DOMAIN answer.pages
            all == DOMAIN rows
            whole == Sums(answer.tariffs, rows, Finished(rows))
            startsOn(d) == {i \in all : DayOf(rows[i].start) = d}
            open(d) == Sums(answer.tariffs, rows, startsOn(d) \ Finished(rows))
            earlier(d) == Sums(answer.tariffs, rows, answer.pages[d].sessions \ startsOn(d))
            day(d, f) == answer.calendar[MonthOf(d * Day)][d][f]
        IN  /\ \A f \in Figures :
                  /\ \A m \in DOMAIN answer.calendar :
                        LET inMonth == {d \in days : MonthOf(d * Day) = m}
                        IN  SumOver(answer.months, f, {m}) = SumOver(answer.daily, f, inMonth)
                  /\ \A d \in days :
                        /\ answer.pages[d].totals[f] = day(d, f)
                        /\ answer.pages[d].sums[f] = day(d, f) + earlier(d)[f]
            /\ \A f \in Figures \ {"time"} :
                  /\ SumOver(answer.daily, f, days) = whole[f]
                  /\ \A d \in days : day(d, f) = SumOver(answer.daily, f, {d}) + open(d)[f]
            /\ CutToMinutes(SumOver(answer.daily, "time", days), whole.time, whole.drives)
            /\ \A d \in days : CutToMinutes(SumOver(answer.daily, "time", {d}),
                                            day(d, "time") - open(d).time,
                                            SumOver(answer.daily, "drives", {d}))
            /\ \A f \in {"drives", "miles", "charges", "kwh"} :
                  SumOver(answer.gate, f, DOMAIN answer.calendar) = whole[f]
            /\ \A d \in days, f \in {"miles", "kwh"} : answer.ha[d][f] = day(d, f)
            /\ SumOver(answer.places, "cost", DOMAIN answer.places) = whole.cost
            /\ \A i \in all : \E d \in days :
                  /\ i \in startsOn(d)
                  /\ {e \in days : i \in answer.pages[e].sessions} =
                        {e \in days : /\ d <= e
                                      /\ rows[i].end = Running \/ e * Day < rows[i].end}

\* Samples are taken at some of the times 1, 2, ... of a history.
AskMap ==
    \E x, y \in {x \in Shapes : x.kind = "drive" /\ x.amount # Unknown}, s \in Spans :
        \E n \in 0 .. MaxSamples, from \in {0, Day} :
            LET rows == <<Session(x, s[1], s[2]), Session(y, s[3], s[4])>>
                samples == [k \in 1 .. n |-> from + k]
            IN  answer' = [of |-> "map", rows |-> rows, samples |-> samples,
                           tracks |-> Tracks(rows, samples)]

Times(points) == {points[k] : k \in DOMAIN points}

\* As many as max_points, or one more: the last, if the steps do not end with it.
FewPoints(points, all) ==
    \/ Len(points) <= MaxPoints
    \/ Len(points) = MaxPoints + 1 /\ Len(all) # (MaxPoints - 1) * Step(Len(all)) + 1

\* A sample is on at most one line and lies within the drive of that line; a line
\* has the first and the last sample of its drive, in their order, and exceeds
\* max_points only by a last one between two steps; and no drive that two
\* samples lie strictly inside of is left out (tracks, thin).
LinesAreDrives ==
    answer.of = "map" =>
        LET lines == answer.tracks
            inside(d) == {t \in Times(answer.samples) : d.start < t /\ t <= d.end}
        IN  /\ \A a, b \in DOMAIN lines : a # b => Times(lines[a].all) \cap Times(lines[b].all) = {}
            /\ \A a \in DOMAIN lines :
                  LET p == lines[a].points
                      d == answer.rows[CHOOSE i \in DOMAIN answer.rows :
                                          answer.rows[i].start = lines[a].start]
                  IN  /\ Times(p) \subseteq Times(lines[a].all)
                      /\ {Head(lines[a].all), Last(lines[a].all)} \subseteq Times(p)
                      /\ \A k \in 1 .. Len(p) - 1 : p[k] < p[k + 1]
                      /\ FewPoints(p, lines[a].all)
                      /\ inside(d) \subseteq Times(lines[a].all)
                      /\ \A t \in Times(lines[a].all) : d.start <= t /\ t <= d.end
            /\ \A i \in Drives(answer.rows) :
                  Cardinality(inside(answer.rows[i])) >= 2 =>
                      \E a \in DOMAIN lines : lines[a].start = answer.rows[i].start

-----------------------------------------------------------------------------
(* Gates.                                                                  *)

AskDrives ==
    \E n \in 1 .. MaxMoves :
        \E m \in 0 .. MaxMoves - n :
            \E moves \in [1 .. n -> [miles : MoveMiles, as : Recordings]],
                plugged \in [1 .. m -> [kwh : ChargeKwh, as : ChargeRecordings]] :
                LET drives == Recorded(moves)
                    charges == RecordedCharges(plugged)
                IN  answer' = [of |-> "drives", moves |-> moves, plugged |-> plugged,
                               live |-> LivePassed(drives, <<>>, {}, 0),
                               month |-> MonthOk(drives, charges, TeslaFiAnswer(moves, plugged))]

AskTelemetry ==
    \E times \in {T \in SUBSET (0 .. Horizon) : Cardinality(T) <= MaxLinks} :
        \E link \in [times -> BOOLEAN], events \in SUBSET (0 .. Horizon) :
            answer' = [of |-> "telemetry", link |-> link, events |-> events,
                       gaps |-> CheckGaps(link, events, Horizon)]

\* The live gate lets a car pass that has moved between its first and its last
\* drive without a drive only if each such stretch, and all together, are within
\* the tolerance, and it stops no car for drives that are all there; a month that
\* passes lacks one drive and one charge, or the given part of them, and the given
\* part of the miles and of the energy, and it passes when nothing is missing
\* (check_odometer, check_continuity, compare).
LostDrivesShow ==
    answer.of = "drives" =>
        LET moves == answer.moves
            plugged == answer.plugged
            whole == Whole(moves)
            first == Min(whole)
            last == Max(whole)
            moved == Odometer(moves, last) - Odometer(moves, first - 1)
            missed == Missing(moves, 1, Len(moves))
            unmetered == Kwh(plugged, DOMAIN plugged \ Measured(plugged))
            lost(list) == Cardinality({k \in DOMAIN list : list[k].as = "lost"})
        IN  /\ answer.live <=>
                  /\ whole # {}
                  /\ \A a, b \in whole : (a < b /\ (a + 1 .. b - 1) \cap whole = {}) =>
                        Missing(moves, a, b) <= MaxUnlogged
                  /\ LET gone == Missing(moves, first, last)
                     IN  gone <= OdometerSlack \/ gone * OdometerShare <= moved
            /\ answer.month =>
                  /\ missed * MetricShare <= Odometer(moves, Len(moves))
                  /\ lost(moves) <= 1 \/ lost(moves) * MetricShare <= Len(moves)
                  /\ unmetered * MetricShare <= Kwh(plugged, DOMAIN plugged)
                  /\ lost(plugged) <= 1 \/ lost(plugged) * MetricShare <= Len(plugged)
            /\ whole = DOMAIN moves /\ Measured(plugged) = DOMAIN plugged => answer.month

\* The live gate reports exactly the stretches longer than max_gap for which the
\* rows of the window say that the car was connected and nothing was stored
\* (check_gaps, connected_intervals).
GapsShow ==
    answer.of = "telemetry" =>
        LET silent == SilentStretches(answer.link, answer.events, Horizon)
        IN  /\ answer.gaps \subseteq silent
            /\ \A s \in silent : \E g \in answer.gaps : g[1] <= s[1] /\ s[2] <= g[2]

-----------------------------------------------------------------------------
Next ==
    /\ answer.of = "nothing"
    /\ \/ AskTimes
       \/ AskFiles
       \/ AskCost
       \/ AskReports
       \/ AskMap
       \/ AskDrives
       \/ AskTelemetry

Spec == Init /\ [][Next]_answer
===============================================================================
