----------------------------- MODULE ImportTimes ------------------------------
(***************************************************************************)
(* Import of TeslaFi's CSV files (teslai/importer/teslafi.py and run.py),  *)
(* as operators.  A row carries the wall clock of the owner's home, which  *)
(* skips an hour in spring and repeats one in autumn; to_utc gives every   *)
(* row an instant, with the help of the row before it.                     *)
(*                                                                         *)
(* Time is counted in steps of which an hour has Hour.  The zone of a      *)
(* model has one change of each kind.  The fields of a row are left out:   *)
(* a row has bad values or not.                                            *)
(***************************************************************************)
EXTENDS Integers, SequencesExt

CONSTANTS Hour,       \* what the clocks are set forward and back by
          Spring,     \* the instant at which summer time begins ...
          Autumn      \* ... and ends

ASSUME ZoneAssumption ==
    /\ Hour \in Nat \ {0} /\ Spring \in Nat /\ Autumn \in Nat
    /\ Spring >= Hour /\ Autumn >= Spring + 2 * Hour

None == -1  \* no instant yet

Offset(t) == IF Spring <= t /\ t < Autumn THEN Hour ELSE 0   \* utcoffset()
WallClock(t) == t + Offset(t)                                     \* astimezone(tz)

\* Instants at which a clock that is set shows w.
Shown(w) == {t \in {w, w - Hour} : WallClock(t) = w}

\* Binary search: the first instant in lo..hi with another offset than lo's.
OffsetChangeInstant(lo, hi) ==
    CHOOSE t \in lo + 1 .. hi : Offset(t) # Offset(lo) /\ Offset(t - 1) = Offset(lo)

\* datetime.replace(tzinfo, fold): the offset before the change, and after it.
Folded(w, fold) ==
    CASE w \in Spring .. Spring + Hour - 1 -> IF fold = 0 THEN w ELSE w - Hour
      [] w \in Autumn .. Autumn + Hour - 1 -> IF fold = 0 THEN w - Hour ELSE w
      [] OTHER -> CHOOSE t \in Shown(w) : TRUE

ToUtcAtOnce(w, previous) ==  \* mutant: a row exactly at the first pass begins the second
    LET early == CHOOSE t \in {Folded(w, 0), Folded(w, 1)} : t <= Folded(w, 0) /\ t <= Folded(w, 1)
    IN  IF WallClock(early) # w THEN Spring
        ELSE IF previous >= early THEN Folded(w, 1) ELSE early

ToUtc(w, previous) ==
    LET u0 == Folded(w, 0)
        u1 == Folded(w, 1)
        early == IF u0 < u1 THEN u0 ELSE u1
        late == IF u0 < u1 THEN u1 ELSE u0
    IN  CASE u0 = u1 -> u0
          [] u0 # u1 /\ WallClock(early) # w -> OffsetChangeInstant(early, late)
          [] u0 # u1 /\ WallClock(early) = w ->
                 IF previous # None /\ previous > early THEN late ELSE early

-----------------------------------------------------------------------------
(* read_rows: a row is [date: is it one, wall, fields: are they good,      *)
(* state], and every row reads on from the report of those before it.      *)

RowStates == {"online", "asleep", "other"}

NothingRead == [rows |-> <<>>, previous |-> None, skipped |-> 0,
                outOfOrder |-> 0, first |-> None, last |-> None]

ReadRow(report, row) ==
    LET ts == ToUtc(row.wall, report.previous)
        seen == [report EXCEPT !.outOfOrder =
                    @ + IF report.previous # None /\ ts < report.previous THEN 1 ELSE 0]
    IN  CASE ~row.date -> [report EXCEPT !.skipped = @ + 1]
          [] row.date /\ ~row.fields -> [seen EXCEPT !.skipped = @ + 1]
          [] row.date /\ row.fields ->
                 [seen EXCEPT !.rows = Append(@, [ts |-> ts, state |-> row.state]),
                              !.previous = IF ts > @ THEN ts ELSE @,
                              !.first = IF @ = None THEN ts ELSE @,
                              !.last = ts]

ReadRows(file) == FoldLeft(ReadRow, NothingRead, file)

\* to_events: connectivity only where the state changes, in the rows of a file.
AddLink(links, row) ==
    LET last == IF links = <<>> THEN "other" ELSE Last(links).state
    IN  IF row.state \notin {"other", last} THEN Append(links, row) ELSE links

Connectivity(rows) == FoldLeft(AddLink, <<>>, rows)

-----------------------------------------------------------------------------
(* import_teslafi: files are read in the order of their first row; those   *)
(* without a row are left out, and equal ones stay in the order given.     *)

AsGiven(files) == SelectSeq(files, LAMBDA f : f # <<>>)  \* mutant: files are not sorted

InOrder(files) ==
    LET first == [i \in DOMAIN files |-> ReadRows(files[i]).first]
        used == {i \in DOMAIN files : first[i] # None}
        upTo(i) == {j \in used : first[j] < first[i] \/ (first[j] = first[i] /\ j <= i)}
    IN  [k \in 1 .. Cardinality(used) |-> files[CHOOSE i \in used : Cardinality(upTo(i)) = k]]

\* The builder is fed the links of every file; to_events knows of none before it.
ImportFile(result, file) ==
    LET report == ReadRows(file)
    IN  [rows |-> result.rows \o report.rows,
         links |-> result.links \o Connectivity(report.rows),
         first |-> IF result.first = None \/ report.first < result.first
                   THEN report.first ELSE result.first,
         last |-> IF report.last > result.last THEN report.last ELSE result.last]

NothingImported == [rows |-> <<>>, links |-> <<>>, first |-> None, last |-> None]

Import(files) == FoldLeft(ImportFile, NothingImported, InOrder(files))

\* _connectivity of the builder passes over a link that is as it knows it.
TakenLinks(links) == FoldLeft(AddLink, <<>>, links)

\* import_teslafi_cmd --write: the sessions of this span are replaced.
Replaces(files, ts) == Import(files).first <= ts /\ ts < Import(files).last + 1

-----------------------------------------------------------------------------
(* The files TeslaFi can have written, and what their import promises.     *)

CONSTANTS LastInstant,  \* bound: the last instant
          MaxRows       \* bound: rows of a history

ASSUME HistoryAssumption == LastInstant \in Nat /\ MaxRows \in Nat \ {0}

\* A clock that is set late in spring shows hours that do not exist.
ClockOf(t, lag) == IF Spring <= t /\ t < Spring + lag THEN t ELSE WallClock(t)

CsvRow(t, lag, state, bad) == [date |-> bad # "date", wall |-> ClockOf(t, lag),
                            fields |-> bad # "fields", state |-> state]

\* Rows are written in the order of time.
Instants == {ts \in UNION {[1 .. n -> 0 .. LastInstant] : n \in 1 .. MaxRows} :
                \A i, j \in DOMAIN ts : i < j => ts[i] < ts[j]}

\* What a wall clock may stand for: the change itself for an hour that is skipped.
Meanings(w) == IF Shown(w) = {} THEN {Spring} ELSE Shown(w)

Repeated(w) == Cardinality(Shown(w)) = 2

\* Each row gets the least instant that its clock can stand for and that keeps
\* the order of the file: none is counted as out of order, and
\* none is dated later than it was written, whatever rows are skipped.
LeastTimes(ts, file, report) ==
    LET kept == {i \in DOMAIN ts : file[i].date /\ file[i].fields}
        time(i) == report.rows[Cardinality({j \in kept : j <= i})].ts
    IN  /\ Len(report.rows) = Cardinality(kept) /\ report.outOfOrder = 0
        /\ report.skipped = Len(ts) - Cardinality(kept)
        /\ \A i \in kept :
              LET possible == Meanings(file[i].wall)
              IN  /\ time(i) \in possible
                  /\ time(i) <= ts[i]
                  /\ \A j \in kept : j < i => time(j) <= time(i)
                  /\ \A t \in possible : t < time(i) => \E j \in kept : j < i /\ t < time(j)

\* The state that the rows of a list tell at t: that of the last one that has any.
StateAt(list, t) ==
    LET told == {k \in DOMAIN list : list[k].ts <= t /\ list[k].state # "other"}
    IN  IF told = {} THEN "other" ELSE list[Max(told)].state

\* The link rows tell the same as all rows at every time, and no state twice.
LinksTellStates(rows, links) ==
    /\ \A k \in 1 .. Len(links) - 1 : links[k].state # links[k + 1].state
    /\ \A k \in DOMAIN rows : StateAt(links, rows[k].ts) = StateAt(rows, rows[k].ts)
===============================================================================
