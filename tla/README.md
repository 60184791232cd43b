# A formal model of teslai

teslai is a self-hosted logger for one Tesla: fleet-telemetry publishes the car's
signals to an MQTT broker, a worker stores them in Postgres, a monitor loop turns
them into drives, charges, idles and sleeps, raises alerts and keeps the Tesla login
alive, and a web API shows the result.  This directory models the parts of it
where order, failure and concurrency matter, checks them with TLC and proves the
central claims with TLAPS.

Every definition is translated from the Python under `teslai/` (paths below are
relative to the repository).  `PROJECT.json` gives the lines each definition stands for,
the runs, one mutant for each property, the findings, the hazards and the theorems.

## 1. Inventory

### The parts and their state

| part | code | state it keeps | operations | modelled |
|---|---|---|---|---|
| telemetry worker | `worker.py` | `_last_value`: previous value of each field, in memory | receive, record, handle in one transaction, acknowledge | `Ingest` |
| broker (external) | `ops/mosquitto` | messages not acknowledged; at most 100 in flight | deliver once per connection in order, redeliver on a new one | `Ingest` |
| event store | `db/repo.py`, `migrations/` | `telemetry_events`, `connectivity_events`, `api_usage`, `sessions` | insert-or-ignore, count, replace | `Ingest`, `LiveRebuild` |
| recorder, replay | `recorder.py`, `cli.py replay` | gzip file of payloads and receive times | append, replay through a second ingestor | `Ingest`, `Replay` |
| Tesla token store | `tesla/tokens.py`, `tesla/auth.py` | one row: token pair and expiry; its row lock | get (refresh if stale), save a login | `TokenStore` |
| alerts | `alerts.py`, `rules.py`, `summaries.py` | `rule_firings`, open or resolved | evaluate, store the difference, notify | `Alerts` |
| session builder, reducer | `builder.py`, `reducer.py` | connection, current session, marks `pending_drive`, `park_since`, `offline_since`, field values | feed, finalize | `Builder`, `SessionBuilder`, `CarryForward` |
| live session job | `live.py` | none of its own: the anchor comes from `sessions` and the clock | rebuild the window | `LiveRebuild` |
| monitor loop | `cli.py monitor` | times of the last refresh and sync | rebuild, alerts, weekly refresh, daily history sync | in those three |
| Supercharger history | `tesla/charging_history.py`, `db/repo.py` | `supercharger_sessions` with a link to a charge | list, match, upsert | `ChargeInvoices` |
| costs | `costs.py`, `days.py` | tariffs | price of a charge | `Tariffs` |
| importer | `importer/` | none | local times to UTC, rows to events, files in order | `ImportTimes` |
| reports | `days.py`, `totals.py`, `insights.py`, `homeassistant.py`, `api/views.py` | none | sums by day, month and place; maps | `Reports` |
| gates | `gate.py`, `live_gate.py` | none | compare drives with the odometer, months with TeslaFi, events with the link | `Gates` |
| owner login | `owner_auth.py`, `api/app.py` | failed logins, lockout | log in; create or reset | `OwnerLogin` |
| telemetry set-up | `secrets.py`, `server_config.py`, `tesla/telemetry_config.py`, `doctor.py`, `cli.py init` | keys, certificates, the car's config | create, rotate, push, remove, check | `TelemetrySetup` |
| samples, places, efficiency, tires, battery | | `samples`, `places` | measurements | no: real arithmetic over SQL |
| demo, web app, backups | | files | formatting, scripts | no |

### How they interact

    car -> fleet-telemetry -> [broker] -> worker -> recording file -> replay
                                            |                           |
                                            v                           v
                              telemetry_events, connectivity_events, api_usage
                                    |                    |            |
               live job: builder + reducer          rules, silence   billing
                                    v                    v            v
                                sessions --------> session notices -> alerts -> owner
      monitor, tesla commands -> token row (row lock) <-> Tesla

The processes share only the database and the broker.  The worker, the monitor, a
second `monitor --once`, `replay`, and the `tesla` commands may all run at once.

### What is hard

* **Delivery.**  Payloads carry no time, so a redelivered message gets a new
  one; what keeps duplicates out is the worker's memory, which dies with the process
  and is updated after the commit.  Correct: nothing is acknowledged before it is
  durable; a skipped value is always one the table shows; signals are counted.
* **Single-use tokens.**  A refresh happens inside a transaction that may still
  fail after Tesla has rotated the token.  Correct: concurrency alone never spends a
  token twice nor loses the login.
* **Alerts.**  Conditions are read outside the transaction that stores firings,
  and notices leave after it.  Correct: one open firing per condition, nobody told
  twice, and the open firings follow the conditions.
* **Decisions after the fact.**  A drive begins where the gear changed, ends where
  the park or the outage began, and is decided later, by different code depending on
  what arrives first.  Correct: the sessions tile the time line.
* **Rows that are replaced.**  Every rebuild gives recent charges new ids, which takes
  their invoices away, while a sync that runs once a day puts them back; and now and
  then a rebuild loses a charge.  Correct: a link is to the charge that fits best of those
  there, and every invoice whose charge is there is linked for good in the end.
* **Checks before a failure counts.**  A login notes the time, waits for a lock, and
  decides with what it has noted.  Correct: no guess is lost, and guessing stays slow.
* **Files that must fit each other.**  Keys and certificates are made by several commands,
  any of which may stop half way; the car has an old copy.  Correct: when
  `doctor` and `telemetry status` find nothing, the car does stream.
* **Many sums of the same rows.**  Reports select by start or by overlap and group by
  local day, in seconds or in whole minutes.  Correct: they agree, up to those minutes.
* **Ambiguous clocks.**  Imported rows carry local time, in files that are read one by
  one.  Correct: the order of the file is kept, in the hour that is repeated and in the
  one that is skipped, and the files make the history that one file would.
* **A sliding window.**  The live job starts with an empty builder an hour before an
  anchor computed from its own earlier output.  Correct: history stays, and the window
  gives what all the telemetry would.

`PROJECT.json` lists the hazards at their lines, with the properties that cover
them or the reason why none does.

## 2. Modules

`AtLeastOnce` is the abstract promise of the telemetry path: offered, held,
accepted.  A message may be forgotten only once accepted.

`Ingest` is the worker, the broker and the tables.  A message is its place in
`sent`.  `Receive` is `on_message` up to the recorder's append; `Handle`,
`HandleIgnored`, `HandleFails` and `CommitUnknown` are the outcomes of
`Ingestor.handle` (its transaction commits, has nothing to store, fails, or commits
without the worker learning of it); `Ack` is `c.ack`.  `Crash` loses the memory and
lets the broker deliver everything unacknowledged again; `Drop` is a reconnection;
`RecorderFails` a full disk.  `committed` and `doubted` are history variables.
`KeepsPromise` is the refinement of `AtLeastOnce`.

`CarryForward` is the worker and the reducer together: what `StateReducer.value` answers from
the tables of `Ingest`, at any of its states.  The worker drops a value that repeats the
previous one, the reducer one that is older than a disconnect; signals carry the time they were
received and disconnects the time they happened.

`Replay` extends `Ingest` with `teslai replay`: the file is read whole at the start,
then every record is one transaction, interleaved with the worker's.

`TokenStore` has one action per step of `get_access_token`, so that an interleaving
can fall between the lock, the HTTP request, Tesla's decision and the commit.
`Exchange` and `SaveLogin` are `teslai tesla login`.  Tesla is external: it spends a
refresh token the first time it sees it and answers with the next.

`Alerts` has one action per step of `run_once`.  The row locks follow READ COMMITTED:
`SELECT ... FOR UPDATE` sees the rows committed at its start, waits for those locked,
and drops the ones that were resolved meanwhile, but does not see new ones; the
partial unique index then decides (`Clash`).

`Builder` is `SessionBuilder` as functions of its state, method by method
(`Connect`, `Disconnect`, `Step...`, `Evaluate`, `Feed`); the loop of `_evaluate` is a recursive function of its turns (`StepAgain`).  Values are
their meanings: `gear` is park, moving or unknown; movement and a counter that fell
are part of the input.  `SessionBuilder` feeds it everything plausible;
`LiveRebuild` runs it the way the live job does, over the log of what was stored.

`ChargeInvoices` is the table of sessions as the live job replaces it, the links, and two
syncs (the monitor's and the command's), each in three steps: list, select, store.  `Rebuild`
deletes what begins at the `Anchor` or later, which makes links NULL and ids that were read
`Gone`, and builds again the sessions that it has the link row for (`Known`): a charge whose
connection began more than `Warmup` before the anchor is lost, which `LiveRebuild` shows of the
builder itself.  Storing a `Gone` id fails the foreign key and the transaction; the
history variable `blind` holds the records that a sync matched while their charge was open or lost.  `OwnerLogin` has the steps of a request: `Arrive` notes
the time, `ReadUser` gets the row lock, `Decide` stores the outcome.  `TelemetrySetup` writes
files one at a time (`WriteNext`), so that `Interrupt` can fall between any two; a
certificate is the number of its key and of its issuer's, and its last day; the history
variable `torn` is that the last command to make the server's key stopped before its certificate.
`Operations` checks the three side by side: they share no state, so a behaviour is of one.

`ImportTimes` (`to_utc`, `read_rows`, `to_events`, the order of files), `Tariffs` (`Window.matches`,
`charge_cost`), `Reports` (every sum over sessions, and the map) and `Gates` (both gates)
are operators, each module with the code's algorithm first and then what it is to compute,
written without it.  `Calculations` asks them: an initial state has no answer, and each
action is one question with any input within the bounds.

`TokenStoreProofs`, `IngestProofs` (also of `CarryForward`), `ReplayProofs`, `AlertsProofs`,
`SessionBuilderProofs`, `LiveRebuildProofs`, `CalculationsProofs` and `OperationsProofs` each
extend the module they are about and hold its theorems, its inductive invariant and the lemmas.

## 3. Runs

| run | checks | states | bounds |
|---|---|---|---|
| `Ingest` (`CarryForward`) | `TypeOK`, `CommittedIsShown`, `UsageCoversAcked`, `ConnectivityMatchesSent`, `KeepsPromise`, `StaleOnlyIfOvertaken`, `KnownUnlessResent` | 1.18 M | 2 fields, 2 values, 4 messages, 2 in flight, 2 faults of any kind; symmetry of fields and of values |
| `Replay` | `ReplayKeepsHistory`, `ReplayAgainStoresNothing`, `EventuallyAcked` | 528 k | 1 field, 2 values, 3 messages, 2 replays, 1 crash or reconnection |
| `TokenStore` | `TypeOK`, `SpentOnceUnlessLost`, `StoredTokenWorks`, `OneRotationPerExpiry`, `NewestLoginStays`, `EveryoneAnswered` | 28 k | 2 processes, 2 logins, 2 expiries, 2 faults |
| `Alerts` | `TypeOK`, `NobodyToldTwice`, `OwnerIsTold`, `FiringsFollowConditions` | 158 k | 2 cycles, 2 conditions (one informational), 3 changes, 1 fault |
| `SessionBuilder` | `Timeline`, `DriveEndsOffline`, `DrivesApart`, `OfflineIsOffline`, `Settles` | 221 k | 7 time units, debounce 1, dwell 2, offline end 2 |
| `LiveRebuild` | `TypeOK`, `HistoryStays`, `RollingIsWhole` | 548 k | 7 time units, window 2, warmup 1, one late row at a time |
| `Calculations` | `ImportedInOrder`, `FilesMakeOneHistory`, `CostIsFair`, `ReportsAgree`, `LinesAreDrives`, `LostDrivesShow`, `GapsShow` | 161 k | see below |
| `Operations` | `LinksFit`, `OldLinksStay`, `RecordsAreInvoiced`, `GuessesAreSlow`, `GoodNewsIsTrue` | 342 k | 6 sessions, 4 of them charges, 2 records, 10 days in half-days, 2 misfortunes; 2 requests, lockout 3, 6 time units; 4 days, 2 `init`, 1 rotation, 1 interruption |

Four runs expect a violation of what a comment or a document says:

| run | claim | what happens |
|---|---|---|
| `IngestDbOutage` | a database error "leaves it on the broker for redelivery" (`worker.py:14`) | on a connection that stays up nothing is redelivered: `EventuallyAcked` fails although the worker is fair |
| `TokenStoreFaults` | a refresh token "is never spent twice" (`tokens.py:11`) | a lost answer rolls back to the spent token, which is sent again |
| `SessionBuilderPark` | "park >= dwell" ends a drive (`builder.py:12`) | not when nothing else is reported during the park |
| `LiveRebuildRerun` | "Re-running with the same data gives the same sessions" (`live.py:14`) | a finished charge or drive vanishes when the connect row leaves the window |

### Why the bounds are enough

Four messages let an old value, a new one and a repeat of either meet a crash and a
redelivery, or a value, a break of the connection and the next value; with two in flight one is delivered ahead of another's commit.  Two
processes are all a lock tells apart, two logins and two expiries let a refresh of the
old grant meet a new one.  Three changes let a condition hold, end and hold again while two
cycles see different moments of it.  In the builder, seven units with a dwell of two
hold a drive, a park or an outage that lasts, the next drive and what follows.
In `LiveRebuild` seven units are three windows: the anchor moves over sessions
that earlier rebuilds wrote.

In `Operations` a charge at home, a drive of five minutes and the charge at its end follow
one another on one connection, so that the second charge is within the tolerance of the
first and is lost once the first has left the window; two days later a short charge is
followed at once by a longer one.  The record of the second is off by a little, that of the
third does not say when it ended, and both overlap their neighbour too, so that the most
overlap decides (as in `tests/test_charging_history.py:53`).  Times are steps of five minutes and real
(window 48 h, warmup 1 h, tolerance 15 min, 7 and 90 days); the clock goes in half-days.  Ten days are
the live window, the seven days of a sync and what remains.  Two failures lock, two requests overlap, and six time units
hold a lockout of three and what follows.  Certificates last longer than the run except the
ones that are to run out.  `Calculations` has an hour of two steps, of which one is
repeated and one skipped within nine; up to four rows, one of them bad; every window of
a day of four steps and a week of two days, alone or with a second; two sessions over
three midnights, with minutes of two units, so that sessions are whole minutes or not; up to four
movements and charges of a month, each recorded, lost or without a
reading; and every set of events with up to three link rows on seven times.

What the numbers of `Calculations` leave open is said in its properties: a slice of 15 minutes in
which the price changes has the price it began with, so `CostIsFair` allows that much; a
file that is cut within the repeated hour may be read as the first pass of it, so
`FilesMakeOneHistory` excepts it; the second of two files may repeat the link that the first
ended with, so it asks for the links that the builder takes (`TakenLinks`), and for at most one
more to be made; `totals` cuts each drive to whole minutes, so `ReportsAgree` allows the
sums of `insights` less than a minute more for each drive.

Two restrictions shape the inputs.  `Plausible` and `Possible` say what a car can
report: no movement out of gear, no charge that starts while in gear, a charge that
ends perhaps only after the gear has left park.  What the code does outside
of them is listed as a hazard.  `RollingIsWhole` speaks of windows that reach back to
a change of the link while no drive is under way (`Recovers`); without it the
code does not promise the equality, as `LiveRebuildRerun` shows.

### Fairness

* `Ingest!FairSpec`: weak fairness of the worker's own steps, since `loop_forever` reads the
  socket and `on_message` runs to its end.  No fault and no message of the car is fair.
  `Replay` needs nothing from the replay itself.
* `TokenStore!FairSpec`: a call that has begun runs on (the HTTP client has a
  timeout), and Postgres grants a row lock to those who queue for it, hence strong
  fairness of `Lock` and `SaveLogin`.  Nobody is obliged to ask.
* `Alerts!FairSpec`: the monitor starts a cycle every interval, whatever the last one
  ended with, and a waiting `SELECT ... FOR UPDATE` gets its locks.
* `Operations!Spec`: the monitor's loop goes on (`MonitorLoop`), and a command that has
  selected stores.  A cycle stands for half a day, and no transaction stays open that
  long (`NextCycle`): a command that stalled between its query and its upsert for days could put
  an old NULL over a newer link.  `MaxWait` bounds in the same way how long a login waits for the row.

`TokenStore` and `Alerts` are checked for deadlock.  The other models end at
their bounds, so their runs do not.

## 4. Proofs

The theorems hold for every value of the constants, under the named assumptions on them only
(`NoValueAssumption`, `BoundAssumption`, `ReplayBoundAssumption`, `TokenAssumption`, `AlertsAssumption`,
`BuilderAssumption`, `FeedAssumption`, `RebuildAssumption`, `LoginAssumption`,
`SetupAssumption`, `InvoiceAssumption`, `TimesAssumption`, `ZoneAssumption`,
`HistoryAssumption`, `TariffAssumption`, `ReportAssumption`, `GateAssumption`,
`CalculationAssumption`), which TLC evaluates on the runs.
Where a theorem needs more it says so: two of `Replay` restrict `Faults`.  Every inductive
invariant was an invariant of the module's run before it was proved.

* **`TokenStoreProofs`.**  `TypeOK` relates the lock to the program counters, but
  that two refreshes exclude each other needs more.  The invariant `IInv` adds: whoever
  is between lock and commit has read the token that is still in the row
  (`HolderSeesRow`), the row's token is unspent unless its successor was lost or the
  holder has just received it (`RowIsSpent`), what the holder received is the unspent
  successor within the same grant (`ReplyIsNext`), a pair that was exchanged but not
  stored is unspent, in nobody else's hands and of the newest grant (`LoginIsApart`), and
  no grant is newer than the last login (`GrantsAreLogins`).  From it follow `SpentOnce`, `TokenWorks` and, with
  `[Next]_vars`, the action property `NewestLogin`.  `OneRotation` counts: the rotations stored are no
  more than the expiries, and one less while a fresh token is due.
* **`IngestProofs`.**  `CommittedIsShown` is not inductive: the worker skips a value
  because its memory holds it.  `IInv` adds that no row and no commit is newer than
  the clock, and all are older than the message in hand (`Dated`), that what memory holds is the newest row of the field now
  (`MemoryIsShown`), and that a message about to be acknowledged is committed, or stored
  for a connectivity record (`DoneIsDurable`, `DoneLinkIsStored`).  The lemmas say
  what one insert does to `Shows`: it shows the new value, keeps the past
  and keeps other fields.  `Implements` proves the refinement of `AtLeastOnce` step by
  step.  `Counted` proves that the billed count covers what was acknowledged, with the
  cardinality theorems.  What the reducer answers from those tables, `StaleOnly` and
  `KnownUnless`, follows from `IInv` and from `CInv`: a row is the value of a commit
  of its instant (`RowsStem`), no two commits share one, disconnects and connects alternate in
  the order of their times, and a message is handled later than what was sent before it
  happened (`HandledAfter`).
* **`ReplayProofs`.**  The two writers of the tables.  `ReplayAgain` holds with every fault: what a
  replay inserts are rows of its own file at times of its own file.  `ReplayRewritesNothing`
  assumes that `Faults` has no `"db"`, and `ReplayKeeps` that it has only `"crash"` and
  `"drop"`: after an error of the database the worker's memory lacks the row that the replay
  puts back, so it skips or stores on a wrong premise, and the properties really fail.
  `LostIsHidden` says that a delivery which was recorded and never committed has no later commit of its
  field without a row between them, and `MemoryIsNewest` that what memory holds is newer than
  every recorded delivery but the one in hand; so a replayed row comes where it changes nothing.
* **`AlertsProofs`.**  What a cycle has locked is open and locked by it alone (`LocksHold`), a notice is owed
  by one cycle and by none once it is sent (`OwedByOne`), and a firing or its end is stored
  together with the decision to tell of it (`StoredIsDecided`).  From it follow `TypeCorrect`, `ToldOnce`
  and `Told`.
* **`SessionBuilderProofs`.**  `Inv` is what a builder knows of the past: the list is linked and
  the session in progress fits its end (`Chain`), no mark is in the future (`Times`), the marks
  `pending_drive`, `park_since` and `offline_since` are set only where they mean something
  and never before the session they end (`Marks`), an idle after a drive has lasted
  (`Rested`), and nobody idles while the car charges (`Charged`).  Each method keeps it (`StepHeld`,
  `ConnectSound`, `DisconnectSound`).  From it follow `TimelineHolds`, `DrivesAreApart`
  and `OfflineAgrees`.  `EvaluationSettles` gives the session in progress a rank that every turn
  of the loop lowers (`StepTurns`); it is never above three.  `DrivesEndOffline` adds that no drive
  and no mark reaches into the last long outage (`Clear`, `Ended`, `Awaits`).
* **`LiveRebuildProofs`.**  `OldSessionsStay`: the anchor is a maximum, so it must exist, so every session
  must have times, whatever the builder makes of the rows.  That is an induction over the log
  (`FedType`), done as the least number at which it fails (`Reaches`), because a set has a least
  element without an induction rule; `RunExists` shows in the same way that the recursive function
  `Fed` is one.  (`EvaluateIs`, in this module and in `SessionBuilderProofs`, does it for the four turns of
  `Evaluate` by naming them.)  `TableFits` is that a rebuild never breaks the table's constraints.  With
  a row missing the builder is fed what no car reports, so the invariant of `SessionBuilderProofs`
  does not carry over; a weaker one does (`Base`: the list is linked and no mark is ahead of the
  clock).  It fails in one place: a charge that began after the movement that opens the next drive
  would end before it starts (`Overtaken`).  That takes a park row that is late, and then the
  car's own order helps: it ends its charge before it moves on (`Told`, `Knows`), and the builder
  sees that.
  `WindowIsEnough` (`RollingIsWhole`) relates two builders that are fed the same rows, one from the
  first row and one from the window's.  Each method is first described field by field
  (`Drove`, `Stood`, `Woke`, `Slept`).  Until the window shows a change of the link, its builder knows
  nothing; after one, either a drive is in progress that it may not have seen begin
  (`Apart`), or the two differ in the past only (`Twin`), and then every row keeps them so
  (`TwinFeed`).  A drive that ends makes them `Twin` too, for what the invariants of both say
  of the rest (`Sharp`, `Rejoin`), but only up to that row, and the window may have opened a
  session of its own shortly before.  That is harmless because the row is before the anchor (`EndsBefore`): the
  session after the drive starts before the anchor, which leaves an anchor within the park that
  ended the drive; but then a session ended there, while the car was parked in what the whole
  telemetry makes one session.  Only an empty one could, and the table has empty sessions
  only at disconnects (`Cuts`).
* **`CalculationsProofs`.**  The sums and folds are recursive functions on sets, of the
  community modules; that they exist, and how they add an element, is shown once as the least
  counterexample (`LeastExists`, `Reaches`, `SumAdds`, `SumUnion`, `ReaderExists`).
  `CostIsFair`: the slices of a charge partition its steps, and each errs only where the price changes in it
  (`SlicesPartition`, `SliceCost`, `CostBySlices`, with `HomePriceIsFair` for `Window.matches`).
  `ReportsAgree`: every report is a sum of the same terms, keyed by day, month, place or page
  (`SumByKey`, `SumsAre`, `TotalsAre`), and a sum of whole minutes lacks less than a minute
  for each of its terms (`InMinutesAre`).  `ImportedInOrder`: after each row the reader holds the least
  instant of its clock that is not before the previous row's, in three cases of the clock (`UniqueClock`, `SkippedClock`,
  `RepeatedClock`, joined by `RowsSoFar`).  `FilesMakeOneHistory`: a piece of a file gets the times of the whole one unless its
  first clock is repeated (`SameTimes`, `FirstTimes`), the files sort into the order of the pieces
  (`OrderIs`), their span holds them (`Spanning`), links change where the rows do (`LinksTell`), and what the
  builder takes of the links of two files are those of the rows joined (`LinksJoin`).
  `GapsShow`: what the scan of the link rows has reported up to a row are the long silent
  stretches before it (`Tells`).  `LinesAreDrives`: a sample lies on the line of the drive that
  it is in (`Mapped`).  `LostDrivesShow`: a difference of odometers is the sum of the movements between
  (`OdometerIs`, `MissingIs`), and the energy of all charges that of the metered ones and the
  rest (`ChargesCheckIs`).  They hold for any lengths of hours, days, weeks, slices and months, any tolerances, and any numbers of rows,
  movements, links and samples; the prices, the two sessions of a report or a map, the two
  windows of a tariff and the two files of an import are in the actions, not constants, and stay.
* **`OperationsProofs`.**  `LoginIsSlow`: the row lock makes the decisions follow one another, and the
  attempts the row counts came a lockout after those before them, less the wait (`CountedAfterLock`).
  `GoodNews`: a command that makes a new key of the server makes its certificate next, so that the two fit
  unless the last command to do so is, or was, stopped between the two (`CertFollowsKey`, `CertIsOfKey`);
  an earlier one that stopped there does not matter once another has run.  `InvoicesFit` and
  `OldInvoicesStay`: an id stands for
  one charge as long as it is in the table, a sync holds only ids of closed charges that overlap their
  record, and, unless the record is `blind`, none that another overlaps more; and an anchor is never before the end
  of a charge that has left the window, so no rebuild deletes it, and a sync that finds it links it
  or one that overlaps as much.  `TimesAssumption` asks that a session ends after it begins, that the
  monitor's cycle is shorter than the live window, and that the tolerance is within the hour
  around a record that the query reads; sessions may lie next to each other in any way.

Model-checked only: liveness (`EventuallyAcked`, `EveryoneAnswered`, `FiringsFollowConditions`,
`RecordsAreInvoiced`), because fairness and ENABLED are out of the prover's reach.  Every other
property of a passing run is a theorem.

## 5. Not modelled, and why

Encryption, gzip, JSON and SQL text; the contents of payloads; odometer, battery,
location and flags of a session; sleep versus unreachable (it differs by the list of
server downtimes alone); the samples table and statistics, efficiency, tires and the
battery report (real arithmetic, much of it in SQL); distances to places; demo data, the web app
and the backup scripts.  The broker is taken to be durable: mosquitto saves every 30 s,
and what a killed broker loses is outside `Ingest`.  A rebuild is one step: two monitors
rebuilding at once are not modelled.  The worker and the reducer are composed (`CarryForward`), for
state fields; the builder above them is modelled apart.

Met while modelling, and not made runs of their own:

* After a reconnection a value is lost that the car sends again: the worker skips it as a repeat
  (`worker.py:135`), and the reducer has invalidated the row it repeats (`reducer.py:101`).
  `docs/ARCHITECTURE.md:147` says that live messages land "unchanged, de-duplicated on
  `(vehicle_id, ts, field)`", and state fields are only "cleared" by a disconnect.
  `KnownUnlessResent` names this exception, and fails without it.  `SessionBuilder` itself,
  run on a charge of 20 kWh with one minute offline after 5, gives a charge of 5 kWh and then
  idle; with a row for the value that is sent again it gives both parts of the charge.

* `free_places` of the tariff file ("Charging at these place names costs nothing",
  `config/tariffs.example.yaml:19`) is loaded (`costs.py:110`) and used nowhere; only the kind
  of a place makes a charge free.
* After `init --force` the proxy keeps the certificate of the old CA (`server_config.py:65`),
  so that the push which `docs/errors.md:24` asks for cannot verify the proxy; `init --force` also
  writes a new `.env` without `TESLA_VIN`.
* `telemetry status` exits with "synced and current" although it has just printed differences
  (`cli.py:750-758`): `StatusIsGood` therefore asks for both.
* `doctor` looks at the server certificate's last day and not at the CA's, and at who signed it
  and not at its key.
* The docstring of `tracks` promises "at most max_points each" (`insights.py:126`).  The last point is
  added to those of the steps (`insights.py:147`), so a line has `max_points + 1` when the steps alone
  make `max_points` and do not end with it, which `tests/test_insights.py:69` allows (11 for 10).  `LinesAreDrives`
  says exactly this; with `max_points` as the bound TLC refutes it, with four samples and a bound of two.
* Two records that match one charge show its row twice (the join of
  `_SESSION_SELECT`, `repo.py:223`).  It takes a charge that was open or lost when a sync asked for
  its record, so that the record went to a neighbour: `LinksFit` excepts such records (`blind`), and
  one whose charge has left the live window keeps the neighbour (`OldLinksStay`), unless the sync
  finds its own.
* `live_gate_inputs` reads only the link rows inside the window (`repo.py:353`): of an interval
  that began before it nothing is looked at until the next row, so `GapsShow` speaks of intervals whose
  row is read.  `live_gate.py:6` names 0.5% of the odometer, the code (`live_gate.py:43`) half a mile or 0.5%.
* The second of two imported files states its first link anew (`run.py:51`, `teslafi.py:231`); the
  builder passes over it (`builder.py:183`), and the reducer notes one more disconnect of a car
  that is offline.
* A connectivity record without a readable `CreatedAt` is stamped on receipt (`worker.py:52-59`), and
  then again when it is redelivered; records have the field, and `Ingest` has only such.

## 6. Plan

1. Energy counters of `_step` and `_close` (rebase, reset, unknown counter at the start),
   against the sum of real gains.
2. Two rebuilds at once in `LiveRebuild`; imported history inside the window.
3. The reducer's pruning, and continuous fields with their staleness limits.
