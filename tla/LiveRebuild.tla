---------------------------- MODULE LiveRebuild -----------------------------
(***************************************************************************)
(* The live session job (teslai/live.py, replace_sessions of               *)
(* teslai/db/repo.py): the monitor loop feeds a fresh SessionBuilder with  *)
(* the telemetry from an hour before an anchor on and replaces the         *)
(* sessions that start at the anchor or later.  The anchor moves with the  *)
(* clock and with the sessions that are already in the table.              *)
(*                                                                         *)
(* The car reports one thing at a timestamp; a row may be stored later     *)
(* than it is stamped.  A rebuild is one transaction and one step.         *)
(***************************************************************************)
EXTENDS Builder, FiniteSetsExt

CONSTANTS Window,    \* WINDOW
          Warmup,    \* WARMUP
          MaxTime    \* bound: the last timestamp

ASSUME RebuildAssumption == {Window, Warmup, MaxTime} \subseteq Nat \ {0}

VARIABLES now,       \* the clock
          log,       \* what the car reported, by timestamp
          late,      \* the timestamp of a report that is not stored yet (0: none)
          sessions,  \* the sessions table
          same       \* history: no row was stored since the last rebuild

vars == <<now, log, late, sessions, same>>

Running == MaxTime + 1  \* no end_ts

\* History from TeslaFi, from before the first telemetry.
Imported == {[kind |-> "drive", start |-> -1, end |-> 0]}

Silent == [links |-> {}, gear |-> "same", charge |-> "same", moved |-> FALSE, reset |-> FALSE]
Nothing == [Silent EXCEPT !.links = {"nothing"}]  \* no row at this timestamp

Reports == {[Silent EXCEPT !.links = {"connect"}], [Silent EXCEPT !.links = {"disconnect"}],
            [Silent EXCEPT !.gear = "moving", !.moved = TRUE], [Silent EXCEPT !.gear = "park"],
            [Silent EXCEPT !.charge = "charging"], [Silent EXCEPT !.charge = "ended"],
            Silent, [Silent EXCEPT !.moved = TRUE]}

\* feed: every timestamp in from..to that has rows.
Fed(rows, from, to) ==
    LET run[t \in (from - 1)..to] ==
            CASE t = from - 1 -> NewBuilder
              [] t >= from /\ rows[t] = Nothing -> run[t - 1]
              [] OTHER -> Feed(run[t - 1], t, rows[t])
    IN  run[to]

With(rows, from, to) == {t \in from..to : rows[t] # Nothing}

\* finalize: evaluates at `to`, where the values reported last hold; the session
\* in progress stays open.
Finalized(rows, from, to) ==
    LET b == Evaluate(Fed(rows, from, to), to, rows[Max(With(rows, from, to))])
    IN  {b.done[i] : i \in DOMAIN b.done} \cup
        (IF b.current = NoSession THEN {}
         ELSE {[kind |-> b.current.kind, start |-> b.current.start, end |-> Running]})

-----------------------------------------------------------------------------
\* What the car can report next: it is online, no value twice, movement only in
\* gear, and a charge only in park, from its start to its end.
Possible ==
    LET car == Fed(log, 1, now)
    IN  {g \in Reports :
            /\ g.links = {"connect"} <=> car.link # "up"
            /\ g.gear # "same" => g.gear # car.gear
            /\ g.gear = "moving" => car.charge # "charging"
            /\ g.charge = "charging" => car.gear = "park" /\ car.charge # "charging"
            /\ g.charge = "ended" => car.charge = "charging"
            /\ g.moved => g.gear = "moving" \/ car.gear = "moving"
            /\ g = Silent => car.gear # "moving"}

Init ==
    /\ now = 1 /\ late = 0
    /\ log = [t \in 1..MaxTime |-> Nothing]
    /\ sessions \in SUBSET Imported /\ same = FALSE

\* The worker stores a row, or will: its transaction is still open, or the
\* record waits for `teslai replay`.
Report(g) ==
    /\ log[now] = Nothing
    /\ log' = [log EXCEPT ![now] = g]
    /\ \/ late' = late /\ same' = FALSE
       \/ late = 0 /\ g.links = {} /\ late' = now /\ same' = same
    /\ UNCHANGED <<now, sessions>>

Arrive ==
    /\ late # 0
    /\ late' = 0 /\ same' = FALSE
    /\ UNCHANGED <<now, log, sessions>>

Tick ==
    /\ now < MaxTime
    /\ now' = now + 1
    /\ UNCHANGED <<log, late, sessions, same>>

Rows == [t \in 1..MaxTime |-> IF t = late THEN Nothing ELSE log[t]]

-----------------------------------------------------------------------------
Closed == {s \in sessions : s.end # Running}
Finished == {s \in Closed : s.end <= now - Window}

\* _anchor: where the newest session that is over for a window or more ended.
Anchor == IF Finished = {} THEN now - Window ELSE Max({s.end : s \in Finished})

\* The first timestamp that is read (no row is older than 1).
From == Max({Anchor - Warmup, 1})

RebuildInserting ==  \* mutant: what was built before is not deleted
    /\ same' = TRUE
    /\ UNCHANGED <<now, log, late>>
    /\ sessions' = IF With(Rows, From, now) = {} THEN sessions
                   ELSE sessions \cup {s \in Finalized(Rows, From, now) : s.start >= Anchor}

RebuildFromWarmup ==  \* mutant: the sessions of the extra hour are replaced too
    /\ same' = TRUE
    /\ UNCHANGED <<now, log, late>>
    /\ sessions' = IF With(Rows, From, now) = {} THEN sessions
                   ELSE {s \in sessions : s.start < From} \cup
                        {s \in Finalized(Rows, From, now) : s.start >= From}

RebuildUnfinished ==  \* mutant: a session that has ended is not built again
    /\ same' = TRUE
    /\ UNCHANGED <<now, log, late>>
    /\ sessions' = IF With(Rows, From, now) = {} THEN sessions
                   ELSE Closed \cup {s \in sessions : s.start < Anchor} \cup
                        {s \in Finalized(Rows, From, now) :
                            s.start >= Max({Anchor} \cup {c.end : c \in Closed})}

\* rebuild_recent, replace_sessions: without rows nothing is touched; otherwise
\* the sessions that start at the anchor or later make place for the builder's.
Rebuild ==
    /\ same' = TRUE
    /\ UNCHANGED <<now, log, late>>
    /\ sessions' = IF With(Rows, From, now) = {} THEN sessions
                   ELSE {s \in sessions : s.start < Anchor} \cup
                        {s \in Finalized(Rows, From, now) : s.start >= Anchor}

Next == Tick \/ Arrive \/ Rebuild \/ \E g \in Possible : Report(g)

Spec == Init /\ [][Next]_vars

-----------------------------------------------------------------------------
\* Types, and what the table's constraints ask for (migrations/versions/
\* 0002_sessions.py:40,43): no session ends before it starts, and no two of a kind
\* start together, or the transaction would fail in every cycle.
TypeOK ==
    /\ now \in 1..MaxTime /\ late \in 0..now
    /\ log \in [1..MaxTime -> Reports \cup {Nothing}]
    /\ \A s \in sessions : s.kind \in Kinds /\ s.start \in -1..now
                           /\ (s.end = Running \/ s.end \in s.start..now)
    /\ \A s, t \in sessions : s.kind = t.kind /\ s.start = t.start => s = t

\* No rebuild deletes or changes a session that is over for a window or more,
\* from the car or from TeslaFi, whatever arrives late ("Sessions before the
\* anchor are never touched", live.py:13).
HistoryStays ==
    [][{s \in Finished : s.start < s.end} \subseteq sessions']_vars

\* What one builder makes of every row from the first to now.
Whole == Finalized(Rows, 1, now)

\* The link changed at t, out of a drive, and nothing that has to be replaced
\* started before.
Recovers(whole, t) ==
    /\ Rows[t].links \in {{"connect"}, {"disconnect"}}
    /\ ~Driving(Fed(Rows, 1, t - 1))
    /\ \A s \in whole : s.start < Anchor \/ s.start >= t

\* A rebuild from the window alone gives the sessions of a rebuild from all the
\* telemetry, late rows included, wherever the window reaches back to a change
\* of the link and the sessions before the anchor were right.
RollingIsWhole ==
    [][LET whole == Whole
           before(list) == {s \in list : s.start < Anchor}
       IN  /\ Rebuild
           /\ before(sessions) \ Imported = before(whole)
           /\ \E t \in From..now : Recovers(whole, t)
           => sessions' \ Imported = whole]_vars

\* "Re-running with the same data gives the same sessions" (live.py:14): without
\* a new row a rebuild loses no drive and no charge that was finished.
RerunKeepsSessions ==
    [][Rebuild /\ same => {s \in Closed : s.kind \in {"drive", "charge"}} \subseteq sessions']_vars
=============================================================================
