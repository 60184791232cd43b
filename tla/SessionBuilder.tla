--------------------------- MODULE SessionBuilder ---------------------------
(***************************************************************************)
(* A session builder fed with everything a car can report (feed and        *)
(* finalize of teslai/builder.py), one timestamp at a time, and the        *)
(* sessions it makes of it.                                                *)
(***************************************************************************)
EXTENDS Builder

CONSTANTS MaxTime,  \* bound: the last timestamp
          MaxGap    \* bound: time between two timestamps

ASSUME FeedAssumption == MaxTime \in Nat /\ MaxGap \in Nat \ {0}

VARIABLES now,      \* the timestamp fed last
          b,        \* the builder
          settled,  \* history: did _evaluate end because nothing changed any more?
          quiet,    \* history: since when the car has been offline, or in park
          dark,     \* history: the last period offline of OfflineEnd or more ...
          rest      \* ... and the last one connected and in park of ParkDwell or more

vars == <<now, b, settled, quiet, dark, rest>>

Groups == [links  : SUBSET {"connect", "disconnect"},
           gear   : {"same", "park", "moving", "unknown"},
           charge : {"same", "charging", "ended", "unknown"},
           moved  : BOOLEAN,
           reset  : BOOLEAN]

\* What a car can report: movement only in gear, and neither the start of a
\* charge nor a falling counter then; the end of a charge may be reported after
\* the gear has left park.  A value that is reported again is the same.
Plausible(g) ==
    LET gear == Apply(b, g).gear
    IN  /\ g.gear # b.gear /\ g.charge # b.charge
        /\ g.moved => gear = "moving"
        /\ g.reset => gear # "moving" /\ b.current.kind = "charge"
        /\ g.charge = "charging" => gear # "moving"

\* The builder only appends to its list: the last two are enough to go on.
Recent(list) == SubSeq(list, IF Len(list) < 2 THEN 1 ELSE Len(list) - 1, Len(list))

\* The car beside the builder: offline, in park, or neither, and since when.
Posture(x) == CASE x.link = "down" -> "offline"
                [] x.link # "down" /\ x.gear = "park" -> "park"
                [] OTHER -> "awake"

Period(posture, ts, least, before) ==
    IF Posture(b) = posture /\ ts - quiet >= least THEN [from |-> quiet, to |-> ts] ELSE before

Watch(ts, g) ==
    LET turned == Posture(b') # Posture(b) \/ "connect" \in g.links
    IN  /\ quiet' = IF turned THEN ts ELSE quiet
        /\ dark' = IF turned THEN Period("offline", ts, OfflineEnd, dark) ELSE dark
        /\ rest' = IF turned /\ b'.gear = "moving" THEN Period("park", ts, ParkDwell, rest) ELSE rest

FeedGroup(ts, g) ==
    /\ Plausible(g)
    /\ now' = ts
    /\ b' = Feed([b EXCEPT !.done = Recent(@)], ts, g)
    /\ settled' = (Step(b', ts, g).current = b'.current)
    /\ Watch(ts, g)

Init ==
    /\ now = 0 /\ b = NewBuilder /\ settled = TRUE
    /\ quiet = 0 /\ dark = [from |-> 0, to |-> 0] /\ rest = [from |-> 0, to |-> 0]

Next == \E gap \in 1..MaxGap, g \in Groups :
            now + gap <= MaxTime /\ FeedGroup(now + gap, g)

Spec == Init /\ [][Next]_vars

-----------------------------------------------------------------------------
\* The newest sessions with the one in progress, as finalize returns them.
All == IF b.current = NoSession THEN b.done
       ELSE Append(b.done, [kind |-> b.current.kind, start |-> b.current.start, end |-> now])

\* Drives, charges, idles and offline periods follow one another without gap,
\* though many ends and starts are decided after the fact; no session ends before
\* it starts, as the sessions table requires (migrations/versions/0002_sessions.py:40);
\* and they overlap only where the car left park before it reported the end of
\* the charge.
Timeline ==
    LET list == All
        late(s, t) == s.kind = "charge" /\ t.kind = "drive" /\ t.start \in s.start..s.end
    IN  /\ \A i \in 1..Len(list) : list[i].end >= list[i].start
        /\ \A i \in 1..(Len(list) - 1) :
               list[i].end = list[i + 1].start \/ late(list[i], list[i + 1])

Drives == {s \in {All[i] : i \in 1..Len(All)} : s.kind = "drive"}

\* A drive ends where an outage of OfflineEnd or more began, whether the builder
\* learns of it from an event, from finalize or from the reconnection.
DriveEndsOffline ==
    /\ \A s \in Drives : s.end <= dark.from \/ s.start >= dark.to
    /\ Posture(b) = "offline" /\ Driving(b) => now - quiet < OfflineEnd

\* Two drives are one drive unless the car was in park for ParkDwell, charged or
\* was offline between them.
DrivesApart ==
    LET list == All
        n == Len(list)
    IN  /\ \A i \in 1..(n - 1) : ~(list[i].kind = "drive" /\ list[i + 1].kind = "drive")
        /\ \A i \in 1..(n - 2) :
               list[i].kind = "drive" /\ list[i + 1].kind = "idle" /\ list[i + 2].kind = "drive"
               => list[i + 1].end - list[i + 1].start >= ParkDwell

\* The session in progress agrees with the connection.
OfflineIsOffline ==
    /\ b.link = "up" => b.current.kind \in {"drive", "charge", "idle"}
    /\ b.link = "down" => b.current.kind \in {"drive", "offline"}

\* "Step the state machine until it settles": four steps are enough for anything
\* one timestamp can bring (builder.py:221).
Settles == settled

\* "park >= dwell" ends a drive (builder.py:12), also when nothing else is
\* reported between the park and the next gear.
DriveEndsParked == \A s \in Drives : s.end <= rest.from \/ s.start >= rest.to
=============================================================================
