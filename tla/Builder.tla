------------------------------ MODULE Builder -------------------------------
(***************************************************************************)
(* SessionBuilder of teslai/builder.py and the carry-forward reducer of    *)
(* teslai/reducer.py below it, as functions of a builder's state: what     *)
(* happened at one timestamp after the other goes in; drives, charges,     *)
(* idles and offline periods come out, the ends of some of them decided    *)
(* long after the fact.                                                    *)
(*                                                                         *)
(* A field value is kept until a disconnect invalidates it.  Whether       *)
(* odometer or speed show movement, and whether an energy counter fell     *)
(* after it had gained, are part of the input.  Sleep and unreachable,     *)
(* which differ by server_downtime alone, are one kind, "offline".         *)
(***************************************************************************)
EXTENDS Integers, Sequences

CONSTANTS Debounce,    \* drive_debounce_s
          ParkDwell,   \* park_dwell_s
          OfflineEnd   \* offline_end_drive_s

ASSUME BuilderAssumption ==
    /\ Debounce \in Nat \ {0} /\ ParkDwell \in Nat \ {0} /\ OfflineEnd \in Nat \ {0}

Kinds == {"drive", "charge", "idle", "offline"}

NoSession == [kind |-> "none", start |-> 0]
Never == 0  \* the first timestamp is 1

-----------------------------------------------------------------------------
(* SessionBuilder: a builder b, and the methods as functions of it.        *)

NewBuilder ==
    [link    |-> "unknown",     \* self.connected
     gear    |-> "unknown",     \* r.value("Gear"), by its meaning
     charge  |-> "unknown",     \* r.value("DetailedChargeState"), by its meaning
     current |-> NoSession,     \* self.current
     done    |-> <<>>,          \* self.sessions
     pending |-> Never,         \* self.pending_drive
     park    |-> Never,         \* self.park_since
     off     |-> Never]         \* self.offline_since

Open(b, kind, at) == [b EXCEPT !.current = [kind |-> kind, start |-> at]]

\* An empty idle or offline period is not kept.
Kept(s) == s.end > s.start \/ s.kind \in {"drive", "charge"}

Close(b, at) ==
    LET s == [kind |-> b.current.kind, start |-> b.current.start, end |-> at]
    IN  IF b.current = NoSession THEN b
        ELSE [b EXCEPT !.current = NoSession,
                       !.done = IF Kept(s) THEN Append(@, s) ELSE @]

\* _close(at), then _open(kind, at).
Turn(b, kind, at) == Open(Close(b, at), kind, at)

Driving(b) == b.current.kind = "drive"

\* _step while the car is offline: a drive ends once it has been for too long.
StepOffline(b, at) ==
    IF Driving(b) /\ b.off # Never /\ at - b.off >= OfflineEnd
    THEN [Turn(b, "offline", b.off) EXCEPT !.off = Never]
    ELSE b

StepDrivingAtOnce(b, at) ==  \* mutant: no dwell
    CASE b.gear = "park" -> [Turn(b, "idle", at) EXCEPT !.park = Never]
      [] b.gear = "moving" -> [b EXCEPT !.park = Never]
      [] OTHER -> b

\* _step in a drive: it ends where the park began, once the park has lasted.
StepDriving(b, at) ==
    LET since == IF b.park = Never THEN at ELSE b.park
    IN  CASE b.gear = "park" /\ at - since >= ParkDwell ->
                 [Turn(b, "idle", since) EXCEPT !.park = Never]
          [] b.gear = "park" /\ at - since < ParkDwell -> [b EXCEPT !.park = since]
          [] b.gear = "moving" -> [b EXCEPT !.park = Never]
          [] OTHER -> b

\* _step otherwise: the drive that may have begun, then the charge.  A charge
\* that was opened at this timestamp took its counters from it.
StepStanding(b, at, g) ==
    LET since == IF b.pending = Never THEN at ELSE b.pending
        p == [b EXCEPT !.pending = IF b.gear = "moving" THEN since ELSE Never]
        fell == g.reset /\ b.current.start < at
    IN  CASE b.gear = "moving" /\ at - since >= Debounce /\ g.moved ->
                 [Turn(b, "drive", since) EXCEPT !.pending = Never, !.park = Never]
          [] OTHER ->
               CASE b.current.kind \in {"idle", "none"} /\ b.charge = "charging" ->
                        Turn(p, "charge", at)
                 [] b.current.kind = "charge" /\ fell -> Turn(p, "charge", at)
                 [] b.current.kind = "charge" /\ ~fell /\ b.charge = "ended" ->
                        Turn(p, "idle", at)
                 [] OTHER -> p

Step(b, at, g) == CASE b.link # "up" -> StepOffline(b, at)
                    [] b.link = "up" /\ Driving(b) -> StepDriving(b, at)
                    [] OTHER -> StepStanding(b, at, g)

EvaluateOnce(b, at, g) == Step(b, at, g)  \* mutant: one step for each timestamp

\* One turn of the loop in _evaluate, which ends with the step that leaves the
\* session in progress the same.
StepAgain(r, at, g) ==
    LET next == Step(r.b, at, g)
    IN  IF r.settled THEN r ELSE [b |-> next, settled |-> next.current = r.b.current]

\* _evaluate: at most 4 steps.
Evaluate(b, at, g) ==
    LET turn[n \in 0..4] ==
            IF n = 0 THEN [b |-> b, settled |-> FALSE] ELSE StepAgain(turn[n - 1], at, g)
    IN  turn[4].b

ConnectResuming(b, ts) ==  \* mutant: a drive goes on after any outage
    LET up == [b EXCEPT !.link = "up", !.off = Never]
        woken == IF up.current.kind = "offline" THEN Close(up, ts) ELSE up
    IN  IF b.link = "up" THEN b
        ELSE IF woken.current = NoSession THEN Open(woken, "idle", ts) ELSE woken

ConnectAsleep(b, ts) ==  \* mutant: the offline period is not closed
    LET up == [b EXCEPT !.link = "up", !.off = Never]
    IN  CASE b.link = "up" -> b
          [] b.link # "up" /\ Driving(b) /\ b.off # Never /\ ts - b.off >= OfflineEnd ->
                 Turn(Turn(up, "offline", b.off), "idle", ts)
          [] b.link # "up" /\ Driving(b) /\ b.off # Never /\ ts - b.off < OfflineEnd -> up
          [] OTHER -> IF up.current = NoSession THEN Open(up, "idle", ts) ELSE up

\* _connectivity, connected.
Connect(b, ts) ==
    LET up == [b EXCEPT !.link = "up", !.off = Never]
        woken == IF up.current.kind = "offline" THEN Close(up, ts) ELSE up
    IN  CASE b.link = "up" -> b
          [] b.link # "up" /\ Driving(b) /\ b.off # Never /\ ts - b.off >= OfflineEnd ->
                 Turn(Turn(up, "offline", b.off), "idle", ts)
          [] b.link # "up" /\ Driving(b) /\ b.off # Never /\ ts - b.off < OfflineEnd -> up
          [] OTHER -> IF woken.current = NoSession THEN Open(woken, "idle", ts) ELSE woken

DisconnectPending(b, ts) ==  \* mutant: pending_drive outlives the connection
    LET parked == IF Driving(b) /\ b.park # Never THEN Turn(b, "idle", b.park) ELSE b
        down == [parked EXCEPT !.link = "down", !.park = Never,
                               !.gear = "unknown", !.charge = "unknown"]
    IN  CASE b.link = "down" -> b
          [] b.link # "down" /\ Driving(down) -> [down EXCEPT !.off = ts]
          [] OTHER -> Turn(down, "offline", ts)

\* _connectivity, disconnected: a park in progress was final, and every value
\* becomes invalid.
Disconnect(b, ts) ==
    LET parked == IF Driving(b) /\ b.park # Never THEN Turn(b, "idle", b.park) ELSE b
        down == [parked EXCEPT !.link = "down", !.pending = Never, !.park = Never,
                               !.gear = "unknown", !.charge = "unknown"]
    IN  CASE b.link = "down" -> b
          [] b.link # "down" /\ Driving(down) -> [down EXCEPT !.off = ts]
          [] OTHER -> Turn(down, "offline", ts)

\* feed: the values of a timestamp, its connect, _evaluate, its disconnect.
Apply(b, g) == [b EXCEPT !.gear = IF g.gear = "same" THEN @ ELSE g.gear,
                         !.charge = IF g.charge = "same" THEN @ ELSE g.charge]

Feed(b, ts, g) ==
    LET applied == Apply(b, g)
        linked == IF "connect" \in g.links THEN Connect(applied, ts) ELSE applied
        evaluated == Evaluate(linked, ts, g)
    IN  IF "disconnect" \in g.links
        THEN Evaluate(Disconnect(evaluated, ts), ts, g)
        ELSE evaluated
=============================================================================
