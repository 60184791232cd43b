------------------------------ MODULE Ingest -------------------------------
(***************************************************************************)
(* The telemetry worker (teslai/worker.py), the MQTT broker in front of it *)
(* and the tables behind it (teslai/db/repo.py).                           *)
(*                                                                         *)
(* The broker keeps every message until it is acknowledged and delivers    *)
(* each one at most once per connection, in order.  The worker appends the *)
(* payload to the recording (teslai/recorder.py), handles it in one        *)
(* transaction, and acknowledges it after the commit.  Its memory of the   *)
(* previous value of each field dies with the process.  Field payloads     *)
(* carry no time: a message is stamped with the moment it is received, so  *)
(* a redelivery is stored under a new time.                                *)
(***************************************************************************)
EXTENDS Integers, Sequences, FiniteSets

CONSTANTS Fields,       \* field names the car reports
          Values,       \* the values a field can take
          NoValue,      \* no entry in the worker's memory
          MaxInflight,  \* unacknowledged messages the broker lets out at once
          Faults,       \* which happen: "crash", "drop", "db", "answer", "disk"
          MaxSent,      \* bound: messages the car sends
          MaxFaults     \* bound: faults in a behaviour

ASSUME NoValueAssumption == NoValue \notin Values
ASSUME BoundAssumption == /\ MaxSent \in Nat
                          /\ MaxFaults \in Nat
                          /\ MaxInflight \in Nat \ {0}

VARIABLES sent,          \* every message published, in order; a message is its index
          broker,        \* messages not acknowledged yet
          delivered,     \* of those, the ones handed out on this connection
          pc,            \* where the worker is in on_message
          cur,           \* the message in hand (0: none)
          rcvd,          \* received_at of the message in hand
          lastValue,     \* Ingestor._last_value
          events,        \* telemetry_events
          connectivity,  \* connectivity_events
          usage,         \* api_usage, category "signal"
          recording,     \* the recorder's file: what was received, and when
          clock,         \* the latest instant anything was stamped with
          faults,        \* faults so far
          committed,     \* history: deliveries whose transaction committed
          doubted        \* history: fields a commit with a lost answer stored

brokerVars == <<sent, broker, delivered>>
workerVars == <<pc, cur, rcvd, lastValue>>
dbVars     == <<events, connectivity, usage, committed, doubted>>
vars == <<brokerVars, workerVars, dbVars, recording, clock, faults>>

Ids == 1..Len(sent)

Signals == [kind : {"signal"}, field : Fields, value : Values]
Links   == [kind : {"connectivity"}, connected : BOOLEAN, created : Nat]
Ignored == [kind : {"ignored"}]  \* malformed, alerts/errors, or an unknown VIN

Rows     == [field : Fields, ts : Nat, value : Values]
LinkRows == [ts : Nat, connected : BOOLEAN]
Records  == [ts : Nat, msg : Nat]

TypeOK ==
    /\ sent \in Seq(Signals \cup Links \cup Ignored)
    /\ broker \subseteq Ids /\ delivered \subseteq broker
    /\ pc \in {"idle", "received", "done"}
    /\ cur \in Nat /\ (pc # "idle" => cur \in delivered)
    /\ rcvd \in 0..clock
    /\ lastValue \in [Fields -> Values \cup {NoValue}]
    /\ events \subseteq Rows /\ connectivity \subseteq LinkRows
    /\ usage \in [Fields -> Nat]
    /\ recording \in Seq(Records) /\ committed \subseteq Records /\ doubted \subseteq Fields
    /\ clock \in Nat /\ faults \in 0..MaxFaults

Init ==
    /\ sent = <<>> /\ broker = {} /\ delivered = {}
    /\ pc = "idle" /\ cur = 0 /\ rcvd = 0
    /\ lastValue = [f \in Fields |-> NoValue]
    /\ events = {} /\ connectivity = {} /\ usage = [f \in Fields |-> 0]
    /\ recording = <<>> /\ clock = 0 /\ faults = 0 /\ committed = {} /\ doubted = {}

-----------------------------------------------------------------------------
(* What the stored rows say about a field.                                 *)

\* The newest row of field f at or before `at` has value v.
Shows(rows, f, at, v) ==
    \E r \in rows :
        /\ r.field = f /\ r.value = v /\ r.ts <= at
        /\ \A q \in rows : q.field = f /\ q.ts <= at => q.ts <= r.ts

\* INSERT ... ON CONFLICT (vehicle_id, ts, field) DO NOTHING.
Inserted(rows, m, ts) ==
    IF \E r \in rows : r.field = m.field /\ r.ts = ts
    THEN rows
    ELSE rows \cup {[field |-> m.field, ts |-> ts, value |-> m.value]}

\* The value equals the previous one this process handled for the field.
Repeats(mem, m) == mem[m.field] = m.value

-----------------------------------------------------------------------------
(* The car and fleet-telemetry publish with QoS 1.                         *)

LinkMessages == {i \in Ids : sent[i].kind = "connectivity"}

LinkUp == \A i \in LinkMessages :
              (\A j \in LinkMessages : j <= i) => sent[i].connected

Publish(m) ==
    /\ Len(sent) < MaxSent
    /\ sent' = Append(sent, m)
    /\ broker' = broker \cup {Len(sent) + 1}
    /\ UNCHANGED <<delivered, workerVars, dbVars, recording, faults>>

SendSignal ==
    /\ LinkUp
    /\ \E m \in Signals : Publish(m)
    /\ UNCHANGED clock

\* fleet-telemetry stamps connectivity records with CreatedAt.
SendConnectivity ==
    /\ Publish([kind |-> "connectivity", connected |-> ~LinkUp, created |-> clock + 1])
    /\ clock' = clock + 1

SendIgnored ==
    /\ \E m \in Ignored : Publish(m)
    /\ UNCHANGED clock

-----------------------------------------------------------------------------
(* The worker.                                                             *)

Undelivered == broker \ delivered

NextDelivery(i) ==
    /\ i \in Undelivered
    /\ \A j \in Undelivered : i <= j
    /\ Cardinality(delivered) < MaxInflight

\* on_message: take the receive time and append the payload to the recording.
Receive ==
    /\ pc = "idle"
    /\ \E i \in Undelivered :
        /\ NextDelivery(i)
        /\ cur' = i
        /\ delivered' = delivered \cup {i}
        /\ recording' = Append(recording, [ts |-> clock + 1, msg |-> i])
    /\ clock' = clock + 1 /\ rcvd' = clock + 1
    /\ pc' = "received"
    /\ UNCHANGED <<sent, broker, lastValue, dbVars, faults>>

CommitDelivery == committed' = committed \cup {[ts |-> rcvd, msg |-> cur]}

\* handle(): the transaction of a signal whose value is new to this process ...
StoreSignal(m) ==
    /\ m.kind = "signal" /\ ~Repeats(lastValue, m)
    /\ events' = Inserted(events, m, rcvd)
    /\ usage' = [usage EXCEPT ![m.field] = @ + 1]
    /\ CommitDelivery
    /\ UNCHANGED connectivity

CountRepeatNot(m) ==  \* mutant: the early return comes before add_usage
    /\ m.kind = "signal" /\ Repeats(lastValue, m)
    /\ CommitDelivery
    /\ UNCHANGED <<events, connectivity, usage>>

\* ... of a signal that repeats the previous value: no row, but still counted ...
CountRepeat(m) ==
    /\ m.kind = "signal" /\ Repeats(lastValue, m)
    /\ usage' = [usage EXCEPT ![m.field] = @ + 1]
    /\ CommitDelivery
    /\ UNCHANGED <<events, connectivity>>

StoreConnectivityAtReceipt(m) ==  \* mutant: stamped like a field event
    /\ m.kind = "connectivity"
    /\ connectivity' = connectivity \cup {[ts |-> rcvd, connected |-> m.connected]}
    /\ CommitDelivery
    /\ UNCHANGED <<events, usage>>

\* ... and of a connectivity record, stored under its own time.
StoreConnectivity(m) ==
    /\ m.kind = "connectivity"
    /\ connectivity' = connectivity \cup {[ts |-> m.created, connected |-> m.connected]}
    /\ CommitDelivery
    /\ UNCHANGED <<events, usage>>

Transaction(m) == StoreSignal(m) \/ CountRepeat(m) \/ StoreConnectivity(m)

\* self._last_value[key] = parsed.value, reached only after the commit.
Remember(m) ==
    IF m.kind = "signal" THEN lastValue' = [lastValue EXCEPT ![m.field] = m.value]
                         ELSE UNCHANGED lastValue

Handle ==
    /\ pc = "received"
    /\ Transaction(sent[cur])
    /\ Remember(sent[cur])
    /\ pc' = "done"
    /\ UNCHANGED <<brokerVars, cur, rcvd, doubted, recording, clock, faults>>

\* Malformed, logged only, or from an unregistered VIN: acknowledged unstored.
HandleIgnored ==
    /\ pc = "received"
    /\ sent[cur].kind = "ignored"
    /\ CommitDelivery
    /\ pc' = "done"
    /\ UNCHANGED <<brokerVars, cur, rcvd, lastValue, events, connectivity, usage, doubted,
                   recording, clock, faults>>

AckKeepingSlot ==  \* mutant: the broker never frees the message's in-flight slot
    /\ pc = "done"
    /\ broker' = broker \ {cur}
    /\ pc' = "idle" /\ cur' = 0 /\ rcvd' = 0
    /\ UNCHANGED <<sent, delivered, lastValue, dbVars, recording, clock, faults>>

\* c.ack(): the broker forgets the message.
Ack ==
    /\ pc = "done"
    /\ broker' = broker \ {cur}
    /\ delivered' = delivered \ {cur}
    /\ pc' = "idle" /\ cur' = 0 /\ rcvd' = 0
    /\ UNCHANGED <<sent, lastValue, dbVars, recording, clock, faults>>

-----------------------------------------------------------------------------
(* Faults.                                                                 *)

Fault(kind) ==
    /\ kind \in Faults
    /\ faults < MaxFaults
    /\ faults' = faults + 1

HandleFailsRemembering ==  \* mutant: _last_value is set before the transaction
    /\ Fault("db")
    /\ pc = "received"
    /\ Remember(sent[cur])
    /\ pc' = "idle" /\ cur' = 0 /\ rcvd' = 0
    /\ UNCHANGED <<brokerVars, dbVars, recording, clock>>

\* The database refuses the transaction: on_message swallows the exception and
\* leaves the message unacknowledged on a connection that stays up.
HandleFails ==
    /\ Fault("db")
    /\ pc = "received"
    /\ pc' = "idle" /\ cur' = 0 /\ rcvd' = 0
    /\ UNCHANGED <<brokerVars, lastValue, dbVars, recording, clock>>

\* The commit took effect but its answer was lost: stored, not remembered,
\* not acknowledged.
CommitUnknown ==
    /\ Fault("answer")
    /\ pc = "received"
    /\ Transaction(sent[cur])
    /\ doubted' = doubted \cup {f \in Fields : sent[cur] \in Signals /\ sent[cur].field = f}
    /\ pc' = "idle" /\ cur' = 0 /\ rcvd' = 0
    /\ UNCHANGED <<brokerVars, lastValue, recording, clock>>

\* recorder.write raises (a full disk): the message is not handled at all.
RecorderFails ==
    /\ Fault("disk")
    /\ pc = "idle"
    /\ \E i \in Undelivered : NextDelivery(i) /\ delivered' = delivered \cup {i}
    /\ UNCHANGED <<sent, broker, workerVars, dbVars, recording, clock>>

CrashKeepingSession ==  \* mutant: the broker starts a clean session
    /\ Fault("crash")
    /\ pc' = "idle" /\ cur' = 0 /\ rcvd' = 0
    /\ lastValue' = [f \in Fields |-> NoValue]
    /\ delivered' = {} /\ broker' = broker \ delivered
    /\ UNCHANGED <<sent, dbVars, recording, clock>>

\* The process dies and starts again: its memory is gone, and the broker
\* redelivers whatever was not acknowledged (clean_session=False).
Crash ==
    /\ Fault("crash")
    /\ pc' = "idle" /\ cur' = 0 /\ rcvd' = 0
    /\ lastValue' = [f \in Fields |-> NoValue]
    /\ delivered' = {}
    /\ UNCHANGED <<sent, broker, dbVars, recording, clock>>

DropWithoutRedelivery ==  \* mutant: a reconnection goes on where the old one was
    /\ Fault("drop")
    /\ pc \in {"idle", "done"}
    /\ pc' = "idle" /\ cur' = 0 /\ rcvd' = 0
    /\ UNCHANGED <<brokerVars, lastValue, dbVars, recording, clock>>

\* The connection breaks and loop_forever reconnects; an acknowledgement in
\* flight is lost with it.
Drop ==
    /\ Fault("drop")
    /\ pc \in {"idle", "done"}
    /\ pc' = "idle" /\ cur' = 0 /\ rcvd' = 0
    /\ delivered' = {}
    /\ UNCHANGED <<sent, broker, lastValue, dbVars, recording, clock>>

-----------------------------------------------------------------------------
Work == Receive \/ Handle \/ HandleIgnored \/ Ack

Next ==
    \/ SendSignal \/ SendConnectivity \/ SendIgnored
    \/ Receive \/ Handle \/ HandleIgnored \/ Ack
    \/ HandleFails \/ CommitUnknown \/ RecorderFails \/ Crash \/ Drop

Spec == Init /\ [][Next]_vars

\* loop_forever keeps reading the socket and on_message runs to its end.
FairSpec == Spec /\ WF_vars(Work)

-----------------------------------------------------------------------------
Accepted == {c.msg : c \in committed}

Promise == INSTANCE AtLeastOnce
    WITH Messages <- 1..MaxSent, offered <- Ids, held <- broker, accepted <- Accepted

\* Ingest implements the at-least-once promise: the broker loses no message
\* before the message's transaction has committed, whatever fails and whenever
\* ("acknowledged only after its database transaction commits", worker.py).
KeepsPromise == Promise!Spec

\* At the moment a signal was committed, the stored rows show its value, also
\* when the worker skipped the insert because the value repeated its memory:
\* the memory agrees with the table across crashes, failed commits and
\* redeliveries, and no later insert rewrites the past.  A commit whose answer
\* was lost breaks that for its field: the row is stored and not remembered.
CommittedIsShown ==
    \A c \in committed :
        LET m == sent[c.msg] IN
        (m.kind = "signal" /\ m.field \notin doubted) => Shows(events, m.field, c.ts, m.value)

\* Every acknowledged signal was counted, also the ones that left no row:
\* check_billing in alerts.py reads these counts.
UsageCoversAcked ==
    \A f \in Fields :
        usage[f] >= Cardinality({i \in Ids \ broker : sent[i].kind = "signal"
                                                      /\ sent[i].field = f})

\* Redelivered connectivity records add nothing: the table never holds an
\* instant or a state that was not published, and holds every acknowledged one.
ConnectivityMatchesSent ==
    LET row(i) == [ts |-> sent[i].created, connected |-> sent[i].connected]
    IN  /\ connectivity \subseteq {row(i) : i \in LinkMessages}
        /\ \A i \in LinkMessages \ broker : row(i) \in connectivity

\* With everything acknowledged, the newest row of each field is the last value
\* the car sent for it.
NewestWins ==
    (broker = {}) =>
        \A i \in Ids :
            /\ sent[i].kind = "signal"
            /\ \A j \in Ids : (sent[j].kind = "signal" /\ sent[j].field = sent[i].field) => j <= i
            => Shows(events, sent[i].field, clock, sent[i].value)

\* Every message is acknowledged in the end ("leaves it on the broker for
\* redelivery", worker.py).
EventuallyAcked == \A i \in 1..MaxSent : (i \in broker) ~> (i \notin broker)
=============================================================================
