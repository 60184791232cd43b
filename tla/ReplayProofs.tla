---------------------------- MODULE ReplayProofs ----------------------------
(***************************************************************************)
(* Proofs about Replay: for any number of messages, fields, values, faults *)
(* and replays, a replay beside the live worker rewrites no history, and   *)
(* replaying what was replayed to its end adds nothing.                    *)
(***************************************************************************)
EXTENDS Replay, IngestProofs

ReplayTypeOK ==
    /\ TypeOK
    /\ rlen \in 0..Len(recording) /\ replayed \in 0..Len(recording)
    /\ rpos \in 0..(rlen + 1)
    /\ rmem \in [Fields -> Values \cup {NoValue}]
    /\ replays \in Nat

Recorded == {recording[k] : k \in DOMAIN recording}

\* What is in hand, as it is recorded.
InHand == [ts |-> rcvd, msg |-> cur]

\* A delivery of a signal for field f.
Tells(r, f) == sent[r.msg].kind = "signal" /\ sent[r.msg].field = f

\* What is received is recorded first, each time under a later instant, and
\* stored under the instant it was received.
ReceivedIsRecorded ==
    /\ \A r \in Recorded : r.msg \in Ids /\ r.ts <= clock
    /\ \A q, r \in Recorded : q.ts = r.ts => q = r
    /\ committed \subseteq Recorded
    /\ pc # "idle" => InHand \in Recorded /\ \A r \in Recorded : r.ts <= rcvd
    /\ pc = "received" => \A c \in committed : c.ts < rcvd
    /\ pc = "done" => InHand \in committed

RowsAreRecorded ==
    \A q \in events : \E r \in Recorded :
        r.ts = q.ts /\ Tells(r, q.field) /\ sent[r.msg].value = q.value

\* A delivery that was never committed is hidden, once there is a later commit for
\* its field, by a row between the two: the crash that lost it emptied the memory.
LostIsHidden ==
    \A f \in Fields \ doubted : \A r \in Recorded \ committed, c \in committed :
        Tells(r, f) /\ Tells(c, f) /\ r.ts < c.ts
        => \E q \in events : q.field = f /\ r.ts < q.ts /\ q.ts <= c.ts

\* The memory holds the value of a commit that was received after every other
\* delivery for its field, but for the one in hand.
MemoryIsNewest ==
    \A f \in Fields \ doubted : lastValue[f] # NoValue =>
        \E c \in committed :
            /\ Tells(c, f) /\ sent[c.msg].value = lastValue[f]
            /\ \A r \in Recorded : Tells(r, f) => r.ts <= c.ts \/ (pc = "received" /\ r = InHand)

\* What holds of the recording and the rows, whatever fails ...
BInv == ReplayTypeOK /\ ReceivedIsRecorded /\ RowsAreRecorded

\* ... and of the history, unless the database refuses transactions: then the worker
\* goes on, with its memory, without the row that the replay puts back.
HInv == LostIsHidden /\ MemoryIsNewest /\ CommittedIsShown

-----------------------------------------------------------------------------
(* Order, where the only faults are crashes and lost connections.          *)

\* The broker hands out one message at a time, the oldest it has.
OldestInHand ==
    /\ doubted = {}
    /\ delivered = IF pc = "idle" THEN {} ELSE {cur}
    /\ pc # "idle" => \A i \in broker : cur <= i

\* What is acknowledged is older than what is not, and was committed after the
\* last time it, or anything older, was received.
AcknowledgedInOrder ==
    \A i \in Ids \ broker :
        /\ \A j \in broker : i < j
        /\ \E c \in committed : c.msg = i /\ \A r \in Recorded : r.msg <= i => r.ts <= c.ts

OInv == OldestInHand /\ AcknowledgedInOrder

-----------------------------------------------------------------------------
(* What a replay has covered.                                              *)

\* Record k holds a signal for field f.
At(k, f) == k \in DOMAIN recording /\ Tells(recording[k], f)

\* Record k repeats the one before it for the field.
RepeatsRecord(k, f) ==
    \E j \in 1..(k - 1) :
        /\ At(j, f) /\ sent[recording[j].msg].value = sent[recording[k].msg].value
        /\ \A l \in (j + 1)..(k - 1) : ~At(l, f)

\* Nothing is left to store of record k.
Covered(k) ==
    LET r == recording[k]
        m == sent[r.msg]
    IN  /\ \A f \in Fields : At(k, f) =>
               RepeatsRecord(k, f) \/ \E q \in events : q.field = f /\ q.ts = r.ts
        /\ m.kind = "connectivity" => [ts |-> m.created, connected |-> m.connected] \in connectivity

\* The replaying Ingestor remembers the last record it has read of each field.
ReplayMemory ==
    rpos # 0 => \A f \in Fields :
        \/ rmem[f] = NoValue /\ \A l \in 1..(rpos - 1) : ~At(l, f)
        \/ \E j \in 1..(rpos - 1) :
              /\ At(j, f) /\ rmem[f] = sent[recording[j].msg].value
              /\ \A l \in (j + 1)..(rpos - 1) : ~At(l, f)

CoveredInv ==
    /\ \A k \in 1..replayed : Covered(k)
    /\ \A k \in 1..(rpos - 1) : Covered(k)
    /\ ReplayMemory

-----------------------------------------------------------------------------
(* Sequences and rows.                                                     *)

\* Appending a record adds it, and moves none.
LEMMA RecordedAppended ==
    ASSUME recording \in Seq(Records), NEW r \in Records, recording' = Append(recording, r)
    PROVE  /\ Recorded' = Recorded \cup {r} /\ recording' \in Seq(Records)
           /\ Len(recording') = Len(recording) + 1
           /\ \A k \in DOMAIN recording : k \in DOMAIN recording' /\ recording'[k] = recording[k]
<1>1. /\ recording' \in Seq(Records) /\ Len(recording') = Len(recording) + 1
      /\ \A k \in 1..Len(recording) : recording'[k] = recording[k]
      /\ recording'[Len(recording) + 1] = r
  OBVIOUS
<1>2. DOMAIN recording = 1..Len(recording) /\ DOMAIN recording' = 1..(Len(recording) + 1)
      /\ Len(recording) \in Nat
  BY <1>1
<1>3. DOMAIN recording' = DOMAIN recording \cup {Len(recording) + 1}
  BY <1>2
<1>4. \A k \in DOMAIN recording : recording'[k] = recording[k]
  BY <1>1, <1>2
<1> QED
  BY <1>1, <1>3, <1>4 DEF Recorded

\* An insert stores the row or finds one for its field and instant.
LEMMA InsertedHas ==
    ASSUME NEW rows, NEW m \in Signals, NEW ts \in Nat
    PROVE  /\ rows \subseteq Inserted(rows, m, ts)
           /\ \E q \in Inserted(rows, m, ts) : q.field = m.field /\ q.ts = ts
           /\ \A q \in Inserted(rows, m, ts) :
                 q \in rows \/ (q.field = m.field /\ q.ts = ts /\ q.value = m.value)
           /\ rows \in SUBSET Rows => Inserted(rows, m, ts) \in SUBSET Rows
<1> DEFINE new == [field |-> m.field, ts |-> ts, value |-> m.value]
<1>1. new \in Rows /\ new.field = m.field /\ new.ts = ts /\ new.value = m.value
  BY DEF Rows, Signals
<1>2. Inserted(rows, m, ts) = rows \/ Inserted(rows, m, ts) = rows \cup {new}
  BY DEF Inserted
<1>3. \E q \in Inserted(rows, m, ts) : q.field = m.field /\ q.ts = ts
  BY <1>1 DEF Inserted
<1> QED
  BY <1>1, <1>2, <1>3

\* A later row changes nothing of what an instant shows.
LEMMA InsertedLater ==
    ASSUME NEW rows \in SUBSET Rows, NEW m \in Signals, NEW ts \in Nat,
           NEW at \in Nat, at < ts, NEW f, NEW v, Shows(rows, f, at, v)
    PROVE  Shows(Inserted(rows, m, ts), f, at, v)
BY DEF Inserted, Shows, Rows

-----------------------------------------------------------------------------
(* Types.                                                                  *)

\* Ingest's types hold after every step of it, whatever stored the rows.
LEMMA TypesNext == TypeOK /\ [Next]_vars => TypeOK'
<1> SUFFICES ASSUME TypeOK, [Next]_vars PROVE TypeOK'
  OBVIOUS
<1> USE BoundAssumption DEF brokerVars, workerVars, dbVars
<1>1. ASSUME NEW m \in Signals \cup Links \cup Ignored, Publish(m), clock' \in Nat,
             clock <= clock'
      PROVE  TypeOK'
  <2>1. sent' \in Seq(Signals \cup Links \cup Ignored) /\ Len(sent') = Len(sent) + 1
    BY <1>1 DEF Publish, TypeOK
  <2>2. Ids \subseteq Ids' /\ Len(sent) + 1 \in Ids'
    BY <2>1 DEF Ids, TypeOK
  <2>3. /\ broker' = broker \cup {Len(sent) + 1}
        /\ UNCHANGED <<delivered, workerVars, dbVars, recording, faults>>
    BY <1>1 DEF Publish
  <2>4. broker' \subseteq Ids'
    BY <2>2, <2>3 DEF TypeOK
  <2> QED
    BY <1>1, <2>1, <2>2, <2>3, <2>4 DEF TypeOK
<1>2. CASE SendSignal \/ SendIgnored
  BY <1>1, <1>2 DEF SendSignal, SendIgnored, TypeOK
<1>3. CASE SendConnectivity
  <2>1. /\ [kind |-> "connectivity", connected |-> ~LinkUp, created |-> clock + 1] \in Links
        /\ clock' \in Nat /\ clock <= clock'
    BY <1>3 DEF SendConnectivity, TypeOK, Links
  <2> QED
    BY <1>1, <1>3, <2>1 DEF SendConnectivity
<1>4. CASE Receive
  <2> PICK i \in Undelivered : /\ cur' = i /\ delivered' = delivered \cup {i}
                               /\ recording' = Append(recording, [ts |-> clock + 1, msg |-> i])
    BY <1>4 DEF Receive
  <2>1. i \in broker /\ i \in Nat /\ [ts |-> clock + 1, msg |-> i] \in Records
    BY DEF Undelivered, TypeOK, Ids, Records
  <2>2. recording' \in Seq(Records)
    BY <2>1 DEF TypeOK
  <2> QED
    BY <1>4, <2>1, <2>2 DEF Receive, TypeOK, Ids
<1>5. ASSUME pc = "received", Transaction(sent[cur])
      PROVE  /\ events' \in SUBSET Rows /\ connectivity' \in SUBSET LinkRows
             /\ usage' \in [Fields -> Nat] /\ committed' \in SUBSET Records
  <2>1. cur \in Ids /\ InHand \in Records /\ rcvd \in Nat
    BY <1>5 DEF TypeOK, Ids, InHand, Records
  <2>2. /\ sent[cur].kind = "signal" => sent[cur] \in Signals
        /\ sent[cur].kind = "connectivity" => sent[cur] \in Links
    BY <2>1, TypeKinds
  <2>3. CASE StoreSignal(sent[cur])
    BY <2>1, <2>2, <2>3, InsertedHas
       DEF StoreSignal, CommitDelivery, TypeOK, InHand, Signals
  <2>4. CASE CountRepeat(sent[cur])
    BY <2>1, <2>2, <2>4 DEF CountRepeat, CommitDelivery, TypeOK, InHand, Signals
  <2>5. CASE StoreConnectivity(sent[cur])
    BY <2>1, <2>2, <2>5 DEF StoreConnectivity, CommitDelivery, TypeOK, InHand, Links, LinkRows
  <2> QED
    BY <1>5, <2>3, <2>4, <2>5 DEF Transaction
<1>6. CASE Handle
  <2>1. pc = "received" /\ cur \in Ids
    BY <1>6 DEF Handle, TypeOK, Ids
  <2>2. lastValue' \in [Fields -> Values \cup {NoValue}]
    BY <1>6, <2>1, TypeKinds DEF Handle, Remember, TypeOK, Signals
  <2> QED
    BY <1>5, <1>6, <2>2 DEF Handle, TypeOK, Ids
<1>7. CASE HandleIgnored
  <2>1. InHand \in Records
    BY <1>7 DEF HandleIgnored, TypeOK, InHand, Records, Ids
  <2> QED
    BY <1>7, <2>1 DEF HandleIgnored, CommitDelivery, TypeOK, InHand, Ids
<1>8. CASE CommitUnknown
  BY <1>5, <1>8 DEF CommitUnknown, Fault, TypeOK, Ids
<1>9. CASE Ack \/ HandleFails \/ RecorderFails \/ Crash \/ Drop
  <2>1. CASE Ack
    BY <2>1 DEF Ack, TypeOK, Ids
  <2>2. CASE HandleFails \/ Crash \/ Drop
    <3>1. faults' \in 0..MaxFaults
      BY <2>2 DEF HandleFails, Crash, Drop, Fault, TypeOK
    <3>2. /\ lastValue' \in [Fields -> Values \cup {NoValue}]
          /\ delivered' \subseteq broker /\ pc' = "idle" /\ cur' = 0 /\ rcvd' = 0
      BY <2>2 DEF HandleFails, Crash, Drop, TypeOK
    <3>3. UNCHANGED <<sent, broker, dbVars, recording, clock>>
      BY <2>2 DEF HandleFails, Crash, Drop
    <3> QED
      BY <3>1, <3>2, <3>3 DEF TypeOK, Ids
  <2>3. CASE RecorderFails
    BY <2>3 DEF RecorderFails, Fault, TypeOK, Undelivered, Ids
  <2> QED
    BY <1>9, <2>1, <2>2, <2>3
<1>10. CASE UNCHANGED vars
  BY <1>10 DEF vars, TypeOK, Ids
<1> QED
  BY <1>2, <1>3, <1>4, <1>6, <1>7, <1>8, <1>9, <1>10 DEF Next

\* Of one record of a replay: its signal is inserted under its receive time or
\* skipped, its link record stored.
LEMMA ReplayTransaction ==
    ASSUME ReplayTypeOK, ReceivedIsRecorded, ReplayRecord
    PROVE  LET r == recording[rpos]
               m == sent[r.msg]
           IN  /\ r \in Recorded /\ r \in Records /\ r.msg \in Ids /\ rpos \in DOMAIN recording
               /\ \/ m.kind = "signal" /\ m \in Signals
                     /\ \/ Repeats(rmem, m) /\ events' = events
                        \/ ~Repeats(rmem, m) /\ events' = Inserted(events, m, r.ts)
                     /\ rmem' = [rmem EXCEPT ![m.field] = m.value]
                     /\ usage' = [usage EXCEPT ![m.field] = @ + 1]
                     /\ connectivity' = connectivity
                  \/ /\ m.kind = "connectivity" /\ m \in Links /\ UNCHANGED <<events, usage, rmem>>
                     /\ connectivity' = connectivity \cup
                                        {[ts |-> m.created, connected |-> m.connected]}
                  \/ m.kind = "ignored" /\ UNCHANGED <<events, usage, rmem, connectivity>>
<1> DEFINE r == recording[rpos]
           m == sent[r.msg]
<1>1. rpos \in DOMAIN recording
  BY DEF ReplayRecord, ReplayTypeOK, TypeOK
<1>2. r \in Recorded /\ r \in Records
  BY <1>1 DEF Recorded, ReplayTypeOK, TypeOK
<1>3. r.msg \in Ids
  BY <1>2 DEF ReceivedIsRecorded
<1>4. /\ m.kind = "signal" => m \in Signals
      /\ m.kind = "connectivity" => m \in Links
  BY <1>3, TypeKinds DEF ReplayTypeOK
<1>5. ReplaySignal(m, r.ts) \/ ReplayConnectivity(m) \/ ReplayIgnored(m)
  BY DEF ReplayRecord
<1> QED
  BY <1>1, <1>2, <1>3, <1>4, <1>5 DEF ReplaySignal, ReplayConnectivity, ReplayIgnored

-----------------------------------------------------------------------------
(* What is recorded, whatever fails.                                       *)

LEMMA BaseInit == ReplayInit => BInv
<1> SUFFICES ASSUME ReplayInit PROVE BInv
  OBVIOUS
<1>1. TypeOK
  BY InitInv DEF ReplayInit, IInv
<1>2. recording = <<>> /\ Len(recording) = 0 /\ Recorded = {}
  BY DEF ReplayInit, Init, Recorded
<1>3. ReplayTypeOK
  BY <1>1, <1>2 DEF ReplayInit, ReplayTypeOK
<1>4. ReceivedIsRecorded /\ RowsAreRecorded
  BY <1>2 DEF ReplayInit, Init, ReceivedIsRecorded, RowsAreRecorded
<1> QED
  BY <1>3, <1>4 DEF BInv

\* A message that is published is none that was received.
LEMMA TellsKept ==
    ASSUME TypeOK, ReceivedIsRecorded, NEW m \in Signals \cup Links \cup Ignored, Publish(m)
    PROVE  /\ \A i \in Ids : i \in Ids' /\ sent'[i] = sent[i]
           /\ \A r \in Recorded : r.msg \in Ids /\ sent'[r.msg] = sent[r.msg]
           /\ \A r \in Recorded : \A f : Tells(r, f)' <=> Tells(r, f)
<1>1. /\ \A i \in Ids : sent'[i] = sent[i]
      /\ sent' \in Seq(Signals \cup Links \cup Ignored) /\ Len(sent') = Len(sent) + 1
  BY DEF Publish, TypeOK, Ids
<1>2. \A i \in Ids : i \in Ids'
  BY <1>1 DEF Ids, TypeOK
<1>3. \A r \in Recorded : r.msg \in Ids
  BY DEF ReceivedIsRecorded
<1> QED
  BY <1>1, <1>2, <1>3 DEF Tells

LEMMA ReceivedNext == TypeOK /\ ReceivedIsRecorded /\ [Next]_vars => ReceivedIsRecorded'
<1> SUFFICES ASSUME TypeOK, ReceivedIsRecorded, [Next]_vars PROVE ReceivedIsRecorded'
  OBVIOUS
<1> USE DEF brokerVars, workerVars, dbVars
<1>1. clock \in Nat /\ \A r \in Recorded : r \in Records
  BY DEF TypeOK, Recorded
<1>2. recording' = recording => Recorded' = Recorded
  BY DEF Recorded
<1>3. ASSUME NEW m \in Signals \cup Links \cup Ignored, Publish(m),
             clock' \in Nat, clock <= clock'
      PROVE  ReceivedIsRecorded'
  <2>1. Recorded' = Recorded /\ InHand' = InHand /\ \A i \in Ids : i \in Ids'
    BY <1>2, <1>3, TellsKept DEF Publish, InHand
  <2>2. \A r \in Recorded : r.msg \in Ids' /\ r.ts <= clock'
    BY <1>1, <1>3, <2>1 DEF ReceivedIsRecorded, Records
  <2> QED
    BY <1>3, <2>1, <2>2 DEF Publish, ReceivedIsRecorded
<1>4. CASE SendSignal \/ SendIgnored
  BY <1>1, <1>3, <1>4 DEF SendSignal, SendIgnored
<1>5. CASE SendConnectivity
  <2>1. /\ [kind |-> "connectivity", connected |-> ~LinkUp, created |-> clock + 1] \in Links
        /\ clock' \in Nat /\ clock <= clock'
    BY <1>5 DEF SendConnectivity, TypeOK, Links
  <2> QED
    BY <1>3, <1>5, <2>1 DEF SendConnectivity
<1>6. CASE Receive
  <2> PICK i \in Undelivered : /\ cur' = i
                               /\ recording' = Append(recording, [ts |-> clock + 1, msg |-> i])
    BY <1>6 DEF Receive
  <2> DEFINE new == [ts |-> clock + 1, msg |-> i]
  <2>1. i \in Ids /\ new \in Records /\ recording \in Seq(Records)
    BY <1>1 DEF Undelivered, TypeOK, Ids, Records
  <2>2. Recorded' = Recorded \cup {new} /\ new.ts = clock + 1 /\ new.msg = i
    BY <2>1, RecordedAppended
  <2>3. Ids' = Ids /\ clock' = clock + 1 /\ pc' = "received" /\ InHand' = new
        /\ committed' = committed
    BY <1>6 DEF Receive, Ids, InHand
  <2>4. \A r \in Recorded : r.ts \in Nat /\ r.ts <= clock /\ r.msg \in Ids
    BY <1>1 DEF ReceivedIsRecorded, Records
  <2>5. \A q, r \in Recorded' : q.ts = r.ts => q = r
    <3>1. \A q \in Recorded : q.ts # new.ts
      BY <1>1, <2>2, <2>4
    <3> QED
      BY <2>2, <3>1 DEF ReceivedIsRecorded
  <2>6. \A r \in Recorded' : r.msg \in Ids' /\ r.ts <= clock'
    BY <1>1, <2>1, <2>2, <2>3, <2>4
  <2>7. rcvd' = clock' /\ \A c \in committed : c.ts < clock'
    BY <1>1, <1>6, <2>3, <2>4 DEF Receive, ReceivedIsRecorded
  <2> QED
    BY <2>2, <2>3, <2>5, <2>6, <2>7 DEF ReceivedIsRecorded
<1>7. ASSUME pc = "received", CommitDelivery, UNCHANGED <<sent, recording, clock>>,
             \/ pc' = "done" /\ UNCHANGED <<cur, rcvd>>
             \/ pc' = "idle"
      PROVE  ReceivedIsRecorded'
  <2>1. Recorded' = Recorded /\ Ids' = Ids /\ committed' = committed \cup {InHand}
        /\ InHand \in Recorded
    BY <1>2, <1>7 DEF Ids, CommitDelivery, InHand, ReceivedIsRecorded
  <2>2. pc' = "done" => InHand' = InHand
    BY <1>7 DEF InHand
  <2> QED
    BY <1>7, <2>1, <2>2 DEF ReceivedIsRecorded
<1>8. CASE Handle \/ HandleIgnored \/ CommitUnknown
  BY <1>7, <1>8 DEF Handle, HandleIgnored, CommitUnknown, Transaction, StoreSignal, CountRepeat,
                    StoreConnectivity
<1>9. CASE Ack \/ HandleFails \/ RecorderFails \/ Crash \/ Drop \/ UNCHANGED vars
  <2>1. UNCHANGED <<sent, recording, committed, clock>>
    BY <1>9 DEF Ack, HandleFails, RecorderFails, Crash, Drop, vars
  <2>2. pc' = "idle" \/ UNCHANGED <<pc, cur, rcvd>>
    BY <1>9 DEF Ack, HandleFails, RecorderFails, Crash, Drop, vars
  <2>3. Recorded' = Recorded /\ Ids' = Ids
    BY <1>2, <2>1 DEF Ids
  <2> QED
    BY <2>1, <2>2, <2>3 DEF ReceivedIsRecorded, InHand
<1> QED
  BY <1>4, <1>5, <1>6, <1>8, <1>9 DEF Next

LEMMA RowsNext ==
    TypeOK /\ ReceivedIsRecorded /\ RowsAreRecorded /\ [Next]_vars => RowsAreRecorded'
<1> SUFFICES ASSUME TypeOK, ReceivedIsRecorded, RowsAreRecorded, [Next]_vars
             PROVE  RowsAreRecorded'
  OBVIOUS
<1> USE DEF brokerVars, workerVars, dbVars
<1>1. recording' = recording => Recorded' = Recorded
  BY DEF Recorded
<1>2. ASSUME NEW m \in Signals \cup Links \cup Ignored, Publish(m) PROVE RowsAreRecorded'
  <2>1. Recorded' = Recorded /\ events' = events
    BY <1>1, <1>2 DEF Publish
  <2>2. \A r \in Recorded : \A f : (Tells(r, f)' <=> Tells(r, f)) /\ sent'[r.msg] = sent[r.msg]
    BY <1>2, TellsKept
  <2> QED
    BY <2>1, <2>2 DEF RowsAreRecorded
<1>3. CASE SendSignal \/ SendIgnored
  BY <1>2, <1>3 DEF SendSignal, SendIgnored
<1>4. CASE SendConnectivity
  <2>1. [kind |-> "connectivity", connected |-> ~LinkUp, created |-> clock + 1] \in Links
    BY DEF TypeOK, Links
  <2> QED
    BY <1>2, <1>4, <2>1 DEF SendConnectivity
<1>5. CASE Receive
  <2> PICK i \in Undelivered : recording' = Append(recording, [ts |-> clock + 1, msg |-> i])
    BY <1>5 DEF Receive
  <2>1. [ts |-> clock + 1, msg |-> i] \in Records /\ recording \in Seq(Records)
    BY DEF Undelivered, TypeOK, Ids, Records
  <2>2. Recorded \subseteq Recorded'
    BY <2>1, RecordedAppended
  <2> QED
    BY <1>5, <2>2 DEF Receive, RowsAreRecorded, Tells
<1>6. ASSUME pc = "received", Transaction(sent[cur]), UNCHANGED <<sent, recording>>
      PROVE  RowsAreRecorded'
  <2>1. cur \in Ids /\ rcvd \in Nat /\ InHand \in Recorded /\ InHand.ts = rcvd /\ InHand.msg = cur
    BY <1>6 DEF TypeOK, Ids, ReceivedIsRecorded, InHand
  <2>2. CASE StoreSignal(sent[cur])
    <3>1. sent[cur] \in Signals /\ sent[cur].kind = "signal"
      BY <2>1, <2>2, TypeKinds DEF StoreSignal
    <3>2. \A q \in events' : \/ q \in events
                             \/ /\ q.field = sent[cur].field /\ q.ts = rcvd
                                /\ q.value = sent[cur].value
      BY <2>1, <2>2, <3>1, InsertedHas DEF StoreSignal
    <3>3. Tells(InHand, sent[cur].field)
      BY <2>1, <3>1 DEF Tells
    <3>4. ASSUME NEW q \in events'
          PROVE  \E r \in Recorded :
                    r.ts = q.ts /\ Tells(r, q.field) /\ sent[r.msg].value = q.value
      BY <2>1, <3>2, <3>3 DEF RowsAreRecorded
    <3> QED
      BY <1>1, <1>6, <3>4 DEF RowsAreRecorded, Tells
  <2>3. CASE CountRepeat(sent[cur]) \/ StoreConnectivity(sent[cur])
    BY <1>1, <1>6, <2>3 DEF CountRepeat, StoreConnectivity, RowsAreRecorded, Tells
  <2> QED
    BY <1>6, <2>2, <2>3 DEF Transaction
<1>7. CASE Handle \/ CommitUnknown
  BY <1>6, <1>7 DEF Handle, CommitUnknown
<1>8. CASE HandleIgnored \/ Ack \/ HandleFails \/ RecorderFails \/ Crash \/ Drop \/ UNCHANGED vars
  <2>1. UNCHANGED <<sent, recording, events>>
    BY <1>8 DEF HandleIgnored, Ack, HandleFails, RecorderFails, Crash, Drop, vars
  <2> QED
    BY <1>1, <2>1 DEF RowsAreRecorded, Tells
<1> QED
  BY <1>3, <1>4, <1>5, <1>7, <1>8 DEF Next

\* The worker appends to the recording and takes nothing out of it, or of the tables.
LEMMA RecordingGrows ==
    ASSUME TypeOK, [Next]_vars
    PROVE  /\ Len(recording') >= Len(recording) /\ Len(recording) \in Nat /\ Len(recording') \in Nat
           /\ \A k \in DOMAIN recording : k \in DOMAIN recording' /\ recording'[k] = recording[k]
           /\ events \subseteq events' /\ connectivity \subseteq connectivity'
<1> USE DEF brokerVars, workerVars, dbVars
<1>1. recording \in Seq(Records) /\ Len(recording) \in Nat
  BY DEF TypeOK
<1>2. CASE recording' = recording
  <2>1. CASE Transaction(sent[cur])
    BY <1>1, <1>2, <2>1 DEF Transaction, StoreSignal, CountRepeat, StoreConnectivity, Inserted
  <2>2. CASE UNCHANGED <<events, connectivity>>
    BY <1>1, <1>2, <2>2
  <2>3. Transaction(sent[cur]) \/ UNCHANGED <<events, connectivity>>
    BY DEF Next, SendSignal, SendConnectivity, SendIgnored, Publish, Receive, Handle, HandleIgnored,
           Ack, HandleFails, CommitUnknown, RecorderFails, Crash, Drop, vars
  <2> QED
    BY <2>1, <2>2, <2>3
<1>3. CASE recording' # recording
  <2>1. Receive
    BY <1>3 DEF Next, SendSignal, SendConnectivity, SendIgnored, Publish, Handle, HandleIgnored,
                Ack, HandleFails, CommitUnknown, RecorderFails, Crash, Drop, vars
  <2> PICK i \in Undelivered : recording' = Append(recording, [ts |-> clock + 1, msg |-> i])
    BY <2>1 DEF Receive
  <2>2. [ts |-> clock + 1, msg |-> i] \in Records
    BY DEF Undelivered, TypeOK, Ids, Records
  <2> QED
    BY <1>1, <2>1, <2>2, RecordedAppended DEF Receive
<1> QED
  BY <1>2, <1>3

\* A step of the replay moves through the recording and leaves worker and broker alone.
LEMMA ReplayStepTypes ==
    ASSUME BInv, ReplayStart \/ ReplayRecord \/ ReplayDone \/ ReplayAborts
    PROVE  /\ ReplayTypeOK' /\ events \subseteq events' /\ connectivity \subseteq connectivity'
           /\ UNCHANGED <<brokerVars, workerVars, committed, doubted, recording, clock, faults>>
<1> USE DEF dbVars, brokerVars, workerVars, BInv
<1>1. UNCHANGED <<brokerVars, workerVars, committed, doubted, recording, clock, faults>>
  BY DEF ReplayStart, ReplayRecord, ReplayDone, ReplayAborts, vars
<1>2. Len(recording) \in Nat /\ rlen \in Nat /\ rlen <= Len(recording) /\ replayed \in Nat
      /\ replayed <= Len(recording) /\ rpos \in Nat /\ rpos <= rlen + 1 /\ replays \in Nat
      /\ (recording # <<>> => Len(recording) >= 1)
  BY DEF ReplayTypeOK, TypeOK
<1>3. [f \in Fields |-> NoValue] \in [Fields -> Values \cup {NoValue}]
  OBVIOUS
<1>4. CASE ReplayStart \/ ReplayDone \/ ReplayAborts
  <2>1. TypeOK' /\ UNCHANGED <<events, connectivity>>
    BY <1>4 DEF ReplayStart, ReplayDone, ReplayAborts, vars, ReplayTypeOK, TypeOK, Ids
  <2>2. CASE ReplayStart
    BY <1>2, <1>3, <2>1, <2>2 DEF ReplayStart, ReplayTypeOK, vars
  <2>3. CASE ReplayDone
    BY <1>2, <1>3, <2>1, <2>3 DEF ReplayDone, ReplayExits, ReplayTypeOK, vars
  <2>4. CASE ReplayAborts
    BY <1>2, <1>3, <2>1, <2>4 DEF ReplayAborts, ReplayExits, ReplayTypeOK, vars
  <2> QED
    BY <1>1, <1>4, <2>1, <2>2, <2>3, <2>4
<1>5. CASE ReplayRecord
  <2> DEFINE r == recording[rpos]
             m == sent[r.msg]
  <2>1. /\ r \in Recorded /\ r.ts \in Nat
        /\ \/ m.kind = "signal" /\ m \in Signals
              /\ \/ Repeats(rmem, m) /\ events' = events
                 \/ ~Repeats(rmem, m) /\ events' = Inserted(events, m, r.ts)
              /\ rmem' = [rmem EXCEPT ![m.field] = m.value]
              /\ usage' = [usage EXCEPT ![m.field] = @ + 1]
              /\ connectivity' = connectivity
           \/ /\ m.kind = "connectivity" /\ m \in Links /\ UNCHANGED <<events, usage, rmem>>
              /\ connectivity' = connectivity \cup
                                 {[ts |-> m.created, connected |-> m.connected]}
           \/ m.kind = "ignored" /\ UNCHANGED <<events, usage, rmem, connectivity>>
    BY <1>5, ReplayTransaction DEF Records
  <2>2. events \subseteq events' /\ events' \in SUBSET Rows
    <3>1. events \in SUBSET Rows /\ r.ts \in Nat
      BY <2>1 DEF ReplayTypeOK, TypeOK
    <3>2. \/ events' = events
          \/ m \in Signals /\ events' = Inserted(events, m, r.ts)
      BY <2>1
    <3> HIDE DEF r, m
    <3> QED
      BY <3>1, <3>2, InsertedHas
  <2>3. connectivity \subseteq connectivity' /\ connectivity' \in SUBSET LinkRows
    <3>1. connectivity \in SUBSET LinkRows
      BY DEF ReplayTypeOK, TypeOK
    <3>2. CASE m.kind = "connectivity"
      <4>1. [ts |-> m.created, connected |-> m.connected] \in LinkRows
        BY <2>1, <3>2 DEF Links, LinkRows
      <4>2. connectivity' = connectivity \cup {[ts |-> m.created, connected |-> m.connected]}
        BY <2>1, <3>2
      <4> QED
        BY <3>1, <4>1, <4>2
    <3>3. CASE m.kind # "connectivity"
      BY <2>1, <3>1, <3>3
    <3> QED
      BY <3>2, <3>3
  <2>4. usage' \in [Fields -> Nat] /\ rmem' \in [Fields -> Values \cup {NoValue}]
    <3>1. usage \in [Fields -> Nat] /\ rmem \in [Fields -> Values \cup {NoValue}]
      BY DEF ReplayTypeOK, TypeOK
    <3>2. CASE m.kind = "signal"
      <4>1. m.field \in Fields /\ m.value \in Values
        BY <2>1, <3>2 DEF Signals
      <4>2. rmem' = [rmem EXCEPT ![m.field] = m.value]
            /\ usage' = [usage EXCEPT ![m.field] = @ + 1]
        BY <2>1, <3>2
      <4> HIDE DEF m
      <4> QED
        BY <3>1, <4>1, <4>2
    <3>3. CASE m.kind # "signal"
      BY <2>1, <3>1, <3>3
    <3> QED
      BY <3>2, <3>3
  <2>5. TypeOK'
    BY <1>1, <2>2, <2>3, <2>4 DEF ReplayTypeOK, TypeOK, Ids
  <2>6. rpos' \in 0..(rlen + 1) /\ UNCHANGED <<rlen, replayed, replays>>
    BY <1>2, <1>5 DEF ReplayRecord
  <2> QED
    BY <1>1, <2>2, <2>3, <2>4, <2>5, <2>6 DEF ReplayTypeOK
<1> QED
  BY <1>4, <1>5

\* What it stores is recorded.
LEMMA BaseNext == BInv /\ [ReplayNext]_allVars => BInv'
<1> SUFFICES ASSUME BInv, [ReplayNext]_allVars PROVE BInv'
  OBVIOUS
<1> USE DEF BInv
<1>1. CASE Worker
  <2>1. TypeOK' /\ ReceivedIsRecorded' /\ RowsAreRecorded'
    BY <1>1, TypesNext, ReceivedNext, RowsNext DEF Worker, ReplayTypeOK
  <2>2. /\ Len(recording') >= Len(recording) /\ Len(recording) \in Nat
        /\ Len(recording') \in Nat
    BY <1>1, RecordingGrows DEF Worker, ReplayTypeOK
  <2> QED
    BY <1>1, <2>1, <2>2 DEF Worker, replayVars, ReplayTypeOK
<1>2. CASE ReplayStart \/ ReplayRecord \/ ReplayDone \/ ReplayAborts
  <2>1. /\ ReplayTypeOK'
        /\ UNCHANGED <<brokerVars, workerVars, committed, doubted, recording, clock, faults>>
    BY <1>2, ReplayStepTypes
  <2>2. Recorded' = Recorded /\ ReceivedIsRecorded'
    BY <2>1 DEF ReceivedIsRecorded, Recorded, InHand, Ids, brokerVars, workerVars
  <2>3. \A r, f : Tells(r, f)' <=> Tells(r, f)
    BY <2>1 DEF Tells, brokerVars
  <2>4. CASE events' = events
    BY <2>1, <2>2, <2>3, <2>4 DEF RowsAreRecorded, brokerVars
  <2>5. CASE events' # events
    <3> DEFINE r == recording[rpos]
               m == sent[r.msg]
    <3>1. ReplayRecord
      BY <1>2, <2>5 DEF ReplayStart, ReplayDone, ReplayAborts, vars, dbVars
    <3>2. /\ r \in Recorded /\ r.ts \in Nat /\ m \in Signals /\ m.kind = "signal"
          /\ events' = Inserted(events, m, r.ts)
      BY <2>5, <3>1, ReplayTransaction DEF Records
    <3>3. \A q \in events' : \/ q \in events
                             \/ q.field = m.field /\ q.ts = r.ts /\ q.value = m.value
      BY <3>2, InsertedHas
    <3>4. Tells(r, m.field)
      BY <3>2 DEF Tells
    <3>5. ASSUME NEW q \in events'
          PROVE  \E p \in Recorded :
                    p.ts = q.ts /\ Tells(p, q.field) /\ sent[p.msg].value = q.value
      BY <3>2, <3>3, <3>4 DEF RowsAreRecorded
    <3> QED
      BY <2>1, <2>2, <2>3, <3>5 DEF RowsAreRecorded, brokerVars
  <2> QED
    BY <2>1, <2>2, <2>4, <2>5
<1>3. CASE UNCHANGED allVars
  BY <1>3 DEF allVars, vars, brokerVars, workerVars, dbVars, replayVars, ReplayTypeOK, TypeOK, Ids,
              ReceivedIsRecorded, RowsAreRecorded, Recorded, InHand, Tells
<1> QED
  BY <1>1, <1>2, <1>3 DEF ReplayNext

\* The recording, and the rows that come out of it.
THEOREM ReplayBase == ReplaySpec => []BInv
BY BaseInit, BaseNext, PTL DEF ReplaySpec

-----------------------------------------------------------------------------
(* The history.                                                            *)

LEMMA HistoryInit == ReplayInit => HInv
BY InitInv DEF ReplayInit, Init, HInv, LostIsHidden, MemoryIsNewest, IInv

\* A new message changes nothing.
LEMMA HistoryPublish ==
    ASSUME BInv, HInv, NEW m \in Signals \cup Links \cup Ignored, Publish(m)
    PROVE  HInv'
<1>1. /\ Recorded' = Recorded /\ committed \subseteq Recorded /\ InHand' = InHand
      /\ UNCHANGED <<events, committed, doubted, lastValue, pc>>
  BY DEF Publish, Recorded, InHand, BInv, ReceivedIsRecorded, workerVars, dbVars
<1>2. \A r \in Recorded : \A f : (Tells(r, f)' <=> Tells(r, f)) /\ sent'[r.msg] = sent[r.msg]
  BY TellsKept DEF BInv, ReplayTypeOK
<1>3. LostIsHidden'
  BY <1>1, <1>2 DEF HInv, LostIsHidden
<1>4. MemoryIsNewest'
  BY <1>1, <1>2 DEF HInv, MemoryIsNewest
<1>5. CommittedIsShown'
  BY <1>1, <1>2 DEF HInv, CommittedIsShown
<1> QED
  BY <1>3, <1>4, <1>5 DEF HInv

\* Nor does what stores nothing and takes nothing from the worker's hands but with
\* its memory.
LEMMA HistoryQuiet ==
    ASSUME BInv, HInv, UNCHANGED <<sent, events, committed, recording>>, doubted' = doubted,
           pc' # "received",
           \/ pc # "received" /\ lastValue' = lastValue
           \/ lastValue' = [f \in Fields |-> NoValue]
    PROVE  HInv'
<1>1. Recorded' = Recorded
  BY DEF Recorded
<1>2. LostIsHidden' /\ CommittedIsShown'
  BY <1>1 DEF HInv, LostIsHidden, CommittedIsShown, Tells
<1>3. MemoryIsNewest'
  BY <1>1 DEF HInv, MemoryIsNewest, Tells
<1> QED
  BY <1>2, <1>3 DEF HInv

LEMMA HistoryReceive == ASSUME BInv, HInv, Receive PROVE HInv'
<1> PICK i \in Undelivered : /\ cur' = i
                             /\ recording' = Append(recording, [ts |-> clock + 1, msg |-> i])
  BY DEF Receive
<1> DEFINE new == [ts |-> clock + 1, msg |-> i]
<1>1. UNCHANGED <<sent, events, committed, doubted, lastValue>> /\ pc' = "received" /\ pc = "idle"
      /\ InHand' = new
  BY DEF Receive, dbVars, InHand
<1>2. new \in Records /\ recording \in Seq(Records) /\ clock \in Nat
  BY DEF Undelivered, BInv, ReplayTypeOK, TypeOK, Ids, Records
<1>3. Recorded' = Recorded \cup {new} /\ new.ts = clock + 1
  BY <1>2, RecordedAppended
<1>4. \A c \in committed : c.ts \in Nat /\ c.ts <= clock
  BY DEF BInv, ReplayTypeOK, TypeOK, Records, ReceivedIsRecorded
<1>5. LostIsHidden'
  <2> SUFFICES ASSUME NEW f \in Fields \ doubted, NEW r \in Recorded' \ committed,
                      NEW c \in committed, Tells(r, f), Tells(c, f), r.ts < c.ts
               PROVE  \E q \in events : q.field = f /\ r.ts < q.ts /\ q.ts <= c.ts
    BY <1>1 DEF LostIsHidden, Tells
  <2>1. r \in Recorded
    BY <1>2, <1>3, <1>4
  <2> QED
    BY <2>1 DEF HInv, LostIsHidden
<1>6. MemoryIsNewest'
  <2> SUFFICES ASSUME NEW f \in Fields \ doubted, lastValue[f] # NoValue
               PROVE  \E c \in committed :
                         /\ Tells(c, f) /\ sent[c.msg].value = lastValue[f]
                         /\ \A r \in Recorded' : Tells(r, f) => r.ts <= c.ts \/ r = new
    BY <1>1 DEF MemoryIsNewest, Tells
  <2> QED
    BY <1>1, <1>3 DEF HInv, MemoryIsNewest
<1>7. CommittedIsShown'
  BY <1>1 DEF HInv, CommittedIsShown
<1> QED
  BY <1>5, <1>6, <1>7 DEF HInv

\* A commit: what it stores hides what was lost before, and shows its signal.
LEMMA HistoryCommit ==
    ASSUME BInv, HInv, pc = "received", CommitDelivery, UNCHANGED <<sent, recording>>,
           doubted \subseteq doubted',
           LET m == sent[cur] IN
               \/ m.kind # "signal" /\ events' = events
               \/ m.kind = "signal" /\ Repeats(lastValue, m) /\ events' = events
               \/ m.kind = "signal" /\ events' = Inserted(events, m, rcvd)
    PROVE  LostIsHidden' /\ CommittedIsShown'
<1> DEFINE m == sent[cur]
<1>1. cur \in Ids /\ rcvd \in Nat /\ InHand.ts = rcvd /\ InHand.msg = cur
  BY DEF BInv, ReplayTypeOK, TypeOK, Ids, InHand
<1>2. /\ committed' = committed \cup {InHand} /\ Recorded' = Recorded /\ InHand \in Recorded
      /\ committed \subseteq Recorded
      /\ \A r, q \in Recorded : r.ts = q.ts => r = q
      /\ \A r \in Recorded : r.ts <= rcvd /\ r.ts \in Nat
      /\ \A c \in committed : c.ts < rcvd
  <2>1. committed' = committed \cup {InHand} /\ Recorded' = Recorded
    BY DEF CommitDelivery, InHand, Recorded
  <2>2. \A r \in Recorded : r \in Records
    BY DEF Recorded, BInv, ReplayTypeOK, TypeOK
  <2> QED
    BY <2>1, <2>2 DEF BInv, ReceivedIsRecorded, Records
<1>3. m.kind = "signal" => m \in Signals /\ Tells(InHand, m.field)
  BY <1>1, TypeKinds DEF BInv, ReplayTypeOK, Tells
<1>4. events \in SUBSET Rows
  BY DEF BInv, ReplayTypeOK, TypeOK
<1>5. \A q \in events : \E r \in Recorded :
         r.ts = q.ts /\ Tells(r, q.field) /\ sent[r.msg].value = q.value
  BY DEF BInv, RowsAreRecorded
<1>6. events \subseteq events'
  BY <1>1, <1>3, InsertedHas
\* A row under the instant in hand is of the message in hand.
<1>7. ASSUME NEW q \in events, q.ts = rcvd, q.field = m.field, m.kind = "signal"
      PROVE  q.value = m.value
  BY <1>1, <1>2, <1>5, <1>7
<1>8. LostIsHidden'
  <2> SUFFICES ASSUME NEW f \in Fields \ doubted, NEW r \in Recorded \ committed,
                      r # InHand, NEW c \in committed \cup {InHand},
                      Tells(r, f), Tells(c, f), r.ts < c.ts
               PROVE  \E q \in events' : q.field = f /\ r.ts < q.ts /\ q.ts <= c.ts
    BY <1>2 DEF LostIsHidden, Tells
  <2>1. CASE c \in committed
    BY <1>6, <2>1 DEF HInv, LostIsHidden
  <2>2. CASE c = InHand /\ events' = Inserted(events, m, rcvd)
    <3>1. m \in Signals /\ m.field = f
      BY <1>1, <1>3, <2>2 DEF Tells
    <3>2. PICK q \in events' : q.field = f /\ q.ts = rcvd
      BY <1>1, <2>2, <3>1, InsertedHas
    <3> QED
      BY <1>1, <2>2, <3>2
  <2>3. CASE c = InHand /\ Repeats(lastValue, m)
    <3>1. m \in Signals /\ m.field = f /\ lastValue[f] # NoValue
      BY <1>1, <1>3, <2>3, NoValueAssumption DEF Tells, Repeats, Signals
    <3>2. PICK d \in committed :
             Tells(d, f) /\ \A p \in Recorded : Tells(p, f) => p.ts <= d.ts \/ p = InHand
      BY <3>1 DEF HInv, MemoryIsNewest
    <3>3. r.ts \in Nat /\ d.ts \in Nat /\ r.ts <= d.ts /\ d \in Recorded /\ r # d /\ d.ts < rcvd
      BY <1>2, <3>2
    <3>4. r.ts < d.ts
      BY <1>2, <3>3
    <3>5. PICK q \in events : q.field = f /\ r.ts < q.ts /\ q.ts <= d.ts
      BY <3>2, <3>4 DEF HInv, LostIsHidden
    <3>6. q.ts \in Nat /\ q.ts <= c.ts
      BY <1>1, <1>4, <2>3, <3>3, <3>5 DEF Rows
    <3> QED
      BY <1>6, <3>5, <3>6
  <2>4. c = InHand => m.kind = "signal"
    BY <1>1 DEF Tells
  <2> QED
    BY <2>1, <2>2, <2>3, <2>4
<1>9. CommittedIsShown'
  <2> SUFFICES ASSUME NEW c \in committed \cup {InHand}, sent[c.msg].kind = "signal",
                      sent[c.msg].field \notin doubted
               PROVE  Shows(events', sent[c.msg].field, c.ts, sent[c.msg].value)
    BY <1>2 DEF CommittedIsShown
  <2>1. CASE c \in committed
    <3>1. Shows(events, sent[c.msg].field, c.ts, sent[c.msg].value)
      BY <2>1 DEF HInv, CommittedIsShown
    <3>2. c.ts \in Nat /\ c.ts < rcvd
      BY <1>2, <2>1
    <3> QED
      BY <1>1, <1>3, <1>4, <3>1, <3>2, InsertedLater
  <2>2. CASE c = InHand /\ events' = Inserted(events, m, rcvd)
    <3>1. m \in Signals
      BY <1>1, <1>3, <2>2
    <3>2. PICK q \in events' : q.field = m.field /\ q.ts = rcvd
      BY <1>1, <2>2, <3>1, InsertedHas
    <3>3. q \in events \/ q.value = m.value
      BY <1>1, <2>2, <3>1, InsertedHas
    <3>4. q.value = m.value
      BY <1>1, <1>7, <2>2, <3>2, <3>3
    <3> QED
      BY <1>1, <2>2, <3>2, <3>4 DEF Shows
  <2>3. CASE c = InHand /\ Repeats(lastValue, m) /\ events' = events
    <3> DEFINE f == m.field
    <3>1. m \in Signals /\ f \in Fields \ doubted /\ lastValue[f] = m.value /\ lastValue[f] # NoValue
      BY <1>1, <1>3, <2>3, NoValueAssumption DEF Repeats, Signals
    <3>2. PICK d \in committed :
             /\ Tells(d, f) /\ sent[d.msg].value = m.value
             /\ \A p \in Recorded : Tells(p, f) => p.ts <= d.ts \/ p = InHand
      BY <3>1 DEF HInv, MemoryIsNewest
    <3>3. Shows(events, f, d.ts, m.value)
      BY <3>1, <3>2 DEF HInv, CommittedIsShown, Tells
    <3>4. PICK q \in events : /\ q.field = f /\ q.value = m.value /\ q.ts <= d.ts
                              /\ \A p \in events : p.field = f /\ p.ts <= d.ts => p.ts <= q.ts
      BY <3>3 DEF Shows
    <3>5. d.ts \in Nat /\ q.ts \in Nat /\ d.ts < rcvd /\ q.ts <= rcvd
      BY <1>1, <1>2, <1>4, <3>2, <3>4 DEF Rows
    <3>6. CASE \E p \in events : p.field = f /\ p.ts = rcvd
      <4> PICK p \in events : p.field = f /\ p.ts = rcvd
        BY <3>6
      <4>1. p.value = m.value
        BY <1>1, <1>7, <2>3
      <4> QED
        BY <1>1, <2>3, <4>1 DEF Shows
    <3>7. CASE \A p \in events : p.field = f => p.ts # rcvd
      <4>1. ASSUME NEW p \in events, p.field = f PROVE p.ts <= d.ts
        BY <1>1, <1>5, <3>2, <3>7, <4>1
      <4>2. \A p \in events : p.field = f => p.ts <= q.ts
        BY <3>4, <4>1
      <4> QED
        BY <1>1, <2>3, <3>4, <3>5, <4>2 DEF Shows
    <3> QED
      BY <3>6, <3>7
  <2> QED
    BY <1>1, <2>1, <2>2, <2>3
<1> QED
  BY <1>8, <1>9

\* A replayed record puts back a row where the worker stored none: under an instant
\* at which the field showed the same value, or one that a later row hides.
LEMMA HistoryReplayed == ASSUME BInv, HInv, ReplayRecord PROVE HInv'
<1> DEFINE r == recording[rpos]
           m == sent[r.msg]
<1>1. UNCHANGED <<sent, pc, cur, rcvd, lastValue, committed, doubted, recording>>
      /\ Recorded' = Recorded /\ InHand' = InHand
  BY DEF ReplayRecord, brokerVars, workerVars, Recorded, InHand
<1>2. /\ r \in Recorded /\ r.ts \in Nat
      /\ events' = events \/ (m \in Signals /\ m.kind = "signal" /\ events' = Inserted(events, m, r.ts))
  BY ReplayTransaction DEF BInv, Records
<1>3. events \subseteq events'
  BY <1>2, InsertedHas
<1>4. LostIsHidden' /\ MemoryIsNewest'
  BY <1>1, <1>3 DEF HInv, LostIsHidden, MemoryIsNewest, Tells
<1>5. CommittedIsShown'
  <2> SUFFICES ASSUME NEW c \in committed, sent[c.msg].kind = "signal",
                      sent[c.msg].field \notin doubted
               PROVE  Shows(events', sent[c.msg].field, c.ts, sent[c.msg].value)
    BY <1>1 DEF CommittedIsShown
  <2> DEFINE f == sent[c.msg].field
             v == sent[c.msg].value
  <2>1. Shows(events, f, c.ts, v)
    BY DEF HInv, CommittedIsShown
  <2>2. PICK q \in events : /\ q.field = f /\ q.value = v /\ q.ts <= c.ts
                            /\ \A p \in events : p.field = f /\ p.ts <= c.ts => p.ts <= q.ts
    BY <2>1 DEF Shows
  <2>3. q.ts \in Nat /\ c.ts \in Nat /\ c \in Recorded /\ c.msg \in Ids
    BY DEF BInv, ReplayTypeOK, TypeOK, Rows, Records, ReceivedIsRecorded
  <2>4. f \in Fields /\ Tells(c, f)
    BY <2>3, TypeKinds DEF BInv, ReplayTypeOK, Tells, Signals
  <2>5. CASE events' = events
    BY <2>1, <2>5
  <2>6. CASE m \in Signals /\ m.kind = "signal" /\ events' = Inserted(events, m, r.ts)
    <3>1. \A p \in events' : p \in events \/ (p.field = m.field /\ p.ts = r.ts /\ p.value = m.value)
      BY <1>2, <2>6, InsertedHas
    <3>2. CASE m.field # f \/ c.ts < r.ts \/ r.ts <= q.ts
      <4>1. \A p \in events' : p.field = f /\ p.ts <= c.ts => p.ts <= q.ts
        BY <1>2, <2>2, <2>3, <3>1, <3>2
      <4> QED
        BY <1>3, <2>2, <4>1 DEF Shows
    <3>3. CASE m.field = f /\ r.ts <= c.ts /\ q.ts < r.ts
      <4>1. Tells(r, f)
        BY <2>6, <3>3 DEF Tells
      <4>2. r \in committed
        <5> SUFFICES ASSUME r \notin committed PROVE FALSE
          OBVIOUS
        <5>1. r # c /\ r.ts # c.ts
          BY <1>2, <2>3 DEF BInv, ReceivedIsRecorded
        <5>2. r.ts < c.ts
          BY <1>2, <2>3, <3>3, <5>1
        <5>3. PICK p \in events : p.field = f /\ r.ts < p.ts /\ p.ts <= c.ts
          BY <1>2, <2>4, <4>1, <5>2 DEF HInv, LostIsHidden
        <5>4. p.ts \in Nat /\ p.ts <= q.ts
          BY <2>2, <5>3 DEF BInv, ReplayTypeOK, TypeOK, Rows
        <5> QED
          BY <1>2, <2>3, <3>3, <5>3, <5>4
      <4>3. Shows(events, f, r.ts, m.value)
        BY <2>6, <3>3, <4>2 DEF HInv, CommittedIsShown
      <4>4. PICK p \in events : /\ p.field = f /\ p.value = m.value /\ p.ts <= r.ts
                                /\ \A o \in events : o.field = f /\ o.ts <= r.ts => o.ts <= p.ts
        BY <4>3 DEF Shows
      <4>5. p.ts = q.ts
        <5>1. p.ts \in Nat
          BY DEF BInv, ReplayTypeOK, TypeOK, Rows
        <5>2. p.ts <= c.ts /\ p.ts <= q.ts
          BY <1>2, <2>2, <2>3, <3>3, <4>4, <5>1
        <5>3. q.ts <= p.ts
          BY <1>2, <2>2, <2>3, <3>3, <4>4
        <5> QED
          BY <2>3, <5>1, <5>2, <5>3
      <4>6. p.value = q.value
        <5>1. PICK a \in Recorded :
                 a.ts = p.ts /\ Tells(a, p.field) /\ sent[a.msg].value = p.value
          BY DEF BInv, RowsAreRecorded
        <5>2. PICK b \in Recorded :
                 b.ts = q.ts /\ Tells(b, q.field) /\ sent[b.msg].value = q.value
          BY DEF BInv, RowsAreRecorded
        <5>3. a = b
          BY <4>5, <5>1, <5>2 DEF BInv, ReceivedIsRecorded
        <5> QED
          BY <5>1, <5>2, <5>3
      <4>7. m.value = v
        BY <2>2, <4>4, <4>6
      <4>8. PICK o \in events' : o.field = f /\ o.ts = r.ts
        BY <1>2, <2>6, <3>3, InsertedHas
      <4>9. o \notin events
        <5> SUFFICES ASSUME o \in events PROVE FALSE
          OBVIOUS
        <5>1. o.ts <= q.ts
          BY <2>2, <3>3, <4>8
        <5> QED
          BY <1>2, <2>3, <3>3, <4>8, <5>1
      <4>10. o.value = v
        BY <3>1, <4>7, <4>8, <4>9
      <4>11. \A p2 \in events' : p2.field = f /\ p2.ts <= c.ts => p2.ts <= o.ts
        <5> SUFFICES ASSUME NEW p2 \in events', p2.field = f, p2.ts <= c.ts
                     PROVE  p2.ts <= o.ts
          OBVIOUS
        <5>1. CASE p2 \in events
          <6>1. p2.ts \in Nat /\ p2.ts <= q.ts
            BY <2>2, <5>1 DEF BInv, ReplayTypeOK, TypeOK, Rows
          <6> QED
            BY <1>2, <2>3, <3>3, <4>8, <6>1
        <5>2. CASE p2.ts = r.ts
          BY <1>2, <4>8, <5>2
        <5> QED
          BY <3>1, <5>1, <5>2
      <4> QED
        BY <3>3, <4>8, <4>10, <4>11 DEF Shows
    <3> QED
      BY <1>2, <2>3, <3>2, <3>3
  <2> QED
    BY <1>2, <2>5, <2>6
<1> QED
  BY <1>4, <1>5 DEF HInv

\* The worker's steps and the replay's keep the history.
LEMMA HistoryNext ==
    ASSUME "db" \notin Faults, BInv, HInv, [ReplayNext]_allVars
    PROVE  HInv'
<1> USE DEF brokerVars, workerVars, dbVars
<1>1. CASE Worker
  <2>0. /\ (pc # "idle" => cur \in Ids)
        /\ (cur \in Ids => (sent[cur].kind = "signal" => sent[cur] \in Signals)
                           /\ (sent[cur] \in Signals => sent[cur].kind = "signal"))
    BY TypeKinds DEF BInv, ReplayTypeOK, TypeOK, Ids, Signals
  <2>1. CASE SendSignal \/ SendIgnored
    BY <2>1, HistoryPublish DEF SendSignal, SendIgnored
  <2>2. CASE SendConnectivity
    <3>1. [kind |-> "connectivity", connected |-> ~LinkUp, created |-> clock + 1] \in Links
      BY DEF BInv, ReplayTypeOK, TypeOK, Links
    <3> QED
      BY <2>2, <3>1, HistoryPublish DEF SendConnectivity
  <2>3. CASE Receive
    BY <2>3, HistoryReceive
  <2>4. CASE Handle \/ CommitUnknown
    <3>1. /\ pc = "received" /\ CommitDelivery /\ UNCHANGED <<sent, recording>>
          /\ doubted \subseteq doubted'
      BY <2>4 DEF Handle, CommitUnknown, Transaction, StoreSignal, CountRepeat, StoreConnectivity
    <3>2. \/ sent[cur].kind # "signal" /\ events' = events
          \/ sent[cur].kind = "signal" /\ Repeats(lastValue, sent[cur]) /\ events' = events
          \/ sent[cur].kind = "signal" /\ events' = Inserted(events, sent[cur], rcvd)
      BY <2>4 DEF Handle, CommitUnknown, Transaction, StoreSignal, CountRepeat, StoreConnectivity
    <3>3. LostIsHidden' /\ CommittedIsShown'
      BY <3>1, <3>2, HistoryCommit
    <3>4. /\ Recorded' = Recorded /\ committed' = committed \cup {InHand} /\ InHand.ts = rcvd
          /\ InHand.msg = cur /\ InHand \in Recorded /\ \A r \in Recorded : r.ts <= rcvd
      BY <3>1 DEF Recorded, CommitDelivery, InHand, BInv, ReceivedIsRecorded
    <3>5. MemoryIsNewest'
      <4> SUFFICES ASSUME NEW f \in Fields \ doubted', lastValue'[f] # NoValue
                   PROVE  \E c \in committed' :
                             /\ Tells(c, f) /\ sent[c.msg].value = lastValue'[f]
                             /\ \A r \in Recorded : Tells(r, f) => r.ts <= c.ts
        BY <3>1, <3>4 DEF MemoryIsNewest, Tells
      <4>1. CASE Tells(InHand, f)
        <5>1. sent[cur] \in Signals /\ sent[cur].field = f /\ sent[cur].kind = "signal"
          BY <2>0, <3>1, <3>4, <4>1 DEF Tells
        <5>2. Handle
          BY <2>4, <5>1 DEF CommitUnknown
        <5>3. lastValue'[f] = sent[cur].value
          BY <5>1, <5>2 DEF Handle, Remember, BInv, ReplayTypeOK, TypeOK
        <5> QED
          BY <3>4, <4>1, <5>3
      <4>2. CASE ~Tells(InHand, f)
        <5>1. lastValue'[f] = lastValue[f]
          BY <2>0, <2>4, <3>1, <3>4, <4>2
             DEF Handle, CommitUnknown, Remember, Tells, BInv, ReplayTypeOK, TypeOK
        <5>2. PICK c \in committed :
                 /\ Tells(c, f) /\ sent[c.msg].value = lastValue[f]
                 /\ \A r \in Recorded : Tells(r, f) => r.ts <= c.ts \/ r = InHand
          BY <3>1, <5>1 DEF HInv, MemoryIsNewest
        <5> QED
          BY <3>4, <4>2, <5>1, <5>2
      <4> QED
        BY <4>1, <4>2
    <3> QED
      BY <3>3, <3>5 DEF HInv
  <2>5. CASE HandleIgnored
    <3>1. LostIsHidden' /\ CommittedIsShown'
      BY <2>5, HistoryCommit DEF HandleIgnored
    <3>2. /\ Recorded' = Recorded /\ committed' = committed \cup {InHand}
          /\ sent[InHand.msg].kind = "ignored"
      BY <2>5 DEF HandleIgnored, Recorded, CommitDelivery, InHand
    <3>3. MemoryIsNewest'
      <4>1. \A f \in Fields : ~Tells(InHand, f)
        BY <3>2 DEF Tells
      <4> QED
        BY <2>5, <3>2, <4>1 DEF HandleIgnored, HInv, MemoryIsNewest, Tells
    <3> QED
      BY <3>1, <3>3 DEF HInv
  <2>6. CASE Ack \/ RecorderFails \/ Crash \/ Drop
    BY <2>6, HistoryQuiet DEF Ack, RecorderFails, Crash, Drop
  <2>7. CASE HandleFails
    BY <2>7 DEF HandleFails, Fault
  <2> QED
    BY <1>1, <2>1, <2>2, <2>3, <2>4, <2>5, <2>6, <2>7 DEF Worker, Next
<1>2. CASE ReplayRecord
  BY <1>2, HistoryReplayed
<1>3. CASE ReplayStart \/ ReplayDone \/ ReplayAborts \/ UNCHANGED allVars
  <2>1. UNCHANGED vars
    BY <1>3 DEF ReplayStart, ReplayDone, ReplayAborts, allVars
  <2> QED
    BY <2>1 DEF vars, HInv, LostIsHidden, MemoryIsNewest, CommittedIsShown, Recorded, Tells, InHand
<1> QED
  BY <1>1, <1>2, <1>3 DEF ReplayNext

\* Beside any number of replays, run to their end or cut short, at any point of a
\* replay, the rows show at its instant every signal that was committed -- as long as
\* the database refuses no transaction.
THEOREM ReplayRewritesNothing ==
    ASSUME "db" \notin Faults
    PROVE  ReplaySpec => []CommittedIsShown
<1>1. ReplayInit => HInv
  BY HistoryInit
<1>2. BInv /\ HInv /\ [ReplayNext]_allVars => HInv'
  BY HistoryNext
<1>3. HInv => CommittedIsShown
  BY DEF HInv
<1> QED
  BY <1>1, <1>2, <1>3, ReplayBase, PTL DEF ReplaySpec

-----------------------------------------------------------------------------
(* Order.                                                                  *)

LEMMA OrderInit == ReplayInit => OInv
BY DEF ReplayInit, Init, OInv, OldestInHand, AcknowledgedInOrder, Ids

LEMMA OrderNext ==
    ASSUME Faults \subseteq {"crash", "drop"}, BInv, OInv, [ReplayNext]_allVars
    PROVE  OInv'
<1> USE DEF brokerVars, workerVars, dbVars
<1>0. /\ TypeOK /\ ReceivedIsRecorded /\ delivered \subseteq broker /\ broker \subseteq Ids
      /\ \A i \in Ids : i \in Nat /\ i <= Len(sent)
      /\ Len(sent) \in Nat
  BY DEF BInv, ReplayTypeOK, TypeOK, Ids
<1>1. recording' = recording => Recorded' = Recorded
  BY DEF Recorded
<1>2. ASSUME NEW m \in Signals \cup Links \cup Ignored, Publish(m)
      PROVE  OInv'
  <2>1. /\ Recorded' = Recorded /\ broker' = broker \cup {Len(sent) + 1}
        /\ UNCHANGED <<doubted, delivered, pc, cur, committed>>
    BY <1>1, <1>2 DEF Publish
  <2>2. Ids' = Ids \cup {Len(sent) + 1}
    <3>1. Len(sent') = Len(sent) + 1
      BY <1>0, <1>2 DEF Publish, TypeOK
    <3> QED
      BY <1>0, <3>1 DEF Ids
  <2>3. OldestInHand'
    <3>1. pc # "idle" => cur \in Ids
      BY <1>0 DEF TypeOK
    <3> QED
      BY <1>0, <2>1, <3>1 DEF OInv, OldestInHand
  <2>4. AcknowledgedInOrder'
    BY <1>0, <2>1, <2>2 DEF OInv, AcknowledgedInOrder
  <2> QED
    BY <2>3, <2>4 DEF OInv
<1>3. CASE Worker /\ (SendSignal \/ SendIgnored)
  BY <1>2, <1>3 DEF SendSignal, SendIgnored
<1>4. CASE Worker /\ SendConnectivity
  <2>1. [kind |-> "connectivity", connected |-> ~LinkUp, created |-> clock + 1] \in Links
    BY <1>0 DEF TypeOK, Links
  <2> QED
    BY <1>2, <1>4, <2>1 DEF SendConnectivity
<1>5. CASE Worker /\ Receive
  <2> PICK i \in Undelivered : /\ cur' = i /\ delivered' = delivered \cup {i}
                               /\ NextDelivery(i)
                               /\ recording' = Append(recording, [ts |-> clock + 1, msg |-> i])
    BY <1>5 DEF Receive
  <2>1. /\ delivered = {} /\ i \in broker /\ \A j \in broker : i <= j
        /\ UNCHANGED <<sent, broker, committed, doubted>> /\ pc' = "received"
    BY <1>5 DEF Receive, Undelivered, NextDelivery, OInv, OldestInHand
  <2>2. [ts |-> clock + 1, msg |-> i] \in Records /\ recording \in Seq(Records)
    BY <1>0 DEF Undelivered, TypeOK, Ids, Records
  <2>3. Recorded' = Recorded \cup {[ts |-> clock + 1, msg |-> i]} /\ Ids' = Ids
    BY <2>1, <2>2, RecordedAppended DEF Ids
  <2>4. OldestInHand'
    BY <2>1 DEF OInv, OldestInHand
  <2>5. AcknowledgedInOrder'
    <3> SUFFICES ASSUME NEW k \in Ids \ broker
                 PROVE  /\ \A j \in broker : k < j
                        /\ \E c \in committed :
                              c.msg = k /\ \A r \in Recorded' : r.msg <= k => r.ts <= c.ts
      BY <2>1, <2>3 DEF AcknowledgedInOrder
    <3>1. k < i /\ ~(i <= k)
      BY <1>0, <2>1 DEF OInv, AcknowledgedInOrder
    <3> QED
      BY <2>3, <3>1 DEF OInv, AcknowledgedInOrder
  <2> QED
    BY <2>4, <2>5 DEF OInv
<1>6. CASE Worker /\ (Handle \/ HandleIgnored)
  <2>1. /\ committed \subseteq committed' /\ UNCHANGED <<sent, broker, delivered, cur, doubted>>
        /\ pc = "received" /\ pc' = "done" /\ recording' = recording
    BY <1>6 DEF Handle, HandleIgnored, Transaction, StoreSignal, CountRepeat, StoreConnectivity,
                CommitDelivery
  <2> QED
    BY <1>1, <2>1 DEF OInv, OldestInHand, AcknowledgedInOrder, Ids
<1>7. CASE Worker /\ Ack
  <2>1. /\ broker' = broker \ {cur} /\ delivered' = delivered \ {cur} /\ pc' = "idle" /\ pc = "done"
        /\ UNCHANGED <<sent, committed, doubted>> /\ Recorded' = Recorded /\ Ids' = Ids
    BY <1>1, <1>7 DEF Ack, Ids
  <2>2. /\ cur \in broker /\ \A i \in broker : cur <= i
        /\ InHand \in committed /\ InHand.ts = rcvd /\ InHand.msg = cur
        /\ \A r \in Recorded : r.ts <= rcvd
    BY <1>0, <2>1 DEF OInv, OldestInHand, ReceivedIsRecorded, TypeOK, InHand
  <2>3. OldestInHand'
    BY <2>1 DEF OInv, OldestInHand
  <2>4. AcknowledgedInOrder'
    <3> SUFFICES ASSUME NEW k \in Ids \ broker'
                 PROVE  /\ \A j \in broker' : k < j
                        /\ \E c \in committed :
                              c.msg = k /\ \A r \in Recorded : r.msg <= k => r.ts <= c.ts
      BY <2>1 DEF AcknowledgedInOrder
    <3>1. CASE k = cur
      BY <1>0, <2>1, <2>2, <3>1
    <3>2. CASE k # cur
      BY <2>1, <3>2 DEF OInv, AcknowledgedInOrder
    <3> QED
      BY <3>1, <3>2
  <2> QED
    BY <2>3, <2>4 DEF OInv
<1>8. CASE Worker /\ (Crash \/ Drop)
  <2>1. /\ delivered' = {} /\ pc' = "idle" /\ UNCHANGED <<sent, broker, committed, doubted>>
        /\ Recorded' = Recorded
    BY <1>1, <1>8 DEF Crash, Drop
  <2> QED
    BY <2>1 DEF OInv, OldestInHand, AcknowledgedInOrder, Ids
<1>9. CASE Worker /\ (HandleFails \/ CommitUnknown \/ RecorderFails)
  BY <1>9 DEF HandleFails, CommitUnknown, RecorderFails, Fault
<1>10. CASE ReplayStart \/ ReplayRecord \/ ReplayDone \/ ReplayAborts \/ UNCHANGED allVars
  <2>1. UNCHANGED <<sent, broker, delivered, pc, cur, committed, doubted, recording>>
    BY <1>10 DEF ReplayStart, ReplayRecord, ReplayDone, ReplayAborts, allVars, vars
  <2> QED
    BY <1>1, <2>1 DEF OInv, OldestInHand, AcknowledgedInOrder, Ids
<1> QED
  BY <1>3, <1>4, <1>5, <1>6, <1>7, <1>8, <1>9, <1>10 DEF ReplayNext, Worker, Next

\* With everything acknowledged, the last commit of a field's last message is later
\* than every row of the field, and shows its value.
LEMMA LastIsNewest == BInv /\ OInv /\ CommittedIsShown => NewestWins
<1> SUFFICES ASSUME BInv, OInv, CommittedIsShown, broker = {}, NEW i \in Ids,
                    sent[i].kind = "signal",
                    \A j \in Ids : sent[j].kind = "signal" /\ sent[j].field = sent[i].field => j <= i
             PROVE  Shows(events, sent[i].field, clock, sent[i].value)
  BY DEF NewestWins
<1>1. PICK c \in committed : c.msg = i /\ \A r \in Recorded : r.msg <= i => r.ts <= c.ts
  BY DEF OInv, AcknowledgedInOrder
<1>2. Shows(events, sent[i].field, c.ts, sent[i].value)
  BY <1>1 DEF CommittedIsShown, OInv, OldestInHand
<1>3. PICK q \in events :
         /\ q.field = sent[i].field /\ q.value = sent[i].value /\ q.ts <= c.ts
         /\ \A p \in events : p.field = sent[i].field /\ p.ts <= c.ts => p.ts <= q.ts
  BY <1>2 DEF Shows
<1>4. \A p \in events : p.field = sent[i].field => p.ts <= c.ts
  <2> SUFFICES ASSUME NEW p \in events, p.field = sent[i].field PROVE p.ts <= c.ts
    OBVIOUS
  <2>1. PICK r \in Recorded : r.ts = p.ts /\ Tells(r, p.field)
    BY DEF BInv, RowsAreRecorded
  <2>2. r.msg \in Ids /\ r.msg <= i
    BY <2>1 DEF Tells, BInv, ReceivedIsRecorded
  <2> QED
    BY <1>1, <2>1, <2>2
<1>5. q.ts <= clock
  BY <1>1, <1>3 DEF BInv, ReceivedIsRecorded, RowsAreRecorded
<1> QED
  BY <1>3, <1>4, <1>5 DEF Shows

\* Where crashes and lost connections are all that fails, replays leave the newest
\* row of each field the car's last value too.
THEOREM ReplayKeeps ==
    ASSUME Faults \subseteq {"crash", "drop"}
    PROVE  ReplaySpec => []ReplayKeepsHistory
<1>1. "db" \notin Faults
  OBVIOUS
<1>2. ReplayInit => OInv
  BY OrderInit
<1>3. BInv /\ OInv /\ [ReplayNext]_allVars => OInv'
  BY OrderNext
<1>4. ReplaySpec => []CommittedIsShown
  BY <1>1, ReplayRewritesNothing
<1>5. BInv /\ OInv /\ CommittedIsShown => ReplayKeepsHistory
  BY LastIsNewest DEF ReplayKeepsHistory
<1> QED
  BY <1>2, <1>3, <1>4, <1>5, ReplayBase, PTL DEF ReplaySpec

-----------------------------------------------------------------------------
(* Replaying again.                                                        *)

\* Records that stay where they are, under rows and link rows that are only added
\* to, stay covered; and the replaying Ingestor's memory is still of them.
LEMMA CoveredKept ==
    ASSUME BInv, \A i \in Ids : sent'[i] = sent[i],
           \A k \in DOMAIN recording : k \in DOMAIN recording' /\ recording'[k] = recording[k],
           events \subseteq events', connectivity \subseteq connectivity'
    PROVE  /\ \A k \in DOMAIN recording : Covered(k) => Covered(k)'
           /\ rpos' = rpos /\ rmem' = rmem /\ ReplayMemory => ReplayMemory'
<1>1. \A k \in DOMAIN recording : recording[k].msg \in Ids /\ recording[k] \in Recorded
  BY DEF BInv, ReceivedIsRecorded, Recorded
<1>2. \A k \in DOMAIN recording :
         recording'[k] = recording[k] /\ sent'[recording[k].msg] = sent[recording[k].msg]
  BY <1>1
<1>3. \A k \in DOMAIN recording : \A f : At(k, f)' <=> At(k, f)
  BY <1>2 DEF At, Tells
<1>4. DOMAIN recording = 1..Len(recording) /\ Len(recording) \in Nat
  BY DEF BInv, ReplayTypeOK, TypeOK
<1>5. \A k \in DOMAIN recording : \A f : RepeatsRecord(k, f) => RepeatsRecord(k, f)'
  <2> SUFFICES ASSUME NEW k \in DOMAIN recording, NEW f, RepeatsRecord(k, f)
               PROVE  RepeatsRecord(k, f)'
    OBVIOUS
  <2>1. PICK j \in 1..(k - 1) :
           /\ At(j, f) /\ sent[recording[j].msg].value = sent[recording[k].msg].value
           /\ \A l \in (j + 1)..(k - 1) : ~At(l, f)
    BY DEF RepeatsRecord
  <2>2. j \in DOMAIN recording /\ \A l \in (j + 1)..(k - 1) : l \in DOMAIN recording
    BY <1>4
  <2> QED
    BY <1>2, <1>3, <2>1, <2>2 DEF RepeatsRecord
<1>6. ASSUME NEW k \in DOMAIN recording, Covered(k) PROVE Covered(k)'
  BY <1>2, <1>3, <1>5, <1>6 DEF Covered
<1>7. ASSUME rpos' = rpos, rmem' = rmem, ReplayMemory PROVE ReplayMemory'
  <2> SUFFICES ASSUME rpos # 0, NEW f \in Fields
               PROVE  \/ rmem[f] = NoValue /\ \A l \in 1..(rpos - 1) : ~At(l, f)'
                      \/ \E j \in 1..(rpos - 1) :
                            /\ At(j, f)' /\ rmem[f] = sent'[recording'[j].msg].value
                            /\ \A l \in (j + 1)..(rpos - 1) : ~At(l, f)'
    BY <1>7 DEF ReplayMemory
  <2>1. \A l \in 1..(rpos - 1) : l \in DOMAIN recording
    BY <1>4 DEF BInv, ReplayTypeOK
  <2>2. CASE rmem[f] = NoValue /\ \A l \in 1..(rpos - 1) : ~At(l, f)
    BY <1>3, <2>1, <2>2
  <2>3. ASSUME NEW j \in 1..(rpos - 1), At(j, f), rmem[f] = sent[recording[j].msg].value,
               \A l \in (j + 1)..(rpos - 1) : ~At(l, f)
        PROVE  /\ At(j, f)' /\ rmem[f] = sent'[recording'[j].msg].value
               /\ \A l \in (j + 1)..(rpos - 1) : ~At(l, f)'
    <3>1. \A l \in (j + 1)..(rpos - 1) : l \in DOMAIN recording
      BY <2>1
    <3> QED
      BY <1>2, <1>3, <2>1, <2>3, <3>1
  <2> QED
    BY <1>7, <2>2, <2>3 DEF ReplayMemory
<1> QED
  BY <1>6, <1>7

\* A record that is replayed is covered, and remembered.
LEMMA CoveredByReplay ==
    ASSUME BInv, ReplayMemory, ReplayRecord, NEW k, k = rpos
    PROVE  Covered(k)' /\ ReplayMemory'
<1> DEFINE r == recording[rpos]
           m == sent[r.msg]
<1>1. /\ r.ts \in Nat /\ rpos \in DOMAIN recording
      /\ \/ m.kind = "signal" /\ m \in Signals
            /\ \/ Repeats(rmem, m) /\ events' = events
               \/ ~Repeats(rmem, m) /\ events' = Inserted(events, m, r.ts)
            /\ rmem' = [rmem EXCEPT ![m.field] = m.value]
         \/ /\ m.kind = "connectivity" /\ rmem' = rmem
            /\ connectivity' = connectivity \cup {[ts |-> m.created, connected |-> m.connected]}
         \/ m.kind = "ignored" /\ rmem' = rmem
  BY ReplayTransaction DEF BInv, Records
<1>2. UNCHANGED <<sent, recording>> /\ rpos' = rpos + 1 /\ rpos \in Nat /\ rpos # 0
  BY DEF ReplayRecord, brokerVars, BInv, ReplayTypeOK
<1>3. \A l, f : At(l, f)' <=> At(l, f)
  BY <1>2 DEF At, Tells
<1>4. \A f : At(rpos, f) <=> (m.kind = "signal" /\ m.field = f)
  BY <1>1 DEF At, Tells
<1>5. rmem \in [Fields -> Values \cup {NoValue}]
  BY DEF BInv, ReplayTypeOK
<1>6. Covered(k)'
  <2>1. ASSUME NEW f \in Fields, At(rpos, f)
        PROVE  RepeatsRecord(rpos, f) \/ \E q \in events' : q.field = f /\ q.ts = r.ts
    <3>1. m \in Signals /\ m.field = f
      BY <1>1, <1>4, <2>1
    <3>2. CASE Repeats(rmem, m)
      <4>1. rmem[f] = m.value /\ rmem[f] # NoValue
        BY <3>1, <3>2, NoValueAssumption DEF Repeats, Signals
      <4> QED
        BY <1>2, <4>1 DEF ReplayMemory, RepeatsRecord
    <3>3. CASE ~Repeats(rmem, m)
      <4>1. events' = Inserted(events, m, r.ts)
        BY <1>1, <1>4, <2>1, <3>3
      <4> QED
        BY <1>1, <3>1, <4>1, InsertedHas
    <3> QED
      BY <3>2, <3>3
  <2>2. m.kind = "connectivity" => [ts |-> m.created, connected |-> m.connected] \in connectivity'
    BY <1>1
  <2>3. \A f : RepeatsRecord(rpos, f) => \E j \in 1..(rpos - 1) :
           /\ At(j, f)' /\ sent'[recording'[j].msg].value = sent'[recording'[rpos].msg].value
           /\ \A l \in (j + 1)..(rpos - 1) : ~At(l, f)'
    BY <1>2, <1>3 DEF RepeatsRecord
  <2> QED
    BY <1>2, <1>3, <2>1, <2>2, <2>3 DEF Covered, RepeatsRecord
<1>7. ReplayMemory'
  <2> SUFFICES ASSUME NEW f \in Fields
               PROVE  \/ rmem'[f] = NoValue /\ \A l \in 1..rpos : ~At(l, f)
                      \/ \E j \in 1..rpos :
                            /\ At(j, f) /\ rmem'[f] = sent[recording[j].msg].value
                            /\ \A l \in (j + 1)..rpos : ~At(l, f)
    BY <1>2, <1>3 DEF ReplayMemory
  <2>1. CASE At(rpos, f)
    <3>1. rmem'[f] = m.value
      BY <1>1, <1>4, <1>5, <2>1
    <3>2. rpos \in 1..rpos /\ \A l \in (rpos + 1)..rpos : FALSE
      BY <1>2
    <3> QED
      BY <2>1, <3>1, <3>2
  <2>2. CASE ~At(rpos, f)
    <3>1. rmem'[f] = rmem[f]
      BY <1>1, <1>4, <1>5, <2>2
    <3>2. \A l \in 1..rpos : l = rpos \/ l \in 1..(rpos - 1)
      BY <1>2
    <3>3. CASE rmem[f] = NoValue /\ \A l \in 1..(rpos - 1) : ~At(l, f)
      BY <2>2, <3>1, <3>2, <3>3
    <3>4. ASSUME NEW j \in 1..(rpos - 1), At(j, f), rmem[f] = sent[recording[j].msg].value,
                 \A l \in (j + 1)..(rpos - 1) : ~At(l, f)
          PROVE  j \in 1..rpos /\ \A l \in (j + 1)..rpos : ~At(l, f)
      <4>1. \A l \in (j + 1)..rpos : l = rpos \/ l \in (j + 1)..(rpos - 1)
        BY <1>2
      <4> QED
        BY <1>2, <2>2, <3>4, <4>1
    <3> QED
      BY <1>2, <3>1, <3>3, <3>4 DEF ReplayMemory
  <2> QED
    BY <2>1, <2>2
<1> QED
  BY <1>6, <1>7

LEMMA CoveredInit == ReplayInit => CoveredInv
BY DEF ReplayInit, CoveredInv, ReplayMemory

LEMMA CoveredNext == BInv /\ CoveredInv /\ [ReplayNext]_allVars => CoveredInv'
<1> SUFFICES ASSUME BInv, CoveredInv, [ReplayNext]_allVars PROVE CoveredInv'
  OBVIOUS
<1>1. /\ DOMAIN recording = 1..Len(recording) /\ Len(recording) \in Nat
      /\ replayed \in Nat /\ replayed <= Len(recording)
      /\ rpos \in Nat /\ rlen \in Nat /\ rpos <= rlen + 1 /\ rlen <= Len(recording)
  BY DEF BInv, ReplayTypeOK, TypeOK
<1>2. \A k \in 1..replayed : k \in DOMAIN recording /\ Covered(k)
  BY <1>1 DEF CoveredInv
<1>3. \A k \in 1..(rpos - 1) : k \in DOMAIN recording /\ Covered(k)
  BY <1>1 DEF CoveredInv
<1>4. ReplayMemory
  BY DEF CoveredInv
<1>5. CASE Worker
  <2>1. /\ \A k \in DOMAIN recording : k \in DOMAIN recording' /\ recording'[k] = recording[k]
        /\ events \subseteq events' /\ connectivity \subseteq connectivity'
    BY <1>5, RecordingGrows DEF Worker, BInv, ReplayTypeOK
  <2>2. \A i \in Ids : sent'[i] = sent[i]
    <3>1. sent' = sent \/ \E m : Publish(m)
      BY <1>5 DEF Worker, Next, SendSignal, SendConnectivity, SendIgnored, Receive, Handle,
                  HandleIgnored, Ack, HandleFails, CommitUnknown, RecorderFails, Crash, Drop,
                  brokerVars
    <3>2. ASSUME NEW m, Publish(m) PROVE \A i \in Ids : sent'[i] = sent[i]
      BY <3>2 DEF Publish, BInv, ReplayTypeOK, TypeOK, Ids
    <3> QED
      BY <3>1, <3>2
  <2>3. UNCHANGED <<rpos, rmem, replayed>>
    BY <1>5 DEF Worker, replayVars
  <2>4. \A k \in DOMAIN recording : Covered(k) => Covered(k)'
    BY <2>1, <2>2, CoveredKept
  <2>5. ReplayMemory'
    BY <1>4, <2>1, <2>2, <2>3, CoveredKept
  <2> QED
    BY <1>2, <1>3, <2>3, <2>4, <2>5 DEF CoveredInv
<1>6. CASE ReplayStart \/ ReplayRecord \/ ReplayDone \/ ReplayAborts
  <2>1. /\ events \subseteq events' /\ connectivity \subseteq connectivity'
        /\ sent' = sent /\ recording' = recording
    BY <1>6, ReplayStepTypes DEF brokerVars
  <2>2. \A k \in DOMAIN recording : Covered(k) => Covered(k)'
    BY <2>1, CoveredKept
  <2>3. CASE ReplayStart
    <3>1. rpos' = 1 /\ replayed' = replayed /\ rmem' = [f \in Fields |-> NoValue]
      BY <2>3 DEF ReplayStart
    <3>2. ReplayMemory'
      BY <3>1 DEF ReplayMemory
    <3> QED
      BY <1>2, <2>2, <3>1, <3>2 DEF CoveredInv
  <2>4. CASE ReplayRecord
    <3>1. rpos' = rpos + 1 /\ replayed' = replayed
      BY <2>4 DEF ReplayRecord
    <3>2. ReplayMemory'
      BY <1>4, <2>4, CoveredByReplay
    <3>3. \A k \in 1..(rpos' - 1) : k = rpos \/ k \in 1..(rpos - 1)
      BY <1>1, <3>1
    <3>4. \A k \in 1..(rpos' - 1) : Covered(k)'
      <4>1. ASSUME NEW k \in 1..(rpos - 1) PROVE Covered(k)'
        BY <1>3, <2>2
      <4>2. ASSUME NEW k, k = rpos PROVE Covered(k)'
        BY <1>4, <2>4, <4>2, CoveredByReplay
      <4> QED
        BY <3>3, <4>1, <4>2
    <3> QED
      BY <1>2, <2>2, <3>1, <3>2, <3>4 DEF CoveredInv
  <2>5. CASE ReplayDone
    <3>1. /\ rpos = rlen + 1 /\ rpos' = 0
          /\ replayed' = IF rlen > replayed THEN rlen ELSE replayed
      BY <2>5 DEF ReplayDone, ReplayExits
    <3>2. \A k \in 1..replayed' : k \in 1..replayed \/ k \in 1..(rpos - 1)
      BY <1>1, <3>1
    <3>3. ReplayMemory'
      BY <3>1 DEF ReplayMemory
    <3> QED
      BY <1>2, <1>3, <2>2, <3>1, <3>2, <3>3 DEF CoveredInv
  <2>6. CASE ReplayAborts
    <3>1. rpos' = 0 /\ replayed' = replayed
      BY <2>6 DEF ReplayAborts, ReplayExits
    <3>2. ReplayMemory'
      BY <3>1 DEF ReplayMemory
    <3> QED
      BY <1>2, <2>2, <3>1, <3>2 DEF CoveredInv
  <2> QED
    BY <1>6, <2>3, <2>4, <2>5, <2>6
<1>7. CASE UNCHANGED allVars
  <2>1. /\ recording' = recording /\ sent' = sent /\ events' = events
        /\ connectivity' = connectivity /\ UNCHANGED <<rpos, rmem, replayed>>
    BY <1>7 DEF allVars, vars, dbVars, brokerVars, replayVars
  <2>2. \A k \in DOMAIN recording : Covered(k) => Covered(k)'
    BY <2>1, CoveredKept
  <2>3. ReplayMemory'
    BY <1>4, <2>1, CoveredKept
  <2> QED
    BY <1>2, <1>3, <2>1, <2>2, <2>3 DEF CoveredInv
<1> QED
  BY <1>5, <1>6, <1>7 DEF ReplayNext

\* A record that is covered is replayed without effect on the rows.
LEMMA CoveredStoresNothing ==
    ASSUME BInv, ReplayMemory, ReplayRecord, Covered(rpos)
    PROVE  UNCHANGED <<events, connectivity>>
<1> DEFINE r == recording[rpos]
           m == sent[r.msg]
<1>1. /\ rpos \in DOMAIN recording
      /\ \/ m.kind = "signal" /\ m \in Signals
            /\ \/ Repeats(rmem, m) /\ events' = events
               \/ ~Repeats(rmem, m) /\ events' = Inserted(events, m, r.ts)
            /\ connectivity' = connectivity
         \/ /\ m.kind = "connectivity" /\ events' = events
            /\ connectivity' = connectivity \cup {[ts |-> m.created, connected |-> m.connected]}
         \/ m.kind = "ignored" /\ UNCHANGED <<events, connectivity>>
  BY ReplayTransaction DEF BInv
<1>2. CASE m.kind = "connectivity"
  <2>1. [ts |-> m.created, connected |-> m.connected] \in connectivity
    BY <1>2 DEF Covered
  <2> QED
    BY <1>1, <1>2, <2>1
<1>3. CASE m.kind = "signal" /\ events' # events
  <2> DEFINE f == m.field
  <2>1. m \in Signals /\ ~Repeats(rmem, m) /\ events' = Inserted(events, m, r.ts) /\ f \in Fields
    BY <1>1, <1>3 DEF Signals
  <2>2. At(rpos, f)
    BY <1>1, <1>3 DEF At, Tells
  <2>3. CASE \E q \in events : q.field = f /\ q.ts = r.ts
    BY <1>3, <2>1, <2>3 DEF Inserted
  <2>4. CASE RepeatsRecord(rpos, f)
    <3>1. PICK j \in 1..(rpos - 1) :
             /\ At(j, f) /\ sent[recording[j].msg].value = m.value
             /\ \A l \in (j + 1)..(rpos - 1) : ~At(l, f)
      BY <2>4 DEF RepeatsRecord
    <3>2. rpos \in Nat /\ rpos # 0
      BY DEF ReplayRecord, BInv, ReplayTypeOK
    <3>3. PICK i \in 1..(rpos - 1) :
             /\ At(i, f) /\ rmem[f] = sent[recording[i].msg].value
             /\ \A l \in (i + 1)..(rpos - 1) : ~At(l, f)
      BY <2>1, <3>1, <3>2 DEF ReplayMemory
    <3>4. i = j
      <4>1. ~(i < j) /\ ~(j < i)
        BY <3>1, <3>2, <3>3
      <4> QED
        BY <3>2, <4>1
    <3> QED
      BY <2>1, <3>1, <3>3, <3>4 DEF Repeats
  <2> QED
    BY <2>1, <2>2, <2>3, <2>4 DEF Covered
<1> QED
  BY <1>1, <1>2, <1>3

\* "Replaying a day twice changes nothing": what a completed replay has covered is
\* replayed again without a new row, whatever the worker stored since and whatever
\* fails.
THEOREM ReplayAgain == ReplaySpec => ReplayAgainStoresNothing
<1>1. ReplayInit => CoveredInv
  BY CoveredInit
<1>2. BInv /\ CoveredInv /\ [ReplayNext]_allVars => CoveredInv'
  BY CoveredNext
<1>3. BInv /\ CoveredInv /\ [ReplayNext]_allVars
      => [ReplayRecord /\ rpos <= replayed => UNCHANGED <<events, connectivity>>]_allVars
  <2> SUFFICES ASSUME BInv, CoveredInv, ReplayRecord, rpos <= replayed
               PROVE  UNCHANGED <<events, connectivity>>
    OBVIOUS
  <2>1. rpos \in 1..replayed
    BY DEF ReplayRecord, BInv, ReplayTypeOK
  <2> QED
    BY <2>1, CoveredStoresNothing DEF CoveredInv
<1> QED
  BY <1>1, <1>2, <1>3, ReplayBase, PTL DEF ReplaySpec, ReplayAgainStoresNothing
=============================================================================
