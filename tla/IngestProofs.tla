---------------------------- MODULE IngestProofs ----------------------------
(***************************************************************************)
(* Proofs about Ingest: for any number of messages, fields, values, faults *)
(* and any in-flight limit, a message is durable before the broker forgets *)
(* it, and the stored rows show every signal that was committed.           *)
(*                                                                         *)
(* And about CarryForward: what the reducer makes of the rows the worker   *)
(* has stored errs only where a message was overtaken by a disconnect or a *)
(* value was repeated after one.                                           *)
(***************************************************************************)
EXTENDS CarryForward, FiniteSetTheorems, TLAPS

\* on_message acknowledges only what it has committed.
DoneIsDurable == pc = "done" => cur \in Accepted

\* Nothing is stored under a time that has not come, and a message in hand was
\* received after everything that is stored.
Dated ==
    /\ \A r \in events : r.ts <= clock
    /\ \A c \in committed : c.ts <= clock /\ c.msg \in Ids
    /\ pc = "received" => /\ \A r \in events : r.ts < rcvd
                          /\ \A c \in committed : c.ts < rcvd

LinkRow(i) == [ts |-> sent[i].created, connected |-> sent[i].connected]

\* A connectivity record is stored before it is acknowledged.
DoneLinkIsStored == pc = "done" /\ cur \in LinkMessages => LinkRow(cur) \in connectivity

\* What _last_value holds is what the table shows.
MemoryIsShown ==
    \A f \in Fields : lastValue[f] # NoValue /\ f \notin doubted
                       => Shows(events, f, clock, lastValue[f])

\* The bound of the model.
SentIsBounded == Len(sent) <= MaxSent

IInv == /\ TypeOK /\ DoneIsDurable /\ Dated /\ DoneLinkIsStored /\ ConnectivityMatchesSent
        /\ MemoryIsShown /\ CommittedIsShown /\ SentIsBounded

-----------------------------------------------------------------------------
(* The stored rows of a field, seen from an instant.                       *)

\* Once everything is in the past, time changes nothing.
LEMMA ShowsAnyLater ==
    ASSUME NEW rows \in SUBSET Rows, NEW f, NEW v, NEW at \in Nat, NEW later \in Nat,
           \A r \in rows : r.ts <= at /\ r.ts <= later
    PROVE  Shows(rows, f, at, v) <=> Shows(rows, f, later, v)
BY DEF Shows, Rows

\* A row that is newer than all the others is what its field shows.
LEMMA InsertedIsShown ==
    ASSUME NEW rows \in SUBSET Rows, NEW m \in Signals, NEW ts \in Nat,
           \A r \in rows : r.ts < ts
    PROVE  Shows(Inserted(rows, m, ts), m.field, ts, m.value)
<1> DEFINE new == [field |-> m.field, ts |-> ts, value |-> m.value]
<1>1. Inserted(rows, m, ts) = rows \cup {new}
  BY DEF Inserted, Rows
<1>2. \A r \in rows \cup {new} : r.ts <= new.ts
  BY DEF Rows
<1>3. new.field = m.field /\ new.value = m.value /\ new.ts = ts /\ new.ts <= ts
  OBVIOUS
<1> QED
  BY <1>1, <1>2, <1>3 DEF Shows

\* A row that is newer than all the others rewrites no past ...
LEMMA InsertedKeepsPast ==
    ASSUME NEW rows \in SUBSET Rows, NEW m \in Signals, NEW ts \in Nat,
           \A r \in rows : r.ts < ts,
           NEW at \in Nat, at < ts, NEW f, NEW v, Shows(rows, f, at, v)
    PROVE  Shows(Inserted(rows, m, ts), f, at, v)
BY DEF Inserted, Shows, Rows

\* ... and says nothing of another field.
LEMMA InsertedKeepsOthers ==
    ASSUME NEW rows \in SUBSET Rows, NEW m \in Signals, NEW ts \in Nat,
           NEW at \in Nat, NEW f, f # m.field, NEW v, Shows(rows, f, at, v)
    PROVE  Shows(Inserted(rows, m, ts), f, at, v)
BY DEF Inserted, Shows, Rows

-----------------------------------------------------------------------------
\* A fresh deployment satisfies the invariant.
LEMMA InitInv == Init => IInv
BY BoundAssumption DEF Init, IInv, TypeOK, DoneIsDurable, Dated, DoneLinkIsStored,
   ConnectivityMatchesSent,
       MemoryIsShown, CommittedIsShown, Ids, Accepted, LinkMessages, Rows, LinkRows, Records,
       SentIsBounded

\* The kind of a message tells its record.
LEMMA TypeKinds ==
    ASSUME TypeOK, NEW i \in Ids
    PROVE  /\ sent[i] \in Signals \cup Links \cup Ignored
           /\ sent[i].kind = "signal" => sent[i] \in Signals
           /\ sent[i].kind = "connectivity" => sent[i] \in Links
<1>1. sent[i] \in Signals \cup Links \cup Ignored
  BY DEF TypeOK, Ids
<1> QED
  BY <1>1 DEF Signals, Links, Ignored

\* A new message is in the broker; the ones before keep their place.
LEMMA PublishInv ==
    ASSUME IInv, NEW m \in Signals \cup Links \cup Ignored, Publish(m),
           clock' \in Nat, clock <= clock'
    PROVE  IInv'
<1> USE DEF IInv, workerVars, dbVars
<1>1. /\ sent' \in Seq(Signals \cup Links \cup Ignored) /\ Len(sent') = Len(sent) + 1
      /\ \A i \in Ids : sent'[i] = sent[i]
  BY DEF Publish, TypeOK, Ids
<1>2. Ids' = Ids \cup {Len(sent) + 1} /\ Len(sent) + 1 \notin Ids /\ Len(sent) + 1 \in broker'
  BY <1>1 DEF Ids, TypeOK, Publish
<1>3. TypeOK'
  BY <1>1, <1>2 DEF Publish, TypeOK
<1>4. DoneIsDurable' /\ Dated'
  <2>1. Accepted' = Accepted
    BY DEF Publish, Accepted
  <2>2. DoneIsDurable'
    BY <2>1 DEF Publish, DoneIsDurable
  <2>3. \A r \in events : r.ts <= clock'
    BY DEF Dated, TypeOK, Rows
  <2>4. \A c \in committed : c.ts <= clock' /\ c.msg \in Ids'
    BY <1>2 DEF Dated, TypeOK, Records
  <2> QED
    BY <2>2, <2>3, <2>4 DEF Publish, Dated
<1>5. /\ \A i \in Ids : i \in LinkMessages <=> i \in LinkMessages'
      /\ \A i \in Ids : LinkRow(i)' = LinkRow(i)
      /\ LinkMessages' \ broker' \subseteq Ids /\ LinkMessages \subseteq Ids
  BY <1>1, <1>2 DEF LinkMessages, LinkRow
<1>6. ConnectivityMatchesSent'
  <2>1. connectivity \subseteq {LinkRow(i) : i \in LinkMessages}
    BY DEF ConnectivityMatchesSent, LinkRow
  <2>2. \A i \in LinkMessages \ broker : LinkRow(i) \in connectivity
    BY DEF ConnectivityMatchesSent, LinkRow
  <2>3. connectivity' \subseteq {LinkRow(i)' : i \in LinkMessages'}
    BY <1>2, <1>5, <2>1 DEF Publish
  <2>4. \A i \in LinkMessages' \ broker' : LinkRow(i)' \in connectivity'
    BY <1>5, <2>2 DEF Publish
  <2> QED
    BY <2>3, <2>4 DEF ConnectivityMatchesSent, LinkRow
<1>7. DoneLinkIsStored'
  <2>1. pc = "done" => cur \in Ids
    BY DEF TypeOK
  <2> QED
    BY <1>5, <2>1 DEF DoneLinkIsStored, Publish
<1>8. MemoryIsShown'
  <2> SUFFICES ASSUME NEW f \in Fields, lastValue[f] # NoValue, f \notin doubted
               PROVE  Shows(events, f, clock', lastValue[f])
    BY DEF Publish, MemoryIsShown
  <2>1. \A r \in events : r.ts <= clock /\ r.ts <= clock'
    BY <1>4 DEF Dated, Publish
  <2> QED
    BY <2>1, ShowsAnyLater DEF MemoryIsShown, TypeOK
<1>9. CommittedIsShown'
  <2>1. \A c \in committed : sent'[c.msg] = sent[c.msg]
    BY <1>1 DEF Dated
  <2> QED
    BY <2>1 DEF Publish, CommittedIsShown
<1>10. SentIsBounded'
  BY <1>1, BoundAssumption DEF Publish, SentIsBounded, TypeOK
<1> QED
  BY <1>3, <1>4, <1>6, <1>7, <1>8, <1>9, <1>10

-----------------------------------------------------------------------------
\* What a transaction of handle() leaves behind, whether or not its answer
\* arrives: each part of the invariant that is about the tables, and the row of
\* the signal in hand.
LEMMA TransactionInv ==
    ASSUME IInv, pc = "received", Transaction(sent[cur]),
           UNCHANGED <<sent, broker, clock>>, doubted \subseteq doubted'
    PROVE  /\ events' \in SUBSET Rows /\ connectivity' \in SUBSET LinkRows
           /\ usage' \in [Fields -> Nat] /\ committed' \in SUBSET Records
           /\ cur \in Accepted'
           /\ \A r \in events' : r.ts <= clock
           /\ \A c \in committed' : c.ts <= clock /\ c.msg \in Ids
           /\ cur \in LinkMessages => LinkRow(cur) \in connectivity'
           /\ ConnectivityMatchesSent'
           /\ CommittedIsShown'
           /\ \A f \in Fields :
                 lastValue[f] # NoValue /\ f \notin doubted
                 /\ ~(sent[cur] \in Signals /\ sent[cur].field = f)
                 => Shows(events', f, clock, lastValue[f])
           /\ sent[cur] \in Signals /\ sent[cur].field \notin doubted
              => Shows(events', sent[cur].field, clock, sent[cur].value)
<1> DEFINE m == sent[cur]
<1> USE DEF IInv
<1>1. cur \in Ids /\ rcvd \in Nat /\ clock \in Nat /\ rcvd <= clock /\ cur \in Nat
  BY DEF TypeOK, Ids
<1>2. m \in Signals \cup Links \cup Ignored /\ (m.kind = "signal" => m \in Signals)
      /\ (m.kind = "connectivity" => m \in Links)
  BY <1>1, TypeKinds
<1>3. committed' = committed \cup {[ts |-> rcvd, msg |-> cur]}
  BY DEF Transaction, StoreSignal, CountRepeat, StoreConnectivity, CommitDelivery
<1>4. committed' \in SUBSET Records /\ cur \in Accepted'
  <2>1. [ts |-> rcvd, msg |-> cur] \in Records
    BY <1>1 DEF Records
  <2> QED
    BY <1>3, <2>1 DEF TypeOK, Accepted
<1>5. \A c \in committed' : c.ts <= clock /\ c.msg \in Ids
  BY <1>1, <1>3 DEF Dated
<1>6. \A r \in events : r.ts < rcvd /\ r \in Rows
  BY DEF Dated, TypeOK
<1>7. CASE StoreSignal(m)
  <2>1. m \in Signals /\ events' = Inserted(events, m, rcvd) /\ connectivity' = connectivity
        /\ usage' = [usage EXCEPT ![m.field] = @ + 1]
    BY <1>2, <1>7 DEF StoreSignal
  <2>2. events' \in SUBSET Rows /\ \A r \in events' : r.ts <= rcvd
    <3>1. [field |-> m.field, ts |-> rcvd, value |-> m.value] \in Rows
      BY <1>1, <2>1 DEF Rows, Signals
    <3> QED
      BY <1>1, <1>6, <2>1, <3>1 DEF Inserted, Rows
  <2>3. usage' \in [Fields -> Nat]
    BY <2>1 DEF TypeOK, Signals
  <2>4. connectivity' \in SUBSET LinkRows /\ ConnectivityMatchesSent'
    BY <2>1 DEF TypeOK, ConnectivityMatchesSent, LinkMessages, Ids
  <2>5. cur \notin LinkMessages
    BY <2>1 DEF LinkMessages, Signals
  <2>6. Shows(events', m.field, rcvd, m.value)
    BY <1>1, <1>6, <2>1, InsertedIsShown DEF TypeOK
  <2>7. \A r \in events' : r.ts <= clock
    BY <1>1, <2>2 DEF Rows
  <2>8. Shows(events', m.field, clock, m.value)
    BY <1>1, <2>2, <2>6, <2>7, ShowsAnyLater
  <2>9. ASSUME NEW f \in Fields, lastValue[f] # NoValue, f \notin doubted, f # m.field
        PROVE  Shows(events', f, clock, lastValue[f])
    BY <1>1, <2>1, <2>9, InsertedKeepsOthers DEF MemoryIsShown, TypeOK
  <2>10. CommittedIsShown'
    <3> SUFFICES ASSUME NEW c \in committed', sent[c.msg].kind = "signal",
                        sent[c.msg].field \notin doubted'
                 PROVE  Shows(events', sent[c.msg].field, c.ts, sent[c.msg].value)
      BY DEF CommittedIsShown
    <3>1. CASE c \in committed
      <4>1. Shows(events, sent[c.msg].field, c.ts, sent[c.msg].value)
        BY <3>1 DEF CommittedIsShown
      <4>2. c.ts \in Nat /\ c.ts < rcvd
        BY <3>1 DEF Dated, TypeOK, Records
      <4> QED
        BY <1>1, <1>6, <2>1, <4>1, <4>2, InsertedKeepsPast DEF TypeOK
    <3>2. CASE c = [ts |-> rcvd, msg |-> cur]
      BY <2>6, <3>2
    <3> QED
      BY <1>3, <3>1, <3>2
  <2> QED
    BY <1>4, <1>5, <2>1, <2>2, <2>3, <2>4, <2>5, <2>7, <2>8, <2>9, <2>10
<1>8. CASE CountRepeat(m)
  <2>1. m \in Signals /\ events' = events /\ connectivity' = connectivity
        /\ usage' = [usage EXCEPT ![m.field] = @ + 1] /\ lastValue[m.field] = m.value
    BY <1>2, <1>8 DEF CountRepeat, Repeats
  <2>2. usage' \in [Fields -> Nat]
    BY <2>1 DEF TypeOK, Signals
  <2>3. connectivity' \in SUBSET LinkRows /\ ConnectivityMatchesSent'
    BY <2>1 DEF TypeOK, ConnectivityMatchesSent, LinkMessages, Ids
  <2>4. cur \notin LinkMessages
    BY <2>1 DEF LinkMessages, Signals
  <2>5. \A r \in events : r.ts <= clock /\ r.ts <= rcvd
    BY <1>1, <1>6 DEF Rows
  <2>6. m.field \notin doubted => Shows(events, m.field, clock, m.value)
    BY <2>1, NoValueAssumption DEF MemoryIsShown, Signals
  <2>7. m.field \notin doubted => Shows(events, m.field, rcvd, m.value)
    BY <1>1, <2>5, <2>6, ShowsAnyLater DEF TypeOK
  <2>8. CommittedIsShown'
    <3> SUFFICES ASSUME NEW c \in committed', sent[c.msg].kind = "signal",
                        sent[c.msg].field \notin doubted
                 PROVE  Shows(events, sent[c.msg].field, c.ts, sent[c.msg].value)
      BY <2>1 DEF CommittedIsShown
    <3>1. CASE c \in committed
      BY <3>1 DEF CommittedIsShown
    <3>2. CASE c = [ts |-> rcvd, msg |-> cur]
      BY <2>7, <3>2
    <3> QED
      BY <1>3, <3>1, <3>2
  <2> QED
    BY <1>4, <1>5, <2>1, <2>2, <2>3, <2>4, <2>5, <2>6, <2>8 DEF MemoryIsShown, TypeOK
<1>9. CASE StoreConnectivity(m)
  <2>1. m \in Links /\ events' = events /\ usage' = usage
        /\ connectivity' = connectivity \cup {LinkRow(cur)}
    BY <1>2, <1>9 DEF StoreConnectivity, LinkRow
  <2>2. connectivity' \in SUBSET LinkRows
    BY <2>1 DEF TypeOK, LinkRow, LinkRows, Links
  <2>3. cur \in LinkMessages
    BY <1>1, <2>1 DEF LinkMessages, Links
  <2>4. ConnectivityMatchesSent'
    BY <2>1, <2>3 DEF ConnectivityMatchesSent, LinkRow, LinkMessages, Ids
  <2>5. m \notin Signals /\ m.kind # "signal"
    BY <2>1 DEF Links, Signals
  <2>6. CommittedIsShown'
    <3> SUFFICES ASSUME NEW c \in committed', sent[c.msg].kind = "signal",
                        sent[c.msg].field \notin doubted
                 PROVE  Shows(events, sent[c.msg].field, c.ts, sent[c.msg].value)
      BY <2>1 DEF CommittedIsShown
    <3>1. c \in committed
      BY <1>3, <2>5
    <3> QED
      BY <3>1 DEF CommittedIsShown
  <2> QED
    BY <1>4, <1>5, <2>1, <2>2, <2>4, <2>5, <2>6 DEF MemoryIsShown, TypeOK, Dated
<1> QED
  BY <1>7, <1>8, <1>9 DEF Transaction

\* Whatever takes the message out of the worker's hands and leaves the tables,
\* the broker's messages and the memory alone, or empties the memory.
LEMMA PutDownInv ==
    ASSUME IInv, UNCHANGED <<sent, broker, dbVars, recording, clock>>,
           delivered' \subseteq delivered,
           pc' = "idle", cur' = 0, rcvd' = 0, faults' \in 0..MaxFaults,
           lastValue' \in {lastValue, [f \in Fields |-> NoValue]}
    PROVE  IInv'
<1> USE DEF IInv, dbVars
<1>1. TypeOK'
  <2>1. lastValue' \in [Fields -> Values \cup {NoValue}]
    BY DEF TypeOK
  <2> QED
    BY <2>1 DEF TypeOK, Ids
<1>2. DoneIsDurable' /\ Dated' /\ DoneLinkIsStored'
  BY DEF DoneIsDurable, Dated, DoneLinkIsStored, Ids
<1>3. ConnectivityMatchesSent' /\ CommittedIsShown'
  BY DEF ConnectivityMatchesSent, CommittedIsShown, LinkMessages, Ids
<1>4. MemoryIsShown' /\ SentIsBounded'
  BY DEF MemoryIsShown, SentIsBounded
<1> QED
  BY <1>1, <1>2, <1>3, <1>4

\* Every step of the car, the broker, the worker and the faults keeps the invariant.
LEMMA NextInv == IInv /\ [Next]_vars => IInv'
<1> SUFFICES ASSUME IInv, [Next]_vars PROVE IInv'
  OBVIOUS
<1> USE DEF IInv, brokerVars, workerVars, dbVars
<1>1. CASE SendSignal
  BY <1>1, PublishInv DEF SendSignal, TypeOK
<1>2. CASE SendConnectivity
  <2>1. /\ [kind |-> "connectivity", connected |-> ~LinkUp, created |-> clock + 1] \in Links
        /\ clock' \in Nat /\ clock <= clock'
    BY <1>2 DEF SendConnectivity, TypeOK, Links
  <2> QED
    BY <1>2, <2>1, PublishInv DEF SendConnectivity
<1>3. CASE SendIgnored
  BY <1>3, PublishInv DEF SendIgnored, TypeOK
<1>4. CASE Receive
  <2> PICK i \in Undelivered : /\ cur' = i /\ delivered' = delivered \cup {i}
                               /\ recording' = Append(recording, [ts |-> clock + 1, msg |-> i])
    BY <1>4 DEF Receive
  <2>1. i \in broker /\ i \in Nat /\ clock + 1 \in Nat /\ clock < clock + 1
    BY DEF Undelivered, TypeOK, Ids
  <2>2. recording' \in Seq(Records)
    BY <2>1 DEF TypeOK, Records
  <2>3. TypeOK'
    BY <1>4, <2>1, <2>2 DEF Receive, TypeOK, Ids
  <2>4. DoneIsDurable' /\ DoneLinkIsStored' /\ SentIsBounded'
    BY <1>4 DEF Receive, DoneIsDurable, DoneLinkIsStored, SentIsBounded
  <2>5. Dated'
    BY <1>4, <2>1 DEF Receive, Dated, TypeOK, Rows, Records, Ids
  <2>6. ConnectivityMatchesSent' /\ CommittedIsShown'
    BY <1>4 DEF Receive, ConnectivityMatchesSent, CommittedIsShown, LinkMessages, Ids
  <2>7. MemoryIsShown'
    <3> SUFFICES ASSUME NEW f \in Fields, lastValue[f] # NoValue, f \notin doubted
                 PROVE  Shows(events, f, clock + 1, lastValue[f])
      BY <1>4 DEF Receive, MemoryIsShown
    <3>1. \A r \in events : r.ts <= clock /\ r.ts <= clock + 1
      BY <2>1 DEF Dated, TypeOK, Rows
    <3> QED
      BY <2>1, <3>1, ShowsAnyLater DEF MemoryIsShown, TypeOK
  <2> QED
    BY <2>3, <2>4, <2>5, <2>6, <2>7
<1>5. CASE Handle
  <2>1. /\ pc = "received" /\ Transaction(sent[cur]) /\ Remember(sent[cur])
        /\ pc' = "done" /\ UNCHANGED <<brokerVars, cur, rcvd, doubted, recording, clock, faults>>
    BY <1>5 DEF Handle
  <2>2. cur \in Ids
    BY <2>1 DEF TypeOK
  <2>3. /\ sent[cur].kind = "signal" => sent[cur] \in Signals
        /\ sent[cur] \in Signals => sent[cur].kind = "signal"
    BY <2>2, TypeKinds DEF Signals
  <2>4. lastValue' \in [Fields -> Values \cup {NoValue}]
    BY <2>1, <2>3 DEF Remember, TypeOK, Signals
  <2>5. TypeOK'
    BY <2>1, <2>4, TransactionInv DEF TypeOK, Ids
  <2>6. DoneIsDurable' /\ Dated' /\ SentIsBounded'
    BY <2>1, TransactionInv DEF DoneIsDurable, Dated, SentIsBounded, Ids
  <2>7. DoneLinkIsStored'
    BY <2>1, TransactionInv DEF DoneLinkIsStored, LinkRow, LinkMessages, Ids
  <2>8. ConnectivityMatchesSent' /\ CommittedIsShown'
    BY <2>1, TransactionInv
  <2>9. MemoryIsShown'
    <3> SUFFICES ASSUME NEW f \in Fields, lastValue'[f] # NoValue, f \notin doubted
                 PROVE  Shows(events', f, clock, lastValue'[f])
      BY <2>1 DEF MemoryIsShown
    <3>1. CASE sent[cur] \in Signals /\ sent[cur].field = f
      <4>1. lastValue'[f] = sent[cur].value
        BY <2>1, <2>3, <3>1 DEF Remember, TypeOK
      <4> QED
        BY <2>1, <3>1, <4>1, TransactionInv
    <3>2. CASE ~(sent[cur] \in Signals /\ sent[cur].field = f)
      <4>1. lastValue'[f] = lastValue[f]
        BY <2>1, <2>3, <3>2 DEF Remember, TypeOK
      <4> QED
        BY <2>1, <3>2, <4>1, TransactionInv
    <3> QED
      BY <3>1, <3>2
  <2> QED
    BY <2>5, <2>6, <2>7, <2>8, <2>9
<1>6. CASE HandleIgnored
  <2>1. cur \in Ids /\ cur \in Nat /\ rcvd \in Nat /\ rcvd <= clock /\ sent[cur].kind = "ignored"
    BY <1>6 DEF HandleIgnored, TypeOK, Ids
  <2>2. committed' = committed \cup {[ts |-> rcvd, msg |-> cur]} /\ [ts |-> rcvd, msg |-> cur] \in Records
    BY <1>6, <2>1 DEF HandleIgnored, CommitDelivery, Records
  <2>3. TypeOK'
    BY <1>6, <2>2 DEF HandleIgnored, TypeOK, Ids
  <2>4. DoneIsDurable' /\ Dated' /\ SentIsBounded'
    BY <1>6, <2>1, <2>2 DEF HandleIgnored, DoneIsDurable, Dated, Accepted, SentIsBounded, Ids
  <2>5. DoneLinkIsStored' /\ ConnectivityMatchesSent' /\ MemoryIsShown'
    BY <1>6, <2>1 DEF HandleIgnored, DoneLinkIsStored, ConnectivityMatchesSent, MemoryIsShown,
                      LinkMessages, Ids
  <2>6. CommittedIsShown'
    BY <1>6, <2>1, <2>2 DEF HandleIgnored, CommittedIsShown
  <2> QED
    BY <2>3, <2>4, <2>5, <2>6
<1>7. CASE Ack
  <2>1. TypeOK'
    BY <1>7 DEF Ack, TypeOK, Ids
  <2>2. DoneIsDurable' /\ Dated' /\ DoneLinkIsStored'
    BY <1>7 DEF Ack, DoneIsDurable, Dated, DoneLinkIsStored, Ids
  <2>3. cur \in LinkMessages => LinkRow(cur) \in connectivity
    BY <1>7 DEF Ack, DoneLinkIsStored
  <2>4. ConnectivityMatchesSent'
    BY <1>7, <2>3 DEF Ack, ConnectivityMatchesSent, LinkRow, LinkMessages, Ids
  <2>5. MemoryIsShown' /\ CommittedIsShown' /\ SentIsBounded'
    BY <1>7 DEF Ack, MemoryIsShown, CommittedIsShown, SentIsBounded
  <2> QED
    BY <2>1, <2>2, <2>4, <2>5
<1>8. CASE HandleFails
  BY <1>8, PutDownInv, BoundAssumption DEF HandleFails, Fault, TypeOK
<1>9. CASE CommitUnknown
  <2>1. /\ pc = "received" /\ Transaction(sent[cur])
        /\ doubted' = doubted \cup {f \in Fields : sent[cur] \in Signals /\ sent[cur].field = f}
        /\ pc' = "idle" /\ cur' = 0 /\ rcvd' = 0
        /\ UNCHANGED <<brokerVars, lastValue, recording, clock>>
        /\ faults' \in 0..MaxFaults
    BY <1>9, BoundAssumption DEF CommitUnknown, Fault, TypeOK
  <2>2. TypeOK'
    BY <2>1, TransactionInv DEF TypeOK, Ids
  <2>3. DoneIsDurable' /\ Dated' /\ DoneLinkIsStored'
    BY <2>1, TransactionInv DEF DoneIsDurable, Dated, DoneLinkIsStored, Ids
  <2>4. ConnectivityMatchesSent' /\ CommittedIsShown'
    BY <2>1, TransactionInv
  <2>5. MemoryIsShown' /\ SentIsBounded'
    BY <2>1, TransactionInv DEF MemoryIsShown, SentIsBounded
  <2> QED
    BY <2>2, <2>3, <2>4, <2>5
<1>10. CASE RecorderFails
  <2>1. /\ delivered' \subseteq broker /\ faults' \in 0..MaxFaults /\ pc = "idle"
        /\ UNCHANGED <<sent, broker, workerVars, dbVars, recording, clock>>
    BY <1>10, BoundAssumption DEF RecorderFails, Fault, TypeOK, Undelivered
  <2>2. TypeOK'
    BY <2>1 DEF TypeOK, Ids
  <2> QED
    BY <2>1, <2>2 DEF DoneIsDurable, Dated, DoneLinkIsStored, ConnectivityMatchesSent,
                      MemoryIsShown, CommittedIsShown, SentIsBounded, LinkMessages, LinkRow,
                      Ids, Accepted
<1>11. CASE Crash
  BY <1>11, PutDownInv, BoundAssumption DEF Crash, Fault, TypeOK
<1>12. CASE Drop
  BY <1>12, PutDownInv, BoundAssumption DEF Drop, Fault, TypeOK
<1>13. CASE UNCHANGED vars
  BY <1>13 DEF vars, TypeOK, DoneIsDurable, Dated, DoneLinkIsStored, ConnectivityMatchesSent,
               MemoryIsShown, CommittedIsShown, SentIsBounded, LinkMessages, LinkRow,
                      Ids, Accepted
<1> QED
  BY <1>1, <1>2, <1>3, <1>4, <1>5, <1>6, <1>7, <1>8, <1>9, <1>10, <1>11, <1>12, <1>13 DEF Next

-----------------------------------------------------------------------------
\* The invariant of worker, broker and tables that the others follow from.
THEOREM Invariance == Spec => []IInv
<1>1. Init => IInv
  BY InitInv
<1>2. IInv /\ [Next]_vars => IInv'
  BY NextInv
<1> QED
  BY <1>1, <1>2, PTL DEF Spec

\* Types, and that on_message works only on a delivered, unacknowledged message.
THEOREM TypeCorrect == Spec => []TypeOK
<1>1. IInv => TypeOK
  BY DEF IInv
<1> QED
  BY <1>1, Invariance, PTL

\* The memory that lets the worker skip a repeated value never makes it skip one
\* that the table does not show.
THEOREM NothingSkipped == Spec => []CommittedIsShown
<1>1. IInv => CommittedIsShown
  BY DEF IInv
<1> QED
  BY <1>1, Invariance, PTL

\* connectivity_events is what was published: all of it that is acknowledged, and
\* nothing more.
THEOREM LinksMatch == Spec => []ConnectivityMatchesSent
<1>1. IInv => ConnectivityMatchesSent
  BY DEF IInv
<1> QED
  BY <1>1, Invariance, PTL

\* Ingest implements AtLeastOnce: publishing offers a message, a commit accepts
\* it, an acknowledgement forgets it, and everything else stutters.
THEOREM Implements == Spec => KeepsPromise
<1> USE DEF Promise!vars
<1>1. Init => Promise!Init
  BY DEF Init, Promise!Init, Ids, Accepted
<1>2. IInv /\ [Next]_vars => [Promise!Next]_(Promise!vars)
  <2> SUFFICES ASSUME IInv, [Next]_vars PROVE Promise!Next \/ UNCHANGED <<Ids, broker, Accepted>>
    OBVIOUS
  <2> USE DEF brokerVars, workerVars, dbVars
  <2>1. ASSUME NEW m, Publish(m) PROVE Promise!Next
    <3>1. Len(sent') = Len(sent) + 1 /\ Len(sent) \in Nat
      BY <2>1 DEF Publish, IInv, TypeOK
    <3>2. Len(sent) + 1 \in 1..MaxSent
      BY <2>1, <3>1, BoundAssumption DEF Publish
    <3>3. Promise!Offer(Len(sent) + 1)
      BY <2>1, <3>1 DEF Promise!Offer, Publish, Ids, Accepted
    <3> QED
      BY <3>2, <3>3 DEF Promise!Next
  <2>2. ASSUME pc = "received", CommitDelivery, UNCHANGED <<sent, broker>>, cur \in 1..MaxSent
        PROVE  Promise!Next
    <3>1. Promise!Accept(cur)
      <4> DEFINE new == [ts |-> rcvd, msg |-> cur]
      <4>1. committed' = committed \cup {new} /\ new.msg = cur
        BY <2>2 DEF CommitDelivery
      <4>2. Accepted' = Accepted \cup {cur}
        <5> HIDE DEF new
        <5> QED
          BY <4>1 DEF Accepted
      <4>3. cur \in broker /\ Ids' = Ids
        BY <2>2 DEF IInv, TypeOK, Ids
      <4> QED
        BY <2>2, <4>2, <4>3 DEF Promise!Accept
    <3> QED
      BY <2>2, <3>1 DEF Promise!Next
  <2>3. pc # "idle" => cur \in 1..MaxSent
    BY BoundAssumption DEF IInv, TypeOK, SentIsBounded, Ids
  <2>4. CASE SendSignal \/ SendConnectivity \/ SendIgnored
    BY <2>1, <2>4 DEF SendSignal, SendConnectivity, SendIgnored
  <2>5. CASE Handle \/ HandleIgnored \/ CommitUnknown
    BY <2>2, <2>3, <2>5 DEF Handle, HandleIgnored, CommitUnknown, Transaction, StoreSignal,
       CountRepeat,
                       StoreConnectivity
  <2>6. CASE Ack
    <3>1. Promise!Forget(cur)
      BY <2>6 DEF Ack, Promise!Forget, IInv, TypeOK, DoneIsDurable, Accepted, Ids
    <3> QED
      BY <2>3, <2>6, <3>1 DEF Ack, Promise!Next
  <2>7. CASE Receive \/ HandleFails \/ RecorderFails \/ Crash \/ Drop \/ UNCHANGED vars
    BY <2>7 DEF Receive, HandleFails, RecorderFails, Crash, Drop, vars, Ids, Accepted
  <2> QED
    BY <2>4, <2>5, <2>6, <2>7 DEF Next
<1> QED
  BY <1>1, <1>2, Invariance, PTL DEF Spec, KeepsPromise, Promise!Spec

-----------------------------------------------------------------------------
(* What was counted.                                                       *)

\* The signals of field f that were committed at least once.
CommittedOf(f) == {i \in Accepted : sent[i].kind = "signal" /\ sent[i].field = f}

\* What the broker forgot was committed, and what was committed was counted.
CountInv ==
    /\ Ids \ broker \subseteq Accepted
    /\ \A f \in Fields : /\ IsFiniteSet(CommittedOf(f)) /\ Cardinality(CommittedOf(f)) \in Nat
                         /\ Cardinality(CommittedOf(f)) <= usage[f]

LEMMA CountInit == Init => CountInv
<1> SUFFICES ASSUME Init PROVE CountInv
  OBVIOUS
<1>1. Accepted = {} /\ Ids = {} /\ \A f \in Fields : CommittedOf(f) = {}
  BY DEF Init, Accepted, Ids, CommittedOf
<1>2. \A f \in Fields : usage[f] = 0
  BY DEF Init
<1> QED
  BY <1>1, <1>2, FS_EmptySet DEF CountInv

\* A transaction counts the signal it commits.
LEMMA CountCommit ==
    ASSUME IInv, CountInv, pc = "received", CommitDelivery, UNCHANGED <<sent, broker>>,
           \/ /\ sent[cur].kind = "signal"
              /\ usage' = [usage EXCEPT ![sent[cur].field] = @ + 1]
           \/ sent[cur].kind # "signal" /\ usage' = usage
    PROVE  CountInv'
<1>1. Accepted' = Accepted \cup {cur}
  <2> DEFINE new == [ts |-> rcvd, msg |-> cur]
  <2>1. committed' = committed \cup {new} /\ new.msg = cur
    BY DEF CommitDelivery
  <2> HIDE DEF new
  <2> QED
    BY <2>1 DEF Accepted
<1>2. (Ids \ broker)' \subseteq Accepted'
  BY <1>1 DEF CountInv, Ids
<1>3. ASSUME NEW f \in Fields
      PROVE  /\ IsFiniteSet(CommittedOf(f)') /\ Cardinality(CommittedOf(f)') \in Nat
             /\ Cardinality(CommittedOf(f)') <= usage'[f]
  <2>1. /\ IsFiniteSet(CommittedOf(f)) /\ Cardinality(CommittedOf(f)) \in Nat
        /\ Cardinality(CommittedOf(f)) <= usage[f] /\ usage[f] \in Nat
    BY DEF CountInv, IInv, TypeOK
  <2>2. CASE sent[cur].kind = "signal" /\ sent[cur].field = f
    <3>1. CommittedOf(f)' = CommittedOf(f) \cup {cur}
      BY <1>1, <2>2 DEF CommittedOf
    <3>2. usage'[f] = usage[f] + 1
      BY <2>2 DEF IInv, TypeOK
    <3>3. /\ IsFiniteSet(CommittedOf(f) \cup {cur})
          /\ \/ Cardinality(CommittedOf(f) \cup {cur}) = Cardinality(CommittedOf(f))
             \/ Cardinality(CommittedOf(f) \cup {cur}) = Cardinality(CommittedOf(f)) + 1
      BY <2>1, FS_AddElement
    <3> QED
      BY <2>1, <3>1, <3>2, <3>3
  <2>3. CASE ~(sent[cur].kind = "signal" /\ sent[cur].field = f)
    <3>1. CommittedOf(f)' = CommittedOf(f)
      BY <1>1, <2>3 DEF CommittedOf
    <3>2. usage'[f] = usage[f]
      BY <2>3 DEF IInv, TypeOK
    <3> QED
      BY <2>1, <3>1, <3>2
  <2> QED
    BY <2>2, <2>3
<1> QED
  BY <1>2, <1>3 DEF CountInv

LEMMA CountNext == IInv /\ CountInv /\ [Next]_vars => CountInv'
<1> SUFFICES ASSUME IInv, CountInv, [Next]_vars PROVE CountInv'
  OBVIOUS
<1> USE DEF brokerVars, workerVars, dbVars
<1>0. Accepted \subseteq Ids /\ Len(sent) \in Nat
  BY DEF IInv, Dated, TypeOK, Accepted
<1>1. ASSUME NEW m, Publish(m) PROVE CountInv'
  <2>1. /\ \A i \in Ids : sent'[i] = sent[i]
        /\ Ids' = Ids \cup {Len(sent) + 1} /\ broker' = broker \cup {Len(sent) + 1}
        /\ Accepted' = Accepted /\ usage' = usage
    <3>1. Len(sent') = Len(sent) + 1 /\ \A i \in Ids : sent'[i] = sent[i]
      BY <1>1 DEF Publish, IInv, TypeOK, Ids
    <3> QED
      BY <1>0, <1>1, <3>1 DEF Publish, Accepted, Ids
  <2>2. \A f \in Fields : CommittedOf(f)' = CommittedOf(f)
    BY <1>0, <2>1 DEF CommittedOf
  <2> QED
    BY <2>1, <2>2 DEF CountInv
<1>2. CASE SendSignal \/ SendConnectivity \/ SendIgnored
  BY <1>1, <1>2 DEF SendSignal, SendConnectivity, SendIgnored
<1>3. CASE Handle \/ CommitUnknown
  BY <1>3, CountCommit DEF Handle, CommitUnknown, Transaction, StoreSignal, CountRepeat,
                           StoreConnectivity
<1>4. CASE HandleIgnored
  BY <1>4, CountCommit DEF HandleIgnored
<1>5. CASE Ack
  <2>1. Ids' = Ids /\ Accepted' = Accepted /\ broker' = broker \ {cur} /\ cur \in Accepted
    BY <1>5 DEF Ack, Ids, Accepted, IInv, DoneIsDurable
  <2>2. \A f \in Fields : CommittedOf(f)' = CommittedOf(f)
    BY <1>5, <2>1 DEF Ack, CommittedOf
  <2> QED
    BY <1>5, <2>1, <2>2 DEF Ack, CountInv
<1>6. CASE Receive \/ HandleFails \/ RecorderFails \/ Crash \/ Drop \/ UNCHANGED vars
  <2>1. UNCHANGED <<sent, broker, committed, usage>>
    BY <1>6 DEF Receive, HandleFails, RecorderFails, Crash, Drop, vars
  <2>2. Ids' = Ids /\ Accepted' = Accepted
    BY <2>1 DEF Ids, Accepted
  <2>3. \A f \in Fields : CommittedOf(f)' = CommittedOf(f)
    BY <2>1, <2>2 DEF CommittedOf
  <2> QED
    BY <2>1, <2>2, <2>3 DEF CountInv
<1> QED
  BY <1>2, <1>3, <1>4, <1>5, <1>6 DEF Next

\* The counts that the billing check reads cover every signal that the broker
\* forgot, whether or not it left a row.
THEOREM Counted == Spec => []UsageCoversAcked
<1>1. Init => CountInv
  BY CountInit
<1>2. IInv /\ CountInv /\ [Next]_vars => CountInv'
  BY CountNext
<1>3. IInv /\ CountInv => UsageCoversAcked
  <2> SUFFICES ASSUME IInv, CountInv, NEW f \in Fields
               PROVE  usage[f] >= Cardinality({i \in Ids \ broker : sent[i].kind = "signal"
                                                                    /\ sent[i].field = f})
    BY DEF UsageCoversAcked
  <2> DEFINE A == {i \in Ids \ broker : sent[i].kind = "signal" /\ sent[i].field = f}
  <2>1. A \in SUBSET CommittedOf(f)
    BY DEF CountInv, CommittedOf
  <2>2. IsFiniteSet(A) /\ Cardinality(A) <= Cardinality(CommittedOf(f))
    BY <2>1, FS_Subset DEF CountInv
  <2>3. Cardinality(A) \in Nat
    BY <2>2, FS_CardinalityType
  <2> QED
    BY <2>2, <2>3 DEF CountInv, IInv, TypeOK
<1> QED
  BY <1>1, <1>2, <1>3, Invariance, PTL DEF Spec

-----------------------------------------------------------------------------
(* CarryForward: what the reducer answers from the rows.                   *)

\* A row is the value of a signal that was committed at its instant.
RowsStem ==
    \A r \in events : \E c \in committed :
        c.ts = r.ts /\ c.msg \in SignalsOf(r.field) /\ sent[c.msg].value = r.value

\* No two transactions were stamped with the same instant.
CommitsApart == \A c, d \in committed : c.ts = d.ts => c = d

\* fleet-telemetry stamps connectivity records in the order it publishes them,
LinksInOrder ==
    \A j \in LinkMessages :
        /\ sent[j].created \in Nat /\ sent[j].created <= clock
        /\ \A k \in LinkMessages : k < j => sent[k].created < sent[j].created

\* and they tell of a link that goes down and up in turn.
LinksAlternate ==
    \A j, k \in LinkMessages :
        k < j /\ (\A l \in LinkMessages : l <= k \/ j <= l)
        => sent[k].connected # sent[j].connected

\* A message is handled later than any disconnect it was sent after.
After(c) == \A j \in LinkMessages : /\ sent[j].created # c.ts
                                    /\ j < c.msg => sent[j].created < c.ts
HandledAfter ==
    /\ \A c \in committed : After(c)
    /\ pc = "received" => After([ts |-> rcvd, msg |-> cur])

CInv == RowsStem /\ CommitsApart /\ LinksInOrder /\ LinksAlternate /\ HandledAfter

-----------------------------------------------------------------------------
\* A fresh deployment satisfies the invariant.
LEMMA CarryInit == Init => CInv
BY DEF Init, CInv, RowsStem, CommitsApart, LinksInOrder, LinksAlternate, HandledAfter,
       LinkMessages, Ids

\* Whatever neither publishes nor commits, and leaves no message in hand.
LEMMA CarryQuiet ==
    ASSUME IInv, CInv, UNCHANGED <<sent, events, committed>>, clock' \in Nat, clock <= clock',
           pc' # "received"
    PROVE  CInv'
<1>1. LinkMessages' = LinkMessages /\ \A f : SignalsOf(f)' = SignalsOf(f)
  BY DEF LinkMessages, SignalsOf, Ids
<1>2. RowsStem' /\ CommitsApart' /\ LinksAlternate'
  BY <1>1 DEF CInv, RowsStem, CommitsApart, LinksAlternate
<1>3. LinksInOrder'
  BY <1>1 DEF CInv, LinksInOrder, IInv, TypeOK
<1>4. HandledAfter'
  BY <1>1 DEF CInv, HandledAfter, After
<1> QED
  BY <1>2, <1>3, <1>4 DEF CInv

\* A new message: fleet-telemetry's last link record precedes the next one.
LEMMA CarryPublish ==
    ASSUME IInv, CInv, NEW m \in Signals \cup Links \cup Ignored, Publish(m),
           \/ m.kind # "connectivity" /\ clock' = clock
           \/ /\ m.kind = "connectivity" /\ m.created = clock + 1 /\ clock' = clock + 1
              /\ m.connected = ~LinkUp
    PROVE  CInv'
<1> DEFINE new == Len(sent) + 1
<1> USE DEF workerVars, dbVars
<1>1. /\ sent' = Append(sent, m) /\ Len(sent') = new /\ sent'[new] = m
      /\ \A i \in Ids : sent'[i] = sent[i]
      /\ UNCHANGED <<events, committed, pc, rcvd, cur>>
  BY DEF Publish, IInv, TypeOK, Ids
<1>2. new \in Nat /\ Ids' = Ids \cup {new} /\ \A i \in Ids : i \in Nat /\ i < new
  BY <1>1 DEF Ids, IInv, TypeOK
<1>3. clock \in Nat /\ clock' \in Nat /\ clock <= clock'
  BY DEF IInv, TypeOK
<1>4. \A i \in Ids : i \in LinkMessages' <=> i \in LinkMessages
  BY <1>1, <1>2 DEF LinkMessages
<1>5. \A j \in LinkMessages' : j \in LinkMessages \/ (j = new /\ m.kind = "connectivity")
  BY <1>1, <1>2 DEF LinkMessages
<1>6. \A j \in LinkMessages : j \in Ids /\ j \in LinkMessages' /\ sent'[j] = sent[j]
  BY <1>1, <1>4 DEF LinkMessages
<1>7. RowsStem'
  <2>1. \A f : \A i \in SignalsOf(f) : i \in SignalsOf(f)' /\ sent'[i] = sent[i]
    BY <1>1, <1>2 DEF SignalsOf
  <2>2. ASSUME NEW r \in events
        PROVE  \E c \in committed : /\ c.ts = r.ts /\ c.msg \in SignalsOf(r.field)'
                                    /\ sent'[c.msg].value = r.value
    <3>1. PICK c \in committed : /\ c.ts = r.ts /\ c.msg \in SignalsOf(r.field)
                                 /\ sent[c.msg].value = r.value
      BY DEF CInv, RowsStem
    <3> QED
      BY <2>1, <3>1
  <2> QED
    BY <1>1, <2>2 DEF RowsStem
<1>8. CommitsApart'
  BY <1>1 DEF CInv, CommitsApart
<1>9. LinksInOrder'
  <2> SUFFICES ASSUME NEW j \in LinkMessages'
               PROVE  /\ sent'[j].created \in Nat /\ sent'[j].created <= clock'
                      /\ \A k \in LinkMessages' : k < j => sent'[k].created < sent'[j].created
    BY DEF LinksInOrder
  <2>1. CASE j \in LinkMessages
    <3>1. sent[j].created \in Nat /\ sent[j].created <= clock /\ sent'[j] = sent[j] /\ j < new
      BY <1>2, <1>6, <2>1 DEF CInv, LinksInOrder
    <3>2. ASSUME NEW k \in LinkMessages', k < j PROVE k \in LinkMessages
      BY <1>2, <1>5, <1>6, <2>1, <3>2
    <3>3. \A k \in LinkMessages : k < j => sent[k].created < sent[j].created
      BY <2>1 DEF CInv, LinksInOrder
    <3> QED
      BY <1>3, <1>6, <3>1, <3>2, <3>3
  <2>2. CASE j = new /\ m.kind = "connectivity"
    <3>1. sent'[j].created = clock + 1 /\ clock' = clock + 1
      BY <1>1, <2>2
    <3>2. ASSUME NEW k \in LinkMessages', k < j PROVE k \in LinkMessages
      BY <1>2, <1>5, <2>2, <3>2
    <3>3. \A k \in LinkMessages : sent'[k].created \in Nat /\ sent'[k].created <= clock
      BY <1>6 DEF CInv, LinksInOrder
    <3> QED
      BY <1>3, <3>1, <3>2, <3>3
  <2> QED
    BY <1>5, <2>1, <2>2
<1>10. LinksAlternate'
  <2> SUFFICES ASSUME NEW j \in LinkMessages', NEW k \in LinkMessages', k < j,
                      \A l \in LinkMessages' : l <= k \/ j <= l
               PROVE  sent'[k].connected # sent'[j].connected
    BY DEF LinksAlternate
  <2>1. k \in LinkMessages
    BY <1>2, <1>5, <1>6
  <2>2. \A l \in LinkMessages : l <= k \/ j <= l
    BY <1>6
  <2>3. CASE j \in LinkMessages
    BY <1>6, <2>1, <2>2, <2>3 DEF CInv, LinksAlternate
  <2>4. CASE j = new /\ m.kind = "connectivity"
    <3>1. \A l \in LinkMessages : l <= k
      BY <1>2, <1>6, <2>2, <2>4
    <3>2. LinkUp <=> sent[k].connected
      <4>1. \A i \in LinkMessages : (\A l \in LinkMessages : l <= i) => i = k
        BY <1>2, <1>6, <2>1, <3>1
      <4> QED
        BY <2>1, <3>1, <4>1 DEF LinkUp
    <3>3. sent[k].connected \in BOOLEAN
      BY <1>6, <2>1, TypeKinds DEF IInv, LinkMessages, Links
    <3> QED
      BY <1>1, <1>6, <2>1, <2>4, <3>2, <3>3
  <2> QED
    BY <1>5, <2>3, <2>4
<1>11. HandledAfter'
  <2>1. ASSUME NEW c \in Records, c.ts <= clock, c.msg \in Ids, After(c)
        PROVE  After(c)'
    <3> SUFFICES ASSUME NEW j \in LinkMessages'
                 PROVE  sent'[j].created # c.ts /\ (j < c.msg => sent'[j].created < c.ts)
      BY DEF After
    <3>1. CASE j \in LinkMessages
      BY <1>6, <2>1, <3>1 DEF After
    <3>2. CASE j = new /\ m.kind = "connectivity"
      BY <1>1, <1>2, <1>3, <2>1, <3>2 DEF Records
    <3> QED
      BY <1>5, <3>1, <3>2
  <2>2. \A c \in committed : c \in Records /\ c.ts <= clock /\ c.msg \in Ids /\ After(c)
    BY DEF IInv, TypeOK, Dated, CInv, HandledAfter
  <2>3. pc = "received" => After([ts |-> rcvd, msg |-> cur])'
    <3> SUFFICES ASSUME pc = "received", NEW j \in LinkMessages'
                 PROVE  sent'[j].created # rcvd /\ (j < cur => sent'[j].created < rcvd)
      BY <1>1 DEF After
    <3>1. rcvd \in Nat /\ rcvd <= clock /\ cur \in Ids
      BY DEF IInv, TypeOK, Ids
    <3>2. CASE j \in LinkMessages
      BY <1>6, <3>2 DEF CInv, HandledAfter, After
    <3>3. CASE j = new /\ m.kind = "connectivity"
      BY <1>1, <1>2, <1>3, <3>1, <3>3
    <3> QED
      BY <1>5, <3>2, <3>3
  <2> QED
    BY <1>1, <2>1, <2>2, <2>3 DEF HandledAfter, After
<1> QED
  BY <1>7, <1>8, <1>9, <1>10, <1>11 DEF CInv

\* A commit is stamped with the instant its message was received.
LEMMA CarryCommit ==
    ASSUME IInv, CInv, pc = "received", CommitDelivery, UNCHANGED <<sent, clock>>,
           pc' # "received",
           \/ events' = events
           \/ sent[cur].kind = "signal" /\ events' = Inserted(events, sent[cur], rcvd)
    PROVE  CInv'
<1> DEFINE new == [ts |-> rcvd, msg |-> cur]
<1>1. cur \in Ids /\ rcvd \in Nat /\ committed' = committed \cup {new}
      /\ (\A c \in committed : c.ts < rcvd /\ c.ts \in Nat)
  BY DEF IInv, TypeOK, Ids, Dated, CommitDelivery, Records
<1>2. LinkMessages' = LinkMessages /\ \A f : SignalsOf(f)' = SignalsOf(f)
  BY DEF LinkMessages, SignalsOf, Ids
<1>3. RowsStem'
  <2> SUFFICES ASSUME NEW r \in events'
               PROVE  \E c \in committed' : /\ c.ts = r.ts /\ c.msg \in SignalsOf(r.field)
                                            /\ sent[c.msg].value = r.value
    BY <1>2 DEF RowsStem
  <2>1. CASE r \in events
    BY <1>1, <2>1 DEF CInv, RowsStem
  <2>2. CASE r \notin events
    <3>1. /\ sent[cur].kind = "signal"
          /\ r = [field |-> sent[cur].field, ts |-> rcvd, value |-> sent[cur].value]
      BY <2>2 DEF Inserted
    <3>2. cur \in SignalsOf(r.field) /\ r.ts = rcvd /\ r.value = sent[cur].value
      BY <1>1, <3>1 DEF SignalsOf
    <3>3. new \in committed' /\ new.ts = rcvd /\ new.msg = cur
      BY <1>1
    <3> QED
      BY <3>2, <3>3
  <2> QED
    BY <2>1, <2>2
<1>4. CommitsApart'
  BY <1>1 DEF CInv, CommitsApart
<1>5. LinksInOrder' /\ LinksAlternate'
  BY <1>2 DEF CInv, LinksInOrder, LinksAlternate
<1>6. HandledAfter'
  BY <1>1, <1>2 DEF CInv, HandledAfter, After
<1> QED
  BY <1>3, <1>4, <1>5, <1>6 DEF CInv

\* Every step keeps the invariant.
LEMMA CarryNext == IInv /\ CInv /\ [Next]_vars => CInv'
<1> SUFFICES ASSUME IInv, CInv, [Next]_vars PROVE CInv'
  OBVIOUS
<1> USE DEF brokerVars, workerVars, dbVars
<1>0. clock \in Nat
  BY DEF IInv, TypeOK
<1>1. CASE SendSignal
  BY <1>1, CarryPublish DEF SendSignal, Signals
<1>2. CASE SendConnectivity
  <2>1. [kind |-> "connectivity", connected |-> ~LinkUp, created |-> clock + 1] \in Links
    BY <1>0 DEF Links
  <2> QED
    BY <1>2, <2>1, CarryPublish DEF SendConnectivity
<1>3. CASE SendIgnored
  BY <1>3, CarryPublish DEF SendIgnored, Ignored
<1>4. CASE Receive
  <2>1. /\ clock' = clock + 1 /\ rcvd' = clock + 1 /\ UNCHANGED <<sent, events, committed>>
    BY <1>4 DEF Receive
  <2>2. LinkMessages' = LinkMessages /\ \A f : SignalsOf(f)' = SignalsOf(f)
    BY <2>1 DEF LinkMessages, SignalsOf, Ids
  <2>3. RowsStem' /\ CommitsApart' /\ LinksAlternate'
    BY <2>1, <2>2 DEF CInv, RowsStem, CommitsApart, LinksAlternate
  <2>4. LinksInOrder'
    BY <1>0, <2>1, <2>2 DEF CInv, LinksInOrder
  <2>5. HandledAfter'
    <3>1. \A j \in LinkMessages : sent[j].created \in Nat /\ sent[j].created <= clock
      BY DEF CInv, LinksInOrder
    <3>2. \A j \in LinkMessages : sent[j].created # rcvd' /\ sent[j].created < rcvd'
      BY <1>0, <2>1, <3>1
    <3> QED
      BY <2>1, <2>2, <3>2 DEF CInv, HandledAfter, After
  <2> QED
    BY <2>3, <2>4, <2>5 DEF CInv
<1>5. CASE Handle \/ CommitUnknown
  BY <1>5, CarryCommit DEF Handle, CommitUnknown, Transaction, StoreSignal, CountRepeat,
     StoreConnectivity
<1>6. CASE HandleIgnored
  BY <1>6, CarryCommit DEF HandleIgnored
<1>7. CASE Ack \/ HandleFails \/ RecorderFails \/ Crash \/ Drop
  BY <1>0, <1>7, CarryQuiet DEF Ack, HandleFails, RecorderFails, Crash, Drop
<1>8. CASE UNCHANGED vars
  BY <1>8 DEF vars, CInv, RowsStem, CommitsApart, LinksInOrder, LinksAlternate, HandledAfter,
              After, LinkMessages, SignalsOf, Ids
<1> QED
  BY <1>1, <1>2, <1>3, <1>4, <1>5, <1>6, <1>7, <1>8 DEF Next

\* Worker, tables and the connection's history, in every state.
THEOREM CarryInvariance == Spec => [](IInv /\ CInv)
<1>1. Init => CInv
  BY CarryInit
<1>2. IInv /\ CInv /\ [Next]_vars => CInv'
  BY CarryNext
<1> QED
  BY <1>1, <1>2, Invariance, PTL DEF Spec

-----------------------------------------------------------------------------
(* With everything acknowledged, what the rows say.                        *)

\* The reducer is told of every disconnect that was published: no row between a
\* disconnect and the connection before it is missing.
LEMMA EveryDisconnectCounts ==
    ASSUME IInv, CInv, broker = {}, NEW j \in LinkMessages, ~sent[j].connected
    PROVE  sent[j].created \in Disconnects
<1>1. \A i \in LinkMessages : LinkRow(i) \in connectivity
  BY DEF IInv, ConnectivityMatchesSent, LinkRow
<1>2. connectivity \subseteq {LinkRow(i) : i \in LinkMessages}
  BY DEF IInv, ConnectivityMatchesSent, LinkRow
<1>3. \A i \in LinkMessages : i \in Nat /\ sent[i].created \in Nat
  BY DEF CInv, LinksInOrder, LinkMessages, Ids
<1>4. \A i, k \in LinkMessages : i < k => sent[i].created < sent[k].created
  BY DEF CInv, LinksInOrder
<1>5. ASSUME NEW q \in connectivity, q.ts < LinkRow(j).ts,
             \A p \in connectivity : p.ts < LinkRow(j).ts => p.ts <= q.ts
      PROVE  q.connected
  <2>1. PICK k \in LinkMessages : q = LinkRow(k)
    BY <1>2
  <2>2. sent[k].created < sent[j].created /\ q.connected = sent[k].connected
    BY <1>5, <2>1 DEF LinkRow
  <2>3. k < j
    <3>1. CASE j < k
      BY <1>3, <1>4, <2>2, <3>1
    <3>2. CASE j = k
      BY <1>3, <2>2, <3>2
    <3> QED
      BY <1>3, <3>1, <3>2
  <2>4. ASSUME NEW l \in LinkMessages, k < l, l < j
        PROVE  FALSE
    <3>1. sent[k].created < sent[l].created /\ sent[l].created < sent[j].created
      BY <1>4, <2>4
    <3>2. sent[l].created <= sent[k].created
      BY <1>1, <1>5, <2>1, <3>1 DEF LinkRow
    <3> QED
      BY <1>3, <3>1, <3>2
  <2>5. \A l \in LinkMessages : l <= k \/ j <= l
    BY <1>3, <2>4
  <2>6. sent[k].connected # sent[j].connected
    BY <2>3, <2>5 DEF CInv, LinksAlternate
  <2>7. sent[k].connected \in BOOLEAN /\ sent[j].connected \in BOOLEAN
    BY TypeKinds DEF IInv, LinkMessages, Links
  <2>8. sent[k].connected = TRUE
    BY <2>6, <2>7
  <2> QED
    BY <2>2, <2>8
<1>6. LinkRow(j) \in {d \in connectivity :
         /\ ~d.connected
         /\ \A q \in connectivity :
             /\ q.ts < d.ts
             /\ \A p \in connectivity : p.ts < d.ts => p.ts <= q.ts
             => q.connected}
  BY <1>1, <1>5 DEF LinkRow
<1>7. LinkRow(j).ts = sent[j].created
  BY DEF LinkRow
<1> QED
  BY <1>6, <1>7 DEF Disconnects

\* A value the reducer still knows was sent in the present connection, or its
\* message was overtaken by the disconnect.
LEMMA StaleIfOvertaken == IInv /\ CInv => StaleOnlyIfOvertaken
<1> SUFFICES ASSUME IInv, CInv, broker = {}, NEW f \in Fields, NEW v \in Values,
                    Known(f, clock, v)
             PROVE  \E i \in SignalsOf(f) :
                       sent[i].value = v /\ (OfThisConnection(i) \/ Overtaken(i))
  BY DEF StaleOnlyIfOvertaken
<1>1. PICK r \in NewestRows(f, clock) : r.value = v /\ Valid(r, clock)
  BY DEF Known
<1>2. r \in events /\ r.field = f /\ r.ts \in Nat
  BY DEF NewestRows, IInv, TypeOK, Rows
<1>3. PICK c \in committed : c.ts = r.ts /\ c.msg \in SignalsOf(f) /\ sent[c.msg].value = v
  BY <1>1, <1>2 DEF CInv, RowsStem
<1>4. ASSUME ~OfThisConnection(c.msg) PROVE Overtaken(c.msg)
  <2>1. PICK j \in LinkMessages : ~sent[j].connected /\ ~(j < c.msg)
    BY <1>4 DEF OfThisConnection
  <2>2. c.msg < j
    <3>1. j \in Nat /\ c.msg \in Nat /\ j # c.msg
      BY <1>3 DEF SignalsOf, LinkMessages, Ids
    <3> QED
      BY <2>1, <3>1
  <2>3. sent[j].created \in Nat /\ sent[j].created <= clock /\ clock \in Nat
    BY DEF CInv, LinksInOrder, IInv, TypeOK
  <2>4. sent[j].created \in Disconnects
    BY <2>1, EveryDisconnectCounts
  <2>5. sent[j].created \notin r.ts..clock
    BY <1>1, <2>4 DEF Valid
  <2>6. sent[j].created < c.ts
    BY <1>2, <1>3, <2>3, <2>5
  <2> QED
    BY <2>1, <2>2, <2>6 DEF Overtaken
<1> QED
  BY <1>3, <1>4

\* The value of the last commit of a field is known if it was sent in the present
\* connection and no transaction before the disconnect had handled it too.
LEMMA KnownIfNotResent == IInv /\ CInv => KnownUnlessResent
<1> SUFFICES ASSUME IInv, CInv, broker = {}, NEW f \in Fields \ doubted, NEW c \in committed,
                    c.msg \in SignalsOf(f), OfThisConnection(c.msg), ~Resent(c),
                    \A d \in committed : d.msg \in SignalsOf(f) => d.ts <= c.ts
             PROVE  Known(f, clock, sent[c.msg].value)
  BY DEF KnownUnlessResent
<1> DEFINE v == sent[c.msg].value
<1>1. /\ sent[c.msg].kind = "signal" /\ sent[c.msg].field = f
      /\ c.ts \in Nat /\ c.ts <= clock /\ clock \in Nat
  BY DEF SignalsOf, IInv, TypeOK, Records, Dated
<1>2. Shows(events, f, c.ts, v)
  BY <1>1 DEF IInv, CommittedIsShown
<1>3. PICK r \in events : /\ r.field = f /\ r.value = v /\ r.ts <= c.ts
                          /\ \A q \in events : q.field = f /\ q.ts <= c.ts => q.ts <= r.ts
  BY <1>2 DEF Shows
<1>4. r.ts \in Nat
  BY DEF IInv, TypeOK, Rows
<1>5. \A q \in events : q.field = f => q.ts <= c.ts
  BY DEF CInv, RowsStem
<1>6. r \in NewestRows(f, clock)
  BY <1>1, <1>3, <1>4, <1>5 DEF NewestRows
<1>7. PICK e \in committed : e.ts = r.ts /\ e.msg \in SignalsOf(f) /\ sent[e.msg].value = v
  BY <1>3 DEF CInv, RowsStem
<1>8. \A n \in committed :
         n.ts \in e.ts..c.ts /\ n.msg \in SignalsOf(f) => sent[n.msg].value = v
  <2> SUFFICES ASSUME NEW n \in committed, n.ts \in e.ts..c.ts, n.msg \in SignalsOf(f)
               PROVE  sent[n.msg].value = v
    OBVIOUS
  <2>1. Shows(events, f, n.ts, sent[n.msg].value)
    BY DEF IInv, CommittedIsShown, SignalsOf
  <2>2. PICK q \in events : /\ q.field = f /\ q.value = sent[n.msg].value /\ q.ts <= n.ts
                            /\ \A p \in events : p.field = f /\ p.ts <= n.ts => p.ts <= q.ts
    BY <2>1 DEF Shows
  <2>3. q.ts \in Nat /\ n.ts \in Nat /\ e.ts <= n.ts /\ n.ts <= c.ts
    BY DEF IInv, TypeOK, Rows, Records
  <2>4. q.ts = r.ts
    BY <1>1, <1>3, <1>4, <1>7, <2>2, <2>3
  <2>5. PICK d \in committed : d.ts = q.ts /\ d.msg \in SignalsOf(f) /\ sent[d.msg].value = q.value
    BY <2>2 DEF CInv, RowsStem
  <2>6. d = e
    BY <1>7, <2>4, <2>5 DEF CInv, CommitsApart
  <2> QED
    BY <1>7, <2>2, <2>5, <2>6
<1>9. Valid(r, clock)
  <2> SUFFICES ASSUME NEW d \in Disconnects, d \in r.ts..clock PROVE FALSE
    BY DEF Valid
  <2>1. PICK q \in connectivity : q.ts = d /\ ~q.connected
    BY DEF Disconnects
  <2>2. PICK j \in LinkMessages : q = LinkRow(j)
    BY DEF IInv, ConnectivityMatchesSent, LinkRow
  <2>3. sent[j].created = d /\ ~sent[j].connected
    BY <2>1, <2>2 DEF LinkRow
  <2>4. j < c.msg
    BY <2>3 DEF OfThisConnection
  <2>5. d < c.ts
    BY <2>3, <2>4 DEF CInv, HandledAfter, After
  <2>6. e.ts < d
    <3>1. d # e.ts /\ d \in Nat /\ e.ts \in Nat /\ e.ts <= d
      BY <1>4, <1>7, <2>3 DEF CInv, HandledAfter, After
    <3> QED
      BY <3>1
  <2>7. Resent(c)
    BY <1>1, <1>7, <1>8, <2>3, <2>5, <2>6 DEF Resent
  <2> QED
    BY <2>7
<1> QED
  BY <1>3, <1>6, <1>9 DEF Known

\* Stale values survive a disconnect only on messages that it overtook.
THEOREM StaleOnly == Spec => []StaleOnlyIfOvertaken
BY StaleIfOvertaken, CarryInvariance, PTL

\* The worker's and the reducer's rules hide a value of the present connection only
\* when it repeats the one before the disconnect.
THEOREM KnownUnless == Spec => []KnownUnlessResent
BY KnownIfNotResent, CarryInvariance, PTL
===============================================================================
