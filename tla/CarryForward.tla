---------------------------- MODULE CarryForward ----------------------------
(***************************************************************************)
(* What the carry-forward reducer (teslai/reducer.py) makes of the rows    *)
(* the worker has stored: the builder feeds it telemetry_events, stamped   *)
(* on receipt, and the disconnects of connectivity_events, stamped by the  *)
(* sender.  The worker drops repeats and the reducer drops what is older   *)
(* than a disconnect; each was written as if the other did not.            *)
(*                                                                         *)
(* State fields only (gear, charge state): they carry forward without an   *)
(* age limit.  Nothing calls reset().                                      *)
(***************************************************************************)
EXTENDS Ingest, TLC

\* The instants at which SessionBuilder._connectivity tells the reducer of a
\* disconnect: rows of one that do not follow another.
Disconnects ==
    {r.ts : r \in {d \in connectivity :
        /\ ~d.connected
        /\ \A q \in connectivity :
            /\ q.ts < d.ts
            /\ \A p \in connectivity : p.ts < d.ts => p.ts <= q.ts
            => q.connected}}

\* The row that a field's history holds last at `at`.
NewestRows(f, at) ==
    {r \in events : /\ r.field = f /\ r.ts <= at
                    /\ \A q \in events : q.field = f /\ q.ts <= at => q.ts <= r.ts}

ValidUntilConnected(r, at) ==  \* mutant: a reconnection makes values valid again
    \A d \in Disconnects :
        d \in r.ts..at => \E q \in connectivity : q.connected /\ q.ts \in d..at

ValidWithoutStart(r, at) ==  \* mutant: _between does not look at the start
    \A d \in Disconnects : d > at

\* _between: no disconnect from the value on, its own instant included.
Valid(r, at) == \A d \in Disconnects : d \notin r.ts..at

\* StateReducer.value(at, f) is v.
Known(f, at, v) == \E r \in NewestRows(f, at) : r.value = v /\ Valid(r, at)

-----------------------------------------------------------------------------
SignalsOf(f) == {i \in Ids : sent[i].kind = "signal" /\ sent[i].field = f}

\* Sent in the connection that is up now, or was the last to be.
OfThisConnection(i) == \A j \in LinkMessages : ~sent[j].connected => j < i

\* Message i was sent before a disconnect and handled after it.
Overtaken(i) ==
    \E j \in LinkMessages, c \in committed :
        ~sent[j].connected /\ c.msg = i /\ i < j /\ sent[j].created < c.ts

\* What is handled in c was handled before the disconnect too, and nothing else
\* for the field in between.
Resent(c) ==
    \E e \in committed, j \in LinkMessages :
        /\ ~sent[j].connected /\ e.ts < sent[j].created /\ sent[j].created < c.ts
        /\ \A n \in committed : n.ts \in e.ts..c.ts /\ n.msg \in SignalsOf(sent[c.msg].field)
                                => sent[n.msg].value = sent[c.msg].value
        /\ e.msg \in SignalsOf(sent[c.msg].field)

\* "Disconnects invalidate earlier values" (reducer.py, connectivity): once the
\* broker is empty, a value that is known was sent in the present connection,
\* whatever failed in between -- unless its message was handled only after the
\* disconnect it was sent before, and so carries a later time.
StaleOnlyIfOvertaken ==
    broker = {} =>
        \A f \in Fields, v \in Values : Known(f, clock, v) =>
            \E i \in SignalsOf(f) : sent[i].value = v /\ (OfThisConnection(i) \/ Overtaken(i))

\* What the car says in the present connection is known as soon as the broker is
\* empty, although the worker stores less than it receives -- unless the value
\* repeats the one from before the disconnect: that one is dropped by the
\* worker (worker.py:136) after the reducer has invalidated it, and the builder sees
\* no gear and no charge until the car reports another.  (A message that fails and is
\* redelivered behind a newer one, or whose commit is in doubt, is excepted.)
KnownUnlessResent ==
    broker = {} =>
        \A f \in Fields \ doubted : \A c \in committed :
            /\ c.msg \in SignalsOf(f) /\ OfThisConnection(c.msg) /\ ~Resent(c)
            /\ \A d \in committed : d.msg \in SignalsOf(f) => d.ts <= c.ts
            => Known(f, clock, sent[c.msg].value)

\* Fields and values are interchangeable.
Symmetry == Permutations(Fields) \cup Permutations(Values)
=============================================================================
