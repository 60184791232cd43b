-------------------------- MODULE LiveRebuildProofs --------------------------
(***************************************************************************)
(* Proofs about LiveRebuild, for any window, warmup and thresholds and any *)
(* number of rows: what the builder makes of a log is a list of sessions   *)
(* with times, so that the anchor exists, no rebuild touches what ended    *)
(* before it, and what it inserts fits the constraints of the table and is *)
(* what a builder fed with all rows would make.                            *)
(***************************************************************************)
EXTENDS LiveRebuild, WellFoundedInduction, TLAPS

Spans == [kind : Kinds, start : Nat, end : Nat]

Builders == [link    : {"unknown", "up", "down"},
             gear    : {"unknown", "park", "moving"},
             charge  : {"unknown", "charging", "ended"},
             current : [kind : Kinds, start : Nat] \cup {NoSession},
             done    : Seq(Spans),
             pending : Nat,
             park    : Nat,
             off     : Nat]

-----------------------------------------------------------------------------
(* Induction on data, by the least number at which it fails.               *)

LEMMA LeastExists ==
    ASSUME NEW T, T \subseteq Nat, T # {}
    PROVE  \E x \in T : \A y \in T : x <= y
<1> DEFINE R == OpToRel(<, Nat)
<1>1. IsWellFoundedOn(R, Nat)
  BY NatLessThanWellFounded
<1>2. \A x, y \in Nat : <<y, x>> \in R <=> y < x
  BY DEF OpToRel
<1> HIDE DEF R
<1>3. \E x \in T : \A y \in T : ~(<<y, x>> \in R)
  BY <1>1, WFMin
<1>4. PICK x \in T : \A y \in T : ~(<<y, x>> \in R)
  BY <1>3, Zenon
<1>5. \A y \in T : ~(y < x)
  BY <1>2, <1>4, Zenon
<1>6. \A y \in T : x <= y
  BY <1>5
<1> QED
  BY <1>6

\* A set that has 0, and with each number up to m the next one, has all up to m.
LEMMA Reaches ==
    ASSUME NEW m \in Nat, NEW T, 0 \in T,
           \A n \in Nat : n < m /\ n \in T => n + 1 \in T
    PROVE  \A n \in 0..m : n \in T
<1> DEFINE Rest == {n \in 0..m : n \notin T}
<1>1. SUFFICES ASSUME Rest # {} PROVE FALSE
  OBVIOUS
<1>2. Rest \subseteq Nat
  OBVIOUS
<1> HIDE DEF Rest
<1>3. PICK x \in Rest : \A y \in Rest : x <= y
  BY <1>1, <1>2, LeastExists
<1> USE DEF Rest
<1>4. x # 0 /\ x - 1 \in Nat /\ x - 1 < m /\ x - 1 \in 0..m
  BY <1>3
<1>5. x - 1 \in T
  BY <1>3, <1>4
<1> QED
  BY <1>3, <1>4, <1>5

\* Integers with a bound have a greatest one.
LEMMA MaxIs ==
    ASSUME NEW S, S # {}, S \subseteq Int, NEW bound \in Int, \A x \in S : x <= bound
    PROVE  Max(S) \in S /\ \A y \in S : y <= Max(S)
<1> DEFINE T == {bound - x : x \in S}
<1>1. \A x \in S : bound - x \in Nat
  OBVIOUS
<1>2. T \subseteq Nat /\ T # {}
  BY <1>1
<1>3. PICK d \in T : \A e \in T : d <= e
  BY <1>2, LeastExists
<1>4. PICK x \in S : d = bound - x
  BY <1>3
<1>5. \A y \in S : x >= y
  BY <1>3, <1>4
<1> QED
  BY <1>4, <1>5 DEF Max

-----------------------------------------------------------------------------
(* The methods of the builder keep its type.                               *)

LEMMA TurnType ==
    ASSUME NEW x \in Builders, NEW kind \in Kinds, NEW at \in Nat
    PROVE  /\ Turn(x, kind, at) \in Builders
           /\ Close(x, at) \in Builders
           /\ Open(x, kind, at) \in Builders
<1>1. \A y \in Builders : Open(y, kind, at) \in Builders
  BY DEF Open, Builders
<1>2. Close(x, at) \in Builders
  <2>1. CASE x.current = NoSession
    BY <2>1 DEF Close
  <2>2. CASE x.current # NoSession
    <3> DEFINE s == [kind |-> x.current.kind, start |-> x.current.start, end |-> at]
    <3>1. s \in Spans
      BY <2>2 DEF Builders, Spans
    <3>2. x.done \in Seq(Spans) /\ Append(x.done, s) \in Seq(Spans)
      BY <3>1 DEF Builders
    <3>3. Close(x, at) = [x EXCEPT !.current = NoSession,
                                   !.done = IF Kept(s) THEN Append(@, s) ELSE @]
      BY <2>2 DEF Close
    <3> HIDE DEF s
    <3> QED
      BY <3>2, <3>3 DEF Builders
  <2> QED
    BY <2>1, <2>2
<1> QED
  BY <1>1, <1>2 DEF Turn

LEMMA StepType ==
    ASSUME NEW x \in Builders, NEW at \in Nat, NEW g
    PROVE  Step(x, at, g) \in Builders
<1>1. x.pending \in Nat /\ x.park \in Nat /\ x.off \in Nat
  BY DEF Builders
<1>2. {"idle", "drive", "charge", "offline"} \subseteq Kinds /\ Never \in Nat
  BY DEF Kinds, Never
<1>3. StepOffline(x, at) \in Builders
  <2>1. Turn(x, "offline", x.off) \in Builders
    BY <1>1, <1>2, TurnType
  <2>2. [Turn(x, "offline", x.off) EXCEPT !.off = Never] \in Builders
    BY <1>2, <2>1 DEF Builders
  <2> QED
    BY <2>2 DEF StepOffline
<1>4. StepDriving(x, at) \in Builders
  <2> DEFINE since == IF x.park = Never THEN at ELSE x.park
  <2>1. since \in Nat
    BY <1>1
  <2>2. Turn(x, "idle", since) \in Builders
    BY <1>2, <2>1, TurnType
  <2> HIDE DEF since
  <2>3. /\ [Turn(x, "idle", since) EXCEPT !.park = Never] \in Builders
        /\ [x EXCEPT !.park = since] \in Builders
        /\ [x EXCEPT !.park = Never] \in Builders
    BY <1>2, <2>1, <2>2 DEF Builders
  <2> QED
    BY <2>3 DEF StepDriving, since
<1>5. StepStanding(x, at, g) \in Builders
  <2> DEFINE since == IF x.pending = Never THEN at ELSE x.pending
             p == [x EXCEPT !.pending = IF x.gear = "moving" THEN since ELSE Never]
  <2>1. since \in Nat
    BY <1>1
  <2>2. Turn(x, "drive", since) \in Builders
    BY <1>2, <2>1, TurnType
  <2>3. p \in Builders
    BY <1>2, <2>1 DEF Builders
  <2>4. Turn(p, "charge", at) \in Builders /\ Turn(p, "idle", at) \in Builders
    BY <1>2, <2>3, TurnType
  <2> HIDE DEF since, p
  <2>5. [Turn(x, "drive", since) EXCEPT !.pending = Never, !.park = Never] \in Builders
    BY <1>2, <2>2 DEF Builders
  <2>6. StepStanding(x, at, g) \in
           {[Turn(x, "drive", since) EXCEPT !.pending = Never, !.park = Never],
            Turn(p, "charge", at), Turn(p, "idle", at), p}
    BY DEF StepStanding, since, p
  <2> QED
    BY <2>3, <2>4, <2>5, <2>6
<1> QED
  BY <1>3, <1>4, <1>5 DEF Step

\* The recursive function of _evaluate takes the four turns.
LEMMA EvaluateIs ==
    ASSUME NEW x, NEW t, NEW g
    PROVE  LET one   == StepAgain([b |-> x, settled |-> FALSE], t, g)
               two   == StepAgain(one, t, g)
               three == StepAgain(two, t, g)
           IN  Evaluate(x, t, g) = StepAgain(three, t, g).b
<1> DEFINE zero  == [b |-> x, settled |-> FALSE]
           one   == StepAgain(zero, t, g)
           two   == StepAgain(one, t, g)
           three == StepAgain(two, t, g)
           four  == StepAgain(three, t, g)
           Body(f) == [n \in 0..4 |-> IF n = 0 THEN [b |-> x, settled |-> FALSE]
                                      ELSE StepAgain(f[n - 1], t, g)]
           turn == CHOOSE f : f = Body(f)
           h == [n \in 0..4 |-> CASE n = 0 -> zero [] n = 1 -> one [] n = 2 -> two
                                  [] n = 3 -> three [] OTHER -> four]
<1>1. Evaluate(x, t, g) = turn[4].b
  BY DEF Evaluate
<1>2. \A f : Body(f)[0] = zero /\ \A n \in 1..4 : Body(f)[n] = StepAgain(f[n - 1], t, g)
  OBVIOUS
<1>3. h = Body(h)
  <2>1. one = StepAgain(zero, t, g) /\ two = StepAgain(one, t, g)
        /\ three = StepAgain(two, t, g) /\ four = StepAgain(three, t, g)
    OBVIOUS
  <2> HIDE DEF zero, one, two, three, four
  <2>2. \A n \in 0..4 : h[n] = IF n = 0 THEN zero ELSE StepAgain(h[n - 1], t, g)
    <3>1. h[0] = zero /\ h[1] = one /\ h[2] = two /\ h[3] = three /\ h[4] = four
      OBVIOUS
    <3> HIDE DEF h
    <3>2. \A n \in 0..4 : n \in {0, 1, 2, 3, 4}
      OBVIOUS
    <3> QED
      BY <2>1, <3>1, <3>2
  <2> QED
    BY <2>2 DEF zero
<1>4. turn = Body(turn)
  BY <1>3
<1> HIDE DEF turn, h, Body
<1>5. turn[0] = zero /\ turn[1] = StepAgain(turn[0], t, g) /\ turn[2] = StepAgain(turn[1], t, g)
      /\ turn[3] = StepAgain(turn[2], t, g) /\ turn[4] = StepAgain(turn[3], t, g)
  <2> HIDE DEF zero
  <2>1. /\ turn[0] = zero
        /\ \A n \in 1..4 : turn[n] = StepAgain(turn[n - 1], t, g)
    BY <1>2, <1>4
  <2>2. 2 - 1 = 1 /\ 3 - 1 = 2 /\ 4 - 1 = 3 /\ 1 - 1 = 0 /\ {1, 2, 3, 4} \subseteq 1..4
    OBVIOUS
  <2> QED
    BY <2>1, <2>2
<1> QED
  BY <1>1, <1>5

LEMMA EvaluateType ==
    ASSUME NEW x \in Builders, NEW at \in Nat, NEW g
    PROVE  Evaluate(x, at, g) \in Builders
<1>1. \A r : r.b \in Builders => StepAgain(r, at, g).b \in Builders
  BY StepType DEF StepAgain
<1> DEFINE zero  == [b |-> x, settled |-> FALSE]
           one   == StepAgain(zero, at, g)
           two   == StepAgain(one, at, g)
           three == StepAgain(two, at, g)
           four  == StepAgain(three, at, g)
<1>2. zero.b \in Builders
  OBVIOUS
<1>3. Evaluate(x, at, g) = four.b
  BY EvaluateIs
<1> HIDE DEF zero, one, two, three, four
<1>4. one.b \in Builders
  BY <1>1, <1>2 DEF one
<1>5. two.b \in Builders
  BY <1>1, <1>4 DEF two
<1>6. three.b \in Builders
  BY <1>1, <1>5 DEF three
<1>7. four.b \in Builders
  BY <1>1, <1>6 DEF four
<1> QED
  BY <1>3, <1>7

LEMMA ConnectType ==
    ASSUME NEW x \in Builders, NEW ts \in Nat
    PROVE  Connect(x, ts) \in Builders
<1> DEFINE up == [x EXCEPT !.link = "up", !.off = Never]
           woken == IF up.current.kind = "offline" THEN Close(up, ts) ELSE up
<1>1. "idle" \in Kinds /\ "offline" \in Kinds /\ x.off \in Nat
  BY DEF Kinds, Builders
<1>2. up \in Builders
  BY DEF Builders, Never
<1> HIDE DEF up
<1>3. woken \in Builders
  BY <1>1, <1>2, TurnType
<1> HIDE DEF woken
<1>4. Open(woken, "idle", ts) \in Builders
  BY <1>1, <1>3, TurnType
<1>5. Turn(Turn(up, "offline", x.off), "idle", ts) \in Builders
  <2>1. Turn(up, "offline", x.off) \in Builders
    BY <1>1, <1>2, TurnType
  <2> QED
    BY <1>1, <2>1, TurnType
<1>6. Connect(x, ts) \in {x, Turn(Turn(up, "offline", x.off), "idle", ts), up,
                          Open(woken, "idle", ts), woken}
  BY DEF Connect, up, woken
<1> QED
  BY <1>2, <1>3, <1>4, <1>5, <1>6

LEMMA DisconnectType ==
    ASSUME NEW x \in Builders, NEW ts \in Nat
    PROVE  Disconnect(x, ts) \in Builders
<1> DEFINE parked == IF Driving(x) /\ x.park # Never THEN Turn(x, "idle", x.park) ELSE x
           down == [parked EXCEPT !.link = "down", !.pending = Never, !.park = Never,
                                  !.gear = "unknown", !.charge = "unknown"]
<1>1. "idle" \in Kinds /\ "offline" \in Kinds /\ x.park \in Nat
  BY DEF Kinds, Builders
<1>2. parked \in Builders
  BY <1>1, TurnType
<1> HIDE DEF parked
<1>3. down \in Builders
  BY <1>2 DEF Builders, Never
<1> HIDE DEF down
<1>4. [down EXCEPT !.off = ts] \in Builders
  BY <1>3 DEF Builders
<1>5. Turn(down, "offline", ts) \in Builders
  BY <1>1, <1>3, TurnType
<1>6. Disconnect(x, ts) \in {x, [down EXCEPT !.off = ts], Turn(down, "offline", ts)}
  BY DEF Disconnect, parked, down
<1> QED
  BY <1>4, <1>5, <1>6

LEMMA FeedType ==
    ASSUME NEW x \in Builders, NEW ts \in Nat, NEW g \in Reports
    PROVE  Feed(x, ts, g) \in Builders
<1> DEFINE applied == Apply(x, g)
           linked == IF "connect" \in g.links THEN Connect(applied, ts) ELSE applied
           evaluated == Evaluate(linked, ts, g)
<1>1. g.gear \in {"same", "park", "moving"} /\ g.charge \in {"same", "charging", "ended"}
  <2> DEFINE r1 == [Silent EXCEPT !.links = {"connect"}]
             r2 == [Silent EXCEPT !.links = {"disconnect"}]
             r3 == [Silent EXCEPT !.gear = "moving", !.moved = TRUE]
             r4 == [Silent EXCEPT !.gear = "park"]
             r5 == [Silent EXCEPT !.charge = "charging"]
             r6 == [Silent EXCEPT !.charge = "ended"]
             r7 == [Silent EXCEPT !.moved = TRUE]
  <2>1. g \in {r1, r2, r3, r4, r5, r6, Silent, r7}
    BY DEF Reports
  <2>2. /\ r1.gear = "same" /\ r1.charge = "same"
        /\ r2.gear = "same" /\ r2.charge = "same"
        /\ r3.gear = "moving" /\ r3.charge = "same"
        /\ r4.gear = "park" /\ r4.charge = "same"
    BY DEF Silent
  <2>3. /\ r5.gear = "same" /\ r5.charge = "charging"
        /\ r6.gear = "same" /\ r6.charge = "ended"
        /\ r7.gear = "same" /\ r7.charge = "same"
        /\ Silent.gear = "same" /\ Silent.charge = "same"
    BY DEF Silent
  <2> HIDE DEF r1, r2, r3, r4, r5, r6, r7
  <2> QED
    BY <2>1, <2>2, <2>3
<1>2. applied \in Builders
  BY <1>1 DEF Apply, Builders
<1> HIDE DEF applied
<1>3. linked \in Builders
  BY <1>2, ConnectType
<1> HIDE DEF linked
<1>4. evaluated \in Builders
  BY <1>3, EvaluateType
<1> HIDE DEF evaluated
<1>5. Disconnect(evaluated, ts) \in Builders
  BY <1>4, DisconnectType
<1>6. Evaluate(Disconnect(evaluated, ts), ts, g) \in Builders
  BY <1>5, EvaluateType
<1>7. Feed(x, ts, g) \in {evaluated, Evaluate(Disconnect(evaluated, ts), ts, g)}
  BY DEF Feed, applied, linked, evaluated
<1> QED
  BY <1>4, <1>6, <1>7

-----------------------------------------------------------------------------
(* What a builder makes is in order.                                       *)

\* The sessions of a builder that are over.
Over(x) == {x.done[i] : i \in DOMAIN x.done}

\* Of a set of sessions: each ends after it starts and by t; each has started before
\* t; no two of a kind start together; and none of its kind starts where c does, or later.
InTime(over, t) == \A s \in over : s.start <= s.end /\ s.end <= t
Begun(over, t) == \A s \in over : s.start < t
Once(over) == \A s, r \in over : s.kind = r.kind /\ s.start = r.start => s = r
Earlier(over, c) == \A s \in over : s.kind = c.kind => s.start < c.start

\* What holds of a builder in the midst of timestamp t.
Marked(x, t) ==
    /\ x.pending # Never =>
           /\ x.link = "up" /\ x.current.kind \in {"idle", "charge"} /\ x.pending <= t
           /\ \A s \in Over(x) : s.kind = "drive" => s.start < x.pending
    /\ Driving(x) => x.current.start < t
    /\ Driving(x) /\ x.park # Never =>
           x.current.start < x.park /\ x.park <= t /\ Begun(Over(x), x.park)
    /\ Driving(x) /\ x.off # Never =>
           x.current.start < x.off /\ x.off <= t /\ Begun(Over(x), x.off)

Linked(x) ==
    /\ x.link = "unknown" => x.current = NoSession
    /\ x.link = "up" => x.off = Never /\ x.current.kind \in {"drive", "charge", "idle"}
    /\ x.link = "down" => x.current.kind \in {"drive", "offline"}

Listed(x, t) ==
    /\ InTime(Over(x), t) /\ Once(Over(x))
    /\ x.link # "down" => Begun(Over(x), t)
    /\ x.current # NoSession => x.current.start <= t /\ Earlier(Over(x), x.current)

Base(x, t) == x \in Builders /\ Listed(x, t) /\ Linked(x) /\ Marked(x, t)

\* A drive that has begun, for all the builder knows, and a charge that came after: the
\* park between the two is the row that is late.  A drive that opened now would end the
\* charge before its start.
Overtaken(x) ==
    /\ x.link = "up" /\ x.pending # Never /\ x.charge = "charging"
    /\ \/ x.current.kind = "idle"
       \/ x.current.kind = "charge" /\ x.pending < x.current.start

\* What a row may meet, and what a step leaves behind.
Ready(x, at, g) ==
    /\ x.current.kind = "charge" =>
           \/ x.charge = "charging"
           \/ x.charge = "ended" /\ ~g.moved /\ x.current.start < at
    /\ g.moved => ~Overtaken(x)

Settled(x) ==
    /\ x.pending # Never => x.gear = "moving"
    /\ x.current.kind = "charge" => x.charge = "charging"
    /\ Overtaken(x) => x.current.kind = "charge"

-----------------------------------------------------------------------------
(* Closing a session.                                                      *)

\* The session in progress as it would end at `at`, if it is kept.
Ending(x, at) == [kind |-> x.current.kind, start |-> x.current.start, end |-> at]

Added(x, at) == IF x.current # NoSession /\ Kept(Ending(x, at)) THEN {Ending(x, at)} ELSE {}

LEMMA CloseIs ==
    ASSUME NEW x \in Builders, NEW at \in Nat
    PROVE  LET y == Close(x, at)
           IN  /\ y \in Builders /\ y.current = NoSession
               /\ y.link = x.link /\ y.gear = x.gear /\ y.charge = x.charge
               /\ y.pending = x.pending /\ y.park = x.park /\ y.off = x.off
               /\ Over(y) = Over(x) \cup Added(x, at)
<1> DEFINE y == Close(x, at)
           s == Ending(x, at)
           list == IF Kept(s) THEN Append(x.done, s) ELSE x.done
<1>1. y \in Builders
  <2>1. "idle" \in Kinds
    BY DEF Kinds
  <2> QED
    BY <2>1, TurnType
<1>2. CASE x.current = NoSession
  <2>1. y = x /\ Added(x, at) = {}
    BY <1>2 DEF Close, Added
  <2> QED
    BY <1>1, <1>2, <2>1
<1>3. CASE x.current # NoSession
  <2>1. y = [x EXCEPT !.current = NoSession, !.done = list]
    BY <1>3 DEF Close, Ending
  <2> HIDE DEF y, list, s
  <2>2. /\ y.current = NoSession /\ y.done = list
        /\ y.link = x.link /\ y.gear = x.gear /\ y.charge = x.charge
        /\ y.pending = x.pending /\ y.park = x.park /\ y.off = x.off
    BY <2>1 DEF Builders
  <2>3. CASE Kept(s)
    <3>1. list = Append(x.done, s) /\ Added(x, at) = {s}
      BY <1>3, <2>3 DEF list, Added, s
    <3>2. x.done \in Seq(Spans)
      BY DEF Builders
    <3>3. /\ DOMAIN list = 1..(Len(x.done) + 1) /\ DOMAIN x.done = 1..Len(x.done)
          /\ \A i \in 1..Len(x.done) : list[i] = x.done[i]
          /\ list[Len(x.done) + 1] = s
      BY <3>1, <3>2
    <3>4. {list[i] : i \in DOMAIN list} = {x.done[i] : i \in DOMAIN x.done} \cup {s}
      BY <3>2, <3>3
    <3> QED
      BY <1>1, <2>2, <3>1, <3>4 DEF Over, y
  <2>4. CASE ~Kept(s)
    <3>1. list = x.done /\ Added(x, at) = {}
      BY <2>4 DEF list, Added, s
    <3>2. Over(y) = Over(x)
      BY <2>2, <3>1 DEF Over
    <3> QED
      BY <1>1, <2>2, <3>1, <3>2 DEF y
  <2> QED
    BY <2>3, <2>4
<1> QED
  BY <1>2, <1>3

LEMMA TurnIs ==
    ASSUME NEW x \in Builders, NEW kind \in Kinds, NEW at \in Nat
    PROVE  LET y == Turn(x, kind, at)
           IN  /\ y \in Builders /\ y.current = [kind |-> kind, start |-> at]
               /\ y.link = x.link /\ y.gear = x.gear /\ y.charge = x.charge
               /\ y.pending = x.pending /\ y.park = x.park /\ y.off = x.off
               /\ Over(y) = Over(x) \cup Added(x, at)
<1> DEFINE c == Close(x, at)
           y == Turn(x, kind, at)
<1>1. /\ c \in Builders
      /\ c.link = x.link /\ c.gear = x.gear /\ c.charge = x.charge
      /\ c.pending = x.pending /\ c.park = x.park /\ c.off = x.off
      /\ Over(c) = Over(x) \cup Added(x, at)
  BY CloseIs
<1>2. y = [c EXCEPT !.current = [kind |-> kind, start |-> at]]
  BY DEF Turn, Open
<1>3. y \in Builders
  BY TurnType
<1> HIDE DEF c, y
<1>4. /\ y.current = [kind |-> kind, start |-> at] /\ y.done = c.done
      /\ y.link = c.link /\ y.gear = c.gear /\ y.charge = c.charge
      /\ y.pending = c.pending /\ y.park = c.park /\ y.off = c.off
  BY <1>1, <1>2 DEF Builders
<1>5. Over(y) = Over(c)
  BY <1>4 DEF Over
<1> QED
  BY <1>1, <1>3, <1>4, <1>5 DEF y

\* The sessions of a builder have times; so has the one in progress.
LEMMA OverType ==
    ASSUME NEW x \in Builders
    PROVE  /\ \A s \in Over(x) : s \in Spans /\ s.start \in Nat /\ s.end \in Nat /\ s.kind \in Kinds
           /\ x.current # NoSession => x.current.kind \in Kinds
           /\ x.current.start \in Nat
           /\ x.current = NoSession <=> x.current.kind = "none"
<1>1. x.done \in Seq(Spans)
  BY DEF Builders
<1>2. \A i \in DOMAIN x.done : x.done[i] \in Spans
  BY <1>1
<1> QED
  BY <1>2 DEF Over, Spans, Builders, NoSession, Kinds

\* Closing at `end`, no earlier than the session began, keeps the list in order; and up
\* to t, if a drive or charge that ends began before t.
LEMMA CloseKeeps ==
    ASSUME NEW x \in Builders, NEW end \in Nat, NEW t \in Nat, end <= t,
           InTime(Over(x), t), Once(Over(x)),
           x.current # NoSession => Earlier(Over(x), x.current),
           x.current.kind \in {"drive", "charge"} => x.current.start <= end
    PROVE  LET over == Over(x) \cup Added(x, end)
           IN  /\ InTime(over, t) /\ Once(over)
               /\ \A s \in over : s \in Over(x) \/ s.kind = x.current.kind
               /\ \A u \in Nat :
                      Begun(Over(x), u) /\ end <= u /\
                      (x.current.kind \in {"drive", "charge"} => x.current.start < u)
                      => Begun(over, u)
<1> DEFINE s == Ending(x, end)
<1>1. CASE Added(x, end) = {}
  BY <1>1
<1>2. CASE Added(x, end) # {}
  <2>1. Added(x, end) = {s} /\ x.current # NoSession /\ Kept(s)
    BY <1>2 DEF Added
  <2>2. s.kind = x.current.kind /\ s.start = x.current.start /\ s.end = end /\ s.start \in Nat
    BY OverType DEF Ending
  <2>3. s.start <= s.end /\ (s.kind \notin {"drive", "charge"} => s.start < s.end)
    BY <2>1, <2>2 DEF Kept
  <2> HIDE DEF s
  <2>4. \A r \in Over(x) : r.kind = s.kind => r.start < s.start
    BY <2>1, <2>2 DEF Earlier
  <2>5. \A r \in Over(x) : r.start \in Nat
    BY OverType
  <2>6. InTime(Over(x) \cup {s}, t)
    BY <2>2, <2>3 DEF InTime
  <2>7. Once(Over(x) \cup {s})
    BY <2>2, <2>4, <2>5 DEF Once
  <2>8. ASSUME NEW u \in Nat, Begun(Over(x), u), end <= u,
               x.current.kind \in {"drive", "charge"} => x.current.start < u
        PROVE  Begun(Over(x) \cup {s}, u)
    BY <2>2, <2>3, <2>8 DEF Begun
  <2> QED
    BY <2>1, <2>2, <2>6, <2>7, <2>8
<1> QED
  BY <1>1, <1>2 DEF Added

\* The list stays in order when the session in progress ends where the next begins.
LEMMA Turned ==
    ASSUME NEW x \in Builders, NEW t \in Nat, Listed(x, t),
           NEW kind \in Kinds, NEW at \in Nat, at <= t,
           x.current.kind # kind, Earlier(Over(x), [kind |-> kind, start |-> at]),
           x.current.kind \in {"drive", "charge"} => x.current.start <= at,
           NEW z \in Builders, Over(z) = Over(x) \cup Added(x, at),
           z.current = [kind |-> kind, start |-> at],
           z.link # "down" =>
               /\ Begun(Over(x), t)
               /\ x.current.kind \in {"drive", "charge"} => x.current.start < t
    PROVE  Listed(z, t)
<1>1. x.current # NoSession => Earlier(Over(x), x.current)
  BY DEF Listed
<1>2. /\ InTime(Over(z), t) /\ Once(Over(z))
      /\ \A s \in Over(z) : s \in Over(x) \/ s.kind = x.current.kind
      /\ \A u \in Nat : Begun(Over(x), u) /\ at <= u /\
                        (x.current.kind \in {"drive", "charge"} => x.current.start < u)
                        => Begun(Over(z), u)
  BY <1>1, CloseKeeps DEF Listed
<1>3. z.link # "down" => Begun(Over(z), t)
  BY <1>2
<1>4. Earlier(Over(z), z.current)
  BY <1>2 DEF Earlier
<1>5. z.current.start <= t
  OBVIOUS
<1> QED
  BY <1>2, <1>3, <1>4, <1>5 DEF Listed

LEMMA StepOfflineKeeps ==
    ASSUME NEW x, NEW at \in Nat, Base(x, at), x.link # "up"
    PROVE  LET y == StepOffline(x, at)
           IN  /\ Base(y, at) /\ ~Overtaken(y) /\ Settled(y)
               /\ y.link = x.link /\ y.gear = x.gear /\ y.charge = x.charge
<1> DEFINE c == Turn(x, "offline", x.off)
           z == [c EXCEPT !.off = Never]
           y == StepOffline(x, at)
<1>1. x \in Builders /\ Listed(x, at) /\ Linked(x) /\ Marked(x, at) /\ x.off \in Nat
  BY DEF Base, Builders
<1>2. x.pending = Never /\ x.current.kind \notin {"idle", "charge"}
  <2>1. x.link \in {"unknown", "down"}
    BY <1>1 DEF Builders
  <2> QED
    BY <1>1, <2>1 DEF Marked, Linked, NoSession
<1>3. CASE Driving(x) /\ x.off # Never /\ at - x.off >= OfflineEnd
  <2>1. y = z
    BY <1>3 DEF StepOffline
  <2>2. "offline" \in Kinds /\ Never \in Nat
    BY DEF Kinds, Never
  <2>3. /\ c \in Builders /\ c.current = [kind |-> "offline", start |-> x.off]
        /\ c.link = x.link /\ c.gear = x.gear /\ c.charge = x.charge /\ c.pending = x.pending
        /\ Over(c) = Over(x) \cup Added(x, x.off)
    BY <1>1, <2>2, TurnIs
  <2> HIDE DEF c
  <2>4. /\ z \in Builders /\ z.current = [kind |-> "offline", start |-> x.off]
        /\ z.link = x.link /\ z.gear = x.gear /\ z.charge = x.charge /\ z.pending = Never
        /\ z.done = c.done
    BY <1>2, <2>2, <2>3 DEF Builders
  <2>5. Over(z) = Over(x) \cup Added(x, x.off)
    BY <2>3, <2>4 DEF Over
  <2> HIDE DEF z, y
  <2>6. x.current.kind = "drive" /\ x.current.start < x.off /\ x.off <= at
        /\ Begun(Over(x), x.off) /\ x.current.start \in Nat
    BY <1>1, <1>3, OverType DEF Marked, Driving
  <2>7. Earlier(Over(x), [kind |-> "offline", start |-> x.off])
    BY <2>6 DEF Earlier, Begun
  <2>8. Begun(Over(x), at)
    <3>1. \A s \in Over(x) : s.start \in Nat /\ s.start < x.off
      BY <1>1, <2>6, OverType DEF Begun
    <3> QED
      BY <1>1, <2>6, <3>1 DEF Begun
  <2>9. Listed(z, at)
    BY <1>1, <2>2, <2>4, <2>5, <2>6, <2>7, <2>8, Turned
  <2>10. Linked(z) /\ Marked(z, at)
    BY <1>1, <2>4, <2>6 DEF Linked, Marked, Driving, NoSession
  <2> QED
    BY <2>1, <2>4, <2>9, <2>10 DEF Base, Overtaken, Settled, y
<1>4. CASE ~(Driving(x) /\ x.off # Never /\ at - x.off >= OfflineEnd)
  <2>1. y = x
    BY <1>4 DEF StepOffline
  <2> QED
    BY <1>2, <2>1 DEF Overtaken, Settled
<1> QED
  BY <1>3, <1>4

LEMMA StepDrivingKeeps ==
    ASSUME NEW x, NEW at \in Nat, Base(x, at), x.link = "up", Driving(x)
    PROVE  LET y == StepDriving(x, at)
           IN  /\ Base(y, at) /\ ~Overtaken(y) /\ Settled(y)
               /\ y.link = x.link /\ y.gear = x.gear /\ y.charge = x.charge
<1> DEFINE since == IF x.park = Never THEN at ELSE x.park
           c == Turn(x, "idle", since)
           z == [c EXCEPT !.park = Never]
           y == StepDriving(x, at)
<1>1. x \in Builders /\ Listed(x, at) /\ Linked(x) /\ Marked(x, at) /\ x.park \in Nat
      /\ x.current.kind = "drive" /\ x.current.start \in Nat
  BY OverType DEF Base, Builders, Driving
<1>2. x.pending = Never /\ x.off = Never
  BY <1>1 DEF Marked, Linked
<1>3. since \in Nat /\ since <= at /\ x.current.start < since /\ Begun(Over(x), since)
  BY <1>1 DEF Marked, Driving, Listed
<1>4. "idle" \in Kinds /\ Never \in Nat
  BY DEF Kinds, Never
<1>5. CASE x.gear = "park" /\ at - since >= ParkDwell
  <2>1. y = z
    <3>1. ~(at - since < ParkDwell)
      BY <1>3, <1>5, BuilderAssumption
    <3> HIDE DEF since
    <3> QED
      BY <1>5, <3>1 DEF StepDriving, since
  <2> HIDE DEF since
  <2>2. /\ c \in Builders /\ c.current = [kind |-> "idle", start |-> since]
        /\ c.link = x.link /\ c.gear = x.gear /\ c.charge = x.charge /\ c.pending = x.pending
        /\ c.off = x.off /\ Over(c) = Over(x) \cup Added(x, since)
    BY <1>1, <1>3, <1>4, TurnIs
  <2> HIDE DEF c
  <2>3. /\ z \in Builders /\ z.current = [kind |-> "idle", start |-> since]
        /\ z.link = x.link /\ z.gear = x.gear /\ z.charge = x.charge /\ z.pending = Never
        /\ z.done = c.done /\ z.off = Never
    BY <1>2, <1>4, <2>2 DEF Builders
  <2>4. Over(z) = Over(x) \cup Added(x, since)
    BY <2>2, <2>3 DEF Over
  <2> HIDE DEF z, y
  <2>5. Earlier(Over(x), [kind |-> "idle", start |-> since])
    BY <1>3 DEF Earlier, Begun
  <2>6. Begun(Over(x), at)
    BY <1>1 DEF Listed
  <2>7. Listed(z, at)
    BY <1>1, <1>3, <1>4, <2>3, <2>4, <2>5, <2>6, Turned
  <2>8. Linked(z) /\ Marked(z, at)
    BY <1>1, <2>3 DEF Linked, Marked, Driving, NoSession
  <2> QED
    BY <2>1, <2>3, <2>7, <2>8 DEF Base, Overtaken, Settled, y
<1>6. ASSUME NEW mark \in {x.park, since, Never}, y = [x EXCEPT !.park = mark]
      PROVE  /\ Base(y, at) /\ ~Overtaken(y) /\ Settled(y)
             /\ y.link = x.link /\ y.gear = x.gear /\ y.charge = x.charge
  <2>1. mark \in Nat /\ (mark # Never => x.current.start < mark /\ mark <= at /\ Begun(Over(x), mark))
    BY <1>1, <1>3, <1>4 DEF Marked
  <2> HIDE DEF y, since
  <2>2. /\ y \in Builders /\ y.park = mark /\ y.current = x.current /\ y.done = x.done
        /\ y.link = x.link /\ y.gear = x.gear /\ y.charge = x.charge
        /\ y.pending = Never /\ y.off = Never
    BY <1>1, <1>2, <1>6, <2>1 DEF Builders
  <2>3. Over(y) = Over(x)
    BY <2>2 DEF Over
  <2>4. Listed(y, at) /\ Linked(y)
    BY <1>1, <1>2, <2>2, <2>3 DEF Listed, Linked
  <2>5. Marked(y, at)
    BY <1>1, <2>1, <2>2, <2>3 DEF Marked, Driving
  <2> QED
    BY <1>1, <2>2, <2>4, <2>5 DEF Base, Overtaken, Settled
<1>7. CASE ~(x.gear = "park" /\ at - since >= ParkDwell)
  <2>1. \/ y = [x EXCEPT !.park = since] \/ y = [x EXCEPT !.park = Never] \/ y = x
    <3>1. x.gear = "park" => at - since < ParkDwell
      BY <1>3, <1>7, BuilderAssumption
    <3> HIDE DEF since
    <3> QED
      BY <1>7, <3>1 DEF StepDriving, since
  <2>2. x = [x EXCEPT !.park = x.park]
    BY <1>1 DEF Builders
  <2> QED
    BY <1>6, <2>1, <2>2
<1> QED
  BY <1>5, <1>7

LEMMA StepStandingKeeps ==
    ASSUME NEW x, NEW at \in Nat, Base(x, at), x.link = "up", ~Driving(x),
           NEW g, ~g.reset, Ready(x, at, g)
    PROVE  LET y == StepStanding(x, at, g)
           IN  /\ Base(y, at) /\ Settled(y) /\ (Overtaken(y) => Overtaken(x))
               /\ y.link = x.link /\ y.gear = x.gear /\ y.charge = x.charge
<1> DEFINE since == IF x.pending = Never THEN at ELSE x.pending
           mark == IF x.gear = "moving" THEN since ELSE Never
           p == [x EXCEPT !.pending = mark]
           y == StepStanding(x, at, g)
<1>1. x \in Builders /\ Listed(x, at) /\ Linked(x) /\ Marked(x, at) /\ x.pending \in Nat
      /\ x.current.kind \in {"idle", "charge"} /\ x.current.start \in Nat /\ x.current.start <= at
      /\ x.current # NoSession /\ x.off = Never /\ Begun(Over(x), at)
  BY OverType DEF Base, Builders, Driving, Linked, Listed, NoSession
<1>2. since \in Nat /\ since <= at /\ (x.pending # Never => since = x.pending)
      /\ \A s \in Over(x) : s.kind = "drive" => s.start < since
  BY <1>1 DEF Marked, Begun
<1>3. {"idle", "charge", "drive"} \subseteq Kinds /\ Never \in Nat
  BY DEF Kinds, Never
<1>4. CASE x.gear = "moving" /\ at - since >= Debounce /\ g.moved
  <2> DEFINE c == Turn(x, "drive", since)
             z == [c EXCEPT !.pending = Never, !.park = Never]
  <2>1. y = z
    BY <1>4 DEF StepStanding
  <2>2. since < at /\ x.pending # Never
    BY <1>2, <1>4, BuilderAssumption
  <2> HIDE DEF since
  <2>3. /\ c \in Builders /\ c.current = [kind |-> "drive", start |-> since]
        /\ c.link = x.link /\ c.gear = x.gear /\ c.charge = x.charge
        /\ c.off = x.off /\ Over(c) = Over(x) \cup Added(x, since)
    BY <1>1, <1>2, <1>3, TurnIs
  <2> HIDE DEF c
  <2>4. /\ z \in Builders /\ z.current = [kind |-> "drive", start |-> since]
        /\ z.link = x.link /\ z.gear = x.gear /\ z.charge = x.charge /\ z.pending = Never
        /\ z.park = Never /\ z.done = c.done /\ z.off = Never
    BY <1>1, <1>3, <2>3 DEF Builders
  <2>5. Over(z) = Over(x) \cup Added(x, since)
    BY <2>3, <2>4 DEF Over
  <2> HIDE DEF z, y
  <2>6. Earlier(Over(x), [kind |-> "drive", start |-> since])
    BY <1>2 DEF Earlier
  <2>7. x.current.kind = "charge" => x.current.start <= since
    BY <1>1, <1>2, <1>4, <2>2 DEF Ready, Overtaken
  <2>8. x.current.kind = "charge" => x.current.start < at
    BY <1>1, <1>2, <2>2, <2>7
  <2>9. Listed(z, at)
    BY <1>1, <1>2, <1>3, <2>4, <2>5, <2>6, <2>7, <2>8, Turned
  <2>10. Linked(z) /\ Marked(z, at)
    BY <1>1, <2>2, <2>4 DEF Linked, Marked, Driving, NoSession
  <2> QED
    BY <2>1, <2>4, <2>9, <2>10 DEF Base, Overtaken, Settled, y
<1>5. CASE ~(x.gear = "moving" /\ at - since >= Debounce /\ g.moved)
  <2>1. mark \in Nat /\ mark <= at /\ (mark # Never => x.gear = "moving")
        /\ (mark # Never => \A s \in Over(x) : s.kind = "drive" => s.start < mark)
    <3> HIDE DEF since
    <3>1. CASE x.gear = "moving"
      BY <1>2, <3>1
    <3>2. CASE x.gear # "moving"
      BY <1>3, <3>2 DEF Never
    <3> QED
      BY <3>1, <3>2
  <2>2. x.pending # Never => mark \in {x.pending, Never}
    BY <1>2
  <2>3. x.pending = Never => mark \in {at, Never}
    OBVIOUS
  <2>4. \/ y = Turn(p, "charge", at) /\ x.current.kind = "idle" /\ x.charge = "charging"
        \/ y = Turn(p, "idle", at) /\ x.current.kind = "charge" /\ x.charge = "ended"
        \/ /\ y = p
           /\ ~(x.current.kind = "idle" /\ x.charge = "charging")
           /\ ~(x.current.kind = "charge" /\ x.charge = "ended")
    <3>1. p.current = x.current /\ p.charge = x.charge
      BY <1>1 DEF Builders
    <3>2. y = CASE x.current.kind \in {"idle", "none"} /\ x.charge = "charging" ->
                       Turn(p, "charge", at)
                [] x.current.kind = "charge" /\ x.charge = "ended" -> Turn(p, "idle", at)
                [] OTHER -> p
      BY <1>5, <1>1 DEF StepStanding
    <3> HIDE DEF y, p
    <3> QED
      BY <1>1, <3>2
  <2> HIDE DEF mark, y, since
  <2>5. /\ p \in Builders /\ p.pending = mark /\ p.current = x.current /\ p.done = x.done
        /\ p.link = x.link /\ p.gear = x.gear /\ p.charge = x.charge /\ p.off = Never
    BY <1>1, <2>1 DEF Builders
  <2>6. Over(p) = Over(x)
    BY <2>5 DEF Over
  <2>7. Listed(p, at) /\ Linked(p)
    BY <1>1, <2>5, <2>6 DEF Listed, Linked
  <2> HIDE DEF p
  <2>8. CASE y = Turn(p, "charge", at) /\ x.current.kind = "idle" /\ x.charge = "charging"
    <3>1. /\ y \in Builders /\ y.current = [kind |-> "charge", start |-> at]
          /\ y.link = x.link /\ y.gear = x.gear /\ y.charge = x.charge /\ y.pending = mark
          /\ y.off = Never /\ Over(y) = Over(p) \cup Added(p, at)
      BY <1>3, <2>5, <2>8, TurnIs
    <3>2. Earlier(Over(p), [kind |-> "charge", start |-> at])
      BY <1>1, <2>6 DEF Earlier, Begun
    <3>3. Listed(y, at)
      BY <1>1, <1>3, <2>5, <2>6, <2>7, <2>8, <3>1, <3>2, Turned
    <3>4. \A s \in Over(y) : s \in Over(x) \/ s.kind = "idle"
      BY <2>5, <2>6, <2>8, <3>1 DEF Added, Ending
    <3>5. Linked(y) /\ Marked(y, at)
      BY <1>1, <2>1, <3>1, <3>4 DEF Linked, Marked, Driving, NoSession
    <3>6. Overtaken(y) => Overtaken(x)
      BY <1>1, <2>1, <2>3, <2>8, <3>1 DEF Overtaken, Never
    <3> QED
      BY <2>1, <2>8, <3>1, <3>3, <3>5, <3>6 DEF Base, Settled, y
  <2>9. CASE y = Turn(p, "idle", at) /\ x.current.kind = "charge" /\ x.charge = "ended"
    <3>1. /\ y \in Builders /\ y.current = [kind |-> "idle", start |-> at]
          /\ y.link = x.link /\ y.gear = x.gear /\ y.charge = x.charge /\ y.pending = mark
          /\ y.off = Never /\ Over(y) = Over(p) \cup Added(p, at)
      BY <1>3, <2>5, <2>9, TurnIs
    <3>2. Earlier(Over(p), [kind |-> "idle", start |-> at])
      BY <1>1, <2>6 DEF Earlier, Begun
    <3>3. x.current.start < at
      BY <2>9 DEF Ready
    <3>4. Listed(y, at)
      BY <1>1, <1>3, <2>5, <2>6, <2>7, <2>9, <3>1, <3>2, <3>3, Turned
    <3>5. \A s \in Over(y) : s \in Over(x) \/ s.kind = "charge"
      BY <2>5, <2>6, <2>9, <3>1 DEF Added, Ending
    <3>6. Linked(y) /\ Marked(y, at)
      BY <1>1, <2>1, <3>1, <3>5 DEF Linked, Marked, Driving, NoSession
    <3> QED
      BY <2>1, <2>9, <3>1, <3>4, <3>6 DEF Base, Settled, Overtaken, y
  <2>10. CASE /\ y = p
              /\ ~(x.current.kind = "idle" /\ x.charge = "charging")
              /\ ~(x.current.kind = "charge" /\ x.charge = "ended")
    <3>1. Marked(p, at)
      BY <1>1, <2>1, <2>5, <2>6 DEF Marked, Driving
    <3>2. x.current.kind = "charge" => x.charge = "charging"
      BY <2>10 DEF Ready
    <3>3. Overtaken(p) => Overtaken(x)
      BY <1>1, <2>1, <2>2, <2>3, <2>5, <2>10 DEF Overtaken, Never
    <3>4. Settled(p)
      BY <1>1, <2>1, <2>5, <2>10, <3>2 DEF Settled, Overtaken
    <3> QED
      BY <2>5, <2>7, <2>10, <3>1, <3>3, <3>4 DEF Base, y
  <2> QED
    BY <2>4, <2>8, <2>9, <2>10
<1> QED
  BY <1>4, <1>5

LEMMA StepKeeps ==
    ASSUME NEW x, NEW at \in Nat, Base(x, at), NEW g, ~g.reset, Ready(x, at, g)
    PROVE  LET y == Step(x, at, g)
           IN  /\ Base(y, at) /\ Settled(y) /\ (Overtaken(y) => Overtaken(x))
               /\ Ready(y, at, g)
<1> DEFINE y == Step(x, at, g)
<1>1. Base(y, at) /\ Settled(y) /\ (Overtaken(y) => Overtaken(x))
  <2>1. CASE x.link # "up"
    BY <2>1, StepOfflineKeeps DEF Step
  <2>2. CASE x.link = "up" /\ Driving(x)
    BY <2>2, StepDrivingKeeps DEF Step
  <2>3. CASE x.link = "up" /\ ~Driving(x)
    BY <2>3, StepStandingKeeps DEF Step
  <2> QED
    BY <2>1, <2>2, <2>3
<1> HIDE DEF y
<1>2. Ready(y, at, g)
  BY <1>1 DEF Ready, Settled
<1> QED
  BY <1>1, <1>2 DEF y

LEMMA EvaluateKeeps ==
    ASSUME NEW x, NEW at \in Nat, Base(x, at), NEW g, ~g.reset, Ready(x, at, g)
    PROVE  LET y == Evaluate(x, at, g)
           IN  Base(y, at) /\ Settled(y) /\ (Overtaken(y) => Overtaken(x))
<1> DEFINE Fine(y) == Base(y, at) /\ Ready(y, at, g) /\ (Overtaken(y) => Overtaken(x))
           zero  == [b |-> x, settled |-> FALSE]
           one   == StepAgain(zero, at, g)
           two   == StepAgain(one, at, g)
           three == StepAgain(two, at, g)
           four  == StepAgain(three, at, g)
<1>1. ASSUME NEW r, Fine(r.b)
      PROVE  /\ Fine(StepAgain(r, at, g).b)
             /\ ~r.settled \/ Settled(r.b) => Settled(StepAgain(r, at, g).b)
  <2>1. StepAgain(r, at, g).b \in {r.b, Step(r.b, at, g)}
        /\ (~r.settled => StepAgain(r, at, g).b = Step(r.b, at, g))
    BY DEF StepAgain
  <2>2. Fine(Step(r.b, at, g)) /\ Settled(Step(r.b, at, g))
    BY <1>1, StepKeeps
  <2> QED
    BY <1>1, <2>1, <2>2
<1>2. Fine(zero.b) /\ ~zero.settled
  OBVIOUS
<1>3. Evaluate(x, at, g) = four.b
  BY EvaluateIs
<1> HIDE DEF zero, one, two, three, four, Fine
<1>4. Fine(one.b) /\ Settled(one.b)
  BY <1>1, <1>2 DEF one
<1>5. Fine(two.b) /\ Settled(two.b)
  BY <1>1, <1>4 DEF two
<1>6. Fine(three.b) /\ Settled(three.b)
  BY <1>1, <1>5 DEF three
<1>7. Fine(four.b) /\ Settled(four.b)
  BY <1>1, <1>6 DEF four
<1> QED
  BY <1>3, <1>7 DEF Fine

\* Time goes on.
LEMMA BaseLater ==
    ASSUME NEW x, NEW t \in Nat, NEW ts \in Nat, Base(x, t), t <= ts
    PROVE  Base(x, ts) /\ (t < ts => Begun(Over(x), ts))
<1>1. x \in Builders
  BY DEF Base
<1>2. /\ \A s \in Over(x) : s.start \in Nat /\ s.end \in Nat
      /\ x.current.start \in Nat /\ x.pending \in Nat /\ x.park \in Nat /\ x.off \in Nat
  BY <1>1, OverType DEF Builders
<1>3. InTime(Over(x), ts) /\ (t < ts => Begun(Over(x), ts)) /\ (Begun(Over(x), t) => Begun(Over(x), ts))
  BY <1>2 DEF Base, Listed, InTime, Begun
<1>4. Listed(x, ts)
  BY <1>2, <1>3 DEF Base, Listed
<1>5. Marked(x, ts)
  BY <1>2 DEF Base, Marked
<1> QED
  BY <1>3, <1>4, <1>5 DEF Base

LEMMA ConnectKeeps ==
    ASSUME NEW x, NEW ts \in Nat, Base(x, ts), Begun(Over(x), ts), NEW g, Ready(x, ts, g)
    PROVE  LET y == Connect(x, ts)
           IN  Base(y, ts) /\ Ready(y, ts, g) /\ (Overtaken(y) => Overtaken(x))
<1> DEFINE y == Connect(x, ts)
           up == [x EXCEPT !.link = "up", !.off = Never]
<1>1. x \in Builders /\ Listed(x, ts) /\ Linked(x) /\ Marked(x, ts)
  BY DEF Base
<1>2. x.off \in Nat /\ Never \in Nat /\ {"idle", "offline"} \subseteq Kinds
  BY <1>1 DEF Builders, Never, Kinds
<1>3. CASE x.link = "up"
  BY <1>3 DEF Connect
<1>4. CASE x.link # "up"
  <2>1. x.pending = Never /\ x.current.kind \in {"drive", "offline", "none"}
    BY <1>1, <1>4 DEF Builders, Marked, Linked, NoSession
  <2>2. /\ up \in Builders /\ up.link = "up" /\ up.off = Never /\ up.current = x.current
        /\ up.done = x.done /\ up.pending = Never /\ up.park = x.park
    BY <1>1, <1>2, <2>1 DEF Builders
  <2> HIDE DEF up
  <2>3. Over(up) = Over(x)
    BY <2>2 DEF Over
  <2>4. Listed(up, ts)
    BY <1>1, <2>2, <2>3 DEF Listed
  <2>5. ASSUME NEW z \in Builders, Listed(z, ts), z.current = [kind |-> "idle", start |-> ts],
               z.link = "up", z.off = Never, z.pending = Never
        PROVE  Base(z, ts) /\ Ready(z, ts, g) /\ ~Overtaken(z)
    BY <2>5 DEF Base, Linked, Marked, Driving, Ready, Overtaken
  <2>6. CASE Driving(x) /\ x.off # Never /\ ts - x.off >= OfflineEnd
    <3> DEFINE c == Turn(up, "offline", x.off)
               z == Turn(c, "idle", ts)
    <3>1. y = z
      <4>1. ~(ts - x.off < OfflineEnd)
        BY <1>2, <2>6, BuilderAssumption
      <4> QED
        BY <1>4, <2>6, <4>1 DEF Connect, up
    <3>2. /\ c \in Builders /\ c.current = [kind |-> "offline", start |-> x.off]
          /\ c.link = "up" /\ c.pending = Never /\ c.off = Never
          /\ Over(c) = Over(up) \cup Added(up, x.off)
      BY <1>2, <2>2, TurnIs
    <3>3. x.current.kind = "drive" /\ x.current.start < x.off /\ x.off <= ts
          /\ Begun(Over(x), x.off) /\ x.current.start < ts
      BY <1>1, <2>6 DEF Marked, Driving
    <3>4. Earlier(Over(x), [kind |-> "offline", start |-> x.off])
      BY <3>3 DEF Earlier, Begun
    <3>5. x.current.start \in Nat
      BY <1>1, OverType
    <3> HIDE DEF c
    <3>6. Listed(c, ts)
      BY <1>2, <2>2, <2>3, <2>4, <3>2, <3>3, <3>4, <3>5, Turned
    <3>7. /\ z \in Builders /\ z.current = [kind |-> "idle", start |-> ts]
          /\ z.link = "up" /\ z.pending = Never /\ z.off = Never
          /\ Over(z) = Over(c) \cup Added(c, ts)
      BY <1>2, <3>2, TurnIs
    <3> HIDE DEF z
    <3>8. Begun(Over(c), ts)
      BY <3>2, <3>6 DEF Listed
    <3>9. Earlier(Over(c), [kind |-> "idle", start |-> ts])
      BY <3>8 DEF Earlier, Begun
    <3>10. Listed(z, ts)
      <4>1. /\ "idle" \in Kinds /\ ts <= ts /\ c \in Builders /\ c.current.kind # "idle"
            /\ c.current.kind \notin {"drive", "charge"}
            /\ z \in Builders /\ Over(z) = Over(c) \cup Added(c, ts)
            /\ z.current = [kind |-> "idle", start |-> ts]
        BY <1>2, <3>2, <3>7
      <4> QED
        BY <3>6, <3>8, <3>9, <4>1, Turned
    <3> QED
      BY <2>5, <3>1, <3>7, <3>10
  <2>7. CASE Driving(x) /\ ~(x.off # Never /\ ts - x.off >= OfflineEnd)
    <3>1. y = up
      <4>1. x.off # Never => ts - x.off < OfflineEnd
        BY <1>2, <2>7, BuilderAssumption
      <4>2. up.current # NoSession /\ up.current.kind # "offline"
        BY <2>2, <2>7 DEF Driving, NoSession
      <4> QED
        BY <1>4, <2>7, <4>1, <4>2 DEF Connect, up
    <3>2. Base(up, ts) /\ Ready(up, ts, g) /\ ~Overtaken(up)
      BY <1>1, <2>2, <2>3, <2>4, <2>7 DEF Base, Linked, Marked, Driving, Ready, Overtaken
    <3> QED
      BY <3>1, <3>2
  <2>8. CASE ~Driving(x)
    <3> DEFINE woken == IF up.current.kind = "offline" THEN Close(up, ts) ELSE up
               z == Open(woken, "idle", ts)
    <3>1. woken.current = NoSession /\ y = z /\ z = Turn(up, "idle", ts)
      <4>1. up.current.kind = "offline" \/ up.current = NoSession
        BY <1>1, <2>1, <2>2, <2>8, OverType DEF Driving
      <4>2. Close(up, ts).current = NoSession
        BY <2>2, CloseIs
      <4>3. woken = Close(up, ts)
        BY <4>1 DEF Close, NoSession
      <4> HIDE DEF woken
      <4>4. y = IF woken.current = NoSession THEN z ELSE woken
        BY <1>4, <2>8 DEF Connect, up, woken
      <4> QED
        BY <4>2, <4>3, <4>4 DEF Turn
    <3>2. /\ z \in Builders /\ z.current = [kind |-> "idle", start |-> ts]
          /\ z.link = "up" /\ z.pending = Never /\ z.off = Never
          /\ Over(z) = Over(up) \cup Added(up, ts)
      BY <1>2, <2>2, <3>1, TurnIs
    <3> HIDE DEF z
    <3>3. Earlier(Over(up), [kind |-> "idle", start |-> ts])
      BY <2>3 DEF Earlier, Begun
    <3>4. Listed(z, ts)
      BY <1>2, <2>1, <2>2, <2>3, <2>4, <2>8, <3>2, <3>3, Turned DEF Driving
    <3> QED
      BY <2>5, <3>1, <3>2, <3>4
  <2> QED
    BY <2>6, <2>7, <2>8
<1> QED
  BY <1>3, <1>4

LEMMA DisconnectKeeps ==
    ASSUME NEW x, NEW ts \in Nat, Base(x, ts), NEW g, Ready(x, ts, g)
    PROVE  LET y == Disconnect(x, ts)
           IN  Base(y, ts) /\ Ready(y, ts, g) /\ y.link = "down"
<1> DEFINE y == Disconnect(x, ts)
           parked == IF Driving(x) /\ x.park # Never THEN Turn(x, "idle", x.park) ELSE x
           down == [parked EXCEPT !.link = "down", !.pending = Never, !.park = Never,
                                  !.gear = "unknown", !.charge = "unknown"]
<1>1. x \in Builders /\ Listed(x, ts) /\ Linked(x) /\ Marked(x, ts)
  BY DEF Base
<1>2. x.park \in Nat /\ Never \in Nat /\ {"idle", "offline"} \subseteq Kinds
      /\ x.current.start \in Nat
  BY <1>1, OverType DEF Builders, Never, Kinds
<1>3. CASE x.link = "down"
  BY <1>3 DEF Disconnect
<1>4. CASE x.link # "down"
  <2>1. Begun(Over(x), ts)
    BY <1>1, <1>4 DEF Listed
  <2>2. /\ parked \in Builders /\ Listed(parked, ts) /\ parked.link = x.link
        /\ parked.current.kind \in {"drive", "charge", "idle", "none"}
        /\ Driving(parked) => parked = x
    <3>1. CASE Driving(x) /\ x.park # Never
      <4> DEFINE c == Turn(x, "idle", x.park)
      <4>1. /\ c \in Builders /\ c.current = [kind |-> "idle", start |-> x.park]
            /\ c.link = x.link /\ Over(c) = Over(x) \cup Added(x, x.park)
        BY <1>1, <1>2, TurnIs
      <4>2. x.current.kind = "drive" /\ x.current.start < x.park /\ x.park <= ts
            /\ x.current.start < ts /\ Begun(Over(x), x.park)
        BY <1>1, <3>1 DEF Marked, Driving
      <4>3. Earlier(Over(x), [kind |-> "idle", start |-> x.park])
        BY <4>2 DEF Earlier, Begun
      <4>4. parked = c
        BY <3>1
      <4> HIDE DEF c, parked
      <4>5. Listed(c, ts)
        BY <1>1, <1>2, <2>1, <4>1, <4>2, <4>3, Turned
      <4> QED
        BY <4>1, <4>4, <4>5 DEF Driving
    <3>2. CASE ~(Driving(x) /\ x.park # Never)
      <4>1. parked = x
        BY <3>2
      <4>2. x.current.kind \in {"drive", "charge", "idle", "none"}
        BY <1>1, <1>4 DEF Linked, Builders, NoSession
      <4> QED
        BY <1>1, <4>1, <4>2
    <3> QED
      BY <3>1, <3>2
  <2> HIDE DEF parked
  <2>3. /\ down \in Builders /\ down.link = "down" /\ down.pending = Never /\ down.park = Never
        /\ down.current = parked.current /\ down.done = parked.done /\ down.off = parked.off
    BY <1>2, <2>2 DEF Builders
  <2> HIDE DEF down
  <2>4. Over(down) = Over(parked)
    BY <2>3 DEF Over
  <2>5. Listed(down, ts) /\ Begun(Over(down), ts)
    BY <1>4, <2>2, <2>3, <2>4 DEF Listed
  <2>6. CASE Driving(down)
    <3> DEFINE z == [down EXCEPT !.off = ts]
    <3>1. y = z
      BY <1>4, <2>6 DEF Disconnect, parked, down
    <3>2. /\ z \in Builders /\ z.link = "down" /\ z.pending = Never /\ z.park = Never
          /\ z.off = ts /\ z.current = x.current /\ z.done = down.done /\ z.current.kind = "drive"
      BY <2>2, <2>3, <2>6 DEF Builders, Driving
    <3> HIDE DEF z
    <3>3. Over(z) = Over(down)
      BY <3>2 DEF Over
    <3>4. z.current = down.current
      BY <2>2, <2>3, <2>6, <3>2 DEF Driving
    <3>5. Listed(z, ts) /\ Linked(z)
      BY <2>3, <2>5, <3>2, <3>3, <3>4 DEF Listed, Linked, NoSession
    <3>6. Marked(z, ts)
      BY <1>1, <2>5, <3>2, <3>3 DEF Marked, Driving
    <3> QED
      BY <3>1, <3>2, <3>5, <3>6 DEF Base, Ready, Overtaken
  <2>7. CASE ~Driving(down)
    <3> DEFINE z == Turn(down, "offline", ts)
    <3>1. y = z
      BY <1>4, <2>7 DEF Disconnect, parked, down
    <3>2. /\ z \in Builders /\ z.current = [kind |-> "offline", start |-> ts]
          /\ z.link = "down" /\ z.pending = Never
          /\ Over(z) = Over(down) \cup Added(down, ts)
      BY <1>2, <2>3, TurnIs
    <3> HIDE DEF z
    <3>3. Earlier(Over(down), [kind |-> "offline", start |-> ts])
      BY <2>5 DEF Earlier, Begun
    <3>4. down.current.kind \in {"charge", "idle", "none"}
          /\ (down.current.kind = "charge" => down.current.start <= ts)
      BY <2>2, <2>3, <2>5, <2>7 DEF Driving, Listed, NoSession
    <3>5. Listed(z, ts)
      BY <1>2, <2>3, <2>5, <3>2, <3>3, <3>4, Turned
    <3> QED
      BY <3>1, <3>2, <3>5 DEF Base, Linked, Marked, Driving, Ready, Overtaken, NoSession
  <2> QED
    BY <2>6, <2>7
<1> QED
  BY <1>3, <1>4

\* What a row may be: a change of the link or of one value.
LEMMA ReportIs ==
    ASSUME NEW g \in Reports
    PROVE  /\ ~g.reset /\ g.moved \in BOOLEAN
           /\ g.links \in {{}, {"connect"}, {"disconnect"}}
           /\ g.gear \in {"same", "park", "moving"} /\ g.charge \in {"same", "charging", "ended"}
           /\ g.moved => g.links = {} /\ g.charge = "same" /\ g.gear \in {"same", "moving"}
           /\ g.charge # "same" => g.gear = "same"
           /\ g.links # {} => g.charge = "same" /\ g.gear = "same"
<1> DEFINE r1 == [Silent EXCEPT !.links = {"connect"}]
           r2 == [Silent EXCEPT !.links = {"disconnect"}]
           r3 == [Silent EXCEPT !.gear = "moving", !.moved = TRUE]
           r4 == [Silent EXCEPT !.gear = "park"]
           r5 == [Silent EXCEPT !.charge = "charging"]
           r6 == [Silent EXCEPT !.charge = "ended"]
           r7 == [Silent EXCEPT !.moved = TRUE]
<1>1. g \in {r1, r2, r3, r4, r5, r6, Silent, r7}
  BY DEF Reports
<1>2. CASE g \in {r1, r2}
  BY <1>2 DEF Silent
<1>3. CASE g \in {r3, r4}
  BY <1>3 DEF Silent
<1>4. CASE g \in {r5, r6}
  BY <1>4 DEF Silent
<1>5. CASE g \in {Silent, r7}
  <2>1. CASE g = Silent
    BY <2>1 DEF Silent
  <2>2. CASE g = r7
    BY <2>2 DEF Silent
  <2> QED
    BY <1>5, <2>1, <2>2
<1> HIDE DEF r1, r2, r3, r4, r5, r6, r7
<1>6. g \in {r1, r2} \/ g \in {r3, r4} \/ g \in {r5, r6} \/ g \in {Silent, r7}
  BY <1>1
<1> QED
  BY <1>2, <1>3, <1>4, <1>5, <1>6

\* A step changes neither the link nor a value.
Alike(x, y) == x.link = y.link /\ x.gear = y.gear /\ x.charge = y.charge

LEMMA StepAlike ==
    ASSUME NEW x \in Builders, NEW at \in Nat, NEW g
    PROVE  Alike(Step(x, at, g), x)
<1>1. {"idle", "drive", "charge", "offline"} \subseteq Kinds /\ Never \in Nat
      /\ x.pending \in Nat /\ x.park \in Nat /\ x.off \in Nat
  BY DEF Kinds, Never, Builders
<1>2. ASSUME NEW y \in Builders, Alike(y, x), NEW kind \in Kinds, NEW end \in Nat
      PROVE  Turn(y, kind, end) \in Builders /\ Alike(Turn(y, kind, end), x)
  BY <1>2, TurnIs DEF Alike
<1>3. Alike(x, x)
  BY DEF Alike
<1>4. Alike(StepOffline(x, at), x)
  <2>1. Turn(x, "offline", x.off) \in Builders /\ Alike(Turn(x, "offline", x.off), x)
    BY <1>1, <1>2, <1>3
  <2>2. Alike([Turn(x, "offline", x.off) EXCEPT !.off = Never], x)
    BY <2>1 DEF Alike, Builders
  <2> QED
    BY <1>3, <2>2 DEF StepOffline
<1>5. Alike(StepDriving(x, at), x)
  <2> DEFINE since == IF x.park = Never THEN at ELSE x.park
  <2>1. since \in Nat
    BY <1>1
  <2>2. Turn(x, "idle", since) \in Builders /\ Alike(Turn(x, "idle", since), x)
    BY <1>1, <1>2, <1>3, <2>1
  <2> HIDE DEF since
  <2>3. /\ Alike([Turn(x, "idle", since) EXCEPT !.park = Never], x)
        /\ Alike([x EXCEPT !.park = since], x) /\ Alike([x EXCEPT !.park = Never], x)
    BY <2>2 DEF Alike, Builders
  <2> QED
    BY <1>3, <2>3 DEF StepDriving, since
<1>6. Alike(StepStanding(x, at, g), x)
  <2> DEFINE since == IF x.pending = Never THEN at ELSE x.pending
             p == [x EXCEPT !.pending = IF x.gear = "moving" THEN since ELSE Never]
  <2>1. since \in Nat
    BY <1>1
  <2>2. Turn(x, "drive", since) \in Builders /\ Alike(Turn(x, "drive", since), x)
    BY <1>1, <1>2, <1>3, <2>1
  <2>3. p \in Builders /\ Alike(p, x)
    BY <1>1, <2>1 DEF Builders, Alike
  <2>4. StepStanding(x, at, g) \in
           {[Turn(x, "drive", since) EXCEPT !.pending = Never, !.park = Never],
            Turn(p, "charge", at), Turn(p, "idle", at), p}
    BY DEF StepStanding
  <2> HIDE DEF since, p
  <2>5. Alike([Turn(x, "drive", since) EXCEPT !.pending = Never, !.park = Never], x)
    BY <2>2 DEF Alike, Builders
  <2>6. Alike(Turn(p, "charge", at), x) /\ Alike(Turn(p, "idle", at), x)
    BY <1>1, <1>2, <2>3
  <2> QED
    BY <2>3, <2>4, <2>5, <2>6
<1> QED
  BY <1>4, <1>5, <1>6 DEF Step

LEMMA EvaluateAlike ==
    ASSUME NEW x \in Builders, NEW at \in Nat, NEW g
    PROVE  Alike(Evaluate(x, at, g), x)
<1> DEFINE Fine(y) == y \in Builders /\ Alike(y, x)
           zero  == [b |-> x, settled |-> FALSE]
           one   == StepAgain(zero, at, g)
           two   == StepAgain(one, at, g)
           three == StepAgain(two, at, g)
           four  == StepAgain(three, at, g)
<1>1. ASSUME NEW r, Fine(r.b)
      PROVE  Fine(StepAgain(r, at, g).b)
  <2>1. StepAgain(r, at, g).b \in {r.b, Step(r.b, at, g)}
    BY DEF StepAgain
  <2>2. Step(r.b, at, g) \in Builders /\ Alike(Step(r.b, at, g), r.b)
    BY <1>1, StepType, StepAlike
  <2> QED
    BY <1>1, <2>1, <2>2 DEF Alike
<1>2. Fine(zero.b)
  BY DEF Alike
<1>3. Evaluate(x, at, g) = four.b
  BY EvaluateIs
<1> HIDE DEF zero, one, two, three, four, Fine
<1>4. Fine(one.b)
  BY <1>1, <1>2 DEF one
<1>5. Fine(two.b)
  BY <1>1, <1>4 DEF two
<1>6. Fine(three.b)
  BY <1>1, <1>5 DEF three
<1>7. Fine(four.b)
  BY <1>1, <1>6 DEF four
<1> QED
  BY <1>3, <1>7 DEF Fine

LEMMA ConnectAlike ==
    ASSUME NEW x \in Builders, NEW ts \in Nat
    PROVE  LET y == Connect(x, ts)
           IN  y.link = "up" /\ y.gear = x.gear /\ y.charge = x.charge
<1> DEFINE y == Connect(x, ts)
           up == [x EXCEPT !.link = "up", !.off = Never]
           woken == IF up.current.kind = "offline" THEN Close(up, ts) ELSE up
<1>1. "idle" \in Kinds /\ "offline" \in Kinds /\ x.off \in Nat
  BY DEF Kinds, Builders
<1>2. up \in Builders /\ up.link = "up" /\ up.gear = x.gear /\ up.charge = x.charge
  BY DEF Builders, Never
<1>3. y \in {x, Turn(Turn(up, "offline", x.off), "idle", ts), up, Open(woken, "idle", ts), woken}
      /\ (y = x => x.link = "up" \/ x \in {Turn(Turn(up, "offline", x.off), "idle", ts), up,
                                           Open(woken, "idle", ts), woken})
  BY DEF Connect
<1> HIDE DEF up
<1>4. LET c == Turn(Turn(up, "offline", x.off), "idle", ts)
      IN  c.link = "up" /\ c.gear = x.gear /\ c.charge = x.charge
  <2>1. LET c == Turn(up, "offline", x.off)
        IN  c \in Builders /\ c.link = "up" /\ c.gear = x.gear /\ c.charge = x.charge
    BY <1>1, <1>2, TurnIs
  <2> QED
    BY <1>1, <2>1, TurnIs
<1>5. woken \in Builders /\ woken.link = "up" /\ woken.gear = x.gear /\ woken.charge = x.charge
  BY <1>2, CloseIs
<1> HIDE DEF woken
<1>6. LET c == Open(woken, "idle", ts)
      IN  c.link = "up" /\ c.gear = x.gear /\ c.charge = x.charge
  BY <1>5 DEF Open, Builders
<1> HIDE DEF y
<1> QED
  BY <1>2, <1>3, <1>4, <1>5, <1>6 DEF y

LEMMA DisconnectAlike ==
    ASSUME NEW x \in Builders, NEW ts \in Nat
    PROVE  LET y == Disconnect(x, ts)
           IN  /\ y.link = "down"
               /\ x.link # "down" => y.gear = "unknown" /\ y.charge = "unknown"
<1> DEFINE y == Disconnect(x, ts)
           parked == IF Driving(x) /\ x.park # Never THEN Turn(x, "idle", x.park) ELSE x
           down == [parked EXCEPT !.link = "down", !.pending = Never, !.park = Never,
                                  !.gear = "unknown", !.charge = "unknown"]
<1>1. "idle" \in Kinds /\ "offline" \in Kinds /\ x.park \in Nat
  BY DEF Kinds, Builders
<1>2. parked \in Builders
  BY <1>1, TurnType
<1>3. x.link # "down" => y \in {[down EXCEPT !.off = ts], Turn(down, "offline", ts)}
  BY DEF Disconnect
<1>4. x.link = "down" => y = x
  BY DEF Disconnect
<1> HIDE DEF parked, y
<1>5. down \in Builders /\ down.link = "down" /\ down.gear = "unknown" /\ down.charge = "unknown"
  BY <1>2 DEF Builders, Never
<1> HIDE DEF down
<1>6. LET c == [down EXCEPT !.off = ts]
      IN  c.link = "down" /\ c.gear = "unknown" /\ c.charge = "unknown"
  BY <1>5 DEF Builders
<1>7. LET c == Turn(down, "offline", ts)
      IN  c.link = "down" /\ c.gear = "unknown" /\ c.charge = "unknown"
  BY <1>1, <1>5, TurnIs
<1> QED
  BY <1>3, <1>4, <1>6, <1>7 DEF y

\* What a row does to the link and the values.
Took(f, x, g) ==
    /\ g.links = {} => f.link = x.link
    /\ g.links = {"connect"} => f.link = "up"
    /\ g.links = {"disconnect"} => f.link = "down"
    /\ g.links # {"disconnect"} =>
           /\ f.gear = IF g.gear = "same" THEN x.gear ELSE g.gear
           /\ f.charge = IF g.charge = "same" THEN x.charge ELSE g.charge
    /\ g.links = {"disconnect"} /\ x.link # "down" => f.gear = "unknown" /\ f.charge = "unknown"

LEMMA FeedIs ==
    ASSUME NEW x \in Builders, NEW ts \in Nat, NEW g \in Reports
    PROVE  Feed(x, ts, g) \in Builders /\ Took(Feed(x, ts, g), x, g)
<1> DEFINE applied == Apply(x, g)
           linked == IF "connect" \in g.links THEN Connect(applied, ts) ELSE applied
           evaluated == Evaluate(linked, ts, g)
           cut == Disconnect(evaluated, ts)
           f == Feed(x, ts, g)
<1>1. g.gear \in {"same", "park", "moving"} /\ g.charge \in {"same", "charging", "ended"}
      /\ g.links \in {{}, {"connect"}, {"disconnect"}}
  BY ReportIs
<1>2. /\ applied \in Builders /\ applied.link = x.link
      /\ applied.gear = IF g.gear = "same" THEN x.gear ELSE g.gear
      /\ applied.charge = IF g.charge = "same" THEN x.charge ELSE g.charge
  BY <1>1 DEF Apply, Builders
<1>3. f = IF "disconnect" \in g.links THEN Evaluate(cut, ts, g) ELSE evaluated
  BY DEF Feed
<1> HIDE DEF applied, f
<1>4. /\ linked \in Builders /\ linked.gear = applied.gear /\ linked.charge = applied.charge
      /\ linked.link = IF "connect" \in g.links THEN "up" ELSE x.link
  BY <1>2, ConnectType, ConnectAlike
<1> HIDE DEF linked
<1>5. evaluated \in Builders /\ Alike(evaluated, linked)
  BY <1>4, EvaluateType, EvaluateAlike
<1> HIDE DEF evaluated
<1>6. /\ cut \in Builders /\ cut.link = "down"
      /\ evaluated.link # "down" => cut.gear = "unknown" /\ cut.charge = "unknown"
  BY <1>5, DisconnectType, DisconnectAlike
<1> HIDE DEF cut
<1>7. Evaluate(cut, ts, g) \in Builders /\ Alike(Evaluate(cut, ts, g), cut)
  BY <1>6, EvaluateType, EvaluateAlike
<1>8. f \in Builders
  BY <1>3, <1>5, <1>7
<1>9. CASE g.links = {"disconnect"}
  <2>1. f = Evaluate(cut, ts, g) /\ linked.link = x.link
    BY <1>3, <1>4, <1>9
  <2> QED
    BY <1>5, <1>6, <1>7, <1>8, <1>9, <2>1 DEF Alike, Took, f
<1>10. CASE g.links # {"disconnect"}
  <2>1. f = evaluated
    BY <1>1, <1>3, <1>10
  <2> QED
    BY <1>1, <1>2, <1>4, <1>5, <1>8, <1>10, <2>1 DEF Alike, Took, f
<1> QED
  BY <1>9, <1>10

\* A row that comes after what the builder has seen, and moves no car that a late park
\* has left behind: the list stays in order.
LEMMA FeedKeeps ==
    ASSUME NEW x, NEW t \in Nat, NEW ts \in Nat, t < ts, Base(x, t), Settled(x),
           NEW g \in Reports, g.moved => ~Overtaken(x)
    PROVE  LET f == Feed(x, ts, g)
           IN  /\ Base(f, ts) /\ Settled(f)
               /\ Overtaken(f) => /\ g.links # {"disconnect"}
                                  /\ Overtaken(x) \/ (g.charge = "charging" /\ x.gear = "moving")
<1> DEFINE applied == Apply(x, g)
           linked == IF "connect" \in g.links THEN Connect(applied, ts) ELSE applied
           evaluated == Evaluate(linked, ts, g)
           cut == Disconnect(evaluated, ts)
           f == Feed(x, ts, g)
<1>1. /\ ~g.reset /\ g.moved \in BOOLEAN
      /\ g.links \in {{}, {"connect"}, {"disconnect"}}
      /\ g.gear \in {"same", "park", "moving"} /\ g.charge \in {"same", "charging", "ended"}
      /\ g.moved => g.charge = "same"
  BY ReportIs
<1>2. Base(x, ts) /\ Begun(Over(x), ts) /\ x \in Builders
  BY BaseLater DEF Base
<1>3. /\ applied \in Builders /\ applied.link = x.link /\ applied.done = x.done
      /\ applied.current = x.current /\ applied.pending = x.pending
      /\ applied.park = x.park /\ applied.off = x.off
      /\ applied.charge = IF g.charge = "same" THEN x.charge ELSE g.charge
  BY <1>1, <1>2 DEF Apply, Builders
<1>4. f = IF "disconnect" \in g.links THEN Evaluate(cut, ts, g) ELSE evaluated
  BY DEF Feed
<1> HIDE DEF applied, f
<1>5. Over(applied) = Over(x)
  BY <1>3 DEF Over
<1>6. Base(applied, ts)
  BY <1>2, <1>3, <1>5 DEF Base, Listed, Linked, Marked, Driving
<1>7. x.current.kind = "charge" => x.charge = "charging" /\ x.current.start < ts
  <2>1. x.current.kind = "charge" => x.current # NoSession
    BY DEF NoSession
  <2>2. x.current.start \in Nat
    BY <1>2, OverType
  <2> QED
    BY <2>1, <2>2 DEF Base, Listed, Settled
<1>8. Ready(applied, ts, g)
  BY <1>1, <1>3, <1>7 DEF Ready, Overtaken
<1>9. Overtaken(applied) => Overtaken(x) \/ (g.charge = "charging" /\ x.gear = "moving")
  BY <1>1, <1>3 DEF Overtaken, Settled
<1>10. Base(linked, ts) /\ Ready(linked, ts, g) /\ (Overtaken(linked) => Overtaken(applied))
  <2>1. Begun(Over(applied), ts)
    BY <1>2, <1>5
  <2> QED
    BY <1>6, <1>8, <2>1, ConnectKeeps
<1> HIDE DEF linked
<1>11. Base(evaluated, ts) /\ Settled(evaluated) /\ (Overtaken(evaluated) => Overtaken(linked))
  BY <1>1, <1>10, EvaluateKeeps
<1> HIDE DEF evaluated
<1>12. CASE "disconnect" \in g.links
  <2>1. Ready(evaluated, ts, g)
    <3>1. g.moved => ~Overtaken(evaluated)
      BY <1>10, <1>11 DEF Ready
    <3> QED
      BY <1>11, <3>1 DEF Ready, Settled
  <2>2. Base(cut, ts) /\ Ready(cut, ts, g) /\ ~Overtaken(cut)
    BY <1>11, <2>1, DisconnectKeeps DEF Overtaken
  <2> HIDE DEF cut
  <2>3. LET y == Evaluate(cut, ts, g) IN Base(y, ts) /\ Settled(y) /\ (Overtaken(y) => Overtaken(cut))
    BY <1>1, <2>2, EvaluateKeeps
  <2> QED
    BY <1>4, <1>12, <2>2, <2>3 DEF f
<1>13. CASE "disconnect" \notin g.links
  BY <1>4, <1>9, <1>10, <1>11, <1>13 DEF f
<1> QED
  BY <1>12, <1>13

-----------------------------------------------------------------------------
(* A whole log.                                                            *)

Logs == [1..MaxTime -> Reports \cup {Nothing}]

\* What one timestamp does to the builder of the timestamps before it.
FedOne(rows, x, t) == IF rows[t] = Nothing THEN x ELSE Feed(x, t, rows[t])

\* f is the run of the builder over the timestamps from..to.
IsRun(f, rows, from, to) ==
    f = [t \in (from - 1)..to |->
            IF t = from - 1 THEN NewBuilder ELSE FedOne(rows, f[t - 1], t)]

LEMMA RunExists ==
    ASSUME NEW rows, NEW from \in Nat \ {0}, NEW to \in Nat, from - 1 <= to
    PROVE  \E f : IsRun(f, rows, from, to)
<1> DEFINE Good == {n \in Nat : \E f : IsRun(f, rows, from, from - 1 + n)}
<1>1. 0 \in Good
  <2> DEFINE f == [t \in (from - 1)..(from - 1) |-> NewBuilder]
  <2>1. IsRun(f, rows, from, from - 1)
    BY DEF IsRun
  <2> QED
    BY <2>1
<1>2. ASSUME NEW n \in Nat, n \in Good
      PROVE  n + 1 \in Good
  <2>1. PICK f : IsRun(f, rows, from, from - 1 + n)
    BY <1>2
  <2> DEFINE last == from + n
             h == [t \in (from - 1)..last |->
                      IF t = last THEN FedOne(rows, f[last - 1], last) ELSE f[t]]
  <2>2. \A t \in (from - 1)..last :
            h[t] = IF t = from - 1 THEN NewBuilder ELSE FedOne(rows, h[t - 1], t)
    <3> SUFFICES ASSUME NEW t \in (from - 1)..last
                 PROVE  h[t] = IF t = from - 1 THEN NewBuilder ELSE FedOne(rows, h[t - 1], t)
      OBVIOUS
    <3>1. CASE t = last
      <4>1. h[t] = FedOne(rows, f[t - 1], t) /\ h[t - 1] = f[t - 1] /\ t # from - 1
        BY <3>1
      <4> QED
        BY <4>1
    <3>2. CASE t # last
      <4>1. t \in (from - 1)..(from - 1 + n) /\ h[t] = f[t]
        BY <3>2
      <4>2. f[t] = IF t = from - 1 THEN NewBuilder ELSE FedOne(rows, f[t - 1], t)
        BY <2>1, <4>1 DEF IsRun
      <4>3. t # from - 1 => h[t - 1] = f[t - 1]
        BY <3>2
      <4> QED
        BY <4>1, <4>2, <4>3
    <3> QED
      BY <3>1, <3>2
  <2>3. IsRun(h, rows, from, last)
    BY <2>2 DEF IsRun
  <2> HIDE DEF h
  <2> QED
    BY <2>3
<1>3. to - (from - 1) \in Nat
  OBVIOUS
<1> HIDE DEF Good
<1>4. to - (from - 1) \in Good
  BY <1>1, <1>2, <1>3, Reaches
<1> QED
  BY <1>4 DEF Good

\* Fed is such a run.
LEMMA FedIsRun ==
    ASSUME NEW rows, NEW from \in Nat \ {0}, NEW to \in Nat, from - 1 <= to
    PROVE  \E f : IsRun(f, rows, from, to) /\ Fed(rows, from, to) = f[to]
<1> DEFINE Body(f) == [t \in (from - 1)..to |->
                           CASE t = from - 1 -> NewBuilder
                             [] t >= from /\ rows[t] = Nothing -> f[t - 1]
                             [] OTHER -> Feed(f[t - 1], t, rows[t])]
           run == CHOOSE f : f = Body(f)
<1>1. Fed(rows, from, to) = run[to]
  BY DEF Fed
<1>2. \A f : Body(f) = [t \in (from - 1)..to |->
                           IF t = from - 1 THEN NewBuilder ELSE FedOne(rows, f[t - 1], t)]
  BY DEF FedOne
<1>3. \E f : f = Body(f)
  <2>1. PICK f : IsRun(f, rows, from, to)
    BY RunExists
  <2>2. f = Body(f)
    BY <1>2, <2>1, Zenon DEF IsRun
  <2> QED
    BY <2>2
<1>4. run = Body(run)
  BY <1>3
<1>5. IsRun(run, rows, from, to)
  BY <1>2, <1>4 DEF IsRun
<1> HIDE DEF run, Body
<1> QED
  BY <1>1, <1>5

SameRows(rows, others, from, to) == \A t \in from..to : rows[t] = others[t]

\* Two runs over the same rows agree as far as both go.
LEMMA RunsAgree ==
    ASSUME NEW rows, NEW others, NEW from \in Nat \ {0}, NEW to \in Nat, NEW end \in Nat,
           from - 1 <= to, to <= end, SameRows(rows, others, from, to),
           NEW f, IsRun(f, rows, from, to), NEW h, IsRun(h, others, from, end)
    PROVE  f[to] = h[to]
<1> DEFINE Good == {n \in Nat : from - 1 + n <= to => f[from - 1 + n] = h[from - 1 + n]}
<1>1. 0 \in Good
  <2>1. f[from - 1] = NewBuilder /\ h[from - 1] = NewBuilder
    BY DEF IsRun
  <2> QED
    BY <2>1
<1>2. ASSUME NEW n \in Nat, n \in Good
      PROVE  n + 1 \in Good
  <2> DEFINE t == from + n
  <2>1. SUFFICES ASSUME t <= to PROVE f[t] = h[t]
    OBVIOUS
  <2>2. t \in (from - 1)..to /\ t \in (from - 1)..end /\ t # from - 1 /\ t \in from..to
        /\ t - 1 = from - 1 + n
    BY <2>1
  <2>3. f[t - 1] = h[t - 1]
    BY <1>2, <2>2
  <2> HIDE DEF t
  <2>4. f[t] = FedOne(rows, f[t - 1], t) /\ h[t] = FedOne(others, h[t - 1], t)
    BY <2>2 DEF IsRun
  <2>5. rows[t] = others[t]
    BY <2>2 DEF SameRows
  <2> QED
    BY <2>3, <2>4, <2>5 DEF FedOne
<1>3. to - (from - 1) \in Nat
  OBVIOUS
<1> HIDE DEF Good
<1>4. to - (from - 1) \in Good
  BY <1>1, <1>2, <1>3, Reaches
<1> QED
  BY <1>4 DEF Good

\* So one timestamp after the other can be looked at, and only the rows up to it matter.
LEMMA FedNext ==
    ASSUME NEW rows, NEW from \in Nat \ {0}, NEW t \in Nat, from <= t
    PROVE  Fed(rows, from, t) = FedOne(rows, Fed(rows, from, t - 1), t)
<1>1. t - 1 \in Nat /\ from - 1 <= t - 1 /\ t - 1 <= t
  OBVIOUS
<1>2. PICK f : IsRun(f, rows, from, t) /\ Fed(rows, from, t) = f[t]
  BY FedIsRun
<1>3. PICK h : IsRun(h, rows, from, t - 1) /\ Fed(rows, from, t - 1) = h[t - 1]
  BY <1>1, FedIsRun
<1>4. h[t - 1] = f[t - 1]
  <2>1. PICK u \in Nat : u = t - 1
    BY <1>1
  <2>2. from - 1 <= u /\ u <= t /\ IsRun(h, rows, from, u) /\ SameRows(rows, rows, from, u)
    BY <1>1, <1>3, <2>1 DEF SameRows
  <2>3. h[u] = f[u]
    BY <1>2, <2>2, RunsAgree
  <2> QED
    BY <2>1, <2>3
<1>5. f[t] = FedOne(rows, f[t - 1], t)
  BY <1>1, <1>2 DEF IsRun
<1> QED
  BY <1>2, <1>3, <1>4, <1>5

LEMMA FedFirst ==
    ASSUME NEW rows, NEW from \in Nat \ {0}
    PROVE  Fed(rows, from, from - 1) = NewBuilder
<1>1. from - 1 \in Nat
  OBVIOUS
<1>2. PICK f : IsRun(f, rows, from, from - 1) /\ Fed(rows, from, from - 1) = f[from - 1]
  BY <1>1, FedIsRun
<1> QED
  BY <1>2 DEF IsRun

LEMMA FedAgrees ==
    ASSUME NEW rows, NEW others, NEW from \in Nat \ {0}, NEW to \in Nat, from - 1 <= to,
           SameRows(rows, others, from, to)
    PROVE  Fed(rows, from, to) = Fed(others, from, to)
<1>1. PICK f : IsRun(f, rows, from, to) /\ Fed(rows, from, to) = f[to]
  BY FedIsRun
<1>2. PICK h : IsRun(h, others, from, to) /\ Fed(others, from, to) = h[to]
  BY FedIsRun
<1> QED
  BY <1>1, <1>2, RunsAgree

\* And it keeps the type.
LEMMA FedType ==
    ASSUME NEW rows \in Logs, NEW from \in Nat \ {0}, NEW to \in Nat, from - 1 <= to, to <= MaxTime
    PROVE  Fed(rows, from, to) \in Builders
<1> DEFINE Good == {n \in Nat : Fed(rows, from, from - 1 + n) \in Builders}
<1>1. 0 \in Good
  <2>1. NewBuilder \in Builders
    BY DEF NewBuilder, Builders, Never
  <2> QED
    BY <2>1, FedFirst
<1>2. ASSUME NEW n \in Nat, n < to - (from - 1), n \in Good
      PROVE  n + 1 \in Good
  <2> DEFINE t == from + n
  <2>1. t \in Nat /\ from <= t /\ t \in 1..MaxTime /\ t - 1 = from - 1 + n
    BY <1>2, RebuildAssumption
  <2>2. Fed(rows, from, t - 1) \in Builders
    BY <1>2, <2>1
  <2>3. rows[t] # Nothing => rows[t] \in Reports
    BY <2>1 DEF Logs
  <2> HIDE DEF t
  <2>4. Fed(rows, from, t) \in Builders
    BY <2>1, <2>2, <2>3, FedNext, FeedType DEF FedOne
  <2> QED
    BY <2>4 DEF t
<1>3. to - (from - 1) \in Nat
  OBVIOUS
<1> HIDE DEF Good
<1>4. to - (from - 1) \in Good
  BY <1>1, <1>2, <1>3, Reaches
<1> QED
  BY <1>4 DEF Good

\* What finalize returns is sessions with times; the one in progress ends at Running.
Timed == [kind : Kinds, start : Int, end : Int]

LEMMA FinalizedType ==
    ASSUME NEW rows \in Logs, NEW from \in Nat \ {0}, NEW to \in 1..MaxTime,
           With(rows, from, to) # {}
    PROVE  Finalized(rows, from, to) \subseteq Timed
<1> DEFINE g == rows[Max(With(rows, from, to))]
           x == Evaluate(Fed(rows, from, to), to, g)
<1>1. from - 1 <= to /\ to \in Nat /\ to <= MaxTime /\ Running \in Int
  BY RebuildAssumption DEF With, Running
<1>2. x \in Builders
  BY <1>1, FedType, EvaluateType
<1> HIDE DEF g
<1>3. Finalized(rows, from, to) =
          {x.done[i] : i \in DOMAIN x.done} \cup
          (IF x.current = NoSession THEN {}
           ELSE {[kind |-> x.current.kind, start |-> x.current.start, end |-> Running]})
  BY DEF Finalized, g
<1> HIDE DEF x
<1>4. \A i \in DOMAIN x.done : x.done[i] \in Timed
  <2>1. x.done \in Seq(Spans)
    BY <1>2 DEF Builders
  <2>2. \A i \in DOMAIN x.done : x.done[i] \in Spans
    BY <2>1
  <2>3. Spans \subseteq Timed
    BY DEF Spans, Timed
  <2> QED
    BY <2>2, <2>3
<1>5. x.current # NoSession =>
          [kind |-> x.current.kind, start |-> x.current.start, end |-> Running] \in Timed
  BY <1>1, <1>2 DEF Builders, Timed
<1> QED
  BY <1>3, <1>4, <1>5

-----------------------------------------------------------------------------
(* The rows the live job reads: what the car reported, but for one row.    *)

\* g is what a car can report that has reported what made `car`.
Follows(car, g) ==
    /\ g.links = {"connect"} <=> car.link # "up"
    /\ g.gear # "same" => g.gear # car.gear
    /\ g.gear = "moving" => car.charge # "charging"
    /\ g.charge = "charging" => car.gear = "park" /\ car.charge # "charging"
    /\ g.charge = "ended" => car.charge = "charging"
    /\ g.moved => g.gear = "moving" \/ car.gear = "moving"
    /\ g = Silent => car.gear # "moving"

\* The log has no row of the future, and each row follows those before it; the one that
\* is late is none of the link.
Told ==
    /\ \A t \in 1..MaxTime : log[t] # Nothing => t <= now /\ Follows(Fed(log, 1, t - 1), log[t])
    /\ late # 0 => late \in 1..now /\ log[late].links = {}

\* What a builder that starts at `from`, without the late row, knows of the car at t.
Knows(car, x, from, t) ==
    /\ x.link \in {car.link, "unknown"}
    /\ late \notin from..t => x.gear \in {car.gear, "unknown"}
    /\ Overtaken(x) => late \in from..t /\ car.gear = "park" /\ car.charge = "charging"

\* What the builder makes of the rows from `from` to t.
Reads(from, t) ==
    LET x == Fed(Rows, from, t)
    IN  Base(x, t) /\ Settled(x) /\ Knows(Fed(log, 1, t), x, from, t)

LEMMA ReadsOn ==
    ASSUME log \in Logs, Told, late \in Nat,
           NEW from \in Nat \ {0}, NEW t \in 1..MaxTime, from <= t, Reads(from, t - 1)
    PROVE  Reads(from, t)
<1> DEFINE g == log[t]
           car == Fed(log, 1, t - 1)
           x == Fed(Rows, from, t - 1)
           next == Fed(log, 1, t)
           f == Fed(Rows, from, t)
<1>1. t \in Nat /\ t - 1 \in Nat /\ t - 1 < t /\ 1 <= t /\ t <= MaxTime
      /\ \A u : u \in from..t <=> u \in from..(t - 1) \/ u = t
  BY RebuildAssumption
<1>2. Base(x, t - 1) /\ Settled(x) /\ Knows(car, x, from, t - 1)
  BY DEF Reads
<1>3. car \in Builders
  <2>1. 1 \in Nat \ {0} /\ 1 - 1 <= t - 1 /\ t - 1 <= MaxTime
    BY <1>1, RebuildAssumption
  <2> QED
    BY <1>1, <2>1, FedType
<1>4. next = FedOne(log, car, t) /\ f = FedOne(Rows, x, t)
  BY <1>1, FedNext
<1>5. Rows[t] = IF t = late THEN Nothing ELSE g
  BY DEF Rows
<1>6. g = Nothing \/ (g \in Reports /\ Follows(car, g))
  BY DEF Logs, Told
<1> HIDE DEF car, x, next, f, g
<1>7. Base(x, t) /\ x \in Builders
  BY <1>1, <1>2, BaseLater DEF Base
<1>8. CASE g = Nothing
  <2>1. next = car /\ f = x
    BY <1>4, <1>5, <1>8 DEF FedOne, g
  <2> QED
    BY <1>1, <1>2, <1>7, <2>1 DEF Reads, Knows, next, f
<1>9. CASE g # Nothing /\ t = late
  <2>1. next = Feed(car, t, g) /\ f = x
    BY <1>4, <1>5, <1>9 DEF FedOne, g
  <2>2. g.links = {} /\ late \in from..t /\ ~Overtaken(x)
    BY <1>1, <1>2, <1>9 DEF Told, Knows, g
  <2>3. g \in Reports
    BY <1>6, <1>9
  <2>4. next.link = car.link
    <3>1. Took(Feed(car, t, g), car, g)
      BY <1>1, <1>3, <2>3, FeedIs
    <3> QED
      BY <2>1, <2>2, <3>1 DEF Took
  <2> QED
    BY <1>2, <1>7, <2>1, <2>2, <2>4 DEF Reads, Knows, next, f
<1>10. CASE g # Nothing /\ t # late
  <2>1. next = Feed(car, t, g) /\ f = Feed(x, t, g) /\ g \in Reports /\ Follows(car, g)
    BY <1>4, <1>5, <1>6, <1>10 DEF FedOne, g
  <2>2. /\ g.links \in {{}, {"connect"}, {"disconnect"}}
        /\ g.gear \in {"same", "park", "moving"} /\ g.charge \in {"same", "charging", "ended"}
        /\ g.moved => g.charge = "same" /\ g.gear \in {"same", "moving"}
    BY <2>1, ReportIs
  <2>3. g.moved => ~Overtaken(x)
    BY <1>2, <2>1 DEF Knows, Follows
  <2>4. /\ Base(f, t) /\ Settled(f)
        /\ Overtaken(f) => /\ g.links # {"disconnect"}
                           /\ Overtaken(x) \/ (g.charge = "charging" /\ x.gear = "moving")
    BY <1>1, <1>2, <2>1, <2>3, FeedKeeps
  <2>5. /\ g.links = {} => f.link = x.link
        /\ g.links = {"connect"} => f.link = "up"
        /\ g.links = {"disconnect"} => f.link = "down"
        /\ g.links # {"disconnect"} =>
               /\ f.gear = IF g.gear = "same" THEN x.gear ELSE g.gear
               /\ f.charge = IF g.charge = "same" THEN x.charge ELSE g.charge
        /\ g.links = {"disconnect"} /\ x.link # "down" => f.gear = "unknown"
    <3>1. Took(Feed(x, t, g), x, g)
      BY <1>1, <1>7, <2>1, FeedIs
    <3> QED
      BY <2>1, <3>1 DEF Took
  <2>6. /\ g.links = {} => next.link = car.link
        /\ g.links = {"connect"} => next.link = "up"
        /\ g.links = {"disconnect"} => next.link = "down"
        /\ g.links # {"disconnect"} =>
               /\ next.gear = IF g.gear = "same" THEN car.gear ELSE g.gear
               /\ next.charge = IF g.charge = "same" THEN car.charge ELSE g.charge
    <3>1. Took(Feed(car, t, g), car, g)
      BY <1>1, <1>3, <2>1, FeedIs
    <3> QED
      BY <2>1, <3>1 DEF Took
  <2>7. f.link \in {next.link, "unknown"}
    BY <1>2, <2>2, <2>5, <2>6 DEF Knows
  <2>8. late \notin from..t => f.gear \in {next.gear, "unknown"}
    <3>1. CASE g.links = {"disconnect"}
      <4>1. car.link = "up"
        BY <2>1, <3>1 DEF Follows
      <4> QED
        BY <1>2, <2>5, <2>6, <3>1, <4>1 DEF Knows
    <3>2. CASE g.links # {"disconnect"}
      BY <1>1, <1>2, <2>5, <2>6, <3>2 DEF Knows
    <3> QED
      BY <3>1, <3>2
  <2>9. Overtaken(f) => late \in from..t /\ next.gear = "park" /\ next.charge = "charging"
    <3>1. SUFFICES ASSUME Overtaken(f)
                   PROVE  late \in from..t /\ next.gear = "park" /\ next.charge = "charging"
      OBVIOUS
    <3>2. f.gear = "moving" /\ f.charge = "charging" /\ g.links # {"disconnect"}
      BY <2>4, <3>1 DEF Overtaken, Settled
    <3>3. CASE Overtaken(x)
      <4>1. late \in from..(t - 1) /\ car.gear = "park" /\ car.charge = "charging"
        BY <1>2, <3>3 DEF Knows
      <4>2. g.gear = "same" /\ g.charge = "same"
        BY <2>1, <2>2, <2>5, <2>6, <3>2, <4>1 DEF Follows
      <4> QED
        BY <1>1, <2>5, <2>6, <3>2, <4>1, <4>2
    <3>4. CASE g.charge = "charging" /\ x.gear = "moving"
      <4>1. car.gear = "park" /\ g.gear = "same"
        <5>1. g.gear = "same"
          BY <2>1, <3>4, ReportIs
        <5> QED
          BY <2>1, <3>4, <5>1 DEF Follows
      <4>2. late \in from..(t - 1)
        BY <1>2, <3>4, <4>1 DEF Knows
      <4> QED
        BY <1>1, <2>5, <2>6, <3>2, <3>4, <4>1, <4>2
    <3> QED
      BY <2>4, <3>1, <3>3, <3>4
  <2> QED
    BY <2>4, <2>7, <2>8, <2>9 DEF Reads, Knows, next, f
<1> QED
  BY <1>8, <1>9, <1>10

LEMMA ReadsAll ==
    ASSUME log \in Logs, Told, late \in Nat,
           NEW from \in Nat \ {0}, NEW to \in 1..MaxTime, from - 1 <= to
    PROVE  Reads(from, to)
<1> DEFINE Good == {n \in Nat : Reads(from, from - 1 + n)}
<1>1. 0 \in Good
  <2> DEFINE x == Fed(Rows, from, from - 1)
  <2>1. x = NewBuilder
    BY FedFirst
  <2> HIDE DEF x
  <2>2. /\ x \in Builders /\ x.current = NoSession /\ x.link = "unknown" /\ x.gear = "unknown"
        /\ x.pending = Never /\ Over(x) = {}
    BY <2>1 DEF NewBuilder, Builders, Never, Over
  <2>3. Base(x, from - 1)
    BY <2>2 DEF Base, Listed, InTime, Once, Begun, Linked, Marked, Driving, NoSession
  <2>4. Settled(x) /\ Knows(Fed(log, 1, from - 1), x, from, from - 1)
    BY <2>2 DEF Settled, Overtaken, Knows, NoSession
  <2> QED
    BY <2>3, <2>4 DEF Reads, x
<1>2. ASSUME NEW n \in Nat, n < to - (from - 1), n \in Good
      PROVE  n + 1 \in Good
  <2> DEFINE t == from + n
  <2>1. t \in 1..MaxTime /\ from <= t /\ t - 1 = from - 1 + n
    BY <1>2, RebuildAssumption
  <2>2. Reads(from, t - 1)
    BY <1>2, <2>1
  <2> HIDE DEF t
  <2>3. Reads(from, t)
    BY <2>1, <2>2, ReadsOn
  <2> QED
    BY <2>3 DEF t
<1>3. to - (from - 1) \in Nat
  BY RebuildAssumption
<1> HIDE DEF Good
<1>4. to - (from - 1) \in Good
  BY <1>1, <1>2, <1>3, Reaches
<1> QED
  BY <1>4 DEF Good

\* What the constraints of the table ask of its rows.
Row(s) == s.kind \in Kinds /\ s.start \in -1..now /\ (s.end = Running \/ s.end \in s.start..now)

\* Nothing happens where there are no rows.
LEMMA Quiet ==
    ASSUME NEW rows \in Logs, NEW from \in Nat \ {0}, NEW to \in 1..MaxTime, NEW last \in from..to,
           \A t \in (last + 1)..to : rows[t] = Nothing
    PROVE  Fed(rows, from, last) = Fed(rows, from, to)
<1> DEFINE Good == {n \in Nat : n <= to - last => Fed(rows, from, last + n) = Fed(rows, from, last)}
<1>1. 0 \in Good
  OBVIOUS
<1>2. ASSUME NEW n \in Nat, n \in Good
      PROVE  n + 1 \in Good
  <2> DEFINE t == last + (n + 1)
  <2>1. SUFFICES ASSUME n + 1 <= to - last PROVE Fed(rows, from, t) = Fed(rows, from, last)
    OBVIOUS
  <2>2. t \in Nat /\ from <= t /\ t \in (last + 1)..to /\ t - 1 = last + n
    BY <2>1, RebuildAssumption
  <2>3. Fed(rows, from, t - 1) = Fed(rows, from, last)
    BY <1>2, <2>1, <2>2, RebuildAssumption
  <2> HIDE DEF t
  <2>4. Fed(rows, from, t) = FedOne(rows, Fed(rows, from, t - 1), t)
    BY <2>2, FedNext
  <2> QED
    BY <2>2, <2>3, <2>4 DEF FedOne
<1>3. to - last \in Nat
  BY RebuildAssumption
<1> HIDE DEF Good
<1>4. to - last \in Good
  BY <1>1, <1>2, <1>3, Reaches
<1> QED
  BY <1>4 DEF Good

\* The builder of a rebuild makes rows that fit the table.
LEMMA FinalizedFits ==
    ASSUME log \in Logs, Told, late \in Nat, now \in 1..MaxTime,
           NEW from \in Nat \ {0}, With(Rows, from, now) # {}
    PROVE  /\ \A s \in Finalized(Rows, from, now) : Row(s)
           /\ \A s, r \in Finalized(Rows, from, now) : s.kind = r.kind /\ s.start = r.start => s = r
<1> DEFINE with == With(Rows, from, now)
           last == Max(with)
           g == Rows[last]
           x == Fed(Rows, from, now)
           y == Evaluate(x, now, g)
           open == [kind |-> y.current.kind, start |-> y.current.start, end |-> Running]
<1>1. now \in Nat /\ now \in Int /\ from <= now /\ Running \in Int /\ Running > now
  BY RebuildAssumption DEF With, Running
<1>2. Rows \in Logs
  BY DEF Rows, Logs
<1>3. last \in from..now /\ g # Nothing /\ \A t \in (last + 1)..now : Rows[t] = Nothing
  <2>1. with # {} /\ with \subseteq Int /\ \A t \in with : t <= now
    BY <1>1 DEF With
  <2> HIDE DEF with
  <2>2. last \in with /\ \A t \in with : t <= last
    BY <1>1, <2>1, MaxIs
  <2> HIDE DEF last
  <2>3. last \in from..now /\ Rows[last] # Nothing
    BY <2>2 DEF with, With
  <2>4. \A t \in (last + 1)..now : t \in from..now /\ ~(t <= last)
    BY <1>1, <2>3
  <2>5. \A t \in (last + 1)..now : t \notin with
    BY <2>2, <2>4
  <2> QED
    BY <2>3, <2>4, <2>5 DEF with, With
<1>4. last \in 1..MaxTime /\ last \in Nat /\ from - 1 <= last /\ from - 1 <= now /\ last # late
      /\ last - 1 \in Nat /\ 1 <= last
  <2> HIDE DEF last
  <2>1. last \in 1..MaxTime
    BY <1>1, <1>3, RebuildAssumption
  <2>2. last # late
    BY <1>3, <2>1 DEF Rows
  <2> QED
    BY <1>1, <1>3, <2>1, <2>2, RebuildAssumption
<1> HIDE DEF last
<1>5. g = log[last] /\ g \in Reports /\ Follows(Fed(log, 1, last - 1), g)
  BY <1>3, <1>4 DEF Rows, Logs, Told
<1>6. x = Fed(Rows, from, last)
  BY <1>2, <1>3, Quiet
<1>7. Reads(from, now) /\ Reads(from, last)
  BY <1>1, <1>4, ReadsAll
<1>8. Base(x, now) /\ Settled(x)
  BY <1>7 DEF Reads
<1>9. g.moved => ~Overtaken(x)
  <2> DEFINE car == Fed(log, 1, last - 1)
             next == Fed(log, 1, last)
  <2>1. next = Feed(car, last, g)
    <3>1. next = FedOne(log, car, last)
      BY <1>4, FedNext
    <3> HIDE DEF g
    <3> QED
      BY <1>3, <1>5, <3>1 DEF FedOne, g
  <2>2. car \in Builders
    <3>1. 1 \in Nat \ {0} /\ 1 - 1 <= last - 1 /\ last - 1 <= MaxTime
      BY <1>4, RebuildAssumption
    <3> QED
      BY <1>4, <3>1, FedType
  <2> HIDE DEF car, next, g
  <2>3. g.moved => g.links # {"disconnect"} /\ g.gear \in {"same", "moving"}
    BY <1>5, ReportIs
  <2>4. g.links # {"disconnect"} => next.gear = IF g.gear = "same" THEN car.gear ELSE g.gear
    <3>1. Took(Feed(car, last, g), car, g)
      BY <1>4, <1>5, <2>2, FeedIs
    <3> QED
      BY <2>1, <3>1 DEF Took
  <2>5. g.moved => g.gear = "moving" \/ car.gear = "moving"
    BY <1>5 DEF Follows, car
  <2>6. g.moved => next.gear = "moving"
    BY <2>3, <2>4, <2>5
  <2>7. Overtaken(x) => next.gear = "park"
    BY <1>6, <1>7 DEF Reads, Knows, next
  <2> QED
    BY <2>6, <2>7
<1>10. ~g.reset
  BY <1>5, ReportIs
<1> HIDE DEF x, g
<1>11. Base(y, now)
  <2>1. x.current.kind = "charge" => x.charge = "charging"
    BY <1>8 DEF Settled
  <2>2. Ready(x, now, g)
    BY <1>9, <2>1 DEF Ready
  <2> QED
    BY <1>1, <1>8, <1>10, <2>2, EvaluateKeeps
<1>12. Finalized(Rows, from, now) = Over(y) \cup (IF y.current = NoSession THEN {} ELSE {open})
  BY DEF Finalized, Over, x, g, last
<1> HIDE DEF y
<1>13. y \in Builders
  BY <1>11 DEF Base
<1>14. \A s \in Over(y) : Row(s)
  <2>1. \A s \in Over(y) : s.kind \in Kinds /\ s.start \in Nat /\ s.end \in Nat
    BY <1>13, OverType
  <2>2. \A s \in Over(y) : s.start <= s.end /\ s.end <= now
    BY <1>11 DEF Base, Listed, InTime
  <2> QED
    BY <1>1, <2>1, <2>2 DEF Row
<1>15. y.current # NoSession => Row(open)
  <2>1. y.current # NoSession =>
            y.current.kind \in Kinds /\ y.current.start \in Nat /\ y.current.start <= now
    BY <1>11, <1>13, OverType DEF Base, Listed
  <2> QED
    BY <1>1, <2>1 DEF Row
<1>16. \A s, r \in Over(y) : s.kind = r.kind /\ s.start = r.start => s = r
  BY <1>11 DEF Base, Listed, Once
<1>17. y.current # NoSession => \A s \in Over(y) : ~(s.kind = open.kind /\ s.start = open.start)
  <2>1. \A s \in Over(y) : s.start \in Nat
    BY <1>13, OverType
  <2> QED
    BY <1>11, <2>1 DEF Base, Listed, Earlier
<1> HIDE DEF open
<1> QED
  BY <1>12, <1>14, <1>15, <1>16, <1>17

-----------------------------------------------------------------------------
(* The table.                                                              *)

\* What the anchor needs: every row of the table has times.
Inv ==
    /\ now \in 1..MaxTime /\ late \in Nat
    /\ log \in Logs
    /\ sessions \subseteq Timed

\* The anchor is a time that no session which is over for a window ends after.
LEMMA AnchorIs ==
    ASSUME Inv
    PROVE  Anchor \in Int /\ \A s \in Finished : s.end <= Anchor
<1>1. now \in Int /\ Window \in Int
  BY RebuildAssumption DEF Inv
<1>2. CASE Finished = {}
  BY <1>1, <1>2 DEF Anchor
<1>3. CASE Finished # {}
  <2> DEFINE S == {s.end : s \in Finished}
  <2>1. \A s \in Finished : s.end \in Int /\ s.end <= now - Window
    BY DEF Inv, Finished, Closed, Timed
  <2>2. S # {} /\ S \subseteq Int /\ \A x \in S : x <= now - Window
    BY <1>3, <2>1
  <2>3. now - Window \in Int
    BY <1>1
  <2>4. Anchor = Max(S)
    BY <1>3 DEF Anchor
  <2>5. \A s \in Finished : s.end \in S
    OBVIOUS
  <2> HIDE DEF S
  <2>6. Max(S) \in S /\ \A y \in S : y <= Max(S)
    BY <2>2, <2>3, MaxIs
  <2> QED
    BY <2>2, <2>4, <2>5, <2>6
<1> QED
  BY <1>2, <1>3

\* The first timestamp that is read is one.
LEMMA FromIs ==
    ASSUME Inv
    PROVE  From \in Nat \ {0}
<1> DEFINE S == {Anchor - Warmup, 1}
           bound == IF Anchor - Warmup > 1 THEN Anchor - Warmup ELSE 1
<1>1. Anchor - Warmup \in Int
  BY AnchorIs, RebuildAssumption
<1>2. S # {} /\ S \subseteq Int /\ bound \in Int /\ \A x \in S : x <= bound
  BY <1>1
<1>3. From = Max(S) /\ 1 \in S
  BY DEF From
<1> HIDE DEF S, bound
<1>4. Max(S) \in S /\ \A y \in S : y <= Max(S)
  BY <1>2, MaxIs
<1>5. Max(S) \in Int /\ 1 <= Max(S)
  BY <1>2, <1>3, <1>4
<1> QED
  BY <1>3, <1>5

LEMMA InitInv == Init => Inv
<1> SUFFICES ASSUME Init PROVE Inv
  OBVIOUS
<1>1. now \in 1..MaxTime /\ late \in Nat
  BY RebuildAssumption DEF Init
<1>2. log \in Logs
  BY DEF Init, Logs
<1>3. sessions \subseteq Timed
  <2>1. Imported \subseteq Timed
    BY DEF Imported, Timed, Kinds
  <2> QED
    BY <2>1 DEF Init
<1> QED
  BY <1>1, <1>2, <1>3 DEF Inv

\* A rebuild keeps what starts before the anchor, and adds sessions with times.
LEMMA RebuildKeeps ==
    ASSUME Inv, Rebuild
    PROVE  /\ sessions' \subseteq Timed
           /\ {s \in sessions : s.start < Anchor} \subseteq sessions'
<1>1. CASE With(Rows, From, now) = {}
  BY <1>1 DEF Rebuild, Inv
<1>2. CASE With(Rows, From, now) # {}
  <2>1. Rows \in Logs
    BY DEF Inv, Rows, Logs
  <2>2. now \in 1..MaxTime
    BY DEF Inv
  <2>3. Finalized(Rows, From, now) \subseteq Timed
    BY <1>2, <2>1, <2>2, FromIs, FinalizedType
  <2>4. sessions' = {s \in sessions : s.start < Anchor} \cup
                    {s \in Finalized(Rows, From, now) : s.start >= Anchor}
    BY <1>2 DEF Rebuild
  <2> QED
    BY <2>3, <2>4 DEF Inv
<1> QED
  BY <1>1, <1>2

LEMMA NextInv == Inv /\ [Next]_vars => Inv'
<1> SUFFICES ASSUME Inv, [Next]_vars PROVE Inv'
  OBVIOUS
<1>1. ASSUME NEW g \in Reports, Report(g) PROVE Inv'
  BY <1>1 DEF Report, Inv, Logs
<1>2. CASE Arrive
  BY <1>2 DEF Arrive, Inv
<1>3. CASE Tick
  BY <1>3, RebuildAssumption DEF Tick, Inv
<1>4. CASE Rebuild
  BY <1>4, RebuildKeeps DEF Rebuild, Inv
<1>5. CASE UNCHANGED vars
  BY <1>5 DEF vars, Inv
<1> QED
  BY <1>1, <1>2, <1>3, <1>4, <1>5 DEF Next, Possible

\* Whatever is late, the live job stores rows that fit the constraints of the table.
Fits ==
    /\ Told
    /\ \A s \in sessions : Row(s)
    /\ \A s, r \in sessions : s.kind = r.kind /\ s.start = r.start => s = r

LEMMA InitFits == Init => Fits
<1> SUFFICES ASSUME Init PROVE Fits
  OBVIOUS
<1>1. \A s \in sessions : s = [kind |-> "drive", start |-> -1, end |-> 0]
  BY DEF Init, Imported
<1>2. \A s \in sessions : Row(s)
  BY <1>1 DEF Init, Row, Kinds
<1>3. Told
  BY DEF Init, Told
<1> QED
  BY <1>1, <1>2, <1>3 DEF Fits

\* What the car reports follows what it has reported.
LEMMA ReportTold ==
    ASSUME Inv, Inv', Told, NEW g \in Possible, Report(g)
    PROVE  Told'
<1>1. now \in 1..MaxTime /\ now \in Nat /\ now' = now /\ log[now] = Nothing
      /\ log \in Logs /\ log' = [log EXCEPT ![now] = g] /\ late \in Nat
  BY DEF Inv, Report
<1>2. /\ g \in Reports /\ g # Nothing
      /\ Follows(Fed(log, 1, now), g)
  <2>1. g \in Reports /\ Follows(Fed(log, 1, now), g)
    BY DEF Possible, Follows
  <2>2. g.links \in {{}, {"connect"}, {"disconnect"}}
    BY <2>1, ReportIs
  <2> QED
    BY <2>1, <2>2 DEF Nothing, Silent
<1>3. log'[now] = g /\ \A t \in 1..MaxTime : t # now => log'[t] = log[t]
  BY <1>1 DEF Logs
<1>4. ASSUME NEW t \in 1..MaxTime, t <= now
      PROVE  Fed(log', 1, t - 1) = Fed(log, 1, t - 1)
  <2>1. t - 1 \in Nat /\ 1 \in Nat \ {0} /\ 1 - 1 <= t - 1
    BY RebuildAssumption
  <2>2. SameRows(log', log, 1, t - 1)
    BY <1>1, <1>3, <1>4, RebuildAssumption DEF SameRows
  <2> QED
    BY <2>1, <2>2, FedAgrees
<1>5. Fed(log, 1, now) = Fed(log, 1, now - 1)
  <2>1. 1 \in Nat \ {0} /\ 1 <= now
    BY <1>1
  <2>2. Fed(log, 1, now) = FedOne(log, Fed(log, 1, now - 1), now)
    BY <1>1, <2>1, FedNext
  <2> QED
    BY <1>1, <2>2 DEF FedOne
<1>6. ASSUME NEW t \in 1..MaxTime, log'[t] # Nothing
      PROVE  t <= now' /\ Follows(Fed(log', 1, t - 1), log'[t])
  <2>1. CASE t = now
    <3>1. Fed(log', 1, now - 1) = Fed(log, 1, now)
      <4>1. now \in 1..MaxTime /\ now <= now
        BY <1>1
      <4> QED
        BY <1>4, <1>5, <4>1
    <3> QED
      BY <1>1, <1>2, <1>3, <2>1, <3>1
  <2>2. CASE t # now
    BY <1>1, <1>3, <1>4, <1>6, <2>2 DEF Told
  <2> QED
    BY <2>1, <2>2
<1>7. late' # 0 => late' \in 1..now' /\ log'[late'].links = {}
  <2>1. CASE late' = late
    <3>1. late # 0 => late \in 1..now /\ late # now
      BY <1>1 DEF Told, Nothing, Silent
    <3> QED
      BY <1>1, <1>3, <2>1, <3>1, RebuildAssumption DEF Told
  <2>2. CASE late' = now /\ g.links = {}
    BY <1>1, <1>3, <2>2
  <2> QED
    BY <2>1, <2>2 DEF Report
<1> QED
  BY <1>6, <1>7 DEF Told

LEMMA RebuildFits ==
    ASSUME Inv, Fits, Rebuild
    PROVE  /\ \A s \in sessions' : Row(s)
           /\ \A s, r \in sessions' : s.kind = r.kind /\ s.start = r.start => s = r
<1> DEFINE built == Finalized(Rows, From, now)
<1>1. CASE With(Rows, From, now) = {}
  BY <1>1 DEF Rebuild, Fits
<1>2. CASE With(Rows, From, now) # {}
  <2>1. sessions' = {s \in sessions : s.start < Anchor} \cup {s \in built : s.start >= Anchor}
    BY <1>2 DEF Rebuild
  <2>2. /\ \A s \in built : Row(s)
        /\ \A s, r \in built : s.kind = r.kind /\ s.start = r.start => s = r
    BY <1>2, FromIs, FinalizedFits DEF Inv, Fits
  <2>3. Anchor \in Int
    BY AnchorIs
  <2>4. \A s \in sessions : s.start \in Int
    BY DEF Inv, Timed
  <2>5. \A s \in built : s.start \in Int
    BY <2>2 DEF Row, Inv
  <2> HIDE DEF built
  <2>6. \A s, r \in sessions' : s.start = r.start =>
            (s \in sessions /\ r \in sessions) \/ (s \in built /\ r \in built)
    BY <2>1, <2>3, <2>4, <2>5
  <2>7. \A s \in sessions' : s \in sessions \/ s \in built
    BY <2>1
  <2> QED
    BY <2>2, <2>6, <2>7 DEF Fits
<1> QED
  BY <1>1, <1>2

LEMMA NextFits == Inv /\ Inv' /\ Fits /\ [Next]_vars => Fits'
<1> SUFFICES ASSUME Inv, Inv', Fits, [Next]_vars PROVE Fits'
  OBVIOUS
<1>1. ASSUME NEW g \in Possible, Report(g) PROVE Fits'
  <2>1. Told'
    BY <1>1, ReportTold DEF Fits
  <2>2. sessions' = sessions /\ now' = now
    BY <1>1 DEF Report
  <2> QED
    BY <2>1, <2>2 DEF Fits, Row
<1>2. CASE Arrive
  BY <1>2 DEF Arrive, Fits, Told, Row
<1>3. CASE Tick
  <2>1. now \in Nat /\ now' = now + 1 /\ log' = log /\ late' = late /\ sessions' = sessions
    BY <1>3, RebuildAssumption DEF Tick, Inv
  <2>2. Told'
    <3>1. \A t \in 1..MaxTime : t <= now => t <= now + 1
      BY <2>1, RebuildAssumption
    <3>2. late # 0 => late \in 1..now + 1
      BY <2>1 DEF Fits, Told
    <3> QED
      BY <2>1, <3>1, <3>2 DEF Fits, Told
  <2>3. \A s \in sessions : Row(s)'
    <3> SUFFICES ASSUME NEW s \in sessions PROVE Row(s)'
      OBVIOUS
    <3>1. Row(s) /\ s.start \in Int
      BY DEF Fits, Inv, Timed
    <3> QED
      BY <2>1, <3>1 DEF Row
  <2> QED
    BY <2>1, <2>2, <2>3 DEF Fits
<1>4. CASE Rebuild
  <2>1. now' = now /\ log' = log /\ late' = late
    BY <1>4 DEF Rebuild
  <2>2. Told'
    BY <2>1 DEF Fits, Told
  <2> QED
    BY <1>4, <2>1, <2>2, RebuildFits DEF Fits, Row
<1>5. CASE UNCHANGED vars
  BY <1>5 DEF vars, Fits, Told, Row
<1> QED
  BY <1>1, <1>2, <1>3, <1>4, <1>5 DEF Next

\* Every session of the table has times, and the clock is one.
THEOREM Invariance == Spec => []Inv
BY InitInv, NextInv, PTL DEF Spec

\* Whatever the builder makes of the rows, and whenever they arrive: a session that
\* ended a window ago or earlier and that is not empty stays as it is, because it ends,
\* and so starts, before the anchor (live.py:13).
THEOREM OldSessionsStay == Spec => HistoryStays
<1>1. ASSUME Inv, [Next]_vars
      PROVE  [{s \in Finished : s.start < s.end} \subseteq sessions']_vars
  <2>1. CASE Rebuild
    <3>1. \A s \in Finished : s \in sessions /\ s.start \in Int /\ s.end \in Int
      BY <1>1 DEF Finished, Closed, Inv, Timed
    <3>2. Anchor \in Int /\ \A s \in Finished : s.end <= Anchor
      BY <1>1, AnchorIs
    <3>3. \A s \in Finished : s.start < s.end => s.start < Anchor
      BY <3>1, <3>2
    <3>4. {s \in sessions : s.start < Anchor} \subseteq sessions'
      BY <1>1, <2>1, RebuildKeeps
    <3> QED
      BY <3>1, <3>3, <3>4
  <2>2. CASE sessions' = sessions
    BY <2>2 DEF Finished, Closed
  <2>3. Rebuild \/ sessions' = sessions
    BY <1>1 DEF Next, Report, Arrive, Tick, vars
  <2> QED
    BY <2>1, <2>2, <2>3
<1> QED
  BY <1>1, Invariance, PTL DEF Spec, HistoryStays

\* The types, and the constraints of the table (migrations/versions/0002_sessions.py:40,43):
\* the transaction of a rebuild never fails for a session that ends before it starts, nor
\* for two of a kind that start together, although one row may be missing.  A builder that
\* has missed a park and then sees a charge has an old pending drive; but the car must
\* have ended the charge before it moves, and the builder sees that it has.
THEOREM TableFits == Spec => []TypeOK
<1>1. Inv /\ Fits => TypeOK
  <2> SUFFICES ASSUME Inv, Fits PROVE TypeOK
    OBVIOUS
  <2>1. late \in 0..now
    BY DEF Inv, Fits, Told
  <2> QED
    BY <2>1 DEF Inv, Fits, Row, Logs, TypeOK
<1> QED
  BY <1>1, InitFits, NextFits, Invariance, PTL DEF Spec

-----------------------------------------------------------------------------
(* What each step makes of a builder, field by field.                      *)

\* Since when: a mark, or now.
Since(mark, at) == IF mark = Never THEN at ELSE mark

Long(x, at) == Driving(x) /\ x.off # Never /\ at - x.off >= OfflineEnd

Parked(x, at) == x.gear = "park" /\ x.park # Never /\ at - x.park >= ParkDwell

Moves(x, at, g) == x.gear = "moving" /\ g.moved /\ at - Since(x.pending, at) >= Debounce

ParkMark(x, at) == IF x.gear = "park" THEN Since(x.park, at)
                   ELSE IF x.gear = "moving" THEN Never ELSE x.park

DriveMark(x, at) == IF x.gear = "moving" THEN Since(x.pending, at) ELSE Never

LEMMA MarksType ==
    ASSUME NEW x \in Builders, NEW at \in Nat
    PROVE  /\ x.pending \in Nat /\ x.park \in Nat /\ x.off \in Nat /\ x.current.start \in Nat
           /\ Since(x.pending, at) \in Nat /\ Since(x.park, at) \in Nat
           /\ ParkMark(x, at) \in Nat /\ DriveMark(x, at) \in Nat
<1>1. /\ x.pending \in Nat /\ x.park \in Nat /\ x.off \in Nat /\ x.current.start \in Nat
  BY OverType DEF Builders
<1>2. Since(x.pending, at) \in Nat /\ Since(x.park, at) \in Nat
  BY <1>1 DEF Since
<1> QED
  BY <1>1, <1>2 DEF ParkMark, DriveMark, Never

LEMMA OfflineIs ==
    ASSUME NEW x \in Builders, NEW at \in Nat
    PROVE  LET y == StepOffline(x, at)
           IN  /\ y \in Builders /\ Alike(y, x) /\ y.pending = x.pending /\ y.park = x.park
               /\ Long(x, at) => /\ y.current = [kind |-> "offline", start |-> x.off]
                                 /\ Over(y) = Over(x) \cup Added(x, x.off)
                                 /\ y.off = Never
               /\ ~Long(x, at) => y = x
<1> DEFINE c == Turn(x, "offline", x.off)
           z == [c EXCEPT !.off = Never]
           y == StepOffline(x, at)
<1>1. CASE Long(x, at)
  <2>1. y = z
    BY <1>1 DEF StepOffline, Long
  <2>2. "offline" \in Kinds /\ Never \in Nat /\ x.off \in Nat
    BY DEF Kinds, Never, Builders
  <2>3. /\ c \in Builders /\ c.current = [kind |-> "offline", start |-> x.off]
        /\ c.link = x.link /\ c.gear = x.gear /\ c.charge = x.charge /\ c.pending = x.pending
        /\ c.park = x.park /\ Over(c) = Over(x) \cup Added(x, x.off)
    BY <2>2, TurnIs
  <2> HIDE DEF c
  <2>4. /\ z \in Builders /\ z.current = c.current /\ z.done = c.done /\ z.off = Never
        /\ z.link = c.link /\ z.gear = c.gear /\ z.charge = c.charge /\ z.pending = c.pending
        /\ z.park = c.park
    BY <2>2, <2>3 DEF Builders
  <2> HIDE DEF z
  <2>5. Over(z) = Over(c)
    BY <2>4 DEF Over
  <2> QED
    BY <1>1, <2>1, <2>3, <2>4, <2>5 DEF Alike
<1>2. CASE ~Long(x, at)
  <2>1. y = x
    BY <1>2 DEF StepOffline, Long
  <2> QED
    BY <1>2, <2>1 DEF Alike
<1> QED
  BY <1>1, <1>2

LEMMA DrivingIs ==
    ASSUME NEW x \in Builders, NEW at \in Nat
    PROVE  LET y == StepDriving(x, at)
           IN  /\ y \in Builders /\ Alike(y, x) /\ y.pending = x.pending /\ y.off = x.off
               /\ Parked(x, at) => /\ y.current = [kind |-> "idle", start |-> x.park]
                                   /\ Over(y) = Over(x) \cup Added(x, x.park)
                                   /\ y.park = Never
               /\ ~Parked(x, at) => /\ y.current = x.current /\ Over(y) = Over(x)
                                    /\ y.park = ParkMark(x, at)
<1> DEFINE y == StepDriving(x, at)
           since == Since(x.park, at)
<1>1. x.park \in Nat /\ since \in Nat /\ Never \in Nat /\ "idle" \in Kinds
  BY MarksType DEF Never, Kinds
<1>2. (x.gear = "park" /\ at - since >= ParkDwell <=> Parked(x, at))
      /\ (Parked(x, at) => since = x.park)
      /\ (at - since < ParkDwell <=> ~(at - since >= ParkDwell))
  BY <1>1, BuilderAssumption DEF Since, Parked
<1>3. y = CASE x.gear = "park" /\ at - since >= ParkDwell ->
                   [Turn(x, "idle", since) EXCEPT !.park = Never]
            [] x.gear = "park" /\ at - since < ParkDwell -> [x EXCEPT !.park = since]
            [] x.gear = "moving" -> [x EXCEPT !.park = Never]
            [] OTHER -> x
  BY DEF StepDriving, Since
<1> HIDE DEF y, since
<1>4. CASE Parked(x, at)
  <2> DEFINE c == Turn(x, "idle", x.park)
             z == [c EXCEPT !.park = Never]
  <2>1. y = z
    BY <1>2, <1>3, <1>4
  <2>2. /\ c \in Builders /\ c.current = [kind |-> "idle", start |-> x.park]
        /\ c.link = x.link /\ c.gear = x.gear /\ c.charge = x.charge /\ c.pending = x.pending
        /\ c.off = x.off /\ Over(c) = Over(x) \cup Added(x, x.park)
    BY <1>1, TurnIs
  <2> HIDE DEF c
  <2>3. /\ z \in Builders /\ z.current = c.current /\ z.done = c.done /\ z.park = Never
        /\ z.link = c.link /\ z.gear = c.gear /\ z.charge = c.charge /\ z.pending = c.pending
        /\ z.off = c.off
    BY <1>1, <2>2 DEF Builders
  <2> HIDE DEF z
  <2>4. Over(z) = Over(c)
    BY <2>3 DEF Over
  <2> QED
    BY <1>4, <2>1, <2>2, <2>3, <2>4 DEF Alike, y
<1>5. CASE ~Parked(x, at)
  <2>1. y = [x EXCEPT !.park = ParkMark(x, at)]
    <3>1. x = [x EXCEPT !.park = x.park]
      BY DEF Builders
    <3> QED
      BY <1>2, <1>3, <1>5, <3>1 DEF ParkMark, since
  <2>2. ParkMark(x, at) \in Nat
    BY MarksType
  <2>3. /\ y \in Builders /\ y.current = x.current /\ y.done = x.done /\ y.park = ParkMark(x, at)
        /\ y.link = x.link /\ y.gear = x.gear /\ y.charge = x.charge /\ y.pending = x.pending
        /\ y.off = x.off
    BY <2>1, <2>2 DEF Builders
  <2>4. Over(y) = Over(x)
    BY <2>3 DEF Over
  <2> QED
    BY <1>5, <2>3, <2>4 DEF Alike, y
<1> QED
  BY <1>4, <1>5

\* Out of a drive: the drive that has begun, or the charge, or what was.
Stood(x, y, at, g) ==
    /\ y \in Builders /\ Alike(y, x) /\ y.off = x.off
    /\ Moves(x, at, g) =>
           /\ y.current = [kind |-> "drive", start |-> Since(x.pending, at)]
           /\ Over(y) = Over(x) \cup Added(x, Since(x.pending, at))
           /\ y.pending = Never /\ y.park = Never
    /\ ~Moves(x, at, g) => y.pending = DriveMark(x, at)
    /\ ~Moves(x, at, g) /\ x.current.kind = "idle" /\ x.charge = "charging" =>
           /\ y.current = [kind |-> "charge", start |-> at]
           /\ Over(y) = Over(x) \cup Added(x, at)
    /\ ~Moves(x, at, g) /\ x.current.kind = "charge" /\ x.charge = "ended" =>
           /\ y.current = [kind |-> "idle", start |-> at]
           /\ Over(y) = Over(x) \cup Added(x, at)
    /\ /\ ~Moves(x, at, g)
       /\ ~(x.current.kind = "idle" /\ x.charge = "charging")
       /\ ~(x.current.kind = "charge" /\ x.charge = "ended")
       => y.current = x.current /\ Over(y) = Over(x)

LEMMA StandingIs ==
    ASSUME NEW x \in Builders, NEW at \in Nat, NEW g, ~g.reset, x.current.kind \in {"idle", "charge"}
    PROVE  LET y == StepStanding(x, at, g)
           IN  Stood(x, y, at, g) /\ (~Moves(x, at, g) => y.park = x.park)
<1> DEFINE y == StepStanding(x, at, g)
           since == Since(x.pending, at)
           mark == DriveMark(x, at)
           p == [x EXCEPT !.pending = mark]
<1>1. since \in Nat /\ mark \in Nat /\ Never \in Nat /\ {"drive", "charge", "idle"} \subseteq Kinds
  BY MarksType DEF Never, Kinds
<1>2. y = CASE x.gear = "moving" /\ at - since >= Debounce /\ g.moved ->
                   [Turn(x, "drive", since) EXCEPT !.pending = Never, !.park = Never]
            [] OTHER ->
                 CASE x.current.kind \in {"idle", "none"} /\ x.charge = "charging" ->
                          Turn(p, "charge", at)
                   [] x.current.kind = "charge" /\ x.charge = "ended" -> Turn(p, "idle", at)
                   [] OTHER -> p
  BY DEF StepStanding, Since, DriveMark
<1> HIDE DEF y, since, mark
<1>3. CASE Moves(x, at, g)
  <2> DEFINE c == Turn(x, "drive", since)
             z == [c EXCEPT !.pending = Never, !.park = Never]
  <2>1. y = z
    BY <1>2, <1>3 DEF Moves, since
  <2>2. /\ c \in Builders /\ c.current = [kind |-> "drive", start |-> since]
        /\ c.link = x.link /\ c.gear = x.gear /\ c.charge = x.charge
        /\ c.off = x.off /\ Over(c) = Over(x) \cup Added(x, since)
    BY <1>1, TurnIs
  <2> HIDE DEF c
  <2>3. /\ z \in Builders /\ z.current = c.current /\ z.done = c.done /\ z.park = Never
        /\ z.link = c.link /\ z.gear = c.gear /\ z.charge = c.charge /\ z.pending = Never
        /\ z.off = c.off
    BY <1>1, <2>2 DEF Builders
  <2> HIDE DEF z
  <2>4. Over(z) = Over(c)
    BY <2>3 DEF Over
  <2> QED
    BY <1>3, <2>1, <2>2, <2>3, <2>4 DEF Alike, Stood, y, since
<1>4. CASE ~Moves(x, at, g)
  <2>1. /\ p \in Builders /\ p.pending = mark /\ p.current = x.current /\ p.done = x.done
        /\ p.link = x.link /\ p.gear = x.gear /\ p.charge = x.charge /\ p.off = x.off
        /\ p.park = x.park
    BY <1>1 DEF Builders
  <2>2. Over(p) = Over(x) /\ Added(p, at) = Added(x, at)
    BY <2>1 DEF Over, Added, Ending
  <2>3. ~(x.gear = "moving" /\ at - since >= Debounce /\ g.moved)
    BY <1>4 DEF Moves, since
  <2> HIDE DEF p
  <2>4. CASE x.current.kind = "idle" /\ x.charge = "charging"
    <3>1. y = Turn(p, "charge", at)
      BY <1>2, <2>3, <2>4
    <3>2. /\ y \in Builders /\ y.current = [kind |-> "charge", start |-> at]
          /\ y.link = p.link /\ y.gear = p.gear /\ y.charge = p.charge /\ y.pending = p.pending
          /\ y.off = p.off /\ y.park = p.park /\ Over(y) = Over(p) \cup Added(p, at)
      BY <1>1, <2>1, <3>1, TurnIs
    <3> QED
      BY <1>4, <2>1, <2>2, <2>4, <3>2 DEF Alike, Stood, y, mark
  <2>5. CASE x.current.kind = "charge" /\ x.charge = "ended"
    <3>1. y = Turn(p, "idle", at)
      BY <1>2, <2>3, <2>5
    <3>2. /\ y \in Builders /\ y.current = [kind |-> "idle", start |-> at]
          /\ y.link = p.link /\ y.gear = p.gear /\ y.charge = p.charge /\ y.pending = p.pending
          /\ y.off = p.off /\ y.park = p.park /\ Over(y) = Over(p) \cup Added(p, at)
      BY <1>1, <2>1, <3>1, TurnIs
    <3> QED
      BY <1>4, <2>1, <2>2, <2>5, <3>2 DEF Alike, Stood, y, mark
  <2>6. CASE /\ ~(x.current.kind = "idle" /\ x.charge = "charging")
             /\ ~(x.current.kind = "charge" /\ x.charge = "ended")
    <3>1. y = p
      BY <1>2, <2>3, <2>6
    <3> QED
      BY <1>4, <2>1, <2>2, <2>6, <3>1 DEF Alike, Stood, y, mark
  <2> QED
    BY <2>4, <2>5, <2>6
<1> QED
  BY <1>3, <1>4

-----------------------------------------------------------------------------
(* What _evaluate makes of a builder: it stops with the step that leaves   *)
(* the session in progress.                                                *)

LEMMA EvaluateStops ==
    ASSUME NEW x, NEW at, NEW g
    PROVE  LET a == Step(x, at, g)
               b == Step(a, at, g)
               c == Step(b, at, g)
           IN  /\ a.current = x.current => Evaluate(x, at, g) = a
               /\ a.current # x.current /\ b.current = a.current => Evaluate(x, at, g) = b
               /\ a.current # x.current /\ b.current # a.current /\ c.current = b.current =>
                      Evaluate(x, at, g) = c
<1> DEFINE a == Step(x, at, g)
           b == Step(a, at, g)
           c == Step(b, at, g)
           zero  == [b |-> x, settled |-> FALSE]
           one   == StepAgain(zero, at, g)
           two   == StepAgain(one, at, g)
           three == StepAgain(two, at, g)
           four  == StepAgain(three, at, g)
<1>1. Evaluate(x, at, g) = four.b
  BY EvaluateIs
<1>2. ASSUME NEW r
      PROVE  /\ r.settled => StepAgain(r, at, g) = r
             /\ ~r.settled => /\ StepAgain(r, at, g).b = Step(r.b, at, g)
                              /\ StepAgain(r, at, g).settled = (Step(r.b, at, g).current = r.b.current)
  BY DEF StepAgain
<1>3. zero.b = x /\ ~zero.settled
  OBVIOUS
<1> HIDE DEF zero
<1>5. one.b = a /\ one.settled = (a.current = x.current)
  BY <1>2, <1>3
<1> HIDE DEF one, a
<1>6. one.settled => two = one
  BY <1>2
<1>7. ~one.settled => two.b = b /\ two.settled = (b.current = a.current)
  BY <1>2, <1>5
<1> HIDE DEF two, b
<1>8. two.settled => three = two
  BY <1>2
<1>9. ~one.settled /\ ~two.settled => three.b = c /\ three.settled = (c.current = b.current)
  BY <1>2, <1>7
<1> HIDE DEF three, c
<1>10. three.settled => four = three
  BY <1>2
<1> HIDE DEF four
<1> QED
  BY <1>1, <1>5, <1>6, <1>7, <1>8, <1>9, <1>10 DEF a, b, c

\* While the car is offline.
LEMMA EvalOfflineIs ==
    ASSUME NEW x \in Builders, NEW at \in Nat, NEW g, x.link # "up"
    PROVE  LET y == Evaluate(x, at, g)
           IN  /\ y \in Builders /\ Alike(y, x) /\ y.pending = x.pending /\ y.park = x.park
               /\ Long(x, at) => /\ y.current = [kind |-> "offline", start |-> x.off]
                                 /\ Over(y) = Over(x) \cup Added(x, x.off)
               /\ ~Long(x, at) => y = x
<1> DEFINE a == Step(x, at, g)
           b == Step(a, at, g)
<1>1. a = StepOffline(x, at)
  BY DEF Step
<1>2. /\ a \in Builders /\ Alike(a, x) /\ a.pending = x.pending /\ a.park = x.park
      /\ Long(x, at) => /\ a.current = [kind |-> "offline", start |-> x.off]
                        /\ Over(a) = Over(x) \cup Added(x, x.off)
      /\ ~Long(x, at) => a = x
  BY <1>1, OfflineIs
<1> HIDE DEF a
<1>3. CASE ~Long(x, at)
  BY <1>2, <1>3, EvaluateStops DEF a
<1>4. CASE Long(x, at)
  <2>1. a.current # x.current /\ ~Long(a, at) /\ a.link # "up"
    BY <1>2, <1>4 DEF Long, Driving, Alike
  <2>2. b = a
    <3>1. b = StepOffline(a, at)
      BY <2>1 DEF Step
    <3> QED
      BY <1>2, <2>1, <3>1, OfflineIs
  <2>3. Evaluate(x, at, g) = b
    BY <2>1, <2>2, EvaluateStops DEF a
  <2> QED
    BY <1>2, <1>4, <2>2, <2>3
<1> QED
  BY <1>3, <1>4

\* Out of a drive: a step more, and nothing changes.
LEMMA EvalStandingIs ==
    ASSUME NEW x \in Builders, NEW at \in Nat, NEW g, ~g.reset,
           x.link = "up", x.current.kind \in {"idle", "charge"}
    PROVE  Stood(x, Evaluate(x, at, g), at, g)
<1> DEFINE a == Step(x, at, g)
           b == Step(a, at, g)
<1>1. a = StepStanding(x, at, g)
  BY DEF Step, Driving
<1>2. Stood(x, a, at, g)
  BY <1>1, StandingIs
<1> HIDE DEF a
<1>3. a.link = "up" /\ a.gear = x.gear /\ a.charge = x.charge
  BY <1>2 DEF Alike, Stood
<1>4. CASE Moves(x, at, g)
  <2>1. Driving(a) /\ a.current # x.current /\ ~Parked(a, at) /\ ParkMark(a, at) = Never
    BY <1>2, <1>3, <1>4 DEF Moves, Driving, Parked, ParkMark, Stood
  <2>2. b = StepDriving(a, at)
    BY <1>3, <2>1 DEF Step
  <2> HIDE DEF b
  <2>3. /\ b \in Builders /\ Alike(b, a) /\ b.pending = a.pending /\ b.off = a.off
        /\ b.current = a.current /\ Over(b) = Over(a) /\ b.park = Never
    <3>1. /\ b \in Builders /\ Alike(b, a) /\ b.pending = a.pending /\ b.off = a.off
          /\ ~Parked(a, at) => /\ b.current = a.current /\ Over(b) = Over(a)
                               /\ b.park = ParkMark(a, at)
      BY <1>2, <2>2, DrivingIs DEF Stood
    <3> QED
      BY <2>1, <3>1
  <2>4. Evaluate(x, at, g) = b
    BY <2>1, <2>3, EvaluateStops DEF a, b
  <2> QED
    BY <1>2, <1>4, <2>3, <2>4 DEF Alike, Stood
<1>5. CASE ~Moves(x, at, g)
  <2>1. ~(x.current.kind = "idle" /\ x.charge = "charging")
        /\ ~(x.current.kind = "charge" /\ x.charge = "ended")
        => Evaluate(x, at, g) = a
    BY <1>2, <1>5, EvaluateStops DEF a, Stood
  <2>2. CASE (x.current.kind = "idle" /\ x.charge = "charging")
             \/ (x.current.kind = "charge" /\ x.charge = "ended")
    <3>1. /\ a.current.kind \in {"idle", "charge"} /\ a.current # x.current
          /\ ~(a.current.kind = "idle" /\ a.charge = "charging")
          /\ ~(a.current.kind = "charge" /\ a.charge = "ended")
      BY <1>2, <1>3, <1>5, <2>2 DEF Stood
    <3>2. x.pending \in Nat /\ a.pending = DriveMark(x, at)
      BY <1>2, <1>5, MarksType DEF Stood
    <3>3. DriveMark(a, at) = a.pending
      BY <1>3, <3>2 DEF DriveMark, Since
    <3>4. ~Moves(a, at, g)
      <4>1. a.gear = "moving" => Since(a.pending, at) = Since(x.pending, at)
        BY <1>3, <3>2 DEF DriveMark, Since
      <4> QED
        BY <1>3, <1>5, <4>1 DEF Moves
    <3>5. b = StepStanding(a, at, g)
      BY <1>3, <3>1 DEF Step, Driving
    <3> HIDE DEF b
    <3>6. /\ b \in Builders /\ Alike(b, a) /\ b.off = a.off /\ b.pending = a.pending
          /\ b.current = a.current /\ Over(b) = Over(a)
      <4>1. a \in Builders /\ a.current.kind \in {"idle", "charge"}
        BY <1>2, <3>1 DEF Stood
      <4>2. Stood(a, b, at, g)
        BY <3>5, <4>1, StandingIs
      <4> QED
        BY <3>1, <3>3, <3>4, <4>2 DEF Stood
    <3>7. Evaluate(x, at, g) = b
      BY <3>1, <3>6, EvaluateStops DEF a, b
    <3> QED
      BY <1>2, <1>5, <2>2, <3>6, <3>7 DEF Alike, Stood
  <2> QED
    BY <1>2, <1>5, <2>1, <2>2 DEF Stood
<1> QED
  BY <1>4, <1>5

\* In a drive: it goes on, or the park that has lasted follows, and perhaps a charge.
Drove(x, y, at) ==
    /\ y \in Builders /\ Alike(y, x) /\ y.off = x.off
    /\ ~Parked(x, at) => /\ y.current = x.current /\ Over(y) = Over(x)
                         /\ y.park = ParkMark(x, at) /\ y.pending = x.pending
    /\ Parked(x, at) =>
           /\ x.park < at /\ y.pending = Never
           /\ x.charge # "charging" =>
                  /\ y.current = [kind |-> "idle", start |-> x.park]
                  /\ Over(y) = Over(x) \cup Added(x, x.park)
           /\ x.charge = "charging" =>
                  /\ y.current = [kind |-> "charge", start |-> at]
                  /\ Over(y) = Over(x) \cup Added(x, x.park)
                               \cup {[kind |-> "idle", start |-> x.park, end |-> at]}

LEMMA EvalDrivingIs ==
    ASSUME NEW x \in Builders, NEW at \in Nat, NEW g, ~g.reset, x.link = "up", Driving(x)
    PROVE  Drove(x, Evaluate(x, at, g), at)
<1> DEFINE a == Step(x, at, g)
           b == Step(a, at, g)
           c == Step(b, at, g)
<1>1. a = StepDriving(x, at)
  BY DEF Step
<1>2. /\ a \in Builders /\ Alike(a, x) /\ a.pending = x.pending /\ a.off = x.off
      /\ Parked(x, at) => /\ a.current = [kind |-> "idle", start |-> x.park]
                          /\ Over(a) = Over(x) \cup Added(x, x.park)
                          /\ a.park = Never
      /\ ~Parked(x, at) => /\ a.current = x.current /\ Over(a) = Over(x)
                           /\ a.park = ParkMark(x, at)
  BY <1>1, DrivingIs
<1> HIDE DEF a
<1>3. a.link = "up" /\ a.gear = x.gear /\ a.charge = x.charge
  BY <1>2 DEF Alike
<1>4. CASE ~Parked(x, at)
  <2>1. Evaluate(x, at, g) = a
    BY <1>2, <1>4, EvaluateStops DEF a
  <2> QED
    BY <1>2, <1>4, <2>1 DEF Drove
<1>5. CASE Parked(x, at)
  <2>1. /\ x.park \in Nat /\ x.park < at /\ x.gear = "park"
        /\ a.current = [kind |-> "idle", start |-> x.park] /\ a.current # x.current
    BY <1>2, <1>5, MarksType, BuilderAssumption DEF Parked, Driving
  <2>2. ~Moves(a, at, g) /\ DriveMark(a, at) = Never
    BY <1>3, <2>1 DEF Moves, DriveMark
  <2>3. b = StepStanding(a, at, g)
    BY <1>3, <2>1 DEF Step, Driving
  <2> HIDE DEF b
  <2>4. Stood(a, b, at, g)
    BY <1>2, <2>1, <2>3, StandingIs
  <2>5. b \in Builders /\ Alike(b, x) /\ b.off = x.off /\ b.pending = Never
    BY <1>2, <2>2, <2>4 DEF Stood, Alike
  <2>6. CASE x.charge # "charging"
    <3>1. b.current = a.current /\ Over(b) = Over(a)
      BY <1>3, <2>1, <2>2, <2>4, <2>6 DEF Stood
    <3>2. Evaluate(x, at, g) = b
      BY <2>1, <3>1, EvaluateStops DEF a, b
    <3> QED
      BY <1>2, <1>5, <2>1, <2>5, <2>6, <3>1, <3>2 DEF Drove
  <2>7. CASE x.charge = "charging"
    <3>1. b.current = [kind |-> "charge", start |-> at] /\ Over(b) = Over(a) \cup Added(a, at)
      BY <1>3, <2>1, <2>2, <2>4, <2>7 DEF Stood
    <3>2. Added(a, at) = {[kind |-> "idle", start |-> x.park, end |-> at]}
      <4>1. a.current # NoSession /\ Ending(a, at) = [kind |-> "idle", start |-> x.park, end |-> at]
        BY <2>1 DEF NoSession, Ending
      <4>2. Kept(Ending(a, at))
        BY <2>1, <4>1 DEF Kept
      <4> QED
        BY <4>1, <4>2 DEF Added
    <3>3. ~Moves(b, at, g) /\ b.link = "up" /\ b.charge = "charging" /\ DriveMark(b, at) = Never
      BY <1>3, <2>1, <2>5, <2>7 DEF Moves, Alike, DriveMark
    <3>4. c = StepStanding(b, at, g)
      BY <3>1, <3>3 DEF Step, Driving
    <3> HIDE DEF c
    <3>5. Stood(b, c, at, g)
      BY <2>5, <3>1, <3>4, StandingIs
    <3>6. /\ c.current = b.current /\ Over(c) = Over(b)
          /\ c \in Builders /\ Alike(c, x) /\ c.off = x.off /\ c.pending = Never
      BY <2>5, <3>1, <3>3, <3>5 DEF Stood, Alike
    <3>7. a.current # x.current /\ b.current # a.current
      BY <2>1, <3>1
    <3>8. Evaluate(x, at, g) = c
      BY <3>6, <3>7, EvaluateStops DEF a, b, c
    <3> QED
      BY <1>2, <1>5, <2>1, <2>7, <3>1, <3>2, <3>6, <3>8 DEF Drove
  <2> QED
    BY <2>6, <2>7
<1> QED
  BY <1>4, <1>5

\* A connect, of a builder that is not in a session of a car that is online.
Woke(x, y, ts) ==
    /\ y \in Builders /\ y.link = "up" /\ y.gear = x.gear /\ y.charge = x.charge
    /\ y.pending = x.pending
    /\ Long(x, ts) => /\ x.off < ts
                      /\ y.current = [kind |-> "idle", start |-> ts]
                      /\ Over(y) = Over(x) \cup Added(x, x.off)
                                   \cup {[kind |-> "offline", start |-> x.off, end |-> ts]}
    /\ Driving(x) /\ ~Long(x, ts) => /\ y.current = x.current /\ Over(y) = Over(x)
                                     /\ y.park = x.park
    /\ ~Driving(x) => /\ y.current = [kind |-> "idle", start |-> ts]
                      /\ Over(y) = Over(x) \cup Added(x, ts)

LEMMA ConnectIs ==
    ASSUME NEW x \in Builders, NEW ts \in Nat, x.link # "up",
           x.current.kind \in {"none", "drive", "offline"}
    PROVE  Woke(x, Connect(x, ts), ts)
<1> DEFINE y == Connect(x, ts)
           up == [x EXCEPT !.link = "up", !.off = Never]
           woken == IF up.current.kind = "offline" THEN Close(up, ts) ELSE up
<1>1. "idle" \in Kinds /\ "offline" \in Kinds /\ x.off \in Nat
  BY DEF Kinds, Builders
<1>2. /\ up \in Builders /\ up.link = "up" /\ up.gear = x.gear /\ up.charge = x.charge
      /\ up.pending = x.pending /\ up.park = x.park /\ up.current = x.current /\ up.done = x.done
  BY DEF Builders, Never
<1>3. Over(up) = Over(x) /\ \A at : Added(up, at) = Added(x, at)
  BY <1>2 DEF Over, Added, Ending
<1>4. y = CASE Long(x, ts) -> Turn(Turn(up, "offline", x.off), "idle", ts)
            [] Driving(x) /\ x.off # Never /\ ts - x.off < OfflineEnd -> up
            [] OTHER -> IF woken.current = NoSession THEN Open(woken, "idle", ts) ELSE woken
  BY DEF Connect, Long
<1>5. ts - x.off < OfflineEnd <=> ~(ts - x.off >= OfflineEnd)
  BY <1>1, BuilderAssumption
<1> HIDE DEF up, y
<1>6. CASE Long(x, ts)
  <2> DEFINE c == Turn(up, "offline", x.off)
             d == Turn(c, "idle", ts)
  <2>1. y = d
    <3>1. ~(ts - x.off < OfflineEnd)
      BY <1>5, <1>6 DEF Long
    <3> QED
      BY <1>4, <1>6, <3>1
  <2>2. /\ c \in Builders /\ c.current = [kind |-> "offline", start |-> x.off]
        /\ c.link = up.link /\ c.gear = up.gear /\ c.charge = up.charge
        /\ c.pending = up.pending /\ c.park = up.park
        /\ Over(c) = Over(up) \cup Added(up, x.off)
    BY <1>1, <1>2, TurnIs
  <2> HIDE DEF c
  <2>3. /\ d \in Builders /\ d.current = [kind |-> "idle", start |-> ts]
        /\ d.link = c.link /\ d.gear = c.gear /\ d.charge = c.charge
        /\ d.pending = c.pending /\ d.park = c.park
        /\ Over(d) = Over(c) \cup Added(c, ts)
    BY <1>1, <2>2, TurnIs
  <2> HIDE DEF d
  <2>4. x.off < ts
    BY <1>1, <1>6, BuilderAssumption DEF Long
  <2>5. Added(c, ts) = {[kind |-> "offline", start |-> x.off, end |-> ts]}
    <3>1. c.current # NoSession /\ Ending(c, ts) = [kind |-> "offline", start |-> x.off, end |-> ts]
      BY <2>2 DEF NoSession, Ending
    <3>2. Kept(Ending(c, ts))
      BY <2>4, <3>1 DEF Kept
    <3> QED
      BY <3>1, <3>2 DEF Added
  <2>6. Driving(x)
    BY <1>6 DEF Long
  <2> QED
    BY <1>2, <1>3, <1>6, <2>1, <2>2, <2>3, <2>4, <2>5, <2>6 DEF Woke, y
<1>7. CASE Driving(x) /\ ~Long(x, ts)
  <2>1. y = up
    <3>1. woken = up /\ up.current # NoSession
      BY <1>2, <1>7 DEF Driving, NoSession
    <3> QED
      BY <1>4, <1>7, <3>1
  <2> QED
    BY <1>2, <1>3, <1>7, <2>1 DEF Woke, y
<1>8. CASE ~Driving(x)
  <2>1. ~Long(x, ts) /\ x.current.kind \in {"none", "offline"}
    BY <1>8 DEF Long, Driving
  <2>2. /\ woken \in Builders /\ woken.current = NoSession
        /\ woken.link = "up" /\ woken.gear = x.gear /\ woken.charge = x.charge
        /\ woken.pending = x.pending /\ woken.park = x.park
        /\ Over(woken) = Over(x) \cup Added(x, ts)
    <3>1. CASE x.current.kind = "offline"
      <4>1. woken = Close(up, ts)
        BY <1>2, <3>1
      <4> QED
        BY <1>2, <1>3, <4>1, CloseIs
    <3>2. CASE x.current.kind = "none"
      <4>1. woken = up
        BY <1>2, <3>2
      <4>2. x.current = NoSession /\ Added(x, ts) = {}
        BY <3>2, OverType DEF Added
      <4> QED
        BY <1>2, <1>3, <4>1, <4>2
    <3> QED
      BY <2>1, <3>1, <3>2
  <2>3. y = Open(woken, "idle", ts)
    BY <1>4, <1>8, <2>1, <2>2
  <2> HIDE DEF woken
  <2>4. /\ y \in Builders /\ y.current = [kind |-> "idle", start |-> ts] /\ y.done = woken.done
        /\ y.link = "up" /\ y.gear = x.gear /\ y.charge = x.charge
        /\ y.pending = x.pending /\ y.park = x.park
    BY <1>1, <2>2, <2>3 DEF Open, Builders
  <2>5. Over(y) = Over(woken)
    BY <2>4 DEF Over
  <2> QED
    BY <1>8, <2>1, <2>2, <2>4, <2>5 DEF Woke, y
<1> QED
  BY <1>6, <1>7, <1>8

\* A disconnect, of a builder that is not offline.
Slept(x, y, ts) ==
    /\ y \in Builders /\ y.link = "down" /\ y.gear = "unknown" /\ y.charge = "unknown"
    /\ y.pending = Never /\ y.park = Never
    /\ Driving(x) /\ x.park # Never =>
           /\ y.current = [kind |-> "offline", start |-> ts]
           /\ Over(y) = Over(x) \cup Added(x, x.park)
                        \cup (IF x.park < ts THEN {[kind |-> "idle", start |-> x.park, end |-> ts]}
                              ELSE {})
    /\ Driving(x) /\ x.park = Never => y.current = x.current /\ Over(y) = Over(x) /\ y.off = ts
    /\ ~Driving(x) => /\ y.current = [kind |-> "offline", start |-> ts]
                      /\ Over(y) = Over(x) \cup Added(x, ts)

LEMMA DisconnectIs ==
    ASSUME NEW x \in Builders, NEW ts \in Nat, x.link # "down"
    PROVE  Slept(x, Disconnect(x, ts), ts)
<1> DEFINE y == Disconnect(x, ts)
           parked == IF Driving(x) /\ x.park # Never THEN Turn(x, "idle", x.park) ELSE x
           down == [parked EXCEPT !.link = "down", !.pending = Never, !.park = Never,
                                  !.gear = "unknown", !.charge = "unknown"]
           cut == Turn(down, "offline", ts)
           gone == [down EXCEPT !.off = ts]
<1>1. "idle" \in Kinds /\ "offline" \in Kinds /\ x.park \in Nat
  BY DEF Kinds, Builders
<1>2. /\ parked \in Builders
      /\ Driving(x) /\ x.park # Never => /\ parked.current = [kind |-> "idle", start |-> x.park]
                                         /\ Over(parked) = Over(x) \cup Added(x, x.park)
      /\ ~(Driving(x) /\ x.park # Never) => parked = x
  BY <1>1, TurnIs
<1>3. y = IF Driving(down) THEN gone ELSE cut
  BY DEF Disconnect
<1> HIDE DEF parked, y
<1>4. /\ down \in Builders /\ down.link = "down" /\ down.gear = "unknown" /\ down.charge = "unknown"
      /\ down.pending = Never /\ down.park = Never /\ down.current = parked.current
      /\ down.done = parked.done
  BY <1>2 DEF Builders, Never
<1> HIDE DEF down
<1>5. Over(down) = Over(parked) /\ Added(down, ts) = Added(parked, ts)
      /\ (Driving(down) <=> Driving(parked))
  BY <1>4 DEF Over, Added, Ending, Driving
<1>6. /\ cut \in Builders /\ cut.link = "down" /\ cut.gear = "unknown" /\ cut.charge = "unknown"
      /\ cut.pending = Never /\ cut.park = Never
      /\ cut.current = [kind |-> "offline", start |-> ts] /\ Over(cut) = Over(down) \cup Added(down, ts)
  BY <1>1, <1>4, TurnIs
<1>7. /\ gone \in Builders /\ gone.link = "down" /\ gone.gear = "unknown" /\ gone.charge = "unknown"
      /\ gone.pending = Never /\ gone.park = Never /\ gone.current = down.current
      /\ gone.done = down.done /\ gone.off = ts
  BY <1>4 DEF Builders
<1> HIDE DEF cut, gone
<1>8. Over(gone) = Over(down)
  BY <1>7 DEF Over
<1>9. CASE Driving(x) /\ x.park # Never
  <2>1. parked.current # NoSession /\ ~Driving(down)
        /\ Ending(parked, ts) = [kind |-> "idle", start |-> x.park, end |-> ts]
    BY <1>2, <1>5, <1>9 DEF NoSession, Driving, Ending
  <2>2. Kept(Ending(parked, ts)) <=> x.park < ts
    BY <1>1, <2>1 DEF Kept
  <2>3. Added(parked, ts) = IF x.park < ts THEN {[kind |-> "idle", start |-> x.park, end |-> ts]}
                            ELSE {}
    BY <2>1, <2>2 DEF Added
  <2> QED
    BY <1>2, <1>3, <1>5, <1>6, <1>9, <2>1, <2>3 DEF Slept, y
<1>10. CASE Driving(x) /\ x.park = Never
  BY <1>2, <1>3, <1>4, <1>5, <1>7, <1>8, <1>10 DEF Slept, y
<1>11. CASE ~Driving(x)
  BY <1>2, <1>3, <1>5, <1>6, <1>11 DEF Slept, y
<1> QED
  BY <1>9, <1>10, <1>11

-----------------------------------------------------------------------------
(* What a row makes of a builder.                                          *)

Applied(x, a, g) ==
    /\ a \in Builders /\ a.link = x.link /\ a.current = x.current /\ Over(a) = Over(x)
    /\ a.pending = x.pending /\ a.park = x.park /\ a.off = x.off
    /\ a.gear = IF g.gear = "same" THEN x.gear ELSE g.gear
    /\ a.charge = IF g.charge = "same" THEN x.charge ELSE g.charge

LEMMA ApplyIs ==
    ASSUME NEW x \in Builders, NEW g \in Reports
    PROVE  Applied(x, Apply(x, g), g) /\ (g.links # {} => Apply(x, g) = x)
<1> DEFINE a == Apply(x, g)
<1>1. /\ g.gear \in {"same", "park", "moving"} /\ g.charge \in {"same", "charging", "ended"}
      /\ g.links # {} => g.charge = "same" /\ g.gear = "same"
  BY ReportIs
<1>2. /\ a \in Builders /\ a.link = x.link /\ a.current = x.current /\ a.done = x.done
      /\ a.pending = x.pending /\ a.park = x.park /\ a.off = x.off
      /\ a.gear = IF g.gear = "same" THEN x.gear ELSE g.gear
      /\ a.charge = IF g.charge = "same" THEN x.charge ELSE g.charge
  BY <1>1 DEF Apply, Builders
<1>3. g.links # {} => a = x
  <2>1. SUFFICES ASSUME g.gear = "same", g.charge = "same" PROVE a = x
    BY <1>1
  <2>2. x = [x EXCEPT !.gear = x.gear, !.charge = x.charge]
    BY DEF Builders
  <2> QED
    BY <2>1, <2>2 DEF Apply
<1> HIDE DEF a
<1>4. Over(a) = Over(x)
  BY <1>2 DEF Over
<1> QED
  BY <1>2, <1>3, <1>4 DEF Applied, a

LEMMA FeedRow ==
    ASSUME NEW x \in Builders, NEW ts \in Nat, NEW g \in Reports
    PROVE  /\ g.links = {} => Feed(x, ts, g) = Evaluate(Apply(x, g), ts, g)
           /\ g.links = {"connect"} => Feed(x, ts, g) = Evaluate(Connect(x, ts), ts, g)
           /\ g.links = {"disconnect"} =>
                  Feed(x, ts, g) = Evaluate(Disconnect(Evaluate(x, ts, g), ts), ts, g)
<1>1. g.links # {} => Apply(x, g) = x
  BY ApplyIs
<1> QED
  BY <1>1 DEF Feed

\* A connect invalidates nothing, because nothing is known.
LEMMA FeedConnectIs ==
    ASSUME NEW x \in Builders, NEW ts \in Nat, NEW g \in Reports, g.links = {"connect"},
           x.link # "up", x.current.kind \in {"none", "drive", "offline"},
           x.gear = "unknown", x.charge = "unknown", x.pending = Never
    PROVE  Woke(x, Feed(x, ts, g), ts)
<1> DEFINE c == Connect(x, ts)
           y == Evaluate(c, ts, g)
<1>1. Feed(x, ts, g) = y
  BY FeedRow
<1>2. Woke(x, c, ts)
  BY ConnectIs
<1> HIDE DEF c, y
<1>3. ~g.reset
  BY ReportIs
<1>4. c \in Builders /\ c.link = "up" /\ c.gear = "unknown" /\ c.charge = "unknown" /\ c.pending = Never
  BY <1>2 DEF Woke
<1>5. CASE Driving(x) /\ ~Long(x, ts)
  <2>1. Driving(c) /\ ~Parked(c, ts)
    BY <1>2, <1>4, <1>5 DEF Woke, Driving, Parked
  <2>2. Drove(c, y, ts)
    BY <1>3, <1>4, <2>1, EvalDrivingIs DEF y
  <2>3. ParkMark(c, ts) = c.park
    BY <1>4 DEF ParkMark
  <2> QED
    BY <1>1, <1>2, <1>4, <1>5, <2>1, <2>2, <2>3 DEF Woke, Drove, Alike, Long
<1>6. CASE ~Driving(x) \/ Long(x, ts)
  <2>1. c.current = [kind |-> "idle", start |-> ts]
    BY <1>2, <1>6 DEF Woke
  <2>2. Stood(c, y, ts, g)
    BY <1>3, <1>4, <2>1, EvalStandingIs DEF y
  <2>3. ~Moves(c, ts, g) /\ DriveMark(c, ts) = Never
    BY <1>4 DEF Moves, DriveMark
  <2>4. /\ y \in Builders /\ y.link = "up" /\ y.gear = "unknown" /\ y.charge = "unknown"
        /\ y.pending = Never /\ y.current = c.current /\ Over(y) = Over(c)
    BY <1>4, <2>1, <2>2, <2>3 DEF Stood, Alike
  <2> QED
    BY <1>1, <1>2, <1>6, <2>4 DEF Woke, Long
<1> QED
  BY <1>5, <1>6

\* A disconnect comes after the evaluation.
LEMMA FeedDisconnectIs ==
    ASSUME NEW x \in Builders, NEW ts \in Nat, NEW g \in Reports, g.links = {"disconnect"},
           x.link # "down"
    PROVE  /\ Slept(Evaluate(x, ts, g), Feed(x, ts, g), ts)
           /\ Evaluate(x, ts, g) \in Builders /\ Alike(Evaluate(x, ts, g), x)
<1> DEFINE e == Evaluate(x, ts, g)
           c == Disconnect(e, ts)
           y == Evaluate(c, ts, g)
<1>1. Feed(x, ts, g) = y
  BY FeedRow
<1>2. e \in Builders /\ Alike(e, x)
  BY EvaluateType, EvaluateAlike
<1> HIDE DEF e
<1>3. Slept(e, c, ts)
  BY <1>2, DisconnectIs DEF Alike
<1> HIDE DEF c
<1>4. ~Long(c, ts)
  BY <1>3, BuilderAssumption DEF Slept, Long, Driving
<1>5. y = c
  BY <1>3, <1>4, EvalOfflineIs DEF Slept
<1> QED
  BY <1>1, <1>2, <1>3, <1>5 DEF e

-----------------------------------------------------------------------------
(* What else holds of a builder after a row.                               *)

\* No row in after+1..t is a disconnect.
NoCut(after, t) == \A u \in (after + 1)..t : Rows[u].links # {"disconnect"}

\* A session of no length was opened and closed by a disconnect.
Empties(over) == \A s \in over : s.start = s.end => Rows[s.start].links = {"disconnect"}

Sharp(x, t) ==
    /\ x.link = "up" /\ ~Driving(x) /\ x.gear = "moving" => x.pending # Never
    /\ x.link = "up" /\ x.current.kind = "idle" => x.charge # "charging"
    /\ x.current.kind = "charge" /\ x.pending # Never => x.pending # x.current.start
    /\ x.link = "down" => x.gear = "unknown" /\ x.charge = "unknown" /\ x.park = Never
    /\ x.link = "unknown" => Over(x) = {}
    /\ Driving(x) /\ x.park # Never => InTime(Over(x), x.park) /\ NoCut(x.park, t)
    /\ Empties(Over(x))

LEMMA AddedIs ==
    ASSUME NEW x \in Builders, NEW at \in Nat, NEW s \in Added(x, at)
    PROVE  /\ s.kind = x.current.kind /\ s.start = x.current.start /\ s.end = at
           /\ x.current # NoSession
           /\ s.start < at \/ s.kind \in {"drive", "charge"}
<1>1. x.current # NoSession /\ Kept(Ending(x, at)) /\ s = Ending(x, at)
  BY DEF Added
<1>2. s.kind = x.current.kind /\ s.start = x.current.start /\ s.end = at
  BY <1>1 DEF Ending
<1> QED
  BY <1>1, <1>2 DEF Kept

\* What a row may be that a builder in this state reads.
Meets(x, g) ==
    /\ g.links = {"connect"} => x.link # "up" /\ x.gear = "unknown" /\ x.charge = "unknown"
    /\ g.links # {"connect"} => x.link # "down"

LEMMA RowSharp ==
    ASSUME NEW x, NEW t \in Nat, NEW ts \in Nat, t < ts, Base(x, t), Settled(x), Sharp(x, ts - 1),
           NEW g \in Reports, g.links = {}, Meets(x, g), g = Rows[ts]
    PROVE  Sharp(Feed(x, ts, g), ts)
<1> DEFINE a == Apply(x, g)
           y == Evaluate(a, ts, g)
<1>1. Feed(x, ts, g) = y
  BY FeedRow DEF Base
<1>2. Applied(x, a, g)
  BY ApplyIs DEF Base
<1> HIDE DEF a, y
<1>3. /\ ~g.reset /\ g.gear \in {"same", "park", "moving"} /\ g.charge \in {"same", "charging", "ended"}
      /\ g.charge # "same" => g.gear = "same"
      /\ g.links # {"connect"} /\ g.links # {"disconnect"}
  BY ReportIs
<1>4. x \in Builders /\ x.link \in {"unknown", "up"}
  BY <1>3 DEF Base, Meets, Builders
<1>5. /\ a \in Builders /\ a.link = x.link /\ a.current = x.current /\ Over(a) = Over(x)
      /\ a.pending = x.pending /\ a.park = x.park /\ a.off = x.off
      /\ x.pending \in Nat /\ x.park \in Nat /\ x.current.start \in Nat
  BY <1>2, <1>4, MarksType DEF Applied
<1>6. CASE x.link = "unknown"
  <2>1. x.current = NoSession /\ ~Long(a, ts)
    BY <1>5, <1>6 DEF Base, Linked, Long, Driving, NoSession
  <2>2. y = a
    BY <1>5, <1>6, <2>1, EvalOfflineIs DEF y
  <2> QED
    BY <1>1, <1>5, <1>6, <2>1, <2>2 DEF Sharp, Driving, NoSession
<1>7. CASE x.link = "up" /\ Driving(x)
  <2>1. Drove(a, y, ts)
    BY <1>3, <1>5, <1>7, EvalDrivingIs DEF y, Driving
  <2>2. /\ y \in Builders /\ y.link = "up" /\ y.gear = a.gear /\ y.charge = a.charge
    BY <1>5, <1>7, <2>1 DEF Drove, Alike
  <2>3. CASE ~Parked(a, ts)
    <3>1. y.current = x.current /\ Over(y) = Over(x) /\ y.park = ParkMark(a, ts)
          /\ y.pending = x.pending
      BY <1>5, <2>1, <2>3 DEF Drove
    <3>2. Driving(y) /\ y.current.kind = "drive"
      BY <1>7, <3>1 DEF Driving
    <3>3. y.park # Never => InTime(Over(y), y.park) /\ NoCut(y.park, ts)
      <4>1. SUFFICES ASSUME y.park # Never PROVE InTime(Over(y), y.park) /\ NoCut(y.park, ts)
        OBVIOUS
      <4>2. y.park = x.park \/ (y.park = ts /\ x.park = Never)
        BY <1>5, <3>1, <4>1 DEF ParkMark, Since
      <4>3. CASE y.park = ts
        <5>1. InTime(Over(y), ts)
          <6>1. \A s \in Over(x) : s.start \in Nat /\ s.end \in Nat
            BY <1>4, OverType
          <6> QED
            BY <3>1, <6>1 DEF Base, Listed, InTime
        <5>2. NoCut(ts, ts)
          BY DEF NoCut
        <5> QED
          BY <4>3, <5>1, <5>2
      <4>4. CASE y.park = x.park
        <5>1. InTime(Over(x), x.park) /\ NoCut(x.park, ts - 1)
          BY <1>7, <4>1, <4>4 DEF Sharp
        <5>2. \A u \in (x.park + 1)..ts : u = ts \/ u \in (x.park + 1)..(ts - 1)
          BY <1>5
        <5>3. NoCut(x.park, ts)
          BY <1>3, <5>1, <5>2 DEF NoCut
        <5> QED
          BY <3>1, <4>4, <5>1, <5>3
      <4> QED
        BY <4>2, <4>3, <4>4
    <3>4. Empties(Over(y))
      BY <3>1 DEF Sharp
    <3> QED
      BY <1>1, <2>2, <3>2, <3>3, <3>4 DEF Sharp
  <2>4. CASE Parked(a, ts)
    <3>1. x.current.start < x.park /\ x.park < ts
      BY <1>5, <1>7, <2>1, <2>4 DEF Parked, Base, Marked, Drove
    <3>2. Empties(Over(x) \cup Added(a, x.park))
      <4>1. \A s \in Added(a, x.park) : s.start < s.end
        BY <1>5, <3>1, AddedIs
      <4> QED
        BY <1>5, <3>1, <4>1, AddedIs DEF Sharp, Empties
    <3>3. Empties({[kind |-> "idle", start |-> x.park, end |-> ts]})
      BY <1>5, <3>1 DEF Empties
    <3>4. y.gear = "park" /\ y.pending = Never
      BY <2>1, <2>2, <2>4 DEF Parked, Drove
    <3> QED
      BY <1>1, <1>5, <2>1, <2>2, <2>4, <3>2, <3>3, <3>4 DEF Drove, Sharp, Driving, Empties
  <2> QED
    BY <2>3, <2>4
<1>8. CASE x.link = "up" /\ ~Driving(x)
  <2>1. x.current.kind \in {"idle", "charge"}
    BY <1>8 DEF Base, Linked, Driving
  <2>2. Stood(a, y, ts, g)
    BY <1>3, <1>5, <1>8, <2>1, EvalStandingIs DEF y
  <2>3. y \in Builders /\ y.link = "up" /\ y.gear = a.gear /\ y.charge = a.charge
    BY <1>5, <1>8, <2>2 DEF Stood, Alike
  <2>4. x.current # NoSession /\ x.current.start <= t /\ (x.pending # Never => x.pending <= t)
    BY <2>1 DEF Base, Listed, Marked, NoSession
  <2>5. ts # Never
    BY DEF Never
  <2>6. CASE Moves(a, ts, g)
    <3>1. a.pending # Never /\ Since(a.pending, ts) = x.pending
      <4>1. a.pending # Never
        BY <2>6, BuilderAssumption DEF Moves, Since
      <4> QED
        BY <1>5, <4>1 DEF Since
    <3>2. /\ Driving(y) /\ y.current.kind = "drive" /\ y.park = Never /\ y.pending = Never
          /\ Over(y) = Over(x) \cup Added(a, x.pending)
      BY <1>5, <2>2, <2>6, <3>1 DEF Stood, Driving
    <3>3. \A s \in Added(a, x.pending) : s.start # s.end
      <4>1. TAKE s \in Added(a, x.pending)
      <4>2. /\ s.kind = x.current.kind /\ s.start = x.current.start /\ s.end = x.pending
            /\ s.start < x.pending \/ s.kind = "charge"
        BY <1>5, <2>1, AddedIs
      <4>3. x.current.kind = "charge" => x.pending # x.current.start
        BY <1>5, <3>1 DEF Sharp
      <4> QED
        BY <1>5, <4>2, <4>3
    <3>4. Empties(Over(y))
      BY <3>2, <3>3 DEF Sharp, Empties
    <3> QED
      BY <1>1, <2>3, <3>2, <3>4 DEF Sharp
  <2>7. CASE ~Moves(a, ts, g)
    <3>1. y.pending = DriveMark(a, ts)
      BY <2>2, <2>7 DEF Stood
    <3>2. y.gear = "moving" => y.pending # Never
      BY <1>5, <2>3, <2>5, <3>1 DEF DriveMark, Since
    <3>3. y.pending # Never => y.pending = ts \/ y.pending = x.pending
      BY <1>5, <3>1 DEF DriveMark, Since
    <3>4. CASE x.current.kind = "idle" /\ a.charge = "charging"
      <4>1. y.current = [kind |-> "charge", start |-> ts] /\ Over(y) = Over(x) \cup Added(a, ts)
        BY <1>5, <2>2, <2>7, <3>4 DEF Stood
      <4>2. y.pending # ts
        <5>1. g.charge = "charging" /\ g.gear = "same"
          BY <1>2, <1>3, <1>8, <3>4 DEF Applied, Sharp
        <5>2. a.gear = x.gear
          BY <1>2, <5>1 DEF Applied
        <5>3. x.gear = "moving" => x.pending # Never
          BY <1>8 DEF Sharp
        <5> QED
          BY <1>5, <2>4, <2>5, <3>1, <5>2, <5>3 DEF DriveMark, Since
      <4>3. Empties(Over(y))
        <5>1. \A s \in Added(a, ts) : s.start # s.end
          BY <1>5, <3>4, AddedIs
        <5> QED
          BY <4>1, <5>1 DEF Sharp, Empties
      <4> QED
        BY <1>1, <2>3, <3>2, <4>1, <4>2, <4>3 DEF Sharp, Driving
    <3>5. CASE x.current.kind = "charge" /\ a.charge = "ended"
      <4>1. y.current = [kind |-> "idle", start |-> ts] /\ Over(y) = Over(x) \cup Added(a, ts)
        BY <1>5, <2>2, <2>7, <3>5 DEF Stood
      <4>2. Empties(Over(y))
        <5>1. \A s \in Added(a, ts) : s.start # s.end
          BY <1>5, <2>4, AddedIs
        <5> QED
          BY <4>1, <5>1 DEF Sharp, Empties
      <4> QED
        BY <1>1, <2>3, <3>2, <3>5, <4>1, <4>2 DEF Sharp, Driving
    <3>6. CASE /\ ~(x.current.kind = "idle" /\ a.charge = "charging")
               /\ ~(x.current.kind = "charge" /\ a.charge = "ended")
      <4>1. y.current = x.current /\ Over(y) = Over(x)
        BY <1>5, <2>2, <2>7, <3>6 DEF Stood
      <4>2. x.current.kind = "charge" /\ y.pending # Never => y.pending # x.current.start
        <5>1. x.current.start # ts
          BY <1>5, <2>4
        <5> QED
          BY <3>3, <5>1 DEF Sharp
      <4> QED
        BY <1>1, <2>3, <3>2, <3>6, <4>1, <4>2, <1>8 DEF Sharp, Driving
    <3> QED
      BY <3>4, <3>5, <3>6
  <2> QED
    BY <2>6, <2>7
<1> QED
  BY <1>4, <1>6, <1>7, <1>8

LEMMA ConnectSharp ==
    ASSUME NEW x, NEW t \in Nat, NEW ts \in Nat, t < ts, Base(x, t), Sharp(x, ts - 1),
           NEW g \in Reports, g.links = {"connect"}, Meets(x, g)
    PROVE  Sharp(Feed(x, ts, g), ts)
<1> DEFINE y == Feed(x, ts, g)
<1>1. /\ x \in Builders /\ x.link # "up" /\ x.gear = "unknown" /\ x.charge = "unknown"
      /\ x.pending = Never /\ x.current.kind \in {"none", "drive", "offline"}
      /\ Driving(x) => x.link = "down"
  BY DEF Base, Linked, Marked, Meets, NoSession, Builders, Driving
<1>2. Woke(x, y, ts)
  BY <1>1, FeedConnectIs
<1> HIDE DEF y
<1>3. y.link = "up" /\ y.gear = "unknown" /\ y.charge = "unknown" /\ y.pending = Never
  BY <1>1, <1>2 DEF Woke
<1>4. CASE Long(x, ts)
  <2>1. Driving(x) /\ x.off \in Nat /\ x.off # Never /\ x.current.start < x.off /\ x.off < ts
    BY <1>1, <1>2, <1>4, MarksType DEF Long, Base, Marked, Woke
  <2>2. \A s \in Added(x, x.off) : s.start # s.end
    BY <1>1, <2>1, AddedIs, MarksType
  <2>3. /\ y.current.kind = "idle"
        /\ Over(y) = Over(x) \cup Added(x, x.off)
                     \cup {[kind |-> "offline", start |-> x.off, end |-> ts]}
    BY <1>2, <1>4 DEF Woke
  <2>4. Empties(Over(y))
    BY <2>1, <2>2, <2>3 DEF Empties, Sharp
  <2> QED
    BY <1>3, <2>3, <2>4 DEF Sharp, Driving, y
<1>5. CASE Driving(x) /\ ~Long(x, ts)
  <2>1. Driving(y) /\ y.current.kind = "drive" /\ Over(y) = Over(x) /\ y.park = Never
    BY <1>1, <1>2, <1>5 DEF Woke, Sharp, Driving
  <2> QED
    BY <1>3, <2>1 DEF Sharp, y
<1>6. CASE ~Driving(x)
  <2>1. y.current.kind = "idle" /\ Over(y) = Over(x) \cup Added(x, ts)
    BY <1>2, <1>6 DEF Woke
  <2>2. \A s \in Added(x, ts) : s.start # s.end
    BY <1>1, <1>6, AddedIs, MarksType DEF Driving
  <2>3. Empties(Over(y))
    BY <2>1, <2>2 DEF Empties, Sharp
  <2> QED
    BY <1>3, <2>1, <2>3 DEF Sharp, Driving, y
<1> QED
  BY <1>4, <1>5, <1>6 DEF Long

\* What the evaluation at a disconnect leaves.
LEMMA LastLook ==
    ASSUME NEW x, NEW t \in Nat, NEW ts \in Nat, t < ts, Base(x, t), Settled(x), Sharp(x, ts - 1),
           NEW g \in Reports, g.links = {"disconnect"}, x.link # "down"
    PROVE  LET e == Evaluate(x, ts, g)
           IN  /\ ~Driving(x) => ~Driving(e) /\ e.current = x.current /\ Over(e) = Over(x)
               /\ Driving(x) => Drove(x, e, ts)
<1> DEFINE e == Evaluate(x, ts, g)
<1>1. ~g.reset /\ ~g.moved
  BY ReportIs
<1>2. x \in Builders /\ x.link \in {"unknown", "up"}
  BY DEF Base, Builders
<1>3. CASE x.link = "unknown"
  <2>1. ~Long(x, ts) /\ ~Driving(x)
    BY <1>3 DEF Base, Linked, Long, Driving, NoSession
  <2>2. e = x
    BY <1>2, <1>3, <2>1, EvalOfflineIs
  <2> QED
    BY <2>1, <2>2
<1>4. CASE x.link = "up" /\ Driving(x)
  BY <1>1, <1>2, <1>4, EvalDrivingIs
<1>5. CASE x.link = "up" /\ ~Driving(x)
  <2>1. x.current.kind \in {"idle", "charge"}
    BY <1>5 DEF Base, Linked, Driving
  <2>2. Stood(x, e, ts, g)
    BY <1>1, <1>2, <1>5, <2>1, EvalStandingIs
  <2> HIDE DEF e
  <2>3. /\ ~Moves(x, ts, g)
        /\ ~(x.current.kind = "idle" /\ x.charge = "charging")
        /\ ~(x.current.kind = "charge" /\ x.charge = "ended")
    BY <1>1, <1>5 DEF Moves, Sharp, Settled
  <2>4. e.current = x.current /\ Over(e) = Over(x)
    BY <2>2, <2>3 DEF Stood
  <2> QED
    BY <1>5, <2>4 DEF Driving, e
<1> QED
  BY <1>2, <1>3, <1>4, <1>5

LEMMA DisconnectSharp ==
    ASSUME NEW x, NEW t \in Nat, NEW ts \in Nat, t < ts, Base(x, t), Settled(x), Sharp(x, ts - 1),
           NEW g \in Reports, g.links = {"disconnect"}, Meets(x, g), g = Rows[ts]
    PROVE  Sharp(Feed(x, ts, g), ts)
<1> DEFINE e == Evaluate(x, ts, g)
           y == Feed(x, ts, g)
<1>1. x.link # "down" /\ x \in Builders
  BY DEF Meets, Base
<1>2. Slept(e, y, ts) /\ e \in Builders /\ Alike(e, x)
  BY <1>1, FeedDisconnectIs
<1>3. /\ ~Driving(x) => ~Driving(e) /\ e.current = x.current /\ Over(e) = Over(x)
      /\ Driving(x) => Drove(x, e, ts)
  BY <1>1, LastLook
<1> HIDE DEF e, y
<1>4. ASSUME NEW b \in Builders PROVE Empties(Added(b, ts))
  <2>1. \A s \in Added(b, ts) : s.end = ts
    BY <1>4, AddedIs
  <2> QED
    BY <2>1 DEF Empties
<1>5. Empties(Over(e)) /\ (Driving(e) /\ e.park # Never => e.current.start < e.park)
  <2>1. CASE ~Driving(x)
    BY <1>3, <2>1 DEF Sharp
  <2>2. CASE Driving(x) /\ ~Parked(x, ts)
    <3>1. Over(e) = Over(x) /\ e.current = x.current /\ e.park = ParkMark(x, ts)
      BY <1>3, <2>2 DEF Drove
    <3>2. e.park # Never => e.park = x.park \/ e.park = ts
      BY <3>1 DEF ParkMark, Since
    <3>3. x.current.start < ts /\ (x.park # Never => x.current.start < x.park)
      BY <1>1, <2>2, MarksType DEF Base, Marked
    <3> QED
      BY <3>1, <3>2, <3>3 DEF Sharp
  <2>3. CASE Driving(x) /\ Parked(x, ts)
    <3>1. x.current.start < x.park /\ x.park < ts /\ x.current.start \in Nat /\ x.park \in Nat
      BY <1>1, <1>3, <2>3, MarksType DEF Base, Marked, Parked, Drove
    <3>2. Empties(Over(x)) /\ Empties(Added(x, x.park))
          /\ Empties({[kind |-> "idle", start |-> x.park, end |-> ts]})
      <4>1. \A s \in Added(x, x.park) : s.start # s.end
        BY <1>1, <3>1, AddedIs
      <4> QED
        BY <3>1, <4>1 DEF Sharp, Empties
    <3>3. Empties(Over(e)) /\ ~Driving(e)
      BY <1>3, <2>3, <3>2 DEF Drove, Empties, Driving
    <3> QED
      BY <3>3
  <2> QED
    BY <2>1, <2>2, <2>3
<1>6. Empties(Over(y))
  <2>1. CASE Driving(e) /\ e.park # Never
    <3>1. e.park \in Nat /\ e.current.start \in Nat /\ e.current.start < e.park
      BY <1>2, <1>5, <2>1, MarksType
    <3>2. Empties(Added(e, e.park))
      <4>1. \A s \in Added(e, e.park) : s.start # s.end
        BY <1>2, <3>1, AddedIs
      <4> QED
        BY <4>1 DEF Empties
    <3>3. Empties(IF e.park < ts THEN {[kind |-> "idle", start |-> e.park, end |-> ts]} ELSE {})
      BY <3>1 DEF Empties
    <3> QED
      BY <1>2, <1>5, <2>1, <3>2, <3>3 DEF Slept, Empties
  <2>2. CASE Driving(e) /\ e.park = Never
    BY <1>2, <1>5, <2>2 DEF Slept
  <2>3. CASE ~Driving(e)
    BY <1>2, <1>4, <1>5, <2>3 DEF Slept, Empties
  <2> QED
    BY <2>1, <2>2, <2>3
<1>7. /\ y.link = "down" /\ y.gear = "unknown" /\ y.charge = "unknown"
      /\ y.pending = Never /\ y.park = Never
  BY <1>2 DEF Slept
<1> QED
  BY <1>6, <1>7 DEF Sharp, y

\* What a builder that starts at `from` knows of the link: all, if it starts with the
\* first row; and no value of a car that is offline.
Linking(car, x, from) ==
    /\ from = 1 => x.link = car.link
    /\ x.link = "unknown" /\ car.link # "up" => x.gear = "unknown" /\ x.charge = "unknown"

Sees(from, t) ==
    LET x == Fed(Rows, from, t)
    IN  Reads(from, t) /\ Sharp(x, t) /\ Linking(Fed(log, 1, t), x, from)

\* A row that is read is what the car reported, and the builder can make sense of it.
LEMMA RowRead ==
    ASSUME log \in Logs, Told, late \in Nat,
           NEW from \in Nat \ {0}, NEW t \in 1..MaxTime, from <= t, Sees(from, t - 1),
           Rows[t] # Nothing
    PROVE  LET x == Fed(Rows, from, t - 1)
               car == Fed(log, 1, t - 1)
           IN  /\ Rows[t] \in Reports /\ Rows[t] = log[t] /\ t # late
               /\ Meets(x, Rows[t]) /\ Follows(car, Rows[t])
               /\ x.link \in {car.link, "unknown"}
               /\ Fed(Rows, from, t) = Feed(x, t, Rows[t]) /\ Fed(log, 1, t) = Feed(car, t, Rows[t])
<1> DEFINE x == Fed(Rows, from, t - 1)
           car == Fed(log, 1, t - 1)
           g == Rows[t]
<1>1. t # late /\ g = log[t]
  BY DEF Rows
<1>2. g \in Reports /\ Follows(car, g)
  BY <1>1 DEF Logs, Told
<1>3. x.link \in {car.link, "unknown"}
  BY DEF Sees, Reads, Knows
<1>4. Sharp(x, t - 1) /\ Linking(car, x, from)
  BY DEF Sees
<1>5. /\ Fed(Rows, from, t) = FedOne(Rows, x, t)
      /\ Fed(log, 1, t) = FedOne(log, car, t)
  <2>1. t \in Nat /\ 1 <= t /\ 1 \in Nat \ {0}
    BY RebuildAssumption
  <2> QED
    BY <2>1, FedNext
<1>6. Base(x, t - 1) /\ x.link \in {"unknown", "up", "down"}
  BY DEF Sees, Reads, Base, Builders
<1> HIDE DEF x, car, g
<1>7. Meets(x, g)
  <2>1. CASE g.links = {"connect"}
    <3>1. car.link # "up"
      BY <1>2, <2>1 DEF Follows
    <3>2. x.link # "up" /\ x.gear = "unknown" /\ x.charge = "unknown"
      BY <1>3, <1>4, <1>6, <3>1 DEF Sharp, Linking
    <3> QED
      BY <2>1, <3>2 DEF Meets
  <2>2. CASE g.links # {"connect"}
    <3>1. car.link = "up"
      BY <1>2, <2>2 DEF Follows
    <3> QED
      BY <1>3, <2>2, <3>1 DEF Meets
  <2> QED
    BY <2>1, <2>2
<1> QED
  BY <1>1, <1>2, <1>3, <1>5, <1>7 DEF x, car, g, FedOne

LEMMA SeesOn ==
    ASSUME log \in Logs, Told, late \in Nat,
           NEW from \in Nat \ {0}, NEW t \in 1..MaxTime, from <= t, Sees(from, t - 1)
    PROVE  Sees(from, t)
<1> DEFINE x == Fed(Rows, from, t - 1)
           car == Fed(log, 1, t - 1)
           g == Rows[t]
           f == Fed(Rows, from, t)
           next == Fed(log, 1, t)
<1>1. t \in Nat /\ t - 1 \in Nat /\ t - 1 < t /\ 1 <= t
  BY RebuildAssumption
<1>2. Reads(from, t)
  BY ReadsOn DEF Sees
<1>3. /\ Base(x, t - 1) /\ Settled(x) /\ Sharp(x, t - 1) /\ Linking(car, x, from)
      /\ x \in Builders
  BY DEF Sees, Reads, Base
<1>4. car \in Builders
  <2>1. 1 \in Nat \ {0} /\ 1 - 1 <= t - 1 /\ t - 1 <= MaxTime
    BY <1>1, RebuildAssumption
  <2> QED
    BY <1>1, <2>1, FedType
<1>5. /\ f = FedOne(Rows, x, t)
      /\ next = FedOne(log, car, t)
  <2>1. 1 \in Nat \ {0}
    OBVIOUS
  <2> QED
    BY <1>1, <2>1, FedNext
<1>6. CASE g = Nothing
  <2>1. f = x
    BY <1>5, <1>6 DEF FedOne
  <2>2. Sharp(x, t)
    <3>1. g.links # {"disconnect"}
      BY <1>6 DEF Nothing, Silent
    <3>2. ASSUME NEW p \in Nat, NoCut(p, t - 1) PROVE NoCut(p, t)
      <4>1. \A u \in (p + 1)..t : u = t \/ u \in (p + 1)..(t - 1)
        BY <1>1
      <4> QED
        BY <3>1, <3>2, <4>1 DEF NoCut
    <3>3. x.park \in Nat
      BY <1>3, MarksType, <1>1
    <3> QED
      BY <1>3, <3>2, <3>3 DEF Sharp
  <2>3. next.link = car.link
    <3>1. CASE t = late
      <4>1. CASE log[t] = Nothing
        BY <1>5, <4>1 DEF FedOne
      <4>2. CASE log[t] # Nothing
        <5>1. log[t] \in Reports /\ log[t].links = {} /\ next = Feed(car, t, log[t])
          BY <1>1, <1>5, <3>1, <4>2 DEF Logs, Told, FedOne
        <5>2. Took(Feed(car, t, log[t]), car, log[t])
          BY <1>1, <1>4, <5>1, FeedIs
        <5> QED
          BY <5>1, <5>2 DEF Took
      <4> QED
        BY <4>1, <4>2
    <3>2. CASE t # late
      <4>1. log[t] = Nothing
        BY <1>6, <3>2 DEF Rows
      <4> QED
        BY <1>5, <4>1 DEF FedOne
    <3> QED
      BY <3>1, <3>2
  <2>4. Linking(next, x, from)
    BY <1>3, <2>3 DEF Linking
  <2> QED
    BY <1>2, <2>1, <2>2, <2>4 DEF Sees
<1>7. CASE g # Nothing
  <2>1. /\ g \in Reports /\ Meets(x, g) /\ Follows(car, g) /\ x.link \in {car.link, "unknown"}
        /\ f = Feed(x, t, g) /\ next = Feed(car, t, g)
    BY <1>7, RowRead
  <2> HIDE DEF x, car, f, next
  <2>2. g.links \in {{}, {"connect"}, {"disconnect"}}
    BY <2>1, ReportIs
  <2>3. Took(f, x, g) /\ Took(next, car, g)
    BY <1>1, <1>3, <1>4, <2>1, FeedIs
  <2>4. Sharp(f, t)
    <3>1. CASE g.links = {}
      BY <1>1, <1>3, <2>1, <3>1, RowSharp
    <3>2. CASE g.links = {"connect"}
      BY <1>1, <1>3, <2>1, <3>2, ConnectSharp
    <3>3. CASE g.links = {"disconnect"}
      BY <1>1, <1>3, <2>1, <3>3, DisconnectSharp
    <3> QED
      BY <2>2, <3>1, <3>2, <3>3
  <2>5. Linking(next, f, from)
    <3>1. CASE g.links = {}
      <4>1. car.link = "up"
        BY <2>1, <3>1 DEF Follows
      <4>2. f.link = x.link /\ next.link = car.link
        BY <2>3, <3>1 DEF Took
      <4> QED
        BY <1>3, <4>1, <4>2 DEF Linking
    <3>2. CASE g.links = {"connect"}
      BY <2>3, <3>2 DEF Took, Linking
    <3>3. CASE g.links = {"disconnect"}
      BY <2>3, <3>3 DEF Took, Linking
    <3> QED
      BY <2>2, <3>1, <3>2, <3>3
  <2> QED
    BY <1>2, <2>4, <2>5 DEF Sees, f, next
<1> QED
  BY <1>6, <1>7

LEMMA SeesAll ==
    ASSUME log \in Logs, Told, late \in Nat,
           NEW from \in Nat \ {0}, NEW to \in 0..MaxTime, from - 1 <= to
    PROVE  Sees(from, to)
<1> DEFINE Good == {n \in Nat : Sees(from, from - 1 + n)}
<1>1. 0 \in Good
  <2> DEFINE x == Fed(Rows, from, from - 1)
             car == Fed(log, 1, from - 1)
  <2>1. x = NewBuilder
    BY FedFirst
  <2>2. from = 1 => car = NewBuilder
    BY FedFirst
  <2>3. Reads(from, from - 1)
    <3>1. Base(x, from - 1) /\ Settled(x) /\ Knows(car, x, from, from - 1)
      <4> HIDE DEF x, car
      <4>1. /\ x \in Builders /\ x.current = NoSession /\ x.link = "unknown" /\ x.gear = "unknown"
            /\ x.pending = Never /\ Over(x) = {}
        BY <2>1 DEF NewBuilder, Builders, Never, Over
      <4>2. Base(x, from - 1)
        BY <4>1 DEF Base, Listed, InTime, Once, Begun, Linked, Marked, Driving, NoSession
      <4> QED
        BY <4>1, <4>2 DEF Settled, Overtaken, Knows, NoSession
    <3> QED
      BY <3>1 DEF Reads
  <2> HIDE DEF x, car
  <2>4. /\ x.current = NoSession /\ x.link = "unknown" /\ x.gear = "unknown" /\ x.charge = "unknown"
        /\ Over(x) = {}
    BY <2>1 DEF NewBuilder, Over
  <2>5. Sharp(x, from - 1)
    BY <2>4 DEF Sharp, Empties, Driving, NoSession
  <2>6. Linking(car, x, from)
    BY <2>1, <2>2, <2>4 DEF Linking
  <2> QED
    BY <2>3, <2>5, <2>6 DEF Sees, x, car
<1>2. ASSUME NEW n \in Nat, n < to - (from - 1), n \in Good
      PROVE  n + 1 \in Good
  <2> DEFINE t == from + n
  <2>1. t \in 1..MaxTime /\ from <= t /\ t - 1 = from - 1 + n
    BY <1>2, RebuildAssumption
  <2>2. Sees(from, t - 1)
    BY <1>2, <2>1
  <2> HIDE DEF t
  <2>3. Sees(from, t)
    BY <2>1, <2>2, SeesOn
  <2> QED
    BY <2>3 DEF t
<1>3. to - (from - 1) \in Nat
  BY RebuildAssumption
<1> HIDE DEF Good
<1>4. to - (from - 1) \in Good
  BY <1>1, <1>2, <1>3, Reaches
<1> QED
  BY <1>4 DEF Good

-----------------------------------------------------------------------------
(* Two builders that differ in the past only.                              *)

\* All of `some` that starts after e is in `others`.
Covers(some, others, e) == \A s \in some : s \in others \/ s.start <= e

\* They differ in sessions that start by e, of x, and by d, of y.
Twin(x, y, e, d) ==
    /\ x \in Builders /\ y \in Builders /\ Alike(x, y) /\ x.pending = y.pending
    /\ x.current.kind = y.current.kind
    /\ x.link = "up" => x.current.kind \in {"drive", "charge", "idle"}
    /\ x.link # "up" => x.current.kind \in {"none", "drive", "offline"}
    /\ Driving(x) => x.park = y.park /\ (x.link # "up" => x.off = y.off)
    /\ x.current = y.current \/ (x.current.start <= e /\ y.current.start <= d)
    /\ Covers(Over(x), Over(y), e) /\ Covers(Over(y), Over(x), d)

LEMMA BothClose ==
    ASSUME NEW e \in Int, NEW d \in Int, NEW x, NEW y, Twin(x, y, e, d), NEW end \in Nat
    PROVE  /\ Covers(Over(x) \cup Added(x, end), Over(y) \cup Added(y, end), e)
           /\ Covers(Over(y) \cup Added(y, end), Over(x) \cup Added(x, end), d)
<1>1. CASE x.current = y.current
  <2>1. Added(x, end) = Added(y, end)
    BY <1>1 DEF Added, Ending
  <2> QED
    BY <2>1 DEF Twin, Covers
<1>2. CASE x.current.start <= e /\ y.current.start <= d
  <2>1. /\ \A s \in Added(x, end) : s.start <= e
        /\ \A s \in Added(y, end) : s.start <= d
    BY <1>2, AddedIs DEF Twin
  <2> QED
    BY <2>1 DEF Twin, Covers
<1> QED
  BY <1>1, <1>2 DEF Twin

LEMMA TwinEvaluate ==
    ASSUME NEW e \in Int, NEW d \in Int, NEW x, NEW y, Twin(x, y, e, d),
           NEW at \in Nat, NEW g, ~g.reset
    PROVE  Twin(Evaluate(x, at, g), Evaluate(y, at, g), e, d)
<1> DEFINE u == Evaluate(x, at, g)
           v == Evaluate(y, at, g)
<1>1. /\ x \in Builders /\ y \in Builders /\ x.link = y.link /\ x.gear = y.gear
      /\ x.charge = y.charge /\ x.pending = y.pending /\ x.current.kind = y.current.kind
      /\ (Driving(x) <=> Driving(y))
      /\ x.park \in Nat /\ x.off \in Nat /\ x.pending \in Nat
  BY MarksType DEF Twin, Alike, Driving
<1>2. Since(x.pending, at) \in Nat /\ Since(x.pending, at) = Since(y.pending, at)
  BY <1>1, MarksType
<1>3. ASSUME NEW end \in Nat
      PROVE  /\ Covers(Over(x) \cup Added(x, end), Over(y) \cup Added(y, end), e)
             /\ Covers(Over(y) \cup Added(y, end), Over(x) \cup Added(x, end), d)
  BY BothClose
<1>4. CASE x.link # "up"
  <2>1. /\ u \in Builders /\ Alike(u, x) /\ u.pending = x.pending /\ u.park = x.park
        /\ Long(x, at) => /\ u.current = [kind |-> "offline", start |-> x.off]
                          /\ Over(u) = Over(x) \cup Added(x, x.off)
        /\ ~Long(x, at) => u = x
    BY <1>1, <1>4, EvalOfflineIs
  <2>2. /\ v \in Builders /\ Alike(v, y) /\ v.pending = y.pending /\ v.park = y.park
        /\ Long(y, at) => /\ v.current = [kind |-> "offline", start |-> y.off]
                          /\ Over(v) = Over(y) \cup Added(y, y.off)
        /\ ~Long(y, at) => v = y
    BY <1>1, <1>4, EvalOfflineIs
  <2> HIDE DEF u, v
  <2>3. (Long(x, at) <=> Long(y, at)) /\ (Long(x, at) => x.off = y.off)
    BY <1>1, <1>4 DEF Long, Twin
  <2>4. CASE Long(x, at)
    <3>1. u.current = v.current /\ u.current.kind = "offline"
      BY <2>1, <2>2, <2>3, <2>4
    <3>2. Covers(Over(u), Over(v), e) /\ Covers(Over(v), Over(u), d)
      BY <1>1, <1>3, <2>1, <2>2, <2>3, <2>4
    <3> QED
      BY <1>1, <1>4, <2>1, <2>2, <3>1, <3>2 DEF Twin, Alike, Driving, u, v
  <2>5. CASE ~Long(x, at)
    BY <2>1, <2>2, <2>3, <2>5 DEF u, v
  <2> QED
    BY <2>4, <2>5
<1>5. CASE x.link = "up" /\ Driving(x)
  <2>1. Drove(x, u, at) /\ Drove(y, v, at)
    BY <1>1, <1>5, EvalDrivingIs
  <2> HIDE DEF u, v
  <2>2. x.park = y.park /\ (Parked(x, at) <=> Parked(y, at)) /\ ParkMark(x, at) = ParkMark(y, at)
    BY <1>1, <1>5 DEF Twin, Parked, ParkMark
  <2>3. /\ u \in Builders /\ v \in Builders /\ Alike(u, v) /\ u.link = "up"
    BY <1>1, <1>5, <2>1 DEF Drove, Alike
  <2>4. CASE ~Parked(x, at)
    <3>1. /\ u.current = x.current /\ Over(u) = Over(x) /\ u.pending = x.pending
          /\ v.current = y.current /\ Over(v) = Over(y) /\ v.pending = y.pending
          /\ u.park = v.park
      BY <2>1, <2>2, <2>4 DEF Drove
    <3> QED
      BY <1>1, <1>5, <2>3, <3>1 DEF Twin, Driving, u, v
  <2>5. CASE Parked(x, at)
    <3>1. u.pending = Never /\ v.pending = Never
      BY <2>1, <2>2, <2>5 DEF Drove
    <3>2. u.current = v.current /\ u.current.kind \in {"idle", "charge"}
      BY <1>1, <2>1, <2>2, <2>5 DEF Drove
    <3>3. Covers(Over(u), Over(v), e) /\ Covers(Over(v), Over(u), d)
      <4>1. CASE x.charge # "charging"
        <5>1. /\ Over(u) = Over(x) \cup Added(x, x.park)
              /\ Over(v) = Over(y) \cup Added(y, x.park)
          BY <1>1, <2>1, <2>2, <2>5, <4>1 DEF Drove
        <5> QED
          BY <1>1, <1>3, <5>1
      <4>2. CASE x.charge = "charging"
        <5> DEFINE idle == {[kind |-> "idle", start |-> x.park, end |-> at]}
        <5>1. /\ Over(u) = Over(x) \cup Added(x, x.park) \cup idle
              /\ Over(v) = Over(y) \cup Added(y, x.park) \cup idle
          BY <1>1, <2>1, <2>2, <2>5, <4>2 DEF Drove
        <5> HIDE DEF idle
        <5>2. /\ Covers(Over(x) \cup Added(x, x.park), Over(y) \cup Added(y, x.park), e)
              /\ Covers(Over(y) \cup Added(y, x.park), Over(x) \cup Added(x, x.park), d)
          BY <1>1, <1>3
        <5> QED
          BY <5>1, <5>2 DEF Covers
      <4> QED
        BY <4>1, <4>2
    <3> QED
      BY <2>3, <3>1, <3>2, <3>3 DEF Twin, Driving, u, v
  <2> QED
    BY <2>4, <2>5
<1>6. CASE x.link = "up" /\ ~Driving(x)
  <2>1. x.current.kind \in {"idle", "charge"}
    BY <1>6 DEF Twin, Driving
  <2>2. Stood(x, u, at, g) /\ Stood(y, v, at, g)
    BY <1>1, <1>6, <2>1, EvalStandingIs
  <2> HIDE DEF u, v
  <2>3. (Moves(x, at, g) <=> Moves(y, at, g)) /\ DriveMark(x, at) = DriveMark(y, at)
    BY <1>1 DEF Moves, DriveMark
  <2>4. /\ u \in Builders /\ v \in Builders /\ Alike(u, v) /\ u.link = "up"
    BY <1>1, <1>6, <2>2 DEF Stood, Alike
  <2>5. CASE Moves(x, at, g)
    <3> DEFINE since == Since(x.pending, at)
    <3>1. /\ u.pending = Never /\ v.pending = Never /\ u.park = v.park
          /\ u.current = v.current /\ u.current.kind = "drive"
          /\ Over(u) = Over(x) \cup Added(x, since) /\ Over(v) = Over(y) \cup Added(y, since)
      BY <1>2, <2>2, <2>3, <2>5 DEF Stood
    <3>2. Covers(Over(u), Over(v), e) /\ Covers(Over(v), Over(u), d)
      BY <1>2, <1>3, <3>1
    <3> QED
      BY <2>4, <3>1, <3>2 DEF Twin, Driving, u, v
  <2>6. CASE ~Moves(x, at, g)
    <3>1. u.pending = v.pending
      BY <2>2, <2>3, <2>6 DEF Stood
    <3>2. CASE (x.current.kind = "idle" /\ x.charge = "charging")
               \/ (x.current.kind = "charge" /\ x.charge = "ended")
      <4>1. /\ u.current = v.current /\ u.current.kind \in {"idle", "charge"}
            /\ Over(u) = Over(x) \cup Added(x, at) /\ Over(v) = Over(y) \cup Added(y, at)
        BY <1>1, <2>2, <2>3, <2>6, <3>2 DEF Stood
      <4>2. Covers(Over(u), Over(v), e) /\ Covers(Over(v), Over(u), d)
        BY <1>3, <4>1
      <4> QED
        BY <2>4, <3>1, <4>1, <4>2 DEF Twin, Driving, u, v
    <3>3. CASE /\ ~(x.current.kind = "idle" /\ x.charge = "charging")
               /\ ~(x.current.kind = "charge" /\ x.charge = "ended")
      <4>1. /\ u.current = x.current /\ Over(u) = Over(x)
            /\ v.current = y.current /\ Over(v) = Over(y)
        BY <1>1, <2>2, <2>3, <2>6, <3>3 DEF Stood
      <4> QED
        BY <1>1, <1>6, <2>4, <3>1, <4>1 DEF Twin, Driving, u, v
    <3> QED
      BY <3>2, <3>3
  <2> QED
    BY <2>5, <2>6
<1> QED
  BY <1>4, <1>5, <1>6

LEMMA TwinConnect ==
    ASSUME NEW e \in Int, NEW d \in Int, NEW x, NEW y, Twin(x, y, e, d),
           NEW ts \in Nat, x.link # "up"
    PROVE  Twin(Connect(x, ts), Connect(y, ts), e, d)
<1> DEFINE u == Connect(x, ts)
           v == Connect(y, ts)
<1>1. /\ x \in Builders /\ y \in Builders /\ x.link = y.link /\ x.gear = y.gear
      /\ x.charge = y.charge /\ x.pending = y.pending /\ x.current.kind = y.current.kind
      /\ (Driving(x) <=> Driving(y)) /\ x.current.kind \in {"none", "drive", "offline"}
      /\ x.off \in Nat
  BY MarksType DEF Twin, Alike, Driving
<1>2. Woke(x, u, ts) /\ Woke(y, v, ts)
  BY <1>1, ConnectIs
<1> HIDE DEF u, v
<1>3. Driving(x) => x.off = y.off /\ x.park = y.park
  BY DEF Twin
<1>4. Long(x, ts) <=> Long(y, ts)
  BY <1>1, <1>3 DEF Long
<1>5. /\ u \in Builders /\ v \in Builders /\ Alike(u, v) /\ u.link = "up" /\ u.pending = v.pending
  BY <1>1, <1>2 DEF Woke, Alike
<1>6. CASE Long(x, ts)
  <2> DEFINE offline == {[kind |-> "offline", start |-> x.off, end |-> ts]}
  <2>1. Driving(x)
    BY <1>6 DEF Long
  <2>2. /\ u.current = v.current /\ u.current.kind = "idle"
        /\ Over(u) = Over(x) \cup Added(x, x.off) \cup offline
        /\ Over(v) = Over(y) \cup Added(y, x.off) \cup offline
    BY <1>2, <1>3, <1>4, <1>6, <2>1 DEF Woke
  <2> HIDE DEF offline
  <2>3. /\ Covers(Over(x) \cup Added(x, x.off), Over(y) \cup Added(y, x.off), e)
        /\ Covers(Over(y) \cup Added(y, x.off), Over(x) \cup Added(x, x.off), d)
    BY <1>1, BothClose
  <2>4. Covers(Over(u), Over(v), e) /\ Covers(Over(v), Over(u), d)
    BY <2>2, <2>3 DEF Covers
  <2> QED
    BY <1>5, <2>2, <2>4 DEF Twin, Driving, u, v
<1>7. CASE Driving(x) /\ ~Long(x, ts)
  <2>1. /\ u.current = x.current /\ Over(u) = Over(x) /\ v.current = y.current /\ Over(v) = Over(y)
        /\ u.park = v.park
    BY <1>1, <1>2, <1>3, <1>4, <1>7 DEF Woke
  <2> QED
    BY <1>5, <1>7, <2>1 DEF Twin, Driving, u, v
<1>8. CASE ~Driving(x)
  <2>1. /\ u.current = v.current /\ u.current.kind = "idle"
        /\ Over(u) = Over(x) \cup Added(x, ts) /\ Over(v) = Over(y) \cup Added(y, ts)
    BY <1>1, <1>2, <1>8 DEF Woke
  <2>2. Covers(Over(u), Over(v), e) /\ Covers(Over(v), Over(u), d)
    BY <2>1, BothClose
  <2> QED
    BY <1>5, <2>1, <2>2 DEF Twin, Driving, u, v
<1> QED
  BY <1>6, <1>7, <1>8

LEMMA TwinDisconnect ==
    ASSUME NEW e \in Int, NEW d \in Int, NEW x, NEW y, Twin(x, y, e, d),
           NEW ts \in Nat, x.link # "down"
    PROVE  Twin(Disconnect(x, ts), Disconnect(y, ts), e, d)
<1> DEFINE u == Disconnect(x, ts)
           v == Disconnect(y, ts)
<1>1. /\ x \in Builders /\ y \in Builders /\ x.link = y.link
      /\ (Driving(x) <=> Driving(y)) /\ (Driving(x) => x.park = y.park) /\ x.park \in Nat
  BY MarksType DEF Twin, Alike, Driving
<1>2. Slept(x, u, ts) /\ Slept(y, v, ts)
  BY <1>1, DisconnectIs
<1> HIDE DEF u, v
<1>3. /\ u \in Builders /\ v \in Builders /\ Alike(u, v) /\ u.link = "down"
      /\ u.pending = v.pending /\ u.park = v.park
  BY <1>2 DEF Slept, Alike
<1>4. CASE Driving(x) /\ x.park # Never
  <2> DEFINE idle == IF x.park < ts THEN {[kind |-> "idle", start |-> x.park, end |-> ts]} ELSE {}
  <2>1. /\ u.current = v.current /\ u.current.kind = "offline"
        /\ Over(u) = Over(x) \cup Added(x, x.park) \cup idle
        /\ Over(v) = Over(y) \cup Added(y, x.park) \cup idle
    BY <1>1, <1>2, <1>4 DEF Slept
  <2> HIDE DEF idle
  <2>2. /\ Covers(Over(x) \cup Added(x, x.park), Over(y) \cup Added(y, x.park), e)
        /\ Covers(Over(y) \cup Added(y, x.park), Over(x) \cup Added(x, x.park), d)
    BY <1>1, BothClose
  <2>3. Covers(Over(u), Over(v), e) /\ Covers(Over(v), Over(u), d)
    BY <2>1, <2>2 DEF Covers
  <2> QED
    BY <1>3, <2>1, <2>3 DEF Twin, Driving, u, v
<1>5. CASE Driving(x) /\ x.park = Never
  <2>1. /\ u.current = x.current /\ Over(u) = Over(x) /\ v.current = y.current /\ Over(v) = Over(y)
        /\ u.off = v.off
    BY <1>1, <1>2, <1>5 DEF Slept
  <2> QED
    BY <1>3, <1>5, <2>1 DEF Twin, Driving, u, v
<1>6. CASE ~Driving(x)
  <2>1. /\ u.current = v.current /\ u.current.kind = "offline"
        /\ Over(u) = Over(x) \cup Added(x, ts) /\ Over(v) = Over(y) \cup Added(y, ts)
    BY <1>1, <1>2, <1>6 DEF Slept
  <2>2. Covers(Over(u), Over(v), e) /\ Covers(Over(v), Over(u), d)
    BY <2>1, BothClose
  <2> QED
    BY <1>3, <2>1, <2>2 DEF Twin, Driving, u, v
<1> QED
  BY <1>4, <1>5, <1>6

\* Fed the same row, they stay so.
LEMMA TwinFeed ==
    ASSUME NEW e \in Int, NEW d \in Int, NEW x, NEW y, Twin(x, y, e, d),
           NEW ts \in Nat, NEW g \in Reports, Meets(x, g)
    PROVE  Twin(Feed(x, ts, g), Feed(y, ts, g), e, d)
<1>1. x \in Builders /\ y \in Builders
  BY DEF Twin
<1>2. ~g.reset /\ g.links \in {{}, {"connect"}, {"disconnect"}}
  BY ReportIs
<1>3. CASE g.links = {}
  <2> DEFINE u == Apply(x, g)
             v == Apply(y, g)
  <2>1. Applied(x, u, g) /\ Applied(y, v, g)
    BY <1>1, ApplyIs
  <2>2. Feed(x, ts, g) = Evaluate(u, ts, g) /\ Feed(y, ts, g) = Evaluate(v, ts, g)
    BY <1>1, <1>3, FeedRow
  <2> HIDE DEF u, v
  <2>3. Twin(u, v, e, d)
    BY <2>1 DEF Applied, Twin, Alike, Driving
  <2>4. Twin(Evaluate(u, ts, g), Evaluate(v, ts, g), e, d)
    BY <1>2, <2>3, TwinEvaluate
  <2> QED
    BY <2>2, <2>4
<1>4. CASE g.links = {"connect"}
  <2> DEFINE u == Connect(x, ts)
             v == Connect(y, ts)
  <2>1. Feed(x, ts, g) = Evaluate(u, ts, g) /\ Feed(y, ts, g) = Evaluate(v, ts, g)
    BY <1>1, <1>4, FeedRow
  <2>2. Twin(u, v, e, d)
    BY <1>4, TwinConnect DEF Meets
  <2> HIDE DEF u, v
  <2>3. Twin(Evaluate(u, ts, g), Evaluate(v, ts, g), e, d)
    BY <1>2, <2>2, TwinEvaluate
  <2> QED
    BY <2>1, <2>3
<1>5. CASE g.links = {"disconnect"}
  <2> DEFINE p == Evaluate(x, ts, g)
             q == Evaluate(y, ts, g)
             u == Disconnect(p, ts)
             v == Disconnect(q, ts)
  <2>1. Feed(x, ts, g) = Evaluate(u, ts, g) /\ Feed(y, ts, g) = Evaluate(v, ts, g)
    BY <1>1, <1>5, FeedRow
  <2>2. Twin(p, q, e, d) /\ Alike(p, x)
    BY <1>1, <1>2, TwinEvaluate, EvaluateAlike
  <2> HIDE DEF p, q
  <2>3. p.link # "down"
    BY <1>5, <2>2 DEF Meets, Alike
  <2>4. Twin(u, v, e, d)
    BY <2>2, <2>3, TwinDisconnect
  <2> HIDE DEF u, v
  <2>5. Twin(Evaluate(u, ts, g), Evaluate(v, ts, g), e, d)
    BY <1>2, <2>4, TwinEvaluate
  <2> QED
    BY <2>1, <2>5
<1> QED
  BY <1>2, <1>3, <1>4, <1>5

-----------------------------------------------------------------------------
(* Where a drive begins and where it ends.                                 *)

\* A drive begins in gear; none ends in gear; and in gear no park has begun.
Shifts(x, y) ==
    /\ ~Driving(x) /\ Driving(y) => y.link = "up" /\ y.gear = "moving"
    /\ Driving(x) /\ ~Driving(y) => y.gear # "moving"
    /\ Driving(y) /\ y.gear = "moving" => y.park = Never

\* A drive ends now, or where the park began: since then the car was not offline.
Stops(x, y, at) ==
    \/ y.current.start = at
    \/ /\ y.current.start = x.park /\ x.park \in Nat /\ x.park < at /\ NoCut(x.park, at)
       /\ x.current.start < x.park
       /\ Over(y) = Over(x) \cup {[kind |-> "drive", start |-> x.current.start, end |-> x.park]}
       /\ InTime(Over(x), x.park)

LEMMA DriveAdded ==
    ASSUME NEW x \in Builders, NEW at \in Nat, Driving(x)
    PROVE  Added(x, at) = {[kind |-> "drive", start |-> x.current.start, end |-> at]}
<1>1. x.current # NoSession /\ Ending(x, at) = [kind |-> "drive", start |-> x.current.start, end |-> at]
  BY DEF Driving, NoSession, Ending
<1>2. Kept(Ending(x, at))
  BY <1>1 DEF Kept
<1> QED
  BY <1>1, <1>2 DEF Added

LEMMA RowShifts ==
    ASSUME NEW x, NEW t \in Nat, NEW ts \in Nat, t < ts, Base(x, t), Settled(x), Sharp(x, ts - 1),
           NEW g \in Reports, g.links = {}, Meets(x, g), g = Rows[ts]
    PROVE  LET y == Feed(x, ts, g)
           IN  Shifts(x, y) /\ (Driving(x) /\ ~Driving(y) => Stops(x, y, ts))
<1> DEFINE a == Apply(x, g)
           y == Evaluate(a, ts, g)
<1>1. Feed(x, ts, g) = y
  BY FeedRow DEF Base
<1>2. Applied(x, a, g)
  BY ApplyIs DEF Base
<1> HIDE DEF a, y
<1>3. ~g.reset /\ g.links # {"connect"} /\ g.links # {"disconnect"}
  BY ReportIs
<1>4. x \in Builders /\ x.link \in {"unknown", "up"}
  BY <1>3 DEF Base, Meets, Builders
<1>5. /\ a \in Builders /\ a.link = x.link /\ a.current = x.current /\ Over(a) = Over(x)
      /\ a.pending = x.pending /\ a.park = x.park /\ a.off = x.off
      /\ x.pending \in Nat /\ x.park \in Nat /\ x.current.start \in Nat
  BY <1>2, <1>4, MarksType DEF Applied
<1>6. CASE x.link = "unknown"
  <2>1. x.current = NoSession /\ ~Long(a, ts)
    BY <1>5, <1>6 DEF Base, Linked, Long, Driving, NoSession
  <2>2. y = a
    BY <1>5, <1>6, <2>1, EvalOfflineIs DEF y
  <2> QED
    BY <1>1, <1>5, <2>1, <2>2 DEF Shifts, Driving, NoSession
<1>7. CASE x.link = "up" /\ Driving(x)
  <2>1. Drove(a, y, ts)
    BY <1>3, <1>5, <1>7, EvalDrivingIs DEF y, Driving
  <2>2. y.gear = a.gear
    BY <2>1 DEF Drove, Alike
  <2>3. CASE ~Parked(a, ts)
    <3>1. Driving(y) /\ (y.gear = "moving" => y.park = Never)
      BY <1>5, <1>7, <2>1, <2>2, <2>3 DEF Drove, Driving, ParkMark
    <3> QED
      BY <1>1, <1>7, <3>1 DEF Shifts
  <2>4. CASE Parked(a, ts)
    <3>1. ~Driving(y) /\ y.gear = "park"
      BY <1>5, <2>1, <2>2, <2>4 DEF Drove, Driving, Parked
    <3>2. x.park # Never /\ x.park < ts /\ x.current.start < x.park /\ InTime(Over(x), x.park)
          /\ NoCut(x.park, ts - 1)
      BY <1>5, <1>7, <2>1, <2>4 DEF Drove, Parked, Sharp, Base, Marked
    <3>3. NoCut(x.park, ts)
      <4>1. \A u \in (x.park + 1)..ts : u = ts \/ u \in (x.park + 1)..(ts - 1)
        BY <1>5
      <4> QED
        BY <1>3, <3>2, <4>1 DEF NoCut
    <3>4. Stops(x, y, ts)
      <4>1. CASE a.charge = "charging"
        BY <2>1, <2>4, <4>1 DEF Drove, Stops
      <4>2. CASE a.charge # "charging"
        <5>1. Added(a, x.park) = {[kind |-> "drive", start |-> x.current.start, end |-> x.park]}
          BY <1>5, <1>7, DriveAdded DEF Driving
        <5>2. y.current.start = x.park /\ Over(y) = Over(x) \cup Added(a, x.park)
          BY <1>5, <2>1, <2>4, <4>2 DEF Drove
        <5> QED
          BY <1>5, <3>2, <3>3, <5>1, <5>2 DEF Stops
      <4> QED
        BY <4>1, <4>2
    <3> QED
      BY <1>1, <1>7, <3>1, <3>4 DEF Shifts
  <2> QED
    BY <2>3, <2>4
<1>8. CASE x.link = "up" /\ ~Driving(x)
  <2>1. x.current.kind \in {"idle", "charge"}
    BY <1>8 DEF Base, Linked, Driving
  <2>2. Stood(a, y, ts, g)
    BY <1>3, <1>5, <1>8, <2>1, EvalStandingIs DEF y
  <2>3. y.link = "up" /\ y.gear = a.gear
    BY <1>5, <1>8, <2>2 DEF Stood, Alike
  <2>4. Moves(a, ts, g) => y.gear = "moving" /\ y.park = Never
    BY <2>2, <2>3 DEF Stood, Moves
  <2>5. ~Moves(a, ts, g) => ~Driving(y)
    BY <1>5, <2>1, <2>2 DEF Stood, Driving
  <2> QED
    BY <1>1, <1>8, <2>3, <2>4, <2>5 DEF Shifts
<1> QED
  BY <1>4, <1>6, <1>7, <1>8

LEMMA FeedShifts ==
    ASSUME NEW x, NEW t \in Nat, NEW ts \in Nat, t < ts, Base(x, t), Settled(x), Sharp(x, ts - 1),
           NEW g \in Reports, Meets(x, g), g = Rows[ts]
    PROVE  LET y == Feed(x, ts, g)
           IN  Shifts(x, y) /\ (Driving(x) /\ ~Driving(y) => Stops(x, y, ts))
<1> DEFINE y == Feed(x, ts, g)
<1>1. x \in Builders /\ g.links \in {{}, {"connect"}, {"disconnect"}}
  BY ReportIs DEF Base
<1>2. CASE g.links = {}
  BY <1>2, RowShifts
<1>3. CASE g.links = {"connect"}
  <2>1. /\ x.link # "up" /\ x.gear = "unknown" /\ x.charge = "unknown"
        /\ x.pending = Never /\ x.current.kind \in {"none", "drive", "offline"}
    BY <1>1, <1>3 DEF Base, Linked, Marked, Meets, NoSession, Builders
  <2>2. Woke(x, y, ts)
    BY <1>1, <1>3, <2>1, FeedConnectIs
  <2> HIDE DEF y
  <2>3. y.gear = "unknown"
    BY <2>1, <2>2 DEF Woke
  <2>4. ~Driving(x) => ~Driving(y)
    BY <2>2 DEF Woke, Driving
  <2>5. Driving(x) /\ ~Driving(y) => y.current.start = ts
    BY <2>2 DEF Woke, Driving
  <2> QED
    BY <2>3, <2>4, <2>5 DEF Shifts, Stops, y
<1>4. CASE g.links = {"disconnect"}
  <2> DEFINE e == Evaluate(x, ts, g)
  <2>1. x.link # "down"
    BY <1>4 DEF Meets
  <2>2. Slept(e, y, ts)
    BY <1>1, <1>4, <2>1, FeedDisconnectIs
  <2>3. ~Driving(x) => ~Driving(e)
    BY <1>4, <2>1, LastLook
  <2> HIDE DEF e, y
  <2>4. y.gear = "unknown" /\ (Driving(y) => Driving(e))
    BY <2>2 DEF Slept, Driving
  <2>5. ~Driving(y) => y.current.start = ts
    BY <2>2 DEF Slept, Driving
  <2> QED
    BY <2>3, <2>4, <2>5 DEF Shifts, Stops, y
<1> QED
  BY <1>1, <1>2, <1>3, <1>4
-----------------------------------------------------------------------------
(* What a builder keeps of what it had at d, whatever comes after d.       *)

\* The session in progress then is in progress still or in the list, and a session that
\* is new in the list ended after d.
Carries(x, y, d) ==
    /\ x.current = y.current \/ \E s \in Over(x) : s.start = y.current.start
    /\ Over(y) \subseteq Over(x)
    /\ \A s \in Over(x) : s \in Over(y) \/ s.end > d

\* No mark is as old as d.
Fresh(x, d) ==
    /\ x.pending = Never \/ x.pending > d
    /\ x.link = "up" => x.off = Never
    /\ Driving(x) => (x.park = Never \/ x.park > d) /\ (x.off = Never \/ x.off > d)

Outlives(x, y, d) == x \in Builders /\ Carries(x, y, d) /\ Fresh(x, d)

Lasting(y, d) == y.current # NoSession /\ y.current.start \in Nat /\ y.current.start <= d

LEMMA ClosesLate ==
    ASSUME NEW y, NEW d \in Nat, Lasting(y, d), NEW x \in Builders, Carries(x, y, d),
           NEW at \in Nat, at > d, NEW z, z \in Builders, Over(z) = Over(x) \cup Added(x, at)
    PROVE  Carries(z, y, d)
<1>1. \A s \in Added(x, at) : s.end > d
  BY AddedIs
<1>2. x.current = y.current => \E s \in Over(z) : s.start = y.current.start
  <2>1. SUFFICES ASSUME x.current = y.current PROVE Ending(x, at) \in Over(z) /\ Ending(x, at).start = y.current.start
    OBVIOUS
  <2>2. Kept(Ending(x, at)) /\ x.current # NoSession
    BY <2>1 DEF Lasting, Kept, Ending
  <2> QED
    BY <2>1, <2>2 DEF Added, Ending
<1> QED
  BY <1>1, <1>2 DEF Carries

LEMMA TurnCarries ==
    ASSUME NEW y, NEW d \in Nat, Lasting(y, d), NEW x \in Builders, Carries(x, y, d),
           NEW at \in Nat, at > d, NEW kind \in Kinds
    PROVE  LET z == Turn(x, kind, at)
           IN  /\ z \in Builders /\ Carries(z, y, d) /\ z.link = x.link /\ z.pending = x.pending
               /\ z.park = x.park /\ z.off = x.off /\ z.current.kind = kind
<1> DEFINE z == Turn(x, kind, at)
<1>1. /\ z \in Builders /\ z.current = [kind |-> kind, start |-> at]
      /\ z.link = x.link /\ z.pending = x.pending /\ z.park = x.park /\ z.off = x.off
      /\ Over(z) = Over(x) \cup Added(x, at)
  BY TurnIs
<1> HIDE DEF z
<1>2. Carries(z, y, d)
  BY <1>1, ClosesLate
<1> QED
  BY <1>1, <1>2 DEF z

LEMMA StepOutlives ==
    ASSUME NEW y, NEW d \in Nat, Lasting(y, d), NEW x, Outlives(x, y, d),
           NEW at \in Nat, at > d, NEW g
    PROVE  Outlives(Step(x, at, g), y, d)
<1>1. /\ x \in Builders /\ Carries(x, y, d) /\ Fresh(x, d)
      /\ x.pending \in Nat /\ x.park \in Nat /\ x.off \in Nat
      /\ {"idle", "drive", "charge", "offline"} \subseteq Kinds /\ Never \in Nat
  BY MarksType DEF Outlives, Kinds, Never
<1>2. ASSUME NEW z \in Builders, NEW r \in Builders, r.current = z.current, r.done = z.done,
             Carries(z, y, d)
      PROVE  Carries(r, y, d)
  BY <1>2 DEF Carries, Over
<1>3. CASE x.link # "up"
  <2> DEFINE c == Turn(x, "offline", x.off)
             z == [c EXCEPT !.off = Never]
  <2>1. CASE Driving(x) /\ x.off # Never /\ at - x.off >= OfflineEnd
    <3>1. Step(x, at, g) = z
      BY <1>3, <2>1 DEF Step, StepOffline
    <3>2. x.off > d
      BY <1>1, <2>1 DEF Fresh
    <3>3. /\ c \in Builders /\ Carries(c, y, d) /\ c.link = x.link /\ c.pending = x.pending
          /\ c.park = x.park /\ c.off = x.off /\ c.current.kind = "offline"
      BY <1>1, <3>2, TurnCarries
    <3> HIDE DEF c
    <3>4. /\ z \in Builders /\ z.current = c.current /\ z.done = c.done /\ z.link = c.link
          /\ z.pending = c.pending /\ z.park = c.park /\ z.off = Never
      BY <1>1, <3>3 DEF Builders
    <3> HIDE DEF z
    <3>5. Carries(z, y, d)
      BY <1>2, <3>3, <3>4
    <3>6. Fresh(z, d)
      BY <1>1, <3>3, <3>4 DEF Fresh, Driving
    <3> QED
      BY <3>1, <3>4, <3>5, <3>6 DEF Outlives
  <2>2. CASE ~(Driving(x) /\ x.off # Never /\ at - x.off >= OfflineEnd)
    <3>1. Step(x, at, g) = x
      BY <1>3, <2>2 DEF Step, StepOffline
    <3> QED
      BY <3>1
  <2> QED
    BY <2>1, <2>2
<1>4. CASE x.link = "up" /\ Driving(x)
  <2> DEFINE since == Since(x.park, at)
             c == Turn(x, "idle", since)
             z == [c EXCEPT !.park = Never]
             p == [x EXCEPT !.park = since]
             q == [x EXCEPT !.park = Never]
  <2>1. Step(x, at, g) \in {z, p, q, x}
    <3>1. Step(x, at, g) = StepDriving(x, at)
      BY <1>4 DEF Step
    <3>2. since \in Nat
      BY <1>1, MarksType
    <3> HIDE DEF since, z, p, q
    <3>3. (at - since >= ParkDwell) \/ (at - since < ParkDwell)
      BY <3>2, BuilderAssumption
    <3> QED
      BY <3>1, <3>3 DEF StepDriving, Since, since, z, p, q, c
  <2>2. since \in Nat /\ since > d
    BY <1>1, <1>4 DEF Fresh, Since
  <2>3. /\ c \in Builders /\ Carries(c, y, d) /\ c.link = x.link /\ c.pending = x.pending
        /\ c.park = x.park /\ c.off = x.off /\ c.current.kind = "idle"
    BY <1>1, <2>2, TurnCarries
  <2> HIDE DEF c, since
  <2>4. /\ z \in Builders /\ z.current = c.current /\ z.done = c.done /\ z.link = c.link
        /\ z.pending = c.pending /\ z.off = c.off
    BY <1>1, <2>3 DEF Builders
  <2>5. /\ p \in Builders /\ p.current = x.current /\ p.done = x.done /\ p.link = x.link
        /\ p.pending = x.pending /\ p.off = x.off /\ p.park = since
    BY <1>1, <2>2 DEF Builders
  <2>6. /\ q \in Builders /\ q.current = x.current /\ q.done = x.done /\ q.link = x.link
        /\ q.pending = x.pending /\ q.off = x.off /\ q.park = Never
    BY <1>1 DEF Builders
  <2> HIDE DEF z, p, q
  <2>7. Carries(z, y, d) /\ Carries(p, y, d) /\ Carries(q, y, d)
    BY <1>1, <1>2, <2>3, <2>4, <2>5, <2>6
  <2>8. Fresh(z, d) /\ Fresh(p, d) /\ Fresh(q, d)
    BY <1>1, <2>2, <2>3, <2>4, <2>5, <2>6 DEF Fresh, Driving
  <2> QED
    BY <2>1, <2>4, <2>5, <2>6, <2>7, <2>8 DEF Outlives
<1>5. CASE x.link = "up" /\ ~Driving(x)
  <2> DEFINE since == Since(x.pending, at)
             c == Turn(x, "drive", since)
             z == [c EXCEPT !.pending = Never, !.park = Never]
             p == [x EXCEPT !.pending = DriveMark(x, at)]
  <2>1. Step(x, at, g) \in {z, Turn(p, "charge", at), Turn(p, "idle", at), p}
    BY <1>5 DEF Step, StepStanding, Since, DriveMark
  <2>2. since \in Nat /\ since > d /\ DriveMark(x, at) \in Nat
        /\ (DriveMark(x, at) = Never \/ DriveMark(x, at) > d)
    BY <1>1, MarksType DEF Fresh, Since, DriveMark
  <2>3. /\ c \in Builders /\ Carries(c, y, d) /\ c.link = x.link /\ c.off = x.off
    BY <1>1, <2>2, TurnCarries
  <2> HIDE DEF c, since
  <2>4. /\ z \in Builders /\ z.current = c.current /\ z.done = c.done /\ z.link = c.link
        /\ z.pending = Never /\ z.park = Never /\ z.off = c.off
    BY <1>1, <2>3 DEF Builders
  <2>5. /\ p \in Builders /\ p.current = x.current /\ p.done = x.done /\ p.link = x.link
        /\ p.pending = DriveMark(x, at) /\ p.off = x.off
    BY <1>1, <2>2 DEF Builders
  <2> HIDE DEF z, p
  <2>6. Carries(z, y, d) /\ Carries(p, y, d)
    BY <1>1, <1>2, <2>3, <2>4, <2>5
  <2>7. Fresh(z, d) /\ Fresh(p, d)
    BY <1>1, <1>5, <2>2, <2>3, <2>4, <2>5 DEF Fresh, Driving
  <2>8. ASSUME NEW kind \in {"charge", "idle"}
        PROVE  Outlives(Turn(p, kind, at), y, d)
    <3> DEFINE r == Turn(p, kind, at)
    <3>1. /\ r \in Builders /\ Carries(r, y, d) /\ r.link = p.link /\ r.pending = p.pending
          /\ r.off = p.off /\ r.current.kind = kind
      BY <1>1, <2>5, <2>6, TurnCarries
    <3> HIDE DEF r
    <3>2. Fresh(r, d)
      BY <2>7, <3>1 DEF Fresh, Driving
    <3> QED
      BY <3>1, <3>2 DEF Outlives, r
  <2> QED
    BY <2>1, <2>4, <2>5, <2>6, <2>7, <2>8 DEF Outlives
<1> QED
  BY <1>3, <1>4, <1>5

LEMMA EvaluateOutlives ==
    ASSUME NEW y, NEW d \in Nat, Lasting(y, d), NEW x, Outlives(x, y, d),
           NEW at \in Nat, at > d, NEW g
    PROVE  Outlives(Evaluate(x, at, g), y, d)
<1>1. \A r : Outlives(r.b, y, d) => Outlives(StepAgain(r, at, g).b, y, d)
  BY StepOutlives DEF StepAgain
<1> DEFINE zero  == [b |-> x, settled |-> FALSE]
           one   == StepAgain(zero, at, g)
           two   == StepAgain(one, at, g)
           three == StepAgain(two, at, g)
           four  == StepAgain(three, at, g)
<1>2. Outlives(zero.b, y, d)
  OBVIOUS
<1>3. Evaluate(x, at, g) = four.b
  BY EvaluateIs
<1> HIDE DEF zero, one, two, three, four
<1>4. Outlives(one.b, y, d)
  BY <1>1, <1>2 DEF one
<1>5. Outlives(two.b, y, d)
  BY <1>1, <1>4 DEF two
<1>6. Outlives(three.b, y, d)
  BY <1>1, <1>5 DEF three
<1>7. Outlives(four.b, y, d)
  BY <1>1, <1>6 DEF four
<1> QED
  BY <1>3, <1>7

LEMMA ConnectOutlives ==
    ASSUME NEW y, NEW d \in Nat, Lasting(y, d), NEW x, Outlives(x, y, d),
           NEW ts \in Nat, ts > d
    PROVE  Outlives(Connect(x, ts), y, d)
<1> DEFINE up == [x EXCEPT !.link = "up", !.off = Never]
           woken == IF up.current.kind = "offline" THEN Close(up, ts) ELSE up
           cut == Turn(up, "offline", x.off)
           after == Turn(cut, "idle", ts)
           open == Open(woken, "idle", ts)
<1>1. /\ x \in Builders /\ Carries(x, y, d) /\ Fresh(x, d)
      /\ x.pending \in Nat /\ x.park \in Nat /\ x.off \in Nat
      /\ {"idle", "offline"} \subseteq Kinds /\ Never \in Nat
  BY MarksType DEF Outlives, Kinds, Never
<1>2. Connect(x, ts) \in {x, up, woken} \/ (Connect(x, ts) = after /\ Driving(x) /\ x.off # Never)
      \/ (Connect(x, ts) = open /\ woken.current = NoSession)
  BY DEF Connect
<1>3. /\ up \in Builders /\ up.current = x.current /\ up.done = x.done /\ up.link = "up"
      /\ up.pending = x.pending /\ up.park = x.park /\ up.off = Never
  BY <1>1 DEF Builders
<1> HIDE DEF up
<1>4. Carries(up, y, d)
  BY <1>1, <1>3 DEF Carries, Over
<1>5. Outlives(up, y, d)
  BY <1>1, <1>3, <1>4 DEF Outlives, Fresh, Driving
<1>6. Outlives(woken, y, d)
  <2>1. CASE up.current.kind = "offline"
    <3> DEFINE c == Close(up, ts)
    <3>1. /\ c \in Builders /\ c.current = NoSession /\ c.link = up.link /\ c.pending = up.pending
          /\ c.park = up.park /\ c.off = up.off /\ Over(c) = Over(up) \cup Added(up, ts)
      BY <1>3, CloseIs
    <3> HIDE DEF c
    <3>2. Carries(c, y, d)
      BY <1>3, <1>4, <3>1, ClosesLate
    <3>3. Fresh(c, d)
      BY <1>5, <3>1 DEF Fresh, Driving, NoSession, Outlives
    <3> QED
      BY <2>1, <3>1, <3>2, <3>3 DEF Outlives, c
  <2>2. CASE up.current.kind # "offline"
    BY <1>5, <2>2
  <2> QED
    BY <2>1, <2>2
<1> HIDE DEF woken
<1>7. woken.current = NoSession => Outlives(open, y, d)
  <2>1. SUFFICES ASSUME woken.current = NoSession PROVE Outlives(open, y, d)
    OBVIOUS
  <2>2. /\ open \in Builders /\ open.current = [kind |-> "idle", start |-> ts] /\ open.done = woken.done
        /\ open.link = woken.link /\ open.pending = woken.pending /\ open.off = woken.off
    BY <1>1, <1>6 DEF Open, Builders, Outlives
  <2> HIDE DEF open
  <2>3. Carries(open, y, d)
    BY <1>6, <2>1, <2>2 DEF Carries, Over, Outlives, Lasting
  <2>4. Fresh(open, d)
    BY <1>6, <2>2 DEF Fresh, Driving, Outlives
  <2> QED
    BY <2>2, <2>3, <2>4 DEF Outlives
<1>8. Driving(x) /\ x.off # Never => Outlives(after, y, d)
  <2>1. SUFFICES ASSUME Driving(x), x.off # Never PROVE Outlives(after, y, d)
    OBVIOUS
  <2>2. x.off > d
    BY <1>1, <2>1 DEF Fresh
  <2>3. /\ cut \in Builders /\ Carries(cut, y, d) /\ cut.link = up.link /\ cut.pending = up.pending
        /\ cut.off = up.off
    BY <1>1, <1>3, <1>4, <2>2, TurnCarries
  <2> HIDE DEF cut
  <2>4. /\ after \in Builders /\ Carries(after, y, d) /\ after.link = cut.link
        /\ after.pending = cut.pending /\ after.off = cut.off /\ after.current.kind = "idle"
    BY <1>1, <2>3, TurnCarries
  <2> HIDE DEF after
  <2>5. Fresh(after, d)
    BY <1>1, <1>3, <2>3, <2>4 DEF Fresh, Driving
  <2> QED
    BY <2>4, <2>5 DEF Outlives
<1> HIDE DEF open, after
<1> QED
  BY <1>2, <1>5, <1>6, <1>7, <1>8

LEMMA DisconnectOutlives ==
    ASSUME NEW y, NEW d \in Nat, Lasting(y, d), NEW x, Outlives(x, y, d),
           NEW ts \in Nat, ts > d
    PROVE  Outlives(Disconnect(x, ts), y, d)
<1> DEFINE parked == IF Driving(x) /\ x.park # Never THEN Turn(x, "idle", x.park) ELSE x
           down == [parked EXCEPT !.link = "down", !.pending = Never, !.park = Never,
                                  !.gear = "unknown", !.charge = "unknown"]
           gone == [down EXCEPT !.off = ts]
           cut == Turn(down, "offline", ts)
<1>1. /\ x \in Builders /\ Carries(x, y, d) /\ Fresh(x, d)
      /\ x.pending \in Nat /\ x.park \in Nat /\ x.off \in Nat
      /\ {"idle", "offline"} \subseteq Kinds /\ Never \in Nat
  BY MarksType DEF Outlives, Kinds, Never
<1>2. Disconnect(x, ts) \in {x, gone, cut}
  BY DEF Disconnect
<1>3. parked \in Builders /\ Carries(parked, y, d)
  <2>1. CASE Driving(x) /\ x.park # Never
    <3>1. x.park > d
      BY <1>1, <2>1 DEF Fresh
    <3>2. Turn(x, "idle", x.park) \in Builders /\ Carries(Turn(x, "idle", x.park), y, d)
      BY <1>1, <3>1, TurnCarries
    <3> QED
      BY <2>1, <3>2
  <2>2. CASE ~(Driving(x) /\ x.park # Never)
    BY <1>1, <2>2
  <2> QED
    BY <2>1, <2>2
<1> HIDE DEF parked
<1>4. /\ down \in Builders /\ down.current = parked.current /\ down.done = parked.done
      /\ down.link = "down" /\ down.pending = Never /\ down.park = Never
  BY <1>1, <1>3 DEF Builders
<1> HIDE DEF down
<1>5. Carries(down, y, d)
  BY <1>3, <1>4 DEF Carries, Over
<1>6. Outlives(gone, y, d)
  <2>1. /\ gone \in Builders /\ gone.current = down.current /\ gone.done = down.done
        /\ gone.link = "down" /\ gone.pending = Never /\ gone.park = Never /\ gone.off = ts
    BY <1>4 DEF Builders
  <2> HIDE DEF gone
  <2>2. Carries(gone, y, d)
    BY <1>5, <2>1 DEF Carries, Over
  <2> QED
    BY <2>1, <2>2 DEF Outlives, Fresh
<1>7. Outlives(cut, y, d)
  <2>1. /\ cut \in Builders /\ Carries(cut, y, d) /\ cut.link = down.link
        /\ cut.pending = down.pending /\ cut.current.kind = "offline"
    BY <1>1, <1>4, <1>5, TurnCarries
  <2> HIDE DEF cut
  <2> QED
    BY <1>4, <2>1 DEF Outlives, Fresh, Driving
<1> QED
  BY <1>2, <1>6, <1>7

LEMMA FeedOutlives ==
    ASSUME NEW y, NEW d \in Nat, Lasting(y, d), NEW x, Outlives(x, y, d),
           NEW ts \in Nat, ts > d, NEW g \in Reports
    PROVE  Outlives(Feed(x, ts, g), y, d)
<1>1. x \in Builders /\ g.links \in {{}, {"connect"}, {"disconnect"}}
  BY ReportIs DEF Outlives
<1>2. CASE g.links = {}
  <2> DEFINE a == Apply(x, g)
  <2>1. Applied(x, a, g)
    BY <1>1, ApplyIs
  <2>2. Feed(x, ts, g) = Evaluate(a, ts, g)
    BY <1>1, <1>2, FeedRow
  <2> HIDE DEF a
  <2>3. Outlives(a, y, d)
    BY <2>1 DEF Applied, Outlives, Carries, Fresh, Driving
  <2> QED
    BY <2>2, <2>3, EvaluateOutlives
<1>3. CASE g.links = {"connect"}
  <2>1. Feed(x, ts, g) = Evaluate(Connect(x, ts), ts, g)
    BY <1>1, <1>3, FeedRow
  <2>2. Outlives(Connect(x, ts), y, d)
    BY ConnectOutlives
  <2> QED
    BY <2>1, <2>2, EvaluateOutlives
<1>4. CASE g.links = {"disconnect"}
  <2>1. Feed(x, ts, g) = Evaluate(Disconnect(Evaluate(x, ts, g), ts), ts, g)
    BY <1>1, <1>4, FeedRow
  <2>2. Outlives(Disconnect(Evaluate(x, ts, g), ts), y, d)
    BY EvaluateOutlives, DisconnectOutlives
  <2> QED
    BY <2>1, <2>2, EvaluateOutlives
<1> QED
  BY <1>1, <1>2, <1>3, <1>4
-----------------------------------------------------------------------------
(* A session of no length in the table.                                    *)

\* The evaluation of finalize makes no other empty session.
LEMMA FinalEmpties ==
    ASSUME NEW x, NEW t \in Nat, Base(x, t), Settled(x), Sharp(x, t), NEW g \in Reports
    PROVE  Empties(Over(Evaluate(x, t, g)))
<1> DEFINE e == Evaluate(x, t, g)
<1>1. /\ ~g.reset /\ x \in Builders /\ x.pending \in Nat /\ x.park \in Nat /\ x.off \in Nat
      /\ x.current.start \in Nat /\ Empties(Over(x))
  BY ReportIs, MarksType DEF Base, Sharp
<1>2. ASSUME NEW end \in Nat, x.current.start < end
      PROVE  Empties(Over(x) \cup Added(x, end))
  <2>1. \A s \in Added(x, end) : s.start # s.end
    BY <1>1, <1>2, AddedIs
  <2> QED
    BY <1>1, <2>1 DEF Empties
<1>3. CASE x.link # "up"
  <2>1. /\ Long(x, t) => Over(e) = Over(x) \cup Added(x, x.off)
        /\ ~Long(x, t) => e = x
    BY <1>1, <1>3, EvalOfflineIs
  <2> HIDE DEF e
  <2>2. Long(x, t) => x.current.start < x.off
    BY DEF Long, Base, Marked
  <2>3. Empties(Over(e))
    BY <1>1, <1>2, <2>1, <2>2
  <2> QED
    BY <2>3 DEF e
<1>4. CASE x.link = "up" /\ Driving(x)
  <2>1. Drove(x, e, t)
    BY <1>1, <1>4, EvalDrivingIs
  <2> HIDE DEF e
  <2>2. CASE ~Parked(x, t)
    BY <1>1, <2>1, <2>2 DEF Drove, e
  <2>3. CASE Parked(x, t)
    <3>1. x.current.start < x.park /\ x.park < t
      BY <1>4, <2>1, <2>3 DEF Parked, Base, Marked, Drove
    <3>2. Empties(Over(x) \cup Added(x, x.park))
      BY <1>1, <1>2, <3>1
    <3>3. Empties({[kind |-> "idle", start |-> x.park, end |-> t]})
      BY <1>1, <3>1 DEF Empties
    <3>4. Over(e) \subseteq Over(x) \cup Added(x, x.park)
                           \cup {[kind |-> "idle", start |-> x.park, end |-> t]}
      BY <2>1, <2>3 DEF Drove
    <3>5. Empties(Over(e))
      BY <3>2, <3>3, <3>4 DEF Empties
    <3> QED
      BY <3>5 DEF e
  <2> QED
    BY <2>2, <2>3
<1>5. CASE x.link = "up" /\ ~Driving(x)
  <2>1. x.current.kind \in {"idle", "charge"}
    BY <1>5 DEF Base, Linked, Driving
  <2>2. Stood(x, e, t, g)
    BY <1>1, <1>5, <2>1, EvalStandingIs
  <2> HIDE DEF e
  <2>3. CASE Moves(x, t, g)
    <3>1. x.pending # Never /\ Since(x.pending, t) = x.pending
      <4>1. x.pending # Never
        BY <2>3, BuilderAssumption DEF Moves, Since
      <4> QED
        BY <4>1 DEF Since
    <3>2. Over(e) = Over(x) \cup Added(x, x.pending)
      BY <2>2, <2>3, <3>1 DEF Stood
    <3>3. \A s \in Added(x, x.pending) : s.start # s.end
      <4>1. TAKE s \in Added(x, x.pending)
      <4>2. /\ s.kind = x.current.kind /\ s.start = x.current.start /\ s.end = x.pending
            /\ s.start < x.pending \/ s.kind = "charge"
        BY <1>1, <2>1, AddedIs
      <4>3. x.current.kind = "charge" => x.pending # x.current.start
        BY <3>1 DEF Sharp
      <4> QED
        BY <1>1, <4>2, <4>3
    <3>4. Empties(Over(e))
      BY <1>1, <3>2, <3>3 DEF Empties
    <3> QED
      BY <3>4 DEF e
  <2>4. CASE ~Moves(x, t, g)
    <3>1. /\ ~(x.current.kind = "charge" /\ x.charge = "ended")
          /\ ~(x.current.kind = "idle" /\ x.charge = "charging")
      BY <1>5 DEF Settled, Sharp
    <3>2. Over(e) = Over(x)
      BY <2>2, <2>4, <3>1 DEF Stood
    <3> QED
      BY <1>1, <3>2 DEF e
  <2> QED
    BY <2>3, <2>4
<1> QED
  BY <1>1, <1>3, <1>4, <1>5

\* A session of no length was opened and closed by a disconnect.
Cuts ==
    \A s \in sessions : s.start = s.end /\ s.start \in 1..MaxTime =>
        log[s.start].links = {"disconnect"}

\* finalize, with the builder after its evaluation at the end.
Final(from) == Evaluate(Fed(Rows, from, now), now, Rows[Max(With(Rows, from, now))])

Rest(y) == IF y.current = NoSession THEN {}
           ELSE {[kind |-> y.current.kind, start |-> y.current.start, end |-> Running]}

LEMMA LastRow ==
    ASSUME Inv, Fits, NEW from \in Nat \ {0}, With(Rows, from, now) # {}
    PROVE  /\ Max(With(Rows, from, now)) \in from..now
           /\ Rows[Max(With(Rows, from, now))] \in Reports
           /\ \A u \in With(Rows, from, now) : u <= Max(With(Rows, from, now))
           /\ from <= now
<1> DEFINE with == With(Rows, from, now)
           last == Max(with)
<1>1. now \in Nat /\ now \in Int /\ now \in 1..MaxTime
  BY RebuildAssumption DEF Inv
<1>2. with # {} /\ with \subseteq Int /\ \A u \in with : u <= now
  BY <1>1 DEF With
<1> HIDE DEF with
<1>3. last \in with /\ \A u \in with : u <= last
  <2>1. Max(with) \in with /\ \A u \in with : u <= Max(with)
    BY <1>1, <1>2, MaxIs
  <2> QED
    BY <2>1
<1>4. last \in from..now /\ Rows[last] # Nothing
  BY <1>3 DEF with, With
<1> HIDE DEF last
<1>5. last \in 1..MaxTime
  BY <1>1, <1>4, RebuildAssumption
<1>6. Rows[last] \in Reports
  BY <1>4, <1>5 DEF Rows, Inv, Logs
<1>7. from <= now
  BY <1>1, <1>4
<1> QED
  BY <1>3, <1>4, <1>6, <1>7 DEF last, with

LEMMA FinalIs ==
    ASSUME Inv, Fits, NEW from \in Nat \ {0}, With(Rows, from, now) # {}
    PROVE  /\ Final(from) \in Builders
           /\ Finalized(Rows, from, now) = Over(Final(from)) \cup Rest(Final(from))
           /\ Empties(Over(Final(from)))
<1> DEFINE x == Fed(Rows, from, now)
           g == Rows[Max(With(Rows, from, now))]
           y == Evaluate(x, now, g)
<1>1. g \in Reports /\ from <= now
  BY LastRow
<1>2. now \in Nat /\ now \in 0..MaxTime /\ from - 1 <= now
  BY <1>1, RebuildAssumption DEF Inv
<1>3. Sees(from, now)
  BY <1>2, SeesAll DEF Inv, Fits
<1>4. Base(x, now) /\ Settled(x) /\ Sharp(x, now) /\ x \in Builders
  BY <1>3 DEF Sees, Reads, Base
<1>5. Finalized(Rows, from, now) = Over(y) \cup Rest(y)
  BY DEF Finalized, Over, Rest
<1> HIDE DEF x, g
<1>6. Empties(Over(y)) /\ y \in Builders
  BY <1>1, <1>2, <1>4, FinalEmpties, EvaluateType
<1> QED
  BY <1>5, <1>6 DEF Final, x, g

LEMMA InitCuts == Init => Cuts
<1> SUFFICES ASSUME Init, NEW s \in sessions PROVE s.start # s.end
  BY DEF Cuts
<1> QED
  BY DEF Init, Imported

LEMMA NextCuts == Inv /\ Fits /\ Cuts /\ [Next]_vars => Cuts'
<1> SUFFICES ASSUME Inv, Fits, Cuts, [Next]_vars PROVE Cuts'
  OBVIOUS
<1>1. ASSUME NEW g, Report(g) PROVE Cuts'
  <2>1. /\ log \in Logs /\ log[now] = Nothing /\ sessions' = sessions /\ now \in 1..MaxTime
        /\ log' = [log EXCEPT ![now] = g]
    BY <1>1 DEF Report, Inv
  <2>2. Nothing.links # {"disconnect"}
    BY DEF Nothing, Silent
  <2>3. \A u \in 1..MaxTime : u # now => log'[u] = log[u]
    BY <2>1 DEF Logs
  <2> QED
    BY <2>1, <2>2, <2>3 DEF Cuts
<1>2. CASE Rebuild
  <2> DEFINE built == Finalized(Rows, From, now)
  <2>1. CASE With(Rows, From, now) = {}
    BY <1>2, <2>1 DEF Rebuild, Cuts
  <2>2. CASE With(Rows, From, now) # {}
    <3>1. /\ built = Over(Final(From)) \cup Rest(Final(From))
          /\ Empties(Over(Final(From))) /\ Final(From) \in Builders
      BY <2>2, FromIs, FinalIs
    <3>2. \A s \in Rest(Final(From)) : s.end = Running
      BY DEF Rest
    <3>3. \A s \in built : s.start = s.end /\ s.start \in 1..MaxTime =>
              Rows[s.start].links = {"disconnect"}
      BY <3>1, <3>2, RebuildAssumption DEF Running, Empties
    <3>4. \A u \in 1..MaxTime : Rows[u].links = {"disconnect"} => log[u].links = {"disconnect"}
      BY DEF Rows, Nothing, Silent
    <3> HIDE DEF built
    <3>5. \A s \in sessions' : s \in sessions \/ s \in built
      BY <1>2, <2>2 DEF Rebuild, built
    <3>6. log' = log
      BY <1>2 DEF Rebuild
    <3> QED
      BY <3>3, <3>4, <3>5, <3>6 DEF Cuts
  <2> QED
    BY <2>1, <2>2
<1>3. CASE UNCHANGED <<log, sessions>>
  BY <1>3 DEF Cuts
<1>4. Arrive \/ Tick \/ UNCHANGED vars => UNCHANGED <<log, sessions>>
  BY DEF Arrive, Tick, vars
<1> QED
  BY <1>1, <1>2, <1>3, <1>4 DEF Next
-----------------------------------------------------------------------------
(* A drive that the window does not see begin is over before the anchor.   *)

Before(list) == {s \in list : s.start < Anchor}

\* The rebuild starts from a table that is right before the anchor, and reads the change
\* of the link at t.
Rolls(t) ==
    /\ Inv /\ Fits /\ Cuts
    /\ t \in From..now /\ Recovers(Whole, t)
    /\ Before(sessions) \ Imported = Before(Whole)

LEMMA AnchorEnds ==
    ASSUME Inv, Finished # {}
    PROVE  \E s \in Finished : s.end = Anchor
<1> DEFINE S == {s.end : s \in Finished}
<1>1. \A s \in Finished : s.end \in Int /\ s.end <= now - Window
  BY DEF Inv, Finished, Closed, Timed
<1>2. now - Window \in Int
  BY RebuildAssumption DEF Inv
<1>3. S # {} /\ S \subseteq Int /\ \A x \in S : x <= now - Window
  BY <1>1
<1>4. Anchor = Max(S)
  BY DEF Anchor
<1> HIDE DEF S
<1>5. Max(S) \in S
  BY <1>2, <1>3, MaxIs
<1> QED
  BY <1>4, <1>5 DEF S

LEMMA OutlivesAll ==
    ASSUME Inv, Fits, NEW d \in 1..now, NEW y, Lasting(y, d), Outlives(Fed(Rows, 1, d), y, d)
    PROVE  Outlives(Fed(Rows, 1, now), y, d)
<1> DEFINE Good == {n \in Nat : n <= now - d => Outlives(Fed(Rows, 1, d + n), y, d)}
<1>1. 0 \in Good
  OBVIOUS
<1>2. ASSUME NEW n \in Nat, n \in Good
      PROVE  n + 1 \in Good
  <2> DEFINE u == d + (n + 1)
  <2>1. SUFFICES ASSUME n + 1 <= now - d PROVE Outlives(Fed(Rows, 1, u), y, d)
    OBVIOUS
  <2>2. u \in Nat /\ 1 <= u /\ u \in 1..MaxTime /\ u - 1 = d + n /\ u > d /\ d \in Nat
    BY <2>1, RebuildAssumption DEF Inv
  <2>3. Outlives(Fed(Rows, 1, u - 1), y, d)
    BY <1>2, <2>1, <2>2, RebuildAssumption DEF Inv
  <2> HIDE DEF u
  <2>4. Fed(Rows, 1, u) = FedOne(Rows, Fed(Rows, 1, u - 1), u)
    BY <2>2, FedNext
  <2>5. Rows[u] # Nothing => Rows[u] \in Reports
    BY <2>2 DEF Rows, Inv, Logs
  <2>6. Rows[u] \in Reports => Outlives(Feed(Fed(Rows, 1, u - 1), u, Rows[u]), y, d)
    BY <2>2, <2>3, FeedOutlives
  <2> QED
    BY <2>3, <2>4, <2>5, <2>6 DEF FedOne
<1>3. now - d \in Nat
  BY RebuildAssumption DEF Inv
<1> HIDE DEF Good
<1>4. now - d \in Good
  BY <1>1, <1>2, <1>3, Reaches
<1> QED
  BY <1>4, RebuildAssumption DEF Good, Inv

\* A drive that ends is followed by a session, of the list or in progress.
LEMMA Follow ==
    ASSUME Inv, Fits, NEW d \in 1..now, d < now,
           Driving(Fed(Rows, 1, d - 1)), ~Driving(Fed(Rows, 1, d))
    PROVE  LET x == Fed(Rows, 1, d - 1)
               y == Fed(Rows, 1, d)
           IN  /\ x \in Builders /\ Stops(x, y, d)
               /\ Lasting(y, d) /\ Carries(Final(1), y, d)
<1> DEFINE x == Fed(Rows, 1, d - 1)
           y == Fed(Rows, 1, d)
           g == Rows[d]
<1>1. d \in Nat /\ d - 1 \in Nat /\ d - 1 < d /\ 1 <= d /\ d \in 1..MaxTime /\ now \in Nat
      /\ d \in 0..MaxTime /\ d - 1 \in 0..MaxTime /\ now \in 1..MaxTime
  BY RebuildAssumption DEF Inv
<1>2. Sees(1, d - 1) /\ Sees(1, d)
  <2>1. 1 \in Nat \ {0} /\ 1 - 1 <= d - 1 /\ 1 - 1 <= d
    BY <1>1
  <2> QED
    BY <1>1, <2>1, SeesAll DEF Inv, Fits
<1>3. g # Nothing
  <2>1. y = FedOne(Rows, x, d)
    BY <1>1, FedNext
  <2> QED
    BY <2>1 DEF FedOne
<1>4. /\ g \in Reports /\ Meets(x, g) /\ y = Feed(x, d, g)
  BY <1>1, <1>2, <1>3, RowRead DEF Inv, Fits
<1>5. /\ Base(x, d - 1) /\ Settled(x) /\ Sharp(x, d - 1) /\ x \in Builders
      /\ Base(y, d) /\ Settled(y) /\ y \in Builders
  BY <1>2 DEF Sees, Reads, Base
<1>6. Shifts(x, Feed(x, d, g)) /\ (Driving(x) /\ ~Driving(Feed(x, d, g)) => Stops(x, Feed(x, d, g), d))
  BY <1>1, <1>4, <1>5, FeedShifts
<1>7. Took(Feed(x, d, g), x, g) /\ g.links \in {{}, {"connect"}, {"disconnect"}}
  BY <1>1, <1>4, <1>5, FeedIs, ReportIs
<1>8. Driving(x) /\ ~Driving(y)
  OBVIOUS
<1> HIDE DEF x, y, g
<1>9. Shifts(x, y) /\ Stops(x, y, d) /\ Took(y, x, g)
  BY <1>4, <1>6, <1>7, <1>8
<1>10. y.link # "unknown"
  <2>1. x.link # "unknown"
    BY <1>5, <1>8 DEF Base, Linked, Driving, NoSession
  <2> QED
    BY <1>7, <1>9, <2>1 DEF Took
<1>11. y.current # NoSession /\ y.current.start \in Nat /\ y.current.start <= d
  <2>1. y.current # NoSession
    BY <1>5, <1>10 DEF Base, Linked, Builders, NoSession
  <2> QED
    BY <1>1, <1>5, <2>1, MarksType DEF Base, Listed
<1>12. Lasting(y, d)
  BY <1>11 DEF Lasting
<1>13. y.pending = Never
  BY <1>5, <1>8, <1>9 DEF Shifts, Settled
<1>14. Outlives(y, y, d)
  BY <1>5, <1>8, <1>13 DEF Outlives, Carries, Fresh, Base, Linked
<1>15. Outlives(Fed(Rows, 1, now), y, d)
  BY <1>12, <1>14, OutlivesAll DEF y
<1>16. Outlives(Final(1), y, d)
  BY <1>1, <1>12, <1>15, EvaluateOutlives DEF Final
<1> QED
  BY <1>5, <1>9, <1>12, <1>16 DEF Outlives, x, y

LEMMA EndsBefore ==
    ASSUME NEW t, Rolls(t), NEW d \in 1..(t - 1),
           Driving(Fed(Rows, 1, d - 1)), ~Driving(Fed(Rows, 1, d))
    PROVE  d < Anchor
<1> DEFINE x == Fed(Rows, 1, d - 1)
           y == Fed(Rows, 1, d)
           z == Final(1)
<1>1. Inv /\ Fits /\ Cuts /\ Anchor \in Int /\ now \in 1..MaxTime /\ From \in Nat \ {0}
  BY AnchorIs, FromIs DEF Rolls, Inv
<1>2. t \in Nat /\ t <= now /\ d \in Nat /\ d < now /\ d < t /\ d \in 1..now /\ now < Running
      /\ now \in Nat /\ now <= MaxTime /\ Running \in Nat
  BY <1>1, RebuildAssumption DEF Rolls, Running
<1>3. x \in Builders /\ Stops(x, y, d) /\ Lasting(y, d) /\ Carries(z, y, d)
  BY <1>1, <1>2, Follow
<1>4. Whole = Over(z) \cup Rest(z)
  <2>1. With(Rows, 1, now) # {}
    <3>1. t \in 1..now /\ Rows[t] # Nothing
      BY <1>1, <1>2 DEF Rolls, Recovers, Nothing, Silent
    <3> QED
      BY <3>1 DEF With
  <2>2. 1 \in Nat \ {0}
    OBVIOUS
  <2> QED
    BY <1>1, <2>1, <2>2, FinalIs DEF Whole
<1> HIDE DEF x, y, z
<1>5. y.current.start < Anchor
  <2>1. \E s \in Whole : s.start = y.current.start
    <3>1. CASE z.current = y.current
      <4> DEFINE open == [kind |-> z.current.kind, start |-> z.current.start, end |-> Running]
      <4>1. open \in Whole
        BY <1>3, <1>4, <3>1 DEF Lasting, Rest
      <4>2. open.start = y.current.start
        BY <3>1
      <4> QED
        BY <4>1, <4>2
    <3>2. CASE \E s \in Over(z) : s.start = y.current.start
      BY <1>4, <3>2
    <3> QED
      BY <1>3, <3>1, <3>2 DEF Carries
  <2>2. \A s \in Whole : s.start < Anchor \/ s.start >= t
    BY DEF Rolls, Recovers
  <2>3. y.current.start \in Nat /\ y.current.start <= d
    BY <1>3 DEF Lasting
  <2> QED
    BY <1>1, <1>2, <2>1, <2>2, <2>3
<1>6. CASE y.current.start = d
  BY <1>5, <1>6
<1>7. CASE y.current.start # d
  <2> DEFINE p == x.park
             drive == [kind |-> "drive", start |-> x.current.start, end |-> p]
  <2>1. /\ y.current.start = p /\ p \in Nat /\ p < d /\ NoCut(p, d)
        /\ x.current.start < p /\ Over(y) = Over(x) \cup {drive} /\ InTime(Over(x), p)
    BY <1>3, <1>7 DEF Stops
  <2>2. x.current.start \in Nat /\ p < Anchor
    BY <1>2, <1>3, <1>5, <2>1, MarksType
  <2> HIDE DEF p
  <2>3. SUFFICES ASSUME Anchor <= d PROVE FALSE
    BY <1>1, <1>2
  <2>4. drive \in Whole /\ drive.start < Anchor
    BY <1>1, <1>3, <1>4, <2>1, <2>2 DEF Carries
  <2>5. drive \in sessions
    BY <2>4 DEF Rolls, Before
  <2>6. drive \in Closed
    BY <1>2, <2>1, <2>5 DEF Closed
  <2>7. Finished # {}
    <3>1. SUFFICES ASSUME Finished = {} PROVE FALSE
      OBVIOUS
    <3>2. Anchor = now - Window
      BY <3>1 DEF Anchor
    <3>3. drive.end <= now - Window
      BY <1>1, <2>1, <2>2, <3>2
    <3> QED
      BY <2>6, <3>1, <3>3 DEF Finished
  <2>8. PICK s \in Finished : s.end = Anchor
    BY <1>1, <2>7, AnchorEnds
  <2>9. s \in sessions /\ s.start \in Int /\ s.end \in Int /\ s.start <= s.end /\ s.end # Running
    BY <1>1, <2>8 DEF Finished, Closed, Inv, Timed, Fits, Row
  <2>10. CASE s.start < Anchor
    <3>1. s \notin Imported
      BY <2>1, <2>2, <2>8 DEF Imported
    <3>2. s \in Whole
      BY <2>9, <2>10, <3>1 DEF Rolls, Before
    <3>3. s \in Over(z)
      BY <1>4, <2>9, <3>2 DEF Rest
    <3>4. s \in Over(y)
      BY <1>1, <1>2, <1>3, <2>3, <2>8, <3>3 DEF Carries
    <3>5. s.end <= p
      BY <2>1, <3>4 DEF InTime
    <3> QED
      BY <1>1, <2>1, <2>2, <2>8, <3>5
  <2>11. CASE s.start = Anchor
    <3>1. Anchor \in 1..MaxTime /\ Anchor \in (p + 1)..d
      BY <1>1, <1>2, <2>1, <2>2, <2>3, RebuildAssumption
    <3>2. log[Anchor].links = {"disconnect"}
      BY <1>1, <2>8, <2>9, <2>11, <3>1 DEF Cuts
    <3>3. late # Anchor
      BY <1>1, <3>1, <3>2 DEF Fits, Told
    <3>4. Rows[Anchor] = log[Anchor]
      BY <3>1, <3>3 DEF Rows
    <3> QED
      BY <2>1, <3>1, <3>2, <3>4 DEF NoCut
  <2> QED
    BY <1>1, <2>8, <2>9, <2>10, <2>11
<1> QED
  BY <1>6, <1>7
-----------------------------------------------------------------------------
(* From a change of the link on, or from the end of a drive, the builder of *)
(* the window differs from the builder of all rows in the past only.        *)

\* What is known of a builder after the row at t.
Known(x, t) == Base(x, t) /\ Settled(x) /\ Sharp(x, t)

\* x is in a drive that y has not seen begin.
Apart(x, y) == Driving(x) /\ ~Driving(y) /\ Alike(x, y) /\ x.link # "unknown"

LEMMA TwinLater ==
    ASSUME NEW e \in Int, NEW d \in Int, NEW x, NEW y, Twin(x, y, e, d),
           NEW a \in Int, NEW b \in Int, e <= a, d <= b
    PROVE  Twin(x, y, a, b)
<1>1. x \in Builders /\ y \in Builders
  BY DEF Twin
<1>2. /\ x.current.start \in Nat /\ y.current.start \in Nat
      /\ \A s \in Over(x) : s.start \in Nat
      /\ \A s \in Over(y) : s.start \in Nat
  BY <1>1, OverType, MarksType
<1>3. Covers(Over(x), Over(y), a) /\ Covers(Over(y), Over(x), b)
  BY <1>2 DEF Twin, Covers
<1>4. x.current = y.current \/ (x.current.start <= a /\ y.current.start <= b)
  BY <1>2 DEF Twin
<1> QED
  BY <1>3, <1>4 DEF Twin

\* Once both are in a drive, or neither, they are.
LEMMA Rejoin ==
    ASSUME NEW t \in Nat, NEW x, NEW y, Known(x, t), Known(y, t), Alike(x, y), x.link # "unknown",
           Driving(x) <=> Driving(y),
           Driving(x) => x.park = y.park /\ x.link = "up",
           ~Driving(x) => x.gear # "moving"
    PROVE  Twin(x, y, t, t)
<1>1. x \in Builders /\ y \in Builders
  BY DEF Known, Base
<1>2. /\ x.current.start \in Nat /\ y.current.start \in Nat
      /\ \A s \in Over(x) : s.start \in Nat /\ s.end \in Nat
      /\ \A s \in Over(y) : s.start \in Nat /\ s.end \in Nat
  BY <1>1, OverType, MarksType
<1>3. x.link = y.link /\ x.gear = y.gear /\ x.charge = y.charge /\ x.link \in {"up", "down"}
  BY <1>1 DEF Alike, Builders
<1>4. x.current # NoSession /\ y.current # NoSession
  BY <1>3 DEF Known, Base, Linked, NoSession
<1>5. x.current.start <= t /\ y.current.start <= t
  BY <1>4 DEF Known, Base, Listed
<1>6. Covers(Over(x), Over(y), t) /\ Covers(Over(y), Over(x), t)
  BY <1>2 DEF Known, Base, Listed, InTime, Covers
<1>7. x.pending = Never /\ y.pending = Never
  <2>1. CASE Driving(x)
    BY <2>1 DEF Known, Base, Marked, Driving
  <2>2. CASE ~Driving(x)
    BY <1>3, <2>2 DEF Known, Settled
  <2> QED
    BY <2>1, <2>2
<1>8. x.current.kind = y.current.kind
  <2>1. CASE Driving(x)
    BY <2>1 DEF Driving
  <2>2. CASE ~Driving(x) /\ x.link = "down"
    BY <1>3, <2>2 DEF Known, Base, Linked, Driving
  <2>3. CASE ~Driving(x) /\ x.link = "up"
    BY <1>3, <2>3 DEF Known, Base, Linked, Driving, Sharp, Settled
  <2> QED
    BY <1>3, <2>1, <2>2, <2>3
<1>9. /\ x.link = "up" => x.current.kind \in {"drive", "charge", "idle"}
      /\ x.link # "up" => x.current.kind \in {"none", "drive", "offline"}
  BY <1>3 DEF Known, Base, Linked
<1> QED
  BY <1>1, <1>5, <1>6, <1>7, <1>8, <1>9 DEF Twin

\* A row that two builders read.
Together(x, y, t, g, f, h) ==
    /\ Known(x, t - 1) /\ Known(y, t - 1) /\ Meets(x, g) /\ Meets(y, g)
    /\ f = Feed(x, t, g) /\ h = Feed(y, t, g) /\ Known(f, t) /\ Known(h, t)

LEMMA ApartOn ==
    ASSUME NEW t \in Nat \ {0}, NEW g \in Reports, g = Rows[t],
           NEW x, NEW y, NEW f, NEW h, Together(x, y, t, g, f, h), Apart(x, y)
    PROVE  Apart(f, h) \/ Twin(f, h, t, t)
<1>1. x \in Builders /\ y \in Builders /\ t - 1 \in Nat /\ t - 1 < t
  BY DEF Together, Known, Base
<1>2. Shifts(x, f) /\ Shifts(y, h)
  BY <1>1, FeedShifts DEF Together, Known
<1>3. Took(f, x, g) /\ Took(h, y, g) /\ g.links \in {{}, {"connect"}, {"disconnect"}}
  BY <1>1, FeedIs, ReportIs DEF Together
<1>4. Alike(f, h) /\ f.link # "unknown"
  BY <1>3 DEF Took, Apart, Alike, Together, Meets
<1>5. CASE Driving(f) /\ ~Driving(h)
  BY <1>4, <1>5 DEF Apart
<1>6. CASE ~(Driving(f) /\ ~Driving(h))
  <2>1. Driving(f) <=> Driving(h)
    BY <1>2, <1>4, <1>6 DEF Shifts, Apart, Alike
  <2>2. Driving(f) => f.park = h.park /\ f.link = "up"
    BY <1>2, <1>4, <2>1 DEF Shifts, Apart, Alike
  <2>3. ~Driving(f) => f.gear # "moving"
    BY <1>2 DEF Shifts, Apart
  <2> QED
    BY <1>4, <2>1, <2>2, <2>3, Rejoin DEF Together
<1> QED
  BY <1>5, <1>6

\* A builder that knows nothing of the link goes on so, or learns of it.
LEMMA BlankOn ==
    ASSUME NEW t \in Nat \ {0}, NEW g \in Reports, g = Rows[t],
           NEW x, NEW y, NEW f, NEW h, Together(x, y, t, g, f, h), y.link = "unknown"
    PROVE  /\ g.links = {} => h.link = "unknown"
           /\ g.links # {} /\ Driving(x) => Apart(f, h) \/ Twin(f, h, t, t)
           /\ g.links # {} /\ ~Driving(x) => \A d \in Int : Twin(f, h, t - 1, d)
<1>1. x \in Builders /\ y \in Builders /\ t - 1 \in Nat /\ t - 1 < t /\ t - 1 \in Int
  BY DEF Together, Known, Base
<1>2. Shifts(x, f) /\ Shifts(y, h)
  BY <1>1, FeedShifts DEF Together, Known
<1>3. Took(f, x, g) /\ Took(h, y, g) /\ g.links \in {{}, {"connect"}, {"disconnect"}}
      /\ (g.links # {} => g.gear = "same" /\ g.charge = "same")
  BY <1>1, FeedIs, ReportIs DEF Together
<1>4. g.links = {} => h.link = "unknown"
  BY <1>3 DEF Took
<1>5. y.current = NoSession /\ Over(y) = {} /\ ~Driving(y) /\ y.pending = Never
  BY DEF Together, Known, Base, Linked, Sharp, Driving, NoSession, Marked
<1>6. g.links # {} => /\ Alike(f, h) /\ f.link # "unknown" /\ f.gear = "unknown" /\ ~Driving(h)
  BY <1>2, <1>3, <1>5 DEF Took, Alike, Together, Meets, Shifts
<1>7. ASSUME g.links # {}, Driving(x)
      PROVE  Apart(f, h) \/ Twin(f, h, t, t)
  <2>1. CASE Driving(f)
    BY <1>6, <1>7, <2>1 DEF Apart
  <2>2. CASE ~Driving(f)
    BY <1>6, <1>7, <2>2, Rejoin DEF Together
  <2> QED
    BY <2>1, <2>2
<1>8. ASSUME g.links # {}, ~Driving(x), NEW d \in Int
      PROVE  Twin(f, h, t - 1, d)
  <2>1. /\ f.current = h.current /\ f.current.kind \in {"idle", "offline"}
        /\ f.link = "up" => f.current.kind = "idle"
        /\ f.link # "up" => f.current.kind = "offline"
        /\ f.pending = Never /\ h.pending = Never
        /\ Over(f) = Over(x) \cup Added(x, t) /\ Over(h) = {}
    <3>1. CASE g.links = {"connect"}
      <4>1. /\ x.link # "up" /\ x.gear = "unknown" /\ x.charge = "unknown"
            /\ x.pending = Never /\ x.current.kind \in {"none", "drive", "offline"}
            /\ y.link # "up" /\ y.gear = "unknown" /\ y.charge = "unknown"
            /\ y.current.kind \in {"none", "drive", "offline"}
        BY <1>1, <1>5, <3>1 DEF Together, Known, Base, Linked, Marked, Meets, NoSession, Builders
      <4>2. Woke(x, f, t) /\ Woke(y, h, t)
        BY <1>1, <1>5, <3>1, <4>1, FeedConnectIs DEF Together
      <4>3. Added(y, t) = {}
        BY <1>5 DEF Added
      <4> QED
        BY <1>5, <1>8, <4>1, <4>2, <4>3 DEF Woke
    <3>2. CASE g.links = {"disconnect"}
      <4> DEFINE p == Evaluate(x, t, g)
                 q == Evaluate(y, t, g)
      <4>1. x.link # "down" /\ y.link # "down"
        BY <3>2 DEF Together, Meets
      <4>2. Slept(p, f, t) /\ Slept(q, h, t) /\ p \in Builders
        BY <1>1, <3>2, <4>1, FeedDisconnectIs DEF Together
      <4>3. /\ ~Driving(p) /\ p.current = x.current /\ Over(p) = Over(x)
            /\ ~Driving(q) /\ q.current = y.current /\ Over(q) = Over(y)
        BY <1>1, <1>5, <1>8, <3>2, <4>1, LastLook DEF Together, Known
      <4> HIDE DEF p, q
      <4>4. Added(q, t) = {} /\ Added(p, t) = Added(x, t)
        BY <1>5, <4>3 DEF Added, Ending
      <4> QED
        BY <1>5, <4>2, <4>3, <4>4 DEF Slept
    <3> QED
      BY <1>3, <1>8, <3>1, <3>2
  <2>2. \A s \in Over(f) : s.start <= t - 1
    <3>1. \A s \in Over(x) : s.start \in Nat /\ s.end \in Nat
      BY <1>1, OverType
    <3>2. \A s \in Over(x) : s.start <= t - 1
      BY <1>1, <3>1 DEF Together, Known, Base, Listed, InTime
    <3>3. \A s \in Added(x, t) : s.start <= t - 1
      BY <1>1, AddedIs DEF Together, Known, Base, Listed
    <3> QED
      BY <2>1, <3>2, <3>3
  <2>3. Covers(Over(f), Over(h), t - 1) /\ Covers(Over(h), Over(f), d)
    BY <2>1, <2>2 DEF Covers
  <2>4. f \in Builders /\ h \in Builders /\ Alike(f, h) /\ ~Driving(f)
    BY <1>6, <1>8, <2>1 DEF Together, Known, Base, Driving
  <2> QED
    BY <2>1, <2>3, <2>4 DEF Twin
<1> QED
  BY <1>4, <1>7, <1>8
\* The builder of all rows and the one of the window, after the row at u: the second knows
\* nothing of the link yet; or a drive is in progress, which it may not have seen begin;
\* or they differ before the anchor only.
Joined(t, u) ==
    LET x == Fed(Rows, 1, u)
        y == Fed(Rows, From, u)
    IN  \/ y.link = "unknown"
        \/ Driving(x) /\ (Apart(x, y) \/ Twin(x, y, u, u))
        \/ Twin(x, y, t - 1, Anchor - 1)

LEMMA BothRead ==
    ASSUME NEW t, Rolls(t), NEW u \in From..now
    PROVE  LET x == Fed(Rows, 1, u - 1)
               y == Fed(Rows, From, u - 1)
               f == Fed(Rows, 1, u)
               h == Fed(Rows, From, u)
           IN  /\ u \in Nat \ {0}
               /\ Rows[u] = Nothing => f = x /\ h = y
               /\ Rows[u] # Nothing => Rows[u] \in Reports /\ Together(x, y, u, Rows[u], f, h)
<1> DEFINE x == Fed(Rows, 1, u - 1)
           y == Fed(Rows, From, u - 1)
           f == Fed(Rows, 1, u)
           h == Fed(Rows, From, u)
<1>1. Inv /\ Fits /\ From \in Nat \ {0} /\ now \in 1..MaxTime /\ 1 \in Nat \ {0}
  BY FromIs DEF Rolls, Inv
<1>2. /\ u \in Nat \ {0} /\ u \in 1..MaxTime /\ u \in 0..MaxTime /\ u - 1 \in 0..MaxTime
      /\ 1 <= u /\ From <= u /\ From - 1 <= u - 1 /\ 1 - 1 <= u - 1 /\ From - 1 <= u /\ 1 - 1 <= u
  BY <1>1, RebuildAssumption
<1>3. Sees(1, u - 1) /\ Sees(1, u) /\ Sees(From, u - 1) /\ Sees(From, u)
  BY <1>1, <1>2, SeesAll DEF Inv, Fits
<1>4. Known(x, u - 1) /\ Known(y, u - 1) /\ Known(f, u) /\ Known(h, u)
  BY <1>3 DEF Known, Sees, Reads
<1>5. f = FedOne(Rows, x, u) /\ h = FedOne(Rows, y, u)
  BY <1>1, <1>2, FedNext
<1>6. Rows[u] # Nothing => /\ Rows[u] \in Reports /\ Meets(x, Rows[u]) /\ Meets(y, Rows[u])
                           /\ f = Feed(x, u, Rows[u]) /\ h = Feed(y, u, Rows[u])
  BY <1>1, <1>2, <1>3, RowRead DEF Inv, Fits
<1> QED
  BY <1>2, <1>4, <1>5, <1>6 DEF FedOne, Together

LEMMA JoinedOn ==
    ASSUME NEW t, Rolls(t), NEW u \in From..(t - 1), Joined(t, u - 1)
    PROVE  Joined(t, u)
<1> DEFINE x == Fed(Rows, 1, u - 1)
           y == Fed(Rows, From, u - 1)
           f == Fed(Rows, 1, u)
           h == Fed(Rows, From, u)
           g == Rows[u]
<1>1. Inv /\ From \in Nat \ {0} /\ now \in Nat /\ t \in From..now /\ Anchor \in Int
  BY FromIs, AnchorIs, RebuildAssumption DEF Rolls, Inv
<1>2. /\ u \in From..now /\ u \in Nat \ {0} /\ u \in 1..(t - 1) /\ u \in Int /\ u - 1 \in Int
      /\ u <= t - 1 /\ u - 1 <= t - 1 /\ u - 1 <= u /\ t - 1 \in Int /\ Anchor - 1 \in Int
  BY <1>1
<1>3. /\ g = Nothing => f = x /\ h = y
      /\ g # Nothing => g \in Reports /\ Together(x, y, u, g, f, h)
  BY <1>2, BothRead
<1>4. \/ y.link = "unknown"
      \/ Driving(x) /\ (Apart(x, y) \/ Twin(x, y, u - 1, u - 1))
      \/ Twin(x, y, t - 1, Anchor - 1)
  BY DEF Joined
<1>5. Driving(x) /\ ~Driving(f) => u <= Anchor - 1
  <2>1. Driving(x) /\ ~Driving(f) => u < Anchor
    BY <1>2, EndsBefore
  <2> QED
    BY <1>1, <1>2, <2>1
<1>6. SUFFICES \/ h.link = "unknown"
               \/ Driving(f) /\ (Apart(f, h) \/ Twin(f, h, u, u))
               \/ Twin(f, h, t - 1, Anchor - 1)
  BY DEF Joined
<1> HIDE DEF x, y, f, h
<1>7. ASSUME Twin(f, h, u, u), Driving(x)
      PROVE  (Driving(f) /\ Twin(f, h, u, u)) \/ Twin(f, h, t - 1, Anchor - 1)
  <2>1. CASE Driving(f)
    BY <1>7, <2>1
  <2>2. CASE ~Driving(f)
    <3>1. u <= Anchor - 1
      BY <1>5, <1>7, <2>2
    <3> QED
      BY <1>2, <1>7, <3>1, TwinLater
  <2> QED
    BY <2>1, <2>2
<1>8. CASE g = Nothing
  <2>1. Twin(x, y, u - 1, u - 1) => Twin(x, y, u, u)
    BY <1>2, TwinLater
  <2> QED
    BY <1>3, <1>4, <1>8, <2>1
<1>9. CASE g # Nothing
  <2>1. g \in Reports /\ Together(x, y, u, g, f, h)
    BY <1>3, <1>9
  <2>2. CASE y.link = "unknown"
    <3>1. /\ g.links = {} => h.link = "unknown"
          /\ g.links # {} /\ Driving(x) => Apart(f, h) \/ Twin(f, h, u, u)
          /\ g.links # {} /\ ~Driving(x) => \A d \in Int : Twin(f, h, u - 1, d)
      BY <1>2, <2>1, <2>2, BlankOn
    <3>2. CASE g.links # {} /\ ~Driving(x)
      <4>1. Twin(f, h, u - 1, Anchor - 1)
        BY <1>2, <3>1, <3>2
      <4>2. Anchor - 1 <= Anchor - 1
        BY <1>2
      <4> QED
        BY <1>2, <4>1, <4>2, TwinLater
    <3> QED
      BY <1>7, <3>1, <3>2 DEF Apart
  <2>3. CASE Driving(x) /\ Apart(x, y)
    <3>1. Apart(f, h) \/ Twin(f, h, u, u)
      BY <1>2, <2>1, <2>3, ApartOn
    <3> QED
      BY <1>7, <2>3, <3>1 DEF Apart
  <2>4. CASE Driving(x) /\ Twin(x, y, u - 1, u - 1)
    <3>1. Twin(Feed(x, u, g), Feed(y, u, g), u - 1, u - 1)
      BY <1>2, <2>1, <2>4, TwinFeed DEF Together
    <3>2. Twin(f, h, u - 1, u - 1)
      BY <2>1, <3>1 DEF Together
    <3>3. Twin(f, h, u, u)
      BY <1>2, <3>2, TwinLater
    <3> QED
      BY <1>7, <2>4, <3>3
  <2>5. CASE Twin(x, y, t - 1, Anchor - 1)
    <3>1. Twin(Feed(x, u, g), Feed(y, u, g), t - 1, Anchor - 1)
      BY <1>2, <2>1, <2>5, TwinFeed DEF Together
    <3> QED
      BY <2>1, <3>1 DEF Together
  <2> QED
    BY <1>4, <2>2, <2>3, <2>4, <2>5
<1> QED
  BY <1>8, <1>9

LEMMA JoinedAll ==
    ASSUME NEW t, Rolls(t)
    PROVE  Joined(t, t - 1)
<1> DEFINE Good == {n \in Nat : n <= t - From => Joined(t, From - 1 + n)}
<1>1. From \in Nat \ {0} /\ now \in Nat /\ t \in From..now /\ t - From \in Nat
      /\ From - 1 + (t - From) = t - 1
  BY FromIs, RebuildAssumption DEF Rolls, Inv
<1>2. 0 \in Good
  <2>1. Fed(Rows, From, From - 1) = NewBuilder
    BY <1>1, FedFirst
  <2>2. Joined(t, From - 1)
    BY <2>1 DEF Joined, NewBuilder
  <2> QED
    BY <1>1, <2>2
<1>3. ASSUME NEW n \in Nat, n \in Good
      PROVE  n + 1 \in Good
  <2> DEFINE u == From + n
  <2>1. SUFFICES ASSUME n + 1 <= t - From PROVE Joined(t, From - 1 + (n + 1))
    OBVIOUS
  <2>2. u \in From..(t - 1) /\ u - 1 = From - 1 + n /\ u = From - 1 + (n + 1)
    BY <1>1, <2>1
  <2>3. Joined(t, u - 1)
    BY <1>1, <1>3, <2>1, <2>2
  <2> HIDE DEF u
  <2>4. Joined(t, u)
    BY <2>2, <2>3, JoinedOn
  <2> QED
    BY <2>2, <2>4
<1> HIDE DEF Good
<1>4. t - From \in Good
  BY <1>1, <1>2, <1>3, Reaches
<1> QED
  BY <1>1, <1>4 DEF Good

\* From the row at t on they differ before the anchor only.
LEMMA TwinAt ==
    ASSUME NEW t, Rolls(t)
    PROVE  Twin(Fed(Rows, 1, t), Fed(Rows, From, t), t - 1, Anchor - 1)
<1> DEFINE x == Fed(Rows, 1, t - 1)
           y == Fed(Rows, From, t - 1)
           f == Fed(Rows, 1, t)
           h == Fed(Rows, From, t)
           g == Rows[t]
<1>1. From \in Nat \ {0} /\ t \in From..now /\ now \in Nat /\ Anchor - 1 \in Int /\ t - 1 \in Int
      /\ t \in Nat
  BY FromIs, AnchorIs, RebuildAssumption DEF Rolls, Inv
<1>2. g # Nothing /\ g.links # {} /\ ~Driving(x)
  BY DEF Rolls, Recovers, Nothing, Silent
<1>3. t \in Nat \ {0} /\ g \in Reports /\ Together(x, y, t, g, f, h)
  BY <1>1, <1>2, BothRead
<1>4. \/ y.link = "unknown"
      \/ Twin(x, y, t - 1, Anchor - 1)
  BY <1>2, JoinedAll DEF Joined
<1>5. SUFFICES Twin(f, h, t - 1, Anchor - 1)
  OBVIOUS
<1> HIDE DEF x, y, f, h
<1>6. CASE y.link = "unknown"
  BY <1>1, <1>2, <1>3, <1>6, BlankOn
<1>7. CASE Twin(x, y, t - 1, Anchor - 1)
  <2>1. Twin(Feed(x, t, g), Feed(y, t, g), t - 1, Anchor - 1)
    BY <1>1, <1>3, <1>7, TwinFeed DEF Together
  <2> QED
    BY <1>3, <2>1 DEF Together
<1> QED
  BY <1>4, <1>6, <1>7

LEMMA TwinToNow ==
    ASSUME NEW t, Rolls(t)
    PROVE  Twin(Fed(Rows, 1, now), Fed(Rows, From, now), t - 1, Anchor - 1)
<1> DEFINE Good == {n \in Nat : n <= now - t =>
                        Twin(Fed(Rows, 1, t + n), Fed(Rows, From, t + n), t - 1, Anchor - 1)}
<1>1. From \in Nat \ {0} /\ now \in Nat /\ t \in From..now /\ now - t \in Nat /\ t \in Nat
      /\ t - 1 \in Int /\ Anchor - 1 \in Int
  BY FromIs, AnchorIs, RebuildAssumption DEF Rolls, Inv
<1>2. 0 \in Good
  BY <1>1, TwinAt
<1>3. ASSUME NEW n \in Nat, n \in Good
      PROVE  n + 1 \in Good
  <2> DEFINE u == t + (n + 1)
             x == Fed(Rows, 1, u - 1)
             y == Fed(Rows, From, u - 1)
             f == Fed(Rows, 1, u)
             h == Fed(Rows, From, u)
  <2>1. SUFFICES ASSUME n + 1 <= now - t PROVE Twin(f, h, t - 1, Anchor - 1)
    OBVIOUS
  <2>2. u \in From..now /\ u - 1 = t + n
    BY <1>1, <2>1
  <2>3. Twin(x, y, t - 1, Anchor - 1)
    BY <1>1, <1>3, <2>1, <2>2
  <2> HIDE DEF u
  <2>4. /\ u \in Nat \ {0}
        /\ Rows[u] = Nothing => f = x /\ h = y
        /\ Rows[u] # Nothing => Rows[u] \in Reports /\ Together(x, y, u, Rows[u], f, h)
    BY <2>2, BothRead
  <2> HIDE DEF x, y, f, h
  <2>5. CASE Rows[u] = Nothing
    BY <2>3, <2>4, <2>5
  <2>6. CASE Rows[u] # Nothing
    <3>1. Twin(Feed(x, u, Rows[u]), Feed(y, u, Rows[u]), t - 1, Anchor - 1)
      BY <1>1, <2>3, <2>4, <2>6, TwinFeed DEF Together
    <3> QED
      BY <2>4, <2>6, <3>1 DEF Together
  <2> QED
    BY <2>5, <2>6
<1> HIDE DEF Good
<1>4. now - t \in Good
  BY <1>1, <1>2, <1>3, Reaches
<1> QED
  BY <1>1, <1>4 DEF Good
-----------------------------------------------------------------------------
(* The rebuild.                                                            *)

LEMMA FinalTwin ==
    ASSUME NEW t, Rolls(t)
    PROVE  /\ With(Rows, 1, now) # {} /\ With(Rows, From, now) # {}
           /\ Twin(Final(1), Final(From), t - 1, Anchor - 1)
<1> DEFINE all == With(Rows, 1, now)
           some == With(Rows, From, now)
<1>1. Inv /\ Fits /\ From \in Nat \ {0} /\ 1 \in Nat \ {0} /\ t \in From..now /\ now \in Nat
      /\ t - 1 \in Int /\ Anchor - 1 \in Int
  BY FromIs, AnchorIs, RebuildAssumption DEF Rolls, Inv
<1>2. t \in all /\ t \in some /\ some \subseteq all
  <2>1. Rows[t] # Nothing
    BY DEF Rolls, Recovers, Nothing, Silent
  <2> QED
    BY <1>1, <2>1 DEF With
<1>3. all # {} /\ some # {}
  BY <1>2
<1>4. /\ Max(all) \in 1..now /\ \A u \in all : u <= Max(all)
      /\ Rows[Max(all)] \in Reports
  BY <1>1, <1>3, LastRow
<1>5. /\ Max(some) \in From..now /\ \A u \in some : u <= Max(some)
      /\ Rows[Max(some)] \in Reports
  BY <1>1, <1>3, LastRow
<1>6. Rows[Max(all)] # Nothing /\ Rows[Max(some)] # Nothing
  <2>1. \A g \in Reports : g # Nothing
    BY ReportIs DEF Nothing, Silent
  <2> QED
    BY <1>4, <1>5, <2>1
<1>7. Max(all) = Max(some)
  <2> DEFINE a == Max(all)
             b == Max(some)
  <2>1. b \in all
    BY <1>1, <1>5, <1>6 DEF With
  <2>2. t <= a
    BY <1>2, <1>4
  <2>3. a \in some
    BY <1>1, <1>4, <1>6, <2>2 DEF With
  <2>4. b <= a /\ a <= b
    BY <1>4, <1>5, <2>1, <2>3
  <2>5. a \in Int /\ b \in Int
    BY <1>1, <1>4, <1>5
  <2> HIDE DEF a, b
  <2>6. a = b
    BY <2>4, <2>5
  <2> QED
    BY <2>6 DEF a, b
<1>8. ~Rows[Max(all)].reset
  BY <1>4, ReportIs
<1>9. Twin(Fed(Rows, 1, now), Fed(Rows, From, now), t - 1, Anchor - 1)
  BY TwinToNow
<1> DEFINE g == Rows[Max(all)]
           x == Fed(Rows, 1, now)
           y == Fed(Rows, From, now)
<1>10. Final(1) = Evaluate(x, now, g) /\ Final(From) = Evaluate(y, now, g)
  BY <1>7 DEF Final
<1> HIDE DEF g, x, y, all, some
<1>11. Twin(Evaluate(x, now, g), Evaluate(y, now, g), t - 1, Anchor - 1)
  BY <1>1, <1>8, <1>9, TwinEvaluate DEF g, x, y
<1> QED
  BY <1>3, <1>10, <1>11 DEF all, some

LEMMA RebuildIsWhole ==
    ASSUME NEW t, Rolls(t), Rebuild
    PROVE  sessions' \ Imported = Whole
<1> DEFINE z == Final(1)
           r == Final(From)
           part == Finalized(Rows, From, now)
<1>1. Inv /\ Fits /\ From \in Nat \ {0} /\ 1 \in Nat \ {0} /\ t \in From..now /\ now \in Nat
      /\ t - 1 \in Int /\ Anchor \in Int /\ t \in Nat /\ Running \in Nat
  BY FromIs, AnchorIs, RebuildAssumption DEF Rolls, Inv, Running
<1>2. /\ With(Rows, 1, now) # {} /\ With(Rows, From, now) # {}
      /\ Twin(z, r, t - 1, Anchor - 1)
  BY FinalTwin
<1>3. /\ z \in Builders /\ r \in Builders
      /\ Whole = Over(z) \cup Rest(z) /\ part = Over(r) \cup Rest(r)
  BY <1>1, <1>2, FinalIs DEF Whole
<1>4. sessions' = {s \in sessions : s.start < Anchor} \cup {s \in part : s.start >= Anchor}
  BY <1>2 DEF Rebuild
<1>5. \A s \in Whole : s.start < Anchor \/ s.start >= t
  BY DEF Rolls, Recovers
<1>6. {s \in sessions : s.start < Anchor} \ Imported = {s \in Whole : s.start < Anchor}
  BY DEF Rolls, Before
<1> HIDE DEF z, r, part
<1>7. /\ z.current.start \in Nat /\ r.current.start \in Nat
      /\ \A s \in Over(z) : s.start \in Nat
      /\ \A s \in Over(r) : s.start \in Nat
  BY <1>3, OverType, MarksType
<1>8. /\ \A s \in Rest(z) : s = [kind |-> z.current.kind, start |-> z.current.start, end |-> Running]
                            /\ z.current # NoSession
      /\ \A s \in Rest(r) : s = [kind |-> r.current.kind, start |-> r.current.start, end |-> Running]
                            /\ r.current # NoSession
      /\ z.current = r.current => Rest(z) = Rest(r)
  BY DEF Rest
<1>9. \A s \in Rest(z) : s.start = z.current.start
  BY <1>8
<1>10. \A s \in Rest(r) : s.start = r.current.start
  BY <1>8
<1>11. \A s \in Whole : s.start \in Nat
  BY <1>3, <1>7, <1>9
<1>12. \A s \in part : s.start \in Nat
  BY <1>3, <1>7, <1>10
<1>13. ASSUME NEW s \in part, s.start >= Anchor
       PROVE  s \in Whole
  <2>1. CASE s \in Over(r)
    BY <1>1, <1>2, <1>3, <1>7, <1>13, <2>1 DEF Twin, Covers
  <2>2. CASE s \in Rest(r)
    <3>1. r.current.start >= Anchor
      BY <1>10, <1>13, <2>2
    <3>2. z.current = r.current
      BY <1>1, <1>2, <1>7, <3>1 DEF Twin
    <3> QED
      BY <1>3, <1>8, <2>2, <3>2
  <2> QED
    BY <1>3, <2>1, <2>2
<1>14. ASSUME NEW s \in Whole, s.start >= Anchor
       PROVE  s \in part
  <2>1. s.start >= t
    BY <1>1, <1>5, <1>11, <1>14
  <2>2. CASE s \in Over(z)
    BY <1>1, <1>2, <1>3, <1>7, <2>1, <2>2 DEF Twin, Covers
  <2>3. CASE s \in Rest(z)
    <3>1. z.current.start >= t
      BY <1>9, <2>1, <2>3
    <3>2. z.current = r.current
      BY <1>1, <1>2, <1>7, <3>1 DEF Twin
    <3> QED
      BY <1>3, <1>8, <2>3, <3>2
  <2> QED
    BY <1>3, <2>2, <2>3
<1>15. \A s \in part : s \notin Imported
  BY <1>12 DEF Imported
<1>16. {s \in part : s.start >= Anchor} = {s \in Whole : s.start >= Anchor}
  BY <1>13, <1>14
<1>17. \A s \in Whole : s.start < Anchor \/ s.start >= Anchor
  BY <1>1, <1>11
<1> QED
  BY <1>4, <1>6, <1>15, <1>16, <1>17

\* The window is enough: see RollingIsWhole.  A change of the link out of a drive makes
\* the builders of the window and of all rows agree but for the sessions before the
\* anchor, and so does the end of a drive the window did not see begin, because the
\* session after it starts before the anchor and the anchor is no time of the park.
THEOREM WindowIsEnough == Spec => RollingIsWhole
<1>1. ASSUME Inv, Fits, Cuts
      PROVE  LET whole == Whole
                 before(list) == {s \in list : s.start < Anchor}
             IN  /\ Rebuild
                 /\ before(sessions) \ Imported = before(whole)
                 /\ \E t \in From..now : Recovers(whole, t)
                 => sessions' \ Imported = whole
  <2> SUFFICES ASSUME Rebuild, Before(sessions) \ Imported = Before(Whole),
                      NEW t \in From..now, Recovers(Whole, t)
               PROVE  sessions' \ Imported = Whole
    BY DEF Before
  <2>1. Rolls(t)
    BY <1>1 DEF Rolls
  <2> QED
    BY <2>1, RebuildIsWhole
<1>2. Inv /\ Fits /\ Cuts =>
          [LET whole == Whole
               before(list) == {s \in list : s.start < Anchor}
           IN  /\ Rebuild
               /\ before(sessions) \ Imported = before(whole)
               /\ \E t \in From..now : Recovers(whole, t)
               => sessions' \ Imported = whole]_vars
  BY <1>1
<1>3. Inv /\ Inv' /\ Fits /\ Cuts /\ [Next]_vars => Fits' /\ Cuts'
  BY NextFits, NextCuts
<1> QED
  BY <1>2, <1>3, InitFits, InitCuts, Invariance, PTL DEF Spec, RollingIsWhole
=============================================================================
