------------------------ MODULE SessionBuilderProofs -------------------------
(***************************************************************************)
(* Proofs about SessionBuilder, for any thresholds and any length of time: *)
(* what a builder knows of the past (Sound), that each method keeps it, how *)
(* far one timestamp can take the session in progress (Rank), and what the *)
(* sessions have to do with the times the car was offline (Clear).         *)
(***************************************************************************)
EXTENDS SessionBuilder, SequenceTheorems, TLAPS

Sessions == [kind : Kinds, start : Nat, end : Nat]

Builders == [link    : {"unknown", "up", "down"},
             gear    : {"unknown", "park", "moving"},
             charge  : {"unknown", "charging", "ended"},
             current : [kind : Kinds \cup {"none"}, start : Nat],
             done    : Seq(Sessions),
             pending : Nat,
             park    : Nat,
             off     : Nat]

Newest(x) == x.done[Len(x.done)]

-----------------------------------------------------------------------------
(* What holds of a builder x that has been fed up to t.                    *)

\* Session s, and the next one that starts so: in time, and two drives apart.
Joined(s, next) ==
    /\ \/ s.end = next.start
       \/ s.kind = "charge" /\ next.kind = "drive" /\ next.start \in s.start..s.end
    /\ ~(s.kind = "drive" /\ next.kind = "drive")

Parted(r, s, next) ==
    r.kind = "drive" /\ s.kind = "idle" /\ next.kind = "drive" => s.end - s.start >= ParkDwell

Linked(list) ==
    /\ \A i \in 1..Len(list) : list[i].start <= list[i].end
    /\ \A i \in 1..(Len(list) - 1) : Joined(list[i], list[i + 1])
    /\ \A i \in 1..(Len(list) - 2) : Parted(list[i], list[i + 1], list[i + 2])

Chain(list, current) ==
    /\ Linked(list)
    /\ Len(list) > 0 => Joined(list[Len(list)], current)
    /\ Len(list) > 1 => Parted(list[Len(list) - 1], list[Len(list)], current)

Times(x, t) ==
    /\ x.current.start <= t /\ x.pending <= t /\ x.park <= t /\ x.off <= t
    /\ \A i \in 1..Len(x.done) : x.done[i].end <= t

\* The session in progress agrees with the connection.
Agrees(x) ==
    /\ x.link = "unknown" => x.current = NoSession /\ x.done = <<>>
    /\ x.link = "up" => x.current.kind \in {"drive", "charge", "idle"}
    /\ x.link = "down" => x.current.kind \in {"drive", "offline"}

\* What pending_drive, park_since and offline_since may hold, and when.
Marks(x) ==
    /\ x.pending # Never =>
           /\ x.link = "up" /\ x.current.kind \in {"idle", "charge"}
           /\ \/ x.pending >= x.current.start
              \/ /\ x.current.kind = "idle" /\ Len(x.done) > 0 /\ Newest(x).kind = "charge"
                 /\ x.pending \in Newest(x).start..Newest(x).end
    /\ x.park # Never => x.link = "up" /\ Driving(x) /\ x.park >= x.current.start
    /\ x.off # Never => x.link = "down" /\ Driving(x) /\ x.off >= x.current.start
    /\ x.link = "down" /\ Driving(x) => x.off # Never

\* An idle after a drive was decided when the park had lasted.
Rested(x, t) ==
    x.current.kind = "idle" /\ Len(x.done) > 0 =>
        /\ Newest(x).kind # "idle"
        /\ Newest(x).kind = "drive" =>
               /\ t >= x.current.start + ParkDwell
               /\ x.pending # Never => x.pending >= x.current.start + ParkDwell

Sound(x, t) ==
    /\ x \in Builders
    /\ Chain(x.done, x.current)
    /\ Times(x, t)
    /\ Agrees(x)
    /\ Marks(x)
    /\ Rested(x, t)

\* What _evaluate may rely on: where a car idles that charges with the gear in, no
\* drive has been noted from before.
Calm(x) ==
    x.link = "up" /\ x.current.kind = "idle" /\ x.charge = "charging" /\ x.gear = "moving"
        => x.pending = Never

\* ... and leaves behind: nobody idles while the car charges.
Charged(x) == x.link = "up" /\ x.current.kind = "idle" => x.charge # "charging"

-----------------------------------------------------------------------------
(* The times offline: no drive reaches into a long one, and where the car is  *)
(* offline, the drives are over, or wait for what comes.                   *)
Clear(x, period) ==
    /\ \A i \in 1..Len(x.done) : x.done[i].kind = "drive" =>
           x.done[i].end <= period.from \/ x.done[i].start >= period.to
    /\ Driving(x) => x.current.start >= period.to
    /\ x.pending # Never => x.pending >= period.to

Ended(x, since) ==
    /\ \A i \in 1..Len(x.done) : x.done[i].kind = "drive" => x.done[i].end <= since
    /\ Driving(x) => x.off = since

Awaits(x, t) == x.link = "down" /\ Driving(x) => t - x.off < OfflineEnd

Inv ==
    /\ now \in Nat /\ settled \in BOOLEAN /\ quiet \in 0..now
    /\ dark \in [from : Nat, to : 0..now] /\ dark.from <= dark.to
    /\ Sound(b, now) /\ Charged(b) /\ settled
    /\ Clear(b, dark) /\ (b.link = "down" => Ended(b, quiet)) /\ Awaits(b, now)
-----------------------------------------------------------------------------
(* Lists of sessions.                                                      *)

\* The session in progress, once it has an end, is linked like the others.
LEMMA AppendLinked ==
    ASSUME NEW list \in Seq(Sessions), NEW cur, Chain(list, cur),
           NEW s \in Sessions, s.kind = cur.kind, s.start = cur.start, s.start <= s.end
    PROVE  LET new == Append(list, s)
               n == Len(list)
           IN  /\ new \in Seq(Sessions) /\ n \in Nat /\ Len(new) = n + 1 /\ new[n + 1] = s
               /\ \A i \in 1..n : new[i] = list[i]
               /\ Linked(new)
<1> DEFINE n == Len(list)
           new == Append(list, s)
<1>1. n \in Nat
  OBVIOUS
<1>2. /\ new \in Seq(Sessions) /\ Len(new) = n + 1 /\ new[n + 1] = s
      /\ \A i \in 1..n : new[i] = list[i]
  OBVIOUS
<1> HIDE DEF new
<1>3. \A i \in 1..Len(new) : new[i].start <= new[i].end
  BY <1>1, <1>2 DEF Chain, Linked
<1>4. \A i \in 1..(Len(new) - 1) : Joined(new[i], new[i + 1])
  <2> SUFFICES ASSUME NEW i \in 1..n PROVE Joined(new[i], new[i + 1])
    BY <1>1, <1>2
  <2>1. CASE i < n
    <3>1. i \in 1..(n - 1) /\ i \in 1..n /\ i + 1 \in 1..n
      BY <2>1, <1>1
    <3>2. Joined(list[i], list[i + 1])
      BY <3>1 DEF Chain, Linked
    <3>3. new[i] = list[i] /\ new[i + 1] = list[i + 1]
      BY <3>1, <1>2
    <3> QED
      BY <3>2, <3>3
  <2>2. CASE i = n
    <3>1. Joined(list[n], cur)
      BY <2>2, <1>1 DEF Chain
    <3> QED
      BY <3>1, <2>2, <1>1, <1>2 DEF Joined
  <2> QED
    BY <2>1, <2>2, <1>1
<1>5. \A i \in 1..(Len(new) - 2) : Parted(new[i], new[i + 1], new[i + 2])
  <2> SUFFICES ASSUME NEW i \in 1..(n - 1) PROVE Parted(new[i], new[i + 1], new[i + 2])
    BY <1>1, <1>2
  <2>1. CASE i < n - 1
    <3>1. i \in 1..(n - 2) /\ i \in 1..n /\ i + 1 \in 1..n /\ i + 2 \in 1..n
      BY <2>1, <1>1
    <3>2. Parted(list[i], list[i + 1], list[i + 2])
      BY <3>1 DEF Chain, Linked
    <3>3. new[i] = list[i] /\ new[i + 1] = list[i + 1] /\ new[i + 2] = list[i + 2]
      BY <3>1, <1>2
    <3> QED
      BY <3>2, <3>3
  <2>2. CASE i = n - 1
    <3>1. Parted(list[n - 1], list[n], cur) /\ n > 1
      BY <2>2, <1>1 DEF Chain
    <3>2. new[i] = list[n - 1] /\ new[i + 1] = list[n] /\ new[i + 2] = s
      BY <2>2, <1>1, <1>2
    <3> QED
      BY <3>1, <3>2 DEF Parted
  <2> QED
    BY <2>1, <2>2, <1>1
<1>6. Linked(new)
  BY <1>3, <1>4, <1>5 DEF Linked
<1> QED
  BY <1>1, <1>2, <1>6 DEF new

\* What _close and _open do to the sessions: the one in progress ends where the
\* next one starts, or is dropped if it is empty.
LEMMA TurnKeepsChain ==
    ASSUME NEW list \in Seq(Sessions), NEW cur \in [kind : Kinds, start : Nat], NEW at \in Nat,
           NEW next \in [kind : Kinds, start : Nat], next.start = at,
           Chain(list, cur),
           NEW s \in Sessions, s = [kind |-> cur.kind, start |-> cur.start, end |-> at],
           \/ at >= cur.start
           \/ /\ cur.kind = "idle" /\ next.kind = "drive"
              /\ Len(list) > 0 /\ list[Len(list)].kind = "charge"
              /\ at \in list[Len(list)].start..list[Len(list)].end,
           next.kind = "drive" => cur.kind \in {"idle", "charge"},
           cur.kind = "idle" /\ next.kind = "drive" /\ Len(list) > 0 =>
               /\ list[Len(list)].kind # "idle"
               /\ list[Len(list)].kind = "drive" => at >= cur.start + ParkDwell
    PROVE  Chain(IF Kept(s) THEN Append(list, s) ELSE list, next)
<1> DEFINE n == Len(list)
<1>1. n \in Nat /\ \A i \in 1..n : list[i] \in Sessions /\ list[i].start \in Nat /\ list[i].end \in Nat
  <2>1. n \in Nat /\ \A i \in 1..n : list[i] \in Sessions
    OBVIOUS
  <2> QED
    BY <2>1 DEF Sessions
<1>2. /\ s.kind = cur.kind /\ s.start = cur.start /\ s.end = at
      /\ cur.start \in Nat /\ ParkDwell \in Nat \ {0}
  BY BuilderAssumption
<1>3. CASE Kept(s)
  <2> DEFINE new == Append(list, s)
  <2>1. s.start <= s.end
    BY <1>2, <1>3 DEF Kept
  <2>2. /\ new \in Seq(Sessions) /\ Len(new) = n + 1 /\ new[n + 1] = s /\ Linked(new)
        /\ \A i \in 1..n : new[i] = list[i]
    BY <1>2, <2>1, AppendLinked
  <2>3. Joined(s, next)
    BY <1>2 DEF Joined
  <2>4. Len(new) > 1 => Parted(new[Len(new) - 1], new[Len(new)], next)
    <3> SUFFICES ASSUME n > 0 PROVE Parted(list[n], s, next)
      BY <2>2, <1>1
    <3> QED
      BY <1>2 DEF Parted
  <2> HIDE DEF new
  <2>5. Chain(new, next)
    BY <2>2, <2>3, <2>4, <1>1 DEF Chain
  <2> QED
    BY <2>5, <1>3 DEF new
<1>4. CASE ~Kept(s)
  <2>1. cur.kind \in {"idle", "offline"} /\ at <= cur.start
    BY <1>4, <1>2 DEF Kept, Kinds
  <2>2. ASSUME n > 0  PROVE Joined(list[n], next)
    <3>1. Joined(list[n], cur) /\ list[n].start \in Nat /\ list[n].end \in Nat
      BY <2>2, <1>1 DEF Chain
    <3>2. ~(list[n].kind = "drive" /\ next.kind = "drive")
      BY <2>1, <2>2, <1>2
    <3> QED
      BY <3>1, <3>2, <2>1, <2>2, <1>2 DEF Joined
  <2>3. ASSUME n > 1  PROVE Parted(list[n - 1], list[n], next)
    BY <2>3, <2>1, <1>2, <1>1 DEF Parted
  <2>4. Chain(list, next)
    BY <2>2, <2>3 DEF Chain
  <2> QED
    BY <2>4, <1>4
<1> QED
  BY <1>3, <1>4

\* The last two sessions of a list are linked as they were in it.
LEMMA RecentKeepsChain ==
    ASSUME NEW list \in Seq(Sessions), NEW cur, Chain(list, cur)
    PROVE  /\ Recent(list) \in Seq(Sessions)
           /\ \A i \in 1..Len(Recent(list)) : \E j \in 1..Len(list) : Recent(list)[i] = list[j]
           /\ Len(Recent(list)) > 0 <=> Len(list) > 0
           /\ Len(list) > 0 => Recent(list)[Len(Recent(list))] = list[Len(list)]
           /\ Chain(Recent(list), cur)
<1> DEFINE n == Len(list)
<1>1. n \in Nat
  OBVIOUS
<1>2. CASE n < 2
  <2>1. Recent(list) = SubSeq(list, 1, n)
    BY <1>2 DEF Recent
  <2>2. SubSeq(list, 1, n) = list
    BY SubSeqFull
  <2> QED
    BY <2>1, <2>2, <1>1
<1>3. CASE n >= 2
  <2> DEFINE new == SubSeq(list, n - 1, n)
  <2>1. Recent(list) = new
    <3>1. (IF Len(list) < 2 THEN 1 ELSE Len(list) - 1) = n - 1
      BY <1>1, <1>3
    <3> QED
      BY <3>1 DEF Recent
  <2>2. /\ new \in Seq(Sessions) /\ Len(new) = 2 /\ new[1] = list[n - 1] /\ new[2] = list[n]
    <3>1. /\ new \in Seq(Sessions) /\ Len(new) = n - (n - 1) + 1
          /\ \A i \in 1..(n - (n - 1) + 1) : new[i] = list[(n - 1) + i - 1]
      BY <1>1, <1>3, SubSeqProperties
    <3>2. n - (n - 1) + 1 = 2 /\ (n - 1) + 1 - 1 = n - 1 /\ (n - 1) + 2 - 1 = n
      BY <1>1
    <3> HIDE DEF new
    <3> QED
      BY <3>1, <3>2
  <2> HIDE DEF new
  <2>3. n - 1 \in 1..n /\ n \in 1..n /\ (n - 1) + 1 = n /\ n - 1 \in 1..(n - 1)
    BY <1>1, <1>3
  <2>4. /\ list[n - 1].start <= list[n - 1].end /\ list[n].start <= list[n].end
        /\ Joined(list[n - 1], list[n])
    BY <2>3 DEF Chain, Linked
  <2>5. Linked(new)
    <3>1. \A i \in 1..Len(new) : i = 1 \/ i = 2
      BY <2>2
    <3>2. \A i \in 1..(Len(new) - 1) : i = 1
      BY <2>2
    <3>3. 1..(Len(new) - 2) = {}
      BY <2>2
    <3> QED
      BY <3>1, <3>2, <3>3, <2>2, <2>4 DEF Linked
  <2>6. Joined(list[n], cur) /\ Parted(list[n - 1], list[n], cur)
    BY <1>1, <1>3 DEF Chain
  <2>7. Chain(new, cur)
    <3>1. Len(new) - 1 = 1 /\ Len(new) = 2
      BY <2>2
    <3> QED
      BY <3>1, <2>2, <2>5, <2>6 DEF Chain
  <2>8. \A i \in 1..Len(new) : \E j \in 1..n : new[i] = list[j]
    <3>1. \A i \in 1..Len(new) : i = 1 \/ i = 2
      BY <2>2
    <3> QED
      BY <3>1, <2>2, <2>3
  <2> QED
    BY <2>1, <2>2, <2>7, <2>8, <1>1, <1>3
<1> QED
  BY <1>1, <1>2, <1>3

-----------------------------------------------------------------------------
(* One step.                                                               *)

\* The sessions of x when the one in progress ends at a time.
Passed(x, at) ==
    LET s == [kind |-> x.current.kind, start |-> x.current.start, end |-> at]
    IN  IF Kept(s) THEN Append(x.done, s) ELSE x.done

LEMMA PassedIs ==
    ASSUME NEW x \in Builders, x.current.kind # "none", NEW at \in Nat
    PROVE  /\ Passed(x, at) \in Seq(Sessions)
           /\ \E s \in Sessions :
                 /\ s.kind = x.current.kind /\ s.start = x.current.start /\ s.end = at
                 /\ \A i \in 1..Len(Passed(x, at)) :
                       (i \in 1..Len(x.done) /\ Passed(x, at)[i] = x.done[i]) \/ Passed(x, at)[i] = s
                 /\ \/ /\ Len(Passed(x, at)) = Len(x.done) + 1
                       /\ Passed(x, at)[Len(Passed(x, at))] = s
                    \/ Passed(x, at) = x.done /\ x.current.kind \notin {"drive", "charge"}
<1> DEFINE s == [kind |-> x.current.kind, start |-> x.current.start, end |-> at]
<1>1. /\ s \in Sessions /\ x.done \in Seq(Sessions)
      /\ s.kind = x.current.kind /\ s.start = x.current.start /\ s.end = at
  BY DEF Builders, Sessions
<1>2. CASE Kept(s)
  <2>1. Passed(x, at) = Append(x.done, s)
    BY <1>2 DEF Passed
  <2> HIDE DEF s
  <2>2. /\ Append(x.done, s) \in Seq(Sessions) /\ Len(Append(x.done, s)) = Len(x.done) + 1
        /\ Append(x.done, s)[Len(x.done) + 1] = s
        /\ \A i \in 1..Len(x.done) : Append(x.done, s)[i] = x.done[i]
    BY <1>1
  <2>3. Len(x.done) \in Nat /\ \A i \in 1..(Len(x.done) + 1) : i \in 1..Len(x.done) \/ i = Len(x.done) + 1
    BY <1>1
  <2> QED
    BY <2>1, <2>2, <2>3, <1>1
<1>3. CASE ~Kept(s)
  <2>1. Passed(x, at) = x.done /\ x.current.kind \notin {"drive", "charge"}
    BY <1>3 DEF Passed, Kept
  <2> HIDE DEF s
  <2> QED
    BY <2>1, <1>1
<1> QED
  BY <1>2, <1>3

LEMMA TurnIs ==
    ASSUME NEW x \in Builders, x.current.kind # "none", NEW kind \in Kinds, NEW at \in Nat
    PROVE  LET y == Turn(x, kind, at)
           IN  /\ y \in Builders
               /\ y.link = x.link /\ y.gear = x.gear /\ y.charge = x.charge
               /\ y.pending = x.pending /\ y.park = x.park /\ y.off = x.off
               /\ y.current = [kind |-> kind, start |-> at] /\ y.done = Passed(x, at)
<1>1. Passed(x, at) \in Seq(Sessions)
  BY PassedIs
<1>2. x.current # NoSession
  BY DEF NoSession
<1>3. Turn(x, kind, at) = [x EXCEPT !.current = [kind |-> kind, start |-> at], !.done = Passed(x, at)]
  BY <1>2 DEF Turn, Open, Close, Passed, Builders
<1>4. [kind |-> kind, start |-> at] \in [kind : Kinds \cup {"none"}, start : Nat]
  OBVIOUS
<1> DEFINE current == [kind |-> kind, start |-> at]
           done == Passed(x, at)
<1>5. current \in [kind : Kinds \cup {"none"}, start : Nat] /\ done \in Seq(Sessions)
  BY <1>1, <1>4
<1> HIDE DEF current, done
<1>6. ASSUME NEW y, y = [x EXCEPT !.current = current, !.done = done]
      PROVE  /\ y \in Builders
             /\ y.link = x.link /\ y.gear = x.gear /\ y.charge = x.charge
             /\ y.pending = x.pending /\ y.park = x.park /\ y.off = x.off
             /\ y.current = current /\ y.done = done
  BY <1>5, <1>6 DEF Builders
<1>7. Turn(x, kind, at) = [x EXCEPT !.current = current, !.done = done]
  BY <1>3 DEF current, done
<1> QED
  BY <1>6, <1>7 DEF current, done

\* _close and _open keep the sessions in order, under the conditions of
\* TurnKeepsChain.
LEMMA TurnSound ==
    ASSUME NEW x \in Builders, x.current.kind # "none", NEW kind \in Kinds,
           NEW t \in Nat, NEW at \in 0..t,
           Chain(x.done, x.current), \A i \in 1..Len(x.done) : x.done[i].end <= t,
           \/ at >= x.current.start
           \/ /\ x.current.kind = "idle" /\ kind = "drive"
              /\ Len(x.done) > 0 /\ Newest(x).kind = "charge"
              /\ at \in Newest(x).start..Newest(x).end,
           kind = "drive" => x.current.kind \in {"idle", "charge"},
           x.current.kind = "idle" /\ kind = "drive" /\ Len(x.done) > 0 =>
               /\ Newest(x).kind # "idle"
               /\ Newest(x).kind = "drive" => at >= x.current.start + ParkDwell
    PROVE  LET y == Turn(x, kind, at)
           IN  /\ Chain(y.done, y.current)
               /\ \A i \in 1..Len(y.done) : y.done[i].end <= t
<1> DEFINE s == [kind |-> x.current.kind, start |-> x.current.start, end |-> at]
           next == [kind |-> kind, start |-> at]
<1>1. /\ x.done \in Seq(Sessions) /\ x.current \in [kind : Kinds, start : Nat] /\ at \in Nat
      /\ s \in Sessions /\ next \in [kind : Kinds, start : Nat] /\ next.start = at /\ next.kind = kind
  BY DEF Builders, Sessions
<1>2. Chain(IF Kept(s) THEN Append(x.done, s) ELSE x.done, next)
  <2> HIDE DEF next
  <2> QED
    BY <1>1, TurnKeepsChain DEF Newest
<1>3. Passed(x, at) = IF Kept(s) THEN Append(x.done, s) ELSE x.done
  BY DEF Passed
<1>4. \A i \in 1..Len(Passed(x, at)) : Passed(x, at)[i].end <= t
  BY <1>1, PassedIs
<1>5. Turn(x, kind, at).current = next /\ Turn(x, kind, at).done = Passed(x, at)
  BY <1>1, TurnIs
<1> HIDE DEF next, s
<1> QED
  BY <1>2, <1>3, <1>4, <1>5

\* _step without a connection.
LEMMA StepOfflineSound ==
    ASSUME NEW x, NEW t \in Nat, Sound(x, t), x.link # "up"
    PROVE  LET y == StepOffline(x, t)
           IN  /\ Sound(y, t) /\ Awaits(y, t)
               /\ y.link = x.link /\ y.gear = x.gear /\ y.charge = x.charge
               /\ y = x \/ (Driving(x) /\ x.off # Never /\ y.done = Passed(x, x.off) /\ y.pending = x.pending
                            /\ y.current = [kind |-> "offline", start |-> x.off])
<1> USE DEF Never
<1>1. /\ x \in Builders /\ x.current.start \in Nat /\ x.off \in Nat /\ x.park \in Nat
      /\ x.pending \in Nat /\ OfflineEnd \in Nat \ {0}
  BY BuilderAssumption DEF Sound, Builders
<1>2. CASE Driving(x) /\ x.off # Never /\ t - x.off >= OfflineEnd
  <2> DEFINE turned == Turn(x, "offline", x.off)
             y == [turned EXCEPT !.off = Never]
  <2>1. StepOffline(x, t) = y
    BY <1>2 DEF StepOffline
  <2>2. /\ x.link = "down" /\ x.off >= x.current.start /\ x.off \in 0..t
        /\ x.pending = Never /\ x.park = Never /\ x.current.kind = "drive"
    BY <1>1, <1>2 DEF Sound, Marks, Times, Driving
  <2>3. /\ turned \in Builders
        /\ turned.link = x.link /\ turned.gear = x.gear /\ turned.charge = x.charge
        /\ turned.pending = x.pending /\ turned.park = x.park
        /\ turned.current = [kind |-> "offline", start |-> x.off]
        /\ turned.done = Passed(x, x.off)
    BY <1>1, <2>2, TurnIs DEF Kinds
  <2>4. Chain(turned.done, turned.current) /\ \A i \in 1..Len(turned.done) : turned.done[i].end <= t
    BY <1>1, <2>2, TurnSound DEF Sound, Times, Kinds
  <2> HIDE DEF turned
  <2>5. /\ y \in Builders
        /\ y.link = turned.link /\ y.gear = turned.gear /\ y.charge = turned.charge
        /\ y.pending = turned.pending /\ y.park = turned.park /\ y.off = Never
        /\ y.current = turned.current /\ y.done = turned.done
    BY <2>3 DEF Builders
  <2> HIDE DEF y
  <2>6. y.current.kind = "offline" /\ y.current.start = x.off
    BY <2>3, <2>5
  <2>7. Times(y, t)
    BY <1>1, <2>2, <2>3, <2>4, <2>5, <2>6 DEF Times
  <2>8. Agrees(y) /\ Marks(y) /\ Rested(y, t) /\ Awaits(y, t)
    BY <2>2, <2>3, <2>5, <2>6 DEF Agrees, Marks, Rested, Awaits, Driving
  <2> QED
    BY <1>2, <2>1, <2>3, <2>4, <2>5, <2>7, <2>8 DEF Sound
<1>3. CASE ~(Driving(x) /\ x.off # Never /\ t - x.off >= OfflineEnd)
  <2>1. StepOffline(x, t) = x
    BY <1>3 DEF StepOffline
  <2>2. Awaits(x, t)
    BY <1>1, <1>3 DEF Sound, Marks, Awaits
  <2> QED
    BY <2>1, <2>2
<1> QED
  BY <1>2, <1>3

\* _step in a drive: a park that has lasted ends it.
LEMMA StepDrivingSound ==
    ASSUME NEW x, NEW t \in Nat \ {0}, Sound(x, t), x.link = "up", Driving(x)
    PROVE  LET y == StepDriving(x, t)
           IN  /\ Sound(y, t) /\ Calm(y)
               /\ y.link = x.link /\ y.gear = x.gear /\ y.charge = x.charge /\ y.pending = Never
               /\ \/ y.current = x.current /\ y.done = x.done
                  \/ x.gear = "park" /\ y.current.kind = "idle"
                     /\ \E since \in 0..t : since >= x.current.start /\ y.done = Passed(x, since)
<1> USE DEF Never
<1> DEFINE since == IF x.park = Never THEN t ELSE x.park
<1>1. /\ x \in Builders /\ x.current.start \in Nat /\ x.off \in Nat /\ x.park \in Nat
      /\ x.pending \in Nat /\ ParkDwell \in Nat \ {0} /\ x.current.kind = "drive"
  BY BuilderAssumption DEF Sound, Builders, Driving
<1>2. /\ since \in 0..t /\ since >= x.current.start /\ x.pending = Never /\ x.off = Never
  BY <1>1 DEF Sound, Marks, Times
<1>3. CASE x.gear = "park" /\ t - since >= ParkDwell
  <2> DEFINE turned == Turn(x, "idle", since)
             y == [turned EXCEPT !.park = Never]
  <2>1. StepDriving(x, t) = y
    BY <1>1, <1>2, <1>3 DEF StepDriving
  <2> HIDE DEF since
  <2>3. /\ turned \in Builders
        /\ turned.link = x.link /\ turned.gear = x.gear /\ turned.charge = x.charge
        /\ turned.pending = x.pending /\ turned.off = x.off
        /\ turned.current = [kind |-> "idle", start |-> since]
        /\ turned.done = Passed(x, since)
    BY <1>1, <1>2, TurnIs DEF Kinds
  <2>4. Chain(turned.done, turned.current) /\ \A i \in 1..Len(turned.done) : turned.done[i].end <= t
    BY <1>1, <1>2, TurnSound DEF Sound, Times, Kinds
  <2> HIDE DEF turned
  <2>5. /\ y \in Builders
        /\ y.link = turned.link /\ y.gear = turned.gear /\ y.charge = turned.charge
        /\ y.pending = turned.pending /\ y.off = turned.off /\ y.park = Never
        /\ y.current = turned.current /\ y.done = turned.done
    BY <2>3 DEF Builders
  <2> HIDE DEF y
  <2>6. y.current.kind = "idle" /\ y.current.start = since
    BY <2>3, <2>5
  <2>7. Times(y, t)
    BY <1>1, <1>2, <2>3, <2>4, <2>5, <2>6 DEF Times
  <2>8. Newest(y).kind = "drive"
    <3>1. since \in Nat /\ y.done = Passed(x, since)
      BY <1>2, <2>3, <2>5
    <3> QED
      BY <1>1, <3>1, PassedIs DEF Newest
  <2>9. Agrees(y) /\ Marks(y) /\ Calm(y)
    BY <1>1, <1>2, <2>3, <2>5, <2>6 DEF Agrees, Marks, Calm, Driving
  <2>10. Rested(y, t)
    BY <1>1, <1>2, <1>3, <2>3, <2>5, <2>6, <2>8 DEF Rested
  <2> QED
    BY <1>2, <1>3, <2>1, <2>3, <2>4, <2>5, <2>6, <2>7, <2>9, <2>10 DEF Sound
<1>4. ASSUME NEW park \in 0..t, park = Never \/ park >= x.current.start,
             NEW y, y = [x EXCEPT !.park = park]
      PROVE  /\ Sound(y, t) /\ Calm(y)
             /\ y.link = x.link /\ y.gear = x.gear /\ y.charge = x.charge /\ y.pending = Never
             /\ y.current = x.current /\ y.done = x.done
  <2>1. /\ y \in Builders
        /\ y.link = x.link /\ y.gear = x.gear /\ y.charge = x.charge
        /\ y.pending = x.pending /\ y.off = x.off /\ y.park = park
        /\ y.current = x.current /\ y.done = x.done
    BY <1>1, <1>4 DEF Builders
  <2>2. Times(y, t) /\ Chain(y.done, y.current) /\ Agrees(y)
    BY <1>1, <1>4, <2>1 DEF Sound, Times, Agrees
  <2>3. Marks(y) /\ Rested(y, t) /\ Calm(y)
    BY <1>1, <1>2, <1>4, <2>1 DEF Marks, Rested, Calm, Driving
  <2> QED
    BY <2>1, <2>2, <2>3, <1>2 DEF Sound
<1>5. CASE x.gear = "park" /\ t - since < ParkDwell
  <2>1. StepDriving(x, t) = [x EXCEPT !.park = since]
    BY <1>1, <1>2, <1>5 DEF StepDriving
  <2> HIDE DEF since
  <2> QED
    BY <1>2, <1>4, <2>1
<1>6. CASE x.gear = "moving"
  <2>1. StepDriving(x, t) = [x EXCEPT !.park = Never]
    BY <1>6 DEF StepDriving
  <2>2. 0 \in 0..t
    OBVIOUS
  <2> QED
    BY <1>4, <2>1, <2>2
<1>7. CASE x.gear \notin {"park", "moving"}
  <2>1. StepDriving(x, t) = x
    BY <1>7 DEF StepDriving
  <2> QED
    BY <1>1, <1>2, <2>1 DEF Calm
<1> QED
  BY <1>1, <1>2, <1>3, <1>5, <1>6, <1>7

\* The drive that may have begun, noted or forgotten.
Noted(x, mark) == [x EXCEPT !.pending = mark]

LEMMA PendingSound ==
    ASSUME NEW x, NEW t \in Nat \ {0}, Sound(x, t), x.link = "up", ~Driving(x),
           NEW mark \in {Never, IF x.pending = Never THEN t ELSE x.pending}
    PROVE  LET p == Noted(x, mark)
           IN  /\ Sound(p, t) /\ mark \in 0..t /\ p.pending = mark
               /\ p.link = x.link /\ p.gear = x.gear /\ p.charge = x.charge
               /\ p.current = x.current /\ p.done = x.done /\ p.park = Never /\ p.off = Never
<1> USE DEF Never
<1> DEFINE p == Noted(x, mark)
<1>1. /\ x \in Builders /\ x.current.start \in Nat /\ x.pending \in 0..t /\ x.current.start <= t
      /\ ParkDwell \in Nat \ {0}
  BY BuilderAssumption DEF Sound, Builders, Times
<1>2. mark \in 0..t
  BY <1>1
<1>3. /\ p \in Builders /\ p.pending = mark
      /\ p.link = x.link /\ p.gear = x.gear /\ p.charge = x.charge
      /\ p.current = x.current /\ p.done = x.done /\ p.park = x.park /\ p.off = x.off
  <2>1. mark \in Nat \cup {Never}
    BY <1>2
  <2> QED
    BY <1>1, <2>1 DEF Builders, Noted
<1> HIDE DEF p
<1>4. x.current.kind \in {"idle", "charge"} /\ x.park = Never /\ x.off = Never
  BY DEF Sound, Agrees, Marks, Driving
<1>5. Times(p, t) /\ Chain(p.done, p.current) /\ Agrees(p)
  BY <1>1, <1>2, <1>3 DEF Sound, Times, Agrees
<1>6. Marks(p)
  <2>1. mark # Never => mark = t \/ (mark = x.pending /\ x.pending # Never)
    BY <1>1
  <2>2. mark # Never => \/ mark >= x.current.start
                        \/ /\ x.current.kind = "idle" /\ Len(x.done) > 0 /\ Newest(x).kind = "charge"
                           /\ mark \in Newest(x).start..Newest(x).end
    BY <2>1, <1>1 DEF Sound, Marks
  <2>3. Newest(p) = Newest(x)
    BY <1>3 DEF Newest
  <2> QED
    BY <2>2, <2>3, <1>3, <1>4 DEF Marks, Driving
<1>7. Rested(p, t)
  <2>1. mark # Never => mark = t \/ (mark = x.pending /\ x.pending # Never)
    BY <1>1
  <2>2. Newest(p) = Newest(x) /\ Rested(x, t)
    BY <1>3 DEF Newest, Sound
  <2> QED
    BY <2>1, <2>2, <1>1, <1>3 DEF Rested
<1> QED
  BY <1>2, <1>3, <1>4, <1>5, <1>6, <1>7 DEF Sound, p

\* _step otherwise: a drive begins where the gear changed, a charge or an idle now.
LEMMA StepStandingSound ==
    ASSUME NEW x, NEW t \in Nat \ {0}, NEW g \in Groups, Sound(x, t), Calm(x),
           x.link = "up", ~Driving(x), g.reset => x.gear # "moving"
    PROVE  LET y == StepStanding(x, t, g)
           IN  /\ Sound(y, t) /\ Calm(y)
               /\ y.link = x.link /\ y.gear = x.gear /\ y.charge = x.charge
               /\ y.done = x.done \/ \E at \in 0..t : y.done = Passed(x, at)
               /\ Driving(y) => x.pending # Never /\ y.current.start = x.pending
               /\ y.pending \in {Never, x.pending, t}
<1> USE DEF Never
<1> DEFINE since == IF x.pending = Never THEN t ELSE x.pending
           mark == IF x.gear = "moving" THEN since ELSE Never
           p == [x EXCEPT !.pending = mark]
           fell == g.reset /\ x.current.start < t
           moves == x.gear = "moving" /\ t - since >= Debounce /\ g.moved
           y == StepStanding(x, t, g)
<1>1. /\ x \in Builders /\ x.current.start \in Nat /\ x.pending \in 0..t /\ x.current.start <= t
      /\ Debounce \in Nat \ {0} /\ since \in 0..t
  BY BuilderAssumption DEF Sound, Builders, Times
<1>2. x.current.kind \in {"idle", "charge"} /\ x.park = Never /\ x.off = Never
  BY DEF Sound, Agrees, Marks, Driving
<1>3. CASE moves
  <2> DEFINE turned == Turn(x, "drive", since)
  <2>1. y = [turned EXCEPT !.pending = Never, !.park = Never]
    BY <1>3 DEF StepStanding
  <2>2. since = x.pending /\ x.pending # Never
    BY <1>1, <1>3
  <2> HIDE DEF since, y
  <2>3. /\ turned \in Builders
        /\ turned.link = x.link /\ turned.gear = x.gear /\ turned.charge = x.charge /\ turned.off = x.off
        /\ turned.current = [kind |-> "drive", start |-> since]
        /\ turned.done = Passed(x, since)
    BY <1>1, <1>2, TurnIs DEF Kinds
  <2>4. /\ \/ since >= x.current.start
           \/ /\ x.current.kind = "idle" /\ Len(x.done) > 0 /\ Newest(x).kind = "charge"
              /\ since \in Newest(x).start..Newest(x).end
        /\ x.current.kind = "idle" /\ Len(x.done) > 0 =>
               /\ Newest(x).kind # "idle"
               /\ Newest(x).kind = "drive" => since >= x.current.start + ParkDwell
    BY <2>2 DEF Sound, Marks, Rested
  <2>5. Chain(turned.done, turned.current) /\ \A i \in 1..Len(turned.done) : turned.done[i].end <= t
    BY <1>1, <1>2, <2>4, TurnSound DEF Sound, Times, Kinds
  <2> HIDE DEF turned
  <2>6. /\ y \in Builders
        /\ y.link = turned.link /\ y.gear = turned.gear /\ y.charge = turned.charge
        /\ y.pending = Never /\ y.park = Never /\ y.off = turned.off
        /\ y.current = turned.current /\ y.done = turned.done
    BY <2>1, <2>3 DEF Builders
  <2>7. y.current.kind = "drive" /\ y.current.start = since
    BY <2>3, <2>6
  <2>8. Times(y, t)
    BY <1>1, <1>2, <2>3, <2>5, <2>6, <2>7 DEF Times
  <2>9. Agrees(y) /\ Marks(y) /\ Rested(y, t) /\ Calm(y)
    BY <1>2, <2>3, <2>6, <2>7 DEF Agrees, Marks, Rested, Calm, Driving
  <2> QED
    BY <1>1, <2>2, <2>3, <2>5, <2>6, <2>7, <2>8, <2>9 DEF Sound, y
<1>4. CASE ~moves
  <2> DEFINE charges == x.current.kind = "idle" /\ x.charge = "charging"
             again == x.current.kind = "charge" /\ fell
             ends == x.current.kind = "charge" /\ ~fell /\ x.charge = "ended"
  <2>1. y = IF charges \/ again THEN Turn(p, "charge", t)
            ELSE IF ends THEN Turn(p, "idle", t) ELSE p
    BY <1>2, <1>4 DEF StepStanding
  <2>2. /\ Sound(p, t) /\ mark \in 0..t /\ p.pending = mark
        /\ p.link = x.link /\ p.gear = x.gear /\ p.charge = x.charge
        /\ p.current = x.current /\ p.done = x.done /\ p.park = Never /\ p.off = Never
    <3>1. mark \in {Never, IF x.pending = Never THEN t ELSE x.pending} /\ p = Noted(x, mark)
      BY DEF Noted
    <3> HIDE DEF mark, p, y
    <3> QED
      BY <3>1, PendingSound
  <2>3. mark \in {Never, x.pending, t}
    OBVIOUS
  <2>4. mark # Never => x.gear = "moving" /\ mark = since
    OBVIOUS
  <2>5. charges /\ mark # Never => mark = t
    BY DEF Calm
  <2>6. again => mark = Never
    OBVIOUS
  <2>7. charges \/ again => x.current.kind # "drive" /\ ~ends
    BY <1>2
  <2> HIDE DEF mark, p, since, y
  <2>8. ASSUME NEW kind \in {"charge", "idle"}, y = Turn(p, kind, t),
               kind = "charge" => mark \in {Never, t},
               kind = "idle" => ends
        PROVE  /\ Sound(y, t) /\ Calm(y)
               /\ y.link = x.link /\ y.gear = x.gear /\ y.charge = x.charge
               /\ y.done = Passed(p, t) /\ y.pending = mark /\ ~Driving(y)
    <3>1. p \in Builders /\ kind \in Kinds /\ p.current.kind \in {"idle", "charge"}
      BY <1>2, <2>2 DEF Sound, Kinds
    <3>2. /\ y \in Builders
          /\ y.link = x.link /\ y.gear = x.gear /\ y.charge = x.charge
          /\ y.pending = mark /\ y.park = Never /\ y.off = Never
          /\ y.current = [kind |-> kind, start |-> t] /\ y.done = Passed(p, t)
      BY <2>2, <2>8, <3>1, TurnIs
    <3>3. y.current.kind = kind /\ y.current.start = t
      BY <3>2
    <3>4. Chain(y.done, y.current) /\ \A i \in 1..Len(y.done) : y.done[i].end <= t
      BY <1>1, <2>2, <2>8, <3>1, TurnSound DEF Sound, Times
    <3>5. Times(y, t)
      BY <2>2, <3>2, <3>3, <3>4 DEF Times
    <3>6. Agrees(y) /\ Calm(y) /\ ~Driving(y)
      BY <2>8, <3>2, <3>3 DEF Agrees, Calm, Driving
    <3>7. CASE kind = "charge"
      <4>1. Marks(y) /\ Rested(y, t)
        BY <3>7, <2>2, <2>8, <3>2, <3>3 DEF Marks, Rested, Driving
      <4> QED
        BY <4>1, <3>2, <3>4, <3>5, <3>6 DEF Sound
    <3>8. CASE kind = "idle"
      <4>1. p.current.kind = "charge"
        BY <2>2, <2>8, <3>8
      <4>2. Len(y.done) > 0 /\ Newest(y).kind = "charge" /\ Newest(y).start = x.current.start /\ Newest(y).end = t
        BY <2>2, <3>1, <3>2, <4>1, PassedIs DEF Newest, Builders
      <4>3. mark # Never => mark >= x.current.start
        BY <2>2, <4>1 DEF Sound, Marks
      <4>4. Marks(y)
        BY <1>1, <2>2, <3>2, <3>3, <3>8, <4>2, <4>3 DEF Marks, Driving
      <4>5. Rested(y, t)
        BY <4>2 DEF Rested
      <4> QED
        BY <4>4, <4>5, <3>2, <3>4, <3>5, <3>6 DEF Sound
    <3> QED
      BY <3>7, <3>8
  <2>9. Passed(p, t) = Passed(x, t)
    BY <2>2 DEF Passed
  <2>10. CASE charges \/ again
    <3>1. y = Turn(p, "charge", t) /\ mark \in {Never, t}
      BY <2>1, <2>5, <2>6, <2>10
    <3>2. t \in 0..t
      BY <1>1
    <3> QED
      BY <3>1, <3>2, <2>3, <2>8, <2>9 DEF y
  <2>11. CASE ends
    <3>1. y = Turn(p, "idle", t)
      BY <2>1, <2>7, <2>11
    <3>2. t \in 0..t
      BY <1>1
    <3> QED
      BY <3>1, <3>2, <2>3, <2>8, <2>9, <2>11 DEF y
  <2>12. CASE ~(charges \/ again \/ ends)
    <3>1. y = p
      BY <2>1, <2>12
    <3>2. Calm(y) /\ ~Driving(y)
      BY <1>2, <2>2, <2>12, <3>1 DEF Calm, Driving
    <3> QED
      BY <2>2, <2>3, <3>1, <3>2 DEF y
  <2> QED
    BY <2>10, <2>11, <2>12
<1> QED
  BY <1>3, <1>4

\* The drives of y are those of x, and the one in progress if it ended at a time.
Adds(x, y, at) ==
    \A i \in 1..Len(y.done) : y.done[i].kind = "drive" =>
        \/ \E j \in 1..Len(x.done) : y.done[i] = x.done[j]
        \/ Driving(x) /\ y.done[i].start = x.current.start /\ y.done[i].end = at

LEMMA PassedAdds ==
    ASSUME NEW x \in Builders, x.current.kind # "none", NEW at \in Nat, NEW y, y.done = Passed(x, at)
    PROVE  Adds(x, y, at)
BY PassedIs DEF Adds, Driving

\* What a builder that is not in a drive adds adds no drive to the one before it.
LEMMA AddsOn ==
    ASSUME NEW x, NEW y, NEW z, NEW at, NEW t, Adds(x, y, at), Adds(y, z, t), ~Driving(y)
    PROVE  Adds(x, z, at)
<1> SUFFICES ASSUME NEW i \in 1..Len(z.done), z.done[i].kind = "drive"
             PROVE  \/ \E j \in 1..Len(x.done) : z.done[i] = x.done[j]
                    \/ Driving(x) /\ z.done[i].start = x.current.start /\ z.done[i].end = at
  BY DEF Adds
<1>1. PICK j \in 1..Len(y.done) : z.done[i] = y.done[j]
  BY Zenon DEF Adds
<1> QED
  BY <1>1, Zenon DEF Adds

\* Whatever the methods do that keeps this, keeps the drives out of the period.
LEMMA ClearKept ==
    ASSUME NEW x, NEW y, NEW at, NEW period, Clear(x, period), Adds(x, y, at),
           Driving(y) => y.current.start >= period.to,
           y.pending # Never => y.pending >= period.to
    PROVE  Clear(y, period)
BY DEF Clear, Adds

\* One step keeps what _evaluate relies on, and the drives where they were.
Held(x, t, g) == Sound(x, t) /\ Calm(x) /\ (g.reset => x.gear # "moving")

LEMMA StepHeld ==
    ASSUME NEW x, NEW t \in Nat \ {0}, NEW g \in Groups, Held(x, t, g)
    PROVE  LET y == Step(x, t, g)
           IN  /\ Held(y, t, g) /\ y.link = x.link /\ y.gear = x.gear /\ y.charge = x.charge
               /\ \A period \in [from : Nat, to : 0..t] : Clear(x, period) => Clear(y, period)
               /\ \A since : x.link = "down" /\ Ended(x, since) => Ended(y, since)
<1> DEFINE y == Step(x, t, g)
<1>1. /\ x \in Builders /\ x.current.start \in Nat /\ x.pending \in Nat /\ x.off \in Nat
  BY DEF Held, Sound, Builders
<1>2. CASE x.link # "up"
  <2>1. y = StepOffline(x, t)
    BY <1>2 DEF Step
  <2>2. /\ Sound(y, t) /\ y.link = x.link /\ y.gear = x.gear /\ y.charge = x.charge
        /\ y = x \/ (Driving(x) /\ x.off # Never /\ y.done = Passed(x, x.off) /\ y.pending = x.pending
                     /\ y.current = [kind |-> "offline", start |-> x.off])
    BY <1>2, <2>1, StepOfflineSound DEF Held
  <2> HIDE DEF y
  <2>3. Held(y, t, g)
    BY <1>2, <2>2 DEF Held, Calm
  <2>4. CASE y = x
    BY <2>2, <2>3, <2>4 DEF y
  <2>5. CASE y # x
    <3>1. /\ Driving(x) /\ ~Driving(y) /\ y.done = Passed(x, x.off) /\ y.pending = x.pending
          /\ x.current.kind # "none"
      BY <2>2, <2>5 DEF Driving
    <3>2. Adds(x, y, x.off)
      BY <1>1, <3>1, PassedAdds
    <3>3. \A period \in [from : Nat, to : 0..t] : Clear(x, period) => Clear(y, period)
      BY <3>1, <3>2, ClearKept DEF Clear
    <3>4. \A since : x.link = "down" /\ Ended(x, since) => Ended(y, since)
      <4> SUFFICES ASSUME NEW since, Ended(x, since) PROVE Ended(y, since)
        OBVIOUS
      <4>1. x.off = since /\ since <= since
        BY <1>1, <3>1 DEF Ended
      <4> QED
        BY <4>1, <3>1, <3>2 DEF Ended, Adds
    <3> QED
      BY <2>2, <2>3, <3>3, <3>4 DEF y
  <2> QED
    BY <2>4, <2>5
<1>3. CASE x.link = "up" /\ Driving(x)
  <2>1. y = StepDriving(x, t)
    BY <1>3 DEF Step
  <2>2. /\ Sound(y, t) /\ Calm(y)
        /\ y.link = x.link /\ y.gear = x.gear /\ y.charge = x.charge /\ y.pending = Never
        /\ \/ y.current = x.current /\ y.done = x.done
           \/ x.gear = "park" /\ y.current.kind = "idle"
              /\ \E since \in 0..t : since >= x.current.start /\ y.done = Passed(x, since)
    BY <1>3, <2>1, StepDrivingSound DEF Held
  <2> HIDE DEF y
  <2>3. Held(y, t, g)
    BY <2>2 DEF Held
  <2>4. CASE y.current = x.current /\ y.done = x.done
    <3>1. \A period : Clear(x, period) => Clear(y, period)
      BY <2>2, <2>4 DEF Clear, Driving
    <3> QED
      BY <1>3, <2>2, <2>3, <3>1 DEF y
  <2>5. CASE ~(y.current = x.current /\ y.done = x.done)
    <3>1. PICK since \in 0..t : y.done = Passed(x, since)
      BY <2>2, <2>5
    <3>2. ~Driving(y) /\ x.current.kind # "none"
      BY <1>3, <2>2, <2>5 DEF Driving
    <3>3. Adds(x, y, since)
      BY <1>1, <3>1, <3>2, PassedAdds
    <3>4. \A period \in [from : Nat, to : 0..t] : Clear(x, period) => Clear(y, period)
      BY <2>2, <3>2, <3>3, ClearKept
    <3> QED
      BY <1>3, <2>2, <2>3, <3>4 DEF y
  <2> QED
    BY <2>4, <2>5
<1>4. CASE x.link = "up" /\ ~Driving(x)
  <2>1. y = StepStanding(x, t, g)
    BY <1>4 DEF Step
  <2>2. /\ Sound(y, t) /\ Calm(y)
        /\ y.link = x.link /\ y.gear = x.gear /\ y.charge = x.charge
        /\ y.done = x.done \/ \E at \in 0..t : y.done = Passed(x, at)
        /\ Driving(y) => x.pending # Never /\ y.current.start = x.pending
        /\ y.pending \in {Never, x.pending, t}
    BY <1>4, <2>1, StepStandingSound DEF Held
  <2> HIDE DEF y
  <2>3. Held(y, t, g)
    BY <2>2 DEF Held
  <2>4. x.current.kind # "none"
    BY <1>4 DEF Held, Sound, Agrees
  <2>5. \E at \in 0..t : Adds(x, y, at)
    <3>1. CASE y.done = x.done
      BY <3>1 DEF Adds
    <3>2. CASE y.done # x.done
      BY <1>1, <2>2, <2>4, <3>2, PassedAdds
    <3> QED
      BY <3>1, <3>2
  <2>6. \A period \in [from : Nat, to : 0..t] : Clear(x, period) => Clear(y, period)
    <3> SUFFICES ASSUME NEW period \in [from : Nat, to : 0..t], Clear(x, period)
                 PROVE  Clear(y, period)
      OBVIOUS
    <3>1. Driving(y) => y.current.start >= period.to
      BY <2>2 DEF Clear
    <3>2. y.pending # Never => y.pending >= period.to
      BY <2>2 DEF Clear
    <3> QED
      BY <2>5, <3>1, <3>2, ClearKept
  <2> QED
    BY <1>4, <2>2, <2>3, <2>6 DEF y
<1> QED
  BY <1>2, <1>3, <1>4

-----------------------------------------------------------------------------
(* How many steps a timestamp can take.                                    *)

Since(x, t) == IF x.pending = Never THEN t ELSE x.pending
Parked(x, t) == IF x.park = Never THEN t ELSE x.park

Moves(x, t, g) == x.gear = "moving" /\ t - Since(x, t) >= Debounce /\ g.moved
Fell(x, t, g) == g.reset /\ x.current.start < t
Charges(x, t, g) ==
    \/ x.current.kind = "idle" /\ x.charge = "charging"
    \/ x.current.kind = "charge" /\ Fell(x, t, g)
Ends(x, t, g) == x.current.kind = "charge" /\ ~Fell(x, t, g) /\ x.charge = "ended"

\* The session in progress is not the same after a step.
Turns(x, t, g) ==
    \/ x.link # "up" /\ Driving(x) /\ x.off # Never /\ t - x.off >= OfflineEnd
    \/ x.link = "up" /\ Driving(x) /\ x.gear = "park" /\ t - Parked(x, t) >= ParkDwell
    \/ x.link = "up" /\ ~Driving(x) /\ (Moves(x, t, g) \/ Charges(x, t, g) \/ Ends(x, t, g))

\* How often that can still be so at this timestamp, at most.
Rank(x, t, g) ==
    CASE x.link # "up" -> IF Driving(x) THEN 1 ELSE 0
      [] x.link = "up" /\ Driving(x) -> IF x.gear = "park" THEN 3 ELSE 0
      [] x.link = "up" /\ x.current.kind = "idle" ->
             IF x.charge = "charging" THEN 2 ELSE IF x.gear = "moving" THEN 1 ELSE 0
      [] x.link = "up" /\ x.current.kind = "charge" ->
             1 + (IF x.charge = "ended" THEN 1 ELSE 0) + (IF Fell(x, t, g) THEN 1 ELSE 0)

\* StepStanding by those conditions.
Standing(x, t, g) ==
    LET p == Noted(x, IF x.gear = "moving" THEN Since(x, t) ELSE Never)
    IN  IF Moves(x, t, g)
        THEN [Turn(x, "drive", Since(x, t)) EXCEPT !.pending = Never, !.park = Never]
        ELSE IF Charges(x, t, g) THEN Turn(p, "charge", t)
             ELSE IF Ends(x, t, g) THEN Turn(p, "idle", t) ELSE p

LEMMA StandingIs ==
    ASSUME NEW x \in Builders, NEW t \in Nat \ {0}, NEW g, x.current.kind \in {"idle", "charge"}
    PROVE  StepStanding(x, t, g) = Standing(x, t, g)
BY DEF StepStanding, Standing, Moves, Charges, Ends, Fell, Since, Noted

LEMMA RankType ==
    ASSUME NEW x, NEW t, NEW g, Held(x, t, g)
    PROVE  Rank(x, t, g) \in 0..3
<1>1. x.link = "up" => x.current.kind \in {"drive", "charge", "idle"}
  BY DEF Held, Sound, Agrees
<1>2. CASE x.link # "up"
  BY <1>2 DEF Rank
<1>3. CASE x.link = "up" /\ x.current.kind = "drive"
  BY <1>3 DEF Rank, Driving
<1>4. CASE x.link = "up" /\ x.current.kind = "idle"
  BY <1>4 DEF Rank, Driving
<1>5. CASE x.link = "up" /\ x.current.kind = "charge"
  BY <1>5 DEF Rank, Driving
<1> QED
  BY <1>1, <1>2, <1>3, <1>4, <1>5

\* A step after which the session is another one leaves fewer to come, and after one
\* that keeps it the next one keeps it too.
LEMMA StepTurns ==
    ASSUME NEW x, NEW t \in Nat \ {0}, NEW g \in Groups, Held(x, t, g)
    PROVE  LET y == Step(x, t, g)
           IN  /\ ~Turns(x, t, g) => y.current = x.current /\ ~Turns(y, t, g)
               /\ Turns(x, t, g) => y.current # x.current /\ Rank(y, t, g) < Rank(x, t, g)
<1> USE DEF Never
<1> DEFINE y == Step(x, t, g)
<1>1. /\ x \in Builders /\ x.current.start \in 0..t /\ x.pending \in 0..t /\ x.off \in 0..t
      /\ x.park \in 0..t
      /\ Debounce \in Nat \ {0} /\ ParkDwell \in Nat \ {0}
  BY BuilderAssumption DEF Held, Sound, Builders, Times
<1>2. /\ y.link = x.link /\ y.gear = x.gear /\ y.charge = x.charge
      /\ x.link = "up" => x.current.kind \in {"drive", "charge", "idle"}
  BY StepHeld DEF Held, Sound, Agrees
<1>3. CASE x.link # "up"
  <2>1. y = StepOffline(x, t)
    BY <1>3 DEF Step
  <2>2. CASE Turns(x, t, g)
    <3>1. Driving(x) /\ y.current.kind = "offline"
      <4>1. Driving(x) /\ y = [Turn(x, "offline", x.off) EXCEPT !.off = Never]
        BY <1>3, <2>1, <2>2 DEF Turns, StepOffline
      <4>2. /\ Turn(x, "offline", x.off) \in Builders
            /\ Turn(x, "offline", x.off).current = [kind |-> "offline", start |-> x.off]
        BY <1>1, <4>1, TurnIs DEF Driving, Kinds
      <4>3. y.current = [kind |-> "offline", start |-> x.off]
        BY <4>1, <4>2 DEF Builders
      <4> HIDE DEF y
      <4> QED
        BY <4>1, <4>3
    <3> HIDE DEF y
    <3>2. y.current # x.current
      BY <3>1 DEF Driving
    <3>3. Rank(x, t, g) = 1 /\ Rank(y, t, g) = 0
      BY <1>2, <1>3, <3>1 DEF Rank, Driving
    <3> QED
      BY <2>2, <3>2, <3>3 DEF y
  <2>3. CASE ~Turns(x, t, g)
    BY <1>3, <2>1, <2>3 DEF Turns, StepOffline
  <2> QED
    BY <2>2, <2>3
<1>4. CASE x.link = "up" /\ Driving(x)
  <2>1. y = StepDriving(x, t)
    BY <1>4 DEF Step
  <2>2. CASE Turns(x, t, g)
    <3>1. x.gear = "park" /\ y = [Turn(x, "idle", Parked(x, t)) EXCEPT !.park = Never]
      BY <1>1, <1>4, <2>1, <2>2 DEF Turns, StepDriving, Parked
    <3>2. Parked(x, t) \in Nat
      BY <1>1 DEF Parked
    <3>3. /\ Turn(x, "idle", Parked(x, t)) \in Builders
          /\ Turn(x, "idle", Parked(x, t)).current = [kind |-> "idle", start |-> Parked(x, t)]
      BY <1>1, <1>4, <3>2, TurnIs DEF Driving, Kinds
    <3>4. y.current.kind = "idle"
      BY <3>1, <3>3 DEF Builders
    <3> HIDE DEF y
    <3>5. Rank(x, t, g) = 3 /\ Rank(y, t, g) <= 2
      BY <1>2, <1>4, <3>1, <3>4 DEF Rank, Driving
    <3>6. y.current # x.current
      BY <1>4, <3>4 DEF Driving
    <3>7. Rank(y, t, g) < Rank(x, t, g)
      <4>1. Rank(y, t, g) \in 0..3
        BY StepHeld, RankType DEF y
      <4> QED
        BY <3>5, <4>1
    <3> QED
      BY <2>2, <3>6, <3>7 DEF y
  <2>3. CASE ~Turns(x, t, g)
    <3>1. \/ x.gear = "park" /\ y = [x EXCEPT !.park = Parked(x, t)]
          \/ x.gear # "park" /\ (y = x \/ y = [x EXCEPT !.park = Never])
      BY <1>1, <1>4, <2>1, <2>3 DEF Turns, StepDriving, Parked
    <3> HIDE DEF y
    <3>2. y.current = x.current /\ (x.gear = "park" => y.park = Parked(x, t))
      BY <1>1, <3>1 DEF Builders
    <3>3. x.gear = "park" => Parked(y, t) = Parked(x, t)
      BY <1>1, <3>2 DEF Parked
    <3> QED
      BY <1>2, <1>4, <2>3, <3>2, <3>3 DEF Turns, Driving, y
  <2> QED
    BY <2>2, <2>3
<1>5. CASE x.link = "up" /\ ~Driving(x)
  <2> DEFINE mark == IF x.gear = "moving" THEN Since(x, t) ELSE Never
             p == Noted(x, mark)
  <2>1. x.current.kind \in {"idle", "charge"} /\ y = StepStanding(x, t, g)
    BY <1>2, <1>5 DEF Step, Driving
  <2>2. y = IF Moves(x, t, g)
            THEN [Turn(x, "drive", Since(x, t)) EXCEPT !.pending = Never, !.park = Never]
            ELSE IF Charges(x, t, g) THEN Turn(p, "charge", t)
                 ELSE IF Ends(x, t, g) THEN Turn(p, "idle", t) ELSE p
    <3>1. y = Standing(x, t, g)
      BY <1>1, <2>1, StandingIs
    <3> HIDE DEF y
    <3> QED
      BY <3>1 DEF Standing
  <2> HIDE DEF y
  <2>3. mark \in 0..t /\ Since(x, t) \in 0..t
    BY <1>1 DEF Since
  <2>4. /\ p \in Builders /\ p.current = x.current /\ p.pending = mark
        /\ p.link = x.link /\ p.gear = x.gear /\ p.charge = x.charge
    BY <1>1, <2>3 DEF Noted, Builders
  <2> HIDE DEF p
  <2>5. CASE Moves(x, t, g)
    <3>1. /\ Turn(x, "drive", Since(x, t)) \in Builders
          /\ Turn(x, "drive", Since(x, t)).current = [kind |-> "drive", start |-> Since(x, t)]
      BY <1>1, <2>1, <2>3, TurnIs DEF Kinds
    <3>2. y.current.kind = "drive"
      BY <2>2, <2>5, <3>1 DEF Builders
    <3>3. Rank(y, t, g) = 0
      BY <1>2, <1>5, <2>5, <3>2 DEF Rank, Driving, Moves
    <3>4. Rank(x, t, g) > 0
      <4>1. CASE x.current.kind = "idle"
        BY <4>1, <1>5, <2>5 DEF Rank, Driving, Moves
      <4>2. CASE x.current.kind = "charge"
        BY <4>2, <1>5 DEF Rank, Driving
      <4> QED
        BY <2>1, <4>1, <4>2
    <3> QED
      BY <1>5, <2>1, <2>5, <3>2, <3>3, <3>4 DEF Turns, y
  <2>6. CASE ~Moves(x, t, g) /\ Charges(x, t, g)
    <3>1. y.current = [kind |-> "charge", start |-> t]
      BY <1>1, <2>1, <2>2, <2>4, <2>6, TurnIs DEF Kinds
    <3>2. y.current.kind = "charge" /\ y.current.start = t
      BY <3>1
    <3>3. Rank(y, t, g) = 1 + (IF x.charge = "ended" THEN 1 ELSE 0)
      BY <1>1, <1>2, <1>5, <3>2 DEF Rank, Driving, Fell
    <3>4. CASE x.current.kind = "idle"
      <4>1. Rank(x, t, g) = 2 /\ Rank(y, t, g) = 1
        <5>1. x.charge = "charging"
          BY <2>6, <3>4 DEF Charges
        <5>2. Rank(y, t, g) = 1
          BY <3>3, <5>1
        <5>3. Rank(x, t, g) = 2
          BY <1>5, <3>4, <5>1 DEF Rank, Driving
        <5> QED
          BY <5>2, <5>3
      <4> QED
        BY <1>5, <2>6, <3>2, <3>4, <4>1 DEF Turns, y
    <3>5. CASE x.current.kind = "charge"
      <4>1. /\ Rank(x, t, g) = 2 + (IF x.charge = "ended" THEN 1 ELSE 0)
            /\ x.current.start < t
        BY <1>5, <2>6, <3>5 DEF Rank, Driving, Charges, Fell
      <4> QED
        BY <1>1, <1>5, <2>6, <3>2, <3>3, <4>1 DEF Turns, y
    <3> QED
      BY <2>1, <3>4, <3>5
  <2>7. CASE ~Moves(x, t, g) /\ ~Charges(x, t, g) /\ Ends(x, t, g)
    <3>1. y.current = [kind |-> "idle", start |-> t]
      BY <1>1, <2>1, <2>2, <2>4, <2>7, TurnIs DEF Kinds
    <3>2. y.current.kind = "idle"
      BY <3>1
    <3>3. Rank(x, t, g) = 2
      BY <1>5, <2>7 DEF Rank, Driving, Ends
    <3>4. Rank(y, t, g) <= 1
      BY <1>2, <1>5, <2>7, <3>2 DEF Rank, Driving, Ends
    <3>5. y.current # x.current /\ Turns(x, t, g)
      BY <1>5, <2>7, <3>2 DEF Turns, Ends
    <3>6. Rank(y, t, g) < Rank(x, t, g)
      <4>1. Rank(y, t, g) \in 0..3
        BY StepHeld, RankType DEF y
      <4> QED
        BY <3>3, <3>4, <4>1
    <3> QED
      BY <3>5, <3>6 DEF y
  <2>8. CASE ~Moves(x, t, g) /\ ~Charges(x, t, g) /\ ~Ends(x, t, g)
    <3>1. y = p
      BY <2>2, <2>8
    <3>2. x.gear = "moving" => Since(y, t) = Since(x, t)
      BY <1>1, <2>4, <3>1 DEF Since
    <3>3. ~Moves(y, t, g)
      BY <2>4, <2>8, <3>1, <3>2 DEF Moves
    <3>4. ~Charges(y, t, g) /\ ~Ends(y, t, g)
      BY <2>4, <2>8, <3>1 DEF Charges, Ends, Fell
    <3> QED
      BY <1>5, <2>4, <2>8, <3>1, <3>3, <3>4 DEF Turns, Driving, y
  <2> QED
    BY <2>5, <2>6, <2>7, <2>8
<1> QED
  BY <1>3, <1>4, <1>5

-----------------------------------------------------------------------------
(* The loop of _evaluate.                                                  *)

\* What the steps of _evaluate leave as it was.
Keeps(x, y, t) ==
    /\ y.link = x.link /\ y.gear = x.gear /\ y.charge = x.charge
    /\ \A period \in [from : Nat, to : 0..t] : Clear(x, period) => Clear(y, period)
    /\ \A since : x.link = "down" /\ Ended(x, since) => Ended(y, since)

\* A state r of the loop with at most so many changes to come.
Loop(r, t, g, changes) ==
    /\ r.settled \in BOOLEAN /\ Held(r.b, t, g)
    /\ r.settled = TRUE => ~Turns(r.b, t, g)
    /\ r.settled = TRUE \/ Rank(r.b, t, g) <= changes

LEMMA AgainLoops ==
    ASSUME NEW r, NEW t \in Nat \ {0}, NEW g \in Groups, NEW changes \in Int, Loop(r, t, g, changes)
    PROVE  LET s == StepAgain(r, t, g)
           IN  Loop(s, t, g, changes - 1) /\ Keeps(r.b, s.b, t)
<1> DEFINE next == Step(r.b, t, g)
           s == StepAgain(r, t, g)
<1>1. CASE r.settled = TRUE
  <2>1. s = r
    BY <1>1 DEF StepAgain
  <2>2. Loop(r, t, g, changes - 1)
    BY <1>1 DEF Loop
  <2>3. Keeps(r.b, r.b, t)
    BY DEF Keeps
  <2> QED
    BY <2>1, <2>2, <2>3
<1>2. CASE r.settled = FALSE
  <2>1. /\ s.b = next
        /\ next.current = r.b.current => s.settled = TRUE
        /\ next.current # r.b.current => s.settled = FALSE
    BY <1>2 DEF StepAgain
  <2>2. Held(next, t, g) /\ Keeps(r.b, next, t)
    BY StepHeld DEF Loop, Keeps
  <2>3. Rank(r.b, t, g) \in Int /\ Rank(r.b, t, g) <= changes /\ Rank(next, t, g) \in Int
    BY <1>2, <2>2, RankType DEF Loop
  <2> HIDE DEF next, s
  <2>4. CASE Turns(r.b, t, g)
    <3>1. next.current # r.b.current /\ Rank(next, t, g) < Rank(r.b, t, g)
      BY <2>4, StepTurns DEF Loop, next
    <3>2. s.settled = FALSE /\ Rank(next, t, g) <= changes - 1
      BY <2>1, <2>3, <3>1
    <3> QED
      BY <2>1, <2>2, <3>2 DEF Loop, s
  <2>5. CASE ~Turns(r.b, t, g)
    <3>1. next.current = r.b.current /\ ~Turns(next, t, g)
      BY <2>5, StepTurns DEF Loop, next
    <3>2. s.settled = TRUE
      BY <2>1, <3>1
    <3> QED
      BY <2>1, <2>2, <3>1, <3>2 DEF Loop, s
  <2> QED
    BY <2>4, <2>5
<1> QED
  BY <1>1, <1>2 DEF Loop

LEMMA KeepsOn ==
    ASSUME NEW x, NEW y, NEW z, NEW t, Keeps(x, y, t), Keeps(y, z, t)
    PROVE  Keeps(x, z, t)
BY DEF Keeps

\* The recursive function of _evaluate takes the four turns.
LEMMA EvaluateIs ==
    ASSUME NEW x, NEW t, NEW g
    PROVE  LET one   == StepAgain([b |-> x, settled |-> FALSE], t, g)
               two   == StepAgain(one, t, g)
               three == StepAgain(two, t, g)
           IN  Evaluate(x, t, g) = StepAgain(three, t, g).b
<1> DEFINE zero  == [b |-> x, settled |-> FALSE]
           one   == StepAgain(zero, t, g)
           two   == StepAgain(one, t, g)
           three == StepAgain(two, t, g)
           four  == StepAgain(three, t, g)
           Body(f) == [n \in 0..4 |-> IF n = 0 THEN [b |-> x, settled |-> FALSE]
                                      ELSE StepAgain(f[n - 1], t, g)]
           turn == CHOOSE f : f = Body(f)
           h == [n \in 0..4 |-> CASE n = 0 -> zero [] n = 1 -> one [] n = 2 -> two
                                  [] n = 3 -> three [] OTHER -> four]
<1>1. Evaluate(x, t, g) = turn[4].b
  BY DEF Evaluate
<1>2. \A f : Body(f)[0] = zero /\ \A n \in 1..4 : Body(f)[n] = StepAgain(f[n - 1], t, g)
  OBVIOUS
<1>3. h = Body(h)
  <2>1. one = StepAgain(zero, t, g) /\ two = StepAgain(one, t, g)
        /\ three = StepAgain(two, t, g) /\ four = StepAgain(three, t, g)
    OBVIOUS
  <2> HIDE DEF zero, one, two, three, four
  <2>2. \A n \in 0..4 : h[n] = IF n = 0 THEN zero ELSE StepAgain(h[n - 1], t, g)
    <3>1. h[0] = zero /\ h[1] = one /\ h[2] = two /\ h[3] = three /\ h[4] = four
      OBVIOUS
    <3> HIDE DEF h
    <3>2. \A n \in 0..4 : n \in {0, 1, 2, 3, 4}
      OBVIOUS
    <3> QED
      BY <2>1, <3>1, <3>2
  <2> QED
    BY <2>2 DEF zero
<1>4. turn = Body(turn)
  BY <1>3
<1> HIDE DEF turn, h, Body
<1>5. turn[0] = zero /\ turn[1] = StepAgain(turn[0], t, g) /\ turn[2] = StepAgain(turn[1], t, g)
      /\ turn[3] = StepAgain(turn[2], t, g) /\ turn[4] = StepAgain(turn[3], t, g)
  <2> HIDE DEF zero
  <2>1. /\ turn[0] = zero
        /\ \A n \in 1..4 : turn[n] = StepAgain(turn[n - 1], t, g)
    BY <1>2, <1>4
  <2>2. 2 - 1 = 1 /\ 3 - 1 = 2 /\ 4 - 1 = 3 /\ 1 - 1 = 0 /\ {1, 2, 3, 4} \subseteq 1..4
    OBVIOUS
  <2> QED
    BY <2>1, <2>2
<1> QED
  BY <1>1, <1>5

\* Four steps are enough for whatever one timestamp brings.
LEMMA EvaluateSettles ==
    ASSUME NEW x, NEW t \in Nat \ {0}, NEW g \in Groups, Held(x, t, g)
    PROVE  LET y == Evaluate(x, t, g)
           IN  Held(y, t, g) /\ Keeps(x, y, t) /\ ~Turns(y, t, g)
<1> DEFINE start == [b |-> x, settled |-> FALSE]
           one   == StepAgain(start, t, g)
           two   == StepAgain(one, t, g)
           three == StepAgain(two, t, g)
           four  == StepAgain(three, t, g)
<1>1. start.b = x /\ start.settled = FALSE
  OBVIOUS
<1>2. Evaluate(x, t, g) = four.b
  BY EvaluateIs
<1> HIDE DEF start
<1>3. Loop(start, t, g, 3)
  <2>1. Rank(x, t, g) \in 0..3
    BY RankType
  <2>2. Rank(x, t, g) <= 3
    BY <2>1
  <2> QED
    BY <1>1, <2>2 DEF Loop
<1>4. Loop(one, t, g, 3 - 1) /\ Keeps(x, one.b, t)
  BY <1>1, <1>3, AgainLoops
<1> HIDE DEF one
<1>5. Loop(two, t, g, (3 - 1) - 1) /\ Keeps(one.b, two.b, t)
  BY <1>4, AgainLoops
<1> HIDE DEF two
<1>6. Loop(three, t, g, ((3 - 1) - 1) - 1) /\ Keeps(two.b, three.b, t)
  BY <1>5, AgainLoops
<1> HIDE DEF three
<1>7. Loop(four, t, g, (((3 - 1) - 1) - 1) - 1) /\ Keeps(three.b, four.b, t)
  BY <1>6, AgainLoops
<1> HIDE DEF four
<1>8. ~(Rank(four.b, t, g) <= (((3 - 1) - 1) - 1) - 1)
  BY <1>7, RankType DEF Loop
<1>9. Held(four.b, t, g) /\ ~Turns(four.b, t, g)
  BY <1>7, <1>8 DEF Loop
<1>10. Keeps(x, four.b, t)
  <2>1. Keeps(x, two.b, t)
    BY <1>4, <1>5, KeepsOn
  <2>2. Keeps(x, three.b, t)
    BY <2>1, <1>6, KeepsOn
  <2> QED
    BY <2>2, <1>7, KeepsOn
<1> QED
  BY <1>2, <1>9, <1>10

-----------------------------------------------------------------------------
(* The connection.                                                         *)

LEMMA DoneType ==
    ASSUME NEW x \in Builders
    PROVE  \A i \in 1..Len(x.done) :
               x.done[i] \in Sessions /\ x.done[i].start \in Nat /\ x.done[i].end \in Nat
<1>1. x.done \in Seq(Sessions)
  BY DEF Builders
<1>2. \A i \in 1..Len(x.done) : x.done[i] \in Sessions
  BY <1>1
<1> QED
  BY <1>2 DEF Sessions

LEMMA SoundLater ==
    ASSUME NEW x, NEW s \in Nat, NEW t \in Nat, s <= t, Sound(x, s)
    PROVE  Sound(x, t)
<1>1. /\ x \in Builders /\ x.current.start \in Nat /\ x.pending \in Nat /\ x.park \in Nat
      /\ x.off \in Nat /\ ParkDwell \in Nat
  BY BuilderAssumption DEF Sound, Builders
<1>2. \A i \in 1..Len(x.done) : x.done[i].end \in Nat
  BY <1>1, DoneType
<1>3. Times(x, t)
  BY <1>1, <1>2 DEF Sound, Times
<1>4. Rested(x, t)
  BY <1>1 DEF Sound, Rested
<1> QED
  BY <1>3, <1>4 DEF Sound

\* After an outage that was too short nothing has changed; after a long one the drive
\* before it is over; and an idle begins.
LEMMA ConnectSound ==
    ASSUME NEW x, NEW s \in Nat, NEW t \in Nat, s < t, Sound(x, s)
    PROVE  LET y == Connect(x, t)
           IN  /\ Sound(y, t)
               /\ y.link = "up" /\ y.gear = x.gear /\ y.charge = x.charge
               /\ x.link = "up" => y = x
               /\ x.link # "up" => y.pending = Never
               /\ \A period \in [from : Nat, to : 0..s] :
                      Clear(x, period) => Clear(y, period)
               /\ \A since \in 0..s :
                      x.link = "down" /\ Ended(x, since) /\ t - since >= OfflineEnd
                          => Clear(y, [from |-> since, to |-> t])
<1> USE DEF Never
<1> DEFINE up == [x EXCEPT !.link = "up", !.off = Never]
           y == Connect(x, t)
<1>1. /\ x \in Builders /\ x.current.start \in 0..s /\ x.pending \in Nat /\ x.park \in Nat
      /\ x.off \in 0..s /\ OfflineEnd \in Nat \ {0} /\ t \in Nat \ {0}
      /\ \A i \in 1..Len(x.done) : x.done[i].end <= s /\ x.done[i].end \in Nat
  <2>1. x \in Builders /\ Times(x, s)
    BY DEF Sound
  <2> QED
    BY <2>1, BuilderAssumption, DoneType DEF Builders, Times
<1>2. Sound(x, t)
  BY SoundLater
<1>3. /\ up \in Builders /\ up.link = "up" /\ up.off = Never
      /\ up.gear = x.gear /\ up.charge = x.charge /\ up.pending = x.pending /\ up.park = x.park
      /\ up.current = x.current /\ up.done = x.done
  BY <1>1 DEF Builders
<1>4. x.link # "up" => x.pending = Never /\ x.park = Never
  BY DEF Sound, Marks
<1>5. \A i \in 1..Len(up.done) : up.done[i].end <= t
  BY <1>1, <1>3
<1>6. CASE x.link = "up"
  <2>1. y = x
    BY <1>6 DEF Connect
  <2> QED
    BY <1>2, <1>6, <2>1
<1>7. CASE x.link = "unknown"
  <2>1. x.current = NoSession /\ x.done = <<>>
    BY <1>7 DEF Sound, Agrees
  <2>2. x.current.kind = "none"
    BY <2>1 DEF NoSession
  <2>3. y = [up EXCEPT !.current = [kind |-> "idle", start |-> t]]
    BY <1>3, <1>7, <2>1, <2>2 DEF Connect, Open, Driving
  <2> HIDE DEF up, y
  <2>4. [kind |-> "idle", start |-> t] \in [kind : Kinds \cup {"none"}, start : Nat]
    BY DEF Kinds
  <2>5. /\ y \in Builders /\ y.link = "up" /\ y.off = Never
        /\ y.gear = x.gear /\ y.charge = x.charge /\ y.pending = Never /\ y.park = Never
        /\ y.current = [kind |-> "idle", start |-> t] /\ y.done = <<>>
    BY <1>3, <1>4, <1>7, <2>1, <2>3, <2>4 DEF Builders
  <2>6. y.current.kind = "idle" /\ y.current.start = t /\ Len(y.done) = 0
    BY <2>5
  <2>7. Chain(y.done, y.current) /\ Times(y, t)
    BY <2>5, <2>6 DEF Chain, Linked, Times
  <2>8. Agrees(y) /\ Marks(y) /\ Rested(y, t) /\ \A period : Clear(y, period)
    BY <2>5, <2>6 DEF Agrees, Marks, Rested, Driving, Clear
  <2> QED
    BY <1>7, <2>5, <2>7, <2>8 DEF Sound, y
<1>8. CASE x.link = "down" /\ x.current.kind = "offline"
  <2>1. up.current # NoSession
    BY <1>3, <1>8 DEF NoSession
  <2>2. y = Turn(up, "idle", t)
    <3>1. Close(up, t).current = NoSession
      BY <1>3, <2>1 DEF Close, Builders
    <3> QED
      BY <1>3, <1>8, <3>1 DEF Connect, Turn, Driving
  <2> HIDE DEF up, y
  <2>3. /\ y \in Builders /\ y.link = "up" /\ y.off = Never
        /\ y.gear = x.gear /\ y.charge = x.charge /\ y.pending = Never /\ y.park = Never
        /\ y.current = [kind |-> "idle", start |-> t] /\ y.done = Passed(up, t)
    BY <1>3, <1>4, <1>8, <2>2, TurnIs DEF Kinds
  <2>4. y.current.kind = "idle" /\ y.current.start = t
    BY <2>3
  <2>5. Chain(y.done, y.current) /\ \A i \in 1..Len(y.done) : y.done[i].end <= t
    <3>1. Chain(up.done, up.current) /\ t >= up.current.start
      BY <1>1, <1>3 DEF Sound
    <3> QED
      BY <1>3, <1>5, <1>8, <2>2, <3>1, TurnSound DEF Kinds
  <2>6. Times(y, t)
    BY <2>3, <2>4, <2>5 DEF Times
  <2>7. Newest(y).kind = "offline"
    <3>1. Kept([kind |-> up.current.kind, start |-> up.current.start, end |-> t])
      BY <1>1, <1>3 DEF Kept
    <3>2. y.done = Append(up.done, [kind |-> up.current.kind, start |-> up.current.start, end |-> t])
      BY <2>3, <3>1 DEF Passed
    <3> DEFINE gone == [kind |-> up.current.kind, start |-> up.current.start, end |-> t]
    <3>3. gone.kind = "offline" /\ gone \in Sessions
      BY <1>3, <1>8 DEF Sessions, Kinds, Builders
    <3> HIDE DEF gone
    <3>4. Newest(y) = gone
      BY <1>3, <3>2, <3>3 DEF Newest, Builders, gone
    <3> QED
      BY <3>3, <3>4
  <2>8. Agrees(y) /\ Marks(y) /\ Rested(y, t)
    BY <2>3, <2>4, <2>7 DEF Agrees, Marks, Rested, Driving
  <2>9. Adds(up, y, t) /\ ~Driving(up) /\ ~Driving(y)
    BY <1>3, <1>8, <2>3, <2>4, PassedAdds DEF Driving
  <2>10. \A period : Clear(x, period) => Clear(y, period)
    BY <1>3, <2>3, <2>9 DEF Clear, Adds
  <2>11. \A since \in 0..s : Ended(x, since) => Clear(y, [from |-> since, to |-> t])
    BY <1>3, <2>3, <2>9 DEF Clear, Adds, Ended
  <2> QED
    BY <1>8, <2>3, <2>5, <2>6, <2>8, <2>10, <2>11 DEF Sound, y
<1>9. CASE x.link = "down" /\ Driving(x) /\ t - x.off < OfflineEnd
  <2>1. x.off # Never /\ y = up
    BY <1>9 DEF Sound, Marks, Connect
  <2> HIDE DEF up, y
  <2>2. Times(y, t) /\ Chain(y.done, y.current)
    BY <1>2, <1>3, <2>1 DEF Sound, Times
  <2>3. Agrees(y) /\ Marks(y) /\ Rested(y, t)
    BY <1>3, <1>4, <1>9, <2>1 DEF Agrees, Marks, Rested, Driving
  <2>4. \A period : Clear(x, period) => Clear(y, period)
    BY <1>3, <2>1 DEF Clear, Driving
  <2>5. \A since \in 0..s : ~(Ended(x, since) /\ t - since >= OfflineEnd)
    BY <1>1, <1>9 DEF Ended
  <2> QED
    BY <1>3, <1>4, <1>9, <2>1, <2>2, <2>3, <2>4, <2>5 DEF Sound, y
<1>10. CASE x.link = "down" /\ Driving(x) /\ ~(t - x.off < OfflineEnd)
  <2> DEFINE asleep == Turn(up, "offline", x.off)
  <2>1. x.off # Never /\ x.off >= x.current.start /\ t - x.off >= OfflineEnd /\ x.current.kind = "drive"
    BY <1>1, <1>10 DEF Sound, Marks, Driving
  <2>2. y = Turn(asleep, "idle", t)
    BY <1>10, <2>1 DEF Connect
  <2> HIDE DEF up, y
  <2>3. /\ asleep \in Builders /\ asleep.link = "up" /\ asleep.off = Never
        /\ asleep.gear = x.gear /\ asleep.charge = x.charge /\ asleep.pending = Never /\ asleep.park = Never
        /\ asleep.current = [kind |-> "offline", start |-> x.off] /\ asleep.done = Passed(up, x.off)
    BY <1>1, <1>3, <1>4, <1>10, <2>1, TurnIs DEF Kinds
  <2>4. asleep.current.kind = "offline" /\ asleep.current.start = x.off
    BY <2>3
  <2>5. Chain(asleep.done, asleep.current) /\ \A i \in 1..Len(asleep.done) : asleep.done[i].end <= t
    <3>1. /\ Chain(up.done, up.current) /\ x.off >= up.current.start /\ x.off \in 0..t
          /\ up.current.kind = "drive"
      BY <1>1, <1>3, <2>1 DEF Sound
    <3> QED
      BY <1>3, <1>5, <3>1, TurnSound DEF Kinds
  <2>6. Adds(up, asleep, x.off) /\ Driving(up)
    <3>1. up.current.kind = "drive" /\ x.off \in Nat
      BY <1>1, <1>3, <2>1
    <3> QED
      BY <1>3, <2>3, <3>1, PassedAdds DEF Driving
  <2> HIDE DEF asleep
  <2>7. /\ y \in Builders /\ y.link = "up" /\ y.off = Never
        /\ y.gear = x.gear /\ y.charge = x.charge /\ y.pending = Never /\ y.park = Never
        /\ y.current = [kind |-> "idle", start |-> t] /\ y.done = Passed(asleep, t)
    BY <2>2, <2>3, <2>4, TurnIs DEF Kinds
  <2>8. y.current.kind = "idle" /\ y.current.start = t
    BY <2>7
  <2>9. Chain(y.done, y.current) /\ \A i \in 1..Len(y.done) : y.done[i].end <= t
    <3>1. t >= asleep.current.start /\ t \in 0..t
      BY <1>1, <2>4
    <3> QED
      BY <2>2, <2>3, <2>4, <2>5, <3>1, TurnSound DEF Kinds
  <2>10. Times(y, t)
    BY <2>7, <2>8, <2>9 DEF Times
  <2>11. Newest(y).kind = "offline"
    <3> DEFINE gone == [kind |-> asleep.current.kind, start |-> asleep.current.start, end |-> t]
    <3>1. gone.kind = "offline" /\ gone \in Sessions
      BY <1>1, <2>4 DEF Sessions, Kinds
    <3>2. Kept(gone)
      BY <1>1, <2>1, <2>4 DEF Kept
    <3>3. y.done = Append(asleep.done, gone)
      BY <2>7, <3>2 DEF Passed
    <3> HIDE DEF gone
    <3>4. Newest(y) = gone
      BY <2>3, <3>1, <3>3 DEF Newest, Builders
    <3> QED
      BY <3>1, <3>4
  <2>12. Agrees(y) /\ Marks(y) /\ Rested(y, t)
    BY <2>7, <2>8, <2>11 DEF Agrees, Marks, Rested, Driving
  <2>13. Adds(asleep, y, t) /\ ~Driving(asleep) /\ ~Driving(y)
    BY <2>3, <2>4, <2>7, <2>8, PassedAdds DEF Driving
  <2>14. Adds(x, y, x.off)
    <3>1. Adds(x, asleep, x.off)
      BY <1>3, <1>10, <2>6 DEF Adds, Driving
    <3> QED
      BY <2>13, <3>1, AddsOn
  <2>15. \A period : Clear(x, period) => Clear(y, period)
    BY <2>7, <2>13, <2>14, ClearKept
  <2>16. \A since \in 0..s : Ended(x, since) => Clear(y, [from |-> since, to |-> t])
    <3> SUFFICES ASSUME NEW since \in 0..s, Ended(x, since)
                 PROVE  Clear(y, [from |-> since, to |-> t])
      OBVIOUS
    <3>1. x.off = since
      BY <1>10 DEF Ended
    <3>2. ASSUME NEW i \in 1..Len(y.done), y.done[i].kind = "drive"
          PROVE  y.done[i].end <= since
      <4>1. \/ \E j \in 1..Len(x.done) : y.done[i] = x.done[j]
            \/ y.done[i].end = x.off
        BY <2>14, <3>2 DEF Adds
      <4>2. CASE \E j \in 1..Len(x.done) : y.done[i] = x.done[j]
        BY <3>2, <4>2 DEF Ended
      <4>3. CASE y.done[i].end = x.off
        BY <3>1, <4>3
      <4> QED
        BY <4>1, <4>2, <4>3
    <3> QED
      BY <2>7, <2>13, <3>2 DEF Clear
  <2> QED
    BY <1>10, <2>7, <2>9, <2>10, <2>12, <2>15, <2>16 DEF Sound, y
<1>11. x.link \in {"unknown", "up", "down"} /\ (x.link = "down" => Driving(x) \/ x.current.kind = "offline")
  BY DEF Sound, Builders, Agrees, Driving
<1> QED
  BY <1>6, <1>7, <1>8, <1>9, <1>10, <1>11

\* A builder that has lost the connection and every value.
Down(p) == [p EXCEPT !.link = "down", !.pending = Never, !.park = Never,
                     !.gear = "unknown", !.charge = "unknown"]

LEMMA DownIs ==
    ASSUME NEW p \in Builders
    PROVE  /\ Down(p) \in Builders /\ Down(p).link = "down"
           /\ Down(p).gear = "unknown" /\ Down(p).charge = "unknown"
           /\ Down(p).pending = Never /\ Down(p).park = Never /\ Down(p).off = p.off
           /\ Down(p).current = p.current /\ Down(p).done = p.done
BY DEF Down, Builders, Never

\* The car goes to sleep from an idle or a charge.
LEMMA SleepSound ==
    ASSUME NEW p \in Builders, NEW t \in Nat \ {0}, p.current.kind \in {"idle", "charge"},
           Chain(p.done, p.current), \A i \in 1..Len(p.done) : p.done[i].end <= t,
           p.current.start <= t, p.off = Never
    PROVE  LET y == Turn(Down(p), "offline", t)
           IN  /\ Sound(y, t) /\ y.link = "down" /\ y.gear = "unknown" /\ y.charge = "unknown"
               /\ Adds(p, y, t) /\ ~Driving(p) /\ ~Driving(y) /\ y.pending = Never
<1> USE DEF Never
<1> DEFINE d == Down(p)
           y == Turn(d, "offline", t)
<1>1. /\ d \in Builders /\ d.link = "down" /\ d.gear = "unknown" /\ d.charge = "unknown"
      /\ d.pending = Never /\ d.park = Never /\ d.off = Never
      /\ d.current = p.current /\ d.done = p.done
  BY DownIs
<1> HIDE DEF d
<1>2. /\ y \in Builders /\ y.link = "down" /\ y.gear = "unknown" /\ y.charge = "unknown"
      /\ y.pending = Never /\ y.park = Never /\ y.off = Never
      /\ y.current = [kind |-> "offline", start |-> t] /\ y.done = Passed(d, t)
  BY <1>1, TurnIs DEF Kinds
<1>3. Chain(y.done, y.current) /\ \A i \in 1..Len(y.done) : y.done[i].end <= t
  <2>1. /\ t >= d.current.start /\ t \in 0..t /\ d.current.start \in Nat
        /\ \A i \in 1..Len(d.done) : d.done[i].end <= t
    BY <1>1 DEF Builders
  <2> QED
    BY <1>1, <2>1, TurnSound DEF Kinds
<1>4. Adds(d, y, t)
  BY <1>1, <1>2, PassedAdds
<1> HIDE DEF y
<1>5. y.current.kind = "offline" /\ y.current.start = t
  BY <1>2
<1>6. Times(y, t) /\ Agrees(y) /\ Marks(y) /\ Rested(y, t) /\ ~Driving(y) /\ ~Driving(p)
  BY <1>2, <1>3, <1>5 DEF Times, Agrees, Marks, Rested, Driving
<1>7. Adds(p, y, t)
  BY <1>1, <1>4 DEF Adds, Driving
<1> QED
  BY <1>2, <1>3, <1>6, <1>7 DEF Sound, y, d

\* A drive in park is over, another one waits for what comes, and anything else ends.
LEMMA DisconnectSound ==
    ASSUME NEW x, NEW t \in Nat \ {0}, Sound(x, t)
    PROVE  LET y == Disconnect(x, t)
           IN  /\ Sound(y, t) /\ y.link = "down"
               /\ x.link = "down" => y = x
               /\ x.link # "down" => Ended(y, t) /\ y.gear = "unknown" /\ y.charge = "unknown"
               /\ \A period \in [from : Nat, to : 0..t] : Clear(x, period) => Clear(y, period)
<1> USE DEF Never
<1> DEFINE y == Disconnect(x, t)
<1>1. /\ x \in Builders /\ x.current.start \in 0..t /\ x.park \in 0..t
      /\ \A i \in 1..Len(x.done) : x.done[i].end <= t /\ x.done[i].end \in Nat
  <2>1. x \in Builders /\ Times(x, t)
    BY DEF Sound
  <2> QED
    BY <2>1, DoneType DEF Builders, Times
<1>2. CASE x.link = "down"
  <2>1. y = x
    BY <1>2 DEF Disconnect
  <2> QED
    BY <1>2, <2>1
<1>3. CASE x.link = "unknown"
  <2>1. x.current = NoSession /\ x.done = <<>> /\ x.off = Never
    BY <1>3 DEF Sound, Agrees, Marks
  <2>2. x.current.kind = "none"
    BY <2>1 DEF NoSession
  <2> DEFINE d == Down(x)
  <2>3. /\ d \in Builders /\ d.link = "down" /\ d.gear = "unknown" /\ d.charge = "unknown"
        /\ d.pending = Never /\ d.park = Never /\ d.off = Never
        /\ d.current = x.current /\ d.done = x.done
    BY <1>1, <2>1, DownIs
  <2>4. y = Turn(d, "offline", t)
    BY <1>3, <2>2, <2>3 DEF Disconnect, Driving, Down
  <2> HIDE DEF y, d
  <2>5. y = [d EXCEPT !.current = [kind |-> "offline", start |-> t]]
    BY <2>1, <2>3, <2>4 DEF Turn, Close, Open
  <2>6. [kind |-> "offline", start |-> t] \in [kind : Kinds \cup {"none"}, start : Nat]
    BY DEF Kinds
  <2>7. /\ y \in Builders /\ y.link = "down" /\ y.gear = "unknown" /\ y.charge = "unknown"
        /\ y.pending = Never /\ y.park = Never /\ y.off = Never
        /\ y.current = [kind |-> "offline", start |-> t] /\ y.done = <<>>
    BY <2>1, <2>3, <2>5, <2>6 DEF Builders
  <2>8. y.current.kind = "offline" /\ y.current.start = t /\ Len(y.done) = 0
    BY <2>7
  <2>9. Chain(y.done, y.current) /\ Times(y, t)
    BY <2>7, <2>8 DEF Chain, Linked, Times
  <2>10. /\ Agrees(y) /\ Marks(y) /\ Rested(y, t) /\ Ended(y, t)
         /\ \A period : Clear(y, period)
    BY <2>7, <2>8 DEF Agrees, Marks, Rested, Driving, Clear, Ended
  <2> QED
    BY <1>3, <2>7, <2>9, <2>10 DEF Sound, y
<1>4. CASE x.link = "up" /\ Driving(x) /\ x.park # Never
  <2> DEFINE p == Turn(x, "idle", x.park)
  <2>1. x.park >= x.current.start /\ x.current.kind = "drive" /\ x.off = Never
    BY <1>4 DEF Sound, Marks, Driving
  <2>2. /\ p \in Builders /\ p.off = Never
        /\ p.current = [kind |-> "idle", start |-> x.park] /\ p.done = Passed(x, x.park)
    BY <1>1, <2>1, TurnIs DEF Kinds
  <2>3. Chain(p.done, p.current) /\ \A i \in 1..Len(p.done) : p.done[i].end <= t
    BY <1>1, <2>1, TurnSound DEF Sound, Kinds
  <2>4. Adds(x, p, x.park)
    BY <1>1, <2>1, <2>2, PassedAdds
  <2>5. p.current.kind = "idle" /\ p.current.start = x.park
    BY <2>2
  <2>6. ~Driving(Down(p))
    BY <2>2, <2>5, DownIs DEF Driving
  <2>7. y = Turn(Down(p), "offline", t)
    BY <1>4, <2>6 DEF Disconnect, Down
  <2> HIDE DEF y, p
  <2>8. /\ Sound(y, t) /\ y.link = "down" /\ y.gear = "unknown" /\ y.charge = "unknown"
        /\ Adds(p, y, t) /\ ~Driving(p) /\ ~Driving(y) /\ y.pending = Never
    BY <1>1, <2>2, <2>3, <2>5, <2>7, SleepSound
  <2>9. Adds(x, y, x.park)
    BY <2>4, <2>8, AddsOn
  <2>10. \A period : Clear(x, period) => Clear(y, period)
    BY <2>8, <2>9, ClearKept
  <2>11. Ended(y, t)
    BY <1>1, <2>8, <2>9 DEF Ended, Sound, Times
  <2> QED
    BY <1>4, <2>8, <2>10, <2>11 DEF y
<1>5. CASE x.link = "up" /\ Driving(x) /\ x.park = Never
  <2> DEFINE d == Down(x)
  <2>1. /\ d \in Builders /\ d.link = "down" /\ d.gear = "unknown" /\ d.charge = "unknown"
        /\ d.pending = Never /\ d.park = Never
        /\ d.current = x.current /\ d.done = x.done
    BY <1>1, DownIs
  <2>2. y = [d EXCEPT !.off = t]
    BY <1>5, <2>1 DEF Disconnect, Driving, Down
  <2> HIDE DEF y, d
  <2>3. /\ y \in Builders /\ y.link = "down" /\ y.gear = "unknown" /\ y.charge = "unknown"
        /\ y.pending = Never /\ y.park = Never /\ y.off = t
        /\ y.current = x.current /\ y.done = x.done
    BY <2>1, <2>2 DEF Builders
  <2>4. Chain(y.done, y.current) /\ Times(y, t)
    BY <1>1, <2>3 DEF Sound, Times
  <2>5. Agrees(y) /\ Marks(y) /\ Rested(y, t)
    BY <1>1, <1>5, <2>3 DEF Agrees, Marks, Rested, Driving
  <2>6. Ended(y, t) /\ \A period : Clear(x, period) => Clear(y, period)
    BY <1>1, <2>3 DEF Ended, Clear, Driving
  <2> QED
    BY <1>5, <2>3, <2>4, <2>5, <2>6 DEF Sound, y
<1>6. CASE x.link = "up" /\ ~Driving(x)
  <2>1. x.current.kind \in {"idle", "charge"} /\ x.off = Never /\ Chain(x.done, x.current)
    BY <1>6 DEF Sound, Agrees, Marks, Driving
  <2>2. ~Driving(Down(x))
    BY <1>1, <1>6, DownIs DEF Driving
  <2>3. y = Turn(Down(x), "offline", t)
    BY <1>6, <2>2 DEF Disconnect, Down
  <2> HIDE DEF y
  <2>4. /\ Sound(y, t) /\ y.link = "down" /\ y.gear = "unknown" /\ y.charge = "unknown"
        /\ Adds(x, y, t) /\ ~Driving(x) /\ ~Driving(y) /\ y.pending = Never
    BY <1>1, <2>1, <2>3, SleepSound
  <2>5. Ended(y, t) /\ \A period : Clear(x, period) => Clear(y, period)
    BY <1>1, <2>4 DEF Ended, Clear, Adds
  <2> QED
    BY <1>6, <2>4, <2>5 DEF y
<1>7. x.link \in {"unknown", "up", "down"}
  BY <1>1 DEF Builders
<1> QED
  BY <1>2, <1>3, <1>4, <1>5, <1>6, <1>7

-----------------------------------------------------------------------------
(* One timestamp.                                                          *)

\* The values of a timestamp, and the sessions that are long past, change nothing.
LEMMA ApplySound ==
    ASSUME NEW x, NEW s \in Nat, NEW g \in Groups, Sound(x, s)
    PROVE  LET y == Apply([x EXCEPT !.done = Recent(@)], g)
           IN  /\ Sound(y, s)
               /\ y.link = x.link /\ y.current = x.current
               /\ y.gear = Apply(x, g).gear
               /\ y.charge = IF g.charge = "same" THEN x.charge ELSE g.charge
               /\ \A period : Clear(x, period) => Clear(y, period)
               /\ \A since : Ended(x, since) => Ended(y, since)
<1> DEFINE r == [x EXCEPT !.done = Recent(@)]
           gear == IF g.gear = "same" THEN x.gear ELSE g.gear
           charge == IF g.charge = "same" THEN x.charge ELSE g.charge
           y == Apply(r, g)
<1>1. x \in Builders /\ x.done \in Seq(Sessions) /\ Chain(x.done, x.current)
  BY DEF Sound, Builders
<1>2. /\ Recent(x.done) \in Seq(Sessions)
      /\ \A i \in 1..Len(Recent(x.done)) : \E j \in 1..Len(x.done) : Recent(x.done)[i] = x.done[j]
      /\ Len(Recent(x.done)) > 0 <=> Len(x.done) > 0
      /\ Len(x.done) > 0 => Recent(x.done)[Len(Recent(x.done))] = x.done[Len(x.done)]
      /\ Chain(Recent(x.done), x.current)
  BY <1>1, RecentKeepsChain
<1>3. gear \in {"unknown", "park", "moving"} /\ charge \in {"unknown", "charging", "ended"}
  BY <1>1 DEF Groups, Builders
<1>4. /\ r \in Builders /\ r.done = Recent(x.done) /\ r.link = x.link /\ r.current = x.current
      /\ r.gear = x.gear /\ r.charge = x.charge
      /\ r.pending = x.pending /\ r.park = x.park /\ r.off = x.off
  BY <1>1, <1>2 DEF Builders
<1> HIDE DEF r
<1>5. y = [r EXCEPT !.gear = gear, !.charge = charge]
  BY <1>4 DEF Apply, Builders
<1>6. Apply(x, g).gear = gear
  BY <1>1 DEF Apply, Builders
<1> HIDE DEF gear, y
<1>7. /\ y \in Builders /\ y.done = Recent(x.done) /\ y.link = x.link /\ y.current = x.current
      /\ y.gear = gear /\ y.charge = charge
      /\ y.pending = x.pending /\ y.park = x.park /\ y.off = x.off
  BY <1>3, <1>4, <1>5 DEF Builders
<1> HIDE DEF charge
<1>8. Times(y, s)
  BY <1>2, <1>7 DEF Sound, Times
<1>9. Agrees(y)
  <2>1. x.done = <<>> => y.done = <<>>
    <3>1. x.done = <<>> => Len(y.done) = 0
      BY <1>2, <1>7
    <3> QED
      BY <3>1, <1>7 DEF Builders
  <2> QED
    BY <2>1, <1>7 DEF Sound, Agrees
<1>10. Marks(y) /\ Rested(y, s)
  <2>1. Len(y.done) > 0 <=> Len(x.done) > 0
    BY <1>2, <1>7
  <2>2. Len(x.done) > 0 => Newest(y) = Newest(x)
    BY <1>2, <1>7 DEF Newest
  <2> QED
    BY <2>1, <2>2, <1>7 DEF Sound, Marks, Rested, Driving
<1>11. /\ \A period : Clear(x, period) => Clear(y, period)
       /\ \A since : Ended(x, since) => Ended(y, since)
  BY <1>2, <1>7 DEF Clear, Ended, Driving
<1> QED
  BY <1>2, <1>6, <1>7, <1>8, <1>9, <1>10, <1>11 DEF Sound, y, r, charge

LEMMA FeedInv ==
    ASSUME Inv, NEW t \in Nat, now < t, NEW g \in Groups, FeedGroup(t, g)
    PROVE  Inv'
<1> DEFINE applied == Apply([b EXCEPT !.done = Recent(@)], g)
           linked == IF "connect" \in g.links THEN Connect(applied, t) ELSE applied
           evaluated == Evaluate(linked, t, g)
           disconnected == Disconnect(evaluated, t)
           turned == Posture(b') # Posture(b) \/ "connect" \in g.links
<1>1. /\ now \in Nat /\ t \in Nat \ {0} /\ Sound(b, now) /\ Charged(b) /\ Clear(b, dark)
      /\ b.link = "down" => Ended(b, quiet)
      /\ quiet \in 0..now /\ dark \in [from : Nat, to : 0..now] /\ dark.from <= dark.to
      /\ OfflineEnd \in Nat \ {0}
  BY BuilderAssumption DEF Inv
<1>2. /\ Plausible(g) /\ now' = t
      /\ b' = IF "disconnect" \in g.links THEN Evaluate(disconnected, t, g) ELSE evaluated
      /\ settled' = (Step(b', t, g).current = b'.current)
      /\ quiet' = IF turned THEN t ELSE quiet
      /\ dark' = IF turned THEN Period("offline", t, OfflineEnd, dark) ELSE dark
  BY DEF FeedGroup, Feed, Watch
<1>3. /\ Sound(applied, now) /\ applied.link = b.link /\ applied.current = b.current
      /\ applied.gear = Apply(b, g).gear
      /\ applied.charge = IF g.charge = "same" THEN b.charge ELSE g.charge
      /\ \A period : Clear(b, period) => Clear(applied, period)
      /\ \A since : Ended(b, since) => Ended(applied, since)
  BY <1>1, ApplySound
<1> HIDE DEF applied
<1>4. /\ Sound(linked, t) /\ linked.gear = applied.gear /\ linked.charge = applied.charge
      /\ "connect" \in g.links => linked.link = "up"
      /\ "connect" \notin g.links => linked = applied
      /\ linked = applied \/ linked.pending = Never
      /\ \A period \in [from : Nat, to : 0..now] : Clear(applied, period) => Clear(linked, period)
      /\ \A since \in 0..now :
             "connect" \in g.links /\ applied.link = "down"
             /\ Ended(applied, since) /\ t - since >= OfflineEnd
                 => Clear(linked, [from |-> since, to |-> t])
  <2>1. CASE "connect" \in g.links
    <3>1. linked = Connect(applied, t)
      BY <2>1
    <3> HIDE DEF linked
    <3> QED
      BY <1>1, <1>3, <2>1, <3>1, ConnectSound
  <2>2. CASE "connect" \notin g.links
    <3>1. linked = applied
      BY <2>2
    <3> HIDE DEF linked
    <3>2. Sound(applied, t)
      BY <1>1, <1>3, SoundLater
    <3> QED
      BY <2>2, <3>1, <3>2
  <2> QED
    BY <2>1, <2>2
<1> HIDE DEF linked
<1>5. Held(linked, t, g)
  <2>1. g.reset => linked.gear # "moving"
    BY <1>2, <1>3, <1>4 DEF Plausible
  <2>2. Calm(linked)
    <3>1. CASE linked.pending = Never
      BY <3>1 DEF Calm
    <3>2. CASE linked = applied
      BY <3>2, <1>1, <1>2, <1>3 DEF Calm, Charged, Plausible
    <3> QED
      BY <3>1, <3>2, <1>4
  <2> QED
    BY <2>1, <2>2, <1>4 DEF Held
<1>6. Held(evaluated, t, g) /\ Keeps(linked, evaluated, t) /\ ~Turns(evaluated, t, g)
  BY <1>1, <1>5, EvaluateSettles
<1> HIDE DEF evaluated
<1>7. /\ Held(disconnected, t, g) /\ disconnected.link = "down"
      /\ evaluated.link = "down" => disconnected = evaluated
      /\ evaluated.link # "down" => Ended(disconnected, t)
      /\ \A period \in [from : Nat, to : 0..t] : Clear(evaluated, period) => Clear(disconnected, period)
  <2>1. Sound(evaluated, t)
    BY <1>6 DEF Held
  <2>2. /\ Sound(disconnected, t) /\ disconnected.link = "down"
        /\ evaluated.link = "down" => disconnected = evaluated
        /\ evaluated.link # "down" => Ended(disconnected, t) /\ disconnected.gear = "unknown"
        /\ \A period \in [from : Nat, to : 0..t] : Clear(evaluated, period) => Clear(disconnected, period)
    BY <1>1, <2>1, DisconnectSound
  <2> HIDE DEF disconnected
  <2>3. Held(disconnected, t, g)
    BY <1>6, <2>2 DEF Held, Calm
  <2> QED
    BY <2>2, <2>3
<1> HIDE DEF disconnected
<1>8. /\ Held(b', t, g) /\ ~Turns(b', t, g)
      /\ \/ "disconnect" \in g.links /\ Keeps(disconnected, b', t)
         \/ "disconnect" \notin g.links /\ b' = evaluated
  BY <1>1, <1>2, <1>6, <1>7, EvaluateSettles
<1>9. b'.link = IF "disconnect" \in g.links THEN "down" ELSE linked.link
  BY <1>6, <1>7, <1>8 DEF Keeps
<1>10. /\ dark' \in [from : Nat, to : 0..t] /\ dark'.from <= dark'.to
       /\ Clear(linked, dark')
  <2>1. CASE "connect" \in g.links /\ b.link = "down" /\ t - quiet >= OfflineEnd
    <3>1. dark' = [from |-> quiet, to |-> t]
      BY <1>2, <2>1 DEF Period, Posture
    <3>2. Clear(linked, [from |-> quiet, to |-> t])
      BY <1>1, <1>3, <1>4, <2>1
    <3> QED
      BY <1>1, <3>1, <3>2
  <2>2. CASE ~("connect" \in g.links /\ b.link = "down" /\ t - quiet >= OfflineEnd)
    <3>1. dark' = dark
      <4>1. CASE b.link # "down"
        BY <1>2, <4>1 DEF Period, Posture
      <4>2. CASE b.link = "down" /\ "connect" \in g.links
        BY <1>2, <2>2, <4>2 DEF Period
      <4>3. CASE b.link = "down" /\ "connect" \notin g.links
        <5>1. b'.link = "down"
          BY <1>3, <1>4, <1>9, <4>3
        <5> QED
          BY <1>2, <4>3, <5>1 DEF Posture
      <4> QED
        BY <4>1, <4>2, <4>3
    <3>2. Clear(linked, dark)
      BY <1>1, <1>3, <1>4
    <3> QED
      BY <1>1, <3>1, <3>2
  <2> QED
    BY <2>1, <2>2
<1>11. Clear(b', dark')
  <2>1. Clear(evaluated, dark')
    BY <1>6, <1>10 DEF Keeps
  <2>2. Clear(disconnected, dark')
    BY <1>7, <1>10, <2>1
  <2> QED
    BY <1>8, <1>10, <2>1, <2>2 DEF Keeps
<1>12. b'.link = "down" => Ended(b', quiet')
  <2> SUFFICES ASSUME b'.link = "down" PROVE Ended(b', quiet')
    OBVIOUS
  <2>1. CASE linked.link = "down"
    <3>1. "connect" \notin g.links /\ b.link = "down" /\ linked = applied
      BY <1>3, <1>4, <2>1
    <3>2. quiet' = quiet
      BY <1>2, <3>1 DEF Posture
    <3>3. Ended(evaluated, quiet) /\ evaluated.link = "down"
      BY <1>1, <1>3, <1>6, <2>1, <3>1 DEF Keeps
    <3> QED
      BY <1>7, <1>8, <3>2, <3>3 DEF Keeps
  <2>2. CASE linked.link # "down"
    <3>1. "disconnect" \in g.links /\ evaluated.link # "down"
      BY <1>6, <1>9, <2>2 DEF Keeps
    <3>2. "connect" \in g.links \/ b.link # "down"
      BY <1>3, <1>4, <2>2
    <3>3. quiet' = t
      BY <1>2, <3>2 DEF Posture
    <3> QED
      BY <1>7, <1>8, <3>1, <3>3 DEF Keeps
  <2> QED
    BY <2>1, <2>2
<1>13. settled'
  BY <1>1, <1>2, <1>8, StepTurns
<1>14. Charged(b') /\ Awaits(b', t)
  <2>1. Marks(b') /\ b'.off \in Nat
    BY <1>8 DEF Held, Sound, Builders
  <2> QED
    BY <1>1, <1>8, <2>1 DEF Charged, Awaits, Turns, Charges, Driving, Marks
<1>15. quiet' \in 0..t
  BY <1>1, <1>2
<1> QED
  BY <1>1, <1>2, <1>8, <1>10, <1>11, <1>12, <1>13, <1>14, <1>15 DEF Inv, Held

-----------------------------------------------------------------------------
(* The theorems.                                                           *)

LEMMA InitInv == Init => Inv
<1> SUFFICES ASSUME Init PROVE Inv
  OBVIOUS
<1> USE DEF Never
<1>1. /\ now = 0 /\ b = NewBuilder /\ settled = TRUE /\ quiet = 0
      /\ dark = [from |-> 0, to |-> 0]
  BY DEF Init
<1>2. NoSession \in [kind : Kinds \cup {"none"}, start : Nat] /\ NoSession.start = 0 /\ NoSession.kind = "none"
  BY DEF NoSession
<1>3. /\ b \in Builders /\ b.link = "unknown" /\ b.current = NoSession /\ b.done = <<>>
      /\ b.pending = 0 /\ b.park = 0 /\ b.off = 0
  BY <1>1, <1>2 DEF NewBuilder, Builders
<1>4. Len(b.done) = 0 /\ b.current.start = 0 /\ b.current.kind = "none"
  BY <1>2, <1>3
<1>5. Sound(b, now)
  <2>1. Chain(b.done, b.current) /\ Times(b, now)
    BY <1>1, <1>3, <1>4 DEF Chain, Linked, Times
  <2>2. Agrees(b) /\ Marks(b) /\ Rested(b, now)
    BY <1>3, <1>4 DEF Agrees, Marks, Rested, Driving
  <2> QED
    BY <1>3, <2>1, <2>2 DEF Sound
<1>6. Charged(b) /\ Clear(b, dark) /\ Awaits(b, now) /\ b.link # "down"
  BY <1>3, <1>4 DEF Charged, Clear, Awaits, Driving
<1> QED
  BY <1>1, <1>5, <1>6 DEF Inv

LEMMA NextInv == Inv /\ [Next]_vars => Inv'
<1> SUFFICES ASSUME Inv, [Next]_vars PROVE Inv'
  OBVIOUS
<1>1. CASE Next
  <2>1. PICK gap \in 1..MaxGap, g \in Groups : FeedGroup(now + gap, g)
    BY <1>1 DEF Next
  <2>2. now \in Nat /\ now + gap \in Nat /\ now < now + gap
    BY <2>1, FeedAssumption DEF Inv
  <2> QED
    BY <2>1, <2>2, FeedInv
<1>2. CASE UNCHANGED vars
  BY <1>2 DEF vars, Inv
<1> QED
  BY <1>1, <1>2

\* What a builder knows, marks and waits for, whatever it was fed.
THEOREM Invariance == Spec => []Inv
BY InitInv, NextInv, PTL DEF Spec

\* The newest sessions, the one in progress among them, are linked like the others.
LEMMA AllLinked ==
    ASSUME Inv
    PROVE  /\ All \in Seq(Sessions) /\ Linked(All)
           /\ \A i \in 1..Len(All) :
                 \/ i \in 1..Len(b.done) /\ All[i] = b.done[i]
                 \/ All[i].kind = b.current.kind /\ All[i].start = b.current.start
<1>1. /\ now \in Nat /\ b \in Builders /\ b.done \in Seq(Sessions)
      /\ Chain(b.done, b.current) /\ b.current.start <= now
  BY DEF Inv, Sound, Builders, Times
<1>2. CASE b.current = NoSession
  BY <1>1, <1>2 DEF All, Chain
<1>3. CASE b.current # NoSession
  <2> DEFINE s == [kind |-> b.current.kind, start |-> b.current.start, end |-> now]
             n == Len(b.done)
  <2>1. b.current.kind \in Kinds
    BY <1>3, <1>1 DEF Inv, Sound, Builders, Agrees, Kinds
  <2>2. /\ s \in Sessions /\ s.kind = b.current.kind /\ s.start = b.current.start /\ s.end = now
        /\ All = Append(b.done, s)
    BY <1>1, <1>3, <2>1 DEF All, Sessions, Builders
  <2> HIDE DEF s
  <2>3. /\ All \in Seq(Sessions) /\ Len(All) = n + 1 /\ All[n + 1] = s /\ n \in Nat
        /\ \A i \in 1..n : All[i] = b.done[i]
        /\ Linked(All)
    <3>1. s.start <= s.end
      BY <1>1, <2>2
    <3> QED
      BY <1>1, <2>2, <3>1, AppendLinked
  <2>4. \A i \in 1..Len(All) : \/ i \in 1..Len(b.done) /\ All[i] = b.done[i]
                               \/ All[i].kind = b.current.kind /\ All[i].start = b.current.start
    BY <2>2, <2>3
  <2> QED
    BY <2>3, <2>4
<1> QED
  BY <1>2, <1>3

\* Whatever a car reports in whatever order, the sessions follow one another without
\* a gap, although a drive begins where the gear changed and ends where the park
\* or the outage began, both decided later (_step, _connectivity).
THEOREM TimelineHolds == Spec => []Timeline
<1>1. Inv => Timeline
  <2> SUFFICES ASSUME Inv PROVE Timeline
    OBVIOUS
  <2>1. All \in Seq(Sessions) /\ Linked(All)
    BY AllLinked
  <2> QED
    BY <2>1 DEF Timeline, Linked, Joined, Sessions
<1> QED
  BY <1>1, Invariance, PTL

\* Two drives are told apart only by an outage, a charge or a park of ParkDwell, for
\* any of the thresholds (StepDriving, Disconnect).
THEOREM DrivesAreApart == Spec => []DrivesApart
<1>1. Inv => DrivesApart
  <2> SUFFICES ASSUME Inv PROVE DrivesApart
    OBVIOUS
  <2>1. All \in Seq(Sessions) /\ Linked(All)
    BY AllLinked
  <2> QED
    BY <2>1 DEF DrivesApart, Linked, Joined, Parted
<1> QED
  BY <1>1, Invariance, PTL

\* The kind of the session in progress agrees with the connection.
THEOREM OfflineAgrees == Spec => []OfflineIsOffline
<1>1. Inv => OfflineIsOffline
  BY DEF Inv, Sound, Agrees, OfflineIsOffline
<1> QED
  BY <1>1, Invariance, PTL

\* The four steps of _evaluate are enough: nothing that one timestamp can bring
\* leaves the session in progress at a state that a fifth would change.
THEOREM EvaluationSettles == Spec => []Settles
<1>1. Inv => Settles
  BY DEF Inv, Settles
<1> QED
  BY <1>1, Invariance, PTL

\* No drive reaches into an outage of OfflineEnd or more, whichever event it was that
\* ended the drive (StepOffline, Connect).
THEOREM DrivesEndOffline == Spec => []DriveEndsOffline
<1>1. Inv => DriveEndsOffline
  <2> SUFFICES ASSUME Inv PROVE DriveEndsOffline
    OBVIOUS
  <2>1. Clear(b, dark) /\ (b.link = "down" => Ended(b, quiet)) /\ Awaits(b, now)
    BY DEF Inv
  <2>2. \A s \in Drives : s.end <= dark.from \/ s.start >= dark.to
    <3> SUFFICES ASSUME NEW i \in 1..Len(All), All[i].kind = "drive"
                 PROVE  All[i].end <= dark.from \/ All[i].start >= dark.to
      BY DEF Drives
    <3> QED
      BY <2>1, AllLinked DEF Clear, Driving
  <2>3. Posture(b) = "offline" /\ Driving(b) => now - quiet < OfflineEnd
    BY <2>1 DEF Posture, Ended, Awaits
  <2> QED
    BY <2>2, <2>3 DEF DriveEndsOffline
<1> QED
  BY <1>1, Invariance, PTL
=============================================================================
