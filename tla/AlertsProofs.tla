---------------------------- MODULE AlertsProofs ----------------------------
(***************************************************************************)
(* Proofs about Alerts: for any number of monitors, conditions, changes    *)
(* and faults, the row locks and the partial unique index give every       *)
(* firing one row, one alert and at most one "resolved", and no notice is  *)
(* forgotten but by a fault.                                               *)
(***************************************************************************)
EXTENDS Alerts, SequenceTheorems, TLAPS

\* What a cycle has locked is open and locked by it alone: FOR UPDATE skips the
\* rows that the cycle it waited for resolved.
LocksHold ==
    \A m \in Monitors : pc[m] = "locked" =>
        /\ rows[m] \subseteq OpenRows
        /\ \A o \in Monitors \ {m} : pc[o] = "locked" => rows[m] \cap rows[o] = {}

\* A notice is owed by one cycle, and by none once it is sent.
OwedByOne ==
    \A m \in Monitors : /\ owed[m] \cap sent = {}
                        /\ \A o \in Monitors \ {m} : owed[m] \cap owed[o] = {}

\* The notices that a cycle has decided on, whatever became of them.
Decided == sent \cup lost \cup UNION {owed[m] : m \in Monitors}

\* A firing is stored together with the decision to tell of it, and so is its end.
StoredIsDecided ==
    \A id \in Stored :
        /\ <<"alert", id>> \in Decided
        /\ id \in OpenRows \/ id[1] \in Informational \/ <<"resolved", id>> \in Decided

IInv == TypeOK /\ LocksHold /\ OwedByOne /\ StoredIsDecided /\ NobodyToldTwice

-----------------------------------------------------------------------------
(* What a commit does to rule_firings.                                     *)

Rows == [open : BOOLEAN]

\* The rows that the commit of a cycle inserts.
Fresh(m) == {<<k, Len(firings[k]) + 1>> : k \in ToFire(m)}

\* A key's rows after the UPDATE and before the INSERT.
Kept(m, k) ==
    [n \in DOMAIN firings[k] |-> [open |-> firings[k][n].open /\ <<k, n>> \notin ToResolve(m)]]

\* The names of the stored rows.
LEMMA StoredNames ==
    ASSUME firings \in [Keys -> Seq(Rows)]
    PROVE  /\ \A k \in Keys : \A n \in 1..Len(firings[k]) : <<k, n>> \in Stored
           /\ \A id \in Stored : id = <<id[1], id[2]>> /\ id[1] \in Keys /\ id[2] \in 1..Len(firings[id[1]])
BY DEF Stored

\* An update of resolved_at neither adds nor drops a row.
LEMMA KeptRows ==
    ASSUME TypeOK, NEW m \in Monitors, NEW k \in Keys
    PROVE  Kept(m, k) \in Seq(Rows) /\ Len(Kept(m, k)) = Len(firings[k])
<1>1. firings[k] \in Seq(Rows)
  BY DEF TypeOK, Rows
<1>2. DOMAIN firings[k] = 1..Len(firings[k]) /\ Len(firings[k]) \in Nat
  BY <1>1
<1>3. \A n \in DOMAIN firings[k] :
          [open |-> firings[k][n].open /\ <<k, n>> \notin ToResolve(m)] \in Rows
  BY DEF Rows
<1>4. Kept(m, k) \in [1..Len(firings[k]) -> Rows]
  BY <1>2, <1>3 DEF Kept
<1>5. Kept(m, k) \in Seq(Rows)
  BY <1>2, <1>4
<1> QED
  BY <1>2, <1>4, <1>5, LenProperties

\* The rows that a commit adds are new, and what it leaves of the open rows are
\* those it does not resolve.
LEMMA CommitRows ==
    ASSUME TypeOK, NEW m \in Monitors, Commit(m)
    PROVE  /\ firings' \in [Keys -> Seq(Rows)]
           /\ Fresh(m) \cap Stored = {}
           /\ Stored' = Stored \cup Fresh(m)
           /\ OpenRows' = (OpenRows \ ToResolve(m)) \cup Fresh(m)
<1> USE DEF Rows
<1>1. /\ firings \in [Keys -> Seq(Rows)] /\ current[m] \subseteq Keys
      /\ ToFire(m) \subseteq Keys
  BY DEF TypeOK, ToFire
<1>2. firings' = [k \in Keys |-> IF k \in ToFire(m) THEN Append(Kept(m, k), [open |-> TRUE])
                                                     ELSE Kept(m, k)]
  BY DEF Commit, Kept
<1>3. ASSUME NEW k \in Keys
      PROVE  /\ firings'[k] \in Seq(Rows)
             /\ Len(firings'[k]) = Len(firings[k]) + (IF k \in ToFire(m) THEN 1 ELSE 0)
             /\ \A n \in 1..Len(firings[k]) :
                   firings'[k][n].open <=> firings[k][n].open /\ <<k, n>> \notin ToResolve(m)
             /\ k \in ToFire(m) => firings'[k][Len(firings[k]) + 1].open
  <2>1. Kept(m, k) \in Seq(Rows) /\ Len(Kept(m, k)) = Len(firings[k])
    BY KeptRows
  <2>2. \A n \in 1..Len(firings[k]) :
            Kept(m, k)[n].open <=> firings[k][n].open /\ <<k, n>> \notin ToResolve(m)
    <3> SUFFICES ASSUME NEW n \in 1..Len(firings[k])
                 PROVE  Kept(m, k)[n].open <=> firings[k][n].open /\ <<k, n>> \notin ToResolve(m)
      OBVIOUS
    <3>1. n \in DOMAIN firings[k]
      BY <1>1
    <3> QED
      BY <3>1 DEF Kept
  <2>3. CASE k \in ToFire(m)
    <3>1. firings'[k] = Append(Kept(m, k), [open |-> TRUE])
      BY <1>2, <2>3
    <3> QED
      BY <2>1, <2>2, <2>3, <3>1, AppendProperties
  <2>4. CASE k \notin ToFire(m)
    BY <1>2, <2>1, <2>2, <2>4
  <2> QED
    BY <2>3, <2>4
<1>4. firings' \in [Keys -> Seq(Rows)]
  BY <1>2, <1>3
<1>5. \A k \in Keys : Len(firings[k]) \in Nat
  BY <1>1
<1>6. Fresh(m) \cap Stored = {}
  BY <1>1, <1>5, StoredNames DEF Fresh
<1>7. /\ \A k \in Keys : \A n \in 1..Len(firings'[k]) : <<k, n>> \in Stored'
      /\ \A id \in Stored' : id = <<id[1], id[2]>> /\ id[1] \in Keys /\ id[2] \in 1..Len(firings'[id[1]])
  BY <1>4 DEF Stored
<1>8. Stored' = Stored \cup Fresh(m)
  <2>1. ASSUME NEW id \in Stored'  PROVE id \in Stored \cup Fresh(m)
    <3>1. id = <<id[1], id[2]>> /\ id[1] \in Keys /\ id[2] \in 1..Len(firings'[id[1]])
      BY <1>7
    <3>2. CASE id[2] \in 1..Len(firings[id[1]])
      BY <3>1, <3>2, <1>1, StoredNames
    <3>3. CASE id[2] \notin 1..Len(firings[id[1]])
      <4>1. Len(firings'[id[1]]) = Len(firings[id[1]]) + (IF id[1] \in ToFire(m) THEN 1 ELSE 0)
        BY <3>1, <1>3
      <4>2. Len(firings[id[1]]) \in Nat
        BY <3>1, <1>5
      <4>3. id[1] \in ToFire(m) /\ id[2] = Len(firings[id[1]]) + 1
        <5>1. ASSUME id[1] \notin ToFire(m)  PROVE FALSE
          <6>1. Len(firings'[id[1]]) = Len(firings[id[1]])
            BY <4>1, <4>2, <5>1
          <6> QED
            BY <3>1, <3>3, <6>1
        <5>2. id[2] \in 1..(Len(firings[id[1]]) + 1)
          BY <3>1, <4>1, <5>1
        <5> QED
          BY <3>3, <4>2, <5>1, <5>2
      <4> QED
        BY <3>1, <4>3 DEF Fresh
    <3> QED
      BY <3>2, <3>3
  <2>2. ASSUME NEW id \in Stored  PROVE id \in Stored'
    BY <1>1, <1>3, <1>5, <1>7, StoredNames
  <2>3. ASSUME NEW id \in Fresh(m)  PROVE id \in Stored'
    <3>1. PICK k \in ToFire(m) : id = <<k, Len(firings[k]) + 1>>
      BY DEF Fresh
    <3> QED
      BY <3>1, <1>1, <1>3, <1>5, <1>7
  <2> QED
    BY <2>1, <2>2, <2>3
<1>9. OpenRows' = (OpenRows \ ToResolve(m)) \cup Fresh(m)
  <2>1. ASSUME NEW id \in Stored
        PROVE  id \in OpenRows' <=> id \in OpenRows /\ id \notin ToResolve(m)
    <3>1. id = <<id[1], id[2]>> /\ id[1] \in Keys /\ id[2] \in 1..Len(firings[id[1]])
      BY <1>1, StoredNames
    <3>2. firings'[id[1]][id[2]].open <=> firings[id[1]][id[2]].open /\ id \notin ToResolve(m)
      BY <1>3, <3>1
    <3> QED
      BY <3>2, <1>8 DEF OpenRows
  <2>2. ASSUME NEW id \in Fresh(m)  PROVE id \in OpenRows' /\ id \notin Stored
    <3>1. PICK k \in ToFire(m) : id = <<k, Len(firings[k]) + 1>>
      BY DEF Fresh
    <3> QED
      BY <3>1, <1>1, <1>3, <1>6, <1>8 DEF OpenRows
  <2>3. OpenRows \subseteq Stored /\ OpenRows' \subseteq Stored'
    BY DEF OpenRows
  <2> QED
    BY <2>1, <2>2, <2>3, <1>8
<1> QED
  BY <1>4, <1>6, <1>8, <1>9

-----------------------------------------------------------------------------
(* The inductive invariant.                                                *)

\* A step that leaves rule_firings alone leaves the names and the open rows.
LEMMA SameRows ==
    ASSUME UNCHANGED firings
    PROVE  Stored' = Stored /\ OpenRows' = OpenRows /\ Notices' = Notices
BY DEF Stored, OpenRows, Notices

\* Nobody owes or has sent "resolved" for an open firing.
LEMMA OpenIsNotEnded ==
    ASSUME TypeOK, NEW id \in OpenRows
    PROVE  /\ <<"resolved", id>> \notin sent
           /\ \A o \in Monitors : <<"resolved", id>> \notin owed[o]
<1>1. <<"resolved", id>> \notin (UNION {owed[m] : m \in Monitors}) \cup sent
  BY DEF TypeOK
<1>2. \A o \in Monitors : owed[o] \subseteq UNION {owed[m] : m \in Monitors}
  OBVIOUS
<1> QED
  BY <1>1, <1>2

LEMMA InitInv == Init => IInv
<1> SUFFICES ASSUME Init PROVE IInv
  OBVIOUS
<1>1. Stored = {} /\ OpenRows = {}
  <2>1. \A k \in Keys : DOMAIN firings[k] = {}
    BY DEF Init
  <2> QED
    BY <2>1 DEF Stored, OpenRows
<1>2. TypeOK
  <2>1. firings \in [Keys -> Seq([open : BOOLEAN])]
    BY DEF Init
  <2> QED
    BY <1>1, <2>1, AlertsAssumption DEF Init, TypeOK, Notices
<1>3. LocksHold /\ OwedByOne /\ StoredIsDecided /\ NobodyToldTwice
  BY <1>1 DEF Init, LocksHold, OwedByOne, StoredIsDecided, NobodyToldTwice
<1> QED
  BY <1>2, <1>3 DEF IInv

\* Conditions that change, and the beginning of a cycle, touch no row and no notice.
LEMMA QuietInv ==
    ASSUME IInv, Change \/ \E m \in Monitors : Evaluate(m) \/ Select(m) \/ Finish(m)
    PROVE  IInv'
<1>1. /\ UNCHANGED <<firings, owed, sent, resent, lost, faults>>
      /\ Stored' = Stored /\ OpenRows' = OpenRows /\ Notices' = Notices
  BY SameRows DEF Change, Evaluate, Select, Finish, cycleVars, noticeVars
<1>2. TypeOK'
  <2>1. holding' \subseteq Keys /\ changes' \in 0..MaxChanges
    BY AlertsAssumption DEF IInv, TypeOK, Change, Evaluate, Select, Finish
  <2>2. /\ pc' \in [Monitors -> {"idle", "evaluated", "selecting", "locked", "notifying"}]
        /\ \A o \in Monitors : pc'[o] # "notifying" => owed[o] = {}
    BY DEF IInv, TypeOK, Change, Evaluate, Select, Finish, Goto, cycleVars
  <2>3. current' \in [Monitors -> SUBSET Keys]
    BY DEF IInv, TypeOK, Change, Evaluate, Select, Finish, cycleVars
  <2>4. rows' \in [Monitors -> SUBSET Stored]
    BY DEF IInv, TypeOK, Change, Evaluate, Select, Finish, cycleVars, OpenRows
  <2> QED
    BY <1>1, <2>1, <2>2, <2>3, <2>4 DEF IInv, TypeOK
<1>3. LocksHold'
  <2>1. \A o \in Monitors : pc'[o] = "locked" => pc[o] = "locked" /\ rows'[o] = rows[o]
    BY DEF IInv, TypeOK, Change, Evaluate, Select, Finish, Goto, cycleVars
  <2> QED
    BY <1>1, <2>1 DEF IInv, LocksHold
<1>4. (OwedByOne /\ StoredIsDecided /\ NobodyToldTwice)'
  BY <1>1 DEF IInv, OwedByOne, StoredIsDecided, NobodyToldTwice, Decided
<1> QED
  BY <1>2, <1>3, <1>4 DEF IInv

\* A cycle that gets its locks holds no row that another has, nor one that another
\* has resolved while it waited.
LEMMA LockRowsInv ==
    ASSUME IInv, NEW m \in Monitors, LockRows(m)
    PROVE  IInv'
<1>1. /\ UNCHANGED <<holding, firings, current, owed, sent, resent, lost, changes, faults>>
      /\ Stored' = Stored /\ OpenRows' = OpenRows /\ Notices' = Notices
      /\ pc[m] = "selecting" /\ pc' = [pc EXCEPT ![m] = "locked"]
      /\ rows' = [rows EXCEPT ![m] = rows[m] \cap OpenRows]
  BY SameRows DEF LockRows, Goto, noticeVars
<1>2. TypeOK'
  BY <1>1 DEF IInv, TypeOK
<1>3. LocksHold'
  <2>1. \A o \in Monitors : o # m => pc'[o] = pc[o] /\ rows'[o] = rows[o]
    BY <1>1 DEF IInv, TypeOK
  <2>2. rows'[m] = rows[m] \cap OpenRows
    BY <1>1 DEF IInv, TypeOK
  <2>3. \A o \in Monitors : pc[o] = "locked" => rows[o] \cap rows[m] = {}
    BY DEF LockRows
  <2> QED
    BY <1>1, <2>1, <2>2, <2>3 DEF IInv, LocksHold
<1>4. (OwedByOne /\ StoredIsDecided /\ NobodyToldTwice)'
  BY <1>1 DEF IInv, OwedByOne, StoredIsDecided, NobodyToldTwice, Decided
<1> QED
  BY <1>2, <1>3, <1>4 DEF IInv

\* A commit adds rows with names of their own, one for a key that has no open row,
\* and owes the owner what nobody owes and nobody has sent.
LEMMA CommitInv ==
    ASSUME IInv, NEW m \in Monitors, Commit(m)
    PROVE  IInv'
<1> DEFINE Ended == {id \in ToResolve(m) : id[1] \notin Informational}
<1>1. /\ pc[m] = "locked" /\ pc' = [pc EXCEPT ![m] = "notifying"]
      /\ ToFire(m) \cap KeysOf(OpenRows) = {}
      /\ owed' = [owed EXCEPT ![m] = OwedTo(m)]
      /\ rows' = [rows EXCEPT ![m] = {}]
      /\ UNCHANGED <<holding, current, sent, resent, lost, changes, faults>>
  BY DEF Commit, Goto, Clash, noticeVars
<1>2. TypeOK /\ LocksHold /\ OwedByOne /\ StoredIsDecided /\ NobodyToldTwice
  BY DEF IInv
<1>3. /\ firings' \in [Keys -> Seq(Rows)]
      /\ Fresh(m) \cap Stored = {}
      /\ Stored' = Stored \cup Fresh(m)
      /\ OpenRows' = (OpenRows \ ToResolve(m)) \cup Fresh(m)
  BY <1>2, CommitRows
<1>4. OwedTo(m) = {<<"alert", id>> : id \in Fresh(m)} \cup {<<"resolved", id>> : id \in Ended}
  BY DEF OwedTo, Fresh
<1>5. ToResolve(m) \subseteq OpenRows /\ OpenRows \subseteq Stored
  BY <1>1, <1>2 DEF ToResolve, LocksHold, OpenRows
<1>6. owed[m] = {}
  BY <1>1, <1>2 DEF TypeOK
<1>7. /\ \A o \in Monitors : o # m => owed'[o] = owed[o] /\ pc'[o] = pc[o] /\ rows'[o] = rows[o]
      /\ owed'[m] = OwedTo(m) /\ rows'[m] = {} /\ pc'[m] = "notifying"
  BY <1>1, <1>2 DEF TypeOK
<1>8. OwedTo(m) \subseteq Notices'
  BY <1>3, <1>4, <1>5 DEF Notices
<1>9. Notices \subseteq Notices'
  BY <1>3 DEF Notices
<1>10. \A o \in Monitors : OwedTo(m) \cap (owed[o] \cup sent) = {}
  <2> SUFFICES ASSUME NEW o \in Monitors, NEW n \in OwedTo(m), n \in owed[o] \cup sent
               PROVE  FALSE
    OBVIOUS
  <2>1. n \in Notices
    BY <1>2 DEF TypeOK
  <2>2. CASE n \in {<<"alert", id>> : id \in Fresh(m)}
    BY <1>3, <2>1, <2>2 DEF Notices
  <2>3. CASE n \in {<<"resolved", id>> : id \in Ended}
    BY <1>2, <1>5, <2>3 DEF TypeOK
  <2> QED
    BY <1>4, <2>2, <2>3
<1>11. TypeOK'
  <2>1. \A id, other \in OpenRows' : id[1] = other[1] => id = other
    <3>1. \A id \in Fresh(m) : id[1] \in ToFire(m)
      BY DEF Fresh
    <3>2. \A id, other \in Fresh(m) : id[1] = other[1] => id = other
      BY DEF Fresh
    <3>3. \A id \in OpenRows : id[1] \notin ToFire(m)
      BY <1>1 DEF KeysOf
    <3> QED
      BY <1>2, <1>3, <3>1, <3>2, <3>3 DEF TypeOK
  <2>2. owed' \in [Monitors -> SUBSET Notices']
    BY <1>1, <1>2, <1>8, <1>9 DEF TypeOK
  <2>3. rows' \in [Monitors -> SUBSET Stored']
    BY <1>1, <1>2, <1>3 DEF TypeOK
  <2>4. \A id \in OpenRows' : <<"resolved", id>> \notin (UNION {owed'[o] : o \in Monitors}) \cup sent
    <3> SUFFICES ASSUME NEW id \in OpenRows', NEW o \in Monitors,
                        <<"resolved", id>> \in owed'[o] \cup sent
                 PROVE  FALSE
      OBVIOUS
    <3>1. CASE <<"resolved", id>> \in OwedTo(m)
      BY <1>3, <1>4, <1>5, <3>1
    <3>2. CASE <<"resolved", id>> \in owed[o] \cup sent
      <4>1. id \in Stored
        BY <1>2, <3>2 DEF TypeOK, Notices
      <4>2. id \in OpenRows
        BY <1>3, <4>1
      <4> QED
        BY <1>2, <3>2, <4>2 DEF TypeOK
    <3> QED
      BY <1>7, <3>1, <3>2
  <2>5. firings' \in [Keys -> Seq([open : BOOLEAN])]
    BY <1>3 DEF Rows
  <2>6. \A o \in Monitors : pc'[o] # "notifying" => owed'[o] = {}
    BY <1>2, <1>7 DEF TypeOK
  <2>7. pc' \in [Monitors -> {"idle", "evaluated", "selecting", "locked", "notifying"}]
    BY <1>1, <1>2 DEF TypeOK
  <2> QED
    BY <1>1, <1>2, <1>9, <2>1, <2>2, <2>3, <2>4, <2>5, <2>6, <2>7 DEF TypeOK
<1>12. LocksHold'
  <2>1. \A o \in Monitors : pc'[o] = "locked" => o # m /\ pc[o] = "locked" /\ rows'[o] = rows[o]
    BY <1>7
  <2>2. \A o \in Monitors : o # m /\ pc[o] = "locked" => rows[o] \subseteq OpenRows'
    BY <1>1, <1>2, <1>3 DEF LocksHold, ToResolve
  <2> QED
    BY <1>2, <2>1, <2>2 DEF LocksHold
<1>13. OwedByOne'
  BY <1>1, <1>2, <1>7, <1>10 DEF OwedByOne
<1>14. StoredIsDecided'
  <2>1. Decided \subseteq Decided' /\ OwedTo(m) \subseteq Decided'
    BY <1>1, <1>6, <1>7 DEF Decided
  <2>2. ASSUME NEW id \in Stored'
        PROVE  /\ <<"alert", id>> \in Decided'
               /\ id \in OpenRows' \/ id[1] \in Informational \/ <<"resolved", id>> \in Decided'
    <3>1. CASE id \in Fresh(m)
      BY <1>3, <1>4, <2>1, <3>1
    <3>2. CASE id \in Stored
      BY <1>2, <1>3, <1>4, <2>1, <3>2 DEF StoredIsDecided
    <3> QED
      BY <1>3, <3>1, <3>2
  <2> QED
    BY <2>2 DEF StoredIsDecided
<1>15. NobodyToldTwice'
  BY <1>1, <1>2 DEF NobodyToldTwice
<1> QED
  BY <1>11, <1>12, <1>13, <1>14, <1>15 DEF IInv

\* An insert that fails gives up the row locks and nothing else.
LEMMA CommitClashesInv ==
    ASSUME IInv, NEW m \in Monitors, CommitClashes(m)
    PROVE  IInv'
<1>1. /\ UNCHANGED <<holding, firings, current, owed, sent, resent, lost, changes, faults>>
      /\ Stored' = Stored /\ OpenRows' = OpenRows /\ Notices' = Notices
      /\ pc[m] = "locked" /\ pc' = [pc EXCEPT ![m] = "idle"]
      /\ rows' = [rows EXCEPT ![m] = {}]
  BY SameRows DEF CommitClashes, Goto, noticeVars
<1>2. TypeOK'
  BY <1>1 DEF IInv, TypeOK
<1>3. LocksHold'
  <2>1. \A o \in Monitors : pc'[o] = "locked" => pc[o] = "locked" /\ rows'[o] = rows[o]
    BY <1>1 DEF IInv, TypeOK
  <2> QED
    BY <1>1, <2>1 DEF IInv, LocksHold
<1>4. (OwedByOne /\ StoredIsDecided /\ NobodyToldTwice)'
  BY <1>1 DEF IInv, OwedByOne, StoredIsDecided, NobodyToldTwice, Decided
<1> QED
  BY <1>2, <1>3, <1>4 DEF IInv

\* A notice that a cycle owes has not been sent; it goes from what is owed to what
\* is sent.
LEMMA NotifyInv ==
    ASSUME IInv, NEW m \in Monitors, Notify(m)
    PROVE  IInv'
<1>1. PICK n \in owed[m] : /\ sent' = sent \cup {n}
                           /\ resent' = IF n \in sent THEN resent \cup {n} ELSE resent
                           /\ owed' = [owed EXCEPT ![m] = owed[m] \ {n}]
  BY DEF Notify
<1>2. /\ UNCHANGED <<holding, firings, pc, current, rows, lost, changes, faults>>
      /\ Stored' = Stored /\ OpenRows' = OpenRows /\ Notices' = Notices
      /\ pc[m] = "notifying"
  BY SameRows DEF Notify
<1>3. n \notin sent /\ n \in Notices /\ resent' = resent
  BY <1>1 DEF IInv, OwedByOne, TypeOK
<1>4. /\ owed'[m] = owed[m] \ {n}
      /\ \A o \in Monitors : o # m => owed'[o] = owed[o]
  BY <1>1 DEF IInv, TypeOK
<1>5. TypeOK'
  <2>1. \A id \in OpenRows : <<"resolved", id>> \notin (UNION {owed'[o] : o \in Monitors}) \cup sent'
    <3>1. \A o \in Monitors : owed'[o] \subseteq owed[o]
      BY <1>4
    <3>2. \A id \in OpenRows : /\ <<"resolved", id>> \notin sent
                               /\ \A o \in Monitors : <<"resolved", id>> \notin owed[o]
      BY OpenIsNotEnded DEF IInv
    <3> QED
      BY <1>1, <3>1, <3>2
  <2>2. owed' \in [Monitors -> SUBSET Notices]
    BY <1>1 DEF IInv, TypeOK
  <2>3. \A o \in Monitors : pc[o] # "notifying" => owed'[o] = {}
    BY <1>2, <1>4 DEF IInv, TypeOK
  <2> QED
    BY <1>1, <1>2, <1>3, <2>1, <2>2, <2>3 DEF IInv, TypeOK
<1>6. LocksHold'
  BY <1>2 DEF IInv, LocksHold
<1>7. OwedByOne'
  BY <1>1, <1>4 DEF IInv, OwedByOne
<1>8. Decided' = Decided
  BY <1>1, <1>2, <1>4 DEF Decided
<1>9. StoredIsDecided' /\ NobodyToldTwice'
  BY <1>2, <1>3, <1>8 DEF IInv, StoredIsDecided, NobodyToldTwice
<1> QED
  BY <1>5, <1>6, <1>7, <1>9 DEF IInv

\* A cycle that ends early leaves no lock, and what it owed counts as lost.
LEMMA AbandonInv ==
    ASSUME IInv, NEW m \in Monitors, NEW kind, Abandon(m, kind)
    PROVE  IInv'
<1>1. /\ UNCHANGED <<holding, firings, current, sent, resent, changes>>
      /\ Stored' = Stored /\ OpenRows' = OpenRows /\ Notices' = Notices
      /\ pc' = [pc EXCEPT ![m] = "idle"] /\ rows' = [rows EXCEPT ![m] = {}]
      /\ owed' = [owed EXCEPT ![m] = {}] /\ lost' = lost \cup owed[m]
      /\ faults < MaxFaults /\ faults' = faults + 1
  BY SameRows DEF Abandon
<1>2. /\ owed'[m] = {} /\ pc'[m] = "idle"
      /\ \A o \in Monitors : o # m => owed'[o] = owed[o] /\ pc'[o] = pc[o] /\ rows'[o] = rows[o]
  BY <1>1 DEF IInv, TypeOK
<1>3. TypeOK'
  <2>1. \A id \in OpenRows : <<"resolved", id>> \notin (UNION {owed'[o] : o \in Monitors}) \cup sent
    <3>1. \A o \in Monitors : owed'[o] \subseteq owed[o]
      BY <1>2
    <3>2. \A id \in OpenRows : /\ <<"resolved", id>> \notin sent
                               /\ \A o \in Monitors : <<"resolved", id>> \notin owed[o]
      BY OpenIsNotEnded DEF IInv
    <3> QED
      BY <3>1, <3>2
  <2>2. owed' \in [Monitors -> SUBSET Notices] /\ lost' \subseteq Notices
    BY <1>1 DEF IInv, TypeOK
  <2>3. \A o \in Monitors : pc'[o] # "notifying" => owed'[o] = {}
    BY <1>2 DEF IInv, TypeOK
  <2>4. faults' \in 0..MaxFaults
    BY <1>1, AlertsAssumption DEF IInv, TypeOK
  <2>5. /\ pc' \in [Monitors -> {"idle", "evaluated", "selecting", "locked", "notifying"}]
        /\ rows' \in [Monitors -> SUBSET Stored]
    BY <1>1 DEF IInv, TypeOK
  <2> QED
    BY <1>1, <2>1, <2>2, <2>3, <2>4, <2>5 DEF IInv, TypeOK
<1>4. LocksHold'
  BY <1>1, <1>2 DEF IInv, LocksHold
<1>5. OwedByOne'
  BY <1>1, <1>2 DEF IInv, OwedByOne
<1>6. Decided' = Decided
  BY <1>1, <1>2 DEF Decided
<1>7. StoredIsDecided' /\ NobodyToldTwice'
  BY <1>1, <1>6 DEF IInv, StoredIsDecided, NobodyToldTwice
<1> QED
  BY <1>3, <1>4, <1>5, <1>7 DEF IInv

LEMMA NextInv == IInv /\ [Next]_vars => IInv'
<1> SUFFICES ASSUME IInv, [Next]_vars  PROVE IInv'
  OBVIOUS
<1>1. ASSUME NEW m \in Monitors, Cycle(m)  PROVE IInv'
  BY <1>1, QuietInv, LockRowsInv, CommitInv, CommitClashesInv, NotifyInv DEF Cycle
<1>2. ASSUME NEW m \in Monitors, NotifyFails(m) \/ Crash(m)  PROVE IInv'
  BY <1>2, AbandonInv DEF NotifyFails, Crash
<1>3. CASE Change
  BY <1>3, QuietInv
<1>4. CASE UNCHANGED vars
  <2>1. /\ UNCHANGED <<holding, firings, pc, current, rows, owed, sent, resent, lost, changes, faults>>
        /\ Stored' = Stored /\ OpenRows' = OpenRows /\ Notices' = Notices
    BY <1>4, SameRows DEF vars, cycleVars, noticeVars
  <2> QED
    BY <2>1 DEF IInv, TypeOK, LocksHold, OwedByOne, StoredIsDecided, NobodyToldTwice, Decided
<1> QED
  BY <1>1, <1>2, <1>3, <1>4 DEF Next

\* run_once of any number of monitors keeps the inductive invariant.
THEOREM Invariance == Spec => []IInv
<1> QED
  BY InitInv, NextInv, PTL DEF Spec

-----------------------------------------------------------------------------
\* The state of the cycles and of rule_firings keeps its type; a condition has at
\* most one open firing, although cycles that find it true overlap, and no
\* "resolved" is owed or sent for a firing that is open (alerts.py, run_once).
THEOREM TypeCorrect == Spec => []TypeOK
<1>1. IInv => TypeOK
  BY DEF IInv
<1> QED
  BY <1>1, Invariance, PTL

\* No firing is announced twice and none ends twice, however many cycles overlap,
\* collide or die.
THEOREM ToldOnce == Spec => []NobodyToldTwice
<1>1. IInv => NobodyToldTwice
  BY DEF IInv
<1> QED
  BY <1>1, Invariance, PTL

\* Whenever no cycle runs, the owner has had the alert of every stored firing and
\* the "resolved" of every one that ended, but for the notices that a fault took.
THEOREM Told == Spec => []OwnerIsTold
<1>1. IInv => OwnerIsTold
  <2> SUFFICES ASSUME IInv, \A m \in Monitors : pc[m] = "idle"
               PROVE  \A id \in Stored :
                         /\ <<"alert", id>> \in sent \cup lost
                         /\ \/ id \in OpenRows \/ id[1] \in Informational
                            \/ <<"resolved", id>> \in sent \cup lost
    BY DEF OwnerIsTold
  <2>1. \A m \in Monitors : owed[m] = {}
    BY DEF IInv, TypeOK
  <2>2. Decided = sent \cup lost
    BY <2>1 DEF Decided
  <2> QED
    BY <2>2 DEF IInv, StoredIsDecided
<1> QED
  BY <1>1, Invariance, PTL
=============================================================================
