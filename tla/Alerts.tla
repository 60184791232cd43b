------------------------------- MODULE Alerts -------------------------------
(***************************************************************************)
(* run_once of teslai/alerts.py: the cycle that compares the conditions    *)
(* that are true (billing, silence, tokens, certificate, backups, the car  *)
(* rules of teslai/rules.py and the session notices of                     *)
(* teslai/summaries.py) with the open rows of rule_firings, stores the     *)
(* difference in one transaction and notifies the owner after the commit.  *)
(*                                                                         *)
(* The loop of `teslai monitor` runs it, and `teslai monitor --once` may   *)
(* run it at the same time.  A condition is named by its (rule, key).      *)
(***************************************************************************)
EXTENDS Naturals, Sequences, FiniteSets

CONSTANTS Monitors,
          Keys,           \* the (rule, key) pairs
          Informational,  \* those whose code has nothing to resolve
          Faults,         \* which happen: "notify", "crash"
          MaxChanges,     \* bound: times a condition becomes true or false
          MaxFaults       \* bound: faults in a behaviour

ASSUME AlertsAssumption == /\ Informational \subseteq Keys
                           /\ MaxChanges \in Nat /\ MaxFaults \in Nat

VARIABLES holding,   \* the conditions that are true now
          firings,   \* rule_firings: for each key, its rows in the order they fired
          pc,        \* where each cycle is
          current,   \* the conditions a cycle found true
          rows,      \* the open rows its SELECT ... FOR UPDATE returned
          owed,      \* the notices it has yet to send
          sent,      \* history: notices the owner got
          resent,    \* history: of those, the ones the owner got again
          lost,      \* history: notices a fault kept from the owner
          changes, faults  \* counters

cycleVars  == <<pc, current, rows, owed>>
noticeVars == <<sent, resent, lost>>
vars == <<holding, firings, cycleVars, noticeVars, changes, faults>>

\* A row of rule_firings is named by its key and its place among the key's rows.
Stored == UNION {{<<k, n>> : n \in DOMAIN firings[k]} : k \in Keys}
OpenRows == {id \in Stored : firings[id[1]][id[2]].open}
KeysOf(ids) == {id[1] : id \in ids}

Notices == {"alert", "resolved"} \X Stored

\* Types; a condition has at most one open firing, also when two cycles find it true
\* at the same time ("a concurrent duplicate insert fail[s]", alerts.py:10); a cycle
\* has locked only stored rows, owes notices only for rows it has committed, and
\* "resolved" only for rows that are.
TypeOK ==
    /\ holding \subseteq Keys
    /\ firings \in [Keys -> Seq([open : BOOLEAN])]
    /\ \A id, other \in OpenRows : id[1] = other[1] => id = other
    /\ pc \in [Monitors -> {"idle", "evaluated", "selecting", "locked", "notifying"}]
    /\ current \in [Monitors -> SUBSET Keys]
    /\ rows \in [Monitors -> SUBSET Stored]
    /\ owed \in [Monitors -> SUBSET Notices]
    /\ \A m \in Monitors : pc[m] # "notifying" => owed[m] = {}
    /\ sent \subseteq Notices /\ resent \subseteq sent /\ lost \subseteq Notices
    /\ \A id \in OpenRows : <<"resolved", id>> \notin (UNION {owed[m] : m \in Monitors}) \cup sent
    /\ changes \in 0..MaxChanges /\ faults \in 0..MaxFaults

Init ==
    /\ holding = {} /\ firings = [k \in Keys |-> <<>>]
    /\ pc = [m \in Monitors |-> "idle"]
    /\ current = [m \in Monitors |-> {}] /\ rows = [m \in Monitors |-> {}]
    /\ owed = [m \in Monitors |-> {}]
    /\ sent = {} /\ resent = {} /\ lost = {}
    /\ changes = 0 /\ faults = 0

Goto(m, here, there) == pc[m] = here /\ pc' = [pc EXCEPT ![m] = there]

\* What a condition is about changes.  A version is true while its row is in the
\* 24 hours that vehicle_states reads, a session while it ended in the last 24.
Change ==
    /\ changes < MaxChanges
    /\ \E k \in Keys : holding' = (IF k \in holding THEN holding \ {k} ELSE holding \cup {k})
    /\ changes' = changes + 1
    /\ UNCHANGED <<firings, cycleVars, noticeVars, faults>>

-----------------------------------------------------------------------------
(* One cycle.                                                              *)

\* check_*, vehicle_states, evaluate, summary_conditions: read before the
\* transaction below begins.
Evaluate(m) ==
    /\ Goto(m, "idle", "evaluated")
    /\ current' = [current EXCEPT ![m] = holding]
    /\ UNCHANGED <<holding, firings, rows, owed, noticeVars, changes, faults>>

\* SELECT ... WHERE resolved_at IS NULL FOR UPDATE: the statement sees the rows
\* committed when it starts ...
Select(m) ==
    /\ Goto(m, "evaluated", "selecting")
    /\ rows' = [rows EXCEPT ![m] = OpenRows]
    /\ UNCHANGED <<holding, firings, current, owed, noticeVars, changes, faults>>

LockNoRows(m) ==  \* mutant: SELECT without FOR UPDATE
    /\ Goto(m, "selecting", "locked")
    /\ UNCHANGED <<holding, firings, current, rows, owed, noticeVars, changes, faults>>

\* ... waits for the ones another cycle has locked, and drops those that cycle
\* resolved.  A row inserted meanwhile stays unseen.
LockRows(m) ==
    /\ Goto(m, "selecting", "locked")
    /\ \A o \in Monitors : pc[o] = "locked" => rows[o] \cap rows[m] = {}
    /\ rows' = [rows EXCEPT ![m] = @ \cap OpenRows]
    /\ UNCHANGED <<holding, firings, current, owed, noticeVars, changes, faults>>

ToFire(m) == current[m] \ KeysOf(rows[m])
ToResolve(m) == {id \in rows[m] : id[1] \notin current[m]}

NoClash(m) == FALSE  \* mutant: no partial unique index on open rows

\* rule_firings_open_uq: a row to insert has an open row already.
Clash(m) == ToFire(m) \cap KeysOf(OpenRows) # {}

OwedForRules(m) ==  \* mutant: informational firings store a row and notify nobody
    {<<"alert", <<k, Len(firings[k]) + 1>>>> : k \in ToFire(m) \ Informational} \cup
    {<<"resolved", id>> : id \in {i \in ToResolve(m) : i[1] \notin Informational}}

\* run_once's `fired` and `resolved`.
OwedTo(m) ==
    {<<"alert", <<k, Len(firings[k]) + 1>>>> : k \in ToFire(m)} \cup
    {<<"resolved", id>> : id \in {i \in ToResolve(m) : i[1] \notin Informational}}

CommitFiringsOnly(m) ==  \* mutant: the UPDATE of resolved_at is missing
    /\ Goto(m, "locked", "notifying")
    /\ ~Clash(m)
    /\ firings' = [k \in Keys |-> IF k \in ToFire(m) THEN Append(firings[k], [open |-> TRUE])
                                                      ELSE firings[k]]
    /\ owed' = [owed EXCEPT ![m] = OwedTo(m)]
    /\ rows' = [rows EXCEPT ![m] = {}]
    /\ UNCHANGED <<holding, current, noticeVars, changes, faults>>

\* INSERT the new, UPDATE resolved_at of the ones that no longer hold, COMMIT.
Commit(m) ==
    /\ Goto(m, "locked", "notifying")
    /\ ~Clash(m)
    /\ firings' = [k \in Keys |->
           LET kept == [n \in DOMAIN firings[k] |->
                           [open |-> firings[k][n].open /\ <<k, n>> \notin ToResolve(m)]]
           IN  IF k \in ToFire(m) THEN Append(kept, [open |-> TRUE]) ELSE kept]
    /\ owed' = [owed EXCEPT ![m] = OwedTo(m)]
    /\ rows' = [rows EXCEPT ![m] = {}]
    /\ UNCHANGED <<holding, current, noticeVars, changes, faults>>

\* The insert fails and takes the whole transaction with it; the monitor logs
\* "monitor cycle failed".
CommitClashes(m) ==
    /\ Goto(m, "locked", "idle")
    /\ Clash(m)
    /\ rows' = [rows EXCEPT ![m] = {}]
    /\ UNCHANGED <<holding, firings, current, owed, noticeVars, changes, faults>>

\* notify(): every alert, then every "resolved".
Notify(m) ==
    /\ pc[m] = "notifying"
    /\ \E o \in owed[m] :
        /\ o[1] = "resolved" => \A p \in owed[m] : p[1] = "resolved"
        /\ sent' = sent \cup {o}
        /\ resent' = IF o \in sent THEN resent \cup {o} ELSE resent
        /\ owed' = [owed EXCEPT ![m] = @ \ {o}]
    /\ UNCHANGED <<holding, firings, pc, current, rows, lost, changes, faults>>

Finish(m) ==
    /\ owed[m] = {}
    /\ Goto(m, "notifying", "idle")
    /\ UNCHANGED <<holding, firings, current, rows, owed, noticeVars, changes, faults>>

-----------------------------------------------------------------------------
(* Faults: the cycle ends, and the notices it owed are forgotten.          *)

Abandon(m, kind) ==
    /\ kind \in Faults /\ faults < MaxFaults
    /\ faults' = faults + 1
    /\ pc' = [pc EXCEPT ![m] = "idle"]
    /\ rows' = [rows EXCEPT ![m] = {}]
    /\ owed' = [owed EXCEPT ![m] = {}]
    /\ lost' = lost \cup owed[m]
    /\ UNCHANGED <<holding, firings, current, sent, resent, changes>>

\* No channel accepts a message: notify raises out of run_once.
NotifyFails(m) == owed[m] # {} /\ Abandon(m, "notify")

\* The process dies; the database rolls back what it had not committed.
Crash(m) == pc[m] # "idle" /\ Abandon(m, "crash")

-----------------------------------------------------------------------------
Cycle(m) == \/ Evaluate(m) \/ Select(m) \/ LockRows(m)
            \/ Commit(m) \/ CommitClashes(m) \/ Notify(m) \/ Finish(m)

Next == (\E m \in Monitors : Cycle(m) \/ NotifyFails(m) \/ Crash(m)) \/ Change

Spec == Init /\ [][Next]_vars

\* The loop of `teslai monitor` starts a cycle every minute and goes on with it;
\* a cycle that waits for a row lock gets it.
FairSpec == Spec /\ \A m \in Monitors : WF_vars(Cycle(m)) /\ SF_vars(LockRows(m))

-----------------------------------------------------------------------------
\* A concurrent insert fails "instead of double-notifying": no firing is announced twice, and no two
\* cycles announce that it was resolved.
NobodyToldTwice == resent = {}

\* When no cycle runs, the owner has been told of every firing and of every
\* resolution that is not informational, but for what a fault lost.
OwnerIsTold ==
    (\A m \in Monitors : pc[m] = "idle") =>
        \A id \in Stored :
            /\ <<"alert", id>> \in sent \cup lost
            /\ (id \in OpenRows \/ id[1] \in Informational \/ <<"resolved", id>> \in sent \cup lost)

\* Once the conditions stop changing, the open firings are those of the
\* conditions that hold, whatever cycles collided or died on the way.
FiringsFollowConditions == <>[](KeysOf(OpenRows) = holding)
=============================================================================
