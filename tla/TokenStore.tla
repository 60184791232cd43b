---------------------------- MODULE TokenStore -----------------------------
(***************************************************************************)
(* The stored Tesla login (teslai/tesla/tokens.py): processes that ask for *)
(* an access token at the same time, the row lock that serialises them,    *)
(* Tesla's single-use refresh tokens (teslai/tesla/auth.py), and a login   *)
(* command that stores a new grant meanwhile.                              *)
(*                                                                         *)
(* A token pair is named by the number of its refresh token.  Tesla is     *)
(* external: it spends a refresh token the first time it sees it, answers  *)
(* with the next pair of the same grant, and refuses the token from then.  *)
(***************************************************************************)
EXTENDS Naturals, Sequences, FiniteSets

CONSTANTS Procs,        \* the monitor and the tesla commands
          Faults,       \* which happen: "unreachable", "answer", "commit", "crash"
          MaxLogins,    \* bound: logins
          MaxExpiries,  \* bound: times the stored access token gets stale
          MaxFaults     \* bound: faults in a behaviour

ASSUME TokenAssumption == /\ MaxLogins \in Nat /\ MaxExpiries \in Nat /\ MaxFaults \in Nat
                          /\ "nobody" \notin Procs

VARIABLES row,      \* tesla_connections: refresh token (0: no row), more than 5 min left?
          lock,     \* who holds the row lock
          pc,       \* where each get_access_token call is
          seen,     \* the refresh token read by the holder of the lock
          reply,    \* the refresh token Tesla answered with
          loginPc, loginToken,  \* the login command: code exchanged, pair not stored yet
          grantOf,  \* the grant of each refresh token issued so far
          spent,    \* refresh tokens Tesla has seen
          respent,  \* of those, the ones it was sent again
          lost,     \* history: spent tokens whose successor a fault kept from the row
          logins, expiries, faults  \* counters

teslaVars == <<grantOf, spent, respent>>
loginVars == <<loginPc, loginToken, logins>>
procVars  == <<pc, seen, reply>>
faultVars == <<lost, faults>>
vars == <<row, lock, procVars, loginVars, teslaVars, faultVars, expiries>>

Issued == 1..Len(grantOf)

\* Types; the row lock is held exactly by the transaction that is under way,
\* and only issued tokens are ever read, stored or spent.
TypeOK ==
    /\ row \in [refresh : 0..Len(grantOf), fresh : BOOLEAN]
    /\ lock \in Procs \cup {"nobody"}
    /\ \A p \in Procs : lock = p <=> pc[p] \in {"locked", "calling", "answered"}
    /\ pc \in [Procs -> {"idle", "asked", "locked", "calling", "answered"}]
    /\ seen \in [Procs -> 0..Len(grantOf)] /\ reply \in [Procs -> 0..Len(grantOf)]
    /\ loginPc \in {"idle", "exchanged"} /\ loginToken \in 0..Len(grantOf)
    /\ logins \in Nat /\ expiries \in Nat /\ faults \in Nat
    /\ grantOf \in Seq(Nat)
    /\ spent \subseteq Issued /\ respent \subseteq spent /\ lost \subseteq spent

Init ==
    /\ row = [refresh |-> 0, fresh |-> FALSE] /\ lock = "nobody"
    /\ pc = [p \in Procs |-> "idle"]
    /\ seen = [p \in Procs |-> 0] /\ reply = [p \in Procs |-> 0]
    /\ loginPc = "idle" /\ loginToken = 0 /\ logins = 0
    /\ grantOf = <<>> /\ spent = {} /\ respent = {}
    /\ lost = {} /\ expiries = 0 /\ faults = 0

Goto(p, here, there) == pc[p] = here /\ pc' = [pc EXCEPT ![p] = there]

-----------------------------------------------------------------------------
(* get_access_token                                                        *)

Ask(p) ==
    /\ Goto(p, "idle", "asked")
    /\ UNCHANGED <<row, lock, seen, reply, loginVars, teslaVars, faultVars, expiries>>

\* SELECT ... FOR UPDATE finds no row: TSL-TESLA-UNCONFIGURED.
NotConfigured(p) ==
    /\ row.refresh = 0
    /\ Goto(p, "asked", "idle")
    /\ UNCHANGED <<row, lock, seen, reply, loginVars, teslaVars, faultVars, expiries>>

LockShared(p) ==  \* mutant: a plain SELECT, which waits for nobody
    /\ row.refresh # 0
    /\ Goto(p, "asked", "locked")
    /\ lock' = p
    /\ seen' = [seen EXCEPT ![p] = row.refresh]
    /\ UNCHANGED <<row, reply, loginVars, teslaVars, faultVars, expiries>>

\* SELECT ... FOR UPDATE waits for the row lock and reads the committed row.
Lock(p) ==
    /\ row.refresh # 0 /\ lock = "nobody"
    /\ Goto(p, "asked", "locked")
    /\ lock' = p
    /\ seen' = [seen EXCEPT ![p] = row.refresh]
    /\ UNCHANGED <<row, reply, loginVars, teslaVars, faultVars, expiries>>

\* The transaction ends, by COMMIT or ROLLBACK.
Unlock == lock' = "nobody"

\* More than REFRESH_MARGIN left: the stored access token is returned.
Reuse(p) ==
    /\ row.fresh
    /\ Goto(p, "locked", "idle")
    /\ Unlock
    /\ UNCHANGED <<row, seen, reply, loginVars, teslaVars, faultVars, expiries>>

SendAlways(p) ==  \* mutant: no look at access_expires_at after the lock
    /\ Goto(p, "locked", "calling")
    /\ UNCHANGED <<row, lock, seen, reply, loginVars, teslaVars, faultVars, expiries>>

\* do_refresh: the request leaves, inside the transaction.
Send(p) ==
    /\ ~row.fresh
    /\ Goto(p, "locked", "calling")
    /\ UNCHANGED <<row, lock, seen, reply, loginVars, teslaVars, faultVars, expiries>>

\* Tesla sees an unspent token: it is spent, and the next one of its grant issued.
Rotate(p) ==
    /\ seen[p] \notin spent
    /\ spent' = spent \cup {seen[p]}
    /\ grantOf' = Append(grantOf, grantOf[seen[p]])
    /\ UNCHANGED respent

TeslaAnswers(p) ==
    /\ Goto(p, "calling", "answered")
    /\ Rotate(p)
    /\ reply' = [reply EXCEPT ![p] = Len(grantOf) + 1]
    /\ UNCHANGED <<row, lock, seen, loginVars, faultVars, expiries>>

\* Tesla sees a spent token: TSL-TOKEN-CONSUMED, and the transaction rolls back.
TeslaRefuses(p) ==
    /\ Goto(p, "calling", "idle")
    /\ seen[p] \in spent
    /\ respent' = respent \cup {seen[p]}
    /\ Unlock
    /\ UNCHANGED <<row, seen, reply, loginVars, grantOf, spent, faultVars, expiries>>

SaveAccessOnly(p) ==  \* mutant: the rotated refresh token is not stored
    /\ Goto(p, "answered", "idle")
    /\ row' = [row EXCEPT !.fresh = TRUE]
    /\ Unlock
    /\ UNCHANGED <<seen, reply, loginVars, teslaVars, faultVars, expiries>>

SaveKeepingLock(p) ==  \* mutant: the transaction is left open
    /\ Goto(p, "answered", "idle")
    /\ row' = [refresh |-> reply[p], fresh |-> TRUE]
    /\ UNCHANGED <<lock, seen, reply, loginVars, teslaVars, faultVars, expiries>>

\* UPDATE tesla_connections ... COMMIT
Save(p) ==
    /\ Goto(p, "answered", "idle")
    /\ row' = [refresh |-> reply[p], fresh |-> TRUE]
    /\ Unlock
    /\ UNCHANGED <<seen, reply, loginVars, teslaVars, faultVars, expiries>>

-----------------------------------------------------------------------------
(* teslai tesla login: exchange_code, then save_tokens' upsert.            *)

Exchange ==
    /\ loginPc = "idle" /\ logins < MaxLogins
    /\ loginPc' = "exchanged"
    /\ logins' = logins + 1
    /\ grantOf' = Append(grantOf, logins + 1)
    /\ loginToken' = Len(grantOf) + 1
    /\ UNCHANGED <<row, lock, procVars, spent, respent, faultVars, expiries>>

SaveLoginUnlocked ==  \* mutant: the login replaces the row beside a refresh in progress
    /\ loginPc = "exchanged"
    /\ row' = [refresh |-> loginToken, fresh |-> TRUE]
    /\ loginPc' = "idle"
    /\ UNCHANGED <<lock, procVars, loginToken, logins, teslaVars, faultVars, expiries>>

\* INSERT ... ON CONFLICT DO UPDATE waits for the row lock too.
SaveLogin ==
    /\ loginPc = "exchanged" /\ lock = "nobody"
    /\ row' = [refresh |-> loginToken, fresh |-> TRUE]
    /\ loginPc' = "idle"
    /\ UNCHANGED <<lock, procVars, loginToken, logins, teslaVars, faultVars, expiries>>

\* Time: less than REFRESH_MARGIN is left of the stored access token.
Expire ==
    /\ row.fresh /\ expiries < MaxExpiries
    /\ row' = [row EXCEPT !.fresh = FALSE]
    /\ expiries' = expiries + 1
    /\ UNCHANGED <<lock, procVars, loginVars, teslaVars, faultVars>>

-----------------------------------------------------------------------------
(* Faults: each one ends the call with an exception and rolls back.        *)

Fails(p, kind) ==
    /\ kind \in Faults /\ faults < MaxFaults
    /\ faults' = faults + 1
    /\ pc' = [pc EXCEPT ![p] = "idle"]
    /\ Unlock
    /\ UNCHANGED <<row, seen, reply, loginVars, expiries>>

\* The request never reaches Tesla.
Unreachable(p) ==
    /\ pc[p] = "calling" /\ Fails(p, "unreachable")
    /\ UNCHANGED <<teslaVars, lost>>

\* Tesla rotated, and the answer timed out.
AnswerLost(p) ==
    /\ pc[p] = "calling" /\ Fails(p, "answer")
    /\ Rotate(p)
    /\ lost' = lost \cup {seen[p]}

\* The UPDATE or the COMMIT fails after Tesla answered.
CommitFails(p) ==
    /\ pc[p] = "answered" /\ Fails(p, "commit")
    /\ lost' = lost \cup {seen[p]}
    /\ UNCHANGED teslaVars

\* The process dies; the database rolls its transaction back.
Crash(p) ==
    /\ pc[p] \in {"locked", "calling", "answered"} /\ Fails(p, "crash")
    /\ lost' = IF pc[p] = "answered" THEN lost \cup {seen[p]} ELSE lost
    /\ UNCHANGED teslaVars

-----------------------------------------------------------------------------
Call(p) == \/ Ask(p) \/ NotConfigured(p) \/ Lock(p) \/ Reuse(p) \/ Send(p)
           \/ TeslaAnswers(p) \/ TeslaRefuses(p) \/ Save(p)

Login == Exchange \/ SaveLogin

Fault(p) == Unreachable(p) \/ AnswerLost(p) \/ CommitFails(p) \/ Crash(p)

Next == (\E p \in Procs : Call(p) \/ Fault(p)) \/ Login \/ Expire

Spec == Init /\ [][Next]_vars

\* A call that was made runs on, HTTP calls end (the client has a timeout), and
\* the database grants the row lock to those who wait for it in turn.
FairSpec == /\ Spec
            /\ \A p \in Procs : WF_vars(pc[p] # "idle" /\ Call(p)) /\ SF_vars(Lock(p))
            /\ SF_vars(SaveLogin)

-----------------------------------------------------------------------------
\* What the row lock is for: two processes, or a process and a login, never
\* make Tesla see a refresh token twice.  Only a token whose rotation a fault
\* kept out of the database is ever sent again.
SpentOnceUnlessLost == respent \subseteq lost

\* "a single-use refresh token is never spent twice" (tokens.py:12-13), taken
\* as it is written, with faults.
NeverSpentTwice == respent = {}

\* Between transactions the stored refresh token still works, unless a fault
\* took its successor: concurrency never costs the owner the login.
StoredTokenWorks ==
    (lock = "nobody" /\ row.refresh \in spent) => row.refresh \in lost

\* A caller that waited for another one's refresh does not refresh again: each
\* expiry of the stored token rotates at most one refresh token.
OneRotationPerExpiry == Cardinality(spent) <= expiries

\* A refresh that began under an old grant never replaces the pair that a later
\* login stored, and a stored login never disappears.
NewestLoginStays ==
    [][row.refresh # 0 => /\ row'.refresh # 0
                          /\ grantOf'[row'.refresh] >= grantOf[row.refresh]]_row

\* Every caller gets an answer, and a login gets stored, even while others
\* keep asking.
EveryoneAnswered ==
    /\ \A p \in Procs : (pc[p] # "idle") ~> (pc[p] = "idle")
    /\ (loginPc = "exchanged") ~> (loginPc = "idle")
=============================================================================
