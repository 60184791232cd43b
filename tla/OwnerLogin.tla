------------------------------ MODULE OwnerLogin ------------------------------
(***************************************************************************)
(* The owner's login (teslai/api/app.py, owner_auth.py): requests that run *)
(* at the same time, each of which notes the time, waits for the lock of   *)
(* the owner's row, and counts a failure or locks the account; and the     *)
(* command owner create, which resets the row (teslai/cli.py).  Whether    *)
(* the password and the code of a request are right is chosen when it      *)
(* arrives.  An unknown address changes nothing and is left out.           *)
(***************************************************************************)
EXTENDS Integers, Sequences

CONSTANTS Requests,      \* requests that the server handles at the same time
          MaxFailures,   \* MAX_FAILURES
          Lockout,       \* LOCKOUT
          MaxWait,       \* bound: the longest that a request takes
          LastTime       \* bound: the last time

ASSUME LoginAssumption ==
    /\ MaxFailures \in Nat \ {0}
    /\ {Lockout, MaxWait, LastTime} \subseteq Nat

NoLock == -1             \* locked_until IS NULL
Idle == [pc |-> "idle", at |-> 0, right |-> FALSE, failed |-> 0, lockedUntil |-> NoLock]

VARIABLES time,
          user,      \* the row of users: failed_logins, locked_until
          request,   \* what each request is at, and what it has read
          guesses    \* when the passwords and codes that were checked and wrong
                     \* were, since the last right one or the last owner create

loginVars == <<time, user, request, guesses>>

Clean == [failed |-> 0, lockedUntil |-> NoLock]

LoginInit ==
    /\ time = 0
    /\ user = Clean
    /\ request = [p \in Requests |-> Idle]
    /\ guesses = <<>>

-----------------------------------------------------------------------------
\* The time is taken before the row is asked for.
Arrive(p) ==
    /\ request[p].pc = "idle"
    /\ \E right \in BOOLEAN :
          request' = [request EXCEPT ![p] = [Idle EXCEPT !.pc = "wait", !.at = time, !.right = right]]
    /\ UNCHANGED <<time, user, guesses>>

RowIsThere == TRUE  \* mutant: SELECT without FOR UPDATE

\* SELECT ... FOR UPDATE waits until no transaction holds the row.
RowIsFree == \A q \in Requests : request[q].pc # "decide"

ReadUser(p) ==
    /\ request[p].pc = "wait"
    /\ RowIsFree
    /\ request' = [request EXCEPT ![p].pc = "decide",
                                  ![p].failed = user.failed,
                                  ![p].lockedUntil = user.lockedUntil]
    /\ UNCHANGED <<time, user, guesses>>

\* A request that fails counts, and the last one of a row of them locks.
Fail(r) ==
    IF r.failed + 1 >= MaxFailures
    THEN [failed |-> 0, lockedUntil |-> r.at + Lockout]
    ELSE [failed |-> r.failed + 1, lockedUntil |-> NoLock]

\* The outcome is stored and committed before the answer.
Decide(p) ==
    LET r == request[p]
    IN  /\ r.pc = "decide"
        /\ request' = [request EXCEPT ![p] = Idle]
        /\ \/ r.lockedUntil > r.at                        \* 429
              /\ UNCHANGED <<user, guesses>>
           \/ r.lockedUntil <= r.at /\ r.right
              /\ user' = Clean /\ guesses' = <<>>
           \/ r.lockedUntil <= r.at /\ ~r.right           \* 401
              /\ user' = Fail(r) /\ guesses' = Append(guesses, time)
        /\ UNCHANGED time

\* The server stops: the transaction is taken back.
Abandon(p) ==
    /\ request[p].pc # "idle"
    /\ request' = [request EXCEPT ![p] = Idle]
    /\ UNCHANGED <<time, user, guesses>>

OwnerCreate ==
    /\ RowIsFree
    /\ user' = Clean /\ guesses' = <<>>
    /\ UNCHANGED <<time, request>>

Wait ==
    /\ time < LastTime
    /\ \A p \in Requests : request[p].pc # "idle" => time < request[p].at + MaxWait
    /\ time' = time + 1
    /\ UNCHANGED <<user, request, guesses>>

LoginNext ==
    \/ \E p \in Requests : Arrive(p) \/ ReadUser(p) \/ Decide(p) \/ Abandon(p)
    \/ OwnerCreate
    \/ Wait

-----------------------------------------------------------------------------
\* No failure is lost, however the requests overlap: the count in the row is that
\* of the wrong attempts that were checked since the last lock; and more than
\* MaxFailures of them in a row take at least the lockout, less what a request that
\* has noted the time may wait (login: now is taken before SELECT ... FOR UPDATE).
GuessesAreSlow ==
    /\ user.failed = Len(guesses) % MaxFailures
    /\ \A i \in 1..(Len(guesses) - MaxFailures) :
          guesses[i + MaxFailures] - guesses[i] >= Lockout - MaxWait
===============================================================================
