-------------------------- MODULE OperationsProofs --------------------------
(***************************************************************************)
(* Proofs about the three parts that Operations checks side by side: the   *)
(* owner's login, the invoices of Supercharger sessions, and the setup of  *)
(* the car's telemetry.                                                    *)
(***************************************************************************)
EXTENDS Operations, SequenceTheorems, WellFoundedInduction, TLAPS

-----------------------------------------------------------------------------
(* The owner's login.                                                      *)

Row == [failed : 0..(MaxFailures - 1), lockedUntil : Nat \cup {NoLock}]

LoginRequest ==
    [pc : {"idle", "wait", "decide"}, at : Nat, right : BOOLEAN,
     failed : 0..(MaxFailures - 1), lockedUntil : Nat \cup {NoLock}]

LoginTypeOK ==
    /\ time \in Nat
    /\ user \in Row
    /\ request \in [Requests -> LoginRequest]
    /\ guesses \in Seq(Nat)

\* A request answers within MaxWait of the time it has noted.
AnswersInTime ==
    \A p \in Requests : request[p].pc # "idle"
                            => request[p].at <= time /\ time <= request[p].at + MaxWait

\* FOR UPDATE: one request at a time decides, on what the row holds.
RowIsLocked ==
    \A p \in Requests : request[p].pc = "decide" =>
        /\ request[p].failed = user.failed /\ request[p].lockedUntil = user.lockedUntil
        /\ \A q \in Requests \ {p} : request[q].pc # "decide"

\* The wrong attempts are in order, and none is in the future.
GuessesInOrder ==
    /\ \A i \in 1..Len(guesses) : guesses[i] <= time
    /\ \A i, j \in 1..Len(guesses) : i <= j => guesses[i] <= guesses[j]

\* Every MaxFailures wrong attempts lock and start the count again.
EveryFailureCounts == \E n \in Nat : Len(guesses) = n * MaxFailures + user.failed

\* The lock that the last counted attempt set stands until another one is counted.
LockStands ==
    guesses # <<>> /\ user.failed = 0
        => user.lockedUntil >= guesses[Len(guesses)] + Lockout - MaxWait

\* The attempts that the row counts came a lockout after those before them.
CountedAfterLock ==
    \A i \in 1..(Len(guesses) - user.failed), j \in 1..Len(guesses) :
        j > Len(guesses) - user.failed => guesses[j] - guesses[i] >= Lockout - MaxWait

LoginInv ==
    /\ LoginTypeOK /\ AnswersInTime /\ RowIsLocked /\ GuessesInOrder /\ EveryFailureCounts
    /\ LockStands /\ CountedAfterLock /\ GuessesAreSlow

\* With as many failures counted as are left over when they lock in rounds of
\* MaxFailures, the count in the row is the remainder.
LEMMA CountIsRemainder ==
    ASSUME NEW count \in Nat, NEW failed \in 0..(MaxFailures - 1),
           NEW n \in Nat, count = n * MaxFailures + failed
    PROVE  failed = count % MaxFailures
BY LoginAssumption

LEMMA LoginInitInv == LoginInit => LoginInv
<1> SUFFICES ASSUME LoginInit PROVE LoginInv
  OBVIOUS
<1>1. /\ time = 0 /\ guesses = <<>> /\ user = [failed |-> 0, lockedUntil |-> NoLock]
      /\ request = [p \in Requests |-> Idle] /\ MaxFailures \in Nat \ {0}
  BY LoginAssumption DEF LoginInit, Clean
<1>2. LoginTypeOK
  BY <1>1 DEF LoginTypeOK, Row, LoginRequest, Idle
<1>3. AnswersInTime /\ RowIsLocked
  BY <1>1 DEF AnswersInTime, RowIsLocked, Idle
<1>4. GuessesInOrder /\ LockStands /\ CountedAfterLock
  BY <1>1 DEF GuessesInOrder, LockStands, CountedAfterLock
<1>5. EveryFailureCounts
  <2>1. Len(guesses) = 0 * MaxFailures + user.failed
    BY <1>1
  <2> QED
    BY <2>1 DEF EveryFailureCounts
<1>6. GuessesAreSlow
  <2>1. user.failed = Len(guesses) % MaxFailures
    BY <1>1, <1>2, <1>5, CountIsRemainder DEF EveryFailureCounts, LoginTypeOK, Row
  <2> QED
    BY <1>1, <2>1 DEF GuessesAreSlow
<1> QED
  BY <1>2, <1>3, <1>4, <1>5, <1>6 DEF LoginInv

\* Nothing but a decision or an owner create touches the row and the attempts, and
\* time only makes them older.
LEMMA SameCountInv ==
    ASSUME LoginInv, UNCHANGED <<user, guesses>>, time' \in Nat, time' >= time
    PROVE  (GuessesInOrder /\ EveryFailureCounts /\ LockStands /\ CountedAfterLock /\ GuessesAreSlow)'
<1> USE DEF LoginInv, LoginTypeOK
<1>1. GuessesInOrder'
  BY DEF GuessesInOrder
<1>2. (EveryFailureCounts /\ LockStands /\ CountedAfterLock /\ GuessesAreSlow)'
  BY DEF EveryFailureCounts, LockStands, CountedAfterLock, GuessesAreSlow
<1> QED
  BY <1>1, <1>2

\* A request that goes back to rest holds nothing.
LEMMA RestInv ==
    ASSUME LoginInv, NEW p \in Requests, request' = [request EXCEPT ![p] = Idle], time' = time,
           user' = user \/ request[p].pc = "decide"
    PROVE  request' \in [Requests -> LoginRequest] /\ AnswersInTime' /\ RowIsLocked'
<1> USE DEF LoginInv, LoginTypeOK
<1>1. /\ request'[p] = Idle /\ Idle \in LoginRequest
      /\ \A q \in Requests : q # p => request'[q] = request[q]
  BY LoginAssumption DEF LoginRequest, Idle
<1>2. request' \in [Requests -> LoginRequest]
  BY <1>1
<1>3. AnswersInTime'
  BY <1>1 DEF AnswersInTime, Idle
<1>4. RowIsLocked'
  BY <1>1 DEF RowIsLocked, Idle
<1> QED
  BY <1>2, <1>3, <1>4

\* No attempt, no count.
LEMMA CleanInv ==
    ASSUME LoginInv, user' = Clean, guesses' = <<>>, time' = time
    PROVE  /\ user' \in Row /\ guesses' \in Seq(Nat)
           /\ (GuessesInOrder /\ EveryFailureCounts /\ LockStands /\ CountedAfterLock /\ GuessesAreSlow)'
<1>1. MaxFailures \in Nat \ {0} /\ user'.failed = 0 /\ Len(guesses') = 0
  BY LoginAssumption DEF Clean
<1>2. user' \in Row /\ guesses' \in Seq(Nat)
  BY <1>1 DEF Row, Clean
<1>3. GuessesInOrder' /\ LockStands' /\ CountedAfterLock'
  BY <1>1 DEF GuessesInOrder, LockStands, CountedAfterLock
<1>4. Len(guesses') = 0 * MaxFailures + user'.failed
  BY <1>1
<1>5. EveryFailureCounts'
  BY <1>4 DEF EveryFailureCounts
<1>6. user'.failed = Len(guesses') % MaxFailures
  BY <1>1, <1>4, CountIsRemainder
<1>7. GuessesAreSlow'
  BY <1>1, <1>6 DEF GuessesAreSlow
<1> QED
  BY <1>2, <1>3, <1>5, <1>7

\* A wrong attempt is checked when the lock it has read is over by the time it has
\* noted; so it comes a lockout, less MaxWait, after every attempt before that lock.
LEMMA WrongAttemptInv ==
    ASSUME LoginInv, NEW p \in Requests, request[p].pc = "decide",
           request[p].lockedUntil <= request[p].at,
           user' = Fail(request[p]), guesses' = Append(guesses, time), time' = time
    PROVE  /\ user' \in Row /\ guesses' \in Seq(Nat)
           /\ (GuessesInOrder /\ EveryFailureCounts /\ LockStands /\ CountedAfterLock /\ GuessesAreSlow)'
<1>1. /\ time \in Nat /\ guesses \in Seq(Nat)
      /\ MaxFailures \in Nat \ {0} /\ Lockout \in Nat /\ MaxWait \in Nat
      /\ request[p] \in LoginRequest
      /\ user.failed = request[p].failed /\ user.lockedUntil = request[p].lockedUntil
      /\ request[p].at <= time /\ time <= request[p].at + MaxWait
  BY LoginAssumption DEF LoginInv, LoginTypeOK, AnswersInTime, RowIsLocked
<1>0. PICK at \in Nat, failed \in Nat, until \in Int, n \in Nat :
          /\ request[p].at = at /\ request[p].failed = failed /\ request[p].lockedUntil = until
          /\ failed < MaxFailures /\ Len(guesses) = n /\ until <= at
  <2>1. /\ request[p].at \in Nat /\ request[p].failed \in 0..(MaxFailures - 1)
        /\ request[p].lockedUntil \in Nat \cup {NoLock}
    BY <1>1 DEF LoginRequest
  <2>2. request[p].failed \in Nat /\ request[p].failed < MaxFailures
    BY <1>1, <2>1
  <2>3. request[p].lockedUntil \in Int
    BY <2>1 DEF NoLock
  <2>4. Len(guesses) \in Nat
    BY <1>1
  <2> QED
    BY <2>1, <2>2, <2>3, <2>4, Zenon
<1>2. /\ guesses' \in Seq(Nat) /\ Len(guesses') = n + 1
      /\ guesses'[n + 1] = time /\ \A i \in 1..n : guesses'[i] = guesses[i]
      /\ \A i \in 1..n : guesses[i] \in Nat
  BY <1>1, <1>0
<1>3. GuessesInOrder'
  BY <1>1, <1>0, <1>2 DEF LoginInv, GuessesInOrder
<1>4. \A i \in 1..(n - failed) : time - guesses[i] >= Lockout - MaxWait
  <2> SUFFICES ASSUME NEW i \in 1..(n - failed)
               PROVE  time - guesses[i] >= Lockout - MaxWait
    OBVIOUS
  <2>1. CASE failed = 0
    <3>1. n >= 1 /\ guesses # <<>> /\ guesses[i] <= guesses[n]
      BY <1>1, <1>0, <2>1 DEF LoginInv, GuessesInOrder
    <3>2. until >= guesses[n] + Lockout - MaxWait
      BY <1>1, <1>0, <2>1, <3>1 DEF LoginInv, LockStands
    <3>3. i \in 1..n /\ n \in 1..n /\ guesses[i] \in Nat /\ guesses[n] \in Nat
      BY <1>1, <1>0, <1>2, <2>1, <3>1
    <3>4. PICK last \in Nat, guess \in Nat : guesses[n] = last /\ guesses[i] = guess
      BY <3>3, Zenon
    <3>5. guess <= last /\ until >= last + Lockout - MaxWait /\ until <= at /\ at <= time
      BY <1>1, <1>0, <3>1, <3>2, <3>4
    <3>6. time - guess >= Lockout - MaxWait
      BY <1>1, <3>5
    <3> QED
      BY <3>4, <3>6
  <2>2. CASE failed > 0
    <3>1. i \in 1..n /\ n \in 1..n /\ n > n - failed
      BY <1>1, <1>0, <2>2
    <3>2. guesses[n] - guesses[i] >= Lockout - MaxWait
      BY <1>1, <1>0, <3>1 DEF LoginInv, CountedAfterLock
    <3>3. guesses[n] <= time
      BY <1>1, <1>0, <3>1 DEF LoginInv, GuessesInOrder
    <3>4. PICK last \in Nat, guess \in Nat : guesses[n] = last /\ guesses[i] = guess
      BY <1>2, <3>1, Zenon
    <3>5. last - guess >= Lockout - MaxWait /\ last <= time
      BY <3>2, <3>3, <3>4
    <3>6. time - guess >= Lockout - MaxWait
      BY <1>1, <3>5
    <3> QED
      BY <3>4, <3>6
  <2> QED
    BY <1>1, <1>0, <2>1, <2>2
<1>5. \/ /\ failed + 1 < MaxFailures
         /\ user' = [failed |-> failed + 1, lockedUntil |-> NoLock]
      \/ /\ failed + 1 = MaxFailures
         /\ user' = [failed |-> 0, lockedUntil |-> at + Lockout]
  <2>1. CASE failed + 1 >= MaxFailures
    <3>1. failed + 1 = MaxFailures
      BY <1>1, <1>0, <2>1
    <3>2. user' = [failed |-> 0, lockedUntil |-> at + Lockout]
      BY <1>0, <2>1 DEF Fail
    <3> QED
      BY <3>1, <3>2
  <2>2. CASE ~(failed + 1 >= MaxFailures)
    <3>1. failed + 1 < MaxFailures
      BY <1>1, <1>0, <2>2
    <3>2. user' = [failed |-> failed + 1, lockedUntil |-> NoLock]
      BY <1>0, <2>2 DEF Fail
    <3> QED
      BY <3>1, <3>2
  <2> QED
    BY <2>1, <2>2
<1>6. user' \in Row /\ user'.failed \in Nat
  <2>1. 0 \in 0..(MaxFailures - 1) /\ (failed + 1 < MaxFailures => failed + 1 \in 0..(MaxFailures - 1))
    BY <1>1, <1>0
  <2>2. at + Lockout \in Nat
    BY <1>1, <1>0
  <2> QED
    BY <1>1, <1>0, <1>5, <2>1, <2>2 DEF Row
<1>7. EveryFailureCounts'
  <2>1. PICK k \in Nat : n = k * MaxFailures + failed
    BY <1>1, <1>0 DEF LoginInv, EveryFailureCounts
  <2>2. CASE failed + 1 < MaxFailures
    <3>1. n + 1 = k * MaxFailures + user'.failed
      BY <1>1, <1>0, <1>5, <2>1, <2>2
    <3> QED
      BY <1>2, <3>1 DEF EveryFailureCounts
  <2>3. CASE failed + 1 = MaxFailures
    <3>1. n + 1 = (k + 1) * MaxFailures + user'.failed
      <4>1. (k + 1) * MaxFailures = k * MaxFailures + MaxFailures
        BY <1>1
      <4>2. user'.failed = 0 /\ n = k * MaxFailures + MaxFailures - 1
        BY <1>1, <1>0, <1>5, <2>1, <2>3
      <4> QED
        BY <1>1, <4>1, <4>2
    <3> QED
      BY <1>2, <2>1, <3>1 DEF EveryFailureCounts
  <2> QED
    BY <1>5, <2>2, <2>3
<1>8. LockStands'
  BY <1>1, <1>0, <1>2, <1>5 DEF LockStands
<1>9. CountedAfterLock'
  <2> SUFFICES ASSUME NEW i \in 1..(Len(guesses') - user'.failed), NEW j \in 1..Len(guesses'),
                      j > Len(guesses') - user'.failed
               PROVE  guesses'[j] - guesses'[i] >= Lockout - MaxWait
    BY DEF CountedAfterLock
  <2>1. user'.failed = failed + 1
    <3>1. user'.failed = failed + 1 \/ user'.failed = 0
      BY <1>5
    <3>2. user'.failed # 0
      BY <1>1, <1>0, <1>2
    <3> QED
      BY <3>1, <3>2
  <2>4. i \in 1..(n - failed) /\ i \in 1..n
    BY <1>1, <1>0, <1>2, <2>1
  <2>2. CASE j = n + 1
    BY <1>2, <1>4, <2>4, <2>2
  <2>3. CASE j \in 1..n
    BY <1>1, <1>0, <1>2, <2>1, <2>4, <2>3 DEF LoginInv, CountedAfterLock
  <2> QED
    <3>1. j = n + 1 \/ j \in 1..n
      BY <1>0, <1>2
    <3> QED
      BY <2>2, <2>3, <3>1
<1>10. GuessesAreSlow'
  <2>1. user'.failed = Len(guesses') % MaxFailures
    <3>1. Len(guesses') \in Nat /\ user'.failed \in 0..(MaxFailures - 1)
      BY <1>2, <1>6 DEF Row
    <3>2. PICK k \in Nat : Len(guesses') = k * MaxFailures + user'.failed
      BY <1>7 DEF EveryFailureCounts
    <3> QED
      BY <3>1, <3>2, CountIsRemainder
  <2>2. ASSUME NEW i \in 1..(n + 1 - MaxFailures)
        PROVE  guesses'[i + MaxFailures] - guesses'[i] >= Lockout - MaxWait
    <3>1. i \in Nat /\ i >= 1 /\ i + MaxFailures <= n + 1
      BY <1>1, <1>0
    <3>4. i \in 1..n /\ i \in 1..(n - failed)
      BY <1>1, <1>0, <3>1
    <3>2. CASE i + MaxFailures = n + 1
      BY <1>2, <1>4, <3>4, <3>2
    <3>3. CASE i + MaxFailures # n + 1
      <4>1. i \in 1..(n - MaxFailures) /\ i + MaxFailures \in 1..n
        BY <1>1, <1>0, <3>1, <3>3
      <4> QED
        BY <1>2, <3>4, <4>1 DEF LoginInv, GuessesAreSlow
    <3> QED
      BY <3>2, <3>3
  <2>3. Len(guesses') - MaxFailures = n + 1 - MaxFailures
    BY <1>1, <1>2
  <2> QED
    BY <2>1, <2>2, <2>3 DEF GuessesAreSlow
<1> QED
  BY <1>2, <1>3, <1>6, <1>7, <1>8, <1>9, <1>10

LEMMA LoginNextInv == LoginInv /\ [LoginNext]_loginVars => LoginInv'
<1> SUFFICES ASSUME LoginInv, [LoginNext]_loginVars  PROVE LoginInv'
  OBVIOUS
<1> USE DEF LoginInv
<1>1. ASSUME NEW p \in Requests, Arrive(p)  PROVE LoginInv'
  <2>1. PICK right \in BOOLEAN :
            request' = [request EXCEPT ![p] = [Idle EXCEPT !.pc = "wait", !.at = time, !.right = right]]
    BY <1>1 DEF Arrive
  <2>2. UNCHANGED <<time, user, guesses>>
    BY <1>1 DEF Arrive
  <2>3. /\ request' \in [Requests -> LoginRequest]
        /\ request'[p].pc = "wait" /\ request'[p].at = time
        /\ \A q \in Requests : q # p => request'[q] = request[q]
    <3>1. [Idle EXCEPT !.pc = "wait", !.at = time, !.right = right] \in LoginRequest
      <4>1. 0 \in 0..(MaxFailures - 1)
        BY LoginAssumption
      <4> QED
        BY <4>1 DEF LoginTypeOK, LoginRequest, Idle
    <3>2. /\ [Idle EXCEPT !.pc = "wait", !.at = time, !.right = right].pc = "wait"
          /\ [Idle EXCEPT !.pc = "wait", !.at = time, !.right = right].at = time
      BY DEF Idle
    <3> QED
      BY <2>1, <3>1, <3>2 DEF LoginTypeOK
  <2>4. LoginTypeOK' /\ AnswersInTime' /\ RowIsLocked'
    BY <2>2, <2>3, LoginAssumption DEF LoginTypeOK, AnswersInTime, RowIsLocked
  <2> QED
    BY <2>2, <2>4, SameCountInv DEF LoginTypeOK
<1>2. ASSUME NEW p \in Requests, ReadUser(p)  PROVE LoginInv'
  <2>1. /\ request' = [request EXCEPT ![p].pc = "decide", ![p].failed = user.failed,
                                      ![p].lockedUntil = user.lockedUntil]
        /\ request[p].pc = "wait" /\ RowIsFree /\ UNCHANGED <<time, user, guesses>>
    BY <1>2 DEF ReadUser
  <2>2. /\ request' \in [Requests -> LoginRequest]
        /\ request'[p].pc = "decide" /\ request'[p].at = request[p].at
        /\ request'[p].failed = user.failed /\ request'[p].lockedUntil = user.lockedUntil
        /\ \A q \in Requests : q # p => request'[q] = request[q]
    <3> DEFINE read == [request[p] EXCEPT !.pc = "decide", !.failed = user.failed,
                                          !.lockedUntil = user.lockedUntil]
    <3>1. /\ request \in [Requests -> LoginRequest] /\ request[p] \in LoginRequest
          /\ user.failed \in 0..(MaxFailures - 1) /\ user.lockedUntil \in Nat \cup {NoLock}
      BY DEF LoginTypeOK, Row
    <3>2. /\ read \in LoginRequest /\ read.pc = "decide" /\ read.at = request[p].at
          /\ read.failed = user.failed /\ read.lockedUntil = user.lockedUntil
      BY <3>1 DEF LoginRequest
    <3>3. request' = [request EXCEPT ![p] = read]
      BY <2>1
    <3> HIDE DEF read
    <3> QED
      BY <3>1, <3>2, <3>3
  <2>3. LoginTypeOK' /\ AnswersInTime' /\ RowIsLocked'
    BY <2>1, <2>2 DEF LoginTypeOK, AnswersInTime, RowIsLocked, RowIsFree
  <2> QED
    BY <2>1, <2>3, SameCountInv DEF LoginTypeOK
<1>3. ASSUME NEW p \in Requests, Decide(p)  PROVE LoginInv'
  <2>1. /\ request[p].pc = "decide" /\ time' = time
        /\ request' = [request EXCEPT ![p] = Idle]
    BY <1>3 DEF Decide
  <2>2. request' \in [Requests -> LoginRequest] /\ AnswersInTime' /\ RowIsLocked'
    BY <2>1, RestInv
  <2>3. CASE UNCHANGED <<user, guesses>>
    BY <2>1, <2>2, <2>3, SameCountInv DEF LoginTypeOK
  <2>4. CASE user' = Clean /\ guesses' = <<>>
    BY <2>1, <2>2, <2>4, CleanInv DEF LoginTypeOK
  <2>5. CASE /\ request[p].lockedUntil <= request[p].at
             /\ user' = Fail(request[p]) /\ guesses' = Append(guesses, time)
    BY <2>1, <2>2, <2>5, WrongAttemptInv DEF LoginTypeOK
  <2> QED
    BY <1>3, <2>3, <2>4, <2>5 DEF Decide
<1>4. ASSUME NEW p \in Requests, Abandon(p)  PROVE LoginInv'
  <2>1. request' = [request EXCEPT ![p] = Idle] /\ UNCHANGED <<time, user, guesses>>
    BY <1>4 DEF Abandon
  <2> QED
    <3>1. request' \in [Requests -> LoginRequest] /\ AnswersInTime' /\ RowIsLocked'
      BY <2>1, RestInv
    <3> QED
      BY <2>1, <3>1, SameCountInv DEF LoginTypeOK
<1>5. CASE OwnerCreate
  <2>1. /\ user' = Clean /\ guesses' = <<>> /\ time' = time /\ request' = request
        /\ \A q \in Requests : request[q].pc # "decide"
    BY <1>5 DEF OwnerCreate, RowIsFree
  <2>2. AnswersInTime' /\ RowIsLocked'
    BY <2>1 DEF AnswersInTime, RowIsLocked
  <2> QED
    BY <2>1, <2>2, CleanInv DEF LoginTypeOK
<1>6. CASE Wait
  <2>1. /\ time' = time + 1 /\ UNCHANGED <<user, request, guesses>>
        /\ \A p \in Requests : request[p].pc # "idle" => time < request[p].at + MaxWait
    BY <1>6 DEF Wait
  <2>2. \A p \in Requests : request[p].at \in Nat
    BY DEF LoginTypeOK, LoginRequest
  <2>3. AnswersInTime'
    BY <2>1, <2>2, LoginAssumption DEF AnswersInTime, LoginTypeOK
  <2> QED
    BY <2>1, <2>3, SameCountInv DEF LoginTypeOK, RowIsLocked
<1>7. CASE UNCHANGED loginVars
  BY <1>7, SameCountInv DEF loginVars, LoginTypeOK, AnswersInTime, RowIsLocked
<1> QED
  BY <1>1, <1>2, <1>3, <1>4, <1>5, <1>6, <1>7 DEF LoginNext

-----------------------------------------------------------------------------
(* The setup of the car's telemetry.                                       *)

Files == Secrets \cup ProxyFiles
Contents == [key : Nat, issuer : Nat, until : Nat]
Configs == [ca : Contents, fields : Nat, exp : Nat]

SetupTypeOK ==
    /\ day \in Nat /\ fields \in Nat /\ interrupts \in Nat
    /\ file \in [Files -> Contents]
    /\ writing \in Seq(Files \cup {"env"}) /\ torn \in BOOLEAN
    /\ sent \in Configs /\ car \in Configs

\* A command that makes a new key of the server makes its certificate next ...
CertFollowsKey ==
    \A i \in 1..Len(writing) :
        writing[i] = "server_key" => i < Len(writing) /\ writing[i + 1] = "server_cert"

\* ... so that they differ only between the two, or when a command stopped there.
CertIsOfKey == ServerHasItsKey \/ KeyIsAhead

SetupInv == SetupTypeOK /\ CertFollowsKey /\ CertIsOfKey

LEMMA SetupInitInv == SetupInit => SetupInv
<1> SUFFICES ASSUME SetupInit PROVE SetupInv
  OBVIOUS
<1>1. Nothing \in Contents /\ NoConfig \in Configs
  BY DEF Nothing, NoConfig, Contents, Configs
<1>2. /\ day = 0 /\ fields = 1 /\ interrupts = 0 /\ writing = <<>> /\ torn = FALSE
      /\ sent = NoConfig /\ car = NoConfig /\ file = [f \in Files |-> Nothing]
  BY DEF SetupInit, Files
<1>3. SetupTypeOK
  <2>0. torn \in BOOLEAN
    BY <1>2, Zenon
  <2>1. writing \in Seq(Files \cup {"env"})
    BY <1>2, EmptySeq
  <2>2. day \in Nat /\ fields \in Nat /\ interrupts \in Nat
    BY <1>2
  <2>3. file \in [Files -> Contents] /\ sent \in Configs /\ car \in Configs
    BY <1>1, <1>2
  <2> QED
    BY <2>0, <2>1, <2>2, <2>3 DEF SetupTypeOK
<1>4. CertFollowsKey
  BY <1>2 DEF CertFollowsKey
<1>5. CertIsOfKey
  BY <1>2 DEF CertIsOfKey, ServerHasItsKey, Files, Secrets
<1> QED
  BY <1>3, <1>4, <1>5 DEF SetupInv

\* What a command writes is a key or a certificate.
LEMMA ContentType ==
    ASSUME SetupTypeOK, NEW f \in Files
    PROVE  Content(f) \in Contents
<1>1. day + CaDays \in Nat /\ day + ServerDays \in Nat
  BY SetupAssumption DEF SetupTypeOK
<1>2. \A g \in Files : /\ file[g] \in Contents
                       /\ file[g].key \in Nat /\ file[g].key + 1 \in Nat
  BY DEF SetupTypeOK, Contents
<1>3. {"ca_key", "server_key", "app_private", "proxy_key"} \subseteq Files
  BY DEF Files, Secrets, ProxyFiles
<1>4. \A k \in {"ca_key", "server_key", "app_private", "proxy_key"} :
          /\ NewKey(k) \in Contents
          /\ Issued(k, CaDays) \in Contents /\ Issued(k, ServerDays) \in Contents
  BY <1>1, <1>2, <1>3 DEF NewKey, Issued, Contents
<1>5. file["app_private"] \in Contents
  BY <1>2, <1>3
<1> QED
  BY <1>4, <1>5 DEF Content, Files, Secrets, ProxyFiles

\* A command that begins has no certificate of the server to write first.
LEMMA CommandInv ==
    ASSUME SetupInv, writing = <<>>,
           UNCHANGED <<day, fields, file, sent, car, interrupts, torn>>,
           writing' \in Seq(Files \cup {"env"}), CertFollowsKey',
           writing' # <<>>, Head(writing') # "server_cert"
    PROVE  SetupInv'
BY DEF SetupInv, SetupTypeOK, CertIsOfKey, ServerHasItsKey, KeyIsAhead

LEMMA WriteNextInv ==
    ASSUME SetupInv, WriteNext
    PROVE  SetupInv'
<1> DEFINE f == Head(writing)
<1> USE DEF SetupInv
<1>1. /\ writing \in Seq(Files \cup {"env"}) /\ writing # <<>> /\ writing' = Tail(writing)
      /\ UNCHANGED <<day, fields, sent, car, interrupts>>
      /\ torn' = (torn /\ f # "server_cert")
  BY DEF WriteNext, SetupTypeOK
<1>2. /\ f \in Files \cup {"env"} /\ f = writing[1]
      /\ writing' \in Seq(Files \cup {"env"}) /\ Len(writing') = Len(writing) - 1
      /\ Len(writing) \in Nat /\ Len(writing) >= 1
      /\ \A i \in 1..Len(writing') : writing'[i] = writing[i + 1]
  BY <1>1
<1>0. PICK n \in Nat : n >= 1 /\ Len(writing) = n /\ Len(writing') = n - 1
  BY <1>2
<1>3. CertFollowsKey'
  <2> SUFFICES ASSUME NEW i \in 1..Len(writing'), writing'[i] = "server_key"
               PROVE  i < Len(writing') /\ writing'[i + 1] = "server_cert"
    BY DEF CertFollowsKey
  <2>1. i + 1 \in 1..Len(writing) /\ writing[i + 1] = "server_key"
    <3>1. i + 1 \in 1..Len(writing)
      BY <1>0
    <3> QED
      BY <1>2, <3>1
  <2>2. i + 1 < Len(writing) /\ writing[i + 1 + 1] = "server_cert"
    BY <2>1 DEF CertFollowsKey
  <2>3. i + 1 \in 1..Len(writing') /\ i < Len(writing')
    BY <1>0, <2>2
  <2> QED
    BY <1>2, <2>2, <2>3
<1>4. \/ f = "env" /\ file' = file
      \/ f \in Files /\ file' = [file EXCEPT ![f] = Content(f)]
  BY <1>2 DEF WriteNext, Files, Secrets, ProxyFiles
<1>5. file' \in [Files -> Contents]
  BY <1>4, ContentType DEF SetupTypeOK
<1>6. "server_cert" \in Files /\ "server_key" \in Files
  BY DEF Files, Secrets
<1>7. CertIsOfKey'
  <2> SUFFICES ASSUME ~torn', writing' # <<>> => Head(writing') # "server_cert"
               PROVE  file'["server_cert"].key = file'["server_key"].key
    BY DEF CertIsOfKey, ServerHasItsKey, KeyIsAhead
  <2>1. CASE f = "server_key"
    <3>1. 1 \in 1..Len(writing) /\ writing[1] = "server_key"
      BY <1>0, <1>2, <2>1
    <3>2. 1 < Len(writing) /\ writing[2] = "server_cert"
      <4>1. 1 < Len(writing) /\ writing[1 + 1] = "server_cert"
        BY <3>1 DEF CertFollowsKey
      <4> QED
        BY <4>1
    <3>3. writing' # <<>> /\ Head(writing') = "server_cert"
      <4>1. 1 \in 1..Len(writing')
        BY <1>0, <3>2
      <4>2. writing'[1] = "server_cert"
        BY <1>2, <3>2, <4>1
      <4> QED
        BY <1>2, <4>1, <4>2
    <3> QED
      BY <3>3
  <2>2. CASE f = "server_cert"
    <3>1. Content("server_cert").key = file["server_key"].key
      BY DEF Content, Issued
    <3>2. file' = [file EXCEPT !["server_cert"] = Content("server_cert")]
      BY <1>4, <2>2
    <3> QED
      BY <1>6, <3>1, <3>2 DEF SetupTypeOK
  <2>3. CASE f # "server_key" /\ f # "server_cert"
    <3>1. file["server_cert"].key = file["server_key"].key
      BY <1>1, <2>3 DEF CertIsOfKey, ServerHasItsKey, KeyIsAhead
    <3>2. file'["server_cert"] = file["server_cert"] /\ file'["server_key"] = file["server_key"]
      BY <1>4, <1>6, <2>3 DEF SetupTypeOK
    <3> QED
      BY <3>1, <3>2
  <2> QED
    BY <2>1, <2>2, <2>3
<1>8. SetupTypeOK'
  <2>1. torn' \in BOOLEAN
    BY <1>1
  <2> QED
    BY <1>1, <1>2, <1>5, <2>1 DEF SetupTypeOK
<1> QED
  BY <1>3, <1>7, <1>8

LEMMA SetupNextInv == SetupInv /\ [SetupNext]_setupVars => SetupInv'
<1> SUFFICES ASSUME SetupInv, [SetupNext]_setupVars  PROVE SetupInv'
  OBVIOUS
<1> USE DEF SetupInv
<1>1. ASSUME NEW force \in BOOLEAN, InitCommand(force)  PROVE SetupInv'
  <2>1. /\ writing = <<>> /\ UNCHANGED <<day, fields, file, sent, car, interrupts, torn>>
        /\ writing' = <<"ca_key", "ca_cert", "server_key", "server_cert",
                        "app_private", "app_public", "env">>
    BY <1>1 DEF InitCommand
  <2>2. writing' \in Seq(Files \cup {"env"})
    <3>1. {"ca_key", "ca_cert", "server_key", "server_cert", "app_private", "app_public", "env"}
              \subseteq Files \cup {"env"}
      BY DEF Files, Secrets
    <3> QED
      BY <2>1, <3>1
  <2>3. CertFollowsKey'
    <3>1. \A i \in 1..7 : writing'[i] = "server_key" => i < 7 /\ writing'[i + 1] = "server_cert"
      BY <2>1
    <3>2. Len(writing') = 7
      BY <2>1
    <3> QED
      BY <3>1, <3>2 DEF CertFollowsKey
  <2>4. writing' # <<>> /\ Head(writing') = "ca_key"
    BY <2>1
  <2> QED
    BY <2>1, <2>2, <2>3, <2>4, CommandInv
<1>2. CASE RotateServerCert
  <2>1. /\ writing = <<>> /\ UNCHANGED <<day, fields, file, sent, car, interrupts, torn>>
        /\ writing' = <<"server_key", "server_cert">>
    BY <1>2 DEF RotateServerCert
  <2>2. writing' \in Seq(Files \cup {"env"})
    <3>1. {"server_key", "server_cert"}
              \subseteq Files \cup {"env"}
      BY DEF Files, Secrets
    <3> QED
      BY <2>1, <3>1
  <2>3. CertFollowsKey'
    <3>1. \A i \in 1..2 : writing'[i] = "server_key" => i < 2 /\ writing'[i + 1] = "server_cert"
      BY <2>1
    <3>2. Len(writing') = 2
      BY <2>1
    <3> QED
      BY <3>1, <3>2 DEF CertFollowsKey
  <2>4. writing' # <<>> /\ Head(writing') = "server_key"
    BY <2>1
  <2> QED
    BY <2>1, <2>2, <2>3, <2>4, CommandInv
<1>3. CASE ServerConfig
  <2>1. /\ writing = <<>> /\ UNCHANGED <<day, fields, file, sent, car, interrupts, torn>>
        /\ writing' = <<"proxy_key", "proxy_cert">>
    BY <1>3 DEF ServerConfig
  <2>2. writing' \in Seq(Files \cup {"env"})
    <3>1. {"proxy_key", "proxy_cert"}
              \subseteq Files \cup {"env"}
      BY DEF Files, ProxyFiles
    <3> QED
      BY <2>1, <3>1
  <2>3. CertFollowsKey'
    <3>1. \A i \in 1..2 : writing'[i] = "server_key" => i < 2 /\ writing'[i + 1] = "server_cert"
      BY <2>1
    <3>2. Len(writing') = 2
      BY <2>1
    <3> QED
      BY <3>1, <3>2 DEF CertFollowsKey
  <2>4. writing' # <<>> /\ Head(writing') = "proxy_key"
    BY <2>1
  <2> QED
    BY <2>1, <2>2, <2>3, <2>4, CommandInv
<1>4. CASE WriteNext
  BY <1>4, WriteNextInv
<1>5. CASE Interrupt
  <2>1. /\ interrupts' \in Nat /\ writing' = <<>> /\ writing # <<>>
        /\ torn' = (torn \/ Head(writing) = "server_cert")
        /\ UNCHANGED <<day, file, fields, sent, car>>
    BY <1>5 DEF Interrupt, SetupTypeOK
  <2>2. SetupTypeOK'
    <3>1. torn' \in BOOLEAN
      BY <2>1
    <3> QED
      BY <2>1, <3>1 DEF SetupTypeOK
  <2>3. CertFollowsKey'
    BY <2>1 DEF CertFollowsKey
  <2>4. CertIsOfKey'
    BY <2>1 DEF CertIsOfKey, ServerHasItsKey, KeyIsAhead
  <2> QED
    BY <2>2, <2>3, <2>4
<1>6. CASE EditEnv \/ EditFields \/ Pair \/ NextDay
  <2>1. UNCHANGED <<file, writing, sent, car, interrupts, torn>>
    BY <1>6 DEF EditEnv, EditFields, Pair, NextDay
  <2>2. day' \in {day, day + 1} /\ fields' \in {fields, 2}
    BY <1>6 DEF EditEnv, EditFields, Pair, NextDay
  <2>3. day \in Nat /\ fields \in Nat
    BY DEF SetupTypeOK
  <2>4. day' \in Nat /\ fields' \in Nat
    BY <2>2, <2>3
  <2> QED
    BY <2>1, <2>4 DEF SetupTypeOK, CertFollowsKey, CertIsOfKey, ServerHasItsKey, KeyIsAhead
<1>7. CASE Push \/ Remove \/ CarSyncs
  <2>1. UNCHANGED <<day, file, writing, fields, interrupts, torn>>
    BY <1>7 DEF Push, Remove, CarSyncs
  <2>2. Desired \in Configs /\ NoConfig \in Configs
    <3>1. "ca_cert" \in Files /\ day + ConfigDays \in Nat
      <4>1. day \in Nat
        BY DEF SetupTypeOK
      <4> QED
        BY <4>1, SetupAssumption DEF Files, Secrets
    <3> QED
      BY <3>1 DEF Desired, NoConfig, Nothing, Configs, Contents, SetupTypeOK
  <2>3. sent' \in Configs /\ car' \in Configs
    BY <1>7, <2>2 DEF Push, Remove, CarSyncs, SetupTypeOK
  <2> QED
    BY <2>1, <2>3 DEF SetupTypeOK, CertFollowsKey, CertIsOfKey, ServerHasItsKey, KeyIsAhead
<1>8. CASE UNCHANGED setupVars
  BY <1>8 DEF setupVars, SetupTypeOK, CertFollowsKey, CertIsOfKey, ServerHasItsKey, KeyIsAhead
<1> QED
  BY <1>1, <1>2, <1>3, <1>4, <1>5, <1>6, <1>7, <1>8 DEF SetupNext

\* status says nothing of a config that is the one asked for, synced, and not about
\* to expire.
LEMMA GoodStatus ==
    ASSUME SetupInv, StatusIsGood
    PROVE  /\ sent # NoConfig /\ car = sent /\ sent.ca = file["ca_cert"] /\ sent.fields = fields
           /\ day + Soon <= sent.exp
<1>1. StatusCodes = {} /\ Diff = {}
  BY DEF StatusIsGood
<1>2. sent # NoConfig
  BY <1>1 DEF Diff
<1>3. "TSL-CONFIG-UNSYNCED" \notin StatusCodes /\ "TSL-CONFIG-EXPIRING" \notin StatusCodes
  BY <1>1
<1>4. sent = car
  BY <1>2, <1>3 DEF StatusCodes
<1>5. ~(sent.exp - day < Soon)
  BY <1>2, <1>3 DEF StatusCodes
<1>6. day + Soon <= sent.exp
  <2>1. sent.exp \in Nat /\ day \in Nat
    BY DEF SetupInv, SetupTypeOK, Configs
  <2>2. Soon \in Nat
    BY SetupAssumption
  <2> QED
    BY <1>5, <2>1, <2>2
<1>7. sent["ca"] = Desired["ca"] /\ sent["fields"] = Desired["fields"]
  BY <1>1, <1>2 DEF Diff
<1> QED
  BY <1>2, <1>4, <1>6, <1>7 DEF Desired

\* doctor says nothing of a server certificate that the CA's certificate has signed
\* and that has two weeks left.
LEMMA GoodDoctor ==
    ASSUME SetupInv, DoctorIsGood
    PROVE  /\ file["server_cert"].issuer = file["ca_cert"].key
           /\ day + Soon <= file["server_cert"].until
<1>1. 4 \in DOMAIN Checks /\ 5 \in DOMAIN Checks
  BY DEF Checks
<1>2. Passes(Checks[4]) /\ Passes(Checks[5])
  BY <1>1 DEF DoctorIsGood
<1>3. Checks[4] = "TSL-CA-MISMATCH" /\ Checks[5] = "TSL-CERT-EXPIRING"
  BY DEF Checks
<1>4. ServerCertSignedByCa /\ file["server_cert"].until - day >= Soon
  BY <1>2, <1>3 DEF Passes
<1>5. file["server_cert"].until \in Nat /\ day \in Nat
  BY DEF SetupInv, SetupTypeOK, Contents, Files, Secrets
<1>6. day + Soon <= file["server_cert"].until
  BY <1>4, <1>5, SetupAssumption
<1> QED
  BY <1>4, <1>6 DEF ServerCertSignedByCa

-----------------------------------------------------------------------------
(* The invoices of Supercharger sessions.                                  *)

InvoiceTypeOK ==
    /\ clock \in Nat /\ imported \in BOOLEAN
    /\ table \in [Sessions -> {"none", "open", "closed"}]
    /\ link \in [Records -> Charges \cup {Unmatched, NotStored}]
    /\ pc \in [Syncers -> {"rebuild", "due", "select", "commit", "asleep", "idle"}]
    /\ listed \in [Syncers -> SUBSET Records]
    /\ match \in [Syncers -> [Records -> Charges \cup {Unmatched, Gone}]]

\* What LinksFit says of a link.
FitsIn(c, r) ==
    /\ table[c] = "closed" /\ Shared(r, c) > 0
    /\ IsClear(r) /\ r \notin blind => c = Billed[r]

LinksAreFit == \A r \in Records : link[r] \in Charges => FitsIn(link[r], r)

\* An id that was read and is not gone is still that of a charge that fits.
MatchesAreFit ==
    \A p \in Syncers, r \in Records : match[p][r] \in Charges => FitsIn(match[p][r], r)

LinkInv == InvoiceTypeOK /\ LinksAreFit /\ MatchesAreFit

Over(s) == Ends[s] <= clock
IsOld(s) == Ends[s] <= clock - LiveWindow

\* No rebuild will ever close the session: the anchor, which only moves on, has passed
\* where it begins, or the link row that it takes.
Left(s) == table[s] # "closed" /\ (Begins[s] < Anchor \/ Known[s] < Anchor - Warmup)

Settled(s) == table[s] = "closed" \/ Left(s)

\* The table is that of this cycle's rebuild, or of another one in the cycle.
RebuiltByNow == pc["monitor"] # "rebuild" => \A s \in Sessions : Over(s) => Settled(s)
OldIsSettled == \A s \in Sessions : IsOld(s) => Settled(s)

\* A sync that is about to commit has found every old charge that it could.
Found(p, r, c) ==
    match[p][r] = Gone \/ (match[p][r] \in Charges /\ Shared(r, match[p][r]) >= Shared(r, c))

OldIsMatched ==
    \A p \in Syncers : pc[p] = "commit" =>
        \A r \in listed[p], c \in Charges :
            IsOld(c) /\ Shared(r, c) > 0 => Left(c) \/ Found(p, r, c)

AgeInv == imported \/ (RebuiltByNow /\ OldIsSettled /\ OldIsMatched)

LEMMA InvoiceNumbers ==
    /\ Tolerance \in Nat /\ Prefilter \in Nat /\ Tolerance <= Prefilter
    /\ LiveWindow \in Nat /\ Warmup \in Nat
    /\ Pause \in Nat /\ Pause > 0 /\ Pause <= LiveWindow
    /\ Charges \subseteq Sessions
    /\ \A r \in Records : Billed[r] \in Charges /\ RecordStart[r] \in Nat /\ RecordEnd(r) \in Nat
    /\ \A s \in Sessions : /\ Begins[s] \in Nat /\ Ends[s] \in Nat /\ Begins[s] < Ends[s]
                           /\ Known[s] \in Nat
BY InvoiceAssumption, TimesAssumption DEF RecordEnd

\* Integers with a bound have a greatest one.
LEMMA GreatestExists ==
    ASSUME NEW S, S # {}, S \subseteq Int, NEW bound \in Int, \A x \in S : x <= bound
    PROVE  Max(S) \in S /\ \A y \in S : y <= Max(S)
<1> DEFINE R == OpToRel(<, Nat)
           T == {bound - x : x \in S}
<1>1. IsWellFoundedOn(R, Nat)
  BY NatLessThanWellFounded
<1>2. \A x, y \in Nat : <<y, x>> \in R <=> y < x
  BY DEF OpToRel
<1>3. T \subseteq Nat /\ T # {}
  <2>1. \A x \in S : bound - x \in Nat
    OBVIOUS
  <2> QED
    BY <2>1
<1> HIDE DEF R, T
<1>4. \E d \in T : \A e \in T : ~(<<e, d>> \in R)
  BY <1>1, <1>3, WFMin
<1>5. PICK d \in T : \A e \in T : ~(<<e, d>> \in R)
  BY <1>4, Zenon
<1>6. \A e \in T : d <= e
  <2>1. d \in Nat /\ \A e \in T : e \in Nat /\ ~(e < d)
    BY <1>2, <1>3, <1>5, Zenon
  <2> QED
    BY <2>1
<1> USE DEF T
<1>7. PICK x \in S : d = bound - x
  OBVIOUS
<1>8. \A y \in S : x >= y
  BY <1>6, <1>7
<1> QED
  BY <1>8 DEF Max

\* The last end among some sessions that are over by a moment, and that moment if
\* there are none.
LastOf(T, moment) == IF T = {} THEN moment ELSE Max({Ends[s] : s \in T})

LEMMA LastEnd ==
    ASSUME NEW T, T \subseteq Sessions, NEW moment \in Int, \A s \in T : Ends[s] <= moment
    PROVE  /\ LastOf(T, moment) \in Int /\ LastOf(T, moment) <= moment
           /\ \A s \in T : Ends[s] <= LastOf(T, moment)
           /\ \/ T = {} /\ LastOf(T, moment) = moment
              \/ \E s \in T : Ends[s] = LastOf(T, moment)
<1> DEFINE S == {Ends[s] : s \in T}
<1>1. S \subseteq Int /\ \A x \in S : x <= moment
  BY InvoiceNumbers
<1>2. CASE T = {}
  BY <1>2 DEF LastOf
<1>3. CASE T # {}
  <2>1. S # {} /\ LastOf(T, moment) = Max(S)
    BY <1>3 DEF LastOf
  <2> HIDE DEF S
  <2>2. Max(S) \in S /\ \A y \in S : y <= Max(S)
    BY <1>1, <2>1, GreatestExists
  <2> USE DEF S
  <2>3. PICK s \in T : Max(S) = Ends[s]
    BY <2>2
  <2>4. Max(S) \in Int /\ Max(S) <= moment /\ \A t \in T : Ends[t] <= Max(S)
    BY <1>1, <2>2
  <2> QED
    BY <2>1, <2>3, <2>4
<1> QED
  BY <1>2, <1>3

LEMMA AnchorIs ==
    ASSUME InvoiceTypeOK
    PROVE  /\ Anchor \in Int /\ Anchor <= clock - LiveWindow
           /\ \A s \in Finished : Ends[s] <= Anchor
           /\ (Finished = {} /\ Anchor = clock - LiveWindow) \/ \E s \in Finished : Ends[s] = Anchor
<1>1. Finished \subseteq Sessions /\ \A s \in Finished : Ends[s] <= clock - LiveWindow
  BY DEF Finished
<1>2. clock - LiveWindow \in Int
  BY InvoiceNumbers DEF InvoiceTypeOK
<1>3. Anchor = LastOf(Finished, clock - LiveWindow)
  BY DEF Anchor, LastOf
<1> QED
  BY <1>1, <1>2, <1>3, LastEnd

LEMMA WindowMoves ==
    ASSUME NEW n \in Nat, NEW m \in Nat, NEW window \in Nat, n <= m
    PROVE  n - window <= m - window
OBVIOUS

\* The anchor only moves on, if what it stands on is not deleted, and what is closed
\* newly ends after it.
LEMMA AnchorMoves ==
    ASSUME InvoiceTypeOK, clock' \in Nat, clock <= clock',
           \A s \in Sessions : table[s] = "closed" /\ Ends[s] <= Anchor => table'[s] = "closed",
           \A s \in Sessions : table'[s] = "closed" => table[s] = "closed" \/ Ends[s] > Anchor
    PROVE  Anchor' \in Int /\ Anchor <= Anchor'
<1>1. clock \in Nat /\ LiveWindow \in Nat /\ clock - LiveWindow <= clock' - LiveWindow
  <2>1. clock \in Nat /\ LiveWindow \in Nat
    BY InvoiceNumbers DEF InvoiceTypeOK
  <2> QED
    BY <2>1, WindowMoves, Zenon
<1>2. /\ Anchor' \in Int
      /\ \A s \in Finished' : Ends[s] <= Anchor'
      /\ (Finished' = {} /\ Anchor' = clock' - LiveWindow) \/ \E s \in Finished' : Ends[s] = Anchor'
  <2>1. Finished' \subseteq Sessions /\ \A s \in Finished' : Ends[s] <= clock' - LiveWindow
    BY DEF Finished
  <2>2. Anchor' = LastOf(Finished', clock' - LiveWindow)
    BY DEF Anchor, LastOf
  <2>3. clock' - LiveWindow \in Int
    BY <1>1
  <2> QED
    BY <2>1, <2>2, <2>3, LastEnd
<1>3. CASE Finished = {}
  <2>1. Anchor = clock - LiveWindow
    BY <1>3, AnchorIs
  <2>2. ASSUME NEW s \in Finished', Ends[s] = Anchor'  PROVE Anchor <= Anchor'
    <3>1. s \in Sessions /\ table'[s] = "closed" /\ s \notin Finished
      BY <1>3 DEF Finished
    <3>2. Ends[s] \in Nat
      BY <3>1, InvoiceNumbers
    <3>3. table[s] = "closed" => ~(Ends[s] <= Anchor)
      BY <2>1, <3>1 DEF Finished
    <3> QED
      BY <1>1, <2>1, <2>2, <3>1, <3>2, <3>3
  <2> QED
    BY <1>1, <1>2, <2>1, <2>2
<1>4. ASSUME NEW s \in Finished, Ends[s] = Anchor  PROVE Anchor <= Anchor'
  <2>1. s \in Sessions /\ table[s] = "closed" /\ Ends[s] <= clock - LiveWindow /\ Ends[s] \in Nat
    BY InvoiceNumbers DEF Finished
  <2>2. table'[s] = "closed" /\ Ends[s] <= clock' - LiveWindow
    BY <1>1, <1>4, <2>1
  <2>3. s \in Finished'
    BY <2>1, <2>2 DEF Finished
  <2> QED
    BY <1>2, <1>4, <2>3
<1> QED
  BY <1>2, <1>3, <1>4, AnchorIs

LEMMA NoOverlapWhileOpen ==
    ASSUME NEW from \in Int, NEW to \in Int, NEW begin \in Int
    PROVE  ~(SmallerOf(to, begin) - LargerOf(from, begin) > 0)
BY DEF SmallerOf, LargerOf

\* A charge that overlaps a record in best_match is closed, and every closed one that
\* overlaps it is among those that the query returns.
LEMMA OverlapFits ==
    ASSUME InvoiceTypeOK, NEW r \in Records, NEW c \in Charges
    PROVE  /\ Shared(r, c) \in Int
           /\ c \in Candidates(r) /\ Overlap(r, c) > 0 => table[c] = "closed"
           /\ table[c] = "closed" => Overlap(r, c) = Shared(r, c)
           /\ table[c] = "closed" /\ Shared(r, c) > 0 => c \in Candidates(r)
<1> DEFINE from == RecordStart[r] - Tolerance
           to == RecordEnd(r) + Tolerance
<1>1. /\ from \in Int /\ to \in Int /\ Begins[c] \in Int /\ Ends[c] \in Int
      /\ Tolerance \in Nat /\ Prefilter \in Nat /\ Tolerance <= Prefilter
      /\ RecordStart[r] \in Nat /\ RecordEnd(r) \in Nat
  BY InvoiceNumbers
<1>2. table[c] \in {"none", "open", "closed"}
  BY InvoiceNumbers DEF InvoiceTypeOK
<1>3. Shared(r, c) \in Int
  BY <1>1 DEF Shared, SmallerOf, LargerOf
<1>4. table[c] = "closed" => Overlap(r, c) = Shared(r, c)
  BY DEF Overlap, Shared
<1>5. table[c] = "open" => ~(Overlap(r, c) > 0)
  BY <1>1, NoOverlapWhileOpen DEF Overlap
<1>6. c \in Candidates(r) => table[c] # "none"
  BY DEF Candidates
<1>7. Shared(r, c) > 0 => Begins[c] < to /\ from < Ends[c]
  BY <1>1 DEF Shared, SmallerOf, LargerOf
<1>8. table[c] = "closed" /\ Shared(r, c) > 0 => c \in Candidates(r)
  <2>1. Shared(r, c) > 0 => /\ Begins[c] < RecordEnd(r) + Prefilter
                            /\ Ends[c] > RecordStart[r] - Prefilter
    BY <1>1, <1>7
  <2> QED
    BY <2>1 DEF Candidates
<1> QED
  BY <1>2, <1>3, <1>4, <1>5, <1>6, <1>8

\* So a record is matched with a closed charge that overlaps it as much as any closed
\* one, if there is one.
LEMMA BestMatchFits ==
    ASSUME InvoiceTypeOK, NEW r \in Records, NEW b \in BestMatch(r)
    PROVE  /\ b \in Charges => table[b] = "closed" /\ Shared(r, b) > 0
           /\ \A c \in Charges : table[c] = "closed" /\ Shared(r, c) > 0
                  => b \in Charges /\ Shared(r, b) >= Shared(r, c)
<1> DEFINE fits == {c \in Candidates(r) : Overlap(r, c) > 0}
<1>1. fits \subseteq Charges
  BY DEF Candidates
<1>2. \A c \in Charges : c \in fits <=> table[c] = "closed" /\ Shared(r, c) > 0
  BY OverlapFits
<1>3. \A c \in fits : Overlap(r, c) = Shared(r, c) /\ Shared(r, c) \in Int
  BY <1>1, <1>2, OverlapFits
<1>4. Unmatched \notin Charges
  BY InvoiceAssumption
<1>5. IF fits = {} THEN b = Unmatched
      ELSE b \in fits /\ \A d \in fits : Overlap(r, d) <= Overlap(r, b)
  BY DEF BestMatch
<1> HIDE DEF fits
<1>6. CASE fits = {}
  BY <1>2, <1>4, <1>5, <1>6
<1>7. CASE fits # {}
  <2>1. b \in fits /\ b \in Charges /\ \A d \in fits : Shared(r, d) <= Shared(r, b)
    BY <1>1, <1>3, <1>5, <1>7
  <2> QED
    BY <1>2, <1>3, <2>1
<1> QED
  BY <1>6, <1>7

-----------------------------------------------------------------------------
LEMMA InvoiceInitInv == InvoiceInit => LinkInv /\ AgeInv
<1> SUFFICES ASSUME InvoiceInit PROVE LinkInv /\ AgeInv
  OBVIOUS
<1>1. /\ clock = 0 /\ table = [s \in Sessions |-> "none"] /\ link = [r \in Records |-> NotStored]
      /\ pc \in [Syncers -> {"rebuild", "idle"}] /\ pc["monitor"] = "rebuild"
      /\ listed = [p \in Syncers |-> {}] /\ imported = FALSE
      /\ match = [p \in Syncers |-> [r \in Records |-> Unmatched]]
  BY DEF InvoiceInit, Syncers
<1>2. {Unmatched, NotStored, Gone} \cap Charges = {}
  BY InvoiceAssumption
<1>3. InvoiceTypeOK
  BY <1>1 DEF InvoiceTypeOK
<1>4. LinksAreFit /\ MatchesAreFit
  BY <1>1, <1>2 DEF LinksAreFit, MatchesAreFit
<1>5. RebuiltByNow /\ OldIsMatched
  BY <1>1 DEF RebuiltByNow, OldIsMatched
<1>6. OldIsSettled
  <2>1. ASSUME NEW s \in Sessions  PROVE ~IsOld(s)
    <3>1. Begins[s] \in Nat /\ Ends[s] \in Nat /\ Begins[s] < Ends[s] /\ LiveWindow \in Nat
      BY InvoiceNumbers
    <3> QED
      BY <1>1, <3>1 DEF IsOld
  <2> QED
    BY <2>1 DEF OldIsSettled
<1> QED
  BY <1>3, <1>4, <1>5, <1>6 DEF LinkInv, AgeInv

LEMMA BuiltIsClosed ==
    ASSUME InvoiceTypeOK, NEW s \in Sessions
    PROVE  Built(s) \in {"none", "open", "closed"} /\ (Over(s) => Built(s) = "closed")
<1>1. clock \in Nat /\ Begins[s] \in Nat /\ Ends[s] \in Nat /\ Begins[s] < Ends[s]
  BY InvoiceNumbers DEF InvoiceTypeOK
<1> QED
  BY <1>1 DEF Built, Over

\* Rows that are deleted take the links and the ids with them.
LEMMA DeleteTypes ==
    ASSUME InvoiceTypeOK, NEW S \in SUBSET Sessions, Delete(S)
    PROVE  /\ link' \in [Records -> Charges \cup {Unmatched, NotStored}]
           /\ match' \in [Syncers -> [Records -> Charges \cup {Unmatched, Gone}]]
           /\ \A r \in Records : link'[r] = IF link[r] \in S THEN Unmatched ELSE link[r]
           /\ \A p \in Syncers, r \in Records :
                match'[p][r] = IF match[p][r] \in S THEN Gone ELSE match[p][r]
<1>1. \A r \in Records : (IF link[r] \in S THEN Unmatched ELSE link[r])
                             \in Charges \cup {Unmatched, NotStored}
  BY DEF InvoiceTypeOK
<1>2. \A p \in Syncers, r \in Records :
          (IF match[p][r] \in S THEN Gone ELSE match[p][r]) \in Charges \cup {Unmatched, Gone}
  BY DEF InvoiceTypeOK
<1> QED
  BY <1>1, <1>2 DEF Delete

\* What a rebuild does to a row of the table.
LEMMA RebuildTable ==
    ASSUME InvoiceTypeOK, Rebuild
    PROVE  /\ Delete({s \in Sessions : Begins[s] >= Anchor})
           /\ table' \in [Sessions -> {"none", "open", "closed"}]
           /\ \A s \in Sessions :
                table'[s] = IF Begins[s] < Anchor THEN table[s]
                            ELSE IF Known[s] >= Anchor - Warmup THEN Built(s) ELSE "none"
<1>1. \A s \in Sessions :
          (IF Begins[s] < Anchor THEN table[s]
           ELSE IF Known[s] >= Anchor - Warmup THEN Built(s) ELSE "none") \in {"none", "open", "closed"}
  BY BuiltIsClosed DEF InvoiceTypeOK
<1> QED
  BY <1>1 DEF Rebuild

\* A rebuild touches nothing that begins before the anchor; what it leaves open or does
\* not build then stays so, as the anchor does not go back.
LEMMA RebuildInv ==
    ASSUME LinkInv, AgeInv, Rebuild,
           clock' = clock, listed' = listed, imported' = imported, blind' = blind,
           pc' = pc \/ pc' = [pc EXCEPT !["monitor"] = "due"]
    PROVE  LinkInv' /\ AgeInv'
<1> DEFINE S == {s \in Sessions : Begins[s] >= Anchor}
<1> USE DEF LinkInv
<1>1. /\ Anchor \in Int /\ Anchor <= clock - LiveWindow
      /\ clock \in Nat /\ LiveWindow \in Nat /\ Warmup \in Nat
      /\ \A s \in Sessions : Begins[s] \in Nat /\ Ends[s] \in Nat /\ Begins[s] < Ends[s] /\ Known[s] \in Nat
  BY AnchorIs, InvoiceNumbers DEF InvoiceTypeOK
<1>2. \A s \in Sessions :
          table'[s] = IF Begins[s] < Anchor THEN table[s]
                      ELSE IF Known[s] >= Anchor - Warmup THEN Built(s) ELSE "none"
  BY RebuildTable
<1>3. /\ link' \in [Records -> Charges \cup {Unmatched, NotStored}]
      /\ match' \in [Syncers -> [Records -> Charges \cup {Unmatched, Gone}]]
      /\ \A r \in Records : link'[r] = IF link[r] \in S THEN Unmatched ELSE link[r]
      /\ \A p \in Syncers, r \in Records :
            match'[p][r] = IF match[p][r] \in S THEN Gone ELSE match[p][r]
  <2>1. Delete(S)
    BY RebuildTable
  <2> QED
    BY <2>1, DeleteTypes
<1>4. ASSUME NEW s \in Sessions \ S  PROVE table'[s] = table[s]
  BY <1>1, <1>2
<1>5. Unmatched \notin Charges /\ Gone \notin Charges /\ Charges \subseteq Sessions
  BY InvoiceAssumption
<1>6. InvoiceTypeOK'
  <2>1. table' \in [Sessions -> {"none", "open", "closed"}]
    BY RebuildTable
  <2>2. pc' \in [Syncers -> {"rebuild", "due", "select", "commit", "asleep", "idle"}]
    BY DEF InvoiceTypeOK
  <2> QED
    BY <1>3, <2>1, <2>2 DEF InvoiceTypeOK
<1>7. ASSUME NEW r \in Records, NEW c \in Charges, FitsIn(c, r), c \notin S
      PROVE  FitsIn(c, r)'
  <2>1. table'[c] = table[c]
    BY <1>4, <1>5, <1>7
  <2> QED
    BY <1>7, <2>1 DEF FitsIn, Shared, IsClear
<1>8. LinksAreFit' /\ MatchesAreFit'
  BY <1>3, <1>5, <1>7 DEF LinksAreFit, MatchesAreFit
<1>9. Anchor' \in Int /\ Anchor <= Anchor'
  <2>1. ASSUME NEW s \in Sessions, table[s] = "closed", Ends[s] <= Anchor  PROVE table'[s] = "closed"
    BY <1>1, <1>2, <2>1
  <2>2. ASSUME NEW s \in Sessions, table'[s] = "closed"  PROVE table[s] = "closed" \/ Ends[s] > Anchor
    BY <1>1, <1>2, <2>2
  <2> QED
    BY <1>1, <2>1, <2>2, AnchorMoves
<1>10. ASSUME NEW s \in Sessions, Left(s)  PROVE Left(s)'
  <2>1. table'[s] # "closed"
    BY <1>1, <1>2, <1>10 DEF Left
  <2> QED
    BY <1>1, <1>9, <1>10, <2>1 DEF Left
<1>11. ASSUME NEW s \in Sessions, Over(s)  PROVE Settled(s)'
  <2>1. CASE Begins[s] < Anchor
    BY <1>1, <1>2, <1>9, <2>1 DEF Settled, Left
  <2>2. CASE ~(Begins[s] < Anchor) /\ Known[s] >= Anchor - Warmup
    BY <1>2, <1>11, <2>2, BuiltIsClosed DEF Settled
  <2>3. CASE ~(Begins[s] < Anchor) /\ ~(Known[s] >= Anchor - Warmup)
    BY <1>1, <1>2, <1>9, <2>3 DEF Settled, Left
  <2> QED
    BY <2>1, <2>2, <2>3
<1>12. RebuiltByNow'
  BY <1>11 DEF RebuiltByNow, Over
<1>13. OldIsSettled'
  <2> SUFFICES ASSUME NEW s \in Sessions, Ends[s] <= clock - LiveWindow  PROVE Settled(s)'
    BY DEF OldIsSettled, IsOld
  <2>1. Over(s)
    BY <1>1 DEF Over
  <2> QED
    BY <1>11, <2>1
<1>14. ~imported => OldIsMatched'
  <2> SUFFICES ASSUME ~imported, NEW p \in Syncers, pc'[p] = "commit",
                      NEW r \in listed[p], NEW c \in Charges, IsOld(c), Shared(r, c) > 0
               PROVE  Left(c)' \/ Found(p, r, c)'
    BY DEF OldIsMatched, IsOld, Shared
  <2>1. pc[p] = "commit" /\ r \in Records
    BY DEF InvoiceTypeOK
  <2>2. Left(c) \/ Found(p, r, c)
    BY <2>1 DEF AgeInv, OldIsMatched
  <2>3. Found(p, r, c) => Found(p, r, c)'
    BY <1>3, <2>1 DEF Found, Shared
  <2> QED
    BY <1>5, <1>10, <2>2, <2>3
<1> QED
  BY <1>6, <1>8, <1>12, <1>13, <1>14 DEF AgeInv

\* An import deletes everything.
LEMMA ImportInv ==
    ASSUME LinkInv, ImportWrites
    PROVE  LinkInv' /\ AgeInv'
<1> USE DEF LinkInv
<1>1. /\ Delete(Sessions) /\ table' = [s \in Sessions |-> Built(s)]
      /\ imported' = TRUE /\ UNCHANGED <<clock, pc, listed>>
  BY DEF ImportWrites
<1>2. /\ link' \in [Records -> Charges \cup {Unmatched, NotStored}]
      /\ match' \in [Syncers -> [Records -> Charges \cup {Unmatched, Gone}]]
      /\ \A r \in Records : link'[r] = IF link[r] \in Sessions THEN Unmatched ELSE link[r]
      /\ \A p \in Syncers, r \in Records :
            match'[p][r] = IF match[p][r] \in Sessions THEN Gone ELSE match[p][r]
  BY <1>1, DeleteTypes
<1>3. Unmatched \notin Charges /\ Gone \notin Charges /\ Charges \subseteq Sessions
  BY InvoiceAssumption
<1>4. LinksAreFit' /\ MatchesAreFit'
  BY <1>2, <1>3 DEF LinksAreFit, MatchesAreFit
<1>5. table' \in [Sessions -> {"none", "open", "closed"}]
  BY <1>1, BuiltIsClosed
<1> QED
  BY <1>1, <1>2, <1>4, <1>5 DEF InvoiceTypeOK, AgeInv

\* A sync finds the charges that are closed by now, and so every old one that is not
\* left behind.
LEMMA SelectChargesInv ==
    ASSUME LinkInv, AgeInv, NEW p \in Syncers, SelectCharges(p)
    PROVE  LinkInv' /\ AgeInv'
<1> USE DEF LinkInv
<1>1. PICK m \in [Records -> Charges \cup {Unmatched}] :
          /\ \A r \in Records : IF r \in listed[p] THEN m[r] \in BestMatch(r) ELSE m[r] = Unmatched
          /\ match' = [match EXCEPT ![p] = m]
  BY DEF SelectCharges
<1>2. /\ pc' = [pc EXCEPT ![p] = "commit"] /\ pc[p] = "select"
      /\ blind' = blind \cup {r \in listed[p] : table[Billed[r]] # "closed"}
      /\ UNCHANGED <<clock, table, link, listed, imported>>
  BY DEF SelectCharges
<1>3. /\ match'[p] = m /\ pc'[p] = "commit"
      /\ \A q \in Syncers : q # p => match'[q] = match[q] /\ pc'[q] = pc[q]
  BY <1>1, <1>2 DEF InvoiceTypeOK
<1>4. ASSUME NEW r \in Records, m[r] \in Charges  PROVE FitsIn(m[r], r)'
  <2>1. r \in listed[p] /\ m[r] \in BestMatch(r)
    BY <1>1, <1>4, InvoiceAssumption
  <2>2. table[m[r]] = "closed" /\ Shared(r, m[r]) > 0
    BY <1>4, <2>1, BestMatchFits
  <2>3. ASSUME IsClear(r), r \notin blind'  PROVE m[r] = Billed[r]
    <3>1. table[Billed[r]] = "closed" /\ Billed[r] \in Charges
      BY <1>2, <2>1, <2>3, InvoiceNumbers
    <3>2. Shared(r, m[r]) \in Int /\ Shared(r, Billed[r]) \in Int
      BY <1>4, <3>1, OverlapFits
    <3>3. m[r] # Billed[r] => Shared(r, m[r]) < Shared(r, Billed[r])
      BY <1>4, <2>3 DEF IsClear
    <3>4. Shared(r, Billed[r]) > 0 => Shared(r, m[r]) >= Shared(r, Billed[r])
      BY <2>1, <3>1, BestMatchFits
    <3> QED
      BY <2>2, <3>2, <3>3, <3>4
  <2> QED
    BY <1>2, <2>2, <2>3 DEF FitsIn, Shared, IsClear
<1>5. ASSUME NEW r \in Records, NEW c \in Charges, FitsIn(c, r)  PROVE FitsIn(c, r)'
  BY <1>2, <1>5 DEF FitsIn, Shared, IsClear
<1>6. InvoiceTypeOK'
  <2>1. match' \in [Syncers -> [Records -> Charges \cup {Unmatched, Gone}]]
    BY <1>1 DEF InvoiceTypeOK
  <2>2. pc' \in [Syncers -> {"rebuild", "due", "select", "commit", "asleep", "idle"}]
    BY <1>2 DEF InvoiceTypeOK
  <2> QED
    BY <1>2, <2>1, <2>2 DEF InvoiceTypeOK
<1>7. LinksAreFit' /\ MatchesAreFit'
  BY <1>2, <1>3, <1>4, <1>5 DEF LinksAreFit, MatchesAreFit
<1>8. \A s \in Sessions : (Left(s)' <=> Left(s)) /\ (IsOld(s)' <=> IsOld(s)) /\ (Over(s)' <=> Over(s))
  BY <1>2 DEF Left, Anchor, Finished, IsOld, Over
<1>9. RebuiltByNow => RebuiltByNow'
  BY <1>2, <1>3, <1>8 DEF RebuiltByNow, Settled, Syncers, InvoiceTypeOK
<1>10. OldIsSettled => OldIsSettled'
  BY <1>2, <1>8 DEF OldIsSettled, Settled
<1>11. OldIsSettled /\ OldIsMatched => OldIsMatched'
  <2> SUFFICES ASSUME OldIsSettled, OldIsMatched, NEW q \in Syncers, pc'[q] = "commit",
                      NEW r \in listed[q], NEW c \in Charges, IsOld(c), Shared(r, c) > 0, ~Left(c)
               PROVE  Found(q, r, c)'
    BY <1>2, <1>8, InvoiceNumbers DEF OldIsMatched, Shared
  <2>1. r \in Records /\ c \in Sessions
    BY InvoiceNumbers DEF InvoiceTypeOK
  <2>2. CASE q = p
    <3>1. table[c] = "closed"
      BY <2>1 DEF OldIsSettled, Settled
    <3>2. m[r] \in Charges /\ Shared(r, m[r]) >= Shared(r, c)
      BY <1>1, <2>1, <2>2, <3>1, BestMatchFits
    <3> QED
      BY <1>3, <2>2, <3>2 DEF Found, Shared
  <2>3. CASE q # p
    <3>1. Found(q, r, c)
      BY <1>3, <2>3 DEF OldIsMatched
    <3> QED
      BY <1>3, <2>3, <3>1 DEF Found, Shared
  <2> QED
    BY <2>2, <2>3
<1> QED
  BY <1>2, <1>6, <1>7, <1>9, <1>10, <1>11 DEF AgeInv

\* What keeps the clock and the table keeps the ages of the sessions.
LEMMA SameAgeInv ==
    ASSUME LinkInv, AgeInv, UNCHANGED <<clock, table, imported>>,
           pc'["monitor"] = "rebuild" \/ pc["monitor"] # "rebuild",
           \A p \in Syncers : pc'[p] = "commit" =>
               pc[p] = "commit" /\ listed'[p] = listed[p] /\ match'[p] = match[p]
    PROVE  AgeInv'
<1>1. \A s \in Sessions : (Left(s)' <=> Left(s)) /\ (IsOld(s)' <=> IsOld(s)) /\ (Over(s)' <=> Over(s))
  BY DEF Left, Anchor, Finished, IsOld, Over
<1>2. RebuiltByNow => RebuiltByNow'
  BY <1>1 DEF RebuiltByNow, Settled
<1>3. OldIsSettled => OldIsSettled'
  BY <1>1 DEF OldIsSettled, Settled
<1>4. OldIsMatched => OldIsMatched'
  BY <1>1, InvoiceNumbers DEF OldIsMatched, Found, Shared
<1> QED
  BY <1>2, <1>3, <1>4 DEF AgeInv

\* A sync that ends, well or not, holds no ids any more.
LEMMA SyncEndsInv ==
    ASSUME LinkInv, AgeInv, NEW p \in Syncers, StoreHistory(p) \/ SyncFails(p)
    PROVE  LinkInv' /\ AgeInv'
<1> USE DEF LinkInv
<1>1. /\ listed' = [listed EXCEPT ![p] = {}]
      /\ match' = [match EXCEPT ![p] = [r \in Records |-> Unmatched]]
      /\ pc' = [pc EXCEPT ![p] = Done(p)] /\ pc[p] \in {"select", "commit"}
      /\ UNCHANGED <<clock, table, imported, blind>>
  BY DEF StoreHistory, SyncFails, Forget
<1>2. /\ match'[p] = [r \in Records |-> Unmatched] /\ listed'[p] = {} /\ pc'[p] = Done(p)
      /\ \A q \in Syncers : q # p => match'[q] = match[q] /\ pc'[q] = pc[q] /\ listed'[q] = listed[q]
      /\ Done(p) \in {"asleep", "idle"}
  BY <1>1 DEF InvoiceTypeOK, Done
<1>3. \A r \in Records : link'[r] = link[r] \/ (link'[r] = match[p][r] /\ match[p][r] # Gone)
  <2>1. CASE StoreHistory(p)
    <3>1. link' = [r \in Records |-> IF r \in listed[p] /\ \A q \in listed[p] : match[p][q] # Gone
                                     THEN match[p][r] ELSE link[r]]
      BY <2>1 DEF StoreHistory
    <3> QED
      BY <3>1
  <2>2. CASE SyncFails(p)
    BY <2>2 DEF SyncFails
  <2> QED
    BY <2>1, <2>2
<1>4. Unmatched \notin Charges
  BY InvoiceAssumption
<1>5. InvoiceTypeOK'
  <2>1. match' \in [Syncers -> [Records -> Charges \cup {Unmatched, Gone}]]
    BY <1>1 DEF InvoiceTypeOK
  <2>2. pc' \in [Syncers -> {"rebuild", "due", "select", "commit", "asleep", "idle"}]
    BY <1>1, <1>2 DEF InvoiceTypeOK
  <2>3. listed' \in [Syncers -> SUBSET Records]
    BY <1>1 DEF InvoiceTypeOK
  <2>4. link' \in [Records -> Charges \cup {Unmatched, NotStored}]
    <3>1. \A r \in Records : link'[r] \in Charges \cup {Unmatched, NotStored}
      BY <1>3 DEF InvoiceTypeOK
    <3>2. DOMAIN link' = Records /\ link' = [r \in Records |-> link'[r]]
      BY DEF StoreHistory, SyncFails, InvoiceTypeOK
    <3> QED
      BY <3>1, <3>2
  <2> QED
    BY <1>1, <2>1, <2>2, <2>3, <2>4 DEF InvoiceTypeOK
<1>6. LinksAreFit'
  BY <1>1, <1>3 DEF LinksAreFit, MatchesAreFit, FitsIn, Shared, IsClear
<1>7. MatchesAreFit'
  BY <1>1, <1>2, <1>4 DEF MatchesAreFit, FitsIn, Shared, IsClear
<1>8. pc'["monitor"] = "rebuild" \/ pc["monitor"] # "rebuild"
  <2>1. p = "monitor" => pc["monitor"] # "rebuild"
    BY <1>1
  <2>2. p # "monitor" => pc'["monitor"] = pc["monitor"]
    BY <1>2 DEF Syncers
  <2> QED
    BY <2>1, <2>2
<1>9. \A q \in Syncers : pc'[q] = "commit" =>
          pc[q] = "commit" /\ listed'[q] = listed[q] /\ match'[q] = match[q]
  BY <1>2
<1>10. AgeInv'
  BY <1>1, <1>8, <1>9, SameAgeInv
<1> QED
  BY <1>5, <1>6, <1>7, <1>10

\* Time passes between the cycles, when no transaction is open; a cycle is shorter
\* than the window, so that what becomes old has been settled by a rebuild.
LEMMA NextCycleInv ==
    ASSUME LinkInv, AgeInv, NextCycle
    PROVE  LinkInv' /\ AgeInv'
<1> USE DEF LinkInv
<1>1. /\ clock' = clock + Pause /\ pc["monitor"] = "asleep" /\ pc["command"] # "commit"
      /\ pc' = [pc EXCEPT !["monitor"] = "rebuild"]
      /\ UNCHANGED <<table, link, listed, match, imported, blind>>
  BY DEF NextCycle
<1>2. clock \in Nat /\ clock' \in Nat /\ clock <= clock'
  <2>1. clock \in Nat
    BY DEF InvoiceTypeOK
  <2> QED
    BY <1>1, <2>1, InvoiceNumbers
<1>3. pc'["monitor"] = "rebuild" /\ pc'["command"] = pc["command"]
  BY <1>1 DEF InvoiceTypeOK, Syncers
<1>4. InvoiceTypeOK'
  <2>1. pc' \in [Syncers -> {"rebuild", "due", "select", "commit", "asleep", "idle"}]
    BY <1>1 DEF InvoiceTypeOK
  <2> QED
    BY <1>1, <1>2, <2>1 DEF InvoiceTypeOK
<1>5. LinksAreFit' /\ MatchesAreFit'
  BY <1>1 DEF LinksAreFit, MatchesAreFit, FitsIn, Shared, IsClear
<1>6. Anchor \in Int /\ Anchor' \in Int /\ Anchor <= Anchor'
  BY <1>1, <1>2, AnchorIs, AnchorMoves
<1>7. ASSUME NEW s \in Sessions, Settled(s)  PROVE Settled(s)'
  <2>1. Begins[s] \in Nat /\ Known[s] \in Nat /\ Warmup \in Nat
    BY InvoiceNumbers
  <2> QED
    BY <1>1, <1>6, <1>7, <2>1 DEF Settled, Left
<1>8. RebuiltByNow => OldIsSettled'
  <2> SUFFICES ASSUME RebuiltByNow, NEW s \in Sessions, Ends[s] <= clock' - LiveWindow
               PROVE  Settled(s)'
    BY DEF OldIsSettled, IsOld
  <2>1. Over(s)
    <3>1. PICK e \in Nat : Ends[s] = e
      BY InvoiceNumbers
    <3>2. e <= clock
      BY <1>1, <1>2, <3>1, InvoiceNumbers
    <3> QED
      BY <3>1, <3>2 DEF Over
  <2> QED
    BY <1>1, <1>7, <2>1 DEF RebuiltByNow
<1>9. RebuiltByNow' /\ OldIsMatched'
  BY <1>1, <1>3 DEF RebuiltByNow, OldIsMatched, Syncers
<1> QED
  BY <1>1, <1>4, <1>5, <1>8, <1>9 DEF AgeInv

LEMMA InvoiceNextInv == LinkInv /\ AgeInv /\ [InvoiceNext]_invoiceVars => LinkInv' /\ AgeInv'
<1> SUFFICES ASSUME LinkInv, AgeInv, [InvoiceNext]_invoiceVars  PROVE LinkInv' /\ AgeInv'
  OBVIOUS
<1>1. CASE MonitorRebuilds
  BY <1>1, RebuildInv DEF MonitorRebuilds
<1>2. CASE OtherRebuilds
  BY <1>2, RebuildInv DEF OtherRebuilds
<1>3. CASE ImportWrites
  BY <1>3, ImportInv
<1>4. CASE MonitorSyncs \/ MonitorSkips \/ CommandSyncs \/ MonitorRestarts \/ UNCHANGED invoiceVars
  <2>1. /\ UNCHANGED <<clock, table, link, match, imported, blind>>
        /\ pc'["monitor"] = "rebuild" \/ pc["monitor"] # "rebuild" \/ pc'["monitor"] = pc["monitor"]
    BY <1>4 DEF MonitorSyncs, MonitorSkips, CommandSyncs, MonitorRestarts, invoiceVars, LinkInv,
                InvoiceTypeOK, Syncers
  <2>2. /\ pc' \in [Syncers -> {"rebuild", "due", "select", "commit", "asleep", "idle"}]
        /\ listed' \in [Syncers -> SUBSET Records]
    <3>1. \A days : Listed(days) \subseteq Records
      BY DEF Listed
    <3> QED
      BY <1>4, <3>1 DEF MonitorSyncs, MonitorSkips, CommandSyncs, MonitorRestarts, invoiceVars,
                LinkInv, InvoiceTypeOK
  <2>3. \A p \in Syncers : pc'[p] = "commit" =>
            pc[p] = "commit" /\ listed'[p] = listed[p] /\ match'[p] = match[p]
    BY <1>4, <2>1 DEF MonitorSyncs, MonitorSkips, CommandSyncs, MonitorRestarts, invoiceVars, LinkInv,
                InvoiceTypeOK
  <2>4. LinkInv'
    BY <2>1, <2>2 DEF LinkInv, InvoiceTypeOK, LinksAreFit, MatchesAreFit, FitsIn, Shared, IsClear
  <2>5. pc'["monitor"] = "rebuild" \/ pc["monitor"] # "rebuild"
    BY <2>1
  <2>6. AgeInv'
    BY <2>1, <2>3, <2>5, SameAgeInv
  <2> QED
    BY <2>4, <2>6
<1>5. ASSUME NEW p \in Syncers, SelectCharges(p) \/ StoreHistory(p) \/ SyncFails(p)
      PROVE  LinkInv' /\ AgeInv'
  BY <1>5, SelectChargesInv, SyncEndsInv
<1>6. CASE NextCycle
  BY <1>6, NextCycleInv
<1>7. "monitor" \in Syncers /\ "command" \in Syncers
  BY DEF Syncers
<1> QED
  BY <1>1, <1>2, <1>3, <1>4, <1>5, <1>6, <1>7 DEF InvoiceNext, MonitorLoop

\* An old charge is not deleted, and a sync finds it again, or one that overlaps the
\* record as much.
LEMMA OldLinkStays ==
    ASSUME LinkInv, AgeInv, [InvoiceNext]_invoiceVars, ~imported',
           NEW r \in Records, link[r] \in Charges, IsOld(link[r])
    PROVE  link'[r] \in Charges /\ Shared(r, link'[r]) >= Shared(r, link[r])
<1>1. /\ InvoiceTypeOK /\ table[link[r]] = "closed" /\ Shared(r, link[r]) > 0
      /\ link[r] \in Sessions /\ Shared(r, link[r]) \in Int
  BY OverlapFits, InvoiceNumbers DEF LinkInv, LinksAreFit, FitsIn
<1>2. SUFFICES \/ link'[r] = link[r]
               \/ link'[r] \in Charges /\ Shared(r, link'[r]) >= Shared(r, link[r])
  BY <1>1
<1>3. CASE MonitorRebuilds \/ OtherRebuilds
  <2>1. Rebuild
    BY <1>3 DEF MonitorRebuilds, OtherRebuilds
  <2>2. link[r] \in Finished
    BY <1>1 DEF Finished, IsOld
  <2>3. Anchor \in Int /\ Ends[link[r]] <= Anchor
    BY <1>1, <2>2, AnchorIs
  <2>4. ~(Begins[link[r]] >= Anchor)
    BY <1>1, <2>3, InvoiceNumbers
  <2>5. link'[r] = IF link[r] \in {s \in Sessions : Begins[s] >= Anchor} THEN Unmatched ELSE link[r]
    BY <1>1, <2>1, RebuildTable, DeleteTypes
  <2> QED
    BY <2>4, <2>5
<1>4. ASSUME NEW p \in Syncers, StoreHistory(p), link'[r] # link[r]
      PROVE  link'[r] \in Charges /\ Shared(r, link'[r]) >= Shared(r, link[r])
  <2>1. pc[p] = "commit" /\ ~imported
    BY <1>4 DEF StoreHistory
  <2>2. link' = [q \in Records |->
                    IF q \in listed[p] /\ \A s \in listed[p] : match[p][s] # Gone
                    THEN match[p][q] ELSE link[q]]
    BY <1>4 DEF StoreHistory
  <2>3. r \in listed[p] /\ link'[r] = match[p][r] /\ match[p][r] # Gone
    BY <1>4, <2>2
  <2>4. ~Left(link[r])
    BY <1>1 DEF Left
  <2>5. Found(p, r, link[r])
    BY <1>1, <2>1, <2>3, <2>4 DEF AgeInv, OldIsMatched
  <2> QED
    BY <2>3, <2>5 DEF Found
<1>5. CASE ImportWrites
  BY <1>5 DEF ImportWrites
<1>6. CASE \/ MonitorSyncs \/ MonitorSkips \/ CommandSyncs \/ MonitorRestarts \/ NextCycle
           \/ (\E p \in Syncers : SelectCharges(p) \/ SyncFails(p)) \/ UNCHANGED invoiceVars
  BY <1>6 DEF MonitorSyncs, MonitorSkips, CommandSyncs, MonitorRestarts, NextCycle, SelectCharges,
              SyncFails, invoiceVars
<1>7. "monitor" \in Syncers /\ "command" \in Syncers
  BY DEF Syncers
<1> QED
  BY <1>3, <1>4, <1>5, <1>6, <1>7 DEF InvoiceNext, MonitorLoop

-----------------------------------------------------------------------------
(* The theorems.                                                           *)

\* The failures that the row counts are those since the last lock, and more than
\* MaxFailures wrong attempts in a row take the lockout less what a request may
\* wait, for any number of requests and any of the settings (login of api/app.py).
THEOREM LoginIsSlow == Spec => []GuessesAreSlow
<1>1. Init => LoginInv
  BY LoginInitInv DEF Init
<1>2. LoginInv /\ [Next]_vars => LoginInv'
  <2>1. [Next]_vars => [LoginNext]_loginVars
    BY DEF Next, vars, Invoices
  <2> QED
    BY <2>1, LoginNextInv
<1>3. LoginInv => GuessesAreSlow
  BY DEF LoginInv
<1> QED
  BY <1>1, <1>2, <1>3, PTL DEF Spec

\* Whatever keys and certificates were made anew, pushed or left half done, on any
\* of their lives in days: when doctor and status find nothing wrong, the car knows the
\* CA of the server's certificate, and will for two weeks; and the server has the key
\* of it, unless the last command that made them anew is, or has stopped, between the
\* two (run_checks of doctor.py, check_status and diff of tesla/telemetry_config.py).
THEOREM GoodNews == Spec => []GoodNewsIsTrue
<1>1. Init => SetupInv
  BY SetupInitInv DEF Init
<1>2. SetupInv /\ [Next]_vars => SetupInv'
  <2>1. [Next]_vars => [SetupNext]_setupVars
    BY DEF Next, vars, Invoices
  <2> QED
    BY <2>1, SetupNextInv
<1>3. SetupInv => GoodNewsIsTrue
  <2> SUFFICES ASSUME SetupInv, DoctorIsGood, StatusIsGood
               PROVE  /\ CarKnowsServer /\ (ServerHasItsKey \/ KeyIsAhead)
                      /\ car.fields = fields
                      /\ day + Soon <= file["server_cert"].until /\ day + Soon <= car.exp
    BY DEF GoodNewsIsTrue
  <2>1. car # NoConfig /\ car.ca.key = file["server_cert"].issuer
    BY GoodStatus, GoodDoctor
  <2>2. ServerHasItsKey \/ KeyIsAhead
    BY DEF SetupInv, CertIsOfKey
  <2> QED
    BY <2>1, <2>2, GoodStatus, GoodDoctor DEF CarKnowsServer
<1> QED
  BY <1>1, <1>2, <1>3, PTL DEF Spec

\* An invoice is only ever linked to a charge that overlaps it and is there, closed;
\* and to the one it overlaps most, unless a sync has come upon it while that charge was
\* open or lost: for any sessions, next to each other as they may be, however the
\* monitor, the command, other rebuilds and imports interleave (best_match,
\* store_charging_history, the foreign key).
THEOREM InvoicesFit == Spec => []LinksFit
<1>1. Init => LinkInv /\ AgeInv
  BY InvoiceInitInv DEF Init
<1>2. LinkInv /\ AgeInv /\ [Next]_vars => (LinkInv /\ AgeInv)'
  <2>1. [Next]_vars => [InvoiceNext]_invoiceVars
    BY DEF Next, vars, Invoices, InvoiceNext
  <2> QED
    BY <2>1, InvoiceNextInv
<1>3. LinkInv /\ AgeInv => LinksFit
  BY DEF LinkInv, LinksAreFit, FitsIn, LinksFit
<1> QED
  BY <1>1, <1>2, <1>3, PTL DEF Spec

\* What has left the live window keeps its invoice, or leaves it only to a charge that
\* overlaps it as much, whatever syncs and rebuilds do at the same time and whatever the
\* rebuilds lose, as long as no import runs over it (_anchor, replace_sessions, the
\* upsert).
THEOREM OldInvoicesStay == Spec => OldLinksStay
<1>1. Init => LinkInv /\ AgeInv
  BY InvoiceInitInv DEF Init
<1>2. LinkInv /\ AgeInv /\ [Next]_vars => (LinkInv /\ AgeInv)'
  <2>1. [Next]_vars => [InvoiceNext]_invoiceVars
    BY DEF Next, vars, Invoices, InvoiceNext
  <2> QED
    BY <2>1, InvoiceNextInv
<1>3. LinkInv /\ AgeInv /\ [Next]_vars
          => [\A r \in Records :
                (link[r] \in Charges /\ Ends[link[r]] <= clock - LiveWindow /\ ~imported')
                    => link'[r] \in Charges /\ Shared(r, link'[r]) >= Shared(r, link[r])]_invoiceVars
  <2>1. [Next]_vars => [InvoiceNext]_invoiceVars
    BY DEF Next, vars, Invoices, InvoiceNext
  <2> QED
    BY <2>1, OldLinkStays DEF IsOld
<1> QED
  BY <1>1, <1>2, <1>3, PTL DEF Spec, OldLinksStay
=============================================================================
