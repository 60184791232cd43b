-------------------------- MODULE TokenStoreProofs --------------------------
(***************************************************************************)
(* Proofs about TokenStore: for any number of processes, logins, expiries  *)
(* and faults, the row lock keeps a refresh token from being spent twice   *)
(* and a refresh from undoing a login.                                     *)
(***************************************************************************)
EXTENDS TokenStore, FiniteSetTheorems, TLAPS

Holding(p) == pc[p] \in {"locked", "calling", "answered"}

\* Whoever holds the lock read the row that is still there.
HolderSeesRow == \A p \in Procs : Holding(p) => seen[p] = row.refresh /\ row.refresh # 0

\* A stored token is spent only by the holder that has its successor in hand,
\* or by one that lost it.
RowIsSpent ==
    row.refresh \in spent => row.refresh \in lost \/ \E p \in Procs : pc[p] = "answered"

\* A pair that Tesla answered with is the unspent successor of a spent token.
ReplyIsNext ==
    \A p \in Procs : pc[p] = "answered" =>
        /\ seen[p] \in spent
        /\ reply[p] \in Issued \ spent
        /\ grantOf[reply[p]] = grantOf[seen[p]]

\* A pair that a login exchanged is unspent and nobody else's, and its grant is
\* the newest.
LoginIsApart ==
    loginPc = "exchanged" =>
        /\ loginToken \in Issued \ (spent \cup {row.refresh})
        /\ \A p \in Procs : pc[p] = "answered" => reply[p] # loginToken
        /\ grantOf[loginToken] = logins

GrantsAreLogins == \A i \in Issued : grantOf[i] <= logins

IInv == /\ TypeOK /\ HolderSeesRow /\ RowIsSpent /\ ReplyIsNext /\ LoginIsApart
        /\ GrantsAreLogins /\ SpentOnceUnlessLost

-----------------------------------------------------------------------------
\* The lock serialises: two transactions under way are the same one.
LEMMA OneHolder ==
    ASSUME TypeOK, NEW p \in Procs, NEW q \in Procs, Holding(p), Holding(q)
    PROVE  p = q
BY DEF TypeOK, Holding

\* A new token takes the next number and changes nobody's grant.
LEMMA NextToken ==
    ASSUME NEW grants \in Seq(Nat), NEW g \in Nat
    PROVE  LET more == Append(grants, g) IN
           /\ more \in Seq(Nat)
           /\ Len(more) = Len(grants) + 1
           /\ more[Len(grants) + 1] = g
           /\ \A i \in 1..Len(grants) : more[i] = grants[i]
OBVIOUS

\* What Tesla does with an unspent token that the holder of the lock sent.
LEMMA RotateEffect ==
    ASSUME IInv, NEW p \in Procs, Holding(p), Rotate(p)
    PROVE  /\ grantOf' \in Seq(Nat) /\ Len(grantOf') = Len(grantOf) + 1
           /\ Issued' = Issued \cup {Len(grantOf) + 1} /\ Len(grantOf) + 1 \notin Issued
           /\ seen[p] \in Issued /\ seen[p] = row.refresh
           /\ grantOf'[Len(grantOf) + 1] = grantOf[seen[p]]
           /\ \A i \in Issued : grantOf'[i] = grantOf[i]
           /\ spent' = spent \cup {row.refresh} /\ spent' \subseteq Issued
           /\ respent' = respent
<1>1. seen[p] = row.refresh /\ seen[p] \in Issued
  BY DEF IInv, HolderSeesRow, TypeOK, Issued
<1>2. grantOf \in Seq(Nat) /\ grantOf[seen[p]] \in Nat
  BY <1>1 DEF IInv, TypeOK, Issued
<1>3. /\ grantOf' \in Seq(Nat) /\ Len(grantOf') = Len(grantOf) + 1
      /\ grantOf'[Len(grantOf) + 1] = grantOf[seen[p]]
      /\ \A i \in 1..Len(grantOf) : grantOf'[i] = grantOf[i]
  BY <1>2, NextToken DEF Rotate
<1>4. Issued' = Issued \cup {Len(grantOf) + 1} /\ Len(grantOf) + 1 \notin Issued
  BY <1>2, <1>3 DEF Issued
<1> QED
  BY <1>1, <1>3, <1>4 DEF Rotate, IInv, TypeOK, Issued

\* Without a stored login the invariant holds.
LEMMA InitInv == Init => IInv
BY TokenAssumption DEF Init, IInv, TypeOK, HolderSeesRow, Holding, RowIsSpent, ReplyIsNext,
                       LoginIsApart, GrantsAreLogins, SpentOnceUnlessLost, Issued

\* Every step of the callers, the login, Tesla and the faults keeps the invariant.
LEMMA NextInv == IInv /\ [Next]_vars => IInv'
<1> SUFFICES ASSUME IInv, [Next]_vars PROVE IInv'
  OBVIOUS
<1> USE TokenAssumption DEF IInv, teslaVars, loginVars, procVars, faultVars
<1>1. ASSUME NEW p \in Procs, Ask(p) PROVE IInv'
  <2>1. TypeOK'
    BY <1>1 DEF Ask, Goto, TypeOK, Issued
  <2>2. HolderSeesRow' /\ ReplyIsNext'
    BY <1>1 DEF Ask, Goto, TypeOK, Issued, HolderSeesRow, ReplyIsNext, Holding
  <2>3. RowIsSpent' /\ SpentOnceUnlessLost'
    BY <1>1 DEF Ask, Goto, TypeOK, RowIsSpent, SpentOnceUnlessLost
  <2>4. LoginIsApart' /\ GrantsAreLogins'
    BY <1>1 DEF Ask, Goto, TypeOK, Issued, LoginIsApart, GrantsAreLogins
  <2> QED
    BY <2>1, <2>2, <2>3, <2>4
<1>2. ASSUME NEW p \in Procs, NotConfigured(p) PROVE IInv'
  <2>1. TypeOK'
    BY <1>2 DEF NotConfigured, Goto, TypeOK, Issued
  <2>2. HolderSeesRow' /\ ReplyIsNext'
    BY <1>2 DEF NotConfigured, Goto, TypeOK, Issued, HolderSeesRow, ReplyIsNext, Holding
  <2>3. RowIsSpent' /\ SpentOnceUnlessLost'
    BY <1>2 DEF NotConfigured, Goto, TypeOK, RowIsSpent, SpentOnceUnlessLost
  <2>4. LoginIsApart' /\ GrantsAreLogins'
    BY <1>2 DEF NotConfigured, Goto, TypeOK, Issued, LoginIsApart, GrantsAreLogins
  <2> QED
    BY <2>1, <2>2, <2>3, <2>4
<1>3. ASSUME NEW p \in Procs, Lock(p) PROVE IInv'
  <2>1. TypeOK'
    BY <1>3 DEF Lock, Goto, TypeOK, Issued
  <2>2. HolderSeesRow' /\ ReplyIsNext'
    BY <1>3 DEF Lock, Goto, TypeOK, Issued, HolderSeesRow, ReplyIsNext, Holding
  <2>3. RowIsSpent' /\ SpentOnceUnlessLost'
    BY <1>3 DEF Lock, Goto, TypeOK, RowIsSpent, SpentOnceUnlessLost
  <2>4. LoginIsApart' /\ GrantsAreLogins'
    BY <1>3 DEF Lock, Goto, TypeOK, Issued, LoginIsApart, GrantsAreLogins
  <2> QED
    BY <2>1, <2>2, <2>3, <2>4
<1>4. ASSUME NEW p \in Procs, Reuse(p) PROVE IInv'
  <2>1. TypeOK'
    BY <1>4 DEF Reuse, Goto, Unlock, TypeOK, Issued
  <2>2. HolderSeesRow' /\ ReplyIsNext'
    BY <1>4 DEF Reuse, Goto, Unlock, TypeOK, Issued, HolderSeesRow, ReplyIsNext, Holding
  <2>3. RowIsSpent' /\ SpentOnceUnlessLost'
    BY <1>4 DEF Reuse, Goto, Unlock, TypeOK, RowIsSpent, SpentOnceUnlessLost
  <2>4. LoginIsApart' /\ GrantsAreLogins'
    BY <1>4 DEF Reuse, Goto, Unlock, TypeOK, Issued, LoginIsApart, GrantsAreLogins
  <2> QED
    BY <2>1, <2>2, <2>3, <2>4
<1>5. ASSUME NEW p \in Procs, Send(p) PROVE IInv'
  <2>1. TypeOK'
    BY <1>5 DEF Send, Goto, TypeOK, Issued
  <2>2. HolderSeesRow' /\ ReplyIsNext'
    BY <1>5 DEF Send, Goto, TypeOK, Issued, HolderSeesRow, ReplyIsNext, Holding
  <2>3. RowIsSpent' /\ SpentOnceUnlessLost'
    BY <1>5 DEF Send, Goto, TypeOK, RowIsSpent, SpentOnceUnlessLost
  <2>4. LoginIsApart' /\ GrantsAreLogins'
    BY <1>5 DEF Send, Goto, TypeOK, Issued, LoginIsApart, GrantsAreLogins
  <2> QED
    BY <2>1, <2>2, <2>3, <2>4
<1>6. ASSUME NEW p \in Procs, TeslaAnswers(p) PROVE IInv'
  <2>1. Holding(p)
    BY <1>6 DEF TeslaAnswers, Goto, Holding
  <2>2. Rotate(p)
    BY <1>6 DEF TeslaAnswers
  <2>3. \A q \in Procs : q # p => ~Holding(q)
    BY <2>1, OneHolder
  <2>4. TypeOK'
    <3>1. /\ grantOf' \in Seq(Nat) /\ Len(grantOf') = Len(grantOf) + 1
          /\ spent \subseteq spent' /\ spent' \subseteq Issued' /\ respent' = respent
      BY <2>1, <2>2, RotateEffect
    <3>2. 0..Len(grantOf) \subseteq 0..Len(grantOf') /\ Len(grantOf) + 1 \in 0..Len(grantOf')
      BY <3>1 DEF TypeOK
    <3>3. row' \in [refresh : 0..Len(grantOf'), fresh : BOOLEAN]
      BY <1>6, <3>2 DEF TeslaAnswers, Goto, TypeOK
    <3>4. seen' \in [Procs -> 0..Len(grantOf')] /\ reply' \in [Procs -> 0..Len(grantOf')]
      BY <1>6, <3>2 DEF TeslaAnswers, Goto, TypeOK
    <3>5. \A q \in Procs : lock' = q <=> pc'[q] \in {"locked", "calling", "answered"}
      BY <1>6, <2>1, <2>3 DEF TeslaAnswers, Goto, TypeOK, Holding
    <3>6. lost' \subseteq spent' /\ respent' \subseteq spent'
      BY <1>6, <2>1, <2>2, <3>1, RotateEffect DEF TeslaAnswers, Goto, TypeOK
    <3> QED
      BY <1>6, <3>1, <3>2, <3>3, <3>4, <3>5, <3>6 DEF TeslaAnswers, Goto, TypeOK
  <2>5. HolderSeesRow'
    BY <1>6 DEF TeslaAnswers, Goto, TypeOK, HolderSeesRow, Holding
  <2>6. RowIsSpent'
    BY <1>6 DEF TeslaAnswers, Goto, TypeOK, RowIsSpent
  <2>7. ReplyIsNext'
    <3>1. \A q \in Procs : q # p => pc'[q] # "answered"
      BY <1>6, <2>3 DEF TeslaAnswers, Goto, TypeOK, Holding
    <3>2. reply'[p] = Len(grantOf) + 1 /\ seen'[p] = seen[p]
      BY <1>6 DEF TeslaAnswers, TypeOK
    <3>3. /\ seen[p] \in spent' /\ Len(grantOf) + 1 \in Issued' \ spent'
          /\ grantOf'[Len(grantOf) + 1] = grantOf'[seen[p]]
      BY <2>1, <2>2, RotateEffect
    <3> QED
      BY <3>1, <3>2, <3>3 DEF ReplyIsNext
  <2>8. LoginIsApart'
    BY <1>6, <2>1, <2>2, <2>3, RotateEffect DEF TeslaAnswers, Goto, TypeOK, LoginIsApart, Holding,
       Issued
  <2>9. GrantsAreLogins'
    <3>1. /\ \A i \in Issued : grantOf'[i] = grantOf[i]
          /\ grantOf'[Len(grantOf) + 1] = grantOf[seen[p]] /\ seen[p] \in Issued
          /\ Issued' = Issued \cup {Len(grantOf) + 1}
      BY <2>1, <2>2, RotateEffect
    <3> QED
      BY <1>6, <3>1 DEF TeslaAnswers, GrantsAreLogins
  <2>10. SpentOnceUnlessLost'
    BY <1>6, <2>1, <2>2, RotateEffect DEF TeslaAnswers, SpentOnceUnlessLost
  <2> QED
    BY <2>4, <2>5, <2>6, <2>7, <2>8, <2>9, <2>10
<1>7. ASSUME NEW p \in Procs, TeslaRefuses(p) PROVE IInv'
  <2>1. seen[p] = row.refresh
    BY <1>7 DEF TeslaRefuses, Goto, HolderSeesRow, Holding
  <2>2. \A q \in Procs : pc[q] # "answered"
    BY <1>7, OneHolder DEF TeslaRefuses, Goto, Holding
  <2>3. SpentOnceUnlessLost'
    BY <1>7, <2>1, <2>2 DEF TeslaRefuses, RowIsSpent, SpentOnceUnlessLost
  <2> QED
    <3>1. TypeOK'
      BY <1>7, OneHolder DEF TeslaRefuses, Goto, Unlock, TypeOK, Issued, Holding
    <3>2. HolderSeesRow' /\ ReplyIsNext'
      BY <1>7 DEF TeslaRefuses, Goto, TypeOK, Issued, HolderSeesRow, Holding, ReplyIsNext
    <3>3. RowIsSpent' /\ LoginIsApart' /\ GrantsAreLogins'
      BY <1>7, <2>2 DEF TeslaRefuses, Goto, TypeOK, Issued, RowIsSpent, LoginIsApart,
         GrantsAreLogins
    <3> QED
      BY <2>3, <3>1, <3>2, <3>3
<1>8. ASSUME NEW p \in Procs, Save(p) PROVE IInv'
  <2>1. TypeOK'
    BY <1>8 DEF Save, Goto, Unlock, TypeOK, Issued
  <2>2. HolderSeesRow' /\ ReplyIsNext'
    BY <1>8 DEF Save, Goto, Unlock, TypeOK, Issued, HolderSeesRow, ReplyIsNext, Holding
  <2>3. RowIsSpent' /\ SpentOnceUnlessLost'
    BY <1>8 DEF Save, Goto, Unlock, TypeOK, RowIsSpent, SpentOnceUnlessLost, ReplyIsNext
  <2>4. LoginIsApart' /\ GrantsAreLogins'
    BY <1>8 DEF Save, Goto, Unlock, TypeOK, Issued, LoginIsApart, GrantsAreLogins
  <2> QED
    BY <2>1, <2>2, <2>3, <2>4
<1>9. ASSUME NEW p \in Procs, Unreachable(p) PROVE IInv'
  <2>1. TypeOK'
    BY <1>9 DEF Unreachable, Fails, Unlock, TypeOK, Issued
  <2>2. HolderSeesRow' /\ ReplyIsNext'
    BY <1>9 DEF Unreachable, Fails, Unlock, TypeOK, Issued, HolderSeesRow, ReplyIsNext, Holding
  <2>3. RowIsSpent' /\ SpentOnceUnlessLost'
    BY <1>9 DEF Unreachable, Fails, Unlock, TypeOK, RowIsSpent, SpentOnceUnlessLost
  <2>4. LoginIsApart' /\ GrantsAreLogins'
    BY <1>9 DEF Unreachable, Fails, Unlock, TypeOK, Issued, LoginIsApart, GrantsAreLogins
  <2> QED
    BY <2>1, <2>2, <2>3, <2>4
<1>10. ASSUME NEW p \in Procs, AnswerLost(p) PROVE IInv'
  <2>1. Holding(p)
    BY <1>10 DEF AnswerLost, Holding
  <2>2. Rotate(p)
    BY <1>10 DEF AnswerLost
  <2>3. \A q \in Procs : q # p => ~Holding(q)
    BY <2>1, OneHolder
  <2>4. TypeOK'
    <3>1. /\ grantOf' \in Seq(Nat) /\ Len(grantOf') = Len(grantOf) + 1
          /\ spent \subseteq spent' /\ spent' \subseteq Issued' /\ respent' = respent
      BY <2>1, <2>2, RotateEffect
    <3>2. 0..Len(grantOf) \subseteq 0..Len(grantOf') /\ Len(grantOf) + 1 \in 0..Len(grantOf')
      BY <3>1 DEF TypeOK
    <3>3. row' \in [refresh : 0..Len(grantOf'), fresh : BOOLEAN]
      BY <1>10, <3>2 DEF AnswerLost, Fails, Unlock, TypeOK
    <3>4. seen' \in [Procs -> 0..Len(grantOf')] /\ reply' \in [Procs -> 0..Len(grantOf')]
      BY <1>10, <3>2 DEF AnswerLost, Fails, Unlock, TypeOK
    <3>5. \A q \in Procs : lock' = q <=> pc'[q] \in {"locked", "calling", "answered"}
      BY <1>10, <2>1, <2>3 DEF AnswerLost, Fails, Unlock, TypeOK, Holding
    <3>6. lost' \subseteq spent' /\ respent' \subseteq spent'
      BY <1>10, <2>1, <2>2, <3>1, RotateEffect DEF AnswerLost, Fails, Unlock, TypeOK
    <3> QED
      BY <1>10, <3>1, <3>2, <3>3, <3>4, <3>5, <3>6 DEF AnswerLost, Fails, Unlock, TypeOK
  <2>5. HolderSeesRow'
    BY <1>10 DEF AnswerLost, Fails, TypeOK, HolderSeesRow, Holding
  <2>6. RowIsSpent'
    BY <1>10, <2>1, <2>2, RotateEffect DEF AnswerLost, Fails, RowIsSpent
  <2>7. ReplyIsNext'
    BY <1>10, <2>3 DEF AnswerLost, Fails, TypeOK, ReplyIsNext, Holding
  <2>8. LoginIsApart'
    BY <1>10, <2>1, <2>2, <2>3, RotateEffect DEF AnswerLost, Fails, TypeOK, LoginIsApart, Holding,
       Issued
  <2>9. GrantsAreLogins'
    <3>1. /\ \A i \in Issued : grantOf'[i] = grantOf[i]
          /\ grantOf'[Len(grantOf) + 1] = grantOf[seen[p]] /\ seen[p] \in Issued
          /\ Issued' = Issued \cup {Len(grantOf) + 1}
      BY <2>1, <2>2, RotateEffect
    <3> QED
      BY <1>10, <3>1 DEF AnswerLost, Fails, GrantsAreLogins
  <2>10. SpentOnceUnlessLost'
    BY <1>10, <2>1, <2>2, RotateEffect DEF AnswerLost, SpentOnceUnlessLost
  <2> QED
    BY <2>4, <2>5, <2>6, <2>7, <2>8, <2>9, <2>10
<1>11. ASSUME NEW p \in Procs, CommitFails(p) PROVE IInv'
  <2>1. Holding(p) /\ \A q \in Procs : q # p => ~Holding(q)
    BY <1>11, OneHolder DEF CommitFails, Holding
  <2>2. TypeOK'
    <3>1. \A q \in Procs : lock' = q <=> pc'[q] \in {"locked", "calling", "answered"}
      BY <1>11, <2>1, TokenAssumption DEF CommitFails, Fails, Unlock, TypeOK, Holding
    <3>2. lock' = "nobody" /\ pc' \in [Procs -> {"idle", "asked", "locked", "calling", "answered"}]
      BY <1>11 DEF CommitFails, Fails, Unlock, TypeOK
    <3>3. lost' \subseteq spent /\ faults' \in Nat
      BY <1>11 DEF CommitFails, Fails, TypeOK, ReplyIsNext
    <3> QED
      BY <1>11, <3>1, <3>2, <3>3 DEF CommitFails, Fails, TypeOK, Issued
  <2>3. HolderSeesRow' /\ ReplyIsNext'
    BY <1>11, <2>1 DEF CommitFails, Fails, TypeOK, HolderSeesRow, ReplyIsNext, Holding, Issued
  <2>4. RowIsSpent'
    BY <1>11, <2>1 DEF CommitFails, Fails, TypeOK, HolderSeesRow, RowIsSpent, Holding
  <2>5. LoginIsApart' /\ GrantsAreLogins' /\ SpentOnceUnlessLost'
    BY <1>11, <2>1 DEF CommitFails, Fails, TypeOK, LoginIsApart, GrantsAreLogins,
       SpentOnceUnlessLost,
                      Holding, Issued
  <2> QED
    BY <2>2, <2>3, <2>4, <2>5
<1>12. ASSUME NEW p \in Procs, Crash(p) PROVE IInv'
  <2>1. Holding(p) /\ \A q \in Procs : q # p => ~Holding(q)
    BY <1>12, OneHolder DEF Crash, Holding
  <2>2. TypeOK'
    <3>1. \A q \in Procs : lock' = q <=> pc'[q] \in {"locked", "calling", "answered"}
      BY <1>12, <2>1, TokenAssumption DEF Crash, Fails, Unlock, TypeOK, Holding
    <3>2. lock' = "nobody" /\ pc' \in [Procs -> {"idle", "asked", "locked", "calling", "answered"}]
      BY <1>12 DEF Crash, Fails, Unlock, TypeOK
    <3>3. lost' \subseteq spent /\ faults' \in Nat
      BY <1>12 DEF Crash, Fails, TypeOK, ReplyIsNext
    <3> QED
      BY <1>12, <3>1, <3>2, <3>3 DEF Crash, Fails, TypeOK, Issued
  <2>3. HolderSeesRow' /\ ReplyIsNext'
    BY <1>12, <2>1 DEF Crash, Fails, TypeOK, HolderSeesRow, ReplyIsNext, Holding, Issued
  <2>4. RowIsSpent'
    BY <1>12, <2>1 DEF Crash, Fails, TypeOK, HolderSeesRow, RowIsSpent, Holding
  <2>5. LoginIsApart' /\ GrantsAreLogins' /\ SpentOnceUnlessLost'
    BY <1>12, <2>1 DEF Crash, Fails, TypeOK, LoginIsApart, GrantsAreLogins, SpentOnceUnlessLost,
                      Holding, Issued
  <2> QED
    BY <2>2, <2>3, <2>4, <2>5
<1>13. ASSUME Exchange PROVE IInv'
  <2>1. grantOf' = Append(grantOf, logins + 1) /\ grantOf \in Seq(Nat) /\ logins + 1 \in Nat
    BY <1>13 DEF Exchange, TypeOK
  <2>2. /\ grantOf' \in Seq(Nat) /\ Len(grantOf') = Len(grantOf) + 1
        /\ grantOf'[Len(grantOf) + 1] = logins + 1
        /\ \A i \in Issued : grantOf'[i] = grantOf[i]
    BY <2>1, NextToken DEF Issued
  <2>3. /\ Issued' = Issued \cup {Len(grantOf) + 1} /\ Len(grantOf) + 1 \notin Issued
        /\ 0..Len(grantOf) \subseteq 0..Len(grantOf')
    BY <2>1, <2>2 DEF Issued
  <2>4. row' \in [refresh : 0..Len(grantOf'), fresh : BOOLEAN]
    BY <1>13, <2>3 DEF Exchange, TypeOK
  <2>5. TypeOK'
    BY <1>13, <2>2, <2>3, <2>4 DEF Exchange, TypeOK
  <2>6. HolderSeesRow' /\ RowIsSpent' /\ SpentOnceUnlessLost'
    BY <1>13 DEF Exchange, HolderSeesRow, Holding, RowIsSpent, SpentOnceUnlessLost
  <2>7. row.refresh # Len(grantOf) + 1 /\ Len(grantOf) + 1 \notin spent
    BY <2>3 DEF TypeOK, Issued
  <2>8. ReplyIsNext'
    <3> SUFFICES ASSUME NEW p \in Procs, pc[p] = "answered"
                 PROVE  /\ seen[p] \in spent /\ reply[p] \in Issued' \ spent
                        /\ grantOf'[reply[p]] = grantOf'[seen[p]]
      BY <1>13 DEF Exchange, procVars, ReplyIsNext
    <3>1. /\ seen[p] \in spent /\ spent \subseteq Issued /\ reply[p] \in Issued \ spent
          /\ grantOf[reply[p]] = grantOf[seen[p]]
      BY DEF ReplyIsNext, TypeOK
    <3> QED
      BY <2>2, <2>3, <3>1
  <2>9. LoginIsApart'
    BY <1>13, <2>2, <2>3, <2>7 DEF Exchange, LoginIsApart, ReplyIsNext
  <2>10. GrantsAreLogins'
    BY <1>13, <2>2, <2>3 DEF Exchange, TypeOK, GrantsAreLogins, Issued
  <2> QED
    BY <2>5, <2>6, <2>8, <2>9, <2>10
<1>14. ASSUME SaveLogin PROVE IInv'
  <2>1. TypeOK'
    BY <1>14 DEF SaveLogin, TypeOK, Issued
  <2>2. HolderSeesRow' /\ ReplyIsNext'
    BY <1>14 DEF SaveLogin, TypeOK, Issued, HolderSeesRow, ReplyIsNext, Holding
  <2>3. RowIsSpent' /\ SpentOnceUnlessLost'
    BY <1>14 DEF SaveLogin, TypeOK, RowIsSpent, SpentOnceUnlessLost, LoginIsApart
  <2>4. LoginIsApart' /\ GrantsAreLogins'
    BY <1>14 DEF SaveLogin, TypeOK, Issued, LoginIsApart, GrantsAreLogins
  <2> QED
    BY <2>1, <2>2, <2>3, <2>4
<1>15. ASSUME Expire PROVE IInv'
  <2>1. row'.refresh = row.refresh /\ row' \in [refresh : 0..Len(grantOf), fresh : BOOLEAN]
    BY <1>15 DEF Expire, TypeOK
  <2>2. TypeOK'
    <3>1. expiries' \in Nat
      BY <1>15 DEF Expire, TypeOK
    <3>2. UNCHANGED <<lock, procVars, loginVars, teslaVars, faultVars>>
      BY <1>15 DEF Expire
    <3> QED
      BY <2>1, <3>1, <3>2 DEF TypeOK, Issued
  <2>3. HolderSeesRow' /\ ReplyIsNext'
    BY <1>15, <2>1 DEF Expire, Issued, HolderSeesRow, Holding, ReplyIsNext
  <2>4. RowIsSpent' /\ SpentOnceUnlessLost'
    BY <1>15, <2>1 DEF Expire, Holding, RowIsSpent, SpentOnceUnlessLost
  <2>5. LoginIsApart' /\ GrantsAreLogins'
    BY <1>15, <2>1 DEF Expire, Issued, LoginIsApart, GrantsAreLogins
  <2> QED
    BY <2>2, <2>3, <2>4, <2>5
<1>16. CASE UNCHANGED vars
  BY <1>16 DEF vars, Issued, TypeOK, HolderSeesRow, Holding, RowIsSpent, ReplyIsNext, LoginIsApart,
              GrantsAreLogins, SpentOnceUnlessLost
<1> QED
  BY <1>1, <1>2, <1>3, <1>4, <1>5, <1>6, <1>7, <1>8, <1>9, <1>10, <1>11, <1>12, <1>13, <1>14, <1>15,
     <1>16 DEF Next, Call, Fault, Login

-----------------------------------------------------------------------------
\* The invariant of row, lock and tokens that the others follow from.
THEOREM Invariance == Spec => []IInv
<1>1. Init => IInv
  BY InitInv
<1>2. IInv /\ [Next]_vars => IInv'
  BY NextInv
<1> QED
  BY <1>1, <1>2, PTL DEF Spec

\* Types, and the lock discipline of get_access_token and save_tokens: the row
\* lock is held exactly by the transaction that is under way.
THEOREM TypeCorrect == Spec => []TypeOK
<1>1. IInv => TypeOK
  BY DEF IInv
<1> QED
  BY <1>1, Invariance, PTL

\* However many processes and logins share the stored login, Tesla sees a refresh
\* token a second time only if a fault kept its successor out of the database.
THEOREM SpentOnce == Spec => []SpentOnceUnlessLost
<1>1. IInv => SpentOnceUnlessLost
  BY DEF IInv
<1> QED
  BY <1>1, Invariance, PTL

\* Between transactions the stored refresh token is one that Tesla has not seen,
\* unless a fault kept its successor out of the database.
THEOREM TokenWorks == Spec => []StoredTokenWorks
<1>1. IInv => StoredTokenWorks
  <2> SUFFICES ASSUME IInv, lock = "nobody", row.refresh \in spent
               PROVE  row.refresh \in lost
    BY DEF StoredTokenWorks
  <2>1. \A p \in Procs : pc[p] # "answered"
    BY TokenAssumption DEF IInv, TypeOK
  <2> QED
    BY <2>1 DEF IInv, RowIsSpent
<1> QED
  BY <1>1, Invariance, PTL

\* No step replaces the stored pair by one of an older grant, or removes it.
THEOREM NewestLogin == Spec => NewestLoginStays
<1> DEFINE Stays == row.refresh # 0 => /\ row'.refresh # 0
                                       /\ grantOf'[row'.refresh] >= grantOf[row.refresh]
<1>1. IInv /\ [Next]_vars => [Stays]_row
  <2> SUFFICES ASSUME IInv, [Next]_vars, row' # row, row.refresh # 0
               PROVE  row'.refresh # 0 /\ grantOf'[row'.refresh] >= grantOf[row.refresh]
    OBVIOUS
  <2>1. row.refresh \in Issued /\ \A i \in Issued : grantOf[i] \in Nat /\ i # 0
    BY DEF IInv, TypeOK, Issued
  <2>2. ASSUME NEW p \in Procs, Save(p)
        PROVE  row'.refresh # 0 /\ grantOf'[row'.refresh] >= grantOf[row.refresh]
    <3>1. reply[p] \in Issued /\ grantOf[reply[p]] = grantOf[row.refresh]
      BY <2>2 DEF IInv, ReplyIsNext, HolderSeesRow, Holding, Save, Goto
    <3> QED
      BY <2>1, <2>2, <3>1 DEF Save, teslaVars
  <2>3. ASSUME SaveLogin
        PROVE  row'.refresh # 0 /\ grantOf'[row'.refresh] >= grantOf[row.refresh]
    BY <2>1, <2>3 DEF SaveLogin, teslaVars, IInv, LoginIsApart, GrantsAreLogins
  <2>4. ASSUME Expire
        PROVE  row'.refresh # 0 /\ grantOf'[row'.refresh] >= grantOf[row.refresh]
    BY <2>1, <2>4 DEF Expire, teslaVars, IInv, TypeOK
  <2>5. (\E p \in Procs : Save(p)) \/ SaveLogin \/ Expire
    BY DEF Next, Call, Login, Fault, Ask, NotConfigured, Lock, Reuse, Send, TeslaAnswers,
           TeslaRefuses, Unreachable, AnswerLost, CommitFails, Crash, Fails, Exchange, vars
  <2> QED
    BY <2>2, <2>3, <2>4, <2>5
<1> QED
  BY <1>1, Invariance, PTL DEF Spec, NewestLoginStays

-----------------------------------------------------------------------------
(* How many refresh tokens are spent.                                      *)

\* Each spent token has an expiry of its own, and so has a stale row whose token is
\* not spent yet.
EachHasItsExpiry ==
    /\ IsFiniteSet(spent) /\ Cardinality(spent) \in Nat /\ Cardinality(spent) <= expiries
    /\ ~row.fresh /\ row.refresh \in Issued \ spent => Cardinality(spent) + 1 <= expiries

\* Whoever has asked Tesla found the row stale, and it still is.
CallerSawStale == \A p \in Procs : pc[p] \in {"calling", "answered"} => ~row.fresh

CountInv == EachHasItsExpiry /\ CallerSawStale

LEMMA CountInit == Init => CountInv
BY FS_EmptySet DEF Init, CountInv, EachHasItsExpiry, CallerSawStale, Issued

\* Tesla rotates the token of the stale row, and that uses up the row's expiry.
LEMMA RotateCounts ==
    ASSUME IInv, CountInv, NEW p \in Procs, pc[p] = "calling", Rotate(p),
           UNCHANGED <<row, expiries>>
    PROVE  EachHasItsExpiry'
<1>1. /\ Holding(p) /\ seen[p] \in Issued /\ seen[p] = row.refresh /\ ~row.fresh
      /\ spent' = spent \cup {row.refresh} /\ row.refresh \notin spent
  BY RotateEffect DEF Holding, CountInv, CallerSawStale, Rotate
<1>2. Cardinality(spent) + 1 <= expiries
  BY <1>1 DEF CountInv, EachHasItsExpiry
<1>3. IsFiniteSet(spent') /\ Cardinality(spent') = Cardinality(spent) + 1
  BY <1>1, FS_AddElement DEF CountInv, EachHasItsExpiry
<1>4. Cardinality(spent') \in Nat /\ Cardinality(spent') <= expiries
  BY <1>2, <1>3 DEF CountInv, EachHasItsExpiry
<1> QED
  BY <1>1, <1>3, <1>4 DEF EachHasItsExpiry

LEMMA CountNext == IInv /\ CountInv /\ [Next]_vars => CountInv'
<1> SUFFICES ASSUME IInv, CountInv, [Next]_vars PROVE CountInv'
  OBVIOUS
<1> USE DEF teslaVars, loginVars, procVars, faultVars
<1>0. /\ pc \in [Procs -> {"idle", "asked", "locked", "calling", "answered"}]
      /\ row \in [refresh : 0..Len(grantOf), fresh : BOOLEAN] /\ expiries \in Nat
      /\ Len(grantOf) \in Nat /\ spent \subseteq Issued
  BY DEF IInv, TypeOK
\* Steps that leave the row and Tesla alone.
<1>1. ASSUME UNCHANGED <<row, spent, expiries, grantOf>>,
             \A p \in Procs : pc'[p] \in {"calling", "answered"} =>
                                 pc[p] \in {"calling", "answered"} \/ ~row.fresh
      PROVE  CountInv'
  BY <1>1 DEF CountInv, EachHasItsExpiry, CallerSawStale, Issued
\* Steps that store a fresh pair, when nobody else is waiting for Tesla.
<1>2. ASSUME row'.fresh, UNCHANGED <<spent, expiries>>,
             \A p \in Procs : pc'[p] \notin {"calling", "answered"}
      PROVE  CountInv'
  BY <1>2 DEF CountInv, EachHasItsExpiry, CallerSawStale
<1>3. ASSUME NEW p \in Procs, Call(p) \/ Fault(p) PROVE CountInv'
  <2>1. CASE Ask(p) \/ NotConfigured(p) \/ Lock(p) \/ Reuse(p) \/ Send(p)
    BY <1>0, <1>1, <2>1 DEF Ask, NotConfigured, Lock, Reuse, Send, Goto
  <2>2. CASE TeslaRefuses(p)
    BY <1>0, <1>1, <2>2 DEF TeslaRefuses, Goto
  <2>3. CASE Unreachable(p) \/ CommitFails(p) \/ Crash(p)
    BY <1>0, <1>1, <2>3 DEF Unreachable, CommitFails, Crash, Fails
  <2>4. CASE TeslaAnswers(p)
    <3>1. EachHasItsExpiry'
      BY <2>4, RotateCounts DEF TeslaAnswers, Goto
    <3>2. CallerSawStale'
      BY <1>0, <2>4 DEF TeslaAnswers, Goto, CountInv, CallerSawStale
    <3> QED
      BY <3>1, <3>2 DEF CountInv
  <2>5. CASE AnswerLost(p)
    <3>1. EachHasItsExpiry'
      BY <2>5, RotateCounts DEF AnswerLost, Fails
    <3>2. CallerSawStale'
      BY <1>0, <2>5 DEF AnswerLost, Fails, CountInv, CallerSawStale
    <3> QED
      BY <3>1, <3>2 DEF CountInv
  <2>6. CASE Save(p)
    <3>1. \A q \in Procs : Holding(q) => q = p
      BY <2>6, OneHolder DEF Save, Goto, Holding, IInv
    <3>2. \A q \in Procs : pc'[q] \notin {"calling", "answered"}
      BY <1>0, <2>6, <3>1 DEF Save, Goto, Holding
    <3> QED
      BY <1>2, <2>6, <3>2 DEF Save
  <2> QED
    BY <1>3, <2>1, <2>2, <2>3, <2>4, <2>5, <2>6 DEF Call, Fault
<1>4. CASE Exchange
  <2>1. row.refresh \in Issued' => row.refresh \in Issued
    <3>1. row.refresh \in 0..Len(grantOf)
      BY <1>0
    <3> QED
      BY <1>0, <1>4, <3>1 DEF Exchange, Issued, IInv, TypeOK
  <2> QED
    BY <1>4, <2>1 DEF Exchange, CountInv, EachHasItsExpiry, CallerSawStale
<1>5. CASE SaveLogin
  <2>1. \A p \in Procs : pc[p] \notin {"calling", "answered"}
    BY <1>5, TokenAssumption DEF SaveLogin, IInv, TypeOK
  <2> QED
    BY <1>2, <1>5, <2>1 DEF SaveLogin
<1>6. CASE Expire
  <2>1. row.fresh /\ expiries' = expiries + 1 /\ row'.fresh = FALSE /\ UNCHANGED <<spent, pc, grantOf>>
    BY <1>0, <1>6 DEF Expire
  <2>2. EachHasItsExpiry'
    BY <1>0, <2>1 DEF CountInv, EachHasItsExpiry
  <2>3. CallerSawStale'
    BY <2>1 DEF CallerSawStale
  <2> QED
    BY <2>2, <2>3 DEF CountInv
<1>7. CASE UNCHANGED vars
  BY <1>1, <1>7 DEF vars
<1> QED
  BY <1>3, <1>4, <1>5, <1>6, <1>7 DEF Next, Login

\* However many callers find the stored token stale, and whatever fails, each expiry
\* spends one refresh token.
THEOREM OneRotation == Spec => []OneRotationPerExpiry
<1>1. Init => CountInv
  BY CountInit
<1>2. IInv /\ CountInv /\ [Next]_vars => CountInv'
  BY CountNext
<1>3. CountInv => OneRotationPerExpiry
  BY DEF CountInv, EachHasItsExpiry, OneRotationPerExpiry
<1> QED
  BY <1>1, <1>2, <1>3, Invariance, PTL DEF Spec
=============================================================================
