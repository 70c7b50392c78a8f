--------------------------- MODULE WithdrawalProofs ---------------------------
(***************************************************************************)
(* Proofs about Withdrawal for any number of users, rows and overlapping    *)
(* requests: Inv is inductive, a COMPLETED withdrawal was mined, and a      *)
(* settled row is never written again.                                     *)
(***************************************************************************)
EXTENDS Withdrawal, TLAPS

LEMMA IdleRequest == Idle \in Request
BY WithdrawalAssumption DEF Idle, Request, Steps

LEMMA InitOwned == Init => RowsOwned
<1> SUFFICES ASSUME Init PROVE RowsOwned
  OBVIOUS
<1>1. TypeOK
  BY IdleRequest, WithdrawalAssumption DEF Init, TypeOK, Row, NoRow, RowStatus
<1>2. /\ \A r \in Reqs : RequestOK(req[r])
      /\ \A i \in Ids : RowOK(i)
      /\ OwnRow /\ CompletedWasMined
  BY DEF Init, RequestOK, RowOK, OwnRow, CompletedWasMined, Idle, NoRow, Active
<1> QED BY <1>1, <1>2 DEF RowsOwned

\* A step of one request that leaves the rows alone: it stays its row's only owner,
\* and what is mined stays mined.
LEMMA MoveOwned ==
  ASSUME RowsOwned, NEW r \in Reqs, NEW q \in Request,
         req' = [req EXCEPT ![r] = q],
         UNCHANGED row, mined \subseteq mined', mined' \subseteq Ids,
         account' \in [Users -> {"none", "bonusDue", "granted", "lost"}],
         balance' \in [Users \cup {Pool} -> Int],
         mempool' \subseteq Ids, chain' \in Nat,
         RequestOK(q)', q.at \in Active => req[r].at \in Active /\ q.id = req[r].id
  PROVE  RowsOwned'
<1>1. /\ TypeOK /\ (\A o \in Reqs : RequestOK(req[o])) /\ OwnRow
      /\ CompletedWasMined /\ \A i \in Ids : RowOK(i)
  BY DEF RowsOwned
<1>2. /\ req \in [Reqs -> Request] /\ row \in [Ids -> Row] /\ req'[r] = q
      /\ \A o \in Reqs \ {r} : req'[o] = req[o]
  BY <1>1 DEF TypeOK
<1>3. TypeOK'
  BY <1>2 DEF TypeOK
<1>4. \A o \in Reqs : RequestOK(req[o])'
  BY <1>1, <1>2 DEF RequestOK
<1>5. OwnRow'
  BY <1>1, <1>2 DEF OwnRow
<1>6. CompletedWasMined' /\ \A i \in Ids : RowOK(i)'
  BY <1>1 DEF CompletedWasMined, RowOK
<1> QED BY <1>3, <1>4, <1>5, <1>6 DEF RowsOwned

\* A request that writes the row it owns and ends, or goes on to its failure.
LEMMA SettleOwned ==
  ASSUME RowsOwned, NEW r \in Reqs, req[r].at \in {"complete", "fail"}, NEW q \in Request,
         req' = [req EXCEPT ![r] = q], q = Idle \/ (q.at = "fail" /\ q.id = req[r].id),
         NEW status \in {"PENDING", "COMPLETED", "FAILED"},
         row' = [row EXCEPT ![req[r].id].status = status],
         status = "COMPLETED" => req[r].id \in mined,
         q # Idle => status \in {"PENDING", "COMPLETED"},
         UNCHANGED <<account, mempool, mined, chain>>,
         balance' \in [Users \cup {Pool} -> Int]
  PROVE  RowsOwned'
<1>1. /\ TypeOK /\ (\A o \in Reqs : RequestOK(req[o])) /\ OwnRow
      /\ CompletedWasMined /\ \A i \in Ids : RowOK(i)
  BY DEF RowsOwned
<1>2. /\ req \in [Reqs -> Request] /\ row \in [Ids -> Row] /\ req'[r] = q
      /\ \A o \in Reqs \ {r} : req'[o] = req[o]
  BY <1>1 DEF TypeOK
<1> DEFINE i == req[r].id
<1>3. i \in Ids /\ row[i].status # "ABSENT" /\ row[i] \in Row /\ row[i].user \in Users
  BY <1>1, <1>2 DEF RequestOK, Active, RowOK
<1>4. /\ row' \in [Ids -> Row] /\ row'[i].status = status /\ row'[i].user = row[i].user
      /\ \A j \in Ids \ {i} : row'[j] = row[j]
  BY <1>2, <1>3 DEF Row, RowStatus
<1>5. TypeOK'
  BY <1>1, <1>2, <1>4 DEF TypeOK
<1>6. \A o \in Reqs \ {r} : req[o].at \in Active => req[o].id # i
  BY <1>1 DEF OwnRow, Active
<1>7. \A o \in Reqs : RequestOK(req[o])'
  <2> SUFFICES ASSUME NEW o \in Reqs PROVE RequestOK(req[o])'
    OBVIOUS
  <2>1. CASE o = r /\ q = Idle
    BY <1>2, <2>1 DEF RequestOK, Idle, Active
  <2>2. CASE o = r /\ q # Idle
    BY <1>2, <1>3, <1>4, <2>2 DEF RequestOK, Active
  <2>3. CASE o # r
    BY <1>1, <1>2, <1>4, <1>6, <2>3 DEF RequestOK, Active
  <2> QED BY <2>1, <2>2, <2>3
<1>8. OwnRow'
  BY <1>1, <1>2, <1>6 DEF OwnRow, Active, Idle
<1>9. \A j \in Ids : RowOK(j)'
  BY <1>1, <1>3, <1>4 DEF RowOK
<1>10. CompletedWasMined'
  BY <1>1, <1>3, <1>4 DEF CompletedWasMined
<1> QED BY <1>5, <1>7, <1>8, <1>9, <1>10 DEF RowsOwned
-------------------------------------------------------------------------------
LEMMA StepOwned == RowsOwned /\ [Next]_vars => RowsOwned'
<1> SUFFICES ASSUME RowsOwned, [Next]_vars PROVE RowsOwned'
  OBVIOUS
<1> USE WithdrawalAssumption, IdleRequest
<1>0. /\ TypeOK /\ (\A o \in Reqs : RequestOK(req[o])) /\ OwnRow
      /\ CompletedWasMined /\ \A i \in Ids : RowOK(i)
  BY DEF RowsOwned
<1>t. /\ account \in [Users -> {"none", "bonusDue", "granted", "lost"}]
      /\ balance \in [Users \cup {Pool} -> Int]
      /\ row \in [Ids -> Row]
      /\ mempool \subseteq Ids /\ mined \subseteq Ids
      /\ chain \in Nat
      /\ req \in [Reqs -> Request]
  BY <1>0 DEF TypeOK
<1>g. ASSUME NEW r \in Reqs, NEW step \in Steps
      PROVE  \E q \in Request :
                /\ q.at = step /\ q.id = req[r].id /\ q.user = req[r].user
                /\ Goto(r, step) => req' = [req EXCEPT ![r] = q]
  <2> DEFINE q == [req[r] EXCEPT !.at = step, !.tries = 0]
  <2>1. q \in Request /\ q.at = step /\ q.id = req[r].id /\ q.user = req[r].user
    BY <1>t DEF Request
  <2>2. Goto(r, step) => req' = [req EXCEPT ![r] = q]
    BY <1>t DEF Goto
  <2> QED BY <2>1, <2>2
<1>quiet. ASSUME NEW r \in Reqs, NEW q \in Request, req' = [req EXCEPT ![r] = q],
                 UNCHANGED <<account, balance, row, mempool, mined, chain>>,
                 RequestOK(q)', q.at \in Active => req[r].at \in Active /\ q.id = req[r].id
          PROVE  RowsOwned'
  BY <1>quiet, <1>t, MoveOwned
<1>done. ASSUME NEW r \in Reqs, Done(r), UNCHANGED <<account, balance, row, mempool, mined, chain>>
         PROVE  RowsOwned'
  <2>1. RequestOK(Idle)' /\ Idle.at \notin Active
    BY DEF RequestOK, Idle, Active
  <2> QED BY <1>done, <2>1, <1>quiet DEF Done
<1>1. ASSUME NEW u \in Users, Signup(u) PROVE RowsOwned'
  <2>1. account' \in [Users -> {"none", "bonusDue", "granted", "lost"}]
    BY <1>1, <1>t DEF Signup, Register, GrantSignupBonus, SignupBonusLost
  <2>2. balance' \in [Users \cup {Pool} -> Int]
    BY <1>1, <1>t DEF Signup, Register, GrantSignupBonus, SignupBonusLost
  <2>3. UNCHANGED <<row, mempool, mined, chain, req>>
    BY <1>1 DEF Signup, Register, GrantSignupBonus, SignupBonusLost
  <2> QED BY <1>0, <1>t, <2>1, <2>2, <2>3
          DEF RowsOwned, TypeOK, RequestOK, RowOK, OwnRow, CompletedWasMined
<1>2. ASSUME NEW r \in Reqs, NEW u \in Users, Withdraw(r, u) PROVE RowsOwned'
  <2>1. PICK a \in Amounts :
           req' = [req EXCEPT ![r] = [Idle EXCEPT !.at = "check", !.user = u, !.amount = a]]
    BY <1>2 DEF Withdraw
  <2> DEFINE q == [Idle EXCEPT !.at = "check", !.user = u, !.amount = a]
  <2>2. /\ q \in Request /\ q.at = "check" /\ q.user = u /\ q.id = NoId
        /\ req' = [req EXCEPT ![r] = q]
    BY <2>1 DEF Request, Steps, Idle
  <2> HIDE DEF q
  <2>3. RequestOK(q)' /\ q.at \notin Active
    BY <2>2 DEF RequestOK, Active
  <2> QED BY <1>2, <2>2, <2>3, <1>quiet DEF Withdraw
<1>3. ASSUME NEW r \in Reqs, CheckBalance(r) PROVE RowsOwned'
  <2>1. CASE Done(r)
    BY <1>3, <2>1, <1>done DEF CheckBalance
  <2>2. CASE req' = [req EXCEPT ![r].at = "reserve"]
    <3>0. [req[r] EXCEPT !.at = "reserve"] \in Request
      BY <1>t DEF Request, Steps
    <3>1. PICK q \in Request : /\ q.at = "reserve" /\ q.user = req[r].user /\ q.id = req[r].id
                              /\ req' = [req EXCEPT ![r] = q]
      BY <3>0, <1>t, <2>2 DEF Request, Steps
    <3>2. RequestOK(q)' /\ q.at \notin Active
      BY <1>0, <1>3, <3>1 DEF CheckBalance, RequestOK, Active
    <3> QED BY <1>3, <3>1, <3>2, <1>quiet DEF CheckBalance
  <2> QED BY <1>3, <2>1, <2>2 DEF CheckBalance
\* The new row is nobody else's: the others' rows are present, this one was absent.
<1>4. ASSUME NEW r \in Reqs, NEW i \in Ids, Reserve(r, i) PROVE RowsOwned'
  <2> DEFINE new == [status |-> "PENDING", user |-> req[r].user, amount |-> req[r].amount]
             q == [req[r] EXCEPT !.at = "send", !.id = i, !.tries = 0]
  <2>1. /\ req[r] \in Request /\ req[r].at = "reserve" /\ row[i].status = "ABSENT"
        /\ req[r].user \in Users /\ req[r].amount \in Nat
    BY <1>4, <1>0, <1>t DEF Reserve, RequestOK, Request
  <2>2. new \in Row /\ new.status = "PENDING" /\ new.user \in Users
    BY <2>1 DEF Row, RowStatus
  <2>3. q \in Request /\ q.at = "send" /\ q.id = i /\ req' = [req EXCEPT ![r] = q]
    BY <1>4, <1>t, <2>1 DEF Reserve, Request, Steps
  <2>4. row' = [row EXCEPT ![i] = new] /\ UNCHANGED <<account, mempool, mined, chain>>
    BY <1>4 DEF Reserve
  <2>5. balance' \in [Users \cup {Pool} -> Int]
    BY <1>4, <1>t, <2>1 DEF Reserve
  <2> HIDE DEF new, q
  <2>6. /\ row' \in [Ids -> Row] /\ row'[i] = new /\ \A j \in Ids \ {i} : row'[j] = row[j]
        /\ req' \in [Reqs -> Request] /\ req'[r] = q /\ \A o \in Reqs \ {r} : req'[o] = req[o]
    BY <1>t, <2>2, <2>3, <2>4
  <2>7. TypeOK'
    BY <1>t, <2>4, <2>5, <2>6 DEF TypeOK
  <2>8. \A o \in Reqs \ {r} : req[o].at \in Active => req[o].id \in Ids \ {i}
    BY <1>0, <2>1 DEF RequestOK, Active
  <2>9. \A o \in Reqs : RequestOK(req[o])'
    <3> SUFFICES ASSUME NEW o \in Reqs PROVE RequestOK(req[o])'
      OBVIOUS
    <3>1. CASE o = r
      BY <2>2, <2>3, <2>6, <3>1 DEF RequestOK, Active
    <3>2. CASE o # r
      BY <1>0, <2>4, <2>6, <2>8, <3>2 DEF RequestOK, Active
    <3> QED BY <3>1, <3>2
  <2>10. OwnRow'
    BY <1>0, <2>3, <2>6, <2>8 DEF OwnRow
  <2>11. \A j \in Ids : RowOK(j)'
    BY <1>0, <2>2, <2>6 DEF RowOK
  <2>12. CompletedWasMined'
    BY <1>0, <2>2, <2>4, <2>6 DEF CompletedWasMined
  <2> QED BY <2>7, <2>9, <2>10, <2>11, <2>12 DEF RowsOwned
<1>5. ASSUME NEW r \in Reqs, ReserveAborts(r) PROVE RowsOwned'
  <2>1. CASE Done(r)
    BY <1>5, <2>1, <1>done DEF ReserveAborts
  <2>2. CASE req' = [req EXCEPT ![r].at = "check", ![r].tries = @ + 1]
    <3>t. req[r] \in Request /\ req[r].tries \in Nat /\ req[r].tries + 1 \in Nat
      BY <1>t DEF Request
    <3>0. [req[r] EXCEPT !.at = "check", !.tries = @ + 1] \in Request
      BY <3>t DEF Request, Steps
    <3>1. PICK q \in Request : /\ q.at = "check" /\ q.user = req[r].user /\ q.id = req[r].id
                              /\ req' = [req EXCEPT ![r] = q]
      BY <3>0, <1>t, <2>2 DEF Request, Steps
    <3>2. RequestOK(q)' /\ q.at \notin Active
      BY <1>0, <1>5, <3>1 DEF ReserveAborts, RequestOK, Active
    <3> QED BY <1>5, <3>1, <3>2, <1>quiet DEF ReserveAborts
  <2> QED BY <1>5, <2>1, <2>2 DEF ReserveAborts
<1>6. ASSUME NEW r \in Reqs, SendTransfer(r) PROVE RowsOwned'
  <2>1. PICK step \in {"wait", "fail"} : Goto(r, step)
    BY <1>6 DEF SendTransfer
  <2>s. step \in Steps
    BY DEF Steps
  <2>2. PICK q \in Request : q.at = step /\ q.id = req[r].id /\ req' = [req EXCEPT ![r] = q]
    BY <1>g, <2>1, <2>s
  <2>3. req[r].at = "send" /\ req[r].id \in Ids /\ row[req[r].id].status = "PENDING"
    BY <1>6, <1>0 DEF SendTransfer, RequestOK, Active
  <2>4. RequestOK(q)'
    BY <1>6, <2>2, <2>3 DEF SendTransfer, RequestOK, Active
  <2>5. mempool' \subseteq Ids
    BY <1>6, <1>t, <2>3 DEF SendTransfer
  <2> QED BY <1>6, <1>t, <2>2, <2>3, <2>4, <2>5, MoveOwned DEF SendTransfer, Active
<1>7. ASSUME NEW r \in Reqs, AwaitReceipt(r) PROVE RowsOwned'
  <2>1. PICK step \in {"complete", "fail"} :
           Goto(r, step) /\ (step = "complete" => req[r].id \in mined)
    BY <1>7 DEF AwaitReceipt
  <2>s. step \in Steps
    BY DEF Steps
  <2>2. PICK q \in Request : q.at = step /\ q.id = req[r].id /\ req' = [req EXCEPT ![r] = q]
    BY <1>g, <2>1, <2>s
  <2>3. req[r].at = "wait" /\ req[r].id \in Ids /\ row[req[r].id].status = "PENDING"
    BY <1>7, <1>0 DEF AwaitReceipt, RequestOK, Active
  <2>4. RequestOK(q)'
    BY <1>7, <2>1, <2>2, <2>3 DEF AwaitReceipt, RequestOK, Active
  <2> QED BY <1>7, <2>2, <2>3, <2>4, <1>quiet DEF AwaitReceipt, Active
<1>8. ASSUME NEW r \in Reqs, CompleteWithdrawal(r) PROVE RowsOwned'
  <2>1. /\ req[r].at = "complete" /\ req[r].id \in Ids /\ row[req[r].id].status = "PENDING"
        /\ req[r].id \in mined
    BY <1>8, <1>0 DEF CompleteWithdrawal, RequestOK, Active
  <2>2. row = [row EXCEPT ![req[r].id].status = "PENDING"]
    BY <1>t, <2>1 DEF Row
  <2>3. PICK status \in {"PENDING", "COMPLETED"} :
           row' = [row EXCEPT ![req[r].id].status = status]
    BY <1>8, <2>2 DEF CompleteWithdrawal
  <2>4. balance' \in [Users \cup {Pool} -> Int] /\ UNCHANGED <<account, mempool, mined, chain>>
    BY <1>8, <1>t DEF CompleteWithdrawal
  <2>5. CASE Done(r)
    BY <2>1, <2>3, <2>4, <2>5, SettleOwned DEF Done
  <2>6. CASE Goto(r, "fail")
    <3>s. "fail" \in Steps
      BY DEF Steps
    <3>1. PICK q \in Request : q.at = "fail" /\ q.id = req[r].id /\ req' = [req EXCEPT ![r] = q]
      BY <1>g, <2>6, <3>s
    <3> QED BY <2>1, <2>3, <2>4, <3>1, SettleOwned
  <2> QED BY <1>8, <2>5, <2>6 DEF CompleteWithdrawal
<1>9. ASSUME NEW r \in Reqs, FailWithdrawal(r) PROVE RowsOwned'
  <2>1. /\ req[r].at = "fail" /\ req[r].id \in Ids /\ row[req[r].id] \in Row
        /\ row[req[r].id].user \in Users /\ row[req[r].id].amount \in Nat
    BY <1>9, <1>0, <1>t DEF FailWithdrawal, RequestOK, RowOK, Active, Row
  <2>2. CASE row[req[r].id].status = "PENDING"
    <3>1. balance' \in [Users \cup {Pool} -> Int]
      BY <1>9, <1>t, <2>1, <2>2 DEF FailWithdrawal, Refunded
    <3> QED BY <1>9, <2>1, <2>2, <3>1, SettleOwned DEF FailWithdrawal, Done
  <2>3. CASE row[req[r].id].status # "PENDING"
    BY <1>9, <2>3, <1>done DEF FailWithdrawal
  <2> QED BY <2>2, <2>3
<1>10. ASSUME NEW r \in Reqs, FailAborts(r) PROVE RowsOwned'
  <2>1. CASE Done(r)
    BY <1>10, <2>1, <1>done DEF FailAborts
  <2>2. CASE req' = [req EXCEPT ![r].tries = @ + 1]
    <3>0. [req[r] EXCEPT !.tries = @ + 1] \in Request
      BY <1>t DEF Request
    <3>1. PICK q \in Request : /\ q.at = req[r].at /\ q.user = req[r].user /\ q.id = req[r].id
                              /\ req' = [req EXCEPT ![r] = q]
      BY <3>0, <1>t, <2>2 DEF Request
    <3>2. RequestOK(q)'
      BY <1>0, <1>10, <3>1 DEF FailAborts, RequestOK
    <3> QED BY <1>10, <3>1, <3>2, <1>quiet DEF FailAborts
  <2> QED BY <1>10, <2>1, <2>2 DEF FailAborts
<1>11. ASSUME NEW i \in Ids, Mine(i) \/ Drop(i) PROVE RowsOwned'
  <2>1. /\ mempool' \subseteq Ids /\ mined' \subseteq Ids /\ mined \subseteq mined'
        /\ UNCHANGED <<account, balance, row, req>>
    BY <1>11, <1>t DEF Mine, Drop
  <2>2. chain' \in Nat
    <3>1. row[i].amount \in Nat
      BY <1>t DEF Row
    <3> QED BY <1>11, <1>t, <3>1 DEF Mine, Drop
  <2> QED BY <1>0, <1>t, <2>1, <2>2
          DEF RowsOwned, TypeOK, RequestOK, RowOK, OwnRow, CompletedWasMined
<1>12. CASE Crash
  <2>1. /\ account' \in [Users -> {"none", "bonusDue", "granted", "lost"}]
        /\ req' = [r \in Reqs |-> Idle] /\ UNCHANGED <<balance, row, mempool, mined, chain>>
    BY <1>12, <1>t DEF Crash
  <2>2. TypeOK' /\ CompletedWasMined' /\ \A i \in Ids : RowOK(i)'
    BY <1>0, <1>t, <2>1 DEF TypeOK, CompletedWasMined, RowOK
  <2>3. OwnRow' /\ \A r \in Reqs : RequestOK(req[r])'
    BY <2>1 DEF OwnRow, RequestOK, Idle, Active
  <2> QED BY <2>2, <2>3 DEF RowsOwned
<1>13. CASE UNCHANGED vars
  BY <1>0, <1>13 DEF vars, RowsOwned, TypeOK, RequestOK, RowOK, OwnRow, CompletedWasMined
<1> QED
  BY <1>1, <1>2, <1>3, <1>4, <1>5, <1>6, <1>7, <1>8, <1>9, <1>10, <1>11, <1>12, <1>13
     DEF Next, Step
-------------------------------------------------------------------------------
(***************************************************************************)
(* SentOnce, step by step: what is sent is a row its request has just       *)
(* written, and no step after that gives the request back its "send".      *)
(***************************************************************************)
LEMMA InitSent == Init => SentOnce
BY DEF Init, SentOnce, Idle

\* A step of request r that sends nothing and removes no row, and does not begin to send.
LEMMA QuietSent ==
  ASSUME Inv, NEW r \in Reqs, NEW q, req' = [req EXCEPT ![r] = q],
         UNCHANGED <<mempool, mined>>,
         \A i \in Ids : row[i].status # "ABSENT" => row'[i].status # "ABSENT",
         q.at # "send", q.at \in {"check", "reserve"} => q.amount \in Amounts
  PROVE  SentOnce'
<1>1. /\ req \in [Reqs -> Request] /\ mempool \cup mined \subseteq Ids
      /\ req'[r] = q /\ \A o \in Reqs \ {r} : req'[o] = req[o]
  BY DEF Inv, RowsOwned, TypeOK
<1> QED BY <1>1 DEF Inv, SentOnce

LEMMA StepSent == Inv /\ [Next]_vars => SentOnce'
<1> SUFFICES ASSUME Inv, [Next]_vars PROVE SentOnce'
  OBVIOUS
<1>t. /\ req \in [Reqs -> Request] /\ row \in [Ids -> Row]
      /\ mempool \subseteq Ids /\ mined \subseteq Ids
  BY DEF Inv, RowsOwned, TypeOK
<1>i. SentOnce /\ (\A r \in Reqs : RequestOK(req[r])) /\ OwnRow
  BY DEF Inv, RowsOwned
<1>q. ASSUME NEW r \in Reqs, NEW q \in Request, req' = [req EXCEPT ![r] = q],
             UNCHANGED <<row, mempool, mined>>, q.at # "send",
             q.at \in {"check", "reserve"} => q.amount \in Amounts
      PROVE  SentOnce'
  BY <1>q, QuietSent
<1>done. ASSUME NEW r \in Reqs, Done(r), UNCHANGED <<row, mempool, mined>> PROVE SentOnce'
  BY <1>done, <1>q, IdleRequest DEF Done, Idle
<1>1. ASSUME NEW u \in Users, Signup(u) PROVE SentOnce'
  BY <1>1, <1>i DEF Signup, Register, GrantSignupBonus, SignupBonusLost, SentOnce
<1>2. ASSUME NEW r \in Reqs, NEW u \in Users, Withdraw(r, u) PROVE SentOnce'
  <2>1. PICK a \in Amounts :
           req' = [req EXCEPT ![r] = [Idle EXCEPT !.at = "check", !.user = u, !.amount = a]]
    BY <1>2 DEF Withdraw
  <2>2. LET q == [Idle EXCEPT !.at = "check", !.user = u, !.amount = a]
        IN  q \in Request /\ q.at = "check" /\ q.amount = a
    BY WithdrawalAssumption DEF Request, Steps, Idle
  <2> QED BY <1>2, <2>1, <2>2, <1>q DEF Withdraw
<1>3. ASSUME NEW r \in Reqs, CheckBalance(r) \/ ReserveAborts(r) PROVE SentOnce'
  <2>0. req[r] \in Request /\ req[r].amount \in Amounts
    BY <1>3, <1>t, <1>i DEF CheckBalance, ReserveAborts, SentOnce
  <2>1. CASE Done(r)
    BY <1>3, <2>1, <1>done DEF CheckBalance, ReserveAborts
  <2>2. CASE req' = [req EXCEPT ![r].at = "reserve"]
    <3> DEFINE q == [req[r] EXCEPT !.at = "reserve"]
    <3>1. q \in Request /\ q.at = "reserve" /\ q.amount = req[r].amount
      BY <2>0 DEF Request, Steps
    <3>2. req' = [req EXCEPT ![r] = q]
      BY <2>2, <1>t
    <3> QED BY <1>3, <2>0, <3>1, <3>2, <1>q DEF CheckBalance, ReserveAborts
  <2>3. CASE req' = [req EXCEPT ![r].at = "check", ![r].tries = @ + 1]
    <3> DEFINE q == [req[r] EXCEPT !.at = "check", !.tries = @ + 1]
    <3>0. req[r].tries + 1 \in Nat
      BY <2>0 DEF Request
    <3>1. q \in Request /\ q.at = "check" /\ q.amount = req[r].amount
      BY <2>0, <3>0 DEF Request, Steps
    <3>2. req' = [req EXCEPT ![r] = q]
      BY <2>3, <1>t
    <3> QED BY <1>3, <2>0, <3>1, <3>2, <1>q DEF CheckBalance, ReserveAborts
  <2> QED BY <1>3, <2>1, <2>2, <2>3 DEF CheckBalance, ReserveAborts
\* The row was absent, so nobody has sent it.
<1>4. ASSUME NEW r \in Reqs, NEW i \in Ids, Reserve(r, i) PROVE SentOnce'
  <2>1. /\ req' \in [Reqs -> Request] /\ req'[r].at = "send" /\ req'[r].id = i
        /\ \A o \in Reqs \ {r} : req'[o] = req[o]
    <3>1. req[r] \in Request
      BY <1>t
    <3>2. [req[r] EXCEPT !.at = "send", !.id = i, !.tries = 0] \in Request
      BY <3>1 DEF Request, Steps
    <3> QED BY <1>4, <1>t, <3>2 DEF Reserve
  <2>2. i \notin mempool \cup mined /\ UNCHANGED <<mempool, mined>>
    BY <1>4, <1>i DEF Reserve, SentOnce
  <2>3. \A j \in Ids : row[j].status # "ABSENT" => row'[j].status # "ABSENT"
    BY <1>4, <1>t DEF Reserve
  <2> QED BY <1>i, <1>t, <2>1, <2>2, <2>3 DEF SentOnce
\* Nobody else has the row.
<1>5. ASSUME NEW r \in Reqs, SendTransfer(r) PROVE SentOnce'
  <2>1. PICK step \in {"wait", "fail"} : Goto(r, step)
    BY <1>5 DEF SendTransfer
  <2>2. /\ req[r].at = "send" /\ req[r].id \in Ids \ (mempool \cup mined)
        /\ row[req[r].id].status = "PENDING" /\ UNCHANGED <<row, mined>>
        /\ mempool' \subseteq mempool \cup {req[r].id}
    BY <1>5, <1>i DEF SendTransfer, SentOnce, RequestOK, Active
  <2>3. req'[r].at = step /\ \A o \in Reqs \ {r} : req'[o] = req[o]
    BY <1>t, <2>1 DEF Goto, Request
  <2>4. \A o \in Reqs \ {r} : req[o].at = "send" => req[o].id # req[r].id
    BY <1>i, <2>2 DEF OwnRow, Active
  <2> QED BY <1>i, <1>t, <2>2, <2>3, <2>4 DEF SentOnce
<1>6. ASSUME NEW r \in Reqs, AwaitReceipt(r) PROVE SentOnce'
  <2>1. PICK step \in {"complete", "fail"} : Goto(r, step)
    BY <1>6 DEF AwaitReceipt
  <2> DEFINE q == [req[r] EXCEPT !.at = step, !.tries = 0]
  <2>2. q \in Request /\ q.at = step
    BY <1>t DEF Request, Steps
  <2>3. req' = [req EXCEPT ![r] = q]
    BY <2>1, <1>t DEF Goto
  <2> QED BY <1>6, <2>2, <2>3, <1>q DEF AwaitReceipt
<1>7. ASSUME NEW r \in Reqs, CompleteWithdrawal(r) \/ FailWithdrawal(r) \/ FailAborts(r)
      PROVE  SentOnce'
  <2>1. /\ UNCHANGED <<mempool, mined>>
        /\ \A i \in Ids : row[i].status # "ABSENT" => row'[i].status # "ABSENT"
    BY <1>7, <1>t DEF CompleteWithdrawal, FailWithdrawal, FailAborts, Row
  <2>2. CASE Done(r)
    <3>1. Idle.at = "idle"
      BY DEF Idle
    <3> QED BY <2>1, <2>2, <3>1, QuietSent DEF Done
  <2>3. CASE Goto(r, "fail")
    <3> DEFINE q == [req[r] EXCEPT !.at = "fail", !.tries = 0]
    <3>1. q.at = "fail" /\ req' = [req EXCEPT ![r] = q]
      BY <2>3, <1>t DEF Goto, Request
    <3> QED BY <2>1, <3>1, QuietSent
  <2>4. CASE req[r].at = "fail" /\ req' = [req EXCEPT ![r].tries = @ + 1]
    <3> DEFINE q == [req[r] EXCEPT !.tries = @ + 1]
    <3>1. q.at = "fail" /\ req' = [req EXCEPT ![r] = q]
      BY <2>4, <1>t DEF Request
    <3> QED BY <2>1, <3>1, QuietSent
  <2> QED BY <1>7, <2>2, <2>3, <2>4 DEF CompleteWithdrawal, FailWithdrawal, FailAborts
<1>8. ASSUME NEW i \in Ids, Mine(i) \/ Drop(i) PROVE SentOnce'
  BY <1>8, <1>i DEF Mine, Drop, SentOnce
<1>9. CASE Crash
  <2>1. UNCHANGED <<row, mempool, mined>> /\ \A r \in Reqs : req'[r].at = "idle"
    BY <1>9 DEF Crash, Idle
  <2> QED BY <1>i, <2>1 DEF SentOnce
<1>10. CASE UNCHANGED vars
  BY <1>10, <1>i DEF vars, SentOnce
<1> QED BY <1>1, <1>2, <1>3, <1>4, <1>5, <1>6, <1>7, <1>8, <1>9, <1>10 DEF Next, Step

\* Inv is an invariant of the withdrawals.
THEOREM Invariance == Spec => []Inv
<1>1. Init => Inv
  BY InitOwned, InitSent DEF Inv
<1>2. Inv /\ [Next]_vars => Inv'
  BY StepOwned, StepSent DEF Inv
<1> QED BY <1>1, <1>2, PTL DEF Spec

\* A COMPLETED row's transfer was mined, whatever overlapped, failed or crashed.
THEOREM CompletedOnChain == Spec => []CompletedWasMined
<1>1. Inv => CompletedWasMined
  BY DEF Inv, RowsOwned
<1> QED BY <1>1, Invariance, PTL

\* A row is settled once: a refund is never undone and never follows a completion.
THEOREM SettledForGood == Spec => SettledIsFinal
<1> DEFINE A == \A i \in Ids : row[i].status \in {"COMPLETED", "FAILED"} => row'[i] = row[i]
<1>1. Inv /\ [Next]_vars => [A]_vars
  <2> SUFFICES ASSUME Inv, Next, NEW i \in Ids, row[i].status \in {"COMPLETED", "FAILED"}
               PROVE  row'[i] = row[i]
    OBVIOUS
  <2>t. row \in [Ids -> Row]
    BY DEF Inv, RowsOwned, TypeOK
  <2>1. ASSUME NEW r \in Reqs, NEW j \in Ids, Reserve(r, j) PROVE row'[i] = row[i]
    BY <2>1, <2>t DEF Reserve
  <2>2. ASSUME NEW r \in Reqs, CompleteWithdrawal(r) PROVE row'[i] = row[i]
    <3>1. row[req[r].id].status = "PENDING" /\ req[r].id \in Ids
      BY <2>2 DEF CompleteWithdrawal, Inv, RowsOwned, RequestOK, Active
    <3> QED BY <2>2, <2>t, <3>1 DEF CompleteWithdrawal
  <2>3. ASSUME NEW r \in Reqs, FailWithdrawal(r) PROVE row'[i] = row[i]
    BY <2>3, <2>t DEF FailWithdrawal
  <2> QED BY <2>1, <2>2, <2>3 DEF Next, Step, Signup, Register, GrantSignupBonus,
          SignupBonusLost, Withdraw, CheckBalance, ReserveAborts, SendTransfer, AwaitReceipt,
          FailAborts, Mine, Drop, Crash
<1> QED BY <1>1, Invariance, PTL DEF Spec, SettledIsFinal
-------------------------------------------------------------------------------
(***************************************************************************)
(* The refinement.  Registering, checking, failing attempts, the mempool    *)
(* and crashes are stutters of HoldLedger; the grant, the reservation, the  *)
(* mining, the completion and the refund are its steps.                     *)
(***************************************************************************)
LEMMA Stutters ==
  UNCHANGED <<balance, row, mined, chain>> /\ UNCHANGED GrantedBar => UNCHANGED Ledger!vars
BY DEF Ledger!vars, HeldBar, HoldOf

\* The initial states are initial states of the ledger.
LEMMA InitLedger == Init => Ledger!Init
<1> SUFFICES ASSUME Init PROVE Ledger!Init
  OBVIOUS
<1>1. \A o \in Users : balance[o] = 0
  BY WithdrawalAssumption DEF Init
<1>2. GrantedBar = {} /\ mined = {}
  BY DEF Init, GrantedBar
<1>3. HeldBar = [i \in Ids |-> Ledger!Nothing]
  BY DEF Init, HeldBar, HoldOf, NoRow, Ledger!Nothing
<1> QED BY <1>1, <1>2, <1>3 DEF Ledger!Init

\* Writing the row i is changing the hold i.
LEMMA OneHold ==
  ASSUME NEW i \in Ids, row \in [Ids -> Row], NEW new \in Row, row' = [row EXCEPT ![i] = new]
  PROVE  HeldBar' = [HeldBar EXCEPT ![i] = HoldOf(i)']
BY DEF HeldBar, HoldOf

\* Every step of the withdrawals is a step of the ledger or leaves it alone.
LEMMA StepLedger == Inv /\ [Next]_vars => [Ledger!Next]_Ledger!vars
<1> SUFFICES ASSUME Inv, [Next]_vars PROVE [Ledger!Next]_Ledger!vars
  OBVIOUS
<1> USE WithdrawalAssumption
<1>t. /\ account \in [Users -> {"none", "bonusDue", "granted", "lost"}]
      /\ balance \in [Users \cup {Pool} -> Int] /\ row \in [Ids -> Row]
      /\ mempool \subseteq Ids /\ mined \subseteq Ids /\ chain \in Nat
      /\ req \in [Reqs -> Request]
  BY DEF Inv, RowsOwned, TypeOK
<1>i. /\ SentOnce /\ (\A r \in Reqs : RequestOK(req[r])) /\ \A i \in Ids : RowOK(i)
  BY DEF Inv, RowsOwned
<1>1. ASSUME NEW u \in Users, Signup(u) PROVE [Ledger!Next]_Ledger!vars
  <2>1. CASE Register(u) \/ SignupBonusLost(u)
    <3>1. UNCHANGED GrantedBar /\ UNCHANGED <<balance, row, mined, chain>>
      BY <2>1, <1>t DEF Register, SignupBonusLost, GrantedBar
    <3> QED BY <3>1, Stutters
  <2>2. CASE GrantSignupBonus(u)
    <3>1. u \notin GrantedBar /\ GrantedBar' = GrantedBar \cup {u}
      BY <2>2, <1>t DEF GrantSignupBonus, GrantedBar
    <3>2. HeldBar' = HeldBar /\ chain' = chain /\ mined' = mined
      BY <2>2 DEF GrantSignupBonus, HeldBar, HoldOf
    <3>3. Ledger!GrantTo(u)
      BY <2>2, <3>1, <3>2 DEF GrantSignupBonus, Ledger!GrantTo
    <3> QED BY <3>3 DEF Ledger!Next
  <2> QED BY <1>1, <2>1, <2>2 DEF Signup
<1>2. ASSUME NEW r \in Reqs, NEW i \in Ids, Reserve(r, i) PROVE [Ledger!Next]_Ledger!vars
  <2>1. /\ req[r].user \in Users /\ req[r].amount \in Amounts /\ req[r].amount \in Nat
        /\ row[i].status = "ABSENT"
    BY <1>2, <1>t, <1>i DEF Reserve, RequestOK, SentOnce, Request
  <2> DEFINE new == [status |-> "PENDING", user |-> req[r].user, amount |-> req[r].amount]
  <2>2. new \in Row /\ row' = [row EXCEPT ![i] = new] /\ row'[i] = new
    BY <1>2, <1>t, <2>1 DEF Reserve, Row, RowStatus
  <2>3. HoldOf(i)' = [state |-> "held", owner |-> req[r].user, amount |-> req[r].amount]
    BY <2>2 DEF HoldOf, Settlement
  <2>4. /\ HeldBar[i] = Ledger!Nothing
        /\ HeldBar' = [HeldBar EXCEPT ![i] = [state |-> "held", owner |-> req[r].user,
                                              amount |-> req[r].amount]]
    <3>1. HeldBar[i] = Ledger!Nothing
      BY <2>1 DEF HeldBar, HoldOf, Ledger!Nothing
    <3> QED BY <3>1, <1>t, <2>2, <2>3, OneHold
  <2>5. Ledger!Take(i, req[r].user, req[r].amount)
    BY <1>2, <2>4 DEF Reserve, Ledger!Take, GrantedBar
  <2> QED BY <2>1, <2>5 DEF Ledger!Next
<1>3. ASSUME NEW r \in Reqs, CompleteWithdrawal(r) PROVE [Ledger!Next]_Ledger!vars
  <2>0. PICK i \in Ids : i = req[r].id
    BY <1>3, <1>i DEF CompleteWithdrawal, RequestOK, Active
  <2>1. i \in mined /\ row[i] \in Row /\ row[i].status = "PENDING"
    BY <1>3, <1>t, <1>i, <2>0 DEF CompleteWithdrawal, RequestOK, Active
  <2>2. UNCHANGED <<account, balance, mined, chain>>
    BY <1>3 DEF CompleteWithdrawal
  <2>3. CASE row' = row
    BY <2>2, <2>3, Stutters DEF GrantedBar
  <2>4. CASE row' = [row EXCEPT ![i].status = "COMPLETED"]
    <3> DEFINE new == [row[i] EXCEPT !.status = "COMPLETED"]
    <3>1. /\ new \in Row /\ new.status = "COMPLETED" /\ new.user = row[i].user
          /\ new.amount = row[i].amount
      BY <2>1 DEF Row, RowStatus
    <3>2. row' = [row EXCEPT ![i] = new] /\ row'[i] = new
      BY <2>1, <2>4, <1>t
    <3> HIDE DEF new
    <3>3. HeldBar[i] = [state |-> "held", owner |-> row[i].user, amount |-> row[i].amount]
      BY <2>1 DEF HeldBar, HoldOf, Settlement
    <3>h. HoldOf(i)' = [state |-> "paid", owner |-> row[i].user, amount |-> row[i].amount]
      BY <3>1, <3>2 DEF HoldOf, Settlement
    <3>4. HoldOf(i)' = [HeldBar[i] EXCEPT !.state = "paid"]
      BY <3>3, <3>h
    <3>5. HeldBar' = [HeldBar EXCEPT ![i].state = "paid"]
      <4>1. HeldBar' = [HeldBar EXCEPT ![i] = HoldOf(i)']
        BY <1>t, <2>1, <3>1, <3>2, OneHold
      <4> QED BY <3>4, <4>1
    <3>6. Ledger!Pay(i)
      BY <2>1, <2>2, <3>3, <3>5 DEF Ledger!Pay, GrantedBar
    <3> QED BY <2>1, <3>6 DEF Ledger!Next
  <2> QED BY <1>3, <2>0, <2>3, <2>4 DEF CompleteWithdrawal
<1>4. ASSUME NEW r \in Reqs, FailWithdrawal(r) PROVE [Ledger!Next]_Ledger!vars
  <2>0. PICK i \in Ids : i = req[r].id
    BY <1>4, <1>i DEF FailWithdrawal, RequestOK, Active
  <2>1. row[i] \in Row /\ UNCHANGED <<account, mined, chain>>
    BY <1>4, <1>t DEF FailWithdrawal
  <2>2. CASE row[i].status # "PENDING"
    BY <1>4, <2>0, <2>1, <2>2, Stutters DEF FailWithdrawal, GrantedBar
  <2>3. CASE row[i].status = "PENDING"
    <3> DEFINE new == [row[i] EXCEPT !.status = "FAILED"]
    <3>1. /\ new \in Row /\ new.status = "FAILED" /\ new.user = row[i].user
          /\ new.amount = row[i].amount
      BY <2>1 DEF Row, RowStatus
    <3>2. row' = [row EXCEPT ![i] = new] /\ row'[i] = new
      BY <1>4, <2>0, <2>1, <2>3, <1>t DEF FailWithdrawal
    <3> HIDE DEF new
    <3>3. HeldBar[i] = [state |-> "held", owner |-> row[i].user, amount |-> row[i].amount]
      BY <2>1, <2>3 DEF HeldBar, HoldOf, Settlement
    <3>h. HoldOf(i)' = [state |-> "returned", owner |-> row[i].user, amount |-> row[i].amount]
      BY <3>1, <3>2 DEF HoldOf, Settlement
    <3>4. HoldOf(i)' = [HeldBar[i] EXCEPT !.state = "returned"]
      BY <3>3, <3>h
    <3>5. HeldBar' = [HeldBar EXCEPT ![i].state = "returned"]
      <4>1. HeldBar' = [HeldBar EXCEPT ![i] = HoldOf(i)']
        BY <1>t, <2>1, <3>1, <3>2, OneHold
      <4> QED BY <3>4, <4>1
    <3>6. balance' = [balance EXCEPT ![HeldBar[i].owner] = @ + HeldBar[i].amount,
                                     ![Pool] = @ - HeldBar[i].amount]
      BY <1>4, <2>0, <2>3, <3>3 DEF FailWithdrawal, Refunded
    <3>7. Ledger!Return(i)
      BY <2>1, <3>3, <3>5, <3>6 DEF Ledger!Return, GrantedBar
    <3> QED BY <2>1, <3>7 DEF Ledger!Next
  <2> QED BY <2>2, <2>3
<1>5. ASSUME NEW i \in Ids, Mine(i) PROVE [Ledger!Next]_Ledger!vars
  <2>1. i \notin mined /\ row[i].status # "ABSENT" /\ row[i] \in Row
    BY <1>5, <1>t, <1>i DEF Mine, SentOnce
  <2>2. HeldBar[i] # Ledger!Nothing /\ HeldBar[i].amount = row[i].amount
    BY <2>1 DEF HeldBar, HoldOf, Row, RowStatus, Settlement, Ledger!Nothing
  <2>3. Ledger!SendOff(i)
    BY <1>5, <2>1, <2>2 DEF Mine, Ledger!SendOff, GrantedBar, HeldBar, HoldOf
  <2> QED BY <2>3 DEF Ledger!Next
<1>6. CASE Crash
  <2>1. GrantedBar' = GrantedBar
    BY <1>6, <1>t DEF Crash, GrantedBar
  <2> QED BY <1>6, <2>1, Stutters DEF Crash
<1>7. ASSUME UNCHANGED <<account, balance, row, mined, chain>>
      PROVE  [Ledger!Next]_Ledger!vars
  BY <1>7, Stutters DEF GrantedBar
<1> QED
  BY <1>1, <1>2, <1>3, <1>4, <1>5, <1>6, <1>7
     DEF Next, Step, Withdraw, CheckBalance, ReserveAborts, SendTransfer, AwaitReceipt,
         FailAborts, Drop, vars

\* Withdrawals, however they overlap, are tried again or cut off, implement the ledger of
\* holds: an amount is taken once, sent at most once, settled once, and paid only when sent.
THEOREM Implementation == Spec => ImplementsLedger
BY InitLedger, StepLedger, Invariance, PTL DEF Spec, ImplementsLedger, Ledger!Spec
===============================================================================
