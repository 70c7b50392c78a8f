------------------------------ MODULE Withdrawal ------------------------------
(***************************************************************************)
(* Moving AIC off the platform: WalletController.withdraw with             *)
(* WalletService.reserveWithdrawal, completeWithdrawal and failWithdrawal,  *)
(* BlockchainService.transferFromRewardPool, and the signup bonus that      *)
(* AuthService grants from the same pool.                                  *)
(*                                                                         *)
(* The chain is external: a sent transfer waits in the mempool until it is  *)
(* mined or dropped, whether or not the API process is still waiting.      *)
(***************************************************************************)
EXTENDS Integers, FiniteSets

CONSTANTS Users, NoUser,
          Pool,         \* the reward-pool user
          Ids, NoId,    \* withdrawal rows; their number bounds the withdrawals
          Reqs,         \* request slots: how many withdrawals overlap
          Amounts,      \* amounts a user may ask for (dto: > 0)
          Bonus,        \* SIGNUP_BONUS
          PoolBalance, ChainBalance,
          MaxTries      \* withRetry's retries

ASSUME WithdrawalAssumption ==
  /\ Pool \notin Users /\ NoUser \notin Users /\ NoId \notin Ids
  /\ IsFiniteSet(Ids)
  /\ Amounts \subseteq Nat \ {0}
  /\ Bonus \in Nat /\ PoolBalance \in Nat /\ ChainBalance \in Nat
  /\ MaxTries \in Nat \ {0}

VARIABLES account,  \* how far a user's registration is
          balance,  \* users.balance
          row,      \* WITHDRAWAL rows of the transactions table
          mempool,  \* rows whose transfer was sent and is neither mined nor dropped
          mined,    \* rows whose transfer happened on chain
          chain,    \* on-chain AIC of the reward pool
          req       \* the withdrawals in flight

vars == <<account, balance, row, mempool, mined, chain, req>>
-------------------------------------------------------------------------------
RowStatus == {"ABSENT", "PENDING", "COMPLETED", "FAILED"}
Row == [status : RowStatus, user : Users \cup {NoUser}, amount : Nat]
NoRow == [status |-> "ABSENT", user |-> NoUser, amount |-> 0]

Steps == {"idle", "check", "reserve", "send", "wait", "complete", "fail"}
Request == [at : Steps, user : Users \cup {NoUser}, amount : Nat, id : Ids \cup {NoId},
            tries : Nat]
Idle == [at |-> "idle", user |-> NoUser, amount |-> 0, id |-> NoId, tries |-> 0]

Init ==
  /\ account = [u \in Users |-> "none"]
  /\ balance = [u \in Users \cup {Pool} |-> IF u = Pool THEN PoolBalance ELSE 0]
  /\ row = [i \in Ids |-> NoRow]
  /\ mempool = {} /\ mined = {}
  /\ chain = ChainBalance
  /\ req = [r \in Reqs |-> Idle]

Goto(r, step) == req' = [req EXCEPT ![r].at = step, ![r].tries = 0]
Done(r) == req' = [req EXCEPT ![r] = Idle]
-------------------------------------------------------------------------------
\* register, and the first login through OAuth: the row exists before the bonus.
Register(u) ==
  /\ account[u] = "none"
  /\ account' = [account EXCEPT ![u] = "bonusDue"]
  /\ UNCHANGED <<balance, row, mempool, mined, chain, req>>

\* grantSignupBonus takes the bonus from the pool without looking at its balance.
GrantSignupBonus(u) ==
  /\ account[u] = "bonusDue"
  /\ account' = [account EXCEPT ![u] = "granted"]
  /\ balance' = [balance EXCEPT ![Pool] = @ - Bonus, ![u] = @ + Bonus]
  /\ UNCHANGED <<row, mempool, mined, chain, req>>

\* An error of the grant is logged and the registration goes on; nobody tries again.
SignupBonusLost(u) ==
  /\ account[u] = "bonusDue"
  /\ account' = [account EXCEPT ![u] = "lost"]
  /\ UNCHANGED <<balance, row, mempool, mined, chain, req>>
-------------------------------------------------------------------------------
\* Mutant.
WithdrawAnyAmount(r, u) ==
  /\ req[r] = Idle
  /\ account[u] # "none"
  /\ \E a \in Amounts \cup {-1} :
       /\ chain >= a
       /\ req' = [req EXCEPT ![r] = [Idle EXCEPT !.at = "check", !.user = u, !.amount = a]]
  /\ UNCHANGED <<account, balance, row, mempool, mined, chain>>

\* withdraw: the amount, and what the reward pool holds on chain at this moment.
Withdraw(r, u) ==
  /\ req[r] = Idle
  /\ account[u] # "none"
  /\ \E a \in Amounts :
       /\ chain >= a
       /\ req' = [req EXCEPT ![r] = [Idle EXCEPT !.at = "check", !.user = u, !.amount = a]]
  /\ UNCHANGED <<account, balance, row, mempool, mined, chain>>

\* reserveWithdrawal's transaction: a consistent read that locks nothing.
CheckBalance(r) ==
  /\ req[r].at = "check"
  /\ IF balance[req[r].user] >= req[r].amount
     THEN req' = [req EXCEPT ![r].at = "reserve"] ELSE Done(r)
  /\ UNCHANGED <<account, balance, row, mempool, mined, chain>>

\* Two relative updates and the PENDING row, committed together.
Reserve(r, i) ==
  /\ req[r].at = "reserve"
  /\ row[i].status = "ABSENT"
  /\ row' = [row EXCEPT ![i] = [status |-> "PENDING", user |-> req[r].user,
                                amount |-> req[r].amount]]
  /\ balance' = [balance EXCEPT ![req[r].user] = @ - req[r].amount,
                                ![Pool] = @ + req[r].amount]
  /\ req' = [req EXCEPT ![r].at = "send", ![r].id = i, ![r].tries = 0]
  /\ UNCHANGED <<account, mempool, mined, chain>>

\* The transaction is rolled back: tried again on a write conflict, else the request
\* is over (the error is thrown before withdraw's try block).
ReserveAborts(r) ==
  /\ req[r].at = "reserve"
  /\ \/ /\ req[r].tries + 1 < MaxTries
        /\ req' = [req EXCEPT ![r].at = "check", ![r].tries = @ + 1]
     \/ Done(r)
  /\ UNCHANGED <<account, balance, row, mempool, mined, chain>>

\* Mutant.
SendAgainOnError(r) ==
  /\ req[r].at = "send"
  /\ \/ mempool' = mempool \cup {req[r].id} /\ Goto(r, "wait")
     \/ mempool' \in {mempool, mempool \cup {req[r].id}}
        /\ IF req[r].tries + 1 < MaxTries THEN req' = [req EXCEPT ![r].tries = @ + 1]
                                          ELSE Goto(r, "fail")
  /\ UNCHANGED <<account, balance, row, mined, chain>>

\* contract.transfer: the signed transfer is handed to a node.  An error may come
\* back although the node has it.
SendTransfer(r) ==
  /\ req[r].at = "send"
  /\ \/ mempool' = mempool \cup {req[r].id} /\ Goto(r, "wait")
     \/ mempool' \in {mempool, mempool \cup {req[r].id}} /\ Goto(r, "fail")
  /\ UNCHANGED <<account, balance, row, mined, chain>>

\* The chain (external) executes a transfer the pool can cover, or drops it.
Mine(i) ==
  /\ i \in mempool /\ chain >= row[i].amount
  /\ mempool' = mempool \ {i} /\ mined' = mined \cup {i}
  /\ chain' = chain - row[i].amount
  /\ UNCHANGED <<account, balance, row, req>>

Drop(i) ==
  /\ i \in mempool
  /\ mempool' = mempool \ {i}
  /\ UNCHANGED <<account, balance, row, mined, chain, req>>

\* Mutant.
DoNotWait(r) ==
  /\ req[r].at = "wait"
  /\ Goto(r, "complete")
  /\ UNCHANGED <<account, balance, row, mempool, mined, chain>>

\* tx.wait(): the receipt of a mined transfer, or an error at any time.
AwaitReceipt(r) ==
  /\ req[r].at = "wait"
  /\ \/ req[r].id \in mined /\ Goto(r, "complete")
     \/ Goto(r, "fail")
  /\ UNCHANGED <<account, balance, row, mempool, mined, chain>>

\* completeWithdrawal writes unconditionally; an error of the statement, which may
\* have been executed, runs the catch block of withdraw.
CompleteWithdrawal(r) ==
  LET completed == [row EXCEPT ![req[r].id].status = "COMPLETED"]
  IN /\ req[r].at = "complete"
     /\ \/ row' = completed /\ Done(r)
        \/ row' \in {row, completed} /\ Goto(r, "fail")
     /\ UNCHANGED <<account, balance, mempool, mined, chain>>

Refunded(i) == balance' = [balance EXCEPT ![row[i].user] = @ + row[i].amount,
                                          ![Pool] = @ - row[i].amount]
\* Mutant.
FailAnyStatus(r) ==
  /\ req[r].at = "fail"
  /\ Refunded(req[r].id)
  /\ row' = [row EXCEPT ![req[r].id].status = "FAILED"]
  /\ Done(r)
  /\ UNCHANGED <<account, mempool, mined, chain>>

\* failWithdrawal's transaction gives a PENDING row's amount back.
FailWithdrawal(r) ==
  /\ req[r].at = "fail"
  /\ IF row[req[r].id].status = "PENDING"
     THEN /\ Refunded(req[r].id)
          /\ row' = [row EXCEPT ![req[r].id].status = "FAILED"]
     ELSE UNCHANGED <<balance, row>>
  /\ Done(r)
  /\ UNCHANGED <<account, mempool, mined, chain>>

FailAborts(r) ==
  /\ req[r].at = "fail"
  /\ \/ /\ req[r].tries + 1 < MaxTries
        /\ req' = [req EXCEPT ![r].tries = @ + 1]
     \/ Done(r)
  /\ UNCHANGED <<account, balance, row, mempool, mined, chain>>

\* The API process dies; no job looks at PENDING rows or missing bonuses later.
Crash ==
  /\ (\E r \in Reqs : req[r] # Idle) \/ \E u \in Users : account[u] = "bonusDue"
  /\ req' = [r \in Reqs |-> Idle]
  /\ account' = [u \in Users |-> IF account[u] = "bonusDue" THEN "lost" ELSE account[u]]
  /\ UNCHANGED <<balance, row, mempool, mined, chain>>
-------------------------------------------------------------------------------
Signup(u) == Register(u) \/ GrantSignupBonus(u) \/ SignupBonusLost(u)

Step(r) == \/ CheckBalance(r) \/ \E i \in Ids : Reserve(r, i)
           \/ ReserveAborts(r)
           \/ SendTransfer(r) \/ AwaitReceipt(r)
           \/ CompleteWithdrawal(r) \/ FailWithdrawal(r) \/ FailAborts(r)

Next == \/ \E u \in Users : Signup(u)
        \/ \E r \in Reqs : Step(r) \/ \E u \in Users : Withdraw(r, u)
        \/ \E i \in Ids : Mine(i) \/ Drop(i)
        \/ Crash

Spec == Init /\ [][Next]_vars
-------------------------------------------------------------------------------
\* The rows, accounts and requests have the shapes declared above.
TypeOK ==
  /\ account \in [Users -> {"none", "bonusDue", "granted", "lost"}]
  /\ balance \in [Users \cup {Pool} -> Int]
  /\ row \in [Ids -> Row]
  /\ mempool \subseteq Ids /\ mined \subseteq Ids
  /\ chain \in Nat
  /\ req \in [Reqs -> Request]

\* A row says COMPLETED only when the user has the AIC on chain: withdraw awaits the
\* receipt before it completes the row.
CompletedWasMined == \A i \in Ids : row[i].status = "COMPLETED" => i \in mined

\* A settled row stays settled: a failing completeWithdrawal that was executed is not
\* followed by a refund, and a refunded row is not completed.
SettledIsFinal ==
  [][\A i \in Ids : row[i].status \in {"COMPLETED", "FAILED"} => row'[i] = row[i]]_vars
-------------------------------------------------------------------------------
(***************************************************************************)
(* Refinement: requests, retries, crashes and the mempool are not visible   *)
(* in the ledger of holds.                                                 *)
(***************************************************************************)
Settlement == [PENDING |-> "held", COMPLETED |-> "paid", FAILED |-> "returned"]
HoldOf(i) == IF row[i].status = "ABSENT" THEN [state |-> "none"]
             ELSE [state |-> Settlement[row[i].status], owner |-> row[i].user,
                   amount |-> row[i].amount]
HeldBar == [i \in Ids |-> HoldOf(i)]
GrantedBar == {u \in Users : account[u] = "granted"}
Ledger == INSTANCE HoldLedger WITH
  Owners <- Users, Fund <- Pool, Holds <- Ids, Sums <- Amounts, Grant <- Bonus,
  money <- balance, granted <- GrantedBar, hold <- HeldBar, pool <- chain, sent <- mined

\* However requests overlap, fail, are tried again or are cut off, an amount taken from an
\* account is settled once, sent off the platform at most once and paid only after that.
ImplementsLedger == Ledger!Spec
-------------------------------------------------------------------------------
(***************************************************************************)
(* The inductive invariant behind CompletedWasMined, SettledIsFinal and the *)
(* refinement: a request past its reservation owns its row, and the row is  *)
(* PENDING except after a completion whose answer was lost.                *)
(***************************************************************************)
Active == {"send", "wait", "complete", "fail"}

RequestOK(q) ==
  /\ q.at \in {"check", "reserve"} => q.user \in Users /\ q.id = NoId
  /\ q.at \in Active => q.id \in Ids
  /\ q.at \in {"send", "wait", "complete"} => row[q.id].status = "PENDING"
  /\ q.at = "fail" => row[q.id].status \in {"PENDING", "COMPLETED"}
  /\ q.at = "complete" => q.id \in mined
RowOK(i) == row[i].status # "ABSENT" => row[i].user \in Users
OwnRow == \A r, o \in Reqs : req[r].at \in Active /\ req[o].at \in Active
                             /\ req[r].id = req[o].id => r = o

RowsOwned == /\ TypeOK
             /\ \A r \in Reqs : RequestOK(req[r])
             /\ \A i \in Ids : RowOK(i)
             /\ OwnRow /\ CompletedWasMined

\* What the refinement needs besides: a row's transfer is handed to a node at most once, and
\* only after the row was written with an amount that was asked for.
SentOnce ==
  /\ mempool \cap mined = {}
  /\ \A i \in mempool \cup mined : row[i].status # "ABSENT"
  /\ \A r \in Reqs :
       /\ req[r].at = "send" => req[r].id \notin mempool \cup mined
       /\ req[r].at \in {"check", "reserve"} => req[r].amount \in Amounts

Inv == RowsOwned /\ SentOnce
-------------------------------------------------------------------------------
\* A withdrawal that failed left no AIC on chain: the amount is off chain or on
\* chain, never both (Docs.tsx, "On-chain balance", "Withdraw").
RefundedIsNotMined == \A i \in Ids : row[i].status = "FAILED" => i \notin mined
=============================================================================
