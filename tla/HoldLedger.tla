------------------------------ MODULE HoldLedger ------------------------------
(***************************************************************************)
(* What a withdrawal promises, without requests, retries or crashes: an     *)
(* amount taken from an account is held in the fund until it is settled,    *)
(* once, as paid or returned; it leaves the pool at most once, and is paid  *)
(* only after it left.  Withdrawal implements it.                          *)
(***************************************************************************)
EXTENDS Integers

CONSTANTS Owners,     \* the accounts
          Fund,       \* the account that holds what was taken
          Holds,      \* the holds that may ever be made
          Sums,       \* what may be taken at a time
          Grant       \* what an account is given once

VARIABLES money,      \* what each account and the fund have
          granted,    \* the accounts that have had their grant
          hold,       \* nothing, or whose amount it is and how it was settled
          pool,       \* what can still be sent off the platform
          sent        \* the holds whose amount was sent

vars == <<money, granted, hold, pool, sent>>

Nothing == [state |-> "none"]

Init == /\ \A o \in Owners : money[o] = 0
        /\ granted = {} /\ hold = [h \in Holds |-> Nothing] /\ sent = {}

GrantTo(o) ==
  /\ o \notin granted /\ granted' = granted \cup {o}
  /\ money' = [money EXCEPT ![Fund] = @ - Grant, ![o] = @ + Grant]
  /\ UNCHANGED <<hold, pool, sent>>

Take(h, o, n) ==
  /\ hold[h] = Nothing
  /\ hold' = [hold EXCEPT ![h] = [state |-> "held", owner |-> o, amount |-> n]]
  /\ money' = [money EXCEPT ![o] = @ - n, ![Fund] = @ + n]
  /\ UNCHANGED <<granted, pool, sent>>

SendOff(h) ==
  /\ hold[h] # Nothing /\ h \notin sent /\ pool >= hold[h].amount
  /\ sent' = sent \cup {h} /\ pool' = pool - hold[h].amount
  /\ UNCHANGED <<money, granted, hold>>

Pay(h) ==
  /\ hold[h].state = "held" /\ h \in sent
  /\ hold' = [hold EXCEPT ![h].state = "paid"]
  /\ UNCHANGED <<money, granted, pool, sent>>

Return(h) ==
  /\ hold[h].state = "held"
  /\ hold' = [hold EXCEPT ![h].state = "returned"]
  /\ money' = [money EXCEPT ![hold[h].owner] = @ + hold[h].amount, ![Fund] = @ - hold[h].amount]
  /\ UNCHANGED <<granted, pool, sent>>

Next == \/ \E o \in Owners : GrantTo(o)
        \/ \E h \in Holds :
             \/ \E o \in Owners, n \in Sums : Take(h, o, n)
             \/ SendOff(h) \/ Pay(h) \/ Return(h)

Spec == Init /\ [][Next]_vars
=============================================================================
