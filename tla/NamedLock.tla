------------------------------ MODULE NamedLock ------------------------------
(***************************************************************************)
(* The advisory lock of WalletService.withMySqlLock and                    *)
(* WalletCron.withCronLock: SELECT GET_LOCK(name, 5) before the callback    *)
(* and DO RELEASE_LOCK(name) in its finally block, both sent through the    *)
(* Prisma client.                                                          *)
(*                                                                         *)
(* MySQL (external) gives a named lock to a session, that is to one of the  *)
(* pooled connections, and the session that owns it may take it again.      *)
(* Prisma sends each statement outside an interactive transaction on any    *)
(* idle connection of the pool, so the two statements of one request need   *)
(* not share a connection.                                                 *)
(***************************************************************************)
EXTENDS Naturals

CONSTANTS Conns,    \* the connections of the pool
          NoConn,   \* nobody owns the lock
          MaxDepth  \* bound: how often one session takes one lock, counted

ASSUME ConnAssumption == /\ NoConn \notin Conns
                         /\ MaxDepth \in Nat \ {0}

FreeLock == [owner |-> NoConn, depth |-> 0]

LockState == {FreeLock} \cup [owner : Conns, depth : 1..MaxDepth]

\* GET_LOCK returns 1 on connection c: nobody holds the lock, or c itself does.
CanGetLock(l, c) == l.owner \in {NoConn, c}

\* A depth of MaxDepth stands for MaxDepth or more.
AfterGetLock(l, c) == [owner |-> c, depth |-> IF l.depth = MaxDepth THEN MaxDepth ELSE l.depth + 1]

\* RELEASE_LOCK on connection c undoes one GET_LOCK of c; on any other
\* connection it returns 0 and the lock stays where it is.
AfterReleaseLock(l, c) ==
  IF l.owner # c THEN {l}
  ELSE {IF l.depth = 1 THEN FreeLock ELSE [l EXCEPT !.depth = @ - 1]}
         \cup {x \in {l} : x.depth = MaxDepth}
=============================================================================
