----------------------------- MODULE BulkLedger -----------------------------
(***************************************************************************)
(* The bulk ledger as the backend runs it: every RPC is one READ COMMITTED *)
(* transaction that takes a row lock on each container it will write       *)
(* (rpc/container_lock.go), computes new absolute balances from the rows   *)
(* as it read them under those locks, and commits or rolls back.           *)
(*                                                                         *)
(* A transaction t is a request, the rows it has locked and its copy of    *)
(* them.  Uncommitted writes are seen by nobody, so a transaction's writes *)
(* happen at its commit: BulkBooks' action applied to the copy.  That this *)
(* implements BulkBooks, where every operation reads the current balances  *)
(* in one step, is the theorem of BulkLedger_proofs.                       *)
(***************************************************************************)
EXTENDS BulkBooks

CONSTANTS
  Tx,          \* transactions in flight
  NoRequest    \* the request of a transaction that is not running

ASSUME TxAssumption == NoRequest \notin Request

VARIABLES
  req,      \* the request each transaction serves
  locked,   \* the container rows it holds FOR UPDATE
  copy      \* what it read in them

txVars == <<req, locked, copy>>
ledgerVars == <<booksVars, txVars>>

Running(t) == req[t] # NoRequest
SourceOnly(t) == {req[t].src} \ ({NoVessel} \cup locked[t])   \* Wanted, forgetting a row
Wanted(t)  == Vessels(req[t]) \ locked[t]
Ready(t)   == Running(t) /\ Wanted(t) = {}

AnyRow(t, c) == Running(t) /\ c \in Wanted(t)   \* NextRow, unsorted

\* lockContainers takes the rows in id order.  VoidBarrelEvent does not go
\* through it: it locks the movement's destination, then its source.
NextRow(t, c) ==
  /\ Running(t)
  /\ c \in Wanted(t)
  /\ IF req[t].op = "VoidBarrelEvent"
     THEN c = req[t].dst \/ req[t].dst \notin Wanted(t)
     ELSE \A d \in Wanted(t) : c <= d

\* SetBulkContainerPossession reads the row without assertHeld.
MayChange(t, c) == req[t].op \in {"HandOver", "TakeBack"} \/ held[c]

\* Release, keeping the rows.
Leak(t) ==
  /\ req' = [req EXCEPT ![t] = NoRequest]
  /\ UNCHANGED <<locked, copy>>

\* The end of a transaction, either way, gives up its rows.
Release(t) ==
  /\ req' = [req EXCEPT ![t] = NoRequest]
  /\ locked' = [locked EXCEPT ![t] = {}]
  /\ copy' = [copy EXCEPT ![t] = [c \in Containers |-> Empty]]

\* A handler is called.  A void has read its event, without a lock, and goes no
\* further if the event is voided already.
Begin(t) ==
  /\ ~Running(t)
  /\ \E r \in Asked :
       /\ r.event # 0 => Unvoided(r)
       /\ req' = [req EXCEPT ![t] = r]
  /\ UNCHANGED <<booksVars, locked, copy>>

\* LockRow as a plain SELECT.
ReadRow(t, c) ==
  /\ NextRow(t, c)
  /\ MayChange(t, c)
  /\ locked' = [locked EXCEPT ![t] = @ \cup {c}]
  /\ copy' = [copy EXCEPT ![t][c] = bal[c]]
  /\ UNCHANGED <<booksVars, req>>

\* SELECT ... FOR UPDATE returns once no other transaction has the row, with the
\* row as last committed.
LockRow(t, c) ==
  /\ NextRow(t, c)
  /\ \A u \in Tx : c \notin locked[u]
  /\ MayChange(t, c)
  /\ locked' = [locked EXCEPT ![t] = @ \cup {c}]
  /\ copy' = [copy EXCEPT ![t][c] = bal[c]]
  /\ UNCHANGED <<booksVars, req>>

\* assertHeld refuses a container in somebody else's possession.
RefuseAway(t, c) ==
  /\ NextRow(t, c)
  /\ \A u \in Tx : c \notin locked[u]
  /\ ~MayChange(t, c)
  /\ Release(t)
  /\ UNCHANGED booksVars

Commit(t) ==
  /\ Ready(t)
  /\ Apply(req[t], copy[t])
  /\ InBounds'
  /\ Release(t)

\* Any error, a failed CHECK, or a client that went away.
Rollback(t) ==
  /\ Running(t)
  /\ Release(t)
  /\ UNCHANGED booksVars

-----------------------------------------------------------------------------
LedgerInit ==
  /\ BooksInit
  /\ req = [t \in Tx |-> NoRequest]
  /\ locked = [t \in Tx |-> {}]
  /\ copy = [t \in Tx |-> [c \in Containers |-> Empty]]

LedgerNext ==
  \E t \in Tx :
    \/ Begin(t)
    \/ \E c \in Containers : LockRow(t, c) \/ RefuseAway(t, c)
    \/ Commit(t)
    \/ Rollback(t)

LedgerSafety == LedgerInit /\ [][LedgerNext]_ledgerVars

\* t waits for a row that u holds.
WaitsFor(t, u) == \E c \in locked[u] : NextRow(t, c)

\* Transactions each waiting for another of them.
Deadlocked(S) == S # {} /\ \A t \in S : \E u \in S : WaitsFor(t, u)

\* PostgreSQL rolls one of a deadlocked set back (deadlock_timeout).
DeadlockVictim(t) ==
  /\ \E S \in SUBSET Tx : t \in S /\ Deadlocked(S)
  /\ Rollback(t)

\* A handler with its rows runs to its end, whatever that is; row locks are
\* granted in the order they were asked for, so no waiter starves; a deadlock
\* is detected.  Clients need not call, and need not go away.
LedgerFairness ==
  \A t \in Tx :
    /\ WF_ledgerVars(Ready(t) /\ (Commit(t) \/ Rollback(t)))
    /\ SF_ledgerVars(\E c \in Containers : LockRow(t, c) \/ RefuseAway(t, c))
    /\ WF_ledgerVars(DeadlockVictim(t))

LedgerSpec == LedgerSafety /\ LedgerFairness

-----------------------------------------------------------------------------
(* Properties *)

LedgerTypeOK ==
  /\ BooksTypeOK
  /\ req \in [Tx -> Request \cup {NoRequest}]
  /\ locked \in [Tx -> SUBSET Containers]
  /\ copy \in [Tx -> [Containers -> Balance]]

\* No lost update: what a transaction will compute its new balances from is what
\* the row still holds ("alcohol conjured out of a lost update", bulk.sql).
LockedReadIsCurrent ==
  \A t \in Tx : \A c \in locked[t] : copy[t][c] = bal[c]

\* The possession check made when a row was locked still stands when the
\* balance is written: no handover slips in between.
HeldWhileLocked ==
  \A t \in Tx : \A c \in locked[t] :
    held[c] \/ req[t].op \in {"HandOver", "TakeBack"}

\* Handlers that lock in id order queue and never deadlock among themselves: a
\* deadlock needs a void of a barrel event.
SortedLocksQueue ==
  \A S \in SUBSET Tx : Deadlocked(S) => \E t \in S : req[t].op = "VoidBarrelEvent"

\* Concurrent transactions leave the books as one operation at a time would.
Books == BooksSpec

\* Every call is answered: nothing waits for a row for ever.
EveryCallEnds == \A t \in Tx : Running(t) ~> ~Running(t)

=============================================================================
