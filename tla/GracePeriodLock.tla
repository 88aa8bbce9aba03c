-------------------------- MODULE GracePeriodLock --------------------------
(***************************************************************************)
(* What the offchain worker needs of the entry last_send: a lock that its  *)
(* runs take for the number of their block, in one step. It is given for a *)
(* block that comes a grace period after the last one it was given for,    *)
(* and what it was given for is sent at most once, or given up.            *)
(***************************************************************************)
EXTENDS Integers, Sequences

CONSTANTS
    Holders,        \* who may take the lock
    GracePeriod

VARIABLES
    last,           \* the block the lock was last given for
    held,           \* the block that each holder has it for
    sent            \* the blocks for which something was sent, in order

lockVars == <<last, held, sent>>

Free == -1

LockInit ==
    /\ last = Free
    /\ held = [h \in Holders |-> Free]
    /\ sent = <<>>

\* For a block at least a grace period after the last one.
Take(h) ==
    /\ held[h] = Free
    /\ last' \in Nat /\ (last = Free \/ last + GracePeriod <= last')
    /\ held' = [held EXCEPT ![h] = last']
    /\ UNCHANGED sent

Send(h) ==
    /\ held[h] # Free
    /\ sent' = Append(sent, held[h])
    /\ held' = [held EXCEPT ![h] = Free]
    /\ UNCHANGED last

\* The holders in `some` have found nothing to send, or are no more. The lock
\* is not given back.
GiveUp(some) ==
    /\ held' = [h \in Holders |-> IF h \in some THEN Free ELSE held[h]]
    /\ UNCHANGED <<last, sent>>

LockNext ==
    \/ \E h \in Holders : Take(h) \/ Send(h)
    \/ \E some \in SUBSET Holders : GiveUp(some)

LockSpec == LockInit /\ [][LockNext]_lockVars
=============================================================================
