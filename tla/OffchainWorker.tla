--------------------------- MODULE OffchainWorker ---------------------------
(***************************************************************************)
(* The offchain worker of the appchain pallet on one node, from the import *)
(* of a block to the transaction that is submitted. A run is started with  *)
(* the number of its block; runs of several blocks, and of the branches of *)
(* a re-organisation, go on at the same time and share one entry of the    *)
(* local storage, last_send, which survives a restart of the node. What    *)
(* the transaction does on chain is the subject of Appchain.               *)
(***************************************************************************)
EXTENDS Integers, Sequences

CONSTANTS
    Runs,           \* bound: the runs that may go on at the same time
    GracePeriod,
    ReorgDepth,     \* bound: blocks that a re-organisation reverts
    MaxBlock,       \* bound: the number of the last block
    MaxStarts       \* bound: runs that are started

ASSUME WorkerAssumption ==
    /\ GracePeriod \in Nat
    /\ ReorgDepth \in Nat
    /\ MaxBlock \in Nat
    /\ MaxStarts \in Nat

VARIABLES
    best,           \* number of the best block
    lastSend,       \* octopus_appchain::last_send
    runs,           \* where each run is
    starts,         \* history: the number of runs started
    sent            \* history: the block numbers of the runs that submitted

vars == <<best, lastSend, runs, starts, sent>>

Unset == -1

\* A run is idle before it starts and done when it returned; in between it reads
\* last_send, swaps it, looks for its key and asks the mainchain. `offered`
\* tells that an endpoint answered with something to submit, `tried` that a
\* submission was tried.
Steps == {"idle", "read", "swap", "key", "sets", "notes", "submit", "done"}
Run == [step : Steps, block : Nat, seen : Nat \cup {Unset}, offered : BOOLEAN,
        tried : BOOLEAN]
NoRun == [step |-> "idle", block |-> 0, seen |-> Unset, offered |-> FALSE, tried |-> FALSE]

\* What an endpoint makes of a request: an error or a timeout, no news, or news.
Answers == {"error", "nothing", "something"}

Ended(r) == runs[r].step \in {"idle", "done"}

TypeOK ==
    /\ best \in Nat
    /\ lastSend \in Nat \cup {Unset}
    /\ runs \in [Runs -> Run]
    /\ starts \in Nat
    /\ sent \in Seq(Nat)

Init ==
    /\ best = 0
    /\ lastSend = Unset
    /\ runs = [r \in Runs |-> NoRun]
    /\ starts = 0
    /\ sent = <<>>
-----------------------------------------------------------------------------
\* The client imports a best block, on the same branch or on another one.
ImportBlock(number) ==
    /\ number \in (best - ReorgDepth)..(best + 1) /\ number \in 1..MaxBlock
    /\ best' = number
    /\ UNCHANGED <<lastSend, runs, starts, sent>>

\* The client starts a run for the best block: never, once or again. The run
\* returns at once on a node that is no validator or an appchain that is not
\* active; such a run is never started here.
offchain_worker(r) ==
    /\ Ended(r) /\ best > 0 /\ starts < MaxStarts
    /\ starts' = starts + 1
    /\ runs' = [runs EXCEPT ![r] = [NoRun EXCEPT !.step = "read", !.block = best]]
    /\ UNCHANGED <<best, lastSend, sent>>

Goto(r, step) == runs' = [runs EXCEPT ![r].step = step]

\* Definitions under the heading "Buggy variant" are not part of the
\* specification: they are used only to show that the properties can fail.

\* Buggy variant: a block before the period is over is not too early any more.
RecentlySentBefore(r) == lastSend # Unset /\ runs[r].block + 1 < lastSend + GracePeriod

\* mutate, first half: the value is read and judged.
RecentlySent(r) == lastSend # Unset /\ runs[r].block < lastSend + GracePeriod

ReadLastSend(r) ==
    /\ runs[r].step = "read"
    /\ IF RecentlySent(r)
       THEN Goto(r, "done")
       ELSE runs' = [runs EXCEPT ![r].step = "swap", ![r].seen = lastSend]
    /\ UNCHANGED <<best, lastSend, starts, sent>>

\* Buggy variants: the value is written in any case, or a run that loses the
\* race tries again with the value it has read.
SwapUnchecked(r) ==
    /\ runs[r].step = "swap"
    /\ Goto(r, "key") /\ lastSend' = runs[r].block
    /\ UNCHANGED <<best, starts, sent>>

SwapAgain(r) ==
    /\ runs[r].step = "swap" /\ lastSend = runs[r].seen
    /\ Goto(r, "key") /\ lastSend' = runs[r].block
    /\ UNCHANGED <<best, starts, sent>>

\* mutate, second half: compare_and_set writes the number of the block unless
\* the value has changed since.
SwapLastSend(r) ==
    /\ runs[r].step = "swap"
    /\ IF lastSend = runs[r].seen
       THEN Goto(r, "key") /\ lastSend' = runs[r].block
       ELSE Goto(r, "done") /\ UNCHANGED lastSend       \* ConcurrentModification
    /\ UNCHANGED <<best, starts, sent>>

\* A key of the node belongs to an active validator, or the run was for nothing.
get_validator_id(r) ==
    /\ runs[r].step = "key"
    /\ Goto(r, "sets") \/ Goto(r, "done")
    /\ UNCHANGED <<best, lastSend, starts, sent>>

\* A request to the endpoint, and to the failsafe one if that fails. The error
\* stays an error whatever the failsafe endpoint answers.
Ask(r, here, next, answer, failsafe) ==
    LET news == "something" \in {answer, IF answer = "error" THEN failsafe ELSE answer}
        step == CASE answer = "something" -> "submit"
                  [] answer = "nothing" -> next
                  [] answer = "error" -> "done"
    IN  /\ runs[r].step = here
        /\ runs' = [runs EXCEPT ![r].step = step, ![r].offered = news]
        /\ UNCHANGED <<best, lastSend, starts, sent>>

get_validator_list_of(r, answer, failsafe) == Ask(r, "sets", "notes", answer, failsafe)
get_appchain_notification_histories(r, answer, failsafe) ==
    Ask(r, "notes", "done", answer, failsafe)

\* Buggy variant: the run signs with the block number it found in last_send.
SubmitSeen(r) ==
    /\ runs[r].step = "submit"
    /\ runs' = [runs EXCEPT ![r].step = "done", ![r].tried = TRUE]
    /\ sent' = Append(sent, runs[r].seen)
    /\ UNCHANGED <<best, lastSend, starts>>

\* The transaction goes to the pool, which may refuse it.
Submit(r) ==
    /\ runs[r].step = "submit"
    /\ runs' = [runs EXCEPT ![r].step = "done", ![r].tried = TRUE]
    /\ sent' = Append(sent, runs[r].block)
    /\ UNCHANGED <<best, lastSend, starts>>

\* The node stops and starts again: its runs are gone, last_send stays.
Restart ==
    /\ runs' = [r \in Runs |-> NoRun]
    /\ UNCHANGED <<best, lastSend, starts, sent>>

RunStep(r) ==
    \/ ReadLastSend(r)
    \/ SwapLastSend(r)
    \/ get_validator_id(r)
    \/ \E answer, failsafe \in Answers :
         \/ get_validator_list_of(r, answer, failsafe)
         \/ get_appchain_notification_histories(r, answer, failsafe)
    \/ Submit(r)

Next ==
    \/ \E number \in 0..MaxBlock : ImportBlock(number)
    \/ \E r \in Runs : offchain_worker(r)
    \/ \E r \in Runs : RunStep(r)
    \/ Restart

Spec == Init /\ [][Next]_vars

\* The executor goes on with every run, and every request has a deadline.
FairSpec == Spec /\ \A r \in Runs : WF_vars(RunStep(r))
-----------------------------------------------------------------------------
Apart(b, c) == b + GracePeriod <= c \/ c + GracePeriod <= b

\* "We only attempt to send one every GRACE_PERIOD blocks": two transactions of
\* the node, whichever runs, branches or restarts they come from, belong to
\* blocks that are a grace period apart.
OneSendPerGracePeriod ==
    \A i, j \in DOMAIN sent : i # j => Apart(sent[i], sent[j])

\* Every run that started ends, by itself or with the node, although it may lose
\* the race for last_send.
RunsEnd == \A r \in Runs : ~Ended(r) ~> Ended(r)

\* "Retry with failsafe endpoint": what one of the endpoints answered is
\* submitted before the run ends.
NoAnswerIsThrownAway ==
    \A r \in Runs : runs[r].step = "done" /\ runs[r].offered => runs[r].tried

\* A run holds the grace period of its block from the swap to its end.
Holds(r) == runs[r].step \in {"key", "sets", "notes", "submit"}

Held == [r \in Runs |-> IF Holds(r) THEN runs[r].block ELSE Unset]

\* "Only one worker will be able to acquire a lock and send a transaction": the
\* read and the swap of last_send, between which other runs move, are together
\* one step in which the lock is taken, and a run without it sends nothing.
Lock == INSTANCE GracePeriodLock WITH Holders <- Runs, last <- lastSend, held <- Held
ImplementsLock == Lock!LockSpec
=============================================================================
