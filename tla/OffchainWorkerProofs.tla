------------------------ MODULE OffchainWorkerProofs ------------------------
(***************************************************************************)
(* The grace period of OffchainWorker, for any number of runs, length of   *)
(* the grace period and depth of re-organisations.                         *)
(***************************************************************************)
EXTENDS OffchainWorker, SequenceTheorems, TLAPS

LEMMA StepOfRun ==
    ASSUME NEW r \in Runs, RunStep(r)
    PROVE  \/ ReadLastSend(r) \/ SwapLastSend(r) \/ get_validator_id(r) \/ Submit(r)
           \/ \E here, next \in Steps, answer, failsafe \in Answers :
                /\ here \in {"sets", "notes"} /\ next \in {"notes", "done"}
                /\ Ask(r, here, next, answer, failsafe)
BY DEF RunStep, get_validator_list_of, get_appchain_notification_histories, Steps

\* The changes of a run keep its type.
LEMMA RunType ==
    ASSUME TypeOK, NEW r \in Runs, NEW step \in Steps
    PROVE  /\ [runs EXCEPT ![r].step = step] \in [Runs -> Run]
           /\ [runs EXCEPT ![r].step = step, ![r].seen = lastSend] \in [Runs -> Run]
           /\ \A b \in BOOLEAN :
                [runs EXCEPT ![r].step = step, ![r].offered = b] \in [Runs -> Run]
           /\ [runs EXCEPT ![r].step = step, ![r].tried = TRUE] \in [Runs -> Run]
<1>1. [runs[r] EXCEPT !.step = step] \in Run
  BY DEF TypeOK, Run
<1>2. [[runs[r] EXCEPT !.step = step] EXCEPT !.seen = lastSend] \in Run
  BY <1>1 DEF TypeOK, Run
<1>3. \A b \in BOOLEAN : [[runs[r] EXCEPT !.step = step] EXCEPT !.offered = b] \in Run
  BY <1>1 DEF Run
<1>4. [[runs[r] EXCEPT !.step = step] EXCEPT !.tried = TRUE] \in Run
  BY <1>1 DEF Run
<1>5. runs \in [Runs -> Run]
  BY DEF TypeOK
<1> QED
  BY <1>1, <1>2, <1>3, <1>4, <1>5

LEMMA GotoType ==
    ASSUME TypeOK, NEW r \in Runs, NEW step \in Steps, Goto(r, step)
    PROVE  runs' \in [Runs -> Run]
BY RunType DEF Goto

LEMMA NoRunType ==
    ASSUME NEW block \in Nat
    PROVE  NoRun \in Run /\ [NoRun EXCEPT !.step = "read", !.block = block] \in Run
BY DEF NoRun, Run, Steps, Unset

LEMMA TypeStep == TypeOK /\ [Next]_vars => TypeOK'
<1> SUFFICES ASSUME TypeOK, [Next]_vars PROVE TypeOK'
  OBVIOUS
<1>1. ASSUME NEW number \in 0..MaxBlock, ImportBlock(number)
      PROVE  TypeOK'
  BY <1>1 DEF ImportBlock, TypeOK
<1>2. ASSUME NEW r \in Runs, offchain_worker(r)
      PROVE  TypeOK'
  <2>1. [NoRun EXCEPT !.step = "read", !.block = best] \in Run
    BY NoRunType DEF TypeOK
  <2> QED
    BY <1>2, <2>1 DEF offchain_worker, TypeOK
<1>3. ASSUME NEW r \in Runs, RunStep(r)
      PROVE  TypeOK'
  <2>1. CASE ReadLastSend(r)
    <3>1. "done" \in Steps /\ "swap" \in Steps
      BY DEF Steps
    <3>2. runs' \in [Runs -> Run]
      <4>1. [runs EXCEPT ![r].step = "swap", ![r].seen = lastSend] \in [Runs -> Run]
        BY <3>1, RunType
      <4> QED
        BY <2>1, <3>1, <4>1, GotoType DEF ReadLastSend
    <3> QED
      BY <2>1, <3>2 DEF ReadLastSend, TypeOK
  <2>2. CASE SwapLastSend(r)
    <3>1. "done" \in Steps /\ "key" \in Steps
      BY DEF Steps
    <3>2. runs' \in [Runs -> Run]
      BY <2>2, <3>1, GotoType DEF SwapLastSend
    <3>3. lastSend' \in Nat \cup {Unset}
      BY <2>2 DEF SwapLastSend, TypeOK, Run
    <3> QED
      BY <2>2, <3>2, <3>3 DEF SwapLastSend, TypeOK
  <2>3. CASE get_validator_id(r)
    <3>1. "done" \in Steps /\ "sets" \in Steps
      BY DEF Steps
    <3>2. runs' \in [Runs -> Run]
      BY <2>3, <3>1, GotoType DEF get_validator_id
    <3> QED
      BY <2>3, <3>2 DEF get_validator_id, TypeOK
  <2>4. CASE Submit(r)
    <3>1. sent' \in Seq(Nat)
      BY <2>4, AppendProperties DEF Submit, TypeOK, Run
    <3>2. "done" \in Steps
      BY DEF Steps
    <3>3. runs' \in [Runs -> Run]
      BY <2>4, <3>2, RunType DEF Submit
    <3> QED
      BY <2>4, <3>1, <3>3 DEF Submit, TypeOK
  <2>5. ASSUME NEW here \in Steps, NEW next \in Steps, NEW answer \in Answers,
               NEW failsafe \in Answers, Ask(r, here, next, answer, failsafe)
        PROVE  TypeOK'
    <3> DEFINE news == "something" \in {answer, IF answer = "error" THEN failsafe ELSE answer}
               step == CASE answer = "something" -> "submit"
                         [] answer = "nothing" -> next
                         [] answer = "error" -> "done"
    <3>1. step \in Steps /\ news \in BOOLEAN
      BY DEF Steps, Answers
    <3>2. runs' = [runs EXCEPT ![r].step = step, ![r].offered = news]
      BY <2>5 DEF Ask
    <3> HIDE DEF step, news
    <3>3. runs' \in [Runs -> Run]
      BY <3>1, <3>2, RunType
    <3> QED
      BY <2>5, <3>3 DEF Ask, TypeOK
  <2> QED
    BY <1>3, <2>1, <2>2, <2>3, <2>4, <2>5, StepOfRun
<1>4. CASE Restart
  BY <1>4, NoRunType DEF Restart, TypeOK
<1>5. CASE UNCHANGED vars
  BY <1>5 DEF vars, TypeOK
<1> QED
  BY <1>1, <1>2, <1>3, <1>4, <1>5 DEF Next

LEMMA TypeInit == Init => TypeOK
BY DEF Init, TypeOK, Run, NoRun, Steps, Unset

\* The types, whatever the runs, the branches and the restarts.
THEOREM TypeCorrect == Spec => []TypeOK
BY TypeInit, TypeStep, PTL DEF Spec
-----------------------------------------------------------------------------
\* Inductive: what runs hold and what was sent is apart from each other and not
\* after last_send; and a run about to swap has left a grace period to the value
\* it has seen, which the swap compares.
GraceInv ==
    /\ \A r \in Runs : runs[r].step = "swap" =>
         runs[r].seen = Unset \/ runs[r].seen + GracePeriod <= runs[r].block
    /\ \A r \in Runs : Holds(r) => lastSend # Unset /\ runs[r].block <= lastSend
    /\ \A i \in DOMAIN sent : lastSend # Unset /\ sent[i] <= lastSend
    /\ \A r, s \in Runs : Holds(r) /\ Holds(s) /\ r # s => Apart(runs[r].block, runs[s].block)
    /\ \A r \in Runs, i \in DOMAIN sent : Holds(r) => Apart(runs[r].block, sent[i])
    /\ OneSendPerGracePeriod

\* A step that neither takes nor uses a grace period.
LEMMA QuietStep ==
    ASSUME TypeOK, GraceInv, lastSend' = lastSend, sent' = sent,
           \A r \in Runs : /\ Holds(r)' => Holds(r) /\ runs'[r].block = runs[r].block
                           /\ runs'[r].step = "swap" =>
                                \/ runs'[r].seen = Unset
                                \/ runs'[r].seen + GracePeriod <= runs'[r].block
    PROVE  GraceInv'
BY DEF GraceInv, OneSendPerGracePeriod, Apart

LEMMA SwapKeeps ==
    ASSUME TypeOK, TypeOK', GraceInv, NEW r \in Runs, SwapLastSend(r)
    PROVE  GraceInv'
<1>1. CASE lastSend = runs[r].seen
  <2>1. /\ lastSend' = runs[r].block /\ sent' = sent
        /\ runs' = [runs EXCEPT ![r].step = "key"]
        /\ runs[r].step = "swap"
    BY <1>1 DEF SwapLastSend, Goto
  <2>2. /\ runs'[r].block = runs[r].block /\ runs'[r].step = "key"
        /\ \A s \in Runs : s # r => runs'[s] = runs[s]
    BY <2>1 DEF TypeOK, Run
  <2>3. runs[r].block \in Nat /\ runs[r].block # Unset
        /\ (lastSend # Unset => lastSend \in Nat /\ lastSend + GracePeriod <= runs[r].block)
    BY <1>1, <2>1 DEF TypeOK, Run, GraceInv, Unset
  <2>4. \A s \in Runs : s # r /\ Holds(s) =>
          /\ runs[s].block \in Nat
          /\ runs[s].block + GracePeriod <= runs[r].block
          /\ runs[s].block <= runs[r].block
    BY <2>3, WorkerAssumption DEF GraceInv, TypeOK, Run
  <2>5. \A i \in DOMAIN sent :
          /\ sent[i] \in Nat
          /\ sent[i] + GracePeriod <= runs[r].block /\ sent[i] <= runs[r].block
    BY <2>3, WorkerAssumption DEF GraceInv, TypeOK
  <2>6. \A s \in Runs : s # r => (Holds(s)' <=> Holds(s))
    BY <2>2 DEF Holds
  <2>7. \A s \in Runs : runs'[s].step = "swap" =>
          runs'[s].seen = Unset \/ runs'[s].seen + GracePeriod <= runs'[s].block
    BY <2>2 DEF GraceInv
  <2>8. \A s \in Runs : Holds(s)' => lastSend' # Unset /\ runs'[s].block <= lastSend'
    BY <2>1, <2>2, <2>3, <2>4, <2>6
  <2>9. \A i \in DOMAIN sent' : lastSend' # Unset /\ sent'[i] <= lastSend'
    BY <2>1, <2>3, <2>5
  <2>10. \A s, t \in Runs : Holds(s)' /\ Holds(t)' /\ s # t =>
           Apart(runs'[s].block, runs'[t].block)
    BY <2>2, <2>4, <2>6 DEF GraceInv, Apart
  <2>11. \A s \in Runs, i \in DOMAIN sent' : Holds(s)' => Apart(runs'[s].block, sent'[i])
    BY <2>1, <2>2, <2>5, <2>6 DEF GraceInv, Apart
  <2>12. OneSendPerGracePeriod'
    BY <2>1 DEF GraceInv, OneSendPerGracePeriod
  <2> QED
    BY <2>7, <2>8, <2>9, <2>10, <2>11, <2>12 DEF GraceInv
<1>2. CASE lastSend # runs[r].seen
  <2>1. /\ runs' = [runs EXCEPT ![r].step = "done"]
        /\ lastSend' = lastSend /\ sent' = sent
    BY <1>2 DEF SwapLastSend, Goto
  <2>2. /\ runs'[r].step = "done"
        /\ \A s \in Runs : s # r => runs'[s] = runs[s]
    BY <2>1 DEF TypeOK, Run
  <2> QED
    BY <2>1, <2>2, QuietStep DEF Holds, GraceInv
<1> QED
  BY <1>1, <1>2

LEMMA SubmitKeeps ==
    ASSUME TypeOK, TypeOK', GraceInv, NEW r \in Runs, Submit(r)
    PROVE  GraceInv'
<1>1. /\ sent' = Append(sent, runs[r].block) /\ lastSend' = lastSend
      /\ runs[r].step = "submit" /\ runs'[r].step = "done"
      /\ \A s \in Runs : s # r => runs'[s] = runs[s]
  BY DEF Submit, TypeOK, Run
<1>2. Holds(r) /\ runs[r].block \in Nat /\ sent \in Seq(Nat)
  BY <1>1 DEF Holds, TypeOK, Run
<1>3. /\ Len(sent) \in Nat /\ DOMAIN sent = 1..Len(sent)
      /\ DOMAIN sent' = 1..(Len(sent) + 1)
      /\ \A i \in DOMAIN sent : sent'[i] = sent[i]
      /\ sent'[Len(sent) + 1] = runs[r].block
  BY <1>1, <1>2, LenProperties, AppendProperties
<1>4. \A i \in DOMAIN sent' : i \in DOMAIN sent \/ i = Len(sent) + 1
  BY <1>3
<1>5. \A s \in Runs : Holds(s)' => s # r /\ Holds(s) /\ runs'[s].block = runs[s].block
  BY <1>1 DEF Holds
<1>6. \A b, c : Apart(b, c) => Apart(c, b)
  BY DEF Apart
<1>7. OneSendPerGracePeriod'
  BY <1>2, <1>3, <1>4, <1>6 DEF GraceInv, OneSendPerGracePeriod
<1>8. \A s \in Runs, i \in DOMAIN sent' : Holds(s)' => Apart(runs'[s].block, sent'[i])
  BY <1>2, <1>3, <1>4, <1>5 DEF GraceInv
<1>9. \A i \in DOMAIN sent' : lastSend' # Unset /\ sent'[i] <= lastSend'
  BY <1>1, <1>2, <1>3, <1>4 DEF GraceInv
<1>10. \A s \in Runs : runs'[s].step = "swap" =>
         runs'[s].seen = Unset \/ runs'[s].seen + GracePeriod <= runs'[s].block
  BY <1>1 DEF GraceInv
<1>11. /\ \A s \in Runs : Holds(s)' => lastSend' # Unset /\ runs'[s].block <= lastSend'
       /\ \A s, t \in Runs : Holds(s)' /\ Holds(t)' /\ s # t =>
            Apart(runs'[s].block, runs'[t].block)
  BY <1>1, <1>5 DEF GraceInv
<1> QED
  BY <1>7, <1>8, <1>9, <1>10, <1>11 DEF GraceInv

LEMMA GraceStep == TypeOK /\ TypeOK' /\ GraceInv /\ [Next]_vars => GraceInv'
<1> SUFFICES ASSUME TypeOK, TypeOK', GraceInv, [Next]_vars PROVE GraceInv'
  OBVIOUS
<1>1. ASSUME NEW number \in 0..MaxBlock, ImportBlock(number)
      PROVE  GraceInv'
  BY <1>1, QuietStep DEF ImportBlock, Holds, GraceInv
<1>2. ASSUME NEW r \in Runs, offchain_worker(r)
      PROVE  GraceInv'
  BY <1>2, QuietStep DEF offchain_worker, NoRun, Holds, GraceInv, TypeOK
<1>3. ASSUME NEW r \in Runs, RunStep(r)
      PROVE  GraceInv'
  <2>1. CASE ReadLastSend(r)
    <3>1. lastSend = Unset \/ lastSend + GracePeriod <= runs[r].block \/ RecentlySent(r)
      BY WorkerAssumption DEF RecentlySent, TypeOK, Run
    <3>2. \A s \in Runs : s # r => runs'[s] = runs[s]
      BY <2>1 DEF ReadLastSend, Goto, TypeOK
    <3>3. \/ runs'[r].step = "done"
          \/ /\ runs'[r].step = "swap" /\ runs'[r].seen = lastSend
             /\ runs'[r].block = runs[r].block /\ ~RecentlySent(r)
      BY <2>1 DEF ReadLastSend, Goto, TypeOK, Run
    <3>4. lastSend' = lastSend /\ sent' = sent
      BY <2>1 DEF ReadLastSend
    <3> QED
      BY <3>1, <3>2, <3>3, <3>4, QuietStep DEF Holds, GraceInv
  <2>2. CASE SwapLastSend(r)
    BY <2>2, SwapKeeps
  <2>3. CASE get_validator_id(r)
    <3>1. \A s \in Runs : s # r => runs'[s] = runs[s]
      BY <2>3 DEF get_validator_id, Goto, TypeOK
    <3>2. /\ Holds(r) /\ runs'[r].block = runs[r].block
          /\ runs'[r].step \in {"sets", "done"}
      BY <2>3 DEF get_validator_id, Goto, TypeOK, Run, Holds
    <3>3. lastSend' = lastSend /\ sent' = sent
      BY <2>3 DEF get_validator_id
    <3> QED
      BY <3>1, <3>2, <3>3, QuietStep DEF Holds, GraceInv
  <2>4. CASE Submit(r)
    BY <2>4, SubmitKeeps
  <2>5. ASSUME NEW here \in {"sets", "notes"}, NEW next \in {"notes", "done"},
               NEW answer \in Answers, NEW failsafe \in Answers,
               Ask(r, here, next, answer, failsafe)
        PROVE  GraceInv'
    <3>1. \A s \in Runs : s # r => runs'[s] = runs[s]
      BY <2>5 DEF Ask, TypeOK
    <3>2. /\ Holds(r) /\ runs'[r].block = runs[r].block
          /\ runs'[r].step \in {"submit", "notes", "done"}
      BY <2>5 DEF Ask, TypeOK, Run, Holds, Answers
    <3>3. lastSend' = lastSend /\ sent' = sent
      BY <2>5 DEF Ask
    <3> QED
      BY <3>1, <3>2, <3>3, QuietStep DEF Holds, GraceInv
  <2> QED
    BY <1>3, <2>1, <2>2, <2>3, <2>4, <2>5, StepOfRun
<1>4. CASE Restart
  BY <1>4, QuietStep DEF Restart, NoRun, Holds
<1>5. CASE UNCHANGED vars
  BY <1>5, QuietStep DEF vars, Holds, GraceInv
<1> QED
  BY <1>1, <1>2, <1>3, <1>4, <1>5 DEF Next

LEMMA GraceInit == Init => GraceInv
BY DEF Init, GraceInv, NoRun, Holds, OneSendPerGracePeriod

\* Whatever runs go on at the same time, on whichever branches and across
\* restarts, the node sends once per grace period.
THEOREM GracePeriodKept == Spec => []OneSendPerGracePeriod
<1>1. GraceInv => OneSendPerGracePeriod
  BY DEF GraceInv
<1> QED
  BY <1>1, GraceInit, GraceStep, TypeCorrect, PTL DEF Spec
-----------------------------------------------------------------------------
\* The lock. All steps but two leave last_send and what was sent alone, and a
\* run holds no more than before.
Quiet ==
    /\ lastSend' = lastSend /\ sent' = sent
    /\ \A r \in Runs : Holds(r)' => Holds(r) /\ runs'[r].block = runs[r].block

Swaps(r) == SwapLastSend(r) /\ lastSend = runs[r].seen

LEMMA QuietRunStep ==
    ASSUME TypeOK, NEW r \in Runs, RunStep(r)
    PROVE  Quiet \/ Swaps(r) \/ Submit(r)
<1> SUFFICES ASSUME ~Swaps(r), ~Submit(r) PROVE Quiet
  OBVIOUS
<1>1. SUFFICES /\ lastSend' = lastSend /\ sent' = sent
               /\ \A s \in Runs : s # r => runs'[s] = runs[s]
               /\ Holds(r)' => Holds(r) /\ runs'[r].block = runs[r].block
  BY DEF Quiet, Holds
<1>2. CASE ReadLastSend(r)
  <2>1. lastSend' = lastSend /\ sent' = sent
    BY <1>2 DEF ReadLastSend
  <2>2. \A s \in Runs : s # r => runs'[s] = runs[s]
    BY <1>2 DEF ReadLastSend, Goto, TypeOK
  <2>3. runs'[r].step \in {"swap", "done"}
    BY <1>2 DEF ReadLastSend, Goto, TypeOK, Run
  <2> QED
    BY <2>1, <2>2, <2>3 DEF Holds
<1>3. CASE SwapLastSend(r)
  <2>1. /\ lastSend' = lastSend /\ sent' = sent
        /\ runs' = [runs EXCEPT ![r].step = "done"]
    BY <1>3 DEF Swaps, SwapLastSend, Goto
  <2>2. runs'[r].step = "done" /\ \A s \in Runs : s # r => runs'[s] = runs[s]
    BY <2>1 DEF TypeOK, Run
  <2> QED
    BY <2>1, <2>2 DEF Holds
<1>4. CASE get_validator_id(r)
  <2>1. lastSend' = lastSend /\ sent' = sent /\ Holds(r)
    BY <1>4 DEF get_validator_id, Holds
  <2>2. \A s \in Runs : s # r => runs'[s] = runs[s]
    BY <1>4 DEF get_validator_id, Goto, TypeOK
  <2>3. runs'[r].block = runs[r].block
    BY <1>4 DEF get_validator_id, Goto, TypeOK, Run
  <2> QED
    BY <2>1, <2>2, <2>3
<1>5. ASSUME NEW here \in {"sets", "notes"}, NEW next \in {"notes", "done"},
             NEW answer \in Answers, NEW failsafe \in Answers,
             Ask(r, here, next, answer, failsafe)
      PROVE  /\ lastSend' = lastSend /\ sent' = sent
             /\ \A s \in Runs : s # r => runs'[s] = runs[s]
             /\ Holds(r)' => Holds(r) /\ runs'[r].block = runs[r].block
  <2>1. lastSend' = lastSend /\ sent' = sent /\ Holds(r)
    BY <1>5 DEF Ask, Holds
  <2>2. \A s \in Runs : s # r => runs'[s] = runs[s]
    BY <1>5 DEF Ask, TypeOK
  <2>3. runs'[r].block = runs[r].block
    BY <1>5 DEF Ask, TypeOK, Run
  <2> QED
    BY <2>1, <2>2, <2>3
<1> QED
  BY <1>2, <1>3, <1>4, <1>5, StepOfRun

LEMMA QuietOrNot ==
    ASSUME TypeOK, [Next]_vars
    PROVE  Quiet \/ \E r \in Runs : Swaps(r) \/ Submit(r)
<1>1. ASSUME NEW number \in 0..MaxBlock, ImportBlock(number)
      PROVE  Quiet
  BY <1>1 DEF ImportBlock, Quiet, Holds
<1>2. ASSUME NEW r \in Runs, offchain_worker(r)
      PROVE  Quiet
  <2>1. lastSend' = lastSend /\ sent' = sent
    BY <1>2 DEF offchain_worker
  <2>2. runs'[r].step = "read" /\ \A s \in Runs : s # r => runs'[s] = runs[s]
    BY <1>2 DEF offchain_worker, NoRun, TypeOK
  <2> QED
    BY <2>1, <2>2 DEF Quiet, Holds
<1>3. CASE Restart
  BY <1>3 DEF Restart, NoRun, Quiet, Holds
<1>4. CASE UNCHANGED vars
  BY <1>4 DEF vars, Quiet, Holds
<1> QED
  BY <1>1, <1>2, <1>3, <1>4, QuietRunStep DEF Next

\* A quiet step gives up what is not held any more.
LEMMA QuietGivesUp ==
    ASSUME Quiet
    PROVE  \E some \in SUBSET Runs : Lock!GiveUp(some)
<1>1. PICK some \in SUBSET Runs : \A r \in Runs : r \in some <=> ~Holds(r)'
  <2>1. {r \in Runs : ~Holds(r)'} \in SUBSET Runs
    OBVIOUS
  <2> QED
    BY <2>1
<1>2. Held' = [r \in Runs |-> IF r \in some THEN Unset ELSE Held[r]]
  <2>1. Held' = [r \in Runs |-> IF Holds(r)' THEN runs'[r].block ELSE Unset]
    BY DEF Held
  <2> QED
    BY <1>1, <2>1 DEF Quiet, Held
<1>3. lastSend' = lastSend /\ sent' = sent
  BY DEF Quiet
<1> QED
  BY <1>2, <1>3 DEF Lock!GiveUp, Lock!Free, Unset

\* When one run moves, what the others hold stays.
LEMMA OneMoves ==
    ASSUME NEW r \in Runs, \A s \in Runs : s # r => runs'[s] = runs[s]
    PROVE  Held' = [Held EXCEPT ![r] = IF Holds(r)' THEN runs'[r].block ELSE Unset]
<1>1. Held' = [s \in Runs |-> IF Holds(s)' THEN runs'[s].block ELSE Unset]
  BY DEF Held
<1>2. \A s \in Runs : s # r => (Holds(s)' <=> Holds(s))
  BY DEF Holds
<1>3. \A s \in Runs : s # r => Held'[s] = Held[s]
  BY <1>1, <1>2 DEF Held
<1> QED
  BY <1>1, <1>3 DEF Held

\* The swap that succeeds is where the lock is taken: what it compares with
\* was judged when it was read.
LEMMA SwapTakes ==
    ASSUME TypeOK, GraceInv, NEW r \in Runs, Swaps(r)
    PROVE  Lock!Take(r)
<1>1. /\ runs[r].step = "swap" /\ lastSend = runs[r].seen
      /\ lastSend' = runs[r].block /\ sent' = sent
      /\ runs' = [runs EXCEPT ![r].step = "key"]
  BY DEF Swaps, SwapLastSend, Goto
<1>2. /\ runs'[r].step = "key" /\ runs'[r].block = runs[r].block
      /\ \A s \in Runs : s # r => runs'[s] = runs[s]
  BY <1>1 DEF TypeOK, Run
<1>3. runs[r].block \in Nat /\ (lastSend = Unset \/ lastSend + GracePeriod <= runs[r].block)
  BY <1>1 DEF TypeOK, Run, GraceInv
<1>4. ~Holds(r) /\ Holds(r)'
  BY <1>1, <1>2 DEF Holds
<1>5. Held[r] = Unset
  BY <1>4 DEF Held
<1>6. Held' = [Held EXCEPT ![r] = lastSend']
  BY <1>1, <1>2, <1>4, OneMoves
<1> QED
  BY <1>1, <1>3, <1>5, <1>6 DEF Lock!Take, Lock!Free, Unset

LEMMA SubmitSends ==
    ASSUME TypeOK, NEW r \in Runs, Submit(r)
    PROVE  Lock!Send(r)
<1>1. /\ runs[r].step = "submit" /\ sent' = Append(sent, runs[r].block)
      /\ lastSend' = lastSend
      /\ runs' = [runs EXCEPT ![r].step = "done", ![r].tried = TRUE]
  BY DEF Submit
<1>2. runs'[r].step = "done" /\ \A s \in Runs : s # r => runs'[s] = runs[s]
  BY <1>1 DEF TypeOK, Run
<1>3. Holds(r) /\ ~Holds(r)'
  BY <1>1, <1>2 DEF Holds
<1>4. Held[r] = runs[r].block /\ runs[r].block # Unset
  BY <1>3 DEF TypeOK, Run, Held, Unset
<1>5. Held' = [Held EXCEPT ![r] = Unset]
  BY <1>2, <1>3, OneMoves
<1> QED
  BY <1>1, <1>4, <1>5 DEF Lock!Send, Lock!Free, Unset

LEMMA LockStep == TypeOK /\ GraceInv /\ [Next]_vars => [Lock!LockNext]_Lock!lockVars
<1> SUFFICES ASSUME TypeOK, GraceInv, [Next]_vars PROVE Lock!LockNext
  OBVIOUS
<1>1. CASE Quiet
  BY <1>1, QuietGivesUp DEF Lock!LockNext
<1>2. ASSUME NEW r \in Runs, Swaps(r) PROVE Lock!LockNext
  BY <1>2, SwapTakes DEF Lock!LockNext
<1>3. ASSUME NEW r \in Runs, Submit(r) PROVE Lock!LockNext
  BY <1>3, SubmitSends DEF Lock!LockNext
<1> QED
  BY <1>1, <1>2, <1>3, QuietOrNot

LEMMA LockInit == Init => Lock!LockInit
BY DEF Init, NoRun, Holds, Held, Unset, Lock!LockInit, Lock!Free

\* However reads and swaps of concurrent runs are mixed, last_send is a lock
\* that is taken in one step.
THEOREM LockImplemented == Spec => ImplementsLock
BY GraceInit, GraceStep, TypeInit, TypeStep, LockInit, LockStep, PTL
DEF Spec, ImplementsLock, Lock!LockSpec
-----------------------------------------------------------------------------
\* What is no liveness in RunsEnd: a bound on the steps of a run, which each of
\* its own steps lowers and no other step raises.

StepsLeft == [step \in Steps |->
    CASE step = "read" -> 6 [] step = "swap" -> 5 [] step = "key" -> 4
      [] step = "sets" -> 3 [] step = "notes" -> 2 [] step = "submit" -> 1
      [] OTHER -> 0]

Nearer(r) == StepsLeft[runs'[r].step] < StepsLeft[runs[r].step]

RunsGoOn == \A r \in Runs : ~Ended(r) => runs'[r] = runs[r] \/ Nearer(r)

LEMMA NearerIfEnded ==
    ASSUME TypeOK, NEW r \in Runs, ~Ended(r), runs'[r].step \in {"idle", "done"}
    PROVE  Nearer(r)
<1>1. runs[r].step \in {"read", "swap", "key", "sets", "notes", "submit"}
  BY DEF TypeOK, Run, Steps, Ended
<1> QED
  BY <1>1 DEF Nearer, StepsLeft, Steps

LEMMA RunStepNearer ==
    ASSUME TypeOK, NEW r \in Runs, RunStep(r)
    PROVE  Nearer(r) /\ \A s \in Runs : s # r => runs'[s] = runs[s]
<1>1. CASE ReadLastSend(r)
  <2>1. runs[r].step = "read" /\ runs'[r].step \in {"swap", "done"}
    BY <1>1 DEF ReadLastSend, Goto, TypeOK, Run
  <2>2. \A s \in Runs : s # r => runs'[s] = runs[s]
    BY <1>1 DEF ReadLastSend, Goto, TypeOK
  <2> QED
    BY <2>1, <2>2 DEF Nearer, StepsLeft, Steps
<1>2. CASE SwapLastSend(r)
  <2>1. runs[r].step = "swap" /\ runs'[r].step \in {"key", "done"}
    BY <1>2 DEF SwapLastSend, Goto, TypeOK, Run
  <2>2. \A s \in Runs : s # r => runs'[s] = runs[s]
    BY <1>2 DEF SwapLastSend, Goto, TypeOK
  <2> QED
    BY <2>1, <2>2 DEF Nearer, StepsLeft, Steps
<1>3. CASE get_validator_id(r)
  <2>1. runs[r].step = "key" /\ runs'[r].step \in {"sets", "done"}
    BY <1>3 DEF get_validator_id, Goto, TypeOK, Run
  <2>2. \A s \in Runs : s # r => runs'[s] = runs[s]
    BY <1>3 DEF get_validator_id, Goto, TypeOK
  <2> QED
    BY <2>1, <2>2 DEF Nearer, StepsLeft, Steps
<1>4. CASE Submit(r)
  <2>1. runs[r].step = "submit" /\ runs'[r].step = "done"
    BY <1>4 DEF Submit, TypeOK, Run
  <2>2. \A s \in Runs : s # r => runs'[s] = runs[s]
    BY <1>4 DEF Submit, TypeOK
  <2> QED
    BY <2>1, <2>2 DEF Nearer, StepsLeft, Steps
<1>5. ASSUME NEW here \in Steps, NEW next \in Steps,
             NEW answer \in Answers, NEW failsafe \in Answers,
             <<here, next>> \in {<<"sets", "notes">>, <<"notes", "done">>},
             Ask(r, here, next, answer, failsafe)
      PROVE  Nearer(r) /\ \A s \in Runs : s # r => runs'[s] = runs[s]
  <2>1. runs[r].step = here /\ runs'[r].step \in {next, "submit", "done"}
    BY <1>5 DEF Ask, TypeOK, Run, Answers
  <2>2. \A s \in Runs : s # r => runs'[s] = runs[s]
    BY <1>5 DEF Ask, TypeOK
  <2>3. Nearer(r)
    BY <1>5, <2>1 DEF Nearer, StepsLeft, Steps
  <2> QED
    BY <2>2, <2>3
<1>6. \/ ReadLastSend(r) \/ SwapLastSend(r) \/ get_validator_id(r) \/ Submit(r)
      \/ \E here, next \in Steps, answer, failsafe \in Answers :
           /\ <<here, next>> \in {<<"sets", "notes">>, <<"notes", "done">>}
           /\ Ask(r, here, next, answer, failsafe)
  BY DEF RunStep, get_validator_list_of, get_appchain_notification_histories, Steps
<1> QED
  BY <1>1, <1>2, <1>3, <1>4, <1>5, <1>6

LEMMA GoOnStep == TypeOK /\ [Next]_vars => [RunsGoOn]_vars
<1> SUFFICES ASSUME TypeOK, [Next]_vars PROVE RunsGoOn
  OBVIOUS
<1>1. ASSUME NEW r \in Runs, offchain_worker(r)
      PROVE  RunsGoOn
  <2>1. Ended(r) /\ \A s \in Runs : s # r => runs'[s] = runs[s]
    BY <1>1 DEF offchain_worker, TypeOK
  <2> QED
    BY <2>1 DEF RunsGoOn
<1>2. ASSUME NEW r \in Runs, RunStep(r)
      PROVE  RunsGoOn
  BY <1>2, RunStepNearer DEF RunsGoOn
<1>3. CASE Restart
  <2>1. \A r \in Runs : runs'[r].step = "idle"
    BY <1>3 DEF Restart, NoRun
  <2> QED
    BY <2>1, NearerIfEnded DEF RunsGoOn
<1>4. CASE runs' = runs
  BY <1>4 DEF RunsGoOn
<1> QED
  BY <1>1, <1>2, <1>3, <1>4 DEF Next, ImportBlock, vars

\* A run takes at most six steps, whatever happens in between: it is never sent
\* back. That it takes them is the fairness in RunsEnd.
THEOREM RunsOnlyAdvance == Spec => [][RunsGoOn]_vars
BY TypeInit, TypeStep, GoOnStep, PTL DEF Spec
=============================================================================
