----------------------------- MODULE GoFanOutProofs -----------------------------
(***************************************************************************)
(* Proofs about GoFanOut, for any number of targets, seed peers, retries   *)
(* and places.                                                             *)
(***************************************************************************)
EXTENDS GoFanOut, TLAPS

States == {"none", "ready", "sent", "ok", "failed"}
Over == {"none", "ok", "failed"}

LEMMA MaxRetriesIsNat == MaxRetries \in Nat
BY GoFanOutAssumption DEF GoFanOutAssumption

LEMMA InitEstablishes == Init => IndInv
<1> SUFFICES ASSUME Init
             PROVE  IndInv
  OBVIOUS
<1>1. TypeOK
  <2>1. task \in [Targets -> [Peers -> States]]
    BY DEF Init, Nothing, States
  <2>2. 0 \in 0 .. 1 + MaxRetries
    BY MaxRetriesIsNat
  <2>3. attempts \in [Targets -> [Peers -> 0 .. 1 + MaxRetries]]
    BY <2>2 DEF Init, NoAttempts
  <2>4. QED
    BY <2>1, <2>3 DEF Init, TypeOK, States
<1>2. \A t \in Targets : Kept(t) /\ \A p \in Peers : Tried(t, p)
  BY DEF Init, Kept, Tried, Nothing, NoAttempts
<1>3. Stage
  BY DEF Init, Stage
<1>4. QED
  BY <1>1, <1>2, <1>3 DEF IndInv

\* While a goroutine of the groups is at work, the call is running.
LEMMA WorkMeansRunning ==
    ASSUME IndInv, NEW t \in Targets, target[t] \in {"selecting", "waiting"}
    PROVE  pc = "running"
BY DEF IndInv, TypeOK, Stage

--------------------------------------------------------------------------------
(* The call. *)

\* What a step keeps that changes neither a goroutine nor an error.
LEMMA TargetsKeep ==
    ASSUME IndInv, UNCHANGED <<target, task, attempts, innerErr, outerErr>>,
           callerDone => callerDone'
    PROVE  \A t \in Targets : Kept(t)' /\ \A p \in Peers : Tried(t, p)'
BY DEF IndInv, Kept, Tried

LEMMA CallStep ==
    ASSUME IndInv, Call
    PROVE  IndInv'
<1>1. TypeOK'
  BY DEF Call, IndInv, TypeOK
<1>2. Stage'
  BY DEF Call, IndInv, Stage
<1>3. QED
  BY <1>1, <1>2, TargetsKeep DEF Call, IndInv

LEMMA CallInVainStep ==
    ASSUME IndInv, CallInVain
    PROVE  IndInv'
<1>1. TypeOK'
  BY DEF CallInVain, IndInv, TypeOK, Errors
<1>2. \A t \in Targets : Kept(t)' /\ \A p \in Peers : Tried(t, p)'
  BY DEF CallInVain, IndInv, Kept, Tried
<1>3. Stage'
  BY DEF CallInVain, IndInv, Stage
<1>4. QED
  BY <1>1, <1>2, <1>3 DEF IndInv

LEMMA ReturnStep ==
    ASSUME IndInv, Return
    PROVE  IndInv'
<1>1. TypeOK'
  BY DEF Return, IndInv, TypeOK
<1>2. Stage'
  BY DEF Return, IndInv, Stage
<1>3. QED
  BY <1>1, <1>2, TargetsKeep DEF Return, IndInv

LEMMA CallerEndsStep ==
    ASSUME IndInv, CallerEnds
    PROVE  IndInv'
<1>1. TypeOK'
  BY DEF CallerEnds, IndInv, TypeOK
<1>2. Stage'
  BY DEF CallerEnds, IndInv, Stage
<1>3. QED
  BY <1>1, <1>2, TargetsKeep DEF CallerEnds, IndInv

\* Whether the call returned or failed before it began, no attempts are left over.
LEMMA TakeResultStep ==
    ASSUME IndInv, TakeResult
    PROVE  IndInv'
<1>1. TypeOK'
  BY DEF TakeResult, IndInv, TypeOK, Nothing
<1>2. \A t \in Targets : target[t] \in {"none", "over"}
  BY DEF TakeResult, IndInv, Stage
<1>3. \A t \in Targets, p \in Peers : attempts[t][p] = 0
  BY <1>2 DEF IndInv, Tried
<1>4. \A t \in Targets : Kept(t)' /\ \A p \in Peers : Tried(t, p)'
  BY <1>3 DEF TakeResult, Kept, Tried, Nothing
<1>5. Stage'
  BY DEF TakeResult, Stage
<1>6. QED
  BY <1>1, <1>4, <1>5 DEF IndInv

--------------------------------------------------------------------------------
(* The goroutine of a target. *)

LEMMA SpawnStep ==
    ASSUME IndInv, NEW t \in Targets, Spawn(t)
    PROVE  IndInv'
<1>1. TypeOK'
  BY DEF Spawn, IndInv, TypeOK
<1>2. target[t] = "none" /\ target'[t] = "selecting"
      /\ \A u \in Targets \ {t} : target'[u] = target[u]
  BY DEF Spawn, IndInv, TypeOK
<1>3. \A u \in Targets : Kept(u)' /\ \A p \in Peers : Tried(u, p)'
  BY <1>2 DEF Spawn, IndInv, Kept, Tried
<1>4. Stage'
  BY DEF Spawn, IndInv, Stage
<1>5. QED
  BY <1>1, <1>3, <1>4 DEF IndInv

LEMMA SelectStep ==
    ASSUME IndInv, NEW t \in Targets, NEW S \in SUBSET Peers, Select(t, S)
    PROVE  IndInv'
<1>1. TypeOK'
  <2>1. target' \in [Targets -> {"none", "selecting", "waiting", "over"}]
    BY DEF Select, IndInv, TypeOK
  <2>2. [p \in Peers |-> IF p \in S THEN "ready" ELSE "none"] \in [Peers -> States]
    BY DEF States
  <2>3. task' \in [Targets -> [Peers -> States]]
    BY <2>2 DEF Select, IndInv, TypeOK, States
  <2>4. QED
    BY <2>1, <2>3 DEF Select, IndInv, TypeOK, States
<1>2. /\ target[t] = "selecting" /\ target'[t] = "waiting"
      /\ \A p \in Peers : task'[t][p] \in {"none", "ready"}
      /\ \A u \in Targets \ {t} : target'[u] = target[u] /\ task'[u] = task[u]
  BY DEF Select, IndInv, TypeOK
<1>3. \A p \in Peers : attempts[t][p] = 0
  BY <1>2 DEF IndInv, Tried
<1>4. \A u \in Targets : Kept(u)'
  BY <1>2 DEF Select, IndInv, Kept
<1>5. \A u \in Targets, p \in Peers : Tried(u, p)'
  BY <1>2, <1>3, MaxRetriesIsNat DEF Select, IndInv, Tried
<1>6. Stage'
  BY <1>2, WorkMeansRunning DEF Select, IndInv, Stage
<1>7. QED
  BY <1>1, <1>4, <1>5, <1>6 DEF IndInv

\* A goroutine of the targets that is over hands its error to the group of the call.
LEMMA HandOnStep ==
    ASSUME IndInv, NEW t \in Targets, target[t] \in {"selecting", "waiting"},
           NEW err \in Errors \cup {"none"},
           innerErr[t] # "none" => err # "none",
           err = "cancelled" => err = innerErr[t],
           \A p \in Peers : task[t][p] \in Over,
           target' = [target EXCEPT ![t] = "over"],
           outerErr' = First(outerErr, err),
           UNCHANGED <<pc, task, attempts, innerErr, callerDone>>
    PROVE  IndInv'
<1>1. TypeOK'
  BY DEF IndInv, TypeOK, First
<1>2. target'[t] = "over" /\ \A u \in Targets \ {t} : target'[u] = target[u]
  BY DEF IndInv, TypeOK
<1>3. outerErr # "none" => outerErr' = outerErr
  BY DEF First
<1>4. innerErr[t] # "none" => outerErr' # "none"
  BY DEF First
<1>5. \A u \in Targets : Kept(u)'
  BY <1>2, <1>3, <1>4 DEF IndInv, Kept
<1>6. \A u \in Targets, p \in Peers : Tried(u, p)'
  BY <1>2 DEF IndInv, Tried, Over
<1>7. pc = "running"
  BY WorkMeansRunning
<1>8. outerErr' = "cancelled" => callerDone
  BY DEF First, IndInv, Kept, Stage
<1>9. Stage'
  BY <1>7, <1>8 DEF Stage
<1>10. QED
  BY <1>1, <1>5, <1>6, <1>9 DEF IndInv

LEMMA SelectInVainStep ==
    ASSUME IndInv, NEW t \in Targets, SelectInVain(t)
    PROVE  IndInv'
<1>1. \A p \in Peers : task[t][p] \in Over
  BY DEF SelectInVain, IndInv, Tried, Over
<1>2. QED
  BY <1>1, HandOnStep DEF SelectInVain, Errors

LEMMA WaitStep ==
    ASSUME IndInv, NEW t \in Targets, Wait(t)
    PROVE  IndInv'
<1>1. innerErr[t] \in Errors \cup {"none"}
  BY DEF IndInv, TypeOK
<1>2. QED
  BY <1>1, HandOnStep DEF Wait, Over

--------------------------------------------------------------------------------
(* The goroutine of a seed peer. *)

\* A step of one of them changes its own state and attempts, and the error of its group.
LEMMA PeerStep ==
    ASSUME IndInv, NEW t \in Targets, NEW p \in Peers,
           task[t][p] \in {"ready", "sent"},
           NEW state \in States, SetTask(t, p, state),
           NEW n \in 0 .. 1 + MaxRetries, attempts' = [attempts EXCEPT ![t][p] = n],
           NEW err \in Errors \cup {"none"},
           innerErr' = [innerErr EXCEPT ![t] = First(@, err)],
           UNCHANGED <<pc, target, outerErr, callerDone>>,
           state \in Over => n = 0,
           state = "ready" => n <= MaxRetries,
           state = "failed" => err # "none",
           err = "cancelled" => CtxDone(t)
    PROVE  IndInv'
<1>1. TypeOK'
  <2>1. task' \in [Targets -> [Peers -> States]]
    BY DEF SetTask, IndInv, TypeOK, States
  <2>2. attempts' \in [Targets -> [Peers -> 0 .. 1 + MaxRetries]]
    BY DEF IndInv, TypeOK
  <2>3. innerErr' \in [Targets -> Errors \cup {"none"}]
    BY DEF IndInv, TypeOK, First
  <2>4. QED
    BY <2>1, <2>2, <2>3 DEF IndInv, TypeOK, States
<1>2. task'[t][p] = state /\ attempts'[t][p] = n /\ innerErr'[t] = First(innerErr[t], err)
  BY DEF SetTask, IndInv, TypeOK
<1>3. \A u \in Targets, q \in Peers :
          u # t \/ q # p => task'[u][q] = task[u][q] /\ attempts'[u][q] = attempts[u][q]
  BY DEF SetTask, IndInv, TypeOK
<1>4. \A u \in Targets \ {t} : innerErr'[u] = innerErr[u]
  BY DEF IndInv, TypeOK
<1>5. target[t] \notin {"none", "selecting", "over"}
  BY DEF IndInv, Tried
<1>6. \A u \in Targets : innerErr[u] # "none" => innerErr'[u] = innerErr[u]
  BY <1>2, <1>4 DEF First
<1>7. \A u \in Targets, q \in Peers : Tried(u, q)'
  <2>1. Tried(t, p)'
    BY <1>2, <1>5 DEF Tried, First, Over
  <2>2. ASSUME NEW u \in Targets, NEW q \in Peers, u # t \/ q # p
        PROVE  Tried(u, q)'
    BY <1>3, <1>6, <2>2 DEF IndInv, Tried
  <2>3. QED
    BY <2>1, <2>2
<1>8. \A u \in Targets : Kept(u)'
  <2>1. innerErr'[t] = "cancelled" => callerDone \/ outerErr = "cause"
    <3>1. CASE innerErr[t] # "none"
      BY <1>6, <3>1 DEF IndInv, Kept
    <3>2. CASE innerErr[t] = "none"
      BY <1>2, <3>2 DEF First, CtxDone, IndInv, Stage, TypeOK, Errors
    <3>3. QED
      BY <3>1, <3>2
  <2>2. Kept(t)'
    BY <1>5, <2>1 DEF Kept
  <2>3. \A u \in Targets \ {t} : Kept(u)'
    BY <1>4 DEF IndInv, Kept
  <2>4. QED
    BY <2>2, <2>3
<1>9. Stage'
  BY DEF IndInv, Stage
<1>10. QED
  BY <1>1, <1>7, <1>8, <1>9 DEF IndInv

\* The same when the goroutine does not fail: nothing is added to the error of its group.
LEMMA PeerGoesOn ==
    ASSUME IndInv, NEW t \in Targets, NEW p \in Peers,
           task[t][p] \in {"ready", "sent"},
           NEW state \in States \ {"failed"}, SetTask(t, p, state),
           NEW n \in 0 .. 1 + MaxRetries, attempts' = [attempts EXCEPT ![t][p] = n],
           UNCHANGED <<pc, target, innerErr, outerErr, callerDone>>,
           state \in Over => n = 0,
           state = "ready" => n <= MaxRetries
    PROVE  IndInv'
<1> DEFINE none == "none"
<1>1. innerErr' = [innerErr EXCEPT ![t] = First(@, none)]
  BY DEF IndInv, TypeOK, First
<1>2. none \in Errors \cup {"none"} /\ none # "cancelled"
  OBVIOUS
<1>3. state \in States /\ state # "failed"
  OBVIOUS
<1> HIDE DEF none
<1>4. QED
  BY <1>1, <1>2, <1>3, PeerStep

LEMMA SendStep ==
    ASSUME IndInv, NEW t \in Targets, NEW p \in Peers, Send(t, p)
    PROVE  IndInv'
<1>1. attempts[t][p] \in 0 .. MaxRetries
  BY MaxRetriesIsNat DEF Send, IndInv, TypeOK, Tried
<1>2. attempts[t][p] + 1 \in 0 .. 1 + MaxRetries
  BY <1>1, MaxRetriesIsNat
<1>3. attempts' = [attempts EXCEPT ![t][p] = attempts[t][p] + 1]
  BY DEF Send, IndInv, TypeOK
<1>4. "sent" \in States \ {"failed"} /\ "sent" \notin Over
  BY DEF States, Over
<1>5. QED
  BY <1>2, <1>3, <1>4, PeerGoesOn DEF Send

LEMMA AnswerStep ==
    ASSUME IndInv, NEW t \in Targets, NEW p \in Peers, Answer(t, p)
    PROVE  IndInv'
<1>1. 0 \in 0 .. 1 + MaxRetries
  BY MaxRetriesIsNat
<1>2. "ok" \in States \ {"failed"}
  BY DEF States
<1>3. QED
  BY <1>1, <1>2, PeerGoesOn DEF Answer

LEMMA FailStep ==
    ASSUME IndInv, NEW t \in Targets, NEW p \in Peers, NEW err \in Errors,
           task[t][p] \in {"ready", "sent"}, Fail(t, p, err),
           err = "cancelled" => CtxDone(t),
           UNCHANGED <<pc, target, outerErr, callerDone>>
    PROVE  IndInv'
<1>1. 0 \in 0 .. 1 + MaxRetries
  BY MaxRetriesIsNat
<1>2. QED
  BY <1>1, PeerStep DEF Fail, States, Over, Errors

LEMMA TransientStep ==
    ASSUME IndInv, NEW t \in Targets, NEW p \in Peers, Transient(t, p)
    PROVE  IndInv'
<1>1. task[t][p] = "sent" /\ UNCHANGED <<pc, target, outerErr, callerDone>>
  BY DEF Transient
<1>2. CASE LastTry(t, p)
  BY <1>1, <1>2, FailStep DEF Transient, Errors
<1>3. CASE ~LastTry(t, p) /\ CtxDone(t)
  BY <1>1, <1>3, FailStep DEF Transient, Errors
<1>4. CASE ~LastTry(t, p) /\ ~CtxDone(t)
  <2>1. SetTask(t, p, "ready") /\ UNCHANGED <<attempts, innerErr>>
    BY <1>4 DEF Transient
  <2>2. attempts[t][p] \in 0 .. 1 + MaxRetries /\ attempts[t][p] <= MaxRetries
    <3>1. attempts[t][p] \in 0 .. 1 + MaxRetries
      BY DEF IndInv, TypeOK
    <3>2. attempts[t][p] # 1 + MaxRetries
      BY <1>4 DEF LastTry
    <3>3. QED
      BY <3>1, <3>2, MaxRetriesIsNat
  <2>3. attempts' = [attempts EXCEPT ![t][p] = attempts[t][p]]
    <3>1. attempts \in [Targets -> [Peers -> 0 .. 1 + MaxRetries]]
      BY DEF IndInv, TypeOK
    <3>2. attempts' = attempts
      BY <2>1
    <3>3. QED
      BY <3>1, <3>2
  <2>4. "ready" \in States \ {"failed"} /\ "ready" \notin Over
    BY DEF States, Over
  <2>5. QED
    BY <1>1, <2>1, <2>2, <2>3, <2>4, PeerGoesOn
<1>5. QED
  BY <1>2, <1>3, <1>4

LEMMA RefuseStep ==
    ASSUME IndInv, NEW t \in Targets, NEW p \in Peers, Refuse(t, p)
    PROVE  IndInv'
BY FailStep DEF Refuse, Errors

LEMMA CancelStep ==
    ASSUME IndInv, NEW t \in Targets, NEW p \in Peers, Cancel(t, p)
    PROVE  IndInv'
BY FailStep DEF Cancel, Errors

--------------------------------------------------------------------------------

LEMMA NextPreserves == IndInv /\ [Next]_vars => IndInv'
<1> SUFFICES ASSUME IndInv, [Next]_vars
             PROVE  IndInv'
  OBVIOUS
<1>1. CASE Call \/ CallInVain \/ Return \/ CallerEnds \/ TakeResult
  BY <1>1, CallStep, CallInVainStep, ReturnStep, CallerEndsStep, TakeResultStep
<1>2. ASSUME NEW t \in Targets,
             \/ Spawn(t) \/ SelectInVain(t) \/ Wait(t)
             \/ \E S \in (SUBSET Peers) \ {{}} : Select(t, S)
      PROVE  IndInv'
  BY <1>2, SpawnStep, SelectInVainStep, WaitStep, SelectStep
<1>3. ASSUME NEW t \in Targets, NEW p \in Peers,
             \/ Send(t, p) \/ Answer(t, p) \/ Transient(t, p)
             \/ Refuse(t, p) \/ Cancel(t, p)
      PROVE  IndInv'
  BY <1>3, SendStep, AnswerStep, TransientStep, RefuseStep, CancelStep
<1>4. CASE UNCHANGED vars
  BY <1>4 DEF vars, IndInv, TypeOK, Kept, Tried, Stage
<1>5. QED
  BY <1>1, <1>2, <1>3, <1>4 DEF Next, Progress

\* The inductive invariant holds in every reachable state.
THEOREM Invariance == Spec => []IndInv
BY InitEstablishes, NextPreserves, PTL DEF Spec

\* Every variable has its type in every reachable state.
THEOREM TypeCorrect == Spec => []TypeOK
<1>1. IndInv => TypeOK
  BY DEF IndInv
<1>2. QED
  BY <1>1, Invariance, PTL

\* A call returns only when all its goroutines are over, and successfully only when
\* every seed peer addressed has answered.
THEOREM AllIsDone == Spec => []AllIsDoneAtReturn
<1>1. IndInv => AllIsDoneAtReturn
  <2> SUFFICES ASSUME IndInv, pc \in {"ok", "failed"}
               PROVE  /\ AtWork = {}
                      /\ \A t \in Targets, p \in Peers :
                             task[t][p] \in (IF pc = "ok" THEN {"none", "ok"} ELSE Over)
    BY DEF AllIsDoneAtReturn, Over
  <2>1. \A t \in Targets : target[t] \in {"none", "over"}
    BY DEF IndInv, Stage
  <2>2. AtWork = {}
    BY <2>1 DEF AtWork
  <2>3. \A t \in Targets, p \in Peers : task[t][p] \in Over
    BY <2>1 DEF IndInv, Tried, Over
  <2>4. CASE pc = "ok"
    <3>1. \A t \in Targets : innerErr[t] = "none"
      BY <2>4 DEF IndInv, Stage, Kept
    <3>2. \A t \in Targets, p \in Peers : task[t][p] # "failed"
      BY <3>1 DEF IndInv, Tried
    <3>3. QED
      BY <2>2, <2>3, <2>4, <3>2 DEF Over
  <2>5. QED
    BY <2>2, <2>3, <2>4
<1>2. QED
  BY <1>1, Invariance, PTL

\* A failed call whose caller's context has not ended reports a cause, not that a
\* goroutine was cancelled because of another.
THEOREM TheCauseIsReported == Spec => []ReportsTheCause
<1>1. IndInv => ReportsTheCause
  BY DEF IndInv, TypeOK, Stage, Errors, ReportsTheCause
<1>2. QED
  BY <1>1, Invariance, PTL
================================================================================
