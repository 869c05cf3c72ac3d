------------------------------ MODULE FanOutProofs ------------------------------
(***************************************************************************)
(* The proofs that preheats and deletes keep their promises for any number *)
(* of seed peers, calls and retries.  They go by the inductive invariant   *)
(* IndInv of FanOut: each part of it is shown to survive each action.      *)
(***************************************************************************)
EXTENDS FanOut, FiniteSetTheorems, TLAPS

\* Once enough of its replicas are selected for a preheat, all of them are.
LEMMA EnoughIsAll ==
    ASSUME NEW k \in Kinds, NEW s \in Scopes, NEW H \in SUBSET Peers,
           Enough(k, s, H), k = "preheat", s = "default"
    PROVE  Selected(s, H) = ReplicaSet
<1>1. IsFiniteSet(ReplicaSet)
  BY FanOutAssumption, FS_Subset DEF FanOutAssumption
<1>2. Selected(s, H) \subseteq ReplicaSet
  BY DEF Selected
<1>3. Cardinality(Selected(s, H)) >= Cardinality(ReplicaSet)
  <2>1. Cardinality(ReplicaSet) \in Nat /\ Cardinality(Selected(s, H)) \in Nat
    BY <1>1, <1>2, FS_Subset, FS_CardinalityType
  <2>2. QED
    BY <2>1, FanOutAssumption DEF FanOutAssumption, Enough
<1>4. QED
  BY <1>1, <1>2, <1>3, FS_Subset, FS_CardinalityType

\* What a task does to itself while its call is under way is no matter to the
\* calls that failed.
LEMMA CauseStands ==
    ASSUME FailsForCause, NEW c \in Calls, pc[c] # "failed", pc' = pc,
           \A d \in Calls \ {c} : task'[d] = task[d] /\ attempts'[d] = attempts[d]
    PROVE  FailsForCause'
<1> SUFFICES ASSUME NEW d \in Calls \ {c}, pc[d] = "failed"
             PROVE  \/ \A p \in Peers : task'[d][p] = "none"
                    \/ \E p \in Peers :
                          \/ task'[d][p] = "refused"
                          \/ task'[d][p] = "exhausted" /\ attempts'[d][p] = 1 + MaxRetries
  BY DEF FailsForCause
<1>1. QED
  BY DEF FailsForCause

LEMMA Initially == Init => IndInv
<1>1. ASSUME Init PROVE TypeOK
  BY <1>1, FanOutAssumption
     DEF Init, TypeOK, FanOutAssumption, NoTasks, NoAttempts, TaskStates, Kinds, Scopes
<1>2. ASSUME Init PROVE CallsAndTasks
  BY <1>2 DEF Init, CallsAndTasks, NoTasks, NoAttempts, Underway
<1>3. ASSUME Init PROVE WorkStaysDone
  BY <1>3 DEF Init, WorkStaysDone
<1>4. ASSUME Init PROVE FailsForCause
  BY <1>4 DEF Init, FailsForCause
<1>5. QED
  BY <1>1, <1>2, <1>3, <1>4 DEF IndInv

--------------------------------------------------------------------------------
(* One lemma for each action. *)

LEMMA Starting ==
    ASSUME IndInv, NEW c \in Calls, NEW k \in Kinds, NEW s \in Scopes,
           NEW H \in SUBSET Peers, Start(c, k, s, H)
    PROVE  IndInv'
<1> USE DEF IndInv
<1>1. TypeOK'
  <2>1. CASE Enough(k, s, H)
    <3>1. task' \in [Calls -> [Peers -> TaskStates]]
      BY <2>1 DEF Start, TypeOK, TaskStates
    <3>2. undisturbed' \in SUBSET Calls
      BY <2>1 DEF Start, TypeOK
    <3>3. QED
      BY <2>1, <3>1, <3>2 DEF Start, TypeOK
  <2>2. CASE ~Enough(k, s, H)
    BY <2>2 DEF Start, TypeOK
  <2>3. QED
    BY <2>1, <2>2
<1>2. CallsAndTasks'
  <2>1. CASE Enough(k, s, H)
    BY <2>1, EnoughIsAll, FanOutAssumption
       DEF FanOutAssumption, Start, TypeOK, CallsAndTasks, Addressed, Underway, Active,
           NoTasks, NoAttempts
  <2>2. CASE ~Enough(k, s, H)
    BY <2>2 DEF Start, TypeOK, CallsAndTasks, Addressed, Underway, Active, NoTasks
  <2>3. QED
    BY <2>1, <2>2
<1>3. WorkStaysDone'
  <2>1. CASE Enough(k, s, H)
    BY <2>1 DEF Start, TypeOK, WorkStaysDone, Active, Alone, Disturbed
  <2>2. CASE ~Enough(k, s, H)
    BY <2>2 DEF Start, TypeOK, WorkStaysDone, Active
  <2>3. QED
    BY <2>1, <2>2
<1>4. FailsForCause'
  <2>1. CASE Enough(k, s, H)
    BY <2>1 DEF Start, TypeOK, FailsForCause
  <2>2. CASE ~Enough(k, s, H)
    <3>1. UNCHANGED <<task, attempts>> /\ task[c] = NoTasks
      BY <2>2 DEF Start, CallsAndTasks
    <3>2. \A d \in Calls \ {c} : pc'[d] = pc[d]
      BY <2>2 DEF Start, TypeOK
    <3>3. QED
      BY <3>1, <3>2 DEF FailsForCause, NoTasks
  <2>3. QED
    BY <2>1, <2>2
<1>5. QED
  BY <1>1, <1>2, <1>3, <1>4

LEMMA Sending ==
    ASSUME IndInv, NEW c \in Calls, NEW p \in Peers, Send(c, p)
    PROVE  IndInv'
<1> USE DEF IndInv, Send, SetTask
<1>1. TypeOK'
  BY FanOutAssumption DEF FanOutAssumption, TypeOK, TaskStates, CallsAndTasks
<1>2. CallsAndTasks'
  BY DEF TypeOK, CallsAndTasks, Addressed, Underway, Active, NoTasks
<1>3. WorkStaysDone'
  BY DEF TypeOK, WorkStaysDone, Active
<1>4. FailsForCause'
  BY CauseStands DEF TypeOK, CallsAndTasks, Underway, Active
<1>5. QED
  BY <1>1, <1>2, <1>3, <1>4

LEMMA BeginningToStream ==
    ASSUME IndInv, NEW c \in Calls, NEW p \in Peers, Stream(c, p)
    PROVE  IndInv'
<1> USE DEF IndInv, Stream, SetTask
<1>1. TypeOK'
  BY DEF TypeOK, TaskStates
<1>2. CallsAndTasks'
  BY DEF TypeOK, CallsAndTasks, Addressed, Underway, Active, NoTasks
<1>3. WorkStaysDone'
  BY DEF TypeOK, WorkStaysDone, Active
<1>4. FailsForCause'
  BY CauseStands DEF TypeOK, CallsAndTasks, Underway, Active
<1>5. QED
  BY <1>1, <1>2, <1>3, <1>4

LEMMA Executing ==
    ASSUME IndInv, NEW c \in Calls, NEW p \in Peers, Execute(c, p)
    PROVE  IndInv'
<1> USE DEF IndInv, Execute, SetTask
<1>1. TypeOK'
  BY DEF TypeOK, TaskStates, Executed
<1>2. CallsAndTasks'
  BY DEF TypeOK, CallsAndTasks, Addressed, Underway, Active, NoTasks
<1>3. WorkStaysDone'
  BY DEF TypeOK, WorkStaysDone, CallsAndTasks, Underway, Active, Executed, Kinds
<1>4. FailsForCause'
  BY CauseStands DEF TypeOK, CallsAndTasks, Underway, Active
<1>5. QED
  BY <1>1, <1>2, <1>3, <1>4

LEMMA Answering ==
    ASSUME IndInv, NEW c \in Calls, NEW p \in Peers, Answer(c, p)
    PROVE  IndInv'
<1> USE DEF IndInv, Answer, SetTask
<1>1. TypeOK'
  BY DEF TypeOK, TaskStates
<1>2. CallsAndTasks'
  BY DEF TypeOK, CallsAndTasks, Addressed, Underway, Active, NoTasks
<1>3. WorkStaysDone'
  BY DEF TypeOK, WorkStaysDone, Active
<1>4. FailsForCause'
  BY CauseStands DEF TypeOK, CallsAndTasks, Underway, Active
<1>5. QED
  BY <1>1, <1>2, <1>3, <1>4

LEMMA FailingTransiently ==
    ASSUME IndInv, NEW c \in Calls, NEW p \in Peers, Transient(c, p)
    PROVE  IndInv'
<1> USE DEF IndInv, Transient, SetTask
<1>1. TypeOK'
  BY DEF TypeOK, TaskStates, OnTheWay
<1>2. CallsAndTasks'
  BY FanOutAssumption
     DEF FanOutAssumption, TypeOK, CallsAndTasks, Addressed, Underway, Active, NoTasks,
         RetriesLeft
<1>3. WorkStaysDone'
  BY DEF TypeOK, WorkStaysDone, CallsAndTasks, Underway, Active, OnTheWay
<1>4. FailsForCause'
  BY CauseStands DEF TypeOK, CallsAndTasks, Underway, Active
<1>5. QED
  BY <1>1, <1>2, <1>3, <1>4

LEMMA Refusing ==
    ASSUME IndInv, NEW c \in Calls, NEW p \in Peers, Refuse(c, p)
    PROVE  IndInv'
<1> USE DEF IndInv, Refuse, SetTask
<1>1. TypeOK'
  BY DEF TypeOK, TaskStates
<1>2. CallsAndTasks'
  BY DEF TypeOK, CallsAndTasks, Addressed, Underway, Active, NoTasks
<1>3. WorkStaysDone'
  BY DEF TypeOK, WorkStaysDone, Active
<1>4. FailsForCause'
  BY CauseStands DEF TypeOK, CallsAndTasks, Underway, Active
<1>5. QED
  BY <1>1, <1>2, <1>3, <1>4

LEMMA Straying ==
    ASSUME IndInv, NEW k \in Kinds, NEW p \in Peers, NEW executed \in BOOLEAN,
           Stray(k, p, executed)
    PROVE  IndInv'
<1> USE DEF IndInv, Stray, callVars
<1>1. TypeOK'
  BY DEF TypeOK, Executed
<1>2. CallsAndTasks'
  BY DEF TypeOK, CallsAndTasks, Addressed, Underway, Active, NoTasks, NoAttempts
<1>3. WorkStaysDone'
  BY DEF TypeOK, WorkStaysDone, Active, Executed, Kinds
<1>4. FailsForCause'
  BY DEF TypeOK, FailsForCause
<1>5. QED
  BY <1>1, <1>2, <1>3, <1>4

LEMMA Joining ==
    ASSUME IndInv, NEW c \in Calls, NEW p \in Peers, Join(c, p)
    PROVE  IndInv'
<1> USE DEF IndInv, Join
<1>1. CASE task[c][p] = "ok" /\ Joined(c, p)
  <2> USE <1>1 DEF Joined, SetTask
  <2>1. TypeOK'
    BY DEF TypeOK, TaskStates
  <2>2. CallsAndTasks'
    BY DEF TypeOK, CallsAndTasks, Addressed, Underway, Active, NoTasks
  <2>3. WorkStaysDone'
    BY DEF TypeOK, WorkStaysDone, Active
  <2>4. FailsForCause'
    BY DEF TypeOK, FailsForCause, Active
  <2>5. QED
    BY <2>1, <2>2, <2>3, <2>4
<1>2. CASE task[c][p] \in {"refused", "exhausted"} /\ Failed(c, p)
  <2> USE <1>2 DEF Failed, NoTasks, NoAttempts
  <2>1. TypeOK'
    BY FanOutAssumption DEF FanOutAssumption, TypeOK, TaskStates, OnTheWay
  <2>2. CallsAndTasks'
    BY DEF TypeOK, CallsAndTasks, Addressed, Underway, Active
  <2>3. WorkStaysDone'
    BY DEF TypeOK, WorkStaysDone, CallsAndTasks, Underway, Active, OnTheWay
  <2>4. FailsForCause'
    BY DEF TypeOK, FailsForCause, CallsAndTasks
  <2>5. QED
    BY <2>1, <2>2, <2>3, <2>4
<1>3. QED
  BY <1>1, <1>2

LEMMA Forgetting ==
    ASSUME IndInv, NEW c \in Calls, Drop(c) \/ TakeResult(c)
    PROVE  IndInv'
<1>1. stray' = stray \/ (Active(c) /\ stray' = stray \cup OnTheWay(c, Peers))
  <2>1. CASE Drop(c)
    BY <2>1 DEF Drop
  <2>2. CASE TakeResult(c)
    BY <2>2 DEF TakeResult
  <2>3. QED
    BY <2>1, <2>2
<1>2. Forget(c)
  BY DEF Drop, TakeResult
<1> USE DEF IndInv, Forget, NoTasks, NoAttempts
<1>3. TypeOK'
  BY <1>1, <1>2, FanOutAssumption
     DEF FanOutAssumption, TypeOK, TaskStates, OnTheWay, Kinds, Scopes
<1>4. CallsAndTasks'
  BY <1>2 DEF TypeOK, CallsAndTasks, Addressed, Underway, Active
<1>5. WorkStaysDone'
  BY <1>1, <1>2 DEF TypeOK, WorkStaysDone, Active, OnTheWay
<1>6. FailsForCause'
  BY <1>2 DEF TypeOK, FailsForCause
<1>7. QED
  BY <1>3, <1>4, <1>5, <1>6

LEMMA Stuttering ==
    ASSUME IndInv, UNCHANGED vars
    PROVE  IndInv'
BY DEF IndInv, vars, callVars, TypeOK, CallsAndTasks, WorkStaysDone, FailsForCause,
       Addressed, Active

--------------------------------------------------------------------------------

\* The inductive invariant holds in every reachable state.
THEOREM Invariance == Spec => []IndInv
<1>1. ASSUME IndInv, [Next]_vars PROVE IndInv'
  <2>1. CASE Next
    BY <1>1, <2>1, Starting, Sending, BeginningToStream, Executing, Answering, FailingTransiently,
       Refusing, Straying, Joining, Forgetting
       DEF Next, Progress
  <2>2. CASE UNCHANGED vars
    BY <1>1, <2>2, Stuttering
  <2>3. QED
    BY <1>1, <2>1, <2>2
<1>2. QED
  BY Initially, <1>1, PTL DEF Spec

\* Every variable has its type in every reachable state.
THEOREM TypeCorrect == Spec => []TypeOK
BY Invariance, PTL DEF IndInv

\* A call that returned Ok has done its work on every seed peer it addressed
\* (lib.rs:1662-1776, 1786-1865).
THEOREM OkIsEverywhere == Spec => []OkMeansEverywhere
<1>1. IndInv => OkMeansEverywhere
  BY DEF IndInv, TypeOK, CallsAndTasks, WorkStaysDone, OkMeansEverywhere, Addressed, Kinds
<1>2. QED
  BY <1>1, Invariance, PTL

\* A call fails only for a cause of its own (lib.rs:202-214).
THEOREM FailuresHaveCauses == Spec => []FailsForCause
BY Invariance, PTL DEF IndInv
================================================================================
