---------------------------- MODULE ImageTasksProofs ----------------------------
(***************************************************************************)
(* The proofs that an image call keeps within its permits and, when it     *)
(* returns Ok, has done its work, for images of any size, any limit and    *)
(* any way to calculate the task ids.                                      *)
(***************************************************************************)
EXTENDS ImageTasks, FiniteSetTheorems, TLAPS

\* One target more, or one less.
LEMMA Counting ==
    ASSUME NEW S \in SUBSET Targets, NEW t \in Targets
    PROVE  /\ Cardinality(S) \in Nat
           /\ t \notin S => Cardinality(S \cup {t}) = Cardinality(S) + 1
           /\ t \in S => Cardinality(S \ {t}) = Cardinality(S) - 1
<1>1. IsFiniteSet(S)
  BY FS_Subset, ImageAssumption DEF ImageAssumption
<1>2. QED
  BY <1>1, FS_CardinalityType, FS_AddElement, FS_RemoveElement

LEMMA NothingInHand ==
    ASSUME InHand = {}
    PROVE  Cardinality(InHand) = 0
BY FS_EmptySet

LEMMA InHandIsCounted == Cardinality(InHand) \in Nat
<1>1. IsFiniteSet(InHand)
  BY FS_Subset, ImageAssumption DEF ImageAssumption, InHand
<1>2. QED
  BY <1>1, FS_CardinalityType

\* Work for a target leaves the target's task as its kind wants it, and undoes no
\* work of the same kind.
LEMMA WorkDone ==
    ASSUME NEW k \in Kinds, NEW t \in Targets, held \in SUBSET Targets
    PROVE  /\ HeldAfter(k, t) \in SUBSET Targets
           /\ SameTask(t) \cap HeldAfter(k, t) # {} <=> k = "preheat"
           /\ \A u \in Targets :
                  (SameTask(u) \cap held # {} <=> k = "preheat") =>
                      (SameTask(u) \cap HeldAfter(k, t) # {} <=> k = "preheat")
<1>1. t \in SameTask(t)
  BY DEF SameTask
<1>2. CASE k = "delete"
  BY <1>2 DEF HeldAfter
<1>3. CASE k = "preheat"
  BY <1>1, <1>3 DEF HeldAfter
<1>4. QED
  BY <1>2, <1>3 DEF Kinds

--------------------------------------------------------------------------------

LEMMA Initially == Init => IndInv
<1> SUFFICES ASSUME Init PROVE IndInv
  OBVIOUS
<1>1. InHand = {}
  BY DEF Init, InHand, NoTasks
<1>2. PermitsAddUp
  BY <1>1, NothingInHand, ImageAssumption DEF ImageAssumption, Init, PermitsAddUp
<1>3. TypeOK
  <2>1. NoTasks \in [Targets -> TaskStates]
    BY DEF NoTasks, TaskStates
  <2>2. Permits \in 0 .. Permits
    BY ImageAssumption DEF ImageAssumption
  <2>3. QED
    BY <2>1, <2>2 DEF Init, TypeOK, Kinds
<1>4. QED
  BY <1>2, <1>3 DEF IndInv, Init, OverIsOver, WorkStaysDone

LEMMA Starting ==
    ASSUME IndInv, NEW k \in Kinds, Start(k) \/ ResolveFails(k)
    PROVE  IndInv'
<1> USE DEF IndInv
<1>1. TypeOK'
  BY DEF TypeOK, Start, ResolveFails, TaskStates
<1>2. task = NoTasks /\ InHand = {} /\ InHand' = {}
  BY DEF Start, ResolveFails, OverIsOver, InHand, NoTasks
<1>3. PermitsAddUp'
  BY <1>2 DEF PermitsAddUp, Start, ResolveFails
<1>4. OverIsOver'
  BY <1>2 DEF OverIsOver, Start, ResolveFails
<1>5. WorkStaysDone'
  <2>1. CASE Start(k)
    BY <2>1 DEF WorkStaysDone, Start
  <2>2. CASE ResolveFails(k)
    BY <2>2 DEF WorkStaysDone, ResolveFails, OverIsOver
  <2>3. QED
    BY <2>1, <2>2
<1>6. QED
  BY <1>1, <1>3, <1>4, <1>5

LEMMA Acquiring ==
    ASSUME IndInv, NEW t \in Targets, Acquire(t)
    PROVE  IndInv'
<1> USE DEF IndInv, Acquire, SetTask
<1> USE ImageAssumption DEF ImageAssumption
<1>1. TypeOK'
  BY DEF TypeOK, TaskStates
<1>2. t \notin InHand /\ InHand' = InHand \cup {t}
  BY DEF TypeOK, InHand
<1>3. PermitsAddUp'
  <2>1. InHand \in SUBSET Targets
    BY DEF InHand
  <2>2. Cardinality(InHand') = Cardinality(InHand) + 1 /\ Cardinality(InHand) \in Nat
    BY <1>2, <2>1, Counting
  <2>3. QED
    BY <2>2 DEF PermitsAddUp, TypeOK
<1>4. OverIsOver' /\ WorkStaysDone'
  BY DEF TypeOK, OverIsOver, NoTasks, WorkStaysDone, SameTask
<1>5. QED
  BY <1>1, <1>3, <1>4

LEMMA Working ==
    ASSUME IndInv, NEW t \in Targets, Work(t)
    PROVE  IndInv'
<1> USE DEF IndInv, Work, SetTask
<1>1. TypeOK'
  BY WorkDone DEF TypeOK, TaskStates
<1>2. InHand' = InHand
  BY DEF TypeOK, InHand
<1>3. PermitsAddUp'
  BY <1>2 DEF PermitsAddUp
<1>4. OverIsOver'
  BY DEF TypeOK, OverIsOver, NoTasks
<1>5. WorkStaysDone'
  BY WorkDone DEF TypeOK, WorkStaysDone, SameTask
<1>6. QED
  BY <1>1, <1>3, <1>4, <1>5

LEMMA Ending ==
    ASSUME IndInv, NEW t \in Targets, Finish(t) \/ Fail(t)
    PROVE  IndInv'
<1> USE DEF IndInv, Finish, Fail, SetTask
<1>1. t \in InHand /\ InHand' = InHand \ {t}
  BY DEF TypeOK, InHand
<1>2. PermitsAddUp' /\ free' \in 0 .. Permits
  <2>1. InHand \in SUBSET Targets /\ InHand' \in SUBSET Targets
    BY <1>1 DEF InHand
  <2>2. /\ Cardinality(InHand') = Cardinality(InHand) - 1
        /\ Cardinality(InHand) \in Nat
        /\ Cardinality(InHand') \in Nat
    BY <1>1, <2>1, Counting
  <2>3. QED
    BY <2>2, ImageAssumption DEF ImageAssumption, PermitsAddUp, TypeOK
<1>3. TypeOK'
  BY <1>2 DEF TypeOK, TaskStates
<1>4. OverIsOver' /\ WorkStaysDone'
  BY DEF TypeOK, OverIsOver, NoTasks, WorkStaysDone, SameTask
<1>5. QED
  BY <1>2, <1>3, <1>4

LEMMA Straying ==
    ASSUME IndInv, NEW k \in Kinds, NEW t \in Targets, NEW done \in BOOLEAN,
           Stray(k, t, done)
    PROVE  IndInv'
<1> USE DEF IndInv, Stray, callVars
<1>1. TypeOK'
  BY WorkDone DEF TypeOK
<1>2. PermitsAddUp' /\ OverIsOver'
  BY DEF PermitsAddUp, OverIsOver, InHand
<1>3. WorkStaysDone'
  BY WorkDone DEF TypeOK, WorkStaysDone, SameTask
<1>4. QED
  BY <1>1, <1>2, <1>3

\* The call is over, and no task is left or all are joined.
LEMMA Joining ==
    ASSUME IndInv, NEW t \in Targets, JoinOk(t)
    PROVE  IndInv'
<1> USE DEF IndInv, JoinOk, SetTask
<1>1. TypeOK'
  BY DEF TypeOK, TaskStates
<1>2. InHand' = InHand
  BY DEF TypeOK, InHand
<1>3. PermitsAddUp'
  BY <1>2 DEF PermitsAddUp
<1>4. OverIsOver' /\ WorkStaysDone'
  BY DEF TypeOK, OverIsOver, NoTasks, WorkStaysDone, SameTask
<1>5. QED
  BY <1>1, <1>3, <1>4

LEMMA Over ==
    ASSUME IndInv,
           \/ \E t \in Targets : JoinFailed(t)
           \/ Drop \/ TakeResult
    PROVE  IndInv'
<1> USE DEF IndInv
<1>1. task' = NoTasks /\ InHand' = {}
  BY DEF JoinFailed, Drop, TakeResult, Abort, InHand, NoTasks
<1>2. free' = Permits
  <2>1. CASE TakeResult
    <3>1. InHand = {}
      BY <2>1 DEF TakeResult, OverIsOver, InHand, NoTasks
    <3>2. QED
      BY <2>1, <3>1, NothingInHand DEF TakeResult, PermitsAddUp, TypeOK
  <2>2. QED
    BY <2>1 DEF JoinFailed, Drop, Abort
<1>3. Cardinality(InHand') = 0
  BY <1>1, FS_EmptySet
<1>4. PermitsAddUp'
  BY <1>2, <1>3, ImageAssumption DEF ImageAssumption, PermitsAddUp
<1>5. task' \in [Targets -> TaskStates] /\ \A t \in Targets : task'[t] = "none"
  BY <1>1 DEF NoTasks, TaskStates
<1>6. CASE \E t \in Targets : JoinFailed(t)
  <2>1. stray' = stray \cup {<<kind, t>> : t \in InHand} /\ InHand \subseteq Targets
    BY <1>6 DEF JoinFailed, Abort, InHand
  <2>2. TypeOK'
    BY <1>2, <1>5, <1>6, <2>1, ImageAssumption DEF ImageAssumption, TypeOK, JoinFailed
  <2>3. OverIsOver' /\ WorkStaysDone'
    BY <1>1, <1>5, <1>6, <2>1 DEF OverIsOver, WorkStaysDone, JoinFailed, NoTasks
  <2>4. QED
    BY <1>4, <2>2, <2>3
<1>7. CASE Drop
  <2>1. stray' = stray \cup {<<kind, t>> : t \in InHand} /\ InHand \subseteq Targets
    BY <1>7 DEF Drop, Abort, InHand
  <2>2. TypeOK'
    <3>1. stray' \in SUBSET (Kinds \X Targets)
      BY <2>1 DEF TypeOK
    <3>2. free' \in 0 .. Permits
      BY <1>2, ImageAssumption DEF ImageAssumption
    <3>3. QED
      BY <1>5, <1>7, <3>1, <3>2 DEF TypeOK, Drop, Forget, Kinds
  <2>3. OverIsOver' /\ WorkStaysDone'
    BY <1>1, <1>7 DEF OverIsOver, WorkStaysDone, Drop, Forget, NoTasks
  <2>4. QED
    BY <1>4, <2>2, <2>3
<1>8. CASE TakeResult
  BY <1>1, <1>2, <1>4, <1>5, <1>8, ImageAssumption
     DEF ImageAssumption, TypeOK, TakeResult, Forget, Kinds, OverIsOver, WorkStaysDone,
         NoTasks
<1>9. QED
  BY <1>6, <1>7, <1>8

LEMMA Stuttering ==
    ASSUME IndInv, UNCHANGED vars \/ Retag
    PROVE  IndInv'
<1> USE DEF IndInv
<1>1. UNCHANGED <<held, stray, callVars>> /\ image' \in Images
  BY DEF vars, callVars, Retag, TypeOK
<1>2. InHand' = InHand /\ UNCHANGED <<held, stray, pc, kind, task, free, calm>>
  BY <1>1 DEF callVars, InHand
<1>3. TypeOK' /\ PermitsAddUp'
  BY <1>1, <1>2 DEF TypeOK, PermitsAddUp
<1>4. OverIsOver' /\ WorkStaysDone'
  BY <1>2 DEF OverIsOver, NoTasks, WorkStaysDone, SameTask
<1>5. QED
  BY <1>3, <1>4

\* The inductive invariant holds in every reachable state.
THEOREM Invariance == Spec => []IndInv
<1>1. ASSUME IndInv, [Next]_vars PROVE IndInv'
  BY <1>1, Starting, Acquiring, Working, Ending, Straying, Joining, Over, Stuttering
     DEF Next, Progress
<1>2. QED
  BY Initially, <1>1, PTL DEF Spec

\* Every variable has its type in every reachable state.
THEOREM TypeCorrect == Spec => []TypeOK
BY Invariance, PTL DEF IndInv

\* However many targets the image has, no more than concurrent_task_count of them are
\* in hand (lib.rs:1424-1453).
THEOREM LimitIsKept == Spec => []WithinTheLimit
<1>1. IndInv => WithinTheLimit
  BY InHandIsCounted, ImageAssumption
     DEF ImageAssumption, IndInv, TypeOK, PermitsAddUp, WithinTheLimit
<1>2. QED
  BY Invariance, <1>1, PTL

\* A call that returned Ok has done its work for every target (lib.rs:1462-1468).
THEOREM OkIsEveryTarget == Spec => []OkMeansEveryTarget
<1>1. IndInv => OkMeansEveryTarget
  BY DEF IndInv, WorkStaysDone, OkMeansEveryTarget
<1>2. QED
  BY Invariance, <1>1, PTL
================================================================================
