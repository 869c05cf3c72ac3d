------------------------------- MODULE GoGetProofs -------------------------------
(***************************************************************************)
(* Proofs about GoGet, for any number of requests, endpoints and retries,  *)
(* and any capacity and idle timeout of the pool.                          *)
(***************************************************************************)
EXTENDS GoGet, FiniteSetTheorems, SequenceTheorems, TLAPS

\* The parts of the properties that are about one request.
Timer(r) ==
    live[r] = IF Reading(r) \/ pc[r] \in {"guard", "sending"} THEN {tries[r]} ELSE {}

Cause(r) ==
    pc[r] = "returned" =>
        /\ result[r] = "transient" => tries[r] = 1 + MaxRetries
        /\ result[r] \in Ended => done[r] = result[r]

Own(r) == Holding(r) /\ Timer(r) /\ Cause(r)

\* The requests being sent through the client of e.
Counted(e) ==
    {r \in Requests : pc[r] = "sending" /\ holds[r] = "pooled" /\ Target(r) = e}

Inv == TypeOK /\ (\A r \in Requests : Own(r)) /\ GuardsAddUp

LEMMA InvIsIndInv == Inv <=> IndInv
BY DEF Inv, IndInv, Own, Timer, Cause, OneTimerPerAttempt, GivesUpForCause

\* The order of a call is a sequence of endpoints, and not empty.
LEMMA OrdersAreSequences ==
    ASSUME NEW o \in Orders
    PROVE  o \in Seq(Endpoints) /\ o # <<>>
<1>1. PICK E \in LookUps : o \in SetToSeqs(E)
  BY DEF Orders
<1>2. E \in (SUBSET Endpoints) \ {{}}
  BY GetAssumption DEF GetAssumption
<1>3. IsFiniteSet(E)
  BY <1>2, GetAssumption, FS_Subset DEF GetAssumption
<1>4. Cardinality(E) \in Nat /\ Cardinality(E) # 0
  BY <1>2, <1>3, FS_CardinalityType, FS_EmptySet
<1>5. o \in [1 .. Cardinality(E) -> E]
  BY <1>1 DEF SetToSeqs
<1>6. o \in Seq(E) /\ Len(o) = Cardinality(E)
  BY <1>4, <1>5
<1>7. o \in Seq(Endpoints)
  BY <1>2, <1>6
<1>8. QED
  BY <1>4, <1>6, <1>7

\* Every attempt of a call aims at an endpoint.
LEMMA AimedIsEndpoint ==
    ASSUME TypeOK, NEW r \in Requests, order[r] # <<>>, NEW n \in Nat \ {0}
    PROVE  Aimed(r, n) \in Endpoints
<1>1. order[r] \in Seq(Endpoints)
  BY OrdersAreSequences DEF TypeOK
<1>2. Len(order[r]) \in Nat \ {0}
  BY <1>1
<1>3. (n - 1) % Len(order[r]) \in 0 .. Len(order[r]) - 1
  <2>1. \A a \in Nat, k \in Nat \ {0} : a % k \in 0 .. k - 1
    OBVIOUS
  <2>2. n - 1 \in Nat
    OBVIOUS
  <2>3. QED
    BY <1>2, <2>1, <2>2
<1>4. QED
  BY <1>1, <1>2, <1>3 DEF Aimed

\* A cleanup removes clients nothing is being sent through.
LEMMA SweptIsUnused ==
    ASSUME TypeOK, NEW e \in Swept
    PROVE  e \in pooled /\ active[e] = 0
<1>1. e \in pooled /\ ~Retained(e)
  BY DEF Swept
<1>2. active[e] \in Nat /\ ~(active[e] > 0)
  BY <1>1 DEF TypeOK, PoolTypeOK, Retained
<1>3. QED
  BY <1>1, <1>2

LEMMA SendingIsNotSwept ==
    ASSUME Inv, NEW q \in Requests, pc[q] = "sending", holds[q] = "pooled"
    PROVE  Target(q) \notin Swept
<1> SUFFICES ASSUME Target(q) \in Swept
             PROVE  FALSE
  OBVIOUS
<1>1. Target(q) \in Endpoints /\ active[Target(q)] = 0
  BY SweptIsUnused DEF Inv, TypeOK, PoolTypeOK
<1>2. q \in Counted(Target(q))
  BY DEF Counted
<1>3. IsFiniteSet(Counted(Target(q)))
  BY GetAssumption, FS_Subset DEF GetAssumption, Counted
<1>4. Cardinality(Counted(Target(q))) = 0
  BY <1>1 DEF Inv, GuardsAddUp, Counted
<1>5. QED
  BY <1>2, <1>3, <1>4, FS_EmptySet

LEMMA EntryKeepsPool ==
    ASSUME TypeOK, NEW e \in Endpoints, Entry(e) \/ EntryFails(e)
    PROVE  /\ PoolTypeOK'
           /\ active' = active
           /\ pooled \ Swept \subseteq pooled'
           /\ Entry(e) => e \in pooled'
<1>1. active' = active
  <2>1. active' = [k \in Endpoints |-> IF k \in Swept THEN 0 ELSE active[k]]
    BY DEF Entry, EntryFails
  <2>2. \A k \in Endpoints : (IF k \in Swept THEN 0 ELSE active[k]) = active[k]
    BY SweptIsUnused
  <2>3. active = [k \in Endpoints |-> active[k]]
    BY DEF TypeOK, PoolTypeOK
  <2>4. QED
    BY <2>1, <2>2, <2>3
<1>2. pooled' \in SUBSET Endpoints /\ pooled \ Swept \subseteq pooled'
      /\ (Entry(e) => e \in pooled')
  BY DEF TypeOK, PoolTypeOK, Entry, EntryFails
<1>3. idle' \in [Endpoints -> 0 .. IdleTimeout + 1]
  <2>1. 0 \in 0 .. IdleTimeout + 1
    BY PoolAssumption DEF PoolAssumption
  <2>2. QED
    BY <2>1 DEF TypeOK, PoolTypeOK, Entry, EntryFails
<1>4. sinceCleanup' \in 0 .. IdleTimeout
  BY PoolAssumption DEF PoolAssumption, TypeOK, PoolTypeOK, Entry, EntryFails
<1>5. QED
  BY <1>1, <1>2, <1>3, <1>4 DEF TypeOK, PoolTypeOK

\* A request keeps what it has while others step, unless its client is removed.
LEMMA OthersKeep ==
    ASSUME NEW q \in Requests, Own(q),
           UNCHANGED <<pc[q], order[q], tries[q], live[q], done[q], result[q]>>,
           \/ holds'[q] = holds[q] /\ (holds[q] = "pooled" => Target(q) \in pooled')
           \/ holds[q] = "pooled" /\ holds'[q] = "removed"
    PROVE  Own(q)'
<1>1. Target(q)' = Target(q)
  BY DEF Target, Aimed
<1>2. QED
  BY <1>1 DEF Own, Holding, Timer, Cause, Reading

\* A step that is no concern of the pool but releases at most one client: what is
\* counted for a client are the requests that are being sent through it.
LEMMA CountedStays ==
    ASSUME GuardsAddUp, UNCHANGED active,
           \A e \in Endpoints : Counted(e)' = Counted(e)
    PROVE  GuardsAddUp'
BY DEF GuardsAddUp, Counted

\* Only the step of request r itself changes what is known of the others.
LEMMA OneStepCounts ==
    ASSUME Inv, NEW r \in Requests,
           \A q \in Requests \ {r} : UNCHANGED <<pc[q], order[q], tries[q], holds[q]>>,
           ~(pc[r] = "sending" /\ holds[r] = "pooled"),
           ~(pc'[r] = "sending" /\ holds'[r] = "pooled"),
           UNCHANGED active
    PROVE  GuardsAddUp'
<1>1. \A e \in Endpoints : Counted(e)' = Counted(e)
  BY DEF Counted, Target, Aimed
<1>2. QED
  BY <1>1, CountedStays DEF Inv

\* A request that has been counted is not any more, and its client is told.
LEMMA ReleaseCounts ==
    ASSUME Inv, NEW r \in Requests, pc[r] = "sending", Release(r), pc'[r] # "sending",
           \A q \in Requests \ {r} : UNCHANGED <<pc[q], order[q], tries[q]>>
    PROVE  /\ GuardsAddUp'
           /\ PoolTypeOK'
           /\ holds' = [holds EXCEPT ![r] = "none"]
           /\ UNCHANGED <<pooled, idle, sinceCleanup>>
<1>1. holds' = [holds EXCEPT ![r] = "none"] /\ UNCHANGED <<pooled, idle, sinceCleanup>>
  BY DEF Release
<1>2. \A q \in Requests \ {r} : holds'[q] = holds[q]
  BY <1>1 DEF Inv, TypeOK
<1>3. \A e \in Endpoints : Counted(e)' = Counted(e) \ {r}
  BY <1>1, <1>2 DEF Counted, Target, Aimed
<1>4. \A e \in Endpoints : IsFiniteSet(Counted(e))
  BY GetAssumption, FS_Subset DEF GetAssumption, Counted
<1>5. \A e \in Endpoints : active[e] = Cardinality(Counted(e)) /\ active[e] \in Nat
  BY DEF Inv, GuardsAddUp, Counted, TypeOK, PoolTypeOK
<1>6. CASE holds[r] = "pooled"
  <2>1. active' = [active EXCEPT ![Target(r)] = @ - 1] /\ Target(r) \in Endpoints
    BY <1>6 DEF Release, Done, Inv, Own, Holding, TypeOK, PoolTypeOK
  <2>2. \A e \in Endpoints : r \in Counted(e) <=> e = Target(r)
    BY <1>6 DEF Counted
  <2>3. \A e \in Endpoints : Cardinality(Counted(e) \ {r}) =
            IF e = Target(r) THEN Cardinality(Counted(e)) - 1 ELSE Cardinality(Counted(e))
    BY <1>4, <2>2, FS_RemoveElement
  <2>4. \A e \in Endpoints : active'[e] = Cardinality(Counted(e)')
    BY <1>3, <1>5, <2>1, <2>3 DEF Inv, TypeOK, PoolTypeOK
  <2>5. \A e \in Endpoints : active'[e] \in Nat
    <3>1. \A e \in Endpoints : IsFiniteSet(Counted(e)')
      BY <1>3, <1>4, FS_RemoveElement
    <3>2. QED
      BY <2>4, <3>1, FS_CardinalityType
  <2>6. active' \in [Endpoints -> Nat]
    BY <2>1, <2>5 DEF Inv, TypeOK, PoolTypeOK
  <2>7. QED
    BY <1>1, <2>4, <2>6 DEF GuardsAddUp, Counted, Inv, TypeOK, PoolTypeOK
<1>7. CASE holds[r] # "pooled"
  <2>1. UNCHANGED active
    BY <1>7 DEF Release
  <2>2. \A e \in Endpoints : Counted(e)' = Counted(e)
    BY <1>3, <1>7 DEF Counted
  <2>3. QED
    BY <1>1, <2>1, <2>2, CountedStays DEF Inv, TypeOK, PoolTypeOK
<1>8. QED
  BY <1>6, <1>7

\* What a request does after a failure of its attempt n: it goes on, if it may, or
\* returns for a reason.
LEMMA DecideIsOwn ==
    ASSUME TypeOK, NEW r \in Requests, NEW n \in 1 .. 1 + MaxRetries,
           NEW err \in {"definitive", "transient"}, Decide(r, n, err)
    PROVE  /\ pc' \in [Requests -> {"idle", "ready", "guard", "sending", "streaming",
                                    "draining", "returned"}]
           /\ order' \in [Requests -> Orders \cup {<<>>}]
           /\ result' \in [Requests -> Results]
           /\ \A q \in Requests \ {r} : UNCHANGED <<pc[q], order[q], result[q]>>
           /\ \/ pc'[r] = "ready" /\ n <= MaxRetries /\ order'[r] = order[r]
              \/ /\ pc'[r] = "returned"
                 /\ result'[r] = "transient" => n = 1 + MaxRetries
                 /\ result'[r] \in Ended => done[r] = result'[r]
<1> USE DEF TypeOK
<1>1. CASE err = "definitive" \/ LastTry(n)
  <2>1. Return(r, err)
    BY <1>1 DEF Decide
  <2>2. QED
    BY <1>1, <2>1, GetAssumption DEF Return, Goto, Results, Ended, LastTry, GetAssumption
<1>2. CASE ~(err = "definitive" \/ LastTry(n)) /\ done[r] \in Ended
  <2>1. Return(r, done[r])
    BY <1>2 DEF Decide
  <2>2. QED
    BY <1>2, <2>1 DEF Return, Goto, Results, Ended
<1>3. CASE ~(err = "definitive" \/ LastTry(n)) /\ done[r] \notin Ended
  <2>1. Goto(r, "ready") /\ UNCHANGED <<order, result>>
    BY <1>3 DEF Decide
  <2>2. n <= MaxRetries
    BY <1>3, GetAssumption DEF LastTry, GetAssumption
  <2>3. QED
    BY <2>1, <2>2 DEF Goto
<1>4. QED
  BY <1>1, <1>2, <1>3

--------------------------------------------------------------------------------
(* The steps, one by one. *)

LEMMA InitEstablishes == Init => Inv
<1> SUFFICES ASSUME Init
             PROVE  Inv
  OBVIOUS
<1>1. TypeOK
  BY PoolAssumption, GetAssumption
     DEF Init, TypeOK, PoolInit, PoolTypeOK, Results, PoolAssumption, GetAssumption
<1>2. \A r \in Requests : Own(r)
  BY DEF Init, Own, Holding, Timer, Cause, Reading
<1>3. GuardsAddUp
  <2>1. \A e \in Endpoints : {r \in Requests : pc[r] = "sending" /\ holds[r] = "pooled"
                                              /\ Target(r) = e} = {}
    BY DEF Init
  <2>2. QED
    BY <2>1, FS_EmptySet DEF GuardsAddUp, Init, PoolInit
<1>4. QED
  BY <1>1, <1>2, <1>3 DEF Inv

\* The steps that leave the pool alone and hold no client before or after.
LEMMA QuietSteps ==
    ASSUME Inv, NEW r \in Requests,
           \/ \E o \in Orders : Call(r, o)
           \/ CallInVain(r) \/ GiveUp(r) \/ TakeResult(r)
           \/ \E ok \in BOOLEAN : BodyEnds(r, ok)
    PROVE  Inv'
<1> USE DEF Inv
<1>1. UNCHANGED <<poolVars, holds>> /\ holds[r] = "none"
  BY DEF Call, CallInVain, GiveUp, TakeResult, BodyEnds, Own, Holding, Reading, TypeOK
<1>2. \A q \in Requests \ {r} :
          UNCHANGED <<pc[q], order[q], tries[q], live[q], done[q], result[q], holds[q]>>
  BY DEF Call, CallInVain, GiveUp, TakeResult, BodyEnds, Return, Goto, CancelAttempt, TypeOK
<1>3. \A q \in Requests \ {r} : Own(q)'
  BY <1>1, <1>2, OthersKeep DEF Own, Holding, poolVars
<1>4. GuardsAddUp'
  BY <1>1, <1>2, OneStepCounts DEF poolVars
<1>5. TypeOK' /\ Own(r)'
  <2>1. CASE \E o \in Orders : Call(r, o)
    <3>1. PICK o \in Orders : Call(r, o)
      BY <2>1
    <3>2. o # <<>>
      BY OrdersAreSequences
    <3>3. TypeOK'
      BY <1>1, <3>1 DEF Call, Goto, TypeOK, PoolTypeOK, poolVars
    <3>4. Own(r)'
      <4>1. pc[r] = "idle" /\ pc'[r] = "ready" /\ order'[r] = o
            /\ UNCHANGED <<tries, live, done, result>>
        BY <3>1 DEF Call, Goto, TypeOK
      <4>2. live[r] = {}
        BY <4>1 DEF Own, Timer, Reading
      <4>3. tries[r] = 0
        BY <4>1 DEF Own, Holding
      <4>4. QED
        BY <1>1, <3>2, <4>1, <4>2, <4>3, GetAssumption
           DEF Own, Holding, Timer, Cause, Reading, GetAssumption
    <3>5. QED
      BY <3>3, <3>4
  <2>2. CASE CallInVain(r)
    <3>1. TypeOK'
      BY <1>1, <2>2 DEF CallInVain, Return, Goto, TypeOK, PoolTypeOK, poolVars, Results
    <3>2. Own(r)'
      BY <1>1, <2>2
         DEF CallInVain, Return, Goto, TypeOK, Own, Holding, Timer, Cause, Reading, Ended
    <3>3. QED
      BY <3>1, <3>2
  <2>3. CASE GiveUp(r)
    <3>1. TypeOK'
      BY <1>1, <2>3 DEF GiveUp, Return, Goto, TypeOK, PoolTypeOK, poolVars, Results, Ended
    <3>2. Own(r)'
      BY <1>1, <2>3
         DEF GiveUp, Return, Goto, TypeOK, Own, Holding, Timer, Cause, Reading, Ended
    <3>3. QED
      BY <3>1, <3>2
  <2>4. CASE TakeResult(r)
    <3>1. TypeOK'
      BY <1>1, <2>4, GetAssumption
         DEF TakeResult, Goto, TypeOK, PoolTypeOK, poolVars, Results, GetAssumption
    <3>2. Own(r)'
      BY <1>1, <2>4 DEF TakeResult, Goto, TypeOK, Own, Holding, Timer, Cause, Reading
    <3>3. QED
      BY <3>1, <3>2
  <2>5. CASE \E ok \in BOOLEAN : BodyEnds(r, ok)
    <3>1. PICK res \in {"ok", "body"} : Return(r, res)
      BY <2>5 DEF BodyEnds
    <3>2. Reading(r) /\ CancelAttempt(r) /\ UNCHANGED <<poolVars, tries, holds>>
      BY <2>5 DEF BodyEnds
    <3>3. TypeOK'
      BY <1>1, <3>1, <3>2
         DEF CancelAttempt, Return, Goto, TypeOK, PoolTypeOK, poolVars, Results
    <3>4. live[r] = {tries[r]} /\ live'[r] = {}
      BY <3>2 DEF Own, Timer, CancelAttempt, TypeOK
    <3>5. pc'[r] = "returned" /\ result'[r] = res
      BY <3>1 DEF Return, Goto, TypeOK
    <3>6. QED
      BY <1>1, <3>3, <3>4, <3>5 DEF Own, Holding, Timer, Cause, Reading, Ended
  <2>6. QED
    BY <2>1, <2>2, <2>3, <2>4, <2>5
<1>6. QED
  BY <1>3, <1>4, <1>5

\* A timeout passes, or the context of the caller ends.
LEMMA ContextSteps ==
    ASSUME Inv, NEW r \in Requests, Expire(r) \/ \E how \in Ended : CallerEnds(r, how)
    PROVE  Inv'
<1> USE DEF Inv
<1>1. UNCHANGED <<poolVars, pc, order, tries, holds, live, result>>
  BY DEF Expire, CallerEnds
<1>2. PICK how \in {"timeout", "cancelled", "expired"} : done' = [done EXCEPT ![r] = how]
  BY DEF Expire, CallerEnds, Ended
<1>3. TypeOK'
  BY <1>1, <1>2 DEF TypeOK, PoolTypeOK, poolVars
<1>4. \A e \in Endpoints : Counted(e)' = Counted(e)
  BY <1>1 DEF Counted, Target, Aimed
<1>5. GuardsAddUp'
  BY <1>1, <1>4, CountedStays DEF poolVars
<1>6. \A q \in Requests \ {r} : Own(q)'
  BY <1>1, <1>2, OthersKeep DEF Own, Holding, poolVars, TypeOK
<1>7. Own(r)'
  <2>1. pc[r] # "returned"
    BY DEF Expire, CallerEnds, Own, Timer, Reading
  <2>2. Target(r)' = Target(r)
    BY <1>1 DEF Target, Aimed
  <2>3. QED
    BY <1>1, <2>1, <2>2 DEF Own, Holding, Timer, Cause, Reading, poolVars
<1>8. QED
  BY <1>3, <1>5, <1>6, <1>7

\* The guard of a client is taken while it is in the pool, and the request counted.
LEMMA TakeGuardStep ==
    ASSUME Inv, NEW r \in Requests, TakeGuard(r)
    PROVE  Inv'
<1> USE DEF Inv
<1>1. pc[r] = "guard" /\ pc' = [pc EXCEPT ![r] = "sending"]
      /\ UNCHANGED <<pooled, idle, sinceCleanup, order, tries, holds, live, done, result>>
  BY DEF TakeGuard, Goto
<1>2. \A q \in Requests : Target(q)' = Target(q)
  BY <1>1 DEF Target, Aimed
<1>3. \A q \in Requests \ {r} : pc'[q] = pc[q]
  BY <1>1 DEF TypeOK
<1>4. \A q \in Requests \ {r} : Own(q)'
  BY <1>1, <1>3, OthersKeep DEF Own, Holding
<1>5. Own(r)'
  BY <1>1, <1>2 DEF Own, Holding, Timer, Cause, Reading, TypeOK
<1>6. \A e \in Endpoints : active[e] = Cardinality(Counted(e)) /\ active[e] \in Nat
                            /\ IsFiniteSet(Counted(e))
  BY GetAssumption, FS_Subset
     DEF GuardsAddUp, Counted, TypeOK, PoolTypeOK, GetAssumption
<1>7. GuardsAddUp' /\ active' \in [Endpoints -> Nat]
  <2>1. CASE holds[r] = "pooled"
    <3>1. Target(r) \in Endpoints /\ active' = [active EXCEPT ![Target(r)] = @ + 1]
      BY <2>1 DEF TakeGuard, Guard, Own, Holding, TypeOK, PoolTypeOK
    <3>2. \A e \in Endpoints :
              Counted(e)' = IF e = Target(r) THEN Counted(e) \cup {r} ELSE Counted(e)
      BY <1>1, <1>2, <1>3, <2>1 DEF Counted, TypeOK
    <3>3. \A e \in Endpoints : r \notin Counted(e)
      BY <1>1 DEF Counted
    <3>4. \A e \in Endpoints : Cardinality(Counted(e) \cup {r}) = Cardinality(Counted(e)) + 1
      BY <1>6, <3>3, FS_AddElement
    <3>5. \A e \in Endpoints : active'[e] = Cardinality(Counted(e)')
      BY <1>6, <3>1, <3>2, <3>4 DEF TypeOK, PoolTypeOK
    <3>6. QED
      BY <3>1, <3>5 DEF GuardsAddUp, Counted, TypeOK, PoolTypeOK
  <2>2. CASE holds[r] # "pooled"
    <3>1. UNCHANGED active
      BY <2>2 DEF TakeGuard
    <3>2. \A e \in Endpoints : Counted(e)' = Counted(e)
      BY <1>1, <1>2, <1>3, <2>2 DEF Counted
    <3>3. QED
      BY <3>1, <3>2, CountedStays DEF TypeOK, PoolTypeOK
  <2>3. QED
    BY <2>1, <2>2
<1>8. TypeOK'
  BY <1>1, <1>7 DEF TypeOK, PoolTypeOK
<1>9. QED
  BY <1>4, <1>5, <1>7, <1>8

\* The request is over, with a response or without one.
LEMMA RespondStep ==
    ASSUME Inv, NEW r \in Requests, NEW label \in {"streaming", "draining"}, Respond(r, label)
    PROVE  Inv'
<1> USE DEF Inv
<1>1. pc[r] = "sending" /\ pc' = [pc EXCEPT ![r] = label]
      /\ order' = [order EXCEPT ![r] = <<>>] /\ Release(r)
      /\ UNCHANGED <<tries, live, done, result>>
  BY DEF Respond, Goto
<1>2. \A q \in Requests \ {r} : UNCHANGED <<pc[q], order[q], tries[q], live[q], done[q],
                                            result[q]>>
  BY <1>1 DEF TypeOK
<1>3. pc'[r] = label
  BY <1>1 DEF TypeOK
<1>4. GuardsAddUp' /\ PoolTypeOK' /\ holds' = [holds EXCEPT ![r] = "none"]
      /\ UNCHANGED pooled
  BY <1>1, <1>2, <1>3, ReleaseCounts
<1>5. TypeOK'
  BY <1>1, <1>4 DEF TypeOK
<1>6. \A q \in Requests \ {r} : Own(q)'
  BY <1>2, <1>4, OthersKeep DEF Own, Holding, TypeOK
<1>7. Own(r)'
  BY <1>1, <1>3, <1>4 DEF Own, Holding, Timer, Cause, Reading, TypeOK
<1>8. QED
  BY <1>4, <1>5, <1>6, <1>7

LEMMA FailStep ==
    ASSUME Inv, NEW r \in Requests, NEW err \in {"definitive", "transient"}, Fail(r, err)
    PROVE  Inv'
<1> USE DEF Inv
<1>1. pc[r] = "sending" /\ Release(r) /\ CancelAttempt(r) /\ UNCHANGED tries
      /\ Decide(r, tries[r], err)
  BY DEF Fail
<1>2. tries[r] \in 1 .. 1 + MaxRetries
  BY <1>1, GetAssumption DEF Own, Holding, TypeOK, GetAssumption
<1>3. /\ pc' \in [Requests -> {"idle", "ready", "guard", "sending", "streaming",
                               "draining", "returned"}]
      /\ order' \in [Requests -> Orders \cup {<<>>}]
      /\ result' \in [Requests -> Results]
      /\ \A q \in Requests \ {r} : UNCHANGED <<pc[q], order[q], result[q]>>
      /\ \/ pc'[r] = "ready" /\ tries[r] <= MaxRetries /\ order'[r] = order[r]
         \/ /\ pc'[r] = "returned"
            /\ result'[r] = "transient" => tries[r] = 1 + MaxRetries
            /\ result'[r] \in Ended => done[r] = result'[r]
  BY <1>1, <1>2, DecideIsOwn
<1>4. live' = [live EXCEPT ![r] = @ \ {tries[r]}]
      /\ done' = [done EXCEPT ![r] = IF @ = "timeout" THEN "no" ELSE @]
  BY <1>1 DEF CancelAttempt
<1>5. \A q \in Requests \ {r} : UNCHANGED <<tries[q], live[q], done[q]>>
  BY <1>1, <1>4 DEF TypeOK
<1>6. pc'[r] # "sending"
  BY <1>3
<1>7. GuardsAddUp' /\ PoolTypeOK' /\ holds' = [holds EXCEPT ![r] = "none"]
      /\ UNCHANGED pooled
  BY <1>1, <1>3, <1>5, <1>6, ReleaseCounts
<1>8. TypeOK'
  BY <1>1, <1>3, <1>4, <1>7 DEF TypeOK
<1>9. \A q \in Requests \ {r} : Own(q)'
  BY <1>3, <1>5, <1>7, OthersKeep DEF Own, Holding, TypeOK
<1>10. Own(r)'
  <2>1. live'[r] = {}
    BY <1>1, <1>4 DEF Own, Timer, TypeOK
  <2>2. done[r] \in Ended => done'[r] = done[r]
    BY <1>4 DEF Ended, TypeOK
  <2>3. Holding(r)'
    BY <1>1, <1>3, <1>7 DEF Own, Holding, TypeOK
  <2>4. QED
    BY <1>1, <1>3, <2>1, <2>2, <2>3 DEF Own, Timer, Cause, Reading
<1>11. QED
  BY <1>7, <1>8, <1>9, <1>10

\* The cleanup of a call of Entry by r: the others lose clients that it removes, which
\* they are not sending through.
LEMMA SweepKeepsOthers ==
    ASSUME Inv, NEW r \in Requests, pc[r] = "ready", pc'[r] # "sending",
           UNCHANGED active, pooled \ Swept \subseteq pooled',
           \A q \in Requests \ {r} :
               /\ UNCHANGED <<pc[q], order[q], tries[q], live[q], done[q], result[q]>>
               /\ holds'[q] = HeldStill(q)
    PROVE  GuardsAddUp' /\ \A q \in Requests \ {r} : Own(q)'
<1> USE DEF Inv
<1>1. ASSUME NEW q \in Requests \ {r}
      PROVE  Own(q)'
  <2>1. CASE holds[q] = "pooled" /\ Target(q) \in Swept
    BY <2>1, OthersKeep DEF HeldStill
  <2>2. CASE ~(holds[q] = "pooled" /\ Target(q) \in Swept)
    <3>1. holds'[q] = holds[q]
      BY <2>2 DEF HeldStill
    <3>2. holds[q] = "pooled" => Target(q) \in pooled'
      BY <2>2 DEF Own, Holding
    <3>3. QED
      BY <3>1, <3>2, OthersKeep
  <2>3. QED
    BY <2>1, <2>2
<1>2. ASSUME NEW q \in Requests, NEW e \in Endpoints
      PROVE  q \in Counted(e)' <=> q \in Counted(e)
  <2>1. CASE q = r
    BY <2>1 DEF Counted
  <2>2. CASE q # r
    <3>1. Target(q)' = Target(q) /\ pc'[q] = pc[q] /\ holds'[q] = HeldStill(q)
      BY <2>2 DEF Target, Aimed
    <3>2. pc[q] = "sending" => HeldStill(q) = holds[q]
      BY SendingIsNotSwept DEF HeldStill
    <3>3. QED
      BY <3>1, <3>2 DEF Counted
  <2>3. QED
    BY <2>1, <2>2
<1>3. \A e \in Endpoints : Counted(e)' = Counted(e)
  BY <1>2 DEF Counted
<1>4. QED
  BY <1>1, <1>3, CountedStays

LEMMA AttemptStep ==
    ASSUME Inv, NEW r \in Requests, Attempt(r)
    PROVE  Inv'
<1> USE DEF Inv
<1> DEFINE n == tries[r] + 1
           e == Aimed(r, n)
<1>1. /\ pc[r] = "ready" /\ pc' = [pc EXCEPT ![r] = "guard"]
      /\ tries' = [tries EXCEPT ![r] = n]
      /\ live' = [live EXCEPT ![r] = @ \cup {n}]
      /\ holds' = [q \in Requests |-> IF q = r THEN "pooled" ELSE HeldStill(q)]
      /\ Entry(e)
      /\ UNCHANGED <<order, done, result>>
  BY DEF Attempt, Goto, TypeOK
<1>2. n \in 1 .. 1 + MaxRetries /\ order[r] # <<>> /\ live[r] = {}
  BY <1>1, GetAssumption DEF Own, Holding, Timer, Reading, TypeOK, GetAssumption
<1>3. e \in Endpoints
  BY <1>2, AimedIsEndpoint
<1>4. PoolTypeOK' /\ UNCHANGED active /\ pooled \ Swept \subseteq pooled' /\ e \in pooled'
  BY <1>1, <1>3, EntryKeepsPool
<1>5. \A q \in Requests : HeldStill(q) \in {"none", "pooled", "removed"}
  BY DEF HeldStill, TypeOK
<1>6. TypeOK'
  BY <1>1, <1>2, <1>4, <1>5 DEF TypeOK
<1>7. \A q \in Requests \ {r} :
          /\ UNCHANGED <<pc[q], order[q], tries[q], live[q], done[q], result[q]>>
          /\ holds'[q] = HeldStill(q)
  BY <1>1 DEF TypeOK
<1>8. pc'[r] = "guard" /\ tries'[r] = n /\ live'[r] = {n} /\ holds'[r] = "pooled"
      /\ order'[r] = order[r]
  BY <1>1, <1>2 DEF TypeOK
<1>9. GuardsAddUp' /\ \A q \in Requests \ {r} : Own(q)'
  BY <1>1, <1>4, <1>7, <1>8, SweepKeepsOthers
<1>10. Target(r)' = e
  BY <1>8 DEF Target, Aimed
<1>11. Own(r)'
  BY <1>2, <1>4, <1>8, <1>10 DEF Own, Holding, Timer, Cause, Reading
<1>12. QED
  BY <1>6, <1>9, <1>11

LEMMA AttemptInVainStep ==
    ASSUME Inv, NEW r \in Requests, AttemptInVain(r)
    PROVE  Inv'
<1> USE DEF Inv
<1> DEFINE n == tries[r] + 1
           e == Aimed(r, n)
<1>1. /\ pc[r] = "ready" /\ EntryFails(e) /\ Decide(r, n, "transient")
      /\ tries' = [tries EXCEPT ![r] = n]
      /\ holds' = [q \in Requests |-> HeldStill(q)]
      /\ UNCHANGED <<live, done>>
  BY DEF AttemptInVain, TypeOK
<1>2. n \in 1 .. 1 + MaxRetries /\ order[r] # <<>> /\ live[r] = {} /\ holds[r] = "none"
  <2>1. n \in 1 .. 1 + MaxRetries
    BY <1>1, GetAssumption DEF Own, Holding, TypeOK, GetAssumption
  <2>2. order[r] # <<>> /\ holds[r] = "none"
    BY <1>1 DEF Own, Holding
  <2>3. live[r] = {}
    BY <1>1 DEF Own, Timer, Reading
  <2>4. QED
    BY <2>1, <2>2, <2>3
<1>3. e \in Endpoints
  BY <1>2, AimedIsEndpoint
<1>4. PoolTypeOK' /\ UNCHANGED active /\ pooled \ Swept \subseteq pooled'
  BY <1>1, <1>3, EntryKeepsPool
<1>5. /\ pc' \in [Requests -> {"idle", "ready", "guard", "sending", "streaming",
                               "draining", "returned"}]
      /\ order' \in [Requests -> Orders \cup {<<>>}]
      /\ result' \in [Requests -> Results]
      /\ \A q \in Requests \ {r} : UNCHANGED <<pc[q], order[q], result[q]>>
      /\ \/ pc'[r] = "ready" /\ n <= MaxRetries /\ order'[r] = order[r]
         \/ /\ pc'[r] = "returned"
            /\ result'[r] = "transient" => n = 1 + MaxRetries
            /\ result'[r] \in Ended => done[r] = result'[r]
  BY <1>1, <1>2, DecideIsOwn
<1>6. \A q \in Requests : HeldStill(q) \in {"none", "pooled", "removed"}
  BY DEF HeldStill, TypeOK
<1>7. TypeOK'
  <2>1. tries' \in [Requests -> 0 .. 1 + MaxRetries]
    BY <1>1, <1>2, GetAssumption DEF TypeOK, GetAssumption
  <2>2. holds' \in [Requests -> {"none", "pooled", "removed"}]
    BY <1>1, <1>6
  <2>3. UNCHANGED <<live, done>>
    BY <1>1
  <2>4. QED
    BY <1>4, <1>5, <2>1, <2>2, <2>3 DEF TypeOK
<1>8. \A q \in Requests \ {r} :
          /\ UNCHANGED <<pc[q], order[q], tries[q], live[q], done[q], result[q]>>
          /\ holds'[q] = HeldStill(q)
  <2>1. \A q \in Requests \ {r} : UNCHANGED <<tries[q], live[q], done[q]>>
    BY <1>1 DEF TypeOK
  <2>2. \A q \in Requests : holds'[q] = HeldStill(q)
    BY <1>1
  <2>3. QED
    BY <1>5, <2>1, <2>2
<1>9. pc'[r] # "sending"
  BY <1>5
<1>10. GuardsAddUp' /\ \A q \in Requests \ {r} : Own(q)'
  BY <1>1, <1>4, <1>8, <1>9, SweepKeepsOthers
<1>11. tries'[r] = n /\ holds'[r] = "none" /\ live'[r] = {} /\ done'[r] = done[r]
  BY <1>1, <1>2 DEF TypeOK, HeldStill
<1>12. Own(r)'
  BY <1>2, <1>5, <1>11 DEF Own, Holding, Timer, Cause, Reading
<1>13. QED
  BY <1>7, <1>10, <1>12

LEMMA TickStep ==
    ASSUME Inv, Tick, UNCHANGED callVars
    PROVE  Inv'
<1> USE DEF Inv
<1>1. PoolTypeOK'
  <2>1. sinceCleanup' \in 0 .. IdleTimeout
    BY PoolAssumption DEF Tick, TypeOK, PoolTypeOK, PoolAssumption
  <2>2. \A e \in Endpoints : idle[e] \in 0 .. IdleTimeout + 1
    BY DEF TypeOK, PoolTypeOK
  <2>3. \A e \in Endpoints :
            (IF e \in pooled /\ idle[e] <= IdleTimeout THEN idle[e] + 1 ELSE idle[e])
                \in 0 .. IdleTimeout + 1
    BY <2>2, PoolAssumption DEF PoolAssumption
  <2>4. idle' \in [Endpoints -> 0 .. IdleTimeout + 1]
    BY <2>3 DEF Tick
  <2>5. QED
    BY <2>1, <2>4 DEF Tick, TypeOK, PoolTypeOK
<1>2. TypeOK'
  BY <1>1 DEF TypeOK, callVars
<1>3. \A q \in Requests : Own(q)'
  BY OthersKeep DEF Own, Holding, callVars, Tick
<1>4. \A e \in Endpoints : Counted(e)' = Counted(e)
  BY DEF Counted, Target, Aimed, callVars
<1>5. QED
  BY <1>2, <1>3, <1>4, CountedStays DEF Tick

LEMMA NextPreserves == Inv /\ [Next]_vars => Inv'
<1> SUFFICES ASSUME Inv, [Next]_vars
             PROVE  Inv'
  OBVIOUS
<1>1. CASE Tick /\ UNCHANGED callVars
  BY <1>1, TickStep
<1>2. ASSUME NEW r \in Requests,
             \/ \E o \in Orders : Call(r, o)
             \/ CallInVain(r) \/ GiveUp(r) \/ TakeResult(r)
             \/ BodyCtx(r) \/ \E ok \in BOOLEAN : BodyEnds(r, ok)
      PROVE  Inv'
  BY <1>2, QuietSteps DEF BodyCtx
<1>3. ASSUME NEW r \in Requests, Expire(r) \/ \E how \in Ended : CallerEnds(r, how)
      PROVE  Inv'
  BY <1>3, ContextSteps
<1>4. ASSUME NEW r \in Requests, Attempt(r) \/ AttemptInVain(r) \/ TakeGuard(r)
      PROVE  Inv'
  BY <1>4, AttemptStep, AttemptInVainStep, TakeGuardStep
<1>5. ASSUME NEW r \in Requests,
             \/ FailCtx(r) \/ \E err \in {"definitive", "transient"} : Fail(r, err)
             \/ \E label \in {"streaming", "draining"} : Respond(r, label)
      PROVE  Inv'
  <2>1. CASE FailCtx(r)
    <3>1. Fail(r, "transient")
      BY <2>1 DEF FailCtx
    <3>2. QED
      BY <3>1, FailStep
  <2>2. CASE \E err \in {"definitive", "transient"} : Fail(r, err)
    BY <2>2, FailStep
  <2>3. CASE \E label \in {"streaming", "draining"} : Respond(r, label)
    BY <2>3, RespondStep
  <2>4. QED
    BY <1>5, <2>1, <2>2, <2>3
<1>6. CASE UNCHANGED vars
  <2>1. TypeOK'
    BY <1>6 DEF vars, poolVars, callVars, Inv, TypeOK, PoolTypeOK
  <2>2. \A q \in Requests : Own(q)'
    BY <1>6, OthersKeep DEF vars, poolVars, callVars, Inv, Own, Holding
  <2>3. \A e \in Endpoints : Counted(e)' = Counted(e)
    BY <1>6 DEF vars, callVars, Counted, Target, Aimed
  <2>4. QED
    BY <1>6, <2>1, <2>2, <2>3, CountedStays DEF Inv, vars, poolVars
<1>7. CASE Next
  <2>1. CASE \E r \in Requests : Progress(r)
    <3>1. PICK r \in Requests : Progress(r)
      BY <2>1
    <3>2. \/ Attempt(r) \/ TakeGuard(r) \/ GiveUp(r)
          \/ Expire(r) \/ FailCtx(r) \/ BodyCtx(r)
      BY <3>1 DEF Progress
    <3>3. QED
      BY <3>2, <1>2, <1>3, <1>4, <1>5
  <2>2. CASE ~\E r \in Requests : Progress(r)
    <3>1. \/ Tick /\ UNCHANGED callVars
          \/ \E r \in Requests :
                \/ \E o \in Orders : Call(r, o)
                \/ CallInVain(r)
                \/ AttemptInVain(r)
                \/ \E label \in {"streaming", "draining"} : Respond(r, label)
                \/ \E err \in {"definitive", "transient"} : Fail(r, err)
                \/ \E ok \in BOOLEAN : BodyEnds(r, ok)
                \/ \E how \in Ended : CallerEnds(r, how)
                \/ TakeResult(r)
      BY <1>7, <2>2 DEF Next
    <3>2. QED
      BY <3>1, <1>1, <1>2, <1>3, <1>4, <1>5
  <2>3. QED
    BY <2>1, <2>2
<1>8. QED
  BY <1>6, <1>7

--------------------------------------------------------------------------------
(* The theorems. *)

\* Inv holds in every reachable state.
THEOREM Invariance == Spec => []Inv
BY InitEstablishes, NextPreserves, PTL DEF Spec

\* Every variable has its type in every reachable state.
THEOREM TypeCorrect == Spec => []TypeOK
<1>1. Inv => TypeOK
  BY DEF Inv
<1>2. QED
  BY <1>1, Invariance, PTL

\* Only the attempt under way has a timer, which is left running while its response is
\* in the hands of the caller.
THEOREM TimersAreCancelled == Spec => []OneTimerPerAttempt
<1>1. Inv => OneTimerPerAttempt
  BY DEF Inv, Own, Timer, OneTimerPerAttempt
<1>2. QED
  BY <1>1, Invariance, PTL

\* However requests end and clients are cleaned up, the guards of a client in the pool
\* are as many as the requests being sent through it.
THEOREM GuardsAreReleased == Spec => []GuardsAddUp
<1>1. Inv => GuardsAddUp
  BY DEF Inv
<1>2. QED
  BY <1>1, Invariance, PTL

\* A call gives up for a transient failure only after its last attempt, and for the end
\* of a context only if it is the caller's.
THEOREM GivingUpHasCause == Spec => []GivesUpForCause
<1>1. Inv => GivesUpForCause
  BY DEF Inv, Own, Cause, GivesUpForCause
<1>2. QED
  BY <1>1, Invariance, PTL

\* No cleanup removes a client a request is being sent through.
THEOREM UsedClientsStay == Spec => ClientsInUseStay
<1> DEFINE Kept ==
        \A e \in pooled \ pooled', r \in Requests :
            holds[r] = "pooled" /\ Target(r) = e =>
                pc[r] = "guard" /\ (Crowded \/ idle[e] > IdleTimeout)
<1>1. Inv /\ Next => Kept
  <2> SUFFICES ASSUME Inv, Next, NEW e \in pooled \ pooled', NEW r \in Requests,
                      holds[r] = "pooled", Target(r) = e
               PROVE  pc[r] = "guard" /\ (Crowded \/ idle[e] > IdleTimeout)
    OBVIOUS
  <2>1. PICK q \in Requests : Attempt(q) \/ AttemptInVain(q)
    BY DEF Next, Progress, Tick, callVars, poolVars, Call, CallInVain, TakeGuard, GiveUp,
           Expire, FailCtx, Fail, BodyCtx, BodyEnds, Respond, Release, CallerEnds, TakeResult
  <2>2. e \in Swept
    BY <2>1 DEF Attempt, AttemptInVain, Entry, EntryFails
  <2>3. e \in Endpoints /\ idle[e] \in Int /\ IdleTimeout \in Int
    BY PoolAssumption DEF Inv, TypeOK, PoolTypeOK, PoolAssumption
  <2>4. ~Retained(e)
    BY <2>2 DEF Swept
  <2>5. Crowded \/ idle[e] > IdleTimeout
    BY <2>3, <2>4 DEF Retained
  <2>6. pc[r] # "sending"
    BY <2>2, SendingIsNotSwept
  <2>7. QED
    BY <2>5, <2>6 DEF Inv, Own, Holding
<1>2. Inv /\ [Next]_vars => [Kept]_vars
  BY <1>1
<1>3. QED
  BY <1>2, Invariance, PTL DEF Spec, ClientsInUseStay

--------------------------------------------------------------------------------
(* Remainders: how the rotation's index moves with the count of attempts. *)

LEMMA DivMod ==
    ASSUME NEW a \in Nat, NEW n \in Nat \ {0}
    PROVE  /\ a = n * (a \div n) + (a % n)
           /\ a \div n \in Nat
           /\ a % n \in 0 .. n - 1
OBVIOUS

LEMMA ModUnique ==
    ASSUME NEW n \in Nat \ {0}, NEW q \in Nat, NEW k \in 0 .. n - 1
    PROVE  (n * q + k) % n = k
BY SMTT(30)

LEMMA ModBelow ==
    ASSUME NEW n \in Nat \ {0}, NEW a \in 0 .. n - 1
    PROVE  a % n = a
OBVIOUS

LEMMA ModNext ==
    ASSUME NEW a \in Nat, NEW n \in Nat \ {0}
    PROVE  (a + 1) % n = IF (a % n) + 1 = n THEN 0 ELSE (a % n) + 1
<1> DEFINE q == a \div n
           k == a % n
<1>1. a = n * q + k /\ q \in Nat /\ k \in 0 .. n - 1
  BY DivMod
<1> HIDE DEF q, k
<1>2. CASE k + 1 = n
  <2>1. a + 1 = n * (q + 1) + 0 /\ q + 1 \in Nat /\ 0 \in 0 .. n - 1
    BY <1>1, <1>2
  <2>2. (n * (q + 1) + 0) % n = 0
    BY <2>1, ModUnique
  <2>3. QED
    BY <2>1, <2>2, <1>2 DEF k
<1>3. CASE k + 1 # n
  <2>1. a + 1 = n * q + (k + 1) /\ k + 1 \in 0 .. n - 1
    BY <1>1, <1>3
  <2>2. (n * q + (k + 1)) % n = k + 1
    BY <1>1, <2>1, ModUnique
  <2>3. QED
    BY <2>1, <2>2, <1>3 DEF k
<1>4. QED
  BY <1>2, <1>3

--------------------------------------------------------------------------------
(* The laps of a call's order.  Its attempts at an endpoint are those that aimed at it; *)
(* one more adds to those of the endpoint next in the order.                            *)

\* An order has no endpoint twice.
LEMMA OrdersAreOfDifferent ==
    ASSUME NEW o \in Orders
    PROVE  \A i, j \in DOMAIN o : o[i] = o[j] => i = j
<1>1. PICK E \in LookUps : o \in SetToSeqs(E)
  BY DEF Orders
<1>2. QED
  BY <1>1 DEF SetToSeqs

\* What is known of a call that is trying.
LEMMA TryingFacts ==
    ASSUME TypeOK, NEW r \in Requests, Holding(r), Trying(r)
    PROVE  /\ order[r] \in Seq(Endpoints) /\ order[r] # <<>>
           /\ Len(order[r]) \in Nat \ {0} /\ DOMAIN order[r] = 1 .. Len(order[r])
           /\ \A i, j \in DOMAIN order[r] : order[r][i] = order[r][j] => i = j
           /\ tries[r] \in Nat
<1>1. order[r] \in Orders
  BY DEF TypeOK, Holding, Trying
<1>2. order[r] \in Seq(Endpoints) /\ order[r] # <<>>
  BY <1>1, OrdersAreSequences
<1>3. tries[r] \in Nat
  BY GetAssumption DEF TypeOK, GetAssumption
<1>4. QED
  BY <1>1, <1>2, <1>3, OrdersAreOfDifferent

\* The next attempt aims past those of the lap so far.
LEMMA NextAim ==
    ASSUME TypeOK, NEW r \in Requests, Holding(r), Trying(r)
    PROVE  /\ tries[r] % Len(order[r]) \in 0 .. Len(order[r]) - 1
           /\ (tries[r] % Len(order[r])) + 1 \in DOMAIN order[r]
           /\ Aimed(r, tries[r] + 1) = order[r][(tries[r] % Len(order[r])) + 1]
<1> DEFINE n == Len(order[r])
           p == tries[r] % n
<1>1. n \in Nat \ {0} /\ DOMAIN order[r] = 1 .. n /\ tries[r] \in Nat
  BY TryingFacts
<1>2. (tries[r] + 1) - 1 = tries[r]
  BY <1>1
<1>3. Aimed(r, tries[r] + 1) = order[r][p + 1]
  BY <1>2 DEF Aimed
<1> HIDE DEF n
<1>4. p \in 0 .. n - 1
  BY <1>1, DivMod
<1> HIDE DEF p
<1>5. p + 1 \in 1 .. n
  BY <1>1, <1>4
<1>6. QED
  BY <1>1, <1>3, <1>4, <1>5 DEF n, p

LEMMA AimedAtIsFinite ==
    ASSUME NEW r, tries[r] \in Nat, NEW e
    PROVE  IsFiniteSet(AimedAt(r, e)) /\ Cardinality(AimedAt(r, e)) \in Nat
<1>1. IsFiniteSet(1 .. tries[r])
  BY FS_Interval
<1>2. AimedAt(r, e) \in SUBSET (1 .. tries[r])
  BY DEF AimedAt
<1>3. IsFiniteSet(AimedAt(r, e))
  BY <1>1, <1>2, FS_Subset
<1>4. QED
  BY <1>3, FS_CardinalityType

\* One more attempt is one more at the endpoint it aims at.
LEMMA AimedAtGrows ==
    ASSUME NEW r, tries[r] \in Nat, tries'[r] = tries[r] + 1, order'[r] = order[r], NEW e
    PROVE  Cardinality(AimedAt(r, e)') =
               IF e = Aimed(r, tries[r] + 1) THEN Cardinality(AimedAt(r, e)) + 1
               ELSE Cardinality(AimedAt(r, e))
<1> DEFINE k == tries[r] + 1
<1>1. \A n : Aimed(r, n)' = Aimed(r, n)
  BY DEF Aimed
<1>2. AimedAt(r, e)' = {n \in 1 .. k : Aimed(r, n) = e}
  BY <1>1 DEF AimedAt
<1>3. k \in 1 .. k /\ 1 .. k = (1 .. tries[r]) \cup {k} /\ k \notin 1 .. tries[r]
  OBVIOUS
<1> HIDE DEF k
<1>4. CASE e = Aimed(r, k)
  <2>1. AimedAt(r, e)' = AimedAt(r, e) \cup {k}
    BY <1>2, <1>3, <1>4 DEF AimedAt
  <2>2. k \notin AimedAt(r, e)
    BY <1>3 DEF AimedAt
  <2>3. QED
    BY <1>4, <2>1, <2>2, AimedAtIsFinite, FS_AddElement DEF k
<1>5. CASE e # Aimed(r, k)
  <2>1. AimedAt(r, e)' = AimedAt(r, e)
    BY <1>2, <1>3, <1>5 DEF AimedAt
  <2>2. QED
    BY <1>5, <2>1 DEF k
<1>6. QED
  BY <1>4, <1>5

\* The next attempt of a call in a lap leaves it in that lap or in the next one.
LEMMA OneMoreInItsLap ==
    ASSUME TypeOK, NEW r \in Requests, Holding(r), Trying(r),
           tries'[r] = tries[r] + 1, order'[r] = order[r],
           NEW m \in 0 .. tries[r], Lap(r, m)
    PROVE  \E l \in 0 .. tries'[r] : Lap(r, l)'
<1> DEFINE n == Len(order[r])
           p == tries[r] % n
<1>1. /\ n \in Nat \ {0} /\ DOMAIN order[r] = 1 .. n /\ tries[r] \in Nat
      /\ \A i, j \in DOMAIN order[r] : order[r][i] = order[r][j] => i = j
  BY TryingFacts
<1>2. /\ p \in 0 .. n - 1 /\ p + 1 \in DOMAIN order[r]
      /\ Aimed(r, tries[r] + 1) = order[r][p + 1]
  BY NextAim
<1>3. tries'[r] % Len(order'[r]) = IF p + 1 = n THEN 0 ELSE p + 1
  BY <1>1, ModNext
<1>4. \A i \in DOMAIN order[r] :
          Cardinality(AimedAt(r, order[r][i])) = IF i <= p THEN m + 1 ELSE m
  BY DEF Lap
<1> HIDE DEF n, p
<1>5. \A i \in DOMAIN order[r] :
          Cardinality(AimedAt(r, order[r][i])') = IF i <= p + 1 THEN m + 1 ELSE m
  <2> TAKE i \in DOMAIN order[r]
  <2>1. Cardinality(AimedAt(r, order[r][i])') =
            IF order[r][i] = Aimed(r, tries[r] + 1)
            THEN Cardinality(AimedAt(r, order[r][i])) + 1
            ELSE Cardinality(AimedAt(r, order[r][i]))
    <3>1. \A e : Cardinality(AimedAt(r, e)') =
              IF e = Aimed(r, tries[r] + 1) THEN Cardinality(AimedAt(r, e)) + 1
              ELSE Cardinality(AimedAt(r, e))
      BY <1>1, AimedAtGrows
    <3>2. QED
      BY <3>1
  <2>2. order[r][i] = Aimed(r, tries[r] + 1) <=> i = p + 1
    BY <1>1, <1>2
  <2>3. i \in Nat /\ p \in Nat /\ m \in Nat
    BY <1>1, <1>2
  <2>4. QED
    BY <1>4, <2>1, <2>2, <2>3
<1>6. \A i \in DOMAIN order'[r] :
          Cardinality(AimedAt(r, order[r][i])') = IF i <= p + 1 THEN m + 1 ELSE m
  BY <1>5
<1>7. CASE p + 1 = n
  <2>1. \A i \in DOMAIN order[r] : i <= p + 1 /\ ~(i <= 0)
    BY <1>1, <1>2, <1>7
  <2>2. \A i \in DOMAIN order'[r] :
            Cardinality(AimedAt(r, order[r][i])') =
                IF i <= tries'[r] % Len(order'[r]) THEN (m + 1) + 1 ELSE m + 1
    BY <1>1, <1>3, <1>6, <1>7, <2>1
  <2>3. Lap(r, m + 1)'
    BY <2>2 DEF Lap
  <2>4. m + 1 \in 0 .. tries'[r]
    BY <1>1
  <2>5. QED
    BY <2>3, <2>4
<1>8. CASE p + 1 # n
  <2>1. \A i \in DOMAIN order'[r] :
            Cardinality(AimedAt(r, order[r][i])') =
                IF i <= tries'[r] % Len(order'[r]) THEN m + 1 ELSE m
    BY <1>1, <1>3, <1>6, <1>8
  <2>2. Lap(r, m)'
    BY <2>1 DEF Lap
  <2>3. m \in 0 .. tries'[r]
    BY <1>1
  <2>4. QED
    BY <2>2, <2>3
<1>9. QED
  BY <1>7, <1>8

--------------------------------------------------------------------------------
(* The refinement of Rotation.  A step of a call changes its own entries of the *)
(* mapped variables alone.                                                      *)

\* What the mapping depends on, of another call or one that does not step.
Still(q) == UNCHANGED <<pc[q], order[q], tries[q], result[q]>>

Mapping == <<Phase, ServedBy, Tried, Ending>>

LEMMA MappingOf ==
    ASSUME NEW r \in Requests
    PROVE  /\ Phase[r] = IF Trying(r) THEN "trying"
                         ELSE IF pc[r] = "idle" THEN "idle" ELSE "over"
           /\ ServedBy[r] = IF Trying(r) THEN ToSet(order[r]) ELSE {}
           /\ Tried[r] = [e \in Endpoints |->
                             IF Trying(r) THEN Cardinality(AimedAt(r, e)) ELSE 0]
           /\ Ending[r] = IF Trying(r) \/ pc[r] = "idle" THEN "none"
                          ELSE IF Reading(r) \/ result[r] \in {"ok", "body"} THEN "ok"
                          ELSE IF result[r] \in Ended THEN "ended" ELSE result[r]
BY DEF Phase, ServedBy, Tried, Ending

LEMMA StillMapped ==
    ASSUME NEW q \in Requests, Still(q)
    PROVE  /\ Phase'[q] = Phase[q]
           /\ ServedBy'[q] = ServedBy[q]
           /\ Tried'[q] = Tried[q]
           /\ Ending'[q] = Ending[q]
<1>1. \A e : AimedAt(q, e)' = AimedAt(q, e)
  BY DEF AimedAt, Aimed, Still
<1>2. Trying(q)' = Trying(q) /\ Reading(q)' = Reading(q)
  BY DEF Trying, Reading, Still
<1>3. Phase'[q] = Phase[q] /\ ServedBy'[q] = ServedBy[q]
  BY <1>2 DEF Phase, ServedBy, Still
<1>4. Tried'[q] = Tried[q]
  BY <1>1, <1>2 DEF Tried
<1>5. Ending'[q] = Ending[q]
  BY <1>2 DEF Ending, Still
<1>6. QED
  BY <1>3, <1>4, <1>5

LEMMA MappedAreFunctions ==
    /\ Phase = [q \in Requests |-> Phase[q]]
    /\ ServedBy = [q \in Requests |-> ServedBy[q]]
    /\ Tried = [q \in Requests |-> Tried[q]]
    /\ Ending = [q \in Requests |-> Ending[q]]
    /\ Phase' = [q \in Requests |-> Phase'[q]]
    /\ ServedBy' = [q \in Requests |-> ServedBy'[q]]
    /\ Tried' = [q \in Requests |-> Tried'[q]]
    /\ Ending' = [q \in Requests |-> Ending'[q]]
BY DEF Phase, ServedBy, Tried, Ending

LEMMA OnlyItsEntries ==
    ASSUME NEW r \in Requests, \A q \in Requests \ {r} : Still(q)
    PROVE  /\ Phase' = [Phase EXCEPT ![r] = Phase'[r]]
           /\ ServedBy' = [ServedBy EXCEPT ![r] = ServedBy'[r]]
           /\ Tried' = [Tried EXCEPT ![r] = Tried'[r]]
           /\ Ending' = [Ending EXCEPT ![r] = Ending'[r]]
           /\ Phase'[r] = Phase[r] => Phase' = Phase
           /\ ServedBy'[r] = ServedBy[r] => ServedBy' = ServedBy
           /\ Tried'[r] = Tried[r] => Tried' = Tried
           /\ Ending'[r] = Ending[r] => Ending' = Ending
<1>1. \A q \in Requests \ {r} :
          /\ Phase'[q] = Phase[q]
          /\ ServedBy'[q] = ServedBy[q]
          /\ Tried'[q] = Tried[q]
          /\ Ending'[q] = Ending[q]
  BY StillMapped
<1>2. QED
  BY <1>1, MappedAreFunctions

\* A step that keeps a call trying without a new attempt, or does not concern it.
LEMMA UnseenByThePolicy ==
    ASSUME NEW r \in Requests, \A q \in Requests \ {r} : Still(q),
           \/ Trying(r) /\ Trying(r)' /\ order'[r] = order[r] /\ tries'[r] = tries[r]
           \/ Still(r)
    PROVE  UNCHANGED <<Phase, ServedBy, Tried, Ending>>
<1>1. CASE Still(r)
  BY <1>1, StillMapped, OnlyItsEntries
<1>2. CASE Trying(r) /\ Trying(r)' /\ order'[r] = order[r] /\ tries'[r] = tries[r]
  <2>1. \A e : AimedAt(r, e)' = AimedAt(r, e)
    BY <1>2 DEF AimedAt, Aimed
  <2>2. Phase'[r] = Phase[r] /\ ServedBy'[r] = ServedBy[r]
    BY <1>2 DEF Phase, ServedBy
  <2>3. Tried'[r] = Tried[r]
    BY <1>2, <2>1 DEF Tried
  <2>4. Ending'[r] = Ending[r]
    BY <1>2 DEF Ending
  <2>5. QED
    BY <2>2, <2>3, <2>4, OnlyItsEntries
<1>3. QED
  BY <1>1, <1>2

\* What a call that is not trying looks like to the policy.
LEMMA NotTrying ==
    ASSUME NEW r \in Requests, ~Trying(r)
    PROVE  /\ Phase[r] = IF pc[r] = "idle" THEN "idle" ELSE "over"
           /\ ServedBy[r] = {}
           /\ Tried[r] = Policy!Untried
           /\ pc[r] = "idle" => Ending[r] = "none"
BY MappingOf DEF Policy!Untried

\* The end of a request by the policy: a call that stops trying, for whatever reason.
LEMMA EndsForThePolicy ==
    ASSUME NEW r \in Requests, \A q \in Requests \ {r} : Still(q),
           ~Trying(r)', pc'[r] # "idle", NEW n, tries' = [tries EXCEPT ![r] = n]
    PROVE  Phase' = [Phase EXCEPT ![r] = "over"] /\ Policy!End(r, Ending'[r], n)
<1>1. Phase'[r] = "over" /\ ServedBy'[r] = {} /\ Tried'[r] = Policy!Untried
  BY DEF Phase, ServedBy, Tried, Policy!Untried
<1>2. QED
  BY <1>1, OnlyItsEntries DEF Policy!End

\* A further attempt that does not end the call.
LEMMA AttemptIsOne ==
    ASSUME TypeOK, NEW r \in Requests, Holding(r), Trying(r), Trying(r)',
           tries[r] <= MaxRetries, tries' = [tries EXCEPT ![r] = @ + 1],
           order'[r] = order[r], \A q \in Requests \ {r} : Still(q),
           NEW m \in 0 .. tries[r], Lap(r, m)
    PROVE  Policy!Attempt(r)
<1> DEFINE e == Aimed(r, tries[r] + 1)
           p == tries[r] % Len(order[r])
<1>1. /\ tries[r] \in Nat /\ order[r] \in Seq(Endpoints)
      /\ DOMAIN order[r] = 1 .. Len(order[r]) /\ Len(order[r]) \in Nat \ {0}
  BY TryingFacts
<1>2. p \in 0 .. Len(order[r]) - 1 /\ p + 1 \in DOMAIN order[r] /\ e = order[r][p + 1]
  BY NextAim
<1>3. e \in Endpoints
  BY <1>1, <1>2
<1>4. tries'[r] = tries[r] + 1
  BY DEF TypeOK
<1>5. Phase[r] = "trying" /\ Phase'[r] = "trying" /\ ServedBy[r] = ToSet(order[r])
      /\ ServedBy'[r] = ServedBy[r] /\ Ending'[r] = Ending[r]
  BY DEF Phase, ServedBy, Ending
<1>6. Tried[r] = [f \in Endpoints |-> Cardinality(AimedAt(r, f))]
  BY DEF Tried
<1>7. Tried'[r] = [f \in Endpoints |-> Cardinality(AimedAt(r, f)')]
  BY DEF Tried
<1> HIDE DEF e, p
<1>8. \A f : Cardinality(AimedAt(r, f)') =
          IF f = e THEN Cardinality(AimedAt(r, f)) + 1 ELSE Cardinality(AimedAt(r, f))
  BY <1>1, <1>4, AimedAtGrows DEF e
<1>9. Tried'[r] = [Tried[r] EXCEPT ![e] = @ + 1]
  BY <1>3, <1>6, <1>7, <1>8
<1>10. Tried' = [Tried EXCEPT ![r][e] = @ + 1]
  BY <1>9, OnlyItsEntries
<1>11. \A i \in DOMAIN order[r] : order[r][i] \in Endpoints
                                 /\ Tried[r][order[r][i]] = IF i <= p THEN m + 1 ELSE m
  BY <1>1, <1>6 DEF Lap, p
<1>12. Tried[r][e] = m
  BY <1>1, <1>2, <1>11
<1>13. \A f \in ServedBy[r] : Tried[r][e] <= Tried[r][f]
  BY <1>1, <1>5, <1>11, <1>12 DEF ToSet
<1>14. e \in ServedBy[r]
  BY <1>2, <1>5 DEF ToSet
<1>15. e \in Policy!TriedLeast(r)
  BY <1>13, <1>14 DEF Policy!TriedLeast
<1>16. tries[r] < 1 + MaxRetries
  BY <1>1, GetAssumption DEF GetAssumption
<1>17. Phase' = Phase /\ ServedBy' = ServedBy /\ Ending' = Ending
  BY <1>5, OnlyItsEntries
<1>18. \E f \in Policy!TriedLeast(r) : Tried' = [Tried EXCEPT ![r][f] = @ + 1]
  BY <1>10, <1>15
<1>19. QED
  BY <1>5, <1>16, <1>17, <1>18 DEF Policy!Attempt

\* The end of a call by the policy, after n attempts.
LEMMA ReturnIsOne ==
    ASSUME NEW r \in Requests, \A q \in Requests \ {r} : Still(q),
           Trying(r), ~Trying(r)', pc'[r] # "idle",
           NEW n \in 1 .. 1 + MaxRetries, n = tries[r] \/ n = tries[r] + 1,
           tries' = [tries EXCEPT ![r] = n],
           Ending'[r] \in Policy!Endings, Ending'[r] = "transient" => n = 1 + MaxRetries
    PROVE  Policy!Next
<1>1. Phase[r] = "trying"
  BY MappingOf
<1>2. Phase' = [Phase EXCEPT ![r] = "over"] /\ Policy!End(r, Ending'[r], n)
  BY EndsForThePolicy
<1>3. n <= 1 + MaxRetries /\ n > 0
  BY GetAssumption DEF GetAssumption
<1>4. Policy!Return(r)
  BY <1>1, <1>2, <1>3 DEF Policy!Return
<1>5. QED
  BY <1>4 DEF Policy!Next

\* What a failed attempt that ends the call is to the policy.
LEMMA DecidedEnding ==
    ASSUME TypeOK, NEW r \in Requests, NEW n \in 1 .. 1 + MaxRetries,
           NEW err \in {"definitive", "transient"}, Decide(r, n, err), pc'[r] = "returned"
    PROVE  /\ Ending'[r] \in Policy!Endings
           /\ Ending'[r] = "transient" => n = 1 + MaxRetries
<1>1. ~Trying(r)' /\ ~Reading(r)'
  BY DEF Trying, Reading
<1>2. /\ result'[r] \in {"definitive", "transient"} \cup Ended
      /\ result'[r] = "transient" => n = 1 + MaxRetries
  <2>1. CASE err = "definitive" \/ LastTry(n)
    <3>1. Return(r, err)
      BY <2>1 DEF Decide
    <3>2. QED
      BY <2>1, <3>1 DEF Return, LastTry, TypeOK
  <2>2. CASE ~(err = "definitive" \/ LastTry(n)) /\ done[r] \in Ended
    <3>1. Return(r, done[r])
      BY <2>2 DEF Decide
    <3>2. QED
      BY <2>2, <3>1 DEF Return, TypeOK, Ended
  <2>3. CASE ~(err = "definitive" \/ LastTry(n)) /\ done[r] \notin Ended
    <3>1. Goto(r, "ready")
      BY <2>3 DEF Decide
    <3>2. QED
      BY <3>1 DEF Goto, TypeOK
  <2>4. QED
    BY <2>1, <2>2, <2>3
<1>3. Ending'[r] = IF result'[r] \in Ended THEN "ended" ELSE result'[r]
  BY <1>1, <1>2 DEF Ending, Ended
<1>4. QED
  BY <1>2, <1>3 DEF Policy!Endings, Ended

\* What is to be shown of the step of a call, for the refinement and for the laps.
Refined(r) ==
    /\ Policy!Next \/ UNCHANGED Policy!vars
    /\ Trying(r)' => \E m \in 0 .. tries'[r] : Lap(r, m)'

InItsLap(r) == Trying(r) => \E m \in 0 .. tries[r] : Lap(r, m)

LEMMA LapStays ==
    ASSUME NEW r \in Requests, InItsLap(r), Trying(r),
           order'[r] = order[r], tries'[r] = tries[r]
    PROVE  \E m \in 0 .. tries'[r] : Lap(r, m)'
<1>1. PICK m \in 0 .. tries[r] : Lap(r, m)
  BY DEF InItsLap
<1>2. \A e : AimedAt(r, e)' = AimedAt(r, e)
  BY DEF AimedAt, Aimed
<1>3. \A i \in DOMAIN order'[r] :
          Cardinality(AimedAt(r, order[r][i])') =
              IF i <= tries'[r] % Len(order'[r]) THEN m + 1 ELSE m
  BY <1>1, <1>2 DEF Lap
<1>4. Lap(r, m)'
  BY <1>3 DEF Lap
<1>5. QED
  BY <1>1, <1>4

LEMMA NothingNew ==
    ASSUME NEW r \in Requests, \A q \in Requests \ {r} : Still(q), UNCHANGED tries,
           \/ Trying(r) /\ Trying(r)' /\ order'[r] = order[r]
           \/ Still(r) /\ (Trying(r)' => Trying(r)),
           InItsLap(r)
    PROVE  Refined(r)
<1>1. UNCHANGED <<Phase, ServedBy, Tried, Ending>>
  BY UnseenByThePolicy
<1>2. UNCHANGED Policy!vars
  BY <1>1 DEF Policy!vars
<1>3. Trying(r)' => order'[r] = order[r] /\ Trying(r)
  BY DEF Still
<1>4. QED
  BY <1>2, <1>3, LapStays DEF Refined

LEMMA CallRefines ==
    ASSUME TypeOK, NEW r \in Requests, Holding(r), NEW o \in Orders, Call(r, o)
    PROVE  Refined(r) /\ \A q \in Requests \ {r} : Still(q)
<1>1. /\ pc[r] = "idle" /\ tries[r] = 0 /\ tries' = tries
      /\ pc'[r] = "ready" /\ order'[r] = o
  BY DEF Call, Goto, Holding, TypeOK
<1>2. \A q \in Requests \ {r} : Still(q)
  BY DEF Call, Goto, Still, TypeOK
<1>3. o \in Seq(Endpoints) /\ o # <<>>
  BY OrdersAreSequences
<1>4. ~Trying(r) /\ Trying(r)'
  BY <1>1 DEF Trying
<1>5. Phase[r] = "idle" /\ Tried[r] = Policy!Untried /\ Ending[r] = "none"
  BY <1>1, <1>4, NotTrying
<1>6. \A e : Cardinality(AimedAt(r, e)') = 0
  <2>1. \A e : AimedAt(r, e)' = {}
    BY <1>1 DEF AimedAt
  <2>2. QED
    BY <2>1, FS_EmptySet
<1>7. Phase'[r] = "trying" /\ ServedBy'[r] = ToSet(o) /\ Ending'[r] = "none"
  BY <1>1, <1>4 DEF Phase, ServedBy, Ending
<1>8. Tried'[r] = Policy!Untried
  BY <1>4, <1>6 DEF Tried, Policy!Untried
<1>9. Tried' = Tried /\ Ending' = Ending
  BY <1>2, <1>5, <1>7, <1>8, OnlyItsEntries
<1>10. ToSet(o) \in SUBSET Endpoints /\ ToSet(o) # {}
  <2>1. 1 \in DOMAIN o /\ \A i \in DOMAIN o : o[i] \in Endpoints
    BY <1>3
  <2>2. QED
    BY <2>1 DEF ToSet
<1>11. Policy!Begin(r)
  BY <1>1, <1>2, <1>5, <1>7, <1>9, <1>10, OnlyItsEntries DEF Policy!Begin
<1>12. Lap(r, 0)'
  <2>1. Len(o) \in Nat \ {0} /\ 0 % Len(o) = 0 /\ DOMAIN o = 1 .. Len(o)
    BY <1>3, ModBelow
  <2>2. \A i \in DOMAIN order'[r] :
            Cardinality(AimedAt(r, order[r][i])') =
                IF i <= tries'[r] % Len(order'[r]) THEN 0 + 1 ELSE 0
    BY <1>1, <1>6, <2>1
  <2>3. QED
    BY <2>2 DEF Lap
<1>13. 0 \in 0 .. tries'[r]
  BY <1>1
<1>14. Policy!Next
  BY <1>11 DEF Policy!Next
<1>15. QED
  BY <1>2, <1>12, <1>13, <1>14 DEF Refined

LEMMA OutsideSteps ==
    ASSUME TypeOK, NEW r \in Requests, Holding(r), CallInVain(r) \/ TakeResult(r)
    PROVE  Refined(r) /\ \A q \in Requests \ {r} : Still(q)
<1>1. \A q \in Requests \ {r} : Still(q)
  BY DEF CallInVain, TakeResult, Return, Goto, Still, TypeOK
<1>2. ~Trying(r) /\ ~Trying(r)'
  BY DEF CallInVain, TakeResult, Return, Goto, Trying, TypeOK
<1>3. ServedBy[r] = {} /\ Tried[r] = Policy!Untried
  BY <1>2, NotTrying
<1>4. ServedBy'[r] = {} /\ Tried'[r] = Policy!Untried
  BY <1>2 DEF ServedBy, Tried, Policy!Untried
<1>5. ServedBy' = ServedBy /\ Tried' = Tried
  BY <1>1, <1>3, <1>4, OnlyItsEntries
<1>6. CASE CallInVain(r)
  <2>1. /\ pc[r] = "idle" /\ pc'[r] = "returned" /\ result'[r] = "definitive"
        /\ tries' = [tries EXCEPT ![r] = 0]
    BY <1>6 DEF CallInVain, Return, Goto, Holding, TypeOK
  <2>2. Phase[r] = "idle"
    BY <1>2, <2>1, NotTrying
  <2>3. Ending'[r] = "definitive"
    BY <1>2, <2>1 DEF Ending, Reading, Ended
  <2>4. Phase' = [Phase EXCEPT ![r] = "over"] /\ Policy!End(r, "definitive", 0)
    BY <1>1, <1>2, <2>1, <2>3, EndsForThePolicy
  <2>5. Policy!Next
    BY <2>2, <2>4 DEF Policy!ReturnInVain, Policy!Next
  <2>6. QED
    BY <1>1, <1>2, <2>5 DEF Refined
<1>7. CASE TakeResult(r)
  <2>1. /\ pc[r] = "returned" /\ pc'[r] = "idle"
        /\ tries' = [tries EXCEPT ![r] = 0]
    BY <1>7 DEF TakeResult, Goto, TypeOK
  <2>2. Phase[r] = "over"
    BY <1>2, <2>1, NotTrying
  <2>3. Phase'[r] = "idle" /\ Ending'[r] = "none"
    BY <1>2, <2>1 DEF Phase, Ending
  <2>4. Policy!Take(r)
    BY <1>1, <1>5, <2>1, <2>2, <2>3, OnlyItsEntries DEF Policy!Take
  <2>5. Policy!Next
    BY <2>4 DEF Policy!Next
  <2>6. QED
    BY <1>1, <1>2, <2>5 DEF Refined
<1>8. QED
  BY <1>6, <1>7

LEMMA AttemptRefines ==
    ASSUME TypeOK, NEW r \in Requests, Holding(r), InItsLap(r), Attempt(r)
    PROVE  Refined(r) /\ \A q \in Requests \ {r} : Still(q)
<1>1. /\ pc[r] = "ready" /\ pc'[r] = "guard" /\ order' = order
      /\ tries' = [tries EXCEPT ![r] = @ + 1] /\ tries[r] <= MaxRetries
  BY DEF Attempt, Goto, Holding, TypeOK
<1>2. \A q \in Requests \ {r} : Still(q)
  BY DEF Attempt, Goto, Still, TypeOK
<1>3. Trying(r) /\ Trying(r)'
  BY <1>1 DEF Trying
<1>4. PICK m \in 0 .. tries[r] : Lap(r, m)
  BY <1>3 DEF InItsLap
<1>5. tries'[r] = tries[r] + 1 /\ order'[r] = order[r]
  BY <1>1 DEF TypeOK
<1>6. Policy!Attempt(r)
  BY <1>1, <1>2, <1>3, <1>4, <1>5, AttemptIsOne
<1>7. \E l \in 0 .. tries'[r] : Lap(r, l)'
  BY <1>3, <1>4, <1>5, OneMoreInItsLap
<1>8. Policy!Next
  BY <1>6 DEF Policy!Next
<1>9. QED
  BY <1>2, <1>7, <1>8 DEF Refined

LEMMA AttemptInVainRefines ==
    ASSUME TypeOK, NEW r \in Requests, Holding(r), InItsLap(r), AttemptInVain(r)
    PROVE  Refined(r) /\ \A q \in Requests \ {r} : Still(q)
<1> DEFINE n == tries[r] + 1
<1>1. /\ pc[r] = "ready" /\ Decide(r, n, "transient")
      /\ tries' = [tries EXCEPT ![r] = n] /\ tries[r] <= MaxRetries
  BY DEF AttemptInVain, Holding, TypeOK
<1>2. n \in 1 .. 1 + MaxRetries /\ tries[r] \in Nat
  BY <1>1, GetAssumption DEF TypeOK, GetAssumption
<1>3. tries'[r] = n
  BY <1>1 DEF TypeOK
<1> HIDE DEF n
<1>4. /\ \A q \in Requests \ {r} : UNCHANGED <<pc[q], order[q], result[q]>>
      /\ \/ pc'[r] = "ready" /\ order'[r] = order[r]
         \/ pc'[r] = "returned"
  BY <1>1, <1>2, DecideIsOwn
<1>5. \A q \in Requests \ {r} : Still(q)
  BY <1>1, <1>4 DEF Still, TypeOK
<1>6. Trying(r)
  BY <1>1 DEF Trying
<1>7. CASE pc'[r] = "ready" /\ order'[r] = order[r]
  <2>1. Trying(r)'
    BY <1>7 DEF Trying
  <2>2. PICK m \in 0 .. tries[r] : Lap(r, m)
    BY <1>6 DEF InItsLap
  <2>3. Policy!Attempt(r)
    BY <1>1, <1>5, <1>6, <1>7, <2>1, <2>2, AttemptIsOne DEF n
  <2>4. \E l \in 0 .. tries'[r] : Lap(r, l)'
    BY <1>3, <1>6, <1>7, <2>2, OneMoreInItsLap DEF n
  <2>5. Policy!Next
    BY <2>3 DEF Policy!Next
  <2>6. QED
    BY <1>5, <2>4, <2>5 DEF Refined
<1>8. CASE pc'[r] = "returned"
  <2>1. ~Trying(r)'
    BY <1>8 DEF Trying
  <2>2. Ending'[r] \in Policy!Endings /\ (Ending'[r] = "transient" => n = 1 + MaxRetries)
    BY <1>1, <1>2, <1>8, DecidedEnding
  <2>3. n = tries[r] + 1
    BY DEF n
  <2>4. Policy!Next
    BY <1>1, <1>2, <1>5, <1>6, <1>8, <2>1, <2>2, <2>3, ReturnIsOne
  <2>5. QED
    BY <1>5, <2>1, <2>4 DEF Refined
<1>9. QED
  BY <1>4, <1>7, <1>8

\* The attempt under way is over, with a response or not.
LEMMA AnswerRefines ==
    ASSUME TypeOK, NEW r \in Requests, Holding(r), InItsLap(r),
           \/ \E err \in {"definitive", "transient"} : Fail(r, err)
           \/ \E label \in {"streaming", "draining"} : Respond(r, label)
    PROVE  Refined(r) /\ \A q \in Requests \ {r} : Still(q)
<1>1. pc[r] = "sending" /\ tries' = tries /\ Trying(r)
  BY DEF Fail, Respond, Trying
<1>2. tries[r] \in 1 .. 1 + MaxRetries /\ tries' = [tries EXCEPT ![r] = tries[r]]
  BY <1>1, GetAssumption DEF Holding, TypeOK, GetAssumption
<1>3. ASSUME NEW err \in {"definitive", "transient"}, Fail(r, err)
      PROVE  Refined(r) /\ \A q \in Requests \ {r} : Still(q)
  <2>1. Decide(r, tries[r], err)
    BY <1>3 DEF Fail
  <2>2. /\ \A q \in Requests \ {r} : UNCHANGED <<pc[q], order[q], result[q]>>
        /\ \/ pc'[r] = "ready" /\ order'[r] = order[r]
           \/ pc'[r] = "returned"
    BY <1>2, <2>1, DecideIsOwn
  <2>3. \A q \in Requests \ {r} : Still(q)
    BY <1>1, <2>2 DEF Still
  <2>4. CASE pc'[r] = "ready" /\ order'[r] = order[r]
    <3>1. Trying(r)'
      BY <2>4 DEF Trying
    <3>2. QED
      BY <1>1, <2>3, <2>4, <3>1, NothingNew
  <2>5. CASE pc'[r] = "returned"
    <3>1. ~Trying(r)'
      BY <2>5 DEF Trying
    <3>2. /\ Ending'[r] \in Policy!Endings
          /\ Ending'[r] = "transient" => tries[r] = 1 + MaxRetries
      BY <1>2, <2>1, <2>5, DecidedEnding
    <3>3. Policy!Next
      BY <1>1, <1>2, <2>3, <2>5, <3>1, <3>2, ReturnIsOne
    <3>4. QED
      BY <2>3, <3>1, <3>3 DEF Refined
  <2>6. QED
    BY <2>2, <2>4, <2>5
<1>4. ASSUME NEW label \in {"streaming", "draining"}, Respond(r, label)
      PROVE  Refined(r) /\ \A q \in Requests \ {r} : Still(q)
  <2>1. pc'[r] = label
    BY <1>4 DEF Respond, Goto, TypeOK
  <2>2. \A q \in Requests \ {r} : Still(q)
    BY <1>4 DEF Respond, Goto, Still, TypeOK
  <2>3. ~Trying(r)' /\ pc'[r] # "idle"
    BY <2>1 DEF Trying
  <2>4. Ending'[r] = "ok"
    BY <2>1, <2>3 DEF Ending, Reading
  <2>5. Policy!Next
    BY <1>1, <1>2, <2>2, <2>3, <2>4, ReturnIsOne DEF Policy!Endings
  <2>6. QED
    BY <2>2, <2>3, <2>5 DEF Refined
<1>5. QED
  BY <1>3, <1>4

LEMMA GiveUpRefines ==
    ASSUME TypeOK, NEW r \in Requests, Holding(r), GiveUp(r)
    PROVE  Refined(r) /\ \A q \in Requests \ {r} : Still(q)
<1>1. /\ pc[r] = "ready" /\ pc'[r] = "returned" /\ result'[r] \in Ended
      /\ tries' = [tries EXCEPT ![r] = tries[r]]
  BY DEF GiveUp, Return, Goto, TypeOK
<1>2. \A q \in Requests \ {r} : Still(q)
  BY DEF GiveUp, Return, Goto, Still, TypeOK
<1>3. tries[r] \in 1 .. 1 + MaxRetries
  BY GetAssumption DEF GiveUp, TypeOK, GetAssumption
<1>4. Trying(r) /\ ~Trying(r)' /\ ~Reading(r)'
  BY <1>1 DEF Trying, Reading
<1>5. Ending'[r] = "ended"
  BY <1>1, <1>4 DEF Ending, Ended
<1>6. Policy!Next
  BY <1>1, <1>2, <1>3, <1>4, <1>5, ReturnIsOne DEF Policy!Endings
<1>7. QED
  BY <1>2, <1>4, <1>6 DEF Refined

\* The end of the body is not seen by the policy.
LEMMA BodyRefines ==
    ASSUME TypeOK, NEW r \in Requests, NEW ok \in BOOLEAN, BodyEnds(r, ok)
    PROVE  Refined(r) /\ \A q \in Requests \ {r} : Still(q)
<1>1. /\ Reading(r) /\ pc'[r] = "returned" /\ result'[r] \in {"ok", "body"}
      /\ tries' = tries
  BY DEF BodyEnds, Return, Goto, TypeOK
<1>2. \A q \in Requests \ {r} : Still(q)
  BY DEF BodyEnds, Return, Goto, Still, TypeOK
<1>3. ~Trying(r) /\ pc[r] # "idle" /\ ~Trying(r)'
  BY <1>1 DEF Reading, Trying
<1>4. Phase[r] = "over" /\ ServedBy[r] = {} /\ Tried[r] = Policy!Untried
      /\ Ending[r] = "ok"
  BY <1>1, <1>3, NotTrying, MappingOf
<1>5. Phase'[r] = "over" /\ ServedBy'[r] = {} /\ Tried'[r] = Policy!Untried
      /\ Ending'[r] = "ok"
  BY <1>1, <1>3 DEF Phase, ServedBy, Tried, Ending, Policy!Untried
<1>6. UNCHANGED Policy!vars
  BY <1>1, <1>2, <1>4, <1>5, OnlyItsEntries DEF Policy!vars
<1>7. QED
  BY <1>2, <1>3, <1>6 DEF Refined

LEMMA UnseenSteps ==
    ASSUME TypeOK, NEW r \in Requests, InItsLap(r),
           TakeGuard(r) \/ Expire(r) \/ \E how \in Ended : CallerEnds(r, how)
    PROVE  Refined(r) /\ \A q \in Requests \ {r} : Still(q)
<1>1. \A q \in Requests \ {r} : Still(q)
  BY DEF TakeGuard, Expire, CallerEnds, Goto, Still, TypeOK
<1>2. CASE TakeGuard(r)
  <2>1. Trying(r) /\ Trying(r)' /\ order' = order /\ tries' = tries
    BY <1>2 DEF TakeGuard, Goto, Trying, TypeOK
  <2>2. QED
    BY <1>1, <2>1, NothingNew
<1>3. CASE Expire(r) \/ \E how \in Ended : CallerEnds(r, how)
  <2>1. Still(r) /\ tries' = tries /\ (Trying(r)' => Trying(r))
    BY <1>3 DEF Expire, CallerEnds, Still, Trying
  <2>2. QED
    BY <1>1, <2>1, NothingNew
<1>4. QED
  BY <1>2, <1>3

LEMMA StepRefines ==
    ASSUME Inv, InLaps, [Next]_vars
    PROVE  [Policy!Next]_(Policy!vars) /\ InLaps'
<1>1. TypeOK /\ \A r \in Requests : Holding(r) /\ InItsLap(r)
  BY DEF Inv, Own, InLaps, InItsLap
<1>2. CASE UNCHANGED callVars
  <2>1. \A q \in Requests : Still(q) /\ Trying(q)' = Trying(q) /\ UNCHANGED tries
    BY <1>2 DEF callVars, Still, Trying
  <2>2. \A q \in Requests : Refined(q)
    BY <1>1, <2>1, NothingNew
  <2>3. InLaps'
    BY <2>2 DEF InLaps, Refined
  <2>4. UNCHANGED Policy!vars
    <3>1. UNCHANGED <<Phase, ServedBy, Tried, Ending>>
      <4>1. \A q \in Requests : /\ Phase'[q] = Phase[q] /\ ServedBy'[q] = ServedBy[q]
                                /\ Tried'[q] = Tried[q] /\ Ending'[q] = Ending[q]
        BY <2>1, StillMapped
      <4>2. QED
        BY <4>1, MappedAreFunctions
    <3>2. QED
      BY <1>2, <3>1 DEF Policy!vars, callVars
  <2>5. QED
    BY <2>3, <2>4
<1>3. ASSUME NEW r \in Requests, Refined(r), \A q \in Requests \ {r} : Still(q)
      PROVE  [Policy!Next]_(Policy!vars) /\ InLaps'
  <2>1. ASSUME NEW q \in Requests \ {r}, Trying(q)'
        PROVE  \E m \in 0 .. tries'[q] : Lap(q, m)'
    <3>1. Trying(q) /\ order'[q] = order[q] /\ tries'[q] = tries[q]
      BY <1>3, <2>1 DEF Still, Trying
    <3>2. QED
      BY <1>1, <3>1, LapStays
  <2>2. InLaps'
    BY <1>3, <2>1 DEF InLaps, Refined
  <2>3. QED
    BY <1>3, <2>2 DEF Refined
<1>4. ASSUME NEW r \in Requests,
             \/ \E o \in Orders : Call(r, o)
             \/ CallInVain(r) \/ TakeResult(r) \/ GiveUp(r)
             \/ Attempt(r) \/ AttemptInVain(r)
             \/ \E label \in {"streaming", "draining"} : Respond(r, label)
             \/ \E err \in {"definitive", "transient"} : Fail(r, err)
             \/ \E ok \in BOOLEAN : BodyEnds(r, ok)
             \/ TakeGuard(r) \/ Expire(r) \/ \E how \in Ended : CallerEnds(r, how)
      PROVE  [Policy!Next]_(Policy!vars) /\ InLaps'
  <2>1. Refined(r) /\ \A q \in Requests \ {r} : Still(q)
    <3>1. Holding(r) /\ InItsLap(r) /\ TypeOK
      BY <1>1
    <3>2. CASE (\E o \in Orders : Call(r, o)) \/ CallInVain(r) \/ TakeResult(r)
      BY <3>1, <3>2, CallRefines, OutsideSteps
    <3>3. CASE GiveUp(r) \/ Attempt(r) \/ AttemptInVain(r)
      BY <3>1, <3>3, GiveUpRefines, AttemptRefines, AttemptInVainRefines
    <3>4. CASE \/ \E label \in {"streaming", "draining"} : Respond(r, label)
               \/ \E err \in {"definitive", "transient"} : Fail(r, err)
      BY <3>1, <3>4, AnswerRefines
    <3>5. CASE \E ok \in BOOLEAN : BodyEnds(r, ok)
      BY <3>1, <3>5, BodyRefines
    <3>6. CASE TakeGuard(r) \/ Expire(r) \/ \E how \in Ended : CallerEnds(r, how)
      BY <3>1, <3>6, UnseenSteps
    <3>7. QED
      BY <1>4, <3>2, <3>3, <3>4, <3>5, <3>6
  <2>2. QED
    BY <1>3, <2>1
<1>5. CASE Next
  <2>1. \/ UNCHANGED callVars
        \/ \E r \in Requests :
             \/ \E o \in Orders : Call(r, o)
             \/ CallInVain(r) \/ TakeResult(r) \/ GiveUp(r)
             \/ Attempt(r) \/ AttemptInVain(r)
             \/ \E label \in {"streaming", "draining"} : Respond(r, label)
             \/ \E err \in {"definitive", "transient"} : Fail(r, err)
             \/ \E ok \in BOOLEAN : BodyEnds(r, ok)
             \/ TakeGuard(r) \/ Expire(r) \/ \E how \in Ended : CallerEnds(r, how)
    BY <1>5 DEF Next, Progress, FailCtx, BodyCtx
  <2>2. QED
    BY <1>2, <1>4, <2>1
<1>6. CASE UNCHANGED vars
  BY <1>2, <1>6 DEF vars
<1>7. QED
  BY <1>5, <1>6

\* The calls of the Go SDK go by the retry policy of Rotation, too.
THEOREM ImplementsRotation == Spec => RotationSpec
<1>1. ASSUME Init
      PROVE  Policy!Init /\ InLaps
  <2>1. /\ \A r \in Requests : pc[r] = "idle" /\ ~Trying(r)
        /\ tries = [r \in Requests |-> 0]
    BY <1>1 DEF Init, Trying
  <2>2. \A r \in Requests : /\ Phase[r] = "idle" /\ ServedBy[r] = {}
                            /\ Tried[r] = Policy!Untried /\ Ending[r] = "none"
    BY <2>1, NotTrying
  <2>3. QED
    BY <2>1, <2>2, MappedAreFunctions DEF Policy!Init, InLaps
<1>2. Inv /\ InLaps /\ [Next]_vars => InLaps' /\ [Policy!Next]_(Policy!vars)
  BY StepRefines
<1>3. QED
  BY <1>1, <1>2, Invariance, PTL DEF Spec, RotationSpec, Policy!Spec

\* The attempts of a call are in a lap of its order.
THEOREM LapsHold == Spec => []InLaps
<1>1. Init => InLaps
  BY DEF Init, InLaps, Trying
<1>2. Inv /\ InLaps /\ [Next]_vars => InLaps'
  BY StepRefines
<1>3. QED
  BY <1>1, <1>2, Invariance, PTL DEF Spec

\* No endpoint of a call is ever two attempts ahead of another.
THEOREM RotationIsEven == Spec => []EvenRotation
<1>1. Inv /\ InLaps => EvenRotation
  <2>1. SUFFICES ASSUME Inv, InLaps, NEW r \in Requests,
                        NEW e \in ServedBy[r], NEW f \in ServedBy[r]
                 PROVE  Tried[r][e] <= Tried[r][f] + 1
    BY DEF EvenRotation, Policy!EvenlyTried
  <2>2. Trying(r) /\ ServedBy[r] = ToSet(order[r])
    BY <2>1, MappingOf
  <2>3. PICK m \in 0 .. tries[r] : Lap(r, m)
    BY <2>1, <2>2 DEF InLaps
  <2>4. /\ order[r] \in Seq(Endpoints) /\ tries[r] \in Nat
        /\ DOMAIN order[r] = 1 .. Len(order[r])
    BY <2>1, <2>2, TryingFacts DEF Inv, Own
  <2>5. \A i \in DOMAIN order[r] : Tried[r][order[r][i]] \in {m, m + 1}
    <3>1. Tried[r] = [d \in Endpoints |-> Cardinality(AimedAt(r, d))]
      BY <2>2, MappingOf
    <3>2. \A i \in DOMAIN order[r] : order[r][i] \in Endpoints
      BY <2>4
    <3>3. QED
      BY <2>3, <3>1, <3>2 DEF Lap
  <2>6. Tried[r][e] \in {m, m + 1} /\ Tried[r][f] \in {m, m + 1}
    BY <2>2, <2>5 DEF ToSet
  <2>7. QED
    BY <2>4, <2>6
<1>2. QED
  BY <1>1, Invariance, LapsHold, PTL
=================================================================================
