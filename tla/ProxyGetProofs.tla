----------------------------- MODULE ProxyGetProofs -----------------------------
(***************************************************************************)
(* Proofs about ProxyGet for every number of endpoints, requests, retries  *)
(* and failures: the ejection counts failures in a row, and the rotation   *)
(* of the retries is even and leaves no replica out.                       *)
(***************************************************************************)
EXTENDS ProxyGet, FiniteSetTheorems, TLAPS

--------------------------------------------------------------------------------
(* Remainders: how the rotation's index moves with the count of attempts. *)

LEMMA DivMod ==
    ASSUME NEW a \in Nat, NEW n \in Nat \ {0}
    PROVE  /\ a = n * (a \div n) + (a % n)
           /\ a \div n \in Nat
           /\ a % n \in 0 .. n - 1
OBVIOUS

LEMMA ModUnique ==
    ASSUME NEW n \in Nat \ {0}, NEW q \in Nat, NEW k \in 0 .. n - 1
    PROVE  (n * q + k) % n = k
BY SMTT(30)

LEMMA ModBelow ==
    ASSUME NEW n \in Nat \ {0}, NEW a \in 0 .. n - 1
    PROVE  a % n = a
OBVIOUS

LEMMA ModNext ==
    ASSUME NEW a \in Nat, NEW n \in Nat \ {0}
    PROVE  (a + 1) % n = IF (a % n) + 1 = n THEN 0 ELSE (a % n) + 1
<1> DEFINE q == a \div n
           k == a % n
<1>1. a = n * q + k /\ q \in Nat /\ k \in 0 .. n - 1
  BY DivMod
<1> HIDE DEF q, k
<1>2. CASE k + 1 = n
  <2>1. a + 1 = n * (q + 1) + 0 /\ q + 1 \in Nat /\ 0 \in 0 .. n - 1
    BY <1>1, <1>2
  <2>2. (n * (q + 1) + 0) % n = 0
    BY <2>1, ModUnique
  <2>3. QED
    BY <2>1, <2>2, <1>2 DEF k
<1>3. CASE k + 1 # n
  <2>1. a + 1 = n * q + (k + 1) /\ k + 1 \in 0 .. n - 1
    BY <1>1, <1>3
  <2>2. (n * q + (k + 1)) % n = k + 1
    BY <1>1, <2>1, ModUnique
  <2>3. QED
    BY <2>1, <2>2, <1>3 DEF k
<1>4. QED
  BY <1>2, <1>3

--------------------------------------------------------------------------------
(* Orders and targets. *)

\* A shuffle of a set of endpoints is a sequence of different ones, empty only
\* for the empty set.
LEMMA ShuffleFacts ==
    ASSUME NEW S \in SUBSET Endpoints, S # {}, NEW s \in Shuffles(S)
    PROVE  /\ s \in Seq(Endpoints)
           /\ s # <<>>
           /\ \A i, j \in DOMAIN s : s[i] = s[j] => i = j
<1>1. IsFiniteSet(S)
  BY RetryAssumption, FS_Subset DEF RetryAssumption
<1>2. Cardinality(S) \in Nat /\ Cardinality(S) # 0
  BY <1>1, FS_CardinalityType, FS_EmptySet
<1>3. s \in [1 .. Cardinality(S) -> Endpoints]
  BY DEF Shuffles
<1>4. s \in Seq(Endpoints) /\ Len(s) # 0
  BY <1>2, <1>3
<1>5. QED
  BY <1>4 DEF Shuffles

\* An index of the rotation lies within the order.
LEMMA RotationIndex ==
    ASSUME NEW s \in Seq(Endpoints), s # <<>>, NEW a \in Nat
    PROVE  /\ Len(s) \in Nat \ {0}
           /\ (a % Len(s)) + 1 \in DOMAIN s
           /\ s[(a % Len(s)) + 1] \in Endpoints
<1>1. Len(s) \in Nat \ {0}
  OBVIOUS
<1>2. a % Len(s) \in 0 .. Len(s) - 1
  BY <1>1, DivMod
<1>3. QED
  BY <1>1, <1>2

LEMMA TargetFacts ==
    ASSUME TypeOK, NEW r \in Requests, OnItsWay(r)
    PROVE  /\ pc[r] = "send" => Target(r) \in Endpoints
           /\ pc[r] \in {"sent", "clear"} => Aimed(r) \in Endpoints
<1>1. attempts[r] \in Nat /\ order[r] \in Seq(Endpoints)
  BY RetryAssumption DEF TypeOK, RetryAssumption
<1>2. ASSUME pc[r] = "send" PROVE Target(r) \in Endpoints
  BY <1>1, <1>2, RotationIndex DEF OnItsWay, Target
<1>3. ASSUME pc[r] \in {"sent", "clear"} PROVE Aimed(r) \in Endpoints
  <2>1. attempts[r] - 1 \in Nat /\ order[r] # <<>>
    BY <1>1, <1>3 DEF OnItsWay
  <2>2. QED
    BY <1>1, <2>1, RotationIndex DEF Aimed
<1>4. QED
  BY <1>2, <1>3

--------------------------------------------------------------------------------
(* The ejections, one lemma for each operation. *)

LEMMA FailureRecorded ==
    ASSUME EjectionTypeOK, CountsFailuresInARow, NEW e \in Endpoints, OnFailure(e)
    PROVE  EjectionTypeOK' /\ CountsFailuresInARow'
BY EjectionAssumption
   DEF EjectionAssumption, EjectionTypeOK, CountsFailuresInARow, OnFailure, OneMore

LEMMA AnswerRecorded ==
    ASSUME EjectionTypeOK, CountsFailuresInARow, NEW e \in Endpoints, RemoveEntry(e)
    PROVE  EjectionTypeOK' /\ CountsFailuresInARow'
BY EjectionAssumption
   DEF EjectionAssumption, EjectionTypeOK, CountsFailuresInARow, RemoveEntry

LEMMA TimeRecorded ==
    ASSUME EjectionTypeOK, CountsFailuresInARow, Tick
    PROVE  EjectionTypeOK' /\ CountsFailuresInARow'
BY EjectionAssumption
   DEF EjectionAssumption, EjectionTypeOK, CountsFailuresInARow, Tick, IsEjected

LEMMA NothingRecorded ==
    ASSUME EjectionTypeOK, CountsFailuresInARow, UNCHANGED ejectionVars
    PROVE  EjectionTypeOK' /\ CountsFailuresInARow'
BY DEF EjectionTypeOK, CountsFailuresInARow, ejectionVars

--------------------------------------------------------------------------------
(* The requests.  A step of one request leaves the others where they are. *)

RequestInv(r) == OnItsWay(r) /\ InsideALap(r)

Untouched(r) ==
    /\ pc'[r] = pc[r]
    /\ order'[r] = order[r]
    /\ attempts'[r] = attempts[r]
    /\ outcome'[r] = outcome[r]
    /\ tries'[r] = tries[r]

LEMMA UntouchedRequest ==
    ASSUME NEW r \in Requests, RequestInv(r), Untouched(r)
    PROVE  RequestInv(r)'
BY DEF RequestInv, Untouched, OnItsWay, InsideALap, Lap

\* While order, attempts and tries stay, so does the lap.
LEMMA SameLap ==
    ASSUME NEW r \in Requests, InsideALap(r), UNCHANGED <<order, attempts, tries>>
    PROVE  InsideALap(r)'
BY DEF InsideALap, Lap

LEMMA LookupPreserves ==
    ASSUME TypeOK, NEW r \in Requests, NEW S \in SUBSET Endpoints, Lookup(r, S),
           RequestInv(r)
    PROVE  TypeOK' /\ RequestInv(r)'
<1> USE DEF Lookup, Goto, TypeOK, RequestInv
<1>1. CASE Serving(S) = {}
  <2>1. TypeOK'
    BY <1>1 DEF Outcomes, ejectionVars, EjectionTypeOK
  <2>2. OnItsWay(r)'
    BY <1>1 DEF OnItsWay
  <2>3. InsideALap(r)'
    BY <1>1, SameLap
  <2>4. QED
    BY <2>1, <2>2, <2>3
<1>2. CASE Serving(S) # {}
  <2>1. PICK s \in Shuffles(Serving(S)) : order' = [order EXCEPT ![r] = s]
    BY <1>2
  <2>2. Serving(S) \in SUBSET Endpoints
    BY DEF Serving
  <2>3. /\ s \in Seq(Endpoints)
        /\ s # <<>>
        /\ \A i, j \in DOMAIN s : s[i] = s[j] => i = j
    BY <1>2, <2>2, ShuffleFacts
  <2>4. TypeOK'
    BY <1>2, <2>1, <2>3 DEF ejectionVars, EjectionTypeOK
  <2>5. OnItsWay(r)'
    BY <1>2, <2>1, <2>3, RetryAssumption DEF OnItsWay, RetryAssumption
  <2>6. order'[r] = s /\ attempts'[r] = 0 /\ tries'[r] = NoTries
    BY <2>1 DEF OnItsWay
  <2>7. Len(s) \in Nat \ {0} /\ 0 % Len(s) = 0 /\ DOMAIN s = 1 .. Len(s)
    BY <2>3, ModBelow
  <2>8. \A i \in DOMAIN s : s[i] \in Endpoints /\ ~(i <= 0)
    BY <2>3, <2>7
  <2>9. Lap(r, 0)'
    BY <2>6, <2>7, <2>8 DEF Lap, NoTries
  <2>10. InsideALap(r)'
    BY <2>6, <2>9 DEF InsideALap
  <2>11. QED
    BY <2>4, <2>5, <2>10
<1>3. QED
  BY <1>1, <1>2

LEMMA SendPreserves ==
    ASSUME TypeOK, NEW r \in Requests, Send(r), RequestInv(r)
    PROVE  TypeOK' /\ RequestInv(r)'
<1> USE DEF Send, Goto, TypeOK, RequestInv
<1> DEFINE n == Len(order[r])
           p == attempts[r] % n
<1>1. /\ order[r] \in Seq(Endpoints) /\ order[r] # <<>>
      /\ attempts[r] \in Nat /\ attempts[r] <= MaxRetries
      /\ MaxRetries \in Nat
      /\ tries[r] \in [Endpoints -> Nat]
  BY RetryAssumption DEF OnItsWay, RetryAssumption
<1>2. Target(r) \in Endpoints
  BY TargetFacts
<1>3. TypeOK'
  <2>1. attempts' \in [Requests -> 0 .. 1 + MaxRetries]
    BY <1>1
  <2>2. tries' \in [Requests -> [Endpoints -> Nat]]
    BY <1>1, <1>2
  <2>3. QED
    BY <2>1, <2>2 DEF ejectionVars, EjectionTypeOK
<1>4. OnItsWay(r)'
  BY <1>1 DEF OnItsWay
<1>5. PICK m \in 0 .. attempts[r] : Lap(r, m)
  BY <1>1 DEF InsideALap
<1>6. n \in Nat \ {0} /\ p \in 0 .. n - 1 /\ DOMAIN order[r] = 1 .. n
  <2>1. n \in Nat \ {0} /\ DOMAIN order[r] = 1 .. n
    BY <1>1
  <2> HIDE DEF n
  <2>2. p \in 0 .. n - 1
    BY <1>1, <2>1, DivMod
  <2>3. QED
    BY <2>1, <2>2
<1>7. (attempts[r] + 1) % n = IF p + 1 = n THEN 0 ELSE p + 1
  BY <1>1, <1>6, ModNext
<1>8. Target(r) = order[r][p + 1] /\ p + 1 \in DOMAIN order[r]
  BY <1>6 DEF Target
<1>9. \A i \in DOMAIN order[r] :
          /\ order[r][i] \in Endpoints
          /\ tries'[r][order[r][i]] = IF i <= p + 1 THEN m + 1 ELSE m
  <2> TAKE i \in DOMAIN order[r]
  <2>1. order[r][i] \in Endpoints
    BY <1>1
  <2>2. tries[r][order[r][i]] = IF i <= p THEN m + 1 ELSE m
    BY <1>5 DEF Lap
  <2>3. CASE i = p + 1
    <3>1. order[r][i] = Target(r) /\ ~(i <= p)
      BY <1>6, <1>8, <2>3
    <3>2. tries'[r][order[r][i]] = tries[r][order[r][i]] + 1
      BY <1>2, <3>1
    <3>3. QED
      BY <1>6, <2>1, <2>2, <2>3, <3>1, <3>2
  <2>4. CASE i # p + 1
    <3>1. order[r][i] # Target(r)
      BY <1>8, <2>4 DEF OnItsWay
    <3>2. tries'[r][order[r][i]] = tries[r][order[r][i]]
      BY <2>1, <3>1
    <3>3. i \in 1 .. n /\ p \in Nat
      BY <1>6
    <3>4. QED
      BY <2>1, <2>2, <2>4, <3>2, <3>3
  <2>5. QED
    BY <2>3, <2>4
<1>10. /\ order'[r] = order[r]
       /\ attempts'[r] = attempts[r] + 1
  OBVIOUS
<1> HIDE DEF n, p
<1>11. CASE p + 1 = n
  <2>1. \A i \in DOMAIN order[r] : i <= p + 1 /\ ~(i <= 0)
    BY <1>6, <1>11
  <2>2. Lap(r, m + 1)'
    BY <1>5, <1>7, <1>9, <1>10, <1>11, <2>1 DEF Lap, n
  <2>3. m + 1 \in 0 .. attempts'[r]
    BY <1>1, <1>10
  <2>4. QED
    BY <1>3, <1>4, <2>2, <2>3 DEF InsideALap
<1>12. CASE p + 1 # n
  <2>1. m = 0 => attempts[r] + 1 < n
    <3>1. SUFFICES ASSUME m = 0 PROVE attempts[r] + 1 < n
      OBVIOUS
    <3>2. attempts[r] \in 0 .. n - 1
      BY <1>1, <1>5, <1>6, <3>1 DEF Lap, n
    <3>3. p = attempts[r]
      BY <1>6, <3>2, ModBelow DEF p
    <3>4. QED
      BY <1>6, <1>12, <3>2, <3>3
  <2>2. Lap(r, m)'
    BY <1>7, <1>9, <1>10, <1>12, <2>1 DEF Lap, n
  <2>3. m \in 0 .. attempts'[r]
    BY <1>1, <1>10
  <2>4. QED
    BY <1>3, <1>4, <2>2, <2>3 DEF InsideALap
<1>13. QED
  BY <1>11, <1>12

LEMMA OtherStepsPreserve ==
    ASSUME TypeOK, CountsFailuresInARow, NEW r \in Requests, RequestInv(r),
           \/ Refused(r)
           \/ \E o \in Outcomes : Answered(r, o) \/ Unrecorded(r, o)
           \/ Clear(r)
           \/ Decide(r)
           \/ TakeResult(r)
    PROVE  TypeOK' /\ CountsFailuresInARow' /\ RequestInv(r)'
<1> USE DEF Goto, RequestInv
<1>0. EjectionTypeOK /\ (pc[r] \in {"sent", "clear"} => Aimed(r) \in Endpoints)
  BY TargetFacts DEF TypeOK
<1>1. CASE Refused(r)
  <2>1. EjectionTypeOK' /\ CountsFailuresInARow'
    BY <1>0, <1>1, FailureRecorded DEF Refused
  <2>2. TypeOK' /\ OnItsWay(r)'
    BY <1>1, <2>1 DEF Refused, TypeOK, Outcomes, OnItsWay
  <2>3. QED
    BY <1>1, <2>1, <2>2, SameLap DEF Refused
<1>2. ASSUME NEW o \in Outcomes, Answered(r, o) \/ Unrecorded(r, o)
      PROVE  TypeOK' /\ CountsFailuresInARow' /\ RequestInv(r)'
  <2>1. EjectionTypeOK' /\ CountsFailuresInARow'
    BY <1>0, <1>2, NothingRecorded DEF Answered, Unrecorded
  <2>2. TypeOK' /\ OnItsWay(r)'
    BY <1>2, <2>1 DEF Answered, Unrecorded, TypeOK, OnItsWay
  <2>3. QED
    BY <1>2, <2>1, <2>2, SameLap DEF Answered, Unrecorded
<1>3. CASE Clear(r)
  <2>1. EjectionTypeOK' /\ CountsFailuresInARow'
    BY <1>0, <1>3, AnswerRecorded DEF Clear
  <2>2. TypeOK' /\ OnItsWay(r)'
    BY <1>3, <2>1 DEF Clear, TypeOK, OnItsWay
  <2>3. QED
    BY <1>3, <2>1, <2>2, SameLap DEF Clear
<1>4. CASE Decide(r)
  <2>1. EjectionTypeOK' /\ CountsFailuresInARow'
    BY <1>0, <1>4, NothingRecorded DEF Decide
  <2>2. TypeOK'
    BY <1>4, <2>1 DEF Decide, TypeOK
  <2>3. OnItsWay(r)'
    BY <1>4, RetryAssumption
       DEF Decide, TypeOK, OnItsWay, WillRetry, RetryAssumption
  <2>4. QED
    BY <1>4, <2>1, <2>2, <2>3, SameLap DEF Decide
<1>5. CASE TakeResult(r)
  <2>1. EjectionTypeOK' /\ CountsFailuresInARow'
    BY <1>0, <1>5, NothingRecorded DEF TakeResult
  <2>2. NoTries \in [Endpoints -> Nat]
    BY DEF NoTries
  <2>3. TypeOK' /\ OnItsWay(r)' /\ order'[r] = <<>>
    BY <1>5, <2>1, <2>2, RetryAssumption
       DEF TakeResult, TypeOK, Outcomes, OnItsWay, RetryAssumption
  <2>4. QED
    BY <2>1, <2>3 DEF InsideALap
<1>6. QED
  BY <1>1, <1>2, <1>3, <1>4, <1>5

LEMMA NextPreserves ==
    ASSUME IndInv, [Next]_vars
    PROVE  IndInv'
<1> USE DEF IndInv
<1>1. EjectionTypeOK /\ \A r \in Requests : RequestInv(r)
  BY DEF TypeOK, RequestInv
<1>2. SUFFICES TypeOK' /\ CountsFailuresInARow' /\ \A q \in Requests : RequestInv(q)'
  BY DEF RequestInv
<1>3. ASSUME UNCHANGED requestVars, up' \in SUBSET Endpoints,
             EjectionTypeOK', CountsFailuresInARow'
      PROVE  TypeOK' /\ CountsFailuresInARow' /\ \A q \in Requests : RequestInv(q)'
  <2>1. TypeOK'
    BY <1>3 DEF TypeOK, requestVars
  <2>2. \A q \in Requests : Untouched(q)
    BY <1>3 DEF Untouched, requestVars
  <2>3. QED
    BY <1>1, <1>3, <2>1, <2>2, UntouchedRequest
<1>4. ASSUME NEW e \in Endpoints, Flip(e)
      PROVE  TypeOK' /\ CountsFailuresInARow' /\ \A q \in Requests : RequestInv(q)'
  <2>1. EjectionTypeOK' /\ CountsFailuresInARow'
    BY <1>1, <1>4, NothingRecorded DEF Flip
  <2>2. QED
    BY <1>3, <1>4, <2>1 DEF Flip, TypeOK
<1>5. ASSUME TimePasses
      PROVE  TypeOK' /\ CountsFailuresInARow' /\ \A q \in Requests : RequestInv(q)'
  <2>1. EjectionTypeOK' /\ CountsFailuresInARow'
    BY <1>1, <1>5, TimeRecorded DEF TimePasses
  <2>2. QED
    BY <1>3, <1>5, <2>1 DEF TimePasses, TypeOK
<1>6. ASSUME NEW r \in Requests,
             Progress(r) \/ \E S \in Replicas[r] : Lookup(r, S)
      PROVE  TypeOK' /\ CountsFailuresInARow' /\ \A q \in Requests : RequestInv(q)'
  <2>0. Replicas[r] \subseteq SUBSET Endpoints
    BY <1>6, RetryAssumption DEF RetryAssumption
  <2>1. TypeOK' /\ CountsFailuresInARow' /\ RequestInv(r)'
    <3>1. CASE Send(r)
      <4>1. CountsFailuresInARow'
        BY <1>1, <3>1, NothingRecorded DEF Send
      <4>2. QED
        BY <1>1, <3>1, <4>1, SendPreserves
    <3>2. ASSUME NEW S \in SUBSET Endpoints, Lookup(r, S)
          PROVE  TypeOK' /\ CountsFailuresInARow' /\ RequestInv(r)'
      <4>1. CountsFailuresInARow'
        BY <1>1, <3>2, NothingRecorded DEF Lookup
      <4>2. QED
        BY <1>1, <3>2, <4>1, LookupPreserves
    <3>3. CASE Progress(r) /\ ~Send(r)
      BY <1>1, <3>3, OtherStepsPreserve DEF Progress
    <3>4. QED
      BY <1>6, <2>0, <3>1, <3>2, <3>3
  <2>2. \A q \in Requests \ {r} : Untouched(q)
    <3>1. TypeOK
      OBVIOUS
    <3>2. QED
      BY <1>6, <3>1
         DEF Untouched, Progress, Send, Refused, Answered, Unrecorded, Clear,
             Decide, TakeResult, Lookup, Goto, TypeOK
  <2>3. QED
    BY <1>1, <2>1, <2>2, UntouchedRequest
<1>7. CASE UNCHANGED vars
  <2>1. EjectionTypeOK' /\ CountsFailuresInARow'
    BY <1>1, <1>7, NothingRecorded DEF vars
  <2>2. QED
    BY <1>3, <1>7, <2>1 DEF vars, TypeOK
<1>8. QED
  BY <1>4, <1>5, <1>6, <1>7 DEF Next

LEMMA InitEstablishes == Init => IndInv
BY RetryAssumption, EjectionAssumption
   DEF Init, EjectionInit, IndInv, TypeOK, EjectionTypeOK, CountsFailuresInARow,
       OnItsWay, InsideALap, Outcomes, NoTries, RetryAssumption, EjectionAssumption

\* IndInv holds in every reachable state.
THEOREM Invariance == Spec => []IndInv
<1>1. Init => IndInv
  BY InitEstablishes
<1>2. IndInv /\ [Next]_vars => IndInv'
  BY NextPreserves
<1>3. QED
  BY <1>1, <1>2, PTL DEF Spec

--------------------------------------------------------------------------------
(* The properties. *)

\* Every variable has its type; no request makes more than 1 + MaxRetries
\* attempts.
THEOREM TypeCorrect == Spec => []TypeOK
<1>1. IndInv => TypeOK
  BY DEF IndInv
<1>2. QED
  BY <1>1, Invariance, PTL

\* However the steps of on_success interleave with failures, the record of a
\* proxy counts its failures in a row, and it is ejected only for
\* MaxFailedCount of them.
THEOREM EjectionCountsFailuresInARow == Spec => []CountsFailuresInARow
<1>1. IndInv => CountsFailuresInARow
  BY DEF IndInv
<1>2. QED
  BY <1>1, Invariance, PTL

\* No endpoint of a request is ever two attempts ahead of another.
THEOREM RotationIsEven == Spec => []EvenRotation
<1>1. IndInv => EvenRotation
  <2>1. SUFFICES ASSUME IndInv, NEW r \in Requests,
                        NEW i \in DOMAIN order[r], NEW j \in DOMAIN order[r]
                 PROVE  tries[r][order[r][i]] <= tries[r][order[r][j]] + 1
    BY DEF EvenRotation, ElementsOf
  <2>2. PICK m \in 0 .. attempts[r] : Lap(r, m)
    BY <2>1 DEF IndInv, InsideALap, TypeOK
  <2>3. m \in Nat
    BY <2>1, RetryAssumption DEF IndInv, TypeOK, RetryAssumption
  <2>4. /\ tries[r][order[r][i]] \in {m, m + 1}
        /\ tries[r][order[r][j]] \in {m, m + 1}
    BY <2>2 DEF Lap
  <2>5. QED
    BY <2>3, <2>4
<1>2. QED
  BY <1>1, Invariance, PTL

\* A request that gives up has used its attempts and left no replica out.
THEOREM NoReplicaLeftOut == Spec => []GivesUpOnlyAfterTheRound
<1>1. IndInv => GivesUpOnlyAfterTheRound
  <2>1. SUFFICES ASSUME IndInv, NEW r \in Requests,
                        pc[r] = "returned", outcome[r] = "transient"
                 PROVE  /\ attempts[r] = 1 + MaxRetries
                        /\ 1 + MaxRetries >= Len(order[r]) =>
                              \A i \in DOMAIN order[r] : tries[r][order[r][i]] > 0
    BY DEF GivesUpOnlyAfterTheRound, ElementsOf
  <2>2. attempts[r] = 1 + MaxRetries
    BY <2>1 DEF IndInv, OnItsWay
  <2>3. ASSUME 1 + MaxRetries >= Len(order[r]), NEW i \in DOMAIN order[r]
        PROVE  tries[r][order[r][i]] > 0
    <3>1. PICK m \in 0 .. attempts[r] : Lap(r, m)
      BY <2>1, <2>3 DEF IndInv, InsideALap, TypeOK
    <3>2. m \in Nat /\ m # 0
      BY <2>1, <2>2, <2>3, <3>1, RetryAssumption DEF Lap, IndInv, TypeOK, RetryAssumption
    <3>3. tries[r][order[r][i]] \in {m, m + 1}
      BY <3>1 DEF Lap
    <3>4. QED
      BY <3>2, <3>3
  <2>4. QED
    BY <2>2, <2>3
<1>2. QED
  BY <1>1, Invariance, PTL

--------------------------------------------------------------------------------
(* The refinement of Rotation.  A step of a request changes its own entries of the *)
(* mapped variables alone; what the policy sees change decides which of its actions *)
(* it is.                                                                           *)

Mapped(r) == <<Phase[r], ServedBy[r], Tried[r], Ending[r]>>

LEMMA MappingOf ==
    ASSUME NEW r \in Requests
    PROVE  /\ Phase[r] = IF Trying(r) THEN "trying"
                         ELSE IF pc[r] = "idle" THEN "idle" ELSE "over"
           /\ ServedBy[r] = IF Trying(r) THEN ElementsOf(order[r]) ELSE {}
           /\ Tried[r] = IF Trying(r) THEN tries[r] ELSE NoTries
           /\ Ending[r] = IF pc[r] = "returned" THEN outcome[r] ELSE "none"
BY DEF Phase, ServedBy, Tried, Ending

LEMMA UntouchedMapped ==
    ASSUME NEW q \in Requests, Untouched(q)
    PROVE  /\ Phase'[q] = Phase[q]
           /\ ServedBy'[q] = ServedBy[q]
           /\ Tried'[q] = Tried[q]
           /\ Ending'[q] = Ending[q]
BY DEF Phase, ServedBy, Tried, Ending, Trying, Untouched

\* What changes of the mapped variables when one request takes a step.
LEMMA OnlyItsEntries ==
    ASSUME NEW r \in Requests, \A q \in Requests \ {r} : Untouched(q)
    PROVE  /\ Phase' = [Phase EXCEPT ![r] = Phase'[r]]
           /\ ServedBy' = [ServedBy EXCEPT ![r] = ServedBy'[r]]
           /\ Tried' = [Tried EXCEPT ![r] = Tried'[r]]
           /\ Ending' = [Ending EXCEPT ![r] = Ending'[r]]
<1>1. /\ Phase = [q \in Requests |-> Phase[q]]
      /\ ServedBy = [q \in Requests |-> ServedBy[q]]
      /\ Tried = [q \in Requests |-> Tried[q]]
      /\ Ending = [q \in Requests |-> Ending[q]]
  BY DEF Phase, ServedBy, Tried, Ending
<1>2. /\ Phase' = [q \in Requests |-> Phase'[q]]
      /\ ServedBy' = [q \in Requests |-> ServedBy'[q]]
      /\ Tried' = [q \in Requests |-> Tried'[q]]
      /\ Ending' = [q \in Requests |-> Ending'[q]]
  BY DEF Phase, ServedBy, Tried, Ending
<1>3. \A q \in Requests \ {r} :
          /\ Phase'[q] = Phase[q]
          /\ ServedBy'[q] = ServedBy[q]
          /\ Tried'[q] = Tried[q]
          /\ Ending'[q] = Ending[q]
  BY UntouchedMapped
<1>4. QED
  BY <1>1, <1>2, <1>3

LEMMA SameEntries ==
    ASSUME NEW r \in Requests, \A q \in Requests \ {r} : Untouched(q)
    PROVE  /\ Phase'[r] = Phase[r] => Phase' = Phase
           /\ ServedBy'[r] = ServedBy[r] => ServedBy' = ServedBy
           /\ Tried'[r] = Tried[r] => Tried' = Tried
           /\ Ending'[r] = Ending[r] => Ending' = Ending
<1>1. /\ Phase = [q \in Requests |-> Phase[q]]
      /\ ServedBy = [q \in Requests |-> ServedBy[q]]
      /\ Tried = [q \in Requests |-> Tried[q]]
      /\ Ending = [q \in Requests |-> Ending[q]]
  BY DEF Phase, ServedBy, Tried, Ending
<1>2. QED
  BY <1>1, OnlyItsEntries

\* The index of the rotation points to an endpoint tried least.
LEMMA TargetTriedLeast ==
    ASSUME TypeOK, NEW r \in Requests, RequestInv(r), pc[r] = "send"
    PROVE  Target(r) \in Policy!TriedLeast(r)
<1> DEFINE n == Len(order[r])
           p == attempts[r] % n
<1>1. /\ order[r] \in Seq(Endpoints) /\ order[r] # <<>> /\ attempts[r] \in Nat
  BY RetryAssumption DEF OnItsWay, RequestInv, TypeOK, RetryAssumption
<1>2. /\ ServedBy[r] = ElementsOf(order[r])
      /\ Tried[r] = tries[r]
  BY MappingOf DEF Trying
<1>3. PICK m \in 0 .. attempts[r] : Lap(r, m)
  BY <1>1 DEF InsideALap, RequestInv
<1>4. n \in Nat \ {0} /\ DOMAIN order[r] = 1 .. n
  BY <1>1
<1>5. p \in 0 .. n - 1
  <2> HIDE DEF n
  <2>1. QED
    BY <1>1, <1>4, DivMod
<1>6. \A i \in DOMAIN order[r] :
          tries[r][order[r][i]] = IF i <= p THEN m + 1 ELSE m
  BY <1>3 DEF Lap
<1>7. Target(r) = order[r][p + 1] /\ p + 1 \in DOMAIN order[r]
  BY <1>4, <1>5 DEF Target
<1> HIDE DEF n, p
<1>8. tries[r][Target(r)] = m
  BY <1>5, <1>6, <1>7
<1>9. \A i \in DOMAIN order[r] : m <= tries[r][order[r][i]]
  BY <1>1, <1>6
<1>10. QED
  BY <1>2, <1>7, <1>8, <1>9 DEF Policy!TriedLeast, ElementsOf

\* What the policy does not see.
LEMMA UnseenByThePolicy ==
    ASSUME NEW r \in Requests, \A q \in Requests \ {r} : Untouched(q),
           Trying(r), Trying(r)', UNCHANGED <<order, attempts, tries>>
    PROVE  UNCHANGED Policy!vars
<1>1. /\ Phase'[r] = Phase[r]
      /\ ServedBy'[r] = ServedBy[r]
      /\ Tried'[r] = Tried[r]
      /\ Ending'[r] = Ending[r]
  BY DEF Phase, ServedBy, Tried, Ending, Trying
<1>2. QED
  BY <1>1, SameEntries DEF Policy!vars

LEMMA LookupRefines ==
    ASSUME TypeOK, NEW r \in Requests, NEW S \in SUBSET Endpoints, Lookup(r, S),
           RequestInv(r), RequestInv(r)', \A q \in Requests \ {r} : Untouched(q)
    PROVE  Policy!Next
<1> USE OnlyItsEntries
<1>1. /\ pc[r] = "idle" /\ attempts[r] = 0 /\ attempts' = attempts
      /\ tries' = tries /\ tries[r] = NoTries
      /\ pc \in [Requests -> {"idle", "send", "sent", "clear", "decide", "returned"}]
      /\ outcome \in [Requests -> Outcomes] /\ order \in [Requests -> Seq(Endpoints)]
      /\ attempts \in [Requests -> 0 .. 1 + MaxRetries]
  BY DEF Lookup, RequestInv, OnItsWay, TypeOK
<1>2. Phase[r] = "idle" /\ ServedBy[r] = {} /\ Tried[r] = NoTries /\ Ending[r] = "none"
  BY <1>1, MappingOf DEF Trying
<1>3. CASE Serving(S) = {}
  <2>1. pc'[r] = "returned" /\ outcome'[r] = "definitive"
    BY <1>1, <1>3 DEF Lookup, Goto
  <2>2. Phase'[r] = "over" /\ ServedBy'[r] = {} /\ Tried'[r] = NoTries
        /\ Ending'[r] = "definitive"
    BY <2>1 DEF Phase, ServedBy, Tried, Ending, Trying
  <2>3. attempts' = [attempts EXCEPT ![r] = 0]
    BY <1>1
  <2>4. Policy!ReturnInVain(r)
    BY <1>2, <2>2, <2>3 DEF Policy!ReturnInVain, Policy!End, Policy!Untried, NoTries
  <2>5. QED
    BY <2>4 DEF Policy!Next
<1>4. CASE Serving(S) # {}
  <2>1. pc'[r] = "send"
    BY <1>1, <1>4 DEF Lookup, Goto
  <2>2. PICK s \in Shuffles(Serving(S)) : order' = [order EXCEPT ![r] = s]
    BY <1>4 DEF Lookup
  <2>3. Serving(S) \in SUBSET Endpoints
    BY DEF Serving
  <2>4. s \in Seq(Endpoints) /\ s # <<>> /\ order'[r] = s
    BY <1>1, <1>4, <2>2, <2>3, ShuffleFacts
  <2>5. Phase'[r] = "trying" /\ ServedBy'[r] = ElementsOf(s)
        /\ Tried'[r] = tries'[r] /\ Ending'[r] = "none"
    BY <2>1, <2>4 DEF Phase, ServedBy, Tried, Ending, Trying
  <2>6. ElementsOf(s) \in SUBSET Endpoints /\ ElementsOf(s) # {}
    <3>1. 1 \in DOMAIN s /\ \A i \in DOMAIN s : s[i] \in Endpoints
      BY <2>4
    <3>2. QED
      BY <3>1 DEF ElementsOf
  <2>7. Tried' = Tried /\ Ending' = Ending
    BY <1>1, <1>2, <2>5, SameEntries
  <2>8. Policy!Begin(r)
    BY <1>1, <1>2, <2>5, <2>6, <2>7 DEF Policy!Begin
  <2>9. QED
    BY <2>8 DEF Policy!Next
<1>5. QED
  BY <1>3, <1>4

LEMMA SendRefines ==
    ASSUME TypeOK, NEW r \in Requests, Send(r),
           RequestInv(r), \A q \in Requests \ {r} : Untouched(q)
    PROVE  Policy!Next
<1>1. /\ pc[r] = "send" /\ pc'[r] = "sent" /\ order' = order
      /\ attempts' = [attempts EXCEPT ![r] = @ + 1] /\ attempts[r] <= MaxRetries
      /\ attempts[r] \in Nat /\ MaxRetries \in Nat
      /\ tries'[r] = [tries[r] EXCEPT ![Target(r)] = @ + 1]
  BY RetryAssumption
     DEF Send, Goto, TypeOK, RequestInv, OnItsWay, RetryAssumption
<1>2. Phase[r] = "trying" /\ Tried[r] = tries[r]
  BY <1>1, MappingOf DEF Trying
<1>3. /\ Phase'[r] = Phase[r]
      /\ ServedBy'[r] = ServedBy[r]
      /\ Tried'[r] = [Tried[r] EXCEPT ![Target(r)] = @ + 1]
      /\ Ending'[r] = Ending[r]
  BY <1>1 DEF Phase, ServedBy, Tried, Ending, Trying
<1>4. Phase' = Phase /\ ServedBy' = ServedBy /\ Ending' = Ending
  BY <1>3, SameEntries
<1>5. Tried' = [Tried EXCEPT ![r][Target(r)] = @ + 1]
  BY <1>3, OnlyItsEntries
<1>6. Target(r) \in Policy!TriedLeast(r)
  BY <1>1, TargetTriedLeast
<1>7. attempts[r] < 1 + MaxRetries
  BY <1>1
<1>8. \E e \in Policy!TriedLeast(r) : Tried' = [Tried EXCEPT ![r][e] = @ + 1]
  BY <1>5, <1>6
<1>9. Policy!Attempt(r)
  BY <1>1, <1>2, <1>4, <1>7, <1>8 DEF Policy!Attempt
<1>10. QED
  BY <1>9 DEF Policy!Next

LEMMA DecideRefines ==
    ASSUME TypeOK, NEW r \in Requests, Decide(r),
           RequestInv(r), \A q \in Requests \ {r} : Untouched(q)
    PROVE  Policy!Next \/ UNCHANGED Policy!vars
<1>1. /\ pc[r] = "decide" /\ UNCHANGED <<order, attempts, outcome, tries>>
      /\ pc'[r] = IF WillRetry(r) THEN "send" ELSE "returned"
      /\ attempts \in [Requests -> 0 .. 1 + MaxRetries] /\ attempts[r] >= 1
      /\ outcome[r] \in Outcomes /\ MaxRetries \in Nat
  BY RetryAssumption
     DEF Decide, Goto, TypeOK, RequestInv, OnItsWay, RetryAssumption
<1>2. CASE WillRetry(r)
  BY <1>1, <1>2, UnseenByThePolicy DEF Trying
<1>3. CASE ~WillRetry(r)
  <2>1. Phase[r] = "trying"
    BY <1>1, MappingOf DEF Trying
  <2>2. Phase'[r] = "over" /\ ServedBy'[r] = {} /\ Tried'[r] = NoTries
        /\ Ending'[r] = outcome[r]
    BY <1>1, <1>3 DEF Phase, ServedBy, Tried, Ending, Trying
  <2>3. attempts' = [attempts EXCEPT ![r] = attempts[r]]
    BY <1>1
  <2>4. Phase' = [Phase EXCEPT ![r] = "over"] /\ Policy!End(r, outcome[r], attempts[r])
    BY <2>2, <2>3, OnlyItsEntries DEF Policy!End, Policy!Untried, NoTries
  <2>5. outcome[r] = "transient" => attempts[r] = 1 + MaxRetries
    BY <1>1, <1>3 DEF WillRetry
  <2>6. outcome[r] \in Policy!Endings
    BY <1>1 DEF Outcomes, Policy!Endings
  <2>7. attempts[r] <= 1 + MaxRetries /\ attempts[r] > 0
    BY <1>1
  <2>8. Policy!Return(r)
    BY <2>1, <2>4, <2>5, <2>6, <2>7 DEF Policy!Return
  <2>9. QED
    BY <2>8 DEF Policy!Next
<1>4. QED
  BY <1>2, <1>3

LEMMA TakeResultRefines ==
    ASSUME TypeOK, NEW r \in Requests, TakeResult(r),
           \A q \in Requests \ {r} : Untouched(q)
    PROVE  Policy!Next
<1>1. /\ pc[r] = "returned" /\ pc'[r] = "idle"
      /\ attempts' = [attempts EXCEPT ![r] = 0]
  BY DEF TakeResult, Goto, TypeOK
<1>2. Phase[r] = "over" /\ ServedBy[r] = {} /\ Tried[r] = NoTries
  BY <1>1, MappingOf DEF Trying
<1>3. Phase'[r] = "idle" /\ ServedBy'[r] = {} /\ Tried'[r] = NoTries
      /\ Ending'[r] = "none"
  BY <1>1 DEF Phase, ServedBy, Tried, Ending, Trying
<1>4. ServedBy' = ServedBy /\ Tried' = Tried
  BY <1>2, <1>3, SameEntries
<1>5. Policy!Take(r)
  BY <1>1, <1>2, <1>3, <1>4, OnlyItsEntries DEF Policy!Take
<1>6. QED
  BY <1>5 DEF Policy!Next

LEMMA StepRefines ==
    ASSUME IndInv, IndInv', [Next]_vars
    PROVE  [Policy!Next]_(Policy!vars)
<1>1. TypeOK /\ \A r \in Requests : RequestInv(r) /\ RequestInv(r)'
  BY DEF IndInv, RequestInv
<1>2. ASSUME UNCHANGED requestVars
      PROVE  UNCHANGED Policy!vars
  BY <1>2 DEF requestVars, Policy!vars, Phase, ServedBy, Tried, Ending, Trying
<1>3. ASSUME NEW r \in Requests,
             Progress(r) \/ \E S \in Replicas[r] : Lookup(r, S)
      PROVE  [Policy!Next]_(Policy!vars)
  <2>1. Replicas[r] \subseteq SUBSET Endpoints
    BY RetryAssumption DEF RetryAssumption
  <2>2. \A q \in Requests \ {r} : Untouched(q)
    BY <1>1, <1>3
       DEF Untouched, Progress, Send, Refused, Answered, Unrecorded, Clear,
           Decide, TakeResult, Lookup, Goto, TypeOK
  <2>3. ASSUME \/ Refused(r)
               \/ \E o \in Outcomes : Answered(r, o) \/ Unrecorded(r, o)
               \/ Clear(r)
        PROVE  UNCHANGED Policy!vars
    <3>1. /\ Trying(r) /\ UNCHANGED <<order, attempts, tries>>
          /\ pc'[r] \in {"clear", "decide"}
      BY <1>1, <2>3
         DEF Refused, Answered, Unrecorded, Clear, Trying, Goto, TypeOK
    <3>2. Trying(r)'
      BY <3>1 DEF Trying
    <3>3. QED
      BY <2>2, <3>1, <3>2, UnseenByThePolicy
  <2>4. QED
    BY <1>1, <1>3, <2>1, <2>2, <2>3, LookupRefines, SendRefines, DecideRefines,
       TakeResultRefines DEF Progress
<1>4. ASSUME (\E e \in Endpoints : Flip(e)) \/ TimePasses \/ UNCHANGED vars
      PROVE  UNCHANGED requestVars
  BY <1>4 DEF Flip, TimePasses, vars
<1>5. QED
  BY <1>2, <1>3, <1>4 DEF Next

\* The requests go by the retry policy of Rotation: their endpoints stay as looked up,
\* every attempt goes to one tried least, and none gives up on a transient failure
\* with attempts left.
THEOREM ImplementsRotation == Spec => RotationSpec
<1>1. Init => Policy!Init
  BY DEF Init, Policy!Init, Phase, ServedBy, Tried, Ending, Trying, NoTries,
         Policy!Untried
<1>2. IndInv /\ IndInv' /\ [Next]_vars => [Policy!Next]_(Policy!vars)
  BY StepRefines
<1>3. QED
  BY <1>1, <1>2, Invariance, PTL DEF Spec, RotationSpec, Policy!Spec
================================================================================
