----------------------------- MODULE RequestsProofs -----------------------------
(***************************************************************************)
(* Proofs about the requests of the Rust SDK, for every value of the       *)
(* constants:                                                              *)
(*   - GetInto, whose IndInv is inductive, and that Requests implements it *)
(*     (a get_into among all the calls of a program is one of GetInto);    *)
(*   - what is retried;                                                    *)
(*   - that ids stand for files where parts do not run together            *)
(*     (IdsTellFiles), over urls, queries and filters of any length, by    *)
(*     induction on sequences, and that one parameter alone never runs     *)
(*     together (OneParameterTells);                                       *)
(*   - what the seed peers hold, and what a stat tells of it, for which    *)
(*     Underway, PickedByTheIdKept, HeldInStep and OthersInStep are        *)
(*     inductive together.                                                 *)
(***************************************************************************)
EXTENDS Requests, SequenceTheorems, WellFoundedInduction, TLAPS

\* The part of the file read so far, and what another chunk makes of it.
LEMMA NextChunk ==
    ASSUME NEW b \in Seq(Chunks), NEW n \in Nat, n < Len(File)
    PROVE  Append(b \o SubSeq(File, 1, n), File[n + 1]) = b \o SubSeq(File, 1, n + 1)
<1>1. File \in Seq(Chunks)
  BY GetIntoAssumption DEF GetIntoAssumption, Chunks
<1>2. QED
  BY <1>1

\* Cutting the buffer back to its former length restores it.
LEMMA CutBack ==
    ASSUME NEW b \in Seq(Chunks), NEW n \in 0 .. Len(File)
    PROVE  SubSeq(b \o SubSeq(File, 1, n), 1, Len(b)) = b
<1>1. File \in Seq(Chunks)
  BY GetIntoAssumption DEF GetIntoAssumption, Chunks
<1>2. QED
  BY <1>1

\* Nothing of the file read, and all of it.
LEMMA WholeFile ==
    ASSUME NEW b \in Seq(Chunks)
    PROVE  /\ b \o SubSeq(File, 1, 0) = b
           /\ b \o SubSeq(File, 1, Len(File)) = b \o File
           /\ b \o File \in Seq(Chunks)
<1>1. File \in Seq(Chunks)
  BY GetIntoAssumption DEF GetIntoAssumption, Chunks
<1>2. QED
  BY <1>1

--------------------------------------------------------------------------------
(* GetInto: IndInv, one lemma for each action. *)

LEMMA Initially == Init => IndInv
BY GetIntoAssumption
   DEF GetIntoAssumption, Init, IndInv, TypeOK, Holding, AppendsOnceOrNothing, Results

LEMMA Reading ==
    ASSUME IndInv, Chunk
    PROVE  IndInv'
<1> USE DEF IndInv, Chunk
<1>1. chunks \in Nat /\ chunks < Len(File) /\ before \in Seq(Chunks)
  BY DEF TypeOK
<1>2. body' = before \o SubSeq(File, 1, chunks + 1)
  BY <1>1, NextChunk DEF Holding
<1>3. body' \in Seq(Chunks) /\ Len(body') = Len(body) + 1
  BY DEF TypeOK, Chunks
<1>4. TypeOK'
  BY <1>3 DEF TypeOK
<1>5. Holding'
  BY <1>2 DEF Holding
<1>6. QED
  BY <1>4, <1>5 DEF AppendsOnceOrNothing

LEMMA Breaking ==
    ASSUME IndInv, Break
    PROVE  IndInv'
<1> USE DEF IndInv, Break
<1>1. body' = before /\ before \in Seq(Chunks)
  BY CutBack DEF TypeOK, Holding
<1>2. QED
  BY <1>1 DEF TypeOK, Holding, AppendsOnceOrNothing, Results, Failures

LEMMA Ending ==
    ASSUME IndInv, End
    PROVE  IndInv'
<1> USE DEF IndInv, End
<1>1. body = before \o File /\ before \in Seq(Chunks)
  BY WholeFile DEF TypeOK, Holding
<1>2. QED
  BY <1>1 DEF TypeOK, Holding, AppendsOnceOrNothing, Results

LEMMA Responding ==
    ASSUME IndInv, Respond
    PROVE  IndInv'
BY WholeFile, GetIntoAssumption
   DEF GetIntoAssumption, Respond, IndInv, TypeOK, Holding, AppendsOnceOrNothing

LEMMA Failing ==
    ASSUME IndInv, NEW error \in Failures, Fail(error)
    PROVE  IndInv'
BY GetIntoAssumption
   DEF GetIntoAssumption, Fail, IndInv, TypeOK, Holding, AppendsOnceOrNothing, Results, Failures

LEMMA Deciding ==
    ASSUME IndInv, Decide
    PROVE  IndInv'
<1> USE DEF IndInv, Decide
<1>1. CASE WillRetry
  BY <1>1, GetIntoAssumption
     DEF GetIntoAssumption, WillRetry, TypeOK, Holding, AppendsOnceOrNothing
<1>2. CASE ~WillRetry
  <2>1. result = "transient" => attempts = 1 + MaxRetries
    BY <1>2, GetIntoAssumption DEF GetIntoAssumption, WillRetry, TypeOK
  <2>2. mark = 0
    BY DEF Holding
  <2>3. QED
    BY <1>2, <2>1, <2>2 DEF TypeOK, Holding, AppendsOnceOrNothing
<1>3. QED
  BY <1>1, <1>2

LEMMA CallingAndReturning ==
    ASSUME IndInv, Call \/ CallInVain \/ Drop \/ TakeResult
    PROVE  IndInv'
<1> USE GetIntoAssumption
        DEF GetIntoAssumption, IndInv, TypeOK, Holding, AppendsOnceOrNothing, Results, Failures
<1>1. CASE Call
  <2>1. mark' = 0 /\ Len(body') \in Nat /\ attempts' \in 0 .. MaxRetries
    BY <1>1 DEF Call
  <2>2. QED
    BY <1>1, <2>1 DEF Call
<1>2. CASE CallInVain
  BY <1>2 DEF CallInVain
<1>3. CASE Drop
  BY <1>3 DEF Drop, Rest
<1>4. CASE TakeResult
  <2>1. Rest
    BY <1>4 DEF TakeResult
  <2>2. buf' \in Seq(Chunks)
    BY <1>4, EmptySeq DEF TakeResult
  <2>3. QED
    BY <2>1, <2>2, EmptySeq DEF Rest
<1>5. QED
  BY <1>1, <1>2, <1>3, <1>4

LEMMA Stuttering ==
    ASSUME IndInv, UNCHANGED vars
    PROVE  IndInv'
BY DEF vars, IndInv, TypeOK, Holding, AppendsOnceOrNothing

\* The inductive invariant holds in every reachable state.
THEOREM Invariance == Spec => []IndInv
<1>1. ASSUME IndInv, [Next]_vars PROVE IndInv'
  <2>1. CASE Next
    BY <1>1, <2>1, Reading, Breaking, Ending, Responding, Failing, Deciding,
       CallingAndReturning
       DEF Next, Progress
  <2>2. QED
    BY <1>1, <2>1, Stuttering
<1>2. QED
  BY Initially, <1>1, PTL DEF Spec

\* Every variable has its type in every reachable state.
THEOREM TypeCorrect == Spec => []TypeOK
BY Invariance, PTL DEF IndInv

\* A call appends the file once and whole, or leaves the buffer as it was
\* (lib.rs:1288-1341).
THEOREM AppendsOnceOrNothingHolds == Spec => []AppendsOnceOrNothing
BY Invariance, PTL DEF IndInv

--------------------------------------------------------------------------------
(* Requests implements GetInto. *)

\* What the steps of RequestsNext are to GetInto.
LEMMA StepOfGetInto ==
    ASSUME [RequestsNext]_allVars
    PROVE  [Next]_vars
<1>1. CASE UNCHANGED allVars
  BY <1>1 DEF allVars
<1>2. ASSUME NEW r \in Gets, Begin(r) PROVE Next
  BY <1>2 DEF Begin, Next
<1>3. CASE BeginInVain
  BY <1>3 DEF BeginInVain, Next
<1>4. CASE Attempting
  <2>1. ASSUME NEW outcome, AttemptFails(outcome) PROVE Next
    BY <2>1 DEF AttemptFails, Next, Progress, Failures
  <2>2. CASE Receive
    BY <2>2 DEF Receive, Next, Progress
  <2>3. ASSUME NEW outcome, BodyBreaks(outcome) PROVE Next
    BY <2>3 DEF BodyBreaks, Next, Progress
  <2>4. CASE Go
    BY <2>4 DEF Go, Next, Progress
  <2> QED
    BY <1>4, <2>1, <2>2, <2>3, <2>4 DEF Attempting
<1>5. CASE Finish
  BY <1>5 DEF Finish, Next
<1>6. ASSUME \/ \E r \in Preheats : Preheat(r)
             \/ \E r \in Deletes : Delete(r)
             \/ \E outcome \in Statuses \cup {Unreachable} : Refused(outcome)
             \/ \E r \in ImagePreheats : PreheatImage(r)
             \/ \E r \in ImageDeletes : DeleteImage(r)
             \/ \E r \in Stats : StatImage(r)
      PROVE  UNCHANGED vars
  BY <1>6 DEF Preheat, Delete, Refused, PreheatImage, DeleteImage, StatImage
<1> QED
  BY <1>1, <1>2, <1>3, <1>4, <1>5, <1>6 DEF RequestsNext

\* Whatever its requests say and meet, and whatever else is called, a get_into is one
\* of GetInto.
THEOREM ImplementsGetInto == RequestsSpec => Spec
<1>1. RequestsInit => Init
  BY DEF RequestsInit
<1>2. [RequestsNext]_allVars => [Next]_vars
  BY StepOfGetInto
<1> QED
  BY <1>1, <1>2, PTL DEF RequestsSpec, Spec

\* Among all calls, too, a get_into appends the file once and whole, or leaves the
\* buffer as it was.
THEOREM AppendsOnceOrNothingAmongCalls == RequestsSpec => []AppendsOnceOrNothing
BY ImplementsGetInto, AppendsOnceOrNothingHolds, PTL

--------------------------------------------------------------------------------
(* Retries. *)

\* An answer of the proxy, or none, is judged as documented.
LEMMA SendErrorAsDocumented ==
    ASSUME NEW o \in Responses \cup {Unreachable, Slow, BadHeader}
    PROVE  IsRetryable(SendError(o)) <=> TransientAsDocumented(o)
<1>1. CASE o \in Responses
  <2>1. PICK s \in Answers, t \in {"backend", "proxy", "dfdaemon"} :
            o = Response(s, t)
    BY <1>1 DEF Responses
  <2>2. o.met = "response" /\ o.status = s /\ o.type = t /\ ~o.backend
    BY <2>1 DEF Response, Nothing
  <2>3. s \in 100 .. 999
    BY AnswersAssumption DEF AnswersAssumption
  <2>4. SendError(o) = FromResponse(o)
    BY <2>2 DEF SendError
  <2>5. SendError(o).variant \in Details /\ SendError(o).status = s
    BY <2>2, <2>4 DEF FromResponse, Error, Details
  <2>6. IsRetryable(SendError(o)) <=> s \in {NoStatus, 408, 429} \cup 500 .. 599
    BY <2>5 DEF IsRetryable, Details
  <2>7. TransientAsDocumented(o) <=> s \in {NoStatus, 408, 429} \/ s \div 100 = 5
    BY <2>2 DEF TransientAsDocumented
  <2>8. s \div 100 = 5 <=> s \in 500 .. 599
    BY <2>3
  <2> QED
    BY <2>6, <2>7, <2>8
<1>2. CASE o = Unreachable
  BY <1>2 DEF Unreachable, Nothing, SendError, IsRetryable, TransientAsDocumented, Plain,
              Error
<1>3. CASE o = Slow
  BY <1>3 DEF Slow, Nothing, SendError, IsRetryable, TransientAsDocumented, Plain, Error
<1>4. CASE o = BadHeader
  <2>1. o.met = "bad header" /\ ~o.backend
    BY <1>4 DEF BadHeader, Nothing
  <2>2. SendError(o) = Error("InvalidArgument", NoStatus, "Ok")
    BY <2>1 DEF SendError, Plain
  <2>3. ~IsRetryable(SendError(o))
    BY <2>2 DEF IsRetryable, Details, Error
  <2>4. ~TransientAsDocumented(o)
    BY <2>1 DEF TransientAsDocumented
  <2> QED
    BY <2>3, <2>4
<1>5. o \in Responses \/ o = Unreachable \/ o = Slow \/ o = BadHeader
  OBVIOUS
<1> QED
  BY <1>1, <1>2, <1>3, <1>4, <1>5

\* So is a gRPC status of its dfdaemon.
LEMMA DfdaemonErrorAsDocumented ==
    ASSUME NEW o \in Statuses \cup {Unreachable}
    PROVE  IsRetryable(DfdaemonError(o)) <=> TransientAsDocumented(o)
<1>1. ASSUME NEW c, o = Status(c)
      PROVE  IsRetryable(DfdaemonError(o)) <=> TransientAsDocumented(o)
  <2>1. o.met = "status" /\ o.code = c /\ ~o.backend
    BY <1>1 DEF Status, Nothing
  <2> QED
    BY <2>1 DEF DfdaemonError, FromStatus, IsRetryable, TransientAsDocumented, Plain,
                Error, Details
<1>2. ASSUME NEW s \in Answers \cup {NoStatus},
             o = BackendStatus(s)
      PROVE  IsRetryable(DfdaemonError(o)) <=> TransientAsDocumented(o)
  <2>1. o.met = "status" /\ o.status = s /\ o.backend
    BY <1>2 DEF BackendStatus, Status, Nothing
  <2>2. s \in 100 .. 999 \/ s = NoStatus
    BY AnswersAssumption DEF AnswersAssumption
  <2>3. DfdaemonError(o) = Error("BackendError", s, "Ok")
    BY <2>1, <2>2 DEF DfdaemonError, FromStatus
  <2>4. IsRetryable(DfdaemonError(o)) <=> s \in {NoStatus, 408, 429} \cup 500 .. 599
    BY <2>3 DEF IsRetryable, Details, Error
  <2>5. TransientAsDocumented(o) <=> s \in {NoStatus, 408, 429} \/ s \div 100 = 5
    BY <2>1 DEF TransientAsDocumented
  <2>6. s \div 100 = 5 <=> s \in 500 .. 599
    BY <2>2 DEF NoStatus
  <2> QED
    BY <2>4, <2>5, <2>6
<1>3. CASE o = Unreachable
  <2>1. o.met = "unreachable"
    BY <1>3 DEF Unreachable, Nothing
  <2>2. DfdaemonError(o) = Error("Internal", NoStatus, "Ok")
    BY <2>1 DEF DfdaemonError, Plain
  <2>3. IsRetryable(DfdaemonError(o))
    BY <2>2 DEF IsRetryable, Error
  <2>4. TransientAsDocumented(o)
    BY <2>1 DEF TransientAsDocumented
  <2> QED
    BY <2>3, <2>4
<1>4. (\E c : o = Status(c)) \/ (\E s \in Answers \cup {NoStatus} : o = BackendStatus(s))
      \/ o = Unreachable
  BY DEF Statuses
<1> QED
  BY <1>1, <1>2, <1>3, <1>4

LEMMA NothingIsNotTransient == ~TransientAsDocumented(Nothing)
BY DEF TransientAsDocumented, Nothing

\* Steps that meet nothing keep it, unless an attempt has just failed.
LEMMA CalmStep ==
    ASSUME Calm, pc' = "decide" => result' = "ok"
    PROVE  RetriedAsDocumented'
BY NothingIsNotTransient DEF Calm, RetriedAsDocumented

LEMMA RetriedInitially == RequestsInit => RetriedAsDocumented
BY NothingIsNotTransient DEF RequestsInit, Init, RetriedAsDocumented

LEMMA RetriedStepwise ==
    ASSUME RetriedAsDocumented, [RequestsNext]_allVars
    PROVE  RetriedAsDocumented'
<1>1. CASE UNCHANGED allVars
  BY <1>1 DEF allVars, vars, requestVars, RetriedAsDocumented
<1>2. ASSUME NEW r \in Gets, Begin(r) PROVE RetriedAsDocumented'
  BY <1>2, CalmStep DEF Begin, Call
<1>3. CASE BeginInVain
  BY <1>3, CalmStep DEF BeginInVain, CallInVain
<1>4. ASSUME NEW o \in Responses \cup {Unreachable, Slow, BadHeader}, AttemptFails(o)
      PROVE  RetriedAsDocumented'
  <2>1. last' = [outcome |-> o, transient |-> IsRetryable(SendError(o))]
    BY <1>4 DEF AttemptFails, Meets
  <2>2. result' = IF IsRetryable(SendError(o)) THEN "transient" ELSE "definitive"
    BY <1>4 DEF AttemptFails, Fail
  <2> QED
    BY <2>1, <2>2, SendErrorAsDocumented DEF RetriedAsDocumented
<1>5. CASE Receive
  BY <1>5, CalmStep DEF Receive, Respond
<1>6. ASSUME NEW o \in {Unreachable, Slow}, BodyBreaks(o) PROVE RetriedAsDocumented'
  <2>1. last' = [outcome |-> o, transient |-> IsRetryable(SendError(o))]
    BY <1>6 DEF BodyBreaks, Meets
  <2>2. result' = "transient"
    BY <1>6 DEF BodyBreaks, Break
  <2>3. TransientAsDocumented(o)
    <3>1. o.met \in {"unreachable", "slow"}
      BY DEF Unreachable, Slow, Nothing
    <3> QED
      BY <3>1 DEF TransientAsDocumented
  <2> QED
    BY <2>1, <2>2, <2>3, SendErrorAsDocumented DEF RetriedAsDocumented
<1>7. CASE Go
  BY <1>7, CalmStep DEF Go, Chunk, End, Decide
<1>8. CASE Finish
  BY <1>8, CalmStep DEF Finish, Drop, TakeResult, Rest
<1>9. ASSUME NEW r, Preheat(r) PROVE RetriedAsDocumented'
  BY <1>9, CalmStep DEF Preheat, vars
<1>10. ASSUME NEW r, Delete(r) PROVE RetriedAsDocumented'
  BY <1>10, CalmStep DEF Delete, vars
<1>11. ASSUME NEW o \in Statuses \cup {Unreachable}, Refused(o)
       PROVE  RetriedAsDocumented'
  <2>1. last' = [outcome |-> o, transient |-> IsRetryable(DfdaemonError(o))]
    BY <1>11 DEF Refused, Meets
  <2>2. pc' = "idle"
    BY <1>11 DEF Refused, vars
  <2> QED
    BY <2>1, <2>2, DfdaemonErrorAsDocumented DEF RetriedAsDocumented
<1>12. ASSUME NEW r, PreheatImage(r) PROVE RetriedAsDocumented'
  BY <1>12, CalmStep DEF PreheatImage, vars
<1>13. ASSUME NEW r, DeleteImage(r) PROVE RetriedAsDocumented'
  BY <1>13, CalmStep DEF DeleteImage, vars
<1>14. ASSUME NEW r, StatImage(r) PROVE RetriedAsDocumented'
  BY <1>14, CalmStep DEF StatImage, vars
<1> QED
  BY <1>1, <1>2, <1>3, <1>4, <1>5, <1>6, <1>7, <1>8, <1>9, <1>10, <1>11, <1>12, <1>13,
     <1>14 DEF RequestsNext, Attempting

\* Whatever an attempt met is retried if and only if the documentation says so.
THEOREM RetriedAsDocumentedHolds == RequestsSpec => []RetriedAsDocumented
<1>1. RetriedAsDocumented /\ [RequestsNext]_allVars => RetriedAsDocumented'
  BY RetriedStepwise
<1> QED
  BY RetriedInitially, <1>1, PTL DEF RequestsSpec

--------------------------------------------------------------------------------
(* Recursion and sequences. *)

\* Induction, over a set of numbers.
LEMMA InductionOn ==
    ASSUME NEW S, 0 \in S, \A n \in Nat : n \in S => n + 1 \in S
    PROVE  \A n \in Nat : n \in S
<1> DEFINE R == {ss \in Nat \X Nat : ss[1] < ss[2]}
           Left == Nat \ S
<1>1. IsWellFoundedOn(R, Nat)
  BY NatLessThanWellFounded DEF OpToRel
<1>2. SUFFICES ASSUME Left # {} PROVE FALSE
  OBVIOUS
<1>3. PICK n \in Left : \A m \in Left : ~ (<<m, n>> \in R)
  <2>1. Left \subseteq Nat
    OBVIOUS
  <2> HIDE DEF R, Left
  <2> QED
    BY <1>1, <1>2, <2>1, WFMin
<1>4. n \in Nat /\ n # 0
  BY <1>3
<1>5. n - 1 \in Nat /\ n = (n - 1) + 1
  BY <1>4
<1>6. n - 1 \in S
  <2>1. <<n - 1, n>> \in R
    BY <1>5, <1>4
  <2>2. n - 1 \notin Left
    BY <2>1, <1>3
  <2> QED
    BY <2>2, <1>5
<1> QED
  BY <1>3, <1>5, <1>6


\* f is a step taken again and again from a start.
Iterates(f, start, step, N) == f[0] = start /\ \A i \in 1 .. N : f[i] = step[i][f[i - 1]]

LEMMA Iterated ==
    ASSUME NEW A, NEW start \in A, NEW step \in [Nat -> [A -> A]], NEW N \in Nat
    PROVE  \E f \in [0 .. N -> A] : Iterates(f, start, step, N)
<1> DEFINE Made(f, n) == f[0] = start /\ \A i \in 1 .. n : f[i] = step[i][f[i - 1]]
           S == {n \in Nat : \E f \in [0 .. n -> A] : Made(f, n)}
<1>1. 0 \in S
  <2>1. [i \in 0 .. 0 |-> start] \in [0 .. 0 -> A] /\ Made([i \in 0 .. 0 |-> start], 0)
    OBVIOUS
  <2> QED
    BY <2>1
<1>2. ASSUME NEW n \in Nat, n \in S PROVE n + 1 \in S
  <2>1. PICK f \in [0 .. n -> A] : Made(f, n)
    BY <1>2
  <2> DEFINE g == [i \in 0 .. n + 1 |-> IF i = n + 1 THEN step[n + 1][f[n]] ELSE f[i]]
  <2>2. step[n + 1][f[n]] \in A
    BY n + 1 \in Nat, n \in 0 .. n
  <2>3. g \in [0 .. n + 1 -> A]
    BY <2>2
  <2>4. g[0] = start
    BY <2>1
  <2>5. ASSUME NEW i \in 1 .. n + 1 PROVE g[i] = step[i][g[i - 1]]
    <3>1. g[i - 1] = f[i - 1]
      OBVIOUS
    <3>2. CASE i = n + 1
      BY <3>1, <3>2
    <3>3. CASE i # n + 1
      <4>1. i \in 1 .. n /\ g[i] = f[i]
        BY <3>3
      <4> QED
        BY <2>1, <3>1, <4>1
    <3> QED
      BY <3>2, <3>3
  <2> HIDE DEF g
  <2>6. Made(g, n + 1)
    BY <2>4, <2>5
  <2> QED
    BY <2>3, <2>6
<1>3. \A n \in Nat : n \in S
  <2> HIDE DEF S
  <2> QED
    BY <1>1, <1>2, InductionOn
<1> QED
  BY <1>3 DEF Iterates

PairsIn(key, V) == [key : {key}, value : V, escapes : {FALSE}, semicolon : {FALSE}]

Selected(segment, key) == ~segment.semicolon /\ segment.key = key

\* f[n] is the pairs of a key among the first n of a query.
Selects(f, query, key) ==
    /\ f[0] = <<>>
    /\ \A n \in 1 .. Len(query) :
          f[n] = IF Selected(query[n], key) THEN Append(f[n - 1], QueryEscape(query[n]))
                 ELSE f[n - 1]

\* The pairs of a key are found one by one, are of that key, and of values of the query.
LEMMA PairsFound ==
    ASSUME NEW query, Len(query) \in Nat, NEW key, NEW V,
           \A i \in 1 .. Len(query) : query[i].value \in V
    PROVE  \E f \in [0 .. Len(query) -> Seq(PairsIn(key, V))] :
             Selects(f, query, key) /\ Pairs(query, key) = f[Len(query)]
<1> DEFINE K == PairsIn(key, V)
           N == Len(query)
           Picked(n) == ~query[n].semicolon /\ query[n].key = key
           With(f, n) == IF n = 0 THEN <<>>
                         ELSE IF ~query[n].semicolon /\ query[n].key = key
                         THEN Append(f[n - 1], QueryEscape(query[n]))
                         ELSE f[n - 1]
           step == [n \in Nat |-> [s \in Seq(K) |->
                       IF n \in 1 .. N /\ Picked(n) THEN Append(s, QueryEscape(query[n]))
                       ELSE s]]
           pairs == CHOOSE g : g = [n \in 0 .. N |-> With(g, n)]
<1>1. ASSUME NEW n \in 1 .. N, Picked(n) PROVE QueryEscape(query[n]) \in K
  BY <1>1 DEF QueryEscape, PairsIn
<1>2. Pairs(query, key) = pairs[N]
  BY DEF Pairs
<1> HIDE DEF K
<1>3. ASSUME NEW s \in Seq(K), NEW n \in 1 .. N, Picked(n)
      PROVE  Append(s, QueryEscape(query[n])) \in Seq(K)
  <2>1. QueryEscape(query[n]) \in K
    BY <1>1, <1>3
  <2> HIDE DEF Picked
  <2> QED
    BY <2>1
<1>4. step \in [Nat -> [Seq(K) -> Seq(K)]]
  BY <1>3
<1>5. PICK f \in [0 .. N -> Seq(K)] :
          f[0] = <<>> /\ \A i \in 1 .. N : f[i] = step[i][f[i - 1]]
  <2> HIDE DEF step
  <2> DEFINE A == Seq(K)
             start == <<>>
  <2>1. start \in A
    OBVIOUS
  <2>2. N \in Nat
    OBVIOUS
  <2>3. step \in [Nat -> [A -> A]]
    BY <1>4
  <2> HIDE DEF A, start, N
  <2>4. \E f \in [0 .. N -> A] : Iterates(f, start, step, N)
    BY ONLY <2>1, <2>2, <2>3, Iterated
  <2> QED
    BY <2>4 DEF A, start, N, Iterates
<1>6. ASSUME NEW n \in 0 .. N PROVE f[n] = With(f, n)
  <2>1. CASE n = 0
    BY <1>5, <2>1
  <2>2. CASE n # 0
    <3>1. n \in 1 .. N /\ f[n - 1] \in Seq(K)
      BY <1>5, <2>2
    <3>2. f[n] = step[n][f[n - 1]]
      BY <1>5, <3>1
    <3> QED
      BY <2>2, <3>1, <3>2
  <2> QED
    BY <2>1, <2>2
<1> HIDE DEF With
<1>7. f = [n \in 0 .. N |-> With(f, n)]
  BY <1>5, <1>6
<1>8. pairs = [n \in 0 .. N |-> With(pairs, n)]
  BY <1>7
<1> HIDE DEF pairs
<1> DEFINE S == {n \in Nat : n <= N => pairs[n] = f[n]}
<1>9. 0 \in S
  BY <1>5, <1>8 DEF With
<1>10. ASSUME NEW n \in Nat, n \in S PROVE n + 1 \in S
  <2> DEFINE m == n + 1
  <2>1. SUFFICES ASSUME m <= N PROVE pairs[m] = f[m]
    OBVIOUS
  <2>2. m \in 1 .. N /\ m \in 0 .. N /\ m # 0 /\ m - 1 = n /\ n <= N
    BY <2>1
  <2>3. pairs[m - 1] = f[m - 1]
    BY <1>10, <2>2
  <2> HIDE DEF m, N
  <2>4. pairs[m] = With(pairs, m)
    BY <1>8, <2>2
  <2>5. f[m] = With(f, m)
    BY <1>6, <2>2
  <2> QED
    BY <2>3, <2>4, <2>5 DEF With
<1>11. \A n \in Nat : n \in S
  <2> HIDE DEF S
  <2> QED
    BY <1>9, <1>10, InductionOn
<1>12. pairs[N] = f[N]
  BY <1>11
<1>13. ASSUME NEW n \in 1 .. N
       PROVE  f[n] = IF Selected(query[n], key) THEN Append(f[n - 1], QueryEscape(query[n]))
                     ELSE f[n - 1]
  <2>1. n \in 0 .. N /\ n # 0
    OBVIOUS
  <2>2. f[n] = With(f, n)
    BY <1>6, <2>1
  <2> QED
    BY <2>1, <2>2 DEF With, Selected
<1>14. Selects(f, query, key)
  BY <1>5, <1>13 DEF Selects
<1> QED
  BY <1>2, <1>12, <1>14 DEF K

LEMMA PairsOfTheKey ==
    ASSUME NEW query, Len(query) \in Nat, NEW key, NEW V,
           \A i \in 1 .. Len(query) : query[i].value \in V
    PROVE  Pairs(query, key) \in Seq(PairsIn(key, V))
BY PairsFound

\* What FlattenSeq makes of sequences, one after the other.
LEMMA Flattened ==
    ASSUME NEW R, NEW s \in Seq(Seq(R)), s # <<>>
    PROVE  \E f \in [1 .. Len(s) -> Seq(R)] :
             /\ f[1] = s[1] /\ \A i \in 2 .. Len(s) : f[i] = f[i - 1] \o s[i]
             /\ FlattenSeq(s) = f[Len(s)]
<1> DEFINE N == Len(s)
           With(f, i) == IF i = 1 THEN s[i] ELSE f[i - 1] \o s[i]
           flat == CHOOSE g : g = [i \in 1 .. N |-> With(g, i)]
           step == [n \in Nat |-> [t \in Seq(R) |-> IF n \in 1 .. N THEN t \o s[n] ELSE t]]
           S == {n \in Nat : n + 1 <= N => flat[n + 1] \in Seq(R)}
<1>1. N \in Nat /\ N # 0 /\ \A i \in 1 .. N : s[i] \in Seq(R)
  OBVIOUS
<1>2. FlattenSeq(s) = flat[N]
  BY <1>1 DEF FlattenSeq
<1>3. step \in [Nat -> [Seq(R) -> Seq(R)]]
  BY <1>1
<1>4. PICK f \in [0 .. N -> Seq(R)] :
          f[0] = <<>> /\ \A i \in 1 .. N : f[i] = step[i][f[i - 1]]
  <2> DEFINE A == Seq(R)
             start == <<>>
  <2>1. start \in A
    OBVIOUS
  <2>2. step \in [Nat -> [A -> A]]
    BY <1>3
  <2>3. N \in Nat
    BY <1>1
  <2> HIDE DEF A, start, step, N
  <2>4. \E f \in [0 .. N -> A] : Iterates(f, start, step, N)
    BY ONLY <2>1, <2>2, <2>3, Iterated
  <2> QED
    BY <2>4 DEF A, start, N, Iterates
<1>5. ASSUME NEW i \in 1 .. N PROVE f[i] = With(f, i)
  <2> HIDE DEF N
  <2>1. i - 1 \in 0 .. N /\ i \in Nat
    BY <1>1
  <2>2. f[i] = f[i - 1] \o s[i]
    BY <1>4, <2>1
  <2>3. ASSUME i = 1 PROVE f[i - 1] \o s[i] = s[i]
    <3>1. f[i - 1] = <<>> /\ s[i] \in Seq(R)
      BY <1>1, <1>4, <2>3
    <3> QED
      BY <3>1, ConcatEmptySeq
  <2> QED
    BY <2>2, <2>3
<1> DEFINE g == [i \in 1 .. N |-> f[i]]
<1>6. g = [i \in 1 .. N |-> With(g, i)]
  <2>1. ASSUME NEW i \in 1 .. N PROVE g[i] = With(g, i)
    <3>1. i # 1 => g[i - 1] = f[i - 1]
      BY <1>1
    <3> QED
      BY <1>5, <3>1
  <2> QED
    BY <2>1
<1> HIDE DEF With, g
<1>7. flat = [i \in 1 .. N |-> With(flat, i)]
  BY <1>6
<1> HIDE DEF flat
<1>8. ASSUME NEW i \in 1 .. N PROVE flat[i] = IF i = 1 THEN s[i] ELSE flat[i - 1] \o s[i]
  <2>1. flat[i] = With(flat, i)
    BY <1>7
  <2> QED
    BY <2>1 DEF With
<1>9. 0 \in S
  BY <1>1, <1>8
<1>10. ASSUME NEW n \in Nat, n \in S PROVE n + 1 \in S
  <2>1. SUFFICES ASSUME (n + 1) + 1 <= N PROVE flat[(n + 1) + 1] \in Seq(R)
    OBVIOUS
  <2> DEFINE m == (n + 1) + 1
  <2>2. m \in 1 .. N /\ m # 1 /\ m - 1 = n + 1
    BY <1>1, <2>1
  <2>3. flat[n + 1] \in Seq(R)
    BY <1>1, <1>10, <2>1
  <2> HIDE DEF m
  <2>4. flat[m] = flat[n + 1] \o s[m]
    BY <1>8, <2>2
  <2>5. s[m] \in Seq(R)
    BY <1>1, <2>2
  <2>6. flat[m] \in Seq(R)
    BY <2>3, <2>4, <2>5
  <2> QED
    BY <2>6 DEF m
<1>11. \A n \in Nat : n \in S
  <2> HIDE DEF S
  <2> QED
    BY <1>9, <1>10, InductionOn
<1>12. ASSUME NEW i \in 1 .. N PROVE flat[i] \in Seq(R)
  <2> DEFINE k == i - 1
  <2>1. k \in Nat /\ k + 1 = i /\ i <= N
    BY <1>1
  <2>2. k \in S
    BY <1>11, <2>1
  <2> HIDE DEF k
  <2>3. flat[k + 1] \in Seq(R)
    BY <2>1, <2>2
  <2> QED
    BY <2>1, <2>3
<1>13. flat \in [1 .. N -> Seq(R)]
  BY <1>7, <1>12
<1>14. flat[1] = s[1]
  BY <1>1, <1>8, 1 \in 1 .. N
<1>15. ASSUME NEW i \in 2 .. N PROVE flat[i] = flat[i - 1] \o s[i]
  <2>1. i \in 1 .. N /\ i # 1
    BY <1>1
  <2> QED
    BY <1>8, <2>1
<1> QED
  BY <1>2, <1>13, <1>14, <1>15

AllOf(s, key) == \A j \in 1 .. Len(s) : s[j].key = key

NoneOf(s, key) == \A j \in 1 .. Len(s) : s[j].key # key

\* Two sequences that end in the pairs of a key, and have none of it before these.
LEMMA Split ==
    ASSUME NEW R, NEW a \in Seq(R), NEW b \in Seq(R), NEW c \in Seq(R), NEW d \in Seq(R),
           NEW key, NoneOf(a, key), AllOf(b, key), NoneOf(c, key), AllOf(d, key),
           a \o b = c \o d
    PROVE  a = c /\ b = d
<1>1. Len(a) + Len(b) = Len(c) + Len(d)
  <2>1. Len(a \o b) = Len(a) + Len(b) /\ Len(c \o d) = Len(c) + Len(d)
    OBVIOUS
  <2> QED
    BY <2>1
<1>2. \A i \in 1 .. Len(a) + Len(b) :
         (a \o b)[i] = IF i <= Len(a) THEN a[i] ELSE b[i - Len(a)]
  OBVIOUS
<1>3. \A i \in 1 .. Len(c) + Len(d) :
         (c \o d)[i] = IF i <= Len(c) THEN c[i] ELSE d[i - Len(c)]
  OBVIOUS
<1>4. ASSUME Len(a) < Len(c) PROVE FALSE
  <2> DEFINE i == Len(a) + 1
  <2>1. i \in 1 .. Len(a) + Len(b) /\ i - Len(a) \in 1 .. Len(b) /\ i \in 1 .. Len(c)
        /\ ~ (i <= Len(a)) /\ i <= Len(c)
    BY <1>1, <1>4
  <2> HIDE DEF i
  <2>2. (a \o b)[i] = b[i - Len(a)] /\ (c \o d)[i] = c[i]
    BY <1>1, <1>2, <1>3, <2>1
  <2> QED
    BY <2>1, <2>2 DEF AllOf, NoneOf
<1>5. ASSUME Len(c) < Len(a) PROVE FALSE
  <2> DEFINE i == Len(c) + 1
  <2>1. i \in 1 .. Len(c) + Len(d) /\ i - Len(c) \in 1 .. Len(d) /\ i \in 1 .. Len(a)
        /\ ~ (i <= Len(c)) /\ i <= Len(a)
    BY <1>1, <1>5
  <2> HIDE DEF i
  <2>2. (c \o d)[i] = d[i - Len(c)] /\ (a \o b)[i] = a[i]
    BY <1>1, <1>2, <1>3, <2>1
  <2> QED
    BY <2>1, <2>2 DEF AllOf, NoneOf
<1>6. Len(a) = Len(c) /\ Len(b) = Len(d)
  BY <1>1, <1>4, <1>5
<1>7. ASSUME NEW i \in 1 .. Len(a) PROVE a[i] = c[i]
  BY <1>2, <1>3, <1>6
<1>8. ASSUME NEW i \in 1 .. Len(b) PROVE b[i] = d[i]
  <2>1. i + Len(a) \in 1 .. Len(a) + Len(b) /\ ~ (i + Len(a) <= Len(a))
        /\ (i + Len(a)) - Len(a) = i
    OBVIOUS
  <2> QED
    BY <1>2, <1>3, <1>6, <2>1
<1>9. a = c
  BY ONLY a \in Seq(R), c \in Seq(R), <1>6, <1>7, SeqEqual
<1>10. b = d
  BY ONLY b \in Seq(R), d \in Seq(R), <1>6, <1>8, SeqEqual
<1> QED
  BY <1>9, <1>10

LEMMA NoneOfEither ==
    ASSUME NEW R, NEW a \in Seq(R), NEW b \in Seq(R), NEW key, NEW other, other # key,
           NoneOf(a, key), AllOf(b, other)
    PROVE  NoneOf(a \o b, key)
<1>1. SUFFICES ASSUME NEW j \in 1 .. Len(a \o b) PROVE (a \o b)[j].key # key
  BY DEF NoneOf
<1>2. CASE j <= Len(a)
  <2>1. (a \o b)[j] = a[j] /\ j \in 1 .. Len(a)
    BY <1>2
  <2> QED
    BY <2>1 DEF NoneOf
<1>3. CASE ~ (j <= Len(a))
  <2>1. (a \o b)[j] = b[j - Len(a)] /\ j - Len(a) \in 1 .. Len(b)
    BY <1>3
  <2> QED
    BY <2>1 DEF AllOf
<1> QED
  BY <1>2, <1>3

\* f[n] is the first n of u, each of the pairs of its key, put together.
Joins(f, u, keys, N) ==
    /\ N # 0 => f[1] = u[1]
    /\ \A n \in 2 .. N : f[n] = f[n - 1] \o u[n]
    /\ \A n \in 1 .. N : AllOf(u[n], keys[n])

Distinct(keys, N) == \A i, j \in 1 .. N : keys[i] = keys[j] => i = j

NoLaterKey(f, keys, N) == \A n \in 1 .. N : \A m \in n + 1 .. N : NoneOf(f[n], keys[m])

LEMMA KeysInOrder ==
    ASSUME NEW R, NEW keys, NEW N \in Nat, Distinct(keys, N),
           NEW u \in [1 .. N -> Seq(R)], NEW f \in [1 .. N -> Seq(R)], Joins(f, u, keys, N)
    PROVE  NoLaterKey(f, keys, N)
<1> DEFINE NoneLater(n) == \A m \in n + 1 .. N : NoneOf(f[n], keys[m])
           S == {n \in Nat : n + 1 <= N => NoneLater(n + 1)}
<1>1. 0 \in S
  <2>1. SUFFICES ASSUME 1 <= N PROVE NoneLater(1)
    OBVIOUS
  <2>2. AllOf(f[1], keys[1]) /\ 1 \in 1 .. N
    BY <2>1 DEF Joins
  <2>3. ASSUME NEW m \in 2 .. N PROVE keys[m] # keys[1]
    BY <2>2 DEF Distinct
  <2> QED
    BY <2>2, <2>3 DEF AllOf, NoneOf
<1>2. ASSUME NEW n \in Nat, n \in S PROVE n + 1 \in S
  <2> DEFINE m == n + 1
  <2>1. SUFFICES ASSUME m + 1 <= N PROVE NoneLater(m + 1)
    OBVIOUS
  <2>2. m \in Nat /\ m \in 1 .. N /\ m + 1 \in 2 .. N /\ m + 1 \in 1 .. N /\ (m + 1) - 1 = m
    BY <2>1
  <2>3. NoneLater(m)
    BY <1>2, <2>1
  <2> HIDE DEF m, S
  <2>4. f[m + 1] = f[m] \o u[m + 1] /\ AllOf(u[m + 1], keys[m + 1])
    BY <2>2 DEF Joins
  <2>5. f[m] \in Seq(R) /\ u[m + 1] \in Seq(R)
    BY <2>2
  <2>6. ASSUME NEW l \in (m + 1) + 1 .. N PROVE NoneOf(f[m] \o u[m + 1], keys[l])
    <3>1. l \in m + 1 .. N /\ l \in 1 .. N /\ l # m + 1
      BY <2>2
    <3>2. NoneOf(f[m], keys[l]) /\ keys[m + 1] # keys[l]
      BY <2>2, <2>3, <3>1 DEF Distinct
    <3> QED
      BY ONLY <2>4, <2>5, <3>2, NoneOfEither
  <2> QED
    BY <2>4, <2>6
<1>3. \A n \in Nat : n \in S
  <2> HIDE DEF S
  <2> QED
    BY <1>1, <1>2, InductionOn
<1>4. ASSUME NEW n \in 1 .. N PROVE NoneLater(n)
  <2> DEFINE k == n - 1
  <2>1. k \in Nat /\ k + 1 = n /\ n <= N
    OBVIOUS
  <2>2. k \in S
    BY <1>3, <2>1
  <2> HIDE DEF k, NoneLater
  <2>3. k + 1 <= N => NoneLater(k + 1)
    BY <2>2
  <2> QED
    BY <2>1, <2>3
<1> QED
  BY <1>4 DEF NoLaterKey

\* Where the whole is the same so is each of them.
LEMMA EachTheSame ==
    ASSUME NEW R, NEW keys, NEW N \in Nat, N # 0, Distinct(keys, N),
           NEW s \in [1 .. N -> Seq(R)], NEW f \in [1 .. N -> Seq(R)], Joins(f, s, keys, N),
           NEW t \in [1 .. N -> Seq(R)], NEW g \in [1 .. N -> Seq(R)], Joins(g, t, keys, N),
           f[N] = g[N]
    PROVE  s = t
<1>1. NoLaterKey(f, keys, N) /\ NoLaterKey(g, keys, N)
  BY KeysInOrder
<1>2. f[1] = s[1] /\ g[1] = t[1]
  BY DEF Joins
<1>3. ASSUME NEW n \in 2 .. N, f[n] = g[n] PROVE f[n - 1] = g[n - 1] /\ s[n] = t[n]
  <2>1. n - 1 \in 1 .. N /\ n \in 1 .. N /\ n \in (n - 1) + 1 .. N
    OBVIOUS
  <2> DEFINE a == f[n - 1]
             b == s[n]
             c == g[n - 1]
             d == t[n]
             key == keys[n]
  <2>2. a \in Seq(R) /\ b \in Seq(R) /\ c \in Seq(R) /\ d \in Seq(R)
    BY <2>1
  <2>3. NoneOf(a, key) /\ NoneOf(c, key)
    BY <1>1, <2>1 DEF NoLaterKey
  <2>4. AllOf(b, key) /\ AllOf(d, key)
    BY <2>1 DEF Joins
  <2>5. a \o b = c \o d
    BY <1>3 DEF Joins
  <2> HIDE DEF a, b, c, d, key
  <2>6. a = c /\ b = d
    BY ONLY <2>2, <2>3, <2>4, <2>5, Split
  <2> QED
    BY <2>6 DEF a, b, c, d
<1> DEFINE S == {k \in Nat : k < N => f[N - k] = g[N - k]}
<1>4. 0 \in S
  BY N - 0 = N
<1>5. ASSUME NEW k \in Nat, k \in S PROVE k + 1 \in S
  <2> DEFINE n == N - k
  <2>1. SUFFICES ASSUME k + 1 < N PROVE f[N - (k + 1)] = g[N - (k + 1)]
    OBVIOUS
  <2>2. n \in 2 .. N /\ n - 1 = N - (k + 1) /\ k < N
    BY <2>1
  <2>3. f[n] = g[n]
    BY <1>5, <2>2
  <2> HIDE DEF n
  <2>4. f[n - 1] = g[n - 1]
    BY <1>3, <2>2, <2>3
  <2> QED
    BY <2>2, <2>4
<1>6. \A k \in Nat : k \in S
  <2> HIDE DEF S
  <2> QED
    BY <1>4, <1>5, InductionOn
<1>7. ASSUME NEW n \in 1 .. N PROVE f[n] = g[n]
  <2> DEFINE k == N - n
  <2>1. k \in Nat /\ k < N /\ N - k = n
    OBVIOUS
  <2>2. k \in S
    BY <1>6, <2>1
  <2> HIDE DEF k
  <2>3. f[N - k] = g[N - k]
    BY <2>1, <2>2
  <2> QED
    BY <2>1, <2>3
<1>8. ASSUME NEW n \in 1 .. N PROVE s[n] = t[n]
  <2>1. CASE n = 1
    BY <1>2, <1>7, <2>1
  <2>2. CASE n # 1
    <3>1. n \in 2 .. N
      BY <2>2
    <3> QED
      BY <1>3, <1>7, <3>1
  <2> QED
    BY <2>1, <2>2
<1> QED
  BY <1>8

\* Pairs, put together key by key, tell the pairs of each key.
LEMMA FlattenedApart ==
    ASSUME NEW R, NEW keys, NEW N \in Nat, Distinct(keys, N),
           NEW s \in Seq(Seq(R)), NEW t \in Seq(Seq(R)), Len(s) = N, Len(t) = N,
           \A n \in 1 .. N : AllOf(s[n], keys[n]), \A n \in 1 .. N : AllOf(t[n], keys[n]),
           FlattenSeq(s) = FlattenSeq(t)
    PROVE  s = t
<1>1. s \in [1 .. N -> Seq(R)] /\ t \in [1 .. N -> Seq(R)]
  OBVIOUS
<1>2. ASSUME NEW n \in 1 .. N PROVE s[n] = t[n]
  <2>1. s # <<>> /\ t # <<>> /\ N # 0
    OBVIOUS
  <2>2. PICK f \in [1 .. Len(s) -> Seq(R)] :
           /\ f[1] = s[1] /\ \A i \in 2 .. Len(s) : f[i] = f[i - 1] \o s[i]
           /\ FlattenSeq(s) = f[Len(s)]
    BY <2>1, Flattened
  <2>3. PICK g \in [1 .. Len(t) -> Seq(R)] :
           /\ g[1] = t[1] /\ \A i \in 2 .. Len(t) : g[i] = g[i - 1] \o t[i]
           /\ FlattenSeq(t) = g[Len(t)]
    BY <2>1, Flattened
  <2>4. f \in [1 .. N -> Seq(R)] /\ g \in [1 .. N -> Seq(R)]
    OBVIOUS
  <2>5. Joins(f, s, keys, N)
    BY <2>2 DEF Joins
  <2>6. Joins(g, t, keys, N)
    BY <2>3 DEF Joins
  <2>7. f[N] = g[N]
    BY <2>2, <2>3
  <2>8. s = t
    BY ONLY N \in Nat, Distinct(keys, N), <1>1, <2>1, <2>4, <2>5, <2>6, <2>7, EachTheSame
  <2> QED
    BY <2>8
<1>3. s \in Seq(Seq(R)) /\ t \in Seq(Seq(R)) /\ Len(s) = Len(t)
  OBVIOUS
<1>4. \A i \in 1 .. Len(s) : s[i] = t[i]
  BY <1>2
<1> QED
  BY ONLY <1>3, <1>4, SeqEqual

--------------------------------------------------------------------------------
(* The pairs of a query that is put together. *)

ValuesIn(R, V) == \A x \in R : x.value \in V

LEMMA PairsOfBoth ==
    ASSUME NEW R, NEW V, ValuesIn(R, V)
    PROVE  \A a, b \in Seq(R) : \A key :
              Pairs(a \o b, key) = Pairs(a, key) \o Pairs(b, key)
<1> TAKE a, b \in Seq(R)
<1> TAKE key
<1> DEFINE c == a \o b
           M == Len(a)
           N == Len(b)
           K == PairsIn(key, V)
<1>1. /\ M \in Nat /\ N \in Nat /\ Len(c) = M + N
      /\ \A i \in 1 .. M : c[i] = a[i] /\ a[i].value \in V
      /\ \A i \in 1 .. N : c[M + i] = b[i] /\ b[i].value \in V
  BY DEF ValuesIn
<1>2. \A i \in 1 .. M + N : c[i].value \in V
  <2>1. c \in Seq(R)
    OBVIOUS
  <2>2. \A i \in 1 .. Len(c) : c[i] \in R
    BY <2>1
  <2> QED
    BY <1>1, <2>2 DEF ValuesIn
<1>3. PICK f \in [0 .. M -> Seq(K)] : Selects(f, a, key) /\ Pairs(a, key) = f[M]
  BY <1>1, PairsFound
<1>4. PICK g \in [0 .. N -> Seq(K)] : Selects(g, b, key) /\ Pairs(b, key) = g[N]
  BY <1>1, PairsFound
<1> HIDE DEF c, M, N, K
<1>5. PICK h \in [0 .. M + N -> Seq(K)] : Selects(h, c, key) /\ Pairs(c, key) = h[M + N]
  <2>1. Len(c) \in Nat /\ \A i \in 1 .. Len(c) : c[i].value \in V
    BY <1>1, <1>2
  <2>2. \E x \in [0 .. Len(c) -> Seq(PairsIn(key, V))] :
            Selects(x, c, key) /\ Pairs(c, key) = x[Len(c)]
    BY ONLY <2>1, PairsFound
  <2> QED
    BY <1>1, <2>2 DEF K
<1>0. M \in Nat /\ N \in Nat
  BY <1>1
<1>6. \A n \in 1 .. M + N :
         h[n] = IF Selected(c[n], key) THEN Append(h[n - 1], QueryEscape(c[n])) ELSE h[n - 1]
  BY <1>1, <1>5 DEF Selects
<1> DEFINE S == {n \in Nat : n <= M => h[n] = f[n]}
<1>7. 0 \in S
  BY <1>3, <1>5 DEF Selects
<1>8. ASSUME NEW n \in Nat, n \in S PROVE n + 1 \in S
  <2> DEFINE m == n + 1
  <2>1. SUFFICES ASSUME m <= M PROVE h[m] = f[m]
    OBVIOUS
  <2>2. m \in 1 .. M /\ m \in 1 .. M + N /\ m - 1 = n /\ n <= M
    BY ONLY n \in Nat, <1>0, <2>1
  <2>3. h[m - 1] = f[m - 1] /\ c[m] = a[m]
    BY <1>1, <1>8, <2>2
  <2> HIDE DEF m
  <2>4. f[m] = IF Selected(a[m], key) THEN Append(f[m - 1], QueryEscape(a[m])) ELSE f[m - 1]
    BY <1>3, <2>2 DEF Selects, M
  <2> QED
    BY <1>6, <2>2, <2>3, <2>4
<1>9. \A n \in Nat : n \in S
  <2> HIDE DEF S
  <2> QED
    BY <1>7, <1>8, InductionOn
<1>10. h[M] = f[M]
  BY <1>1, <1>9
<1> DEFINE Both(n) == h[M + n] = f[M] \o g[n]
           T == {n \in Nat : n <= N => Both(n)}
<1>11. f[M] \in Seq(K) /\ \A n \in 0 .. N : g[n] \in Seq(K)
  BY <1>1, <1>3, <1>4
<1>12. 0 \in T
  <2>1. g[0] = <<>> /\ M + 0 = M
    BY <1>1, <1>4 DEF Selects
  <2>2. f[M] \o <<>> = f[M]
    BY ONLY <1>11, ConcatEmptySeq
  <2> QED
    BY <1>10, <2>1, <2>2
<1>13. ASSUME NEW n \in Nat, n \in T PROVE n + 1 \in T
  <2> DEFINE m == n + 1
             l == M + m
  <2> HIDE DEF S
  <2>1. SUFFICES ASSUME m <= N PROVE h[l] = f[M] \o g[m]
    <3> HIDE DEF Both
    <3>1. ASSUME m <= N PROVE Both(m)
      BY <3>1 DEF Both
    <3> QED
      BY <3>1
  <2>2. m \in 1 .. N /\ l \in 1 .. M + N /\ m - 1 = n /\ l - 1 = M + n /\ n \in 0 .. N
        /\ n <= N
    BY ONLY n \in Nat, <1>0, <2>1
  <2>3. h[M + n] = f[M] \o g[n] /\ c[M + m] = b[m]
    BY <1>1, <1>13, <2>2
  <2>4. g[m - 1] \in Seq(K)
    BY <1>11, <2>2
  <2>9. h[l - 1] = f[M] \o g[m - 1] /\ c[l] = b[m]
    BY <2>2, <2>3
  <2> HIDE DEF m, l, T
  <2>5. g[m] = IF Selected(b[m], key) THEN Append(g[m - 1], QueryEscape(b[m])) ELSE g[m - 1]
    BY <1>4, <2>2 DEF Selects, N
  <2>6. h[l] = IF Selected(c[l], key) THEN Append(h[l - 1], QueryEscape(c[l])) ELSE h[l - 1]
    BY <1>6, <2>2
  <2>7. CASE ~Selected(b[m], key)
    BY <2>9, <2>5, <2>6, <2>7
  <2>8. CASE Selected(b[m], key)
    <3> DEFINE e == QueryEscape(b[m])
               x == f[M]
               y == g[m - 1]
    <3>1. e \in K
      BY <1>1, <2>2, <2>8 DEF QueryEscape, Selected, PairsIn, K
    <3>2. h[l] = Append(x \o y, e) /\ g[m] = Append(y, e)
      BY <2>9, <2>5, <2>6, <2>8
    <3> HIDE DEF e, x, y
    <3>3. x \in Seq(K) /\ y \in Seq(K)
      BY <1>11, <2>4 DEF x, y
    <3>4. Append(x \o y, e) = x \o Append(y, e)
      <4>1. x \o y \in Seq(K) /\ <<e>> \in Seq(K)
        BY ONLY <3>1, <3>3
      <4>2. Append(x \o y, e) = (x \o y) \o <<e>> /\ Append(y, e) = y \o <<e>>
        BY ONLY <3>1, <3>3, <4>1, AppendIsConcat
      <4>3. (x \o y) \o <<e>> = x \o (y \o <<e>>)
        BY ONLY <3>3, <4>1, ConcatAssociative
      <4> QED
        BY <4>2, <4>3
    <3> QED
      BY <3>2, <3>4 DEF x
  <2> QED
    BY <2>7, <2>8
<1>14. \A n \in Nat : n \in T
  <2> HIDE DEF T
  <2> QED
    BY <1>12, <1>13, InductionOn
<1>15. h[M + N] = f[M] \o g[N]
  <2> HIDE DEF S
  <2> HIDE DEF Both
  <2>1. N \in T
    BY <1>0, <1>14
  <2>2. Both(N)
    BY <1>0, <2>1
  <2> QED
    BY <2>2 DEF Both
<1> QED
  BY <1>3, <1>4, <1>5, <1>15 DEF c

LEMMA PairsOfNone ==
    ASSUME NEW R, NEW V, ValuesIn(R, V),
           NEW a \in Seq(R), NEW key, NoneOf(a, key)
    PROVE  Pairs(a, key) = <<>>
<1> DEFINE N == Len(a)
<1>1. N \in Nat /\ \A i \in 1 .. N : a[i].value \in V
  BY DEF ValuesIn
<1>2. PICK f \in [0 .. N -> Seq(PairsIn(key, V))] : Selects(f, a, key) /\ Pairs(a, key) = f[N]
  BY <1>1, PairsFound
<1>3. \A n \in 1 .. N : f[n] = f[n - 1]
  BY <1>2 DEF Selects, Selected, NoneOf
<1> HIDE DEF N
<1> DEFINE S == {n \in Nat : n <= N => f[n] = <<>>}
<1>4. 0 \in S
  BY <1>2 DEF Selects
<1>5. ASSUME NEW n \in Nat, n \in S PROVE n + 1 \in S
  <2>1. SUFFICES ASSUME n + 1 <= N PROVE f[n + 1] = <<>>
    OBVIOUS
  <2>2. n + 1 \in 1 .. N /\ (n + 1) - 1 = n /\ f[n] = <<>>
    BY <1>1, <1>5, <2>1
  <2> QED
    BY <1>3, <2>2
<1>6. \A n \in Nat : n \in S
  <2> HIDE DEF S
  <2> QED
    BY <1>4, <1>5, InductionOn
<1> QED
  BY <1>1, <1>2, <1>6

LEMMA PairsOfAll ==
    ASSUME NEW key, NEW V, NEW a \in Seq(PairsIn(key, V))
    PROVE  Pairs(a, key) = a
<1> DEFINE N == Len(a)
           K == PairsIn(key, V)
<1>1. N \in Nat /\ \A i \in 1 .. N : a[i] \in K
  OBVIOUS
<1>2. ASSUME NEW x \in K
      PROVE  x.value \in V /\ Selected(x, key) /\ QueryEscape(x) = x
  <2>1. x = [key |-> key, value |-> x.value, escapes |-> FALSE, semicolon |-> FALSE]
        /\ x.value \in V /\ x.key = key /\ x.semicolon = FALSE
    BY DEF PairsIn
  <2> QED
    BY <2>1 DEF Selected, QueryEscape
<1>3. \A i \in 1 .. N : a[i].value \in V
  BY <1>1, <1>2
<1>4. PICK f \in [0 .. N -> Seq(K)] : Selects(f, a, key) /\ Pairs(a, key) = f[N]
  BY <1>1, <1>3, PairsFound
<1>5. \A n \in 1 .. N : f[n] = Append(f[n - 1], a[n])
  BY <1>1, <1>2, <1>4 DEF Selects
<1> HIDE DEF K
<1> DEFINE S == {n \in Nat : n <= N => f[n] = SubSeq(a, 1, n)}
<1>6. 0 \in S
  BY <1>4 DEF Selects
<1>7. ASSUME NEW n \in Nat, n \in S PROVE n + 1 \in S
  <2>1. SUFFICES ASSUME n + 1 <= N PROVE f[n + 1] = SubSeq(a, 1, n + 1)
    OBVIOUS
  <2>2. n + 1 \in 1 .. N /\ (n + 1) - 1 = n /\ f[n] = SubSeq(a, 1, n)
    BY <1>1, <1>7, <2>1
  <2>3. Append(SubSeq(a, 1, n), a[n + 1]) = SubSeq(a, 1, n + 1)
    BY <2>2, a \in Seq(K) DEF K
  <2> QED
    BY <1>5, <2>2, <2>3
<1>8. \A n \in Nat : n \in S
  <2> HIDE DEF S
  <2> QED
    BY <1>6, <1>7, InductionOn
<1>9. f[N] = SubSeq(a, 1, N)
  BY <1>1, <1>8
<1> QED
  BY <1>4, <1>9

KeyByKey(s, keys, N, V) == \A n \in 1 .. N : s[n] \in Seq(PairsIn(keys[n], V))

\* Pairs put together key by key are found again by their keys.
LEMMA FoundAgain ==
    ASSUME NEW R, NEW V, ValuesIn(R, V),
           NEW keys, NEW N \in Nat, Distinct(keys, N),
           NEW s \in Seq(Seq(R)), Len(s) = N, KeyByKey(s, keys, N, V),
           NEW m \in 1 .. N
    PROVE  Pairs(FlattenSeq(s), keys[m]) = s[m]
<1>0. \A n \in 1 .. N : s[n] \in Seq(PairsIn(keys[n], V))
  BY DEF KeyByKey
<1>1. s # <<>> /\ N # 0
  OBVIOUS
<1>2. PICK f \in [1 .. N -> Seq(R)] :
         /\ f[1] = s[1] /\ \A i \in 2 .. N : f[i] = f[i - 1] \o s[i]
         /\ FlattenSeq(s) = f[N]
  BY <1>1, Flattened
<1>3. \A n \in 1 .. N : s[n] \in Seq(R)
  OBVIOUS
<1>4. ASSUME NEW n \in 1 .. N
      PROVE  Pairs(s[n], keys[m]) = IF n = m THEN s[m] ELSE <<>>
  <2>1. CASE n = m
    <3>1. s[m] \in Seq(PairsIn(keys[m], V))
      BY <1>0
    <3>2. Pairs(s[m], keys[m]) = s[m]
      BY ONLY <3>1, PairsOfAll
    <3> QED
      BY <2>1, <3>2
  <2>2. CASE n # m
    <3>1. keys[n] # keys[m]
      BY <2>2 DEF Distinct
    <3>2. \A j \in 1 .. Len(s[n]) : s[n][j] \in PairsIn(keys[n], V)
      BY <1>0
    <3>3. NoneOf(s[n], keys[m])
      BY <3>1, <3>2 DEF NoneOf, PairsIn
    <3>4. s[n] \in Seq(R)
      BY <1>3
    <3>5. Pairs(s[n], keys[m]) = <<>>
      BY ONLY ValuesIn(R, V), <3>3, <3>4, PairsOfNone
    <3> QED
      BY <2>2, <3>5
  <2> QED
    BY <2>1, <2>2
<1>9. \A a, b \in Seq(R) : Pairs(a \o b, keys[m]) = Pairs(a, keys[m]) \o Pairs(b, keys[m])
  BY ONLY ValuesIn(R, V), PairsOfBoth
<1> DEFINE Right(n) == Pairs(f[n], keys[m]) = IF m <= n THEN s[m] ELSE <<>>
           S == {n \in Nat : n + 1 <= N => Right(n + 1)}
<1>5. 0 \in S
  <2>1. 1 \in 1 .. N /\ f[1] = s[1] /\ 0 + 1 = 1 /\ (m <= 1 <=> m = 1)
    BY <1>1, <1>2
  <2> QED
    BY <1>4, <2>1
<1>6. ASSUME NEW n \in Nat, n \in S PROVE n + 1 \in S
  <2> DEFINE l == n + 1
             k == l + 1
  <2>1. SUFFICES ASSUME k <= N PROVE Right(k)
    OBVIOUS
  <2>2. l \in 1 .. N /\ k \in 2 .. N /\ k \in 1 .. N /\ k - 1 = l /\ l <= N
        /\ (m <= k <=> m <= l \/ m = k) /\ ~ (m <= l /\ m = k)
    BY <2>1
  <2>3. Right(l)
    BY <1>6, <2>2
  <2> HIDE DEF l, k, S
  <2>4. f[k] = f[l] \o s[k]
    BY <1>2, <2>2
  <2>5. f[l] \in Seq(R) /\ s[k] \in Seq(R) /\ s[m] \in Seq(R)
    BY <1>2, <1>3, <2>2
  <2>6. Pairs(f[k], keys[m]) = Pairs(f[l], keys[m]) \o Pairs(s[k], keys[m])
    BY <1>9, <2>4, <2>5
  <2>7. Pairs(s[k], keys[m]) = IF k = m THEN s[m] ELSE <<>>
    BY <1>4, <2>2
  <2>8. s[m] \o <<>> = s[m] /\ <<>> \o s[m] = s[m] /\ <<>> \o <<>> = <<>>
    BY <2>5, ConcatEmptySeq
  <2> QED
    BY <2>2, <2>3, <2>4, <2>6, <2>7, <2>8
<1>7. \A n \in Nat : n \in S
  <2> HIDE DEF S
  <2> QED
    BY <1>5, <1>6, InductionOn
<1>8. Right(N)
  <2> DEFINE k == N - 1
  <2>1. k \in Nat /\ k + 1 = N
    BY <1>1
  <2>2. k \in S
    BY <1>7, <2>1
  <2> HIDE DEF k, Right
  <2>3. k + 1 <= N => Right(k + 1)
    BY <2>2
  <2>4. k + 1 <= N
    BY <2>1
  <2> QED
    BY <2>1, <2>3, <2>4, Zenon
<1> QED
  BY <1>2, <1>8

--------------------------------------------------------------------------------
(* Canonical urls. *)

LEMMA KeptPairs ==
    ASSUME NEW url, IsUrl(url), NEW filter, NEW key, NEW V,
           \A i \in 1 .. Len(url.query) : url.query[i].value \in V
    PROVE  Kept(url, filter, key) \in Seq(PairsIn(key, V))
<1>1. Pairs(url.query, key) \in Seq(PairsIn(key, V))
  BY PairsOfTheKey DEF IsUrl
<1> QED
  BY <1>1 DEF Kept

\* Pairs of one key are told by their values.
LEMMA ValuesTellPairs ==
    ASSUME NEW key, NEW V, NEW s \in Seq(PairsIn(key, V)), NEW t \in Seq(PairsIn(key, V)),
           [i \in DOMAIN s |-> s[i].value] = [i \in DOMAIN t |-> t[i].value]
    PROVE  s = t
<1>1. DOMAIN s = 1 .. Len(s) /\ DOMAIN t = 1 .. Len(t) /\ Len(s) \in Nat /\ Len(t) \in Nat
  OBVIOUS
<1>2. DOMAIN s = DOMAIN t
  OBVIOUS
<1>3. Len(s) = Len(t)
  <2>1. ASSUME NEW m \in Nat, NEW n \in Nat, 1 .. m = 1 .. n PROVE m = n
    <3>1. m < n => n \in 1 .. n /\ n \notin 1 .. m
      OBVIOUS
    <3>2. n < m => m \in 1 .. m /\ m \notin 1 .. n
      OBVIOUS
    <3> QED
      BY <2>1, <3>1, <3>2
  <2> QED
    BY <1>1, <1>2, <2>1
<1>4. ASSUME NEW i \in 1 .. Len(s) PROVE s[i] = t[i]
  <2> DEFINE x == s[i]
             y == t[i]
  <2>1. x \in PairsIn(key, V) /\ y \in PairsIn(key, V)
    BY <1>3
  <2>2. x.value = y.value
    BY <1>1, <1>2
  <2> HIDE DEF x, y
  <2>3. /\ x = [key |-> key, value |-> x.value, escapes |-> FALSE, semicolon |-> FALSE]
        /\ y = [key |-> key, value |-> y.value, escapes |-> FALSE, semicolon |-> FALSE]
    BY ONLY <2>1 DEF PairsIn
  <2>4. x = y
    BY ONLY <2>2, <2>3
  <2> QED
    BY <2>4 DEF x, y
<1> QED
  BY ONLY s \in Seq(PairsIn(key, V)), t \in Seq(PairsIn(key, V)), <1>3, <1>4, SeqEqual

\* Two urls become the same where they differ at most in the query, and the pairs kept
\* of each key are the same, in order; and only then.
LEMMA CanonicalUrls ==
    ASSUME IsInjective(SortedKeys), SortedKeys \in Seq(ToSet(SortedKeys)),
           NEW u, NEW v, IsUrl(u), IsUrl(v),
           NEW f, NEW g, f # {}, g # {}
    PROVE  FilterQueryParams(u, f) = FilterQueryParams(v, g)
             <=> /\ [u EXCEPT !.query = <<>>] = [v EXCEPT !.query = <<>>]
                 /\ \A key \in ToSet(SortedKeys) : Kept(u, f, key) = Kept(v, g, key)
<1> DEFINE N == Len(SortedKeys)
           V == {u.query[i].value : i \in 1 .. Len(u.query)}
                  \cup {v.query[i].value : i \in 1 .. Len(v.query)}
           R == [key : ToSet(SortedKeys), value : V, escapes : {FALSE}, semicolon : {FALSE}]
           s == [i \in DOMAIN SortedKeys |-> Kept(u, f, SortedKeys[i])]
           t == [i \in DOMAIN SortedKeys |-> Kept(v, g, SortedKeys[i])]
<1>1. N \in Nat /\ DOMAIN SortedKeys = 1 .. N /\ \A i \in 1 .. N : SortedKeys[i] \in ToSet(SortedKeys)
  OBVIOUS
<1>2. \A i \in 1 .. N : /\ Kept(u, f, SortedKeys[i]) \in Seq(PairsIn(SortedKeys[i], V))
                        /\ Kept(v, g, SortedKeys[i]) \in Seq(PairsIn(SortedKeys[i], V))
  BY KeptPairs
<1>3. ASSUME NEW i \in 1 .. N, NEW k \in Seq(PairsIn(SortedKeys[i], V))
      PROVE  k \in Seq(R) /\ AllOf(k, SortedKeys[i])
  <2>1. PairsIn(SortedKeys[i], V) \subseteq R
    BY <1>1 DEF PairsIn
  <2>2. k \in Seq(R)
    <3> HIDE DEF R
    <3> QED
      BY ONLY k \in Seq(PairsIn(SortedKeys[i], V)), <2>1, SeqMonotonic
  <2>3. \A j \in 1 .. Len(k) : k[j] \in PairsIn(SortedKeys[i], V)
    OBVIOUS
  <2> QED
    BY <2>2, <2>3 DEF PairsIn, AllOf
<1>4. \A i \in 1 .. N : /\ s[i] \in Seq(R) /\ AllOf(s[i], SortedKeys[i])
                        /\ t[i] \in Seq(R) /\ AllOf(t[i], SortedKeys[i])
  <2> HIDE DEF R, V, N
  <2> QED
    BY <1>1, <1>2, <1>3
<1>5. s \in Seq(Seq(R)) /\ t \in Seq(Seq(R)) /\ Len(s) = N /\ Len(t) = N
  <2> HIDE DEF R, V, N
  <2> QED
    BY <1>1, <1>4
<1>6. Distinct(SortedKeys, N)
  BY <1>1 DEF Distinct, IsInjective
<1>7. FlattenSeq(s) = FlattenSeq(t) <=> s = t
  <2> HIDE DEF s, t, R, N
  <2> QED
    BY <1>1, <1>4, <1>5, <1>6, FlattenedApart
<1>8. s = t <=> \A key \in ToSet(SortedKeys) : Kept(u, f, key) = Kept(v, g, key)
  BY <1>1 DEF ToSet
<1>9. /\ FilterQueryParams(u, f) = [u EXCEPT !.query = FlattenSeq(s)]
      /\ FilterQueryParams(v, g) = [v EXCEPT !.query = FlattenSeq(t)]
  <2> HIDE DEF s, t
  <2>1. Written(u, FlattenSeq(s)) = [u EXCEPT !.query = FlattenSeq(s)]
    BY DEF Written, Parsed, HasEmptyPath, IsUrl
  <2>2. Written(v, FlattenSeq(t)) = [v EXCEPT !.query = FlattenSeq(t)]
    BY DEF Written, Parsed, HasEmptyPath, IsUrl
  <2> QED
    BY <2>1, <2>2 DEF FilterQueryParams, s, t
<1>10. ASSUME NEW x, NEW y
       PROVE  [u EXCEPT !.query = x] = [v EXCEPT !.query = y]
                <=> x = y /\ [u EXCEPT !.query = <<>>] = [v EXCEPT !.query = <<>>]
  BY DEF IsUrl
<1> QED
  BY <1>7, <1>8, <1>9, <1>10

Flat(url, filter) ==
    FlattenSeq([i \in DOMAIN SortedKeys |-> Kept(url, filter, SortedKeys[i])])

LEMMA FilteredUrl ==
    ASSUME NEW u, IsUrl(u), NEW f, f # {}
    PROVE  /\ FilterQueryParams(u, f) = [u EXCEPT !.query = Flat(u, f)]
           /\ FilterQueryParams(u, f).query = Flat(u, f)
<1>1. Written(u, Flat(u, f)) = [u EXCEPT !.query = Flat(u, f)]
  BY DEF Written, Parsed, HasEmptyPath, IsUrl
<1>2. FilterQueryParams(u, f) = Written(u, Flat(u, f))
  BY DEF FilterQueryParams, Flat
<1>3. [u EXCEPT !.query = Flat(u, f)].query = Flat(u, f)
  BY DEF IsUrl
<1> QED
  BY <1>1, <1>2, <1>3

\* The pairs that are kept of a url are all there are in its canonical form.
LEMMA KeptAreThere ==
    ASSUME NEW u, IsUrl(u), NEW f, f # {}
    PROVE  /\ \A key \in ToSet(SortedKeys) :
                 Pairs(FilterQueryParams(u, f).query, key) = Kept(u, f, key)
           /\ Sorted(FilterQueryParams(u, f))
           /\ Len(FilterQueryParams(u, f).query) \in Nat
<1> DEFINE N == Len(SortedKeys)
           V == {u.query[i].value : i \in 1 .. Len(u.query)}
           R == [key : ToSet(SortedKeys), value : V, escapes : {FALSE}, semicolon : {FALSE}]
           s == [i \in DOMAIN SortedKeys |-> Kept(u, f, SortedKeys[i])]
           query == FilterQueryParams(u, f).query
<1>1. /\ SortedKeys \in Seq(ToSet(SortedKeys)) /\ IsInjective(SortedKeys)
  BY KeysAssumption DEF KeysAssumption
<1>2. N \in Nat /\ DOMAIN SortedKeys = 1 .. N
      /\ \A i \in 1 .. N : SortedKeys[i] \in ToSet(SortedKeys)
  BY <1>1
<1>3. Distinct(SortedKeys, N)
  BY <1>1, <1>2 DEF Distinct, IsInjective
<1>4. \A i \in 1 .. N : s[i] \in Seq(PairsIn(SortedKeys[i], V))
  BY <1>2, KeptPairs
<1>12. KeyByKey(s, SortedKeys, N, V)
  BY <1>4 DEF KeyByKey
<1>5. ASSUME NEW i \in 1 .. N PROVE s[i] \in Seq(R)
  <2>1. PairsIn(SortedKeys[i], V) \subseteq R
    BY <1>2 DEF PairsIn
  <2>2. s[i] \in Seq(PairsIn(SortedKeys[i], V))
    BY <1>4
  <2> HIDE DEF R, s, V, N
  <2> QED
    BY ONLY <2>1, <2>2, SeqMonotonic
<1>6. s \in Seq(Seq(R)) /\ Len(s) = N
  <2> HIDE DEF R, V
  <2>1. s = [i \in 1 .. N |-> s[i]]
    BY <1>2
  <2> HIDE DEF s, N
  <2> QED
    BY <1>2, <1>5, <2>1
<1>7. ValuesIn(R, V)
  BY DEF ValuesIn
<1>8. query = FlattenSeq(s)
  BY FilteredUrl DEF Flat
<1> HIDE DEF s, R, V, query
<1>9. ASSUME NEW i \in 1 .. N PROVE Pairs(query, SortedKeys[i]) = s[i]
  <2>1. N \in Nat /\ s \in Seq(Seq(R)) /\ Len(s) = N
    BY <1>2, <1>6
  <2> HIDE DEF N
  <2>2. Pairs(FlattenSeq(s), SortedKeys[i]) = s[i]
    BY ONLY i \in 1 .. N, <1>3, <1>12, <1>7, <2>1, FoundAgain
  <2> QED
    BY <1>8, <2>2
<1>10. ASSUME NEW key \in ToSet(SortedKeys) PROVE Pairs(query, key) = Kept(u, f, key)
  <2>1. PICK i \in 1 .. N : key = SortedKeys[i]
    BY <1>2 DEF ToSet
  <2>2. s[i] = Kept(u, f, SortedKeys[i])
    BY <1>2 DEF s
  <2> QED
    BY <1>9, <2>1, <2>2
<1>11. s = [i \in DOMAIN SortedKeys |-> Pairs(query, SortedKeys[i])]
  <2>1. \A i \in DOMAIN SortedKeys : s[i] = Pairs(query, SortedKeys[i])
    BY <1>2, <1>9
  <2> QED
    BY <2>1 DEF s
<1>13. Len(query) \in Nat
  <2>1. CASE s = <<>>
    <3>1. FlattenSeq(s) = <<>>
      BY <2>1 DEF FlattenSeq
    <3> QED
      BY <1>8, <3>1
  <2>2. CASE s # <<>>
    <3>1. PICK g \in [1 .. Len(s) -> Seq(R)] : FlattenSeq(s) = g[Len(s)]
      BY <1>6, <2>2, Flattened
    <3>2. Len(s) \in 1 .. Len(s)
      BY <1>2, <1>6, <2>2
    <3>3. query \in Seq(R)
      BY <1>8, <3>1, <3>2
    <3> QED
      BY <3>3
  <2> QED
    BY <2>1, <2>2
<1> QED
  BY <1>8, <1>10, <1>11, <1>13 DEF Sorted, query

\* A url that was filtered is not changed by filtering it again (url.rs:29-58): callers
\* may ask for a url or for what it comes to.
THEOREM FilteredOnce ==
    ASSUME NEW u, IsUrl(u), NEW f
    PROVE  FilterQueryParams(FilterQueryParams(u, f), f) = FilterQueryParams(u, f)
<1>1. CASE f = {}
  BY <1>1 DEF FilterQueryParams
<1>2. CASE f # {}
  <2> DEFINE c == FilterQueryParams(u, f)
             s == [i \in DOMAIN SortedKeys |-> Kept(u, f, SortedKeys[i])]
             t == [i \in DOMAIN SortedKeys |-> Kept(c, f, SortedKeys[i])]
  <2>1. ASSUME NEW i \in DOMAIN SortedKeys
        PROVE  Kept(c, f, SortedKeys[i]) = Kept(u, f, SortedKeys[i])
    <3>1. SortedKeys[i] \in ToSet(SortedKeys)
      BY DEF ToSet
    <3>2. Pairs(c.query, SortedKeys[i]) = Kept(u, f, SortedKeys[i])
      BY <1>2, <3>1, KeptAreThere
    <3> QED
      BY <3>2 DEF Kept
  <2>2. s = t
    BY <2>1
  <2>6. IsUrl(c)
    <3>1. c = [u EXCEPT !.query = Flat(u, f)] /\ c.query = Flat(u, f)
      BY <1>2, FilteredUrl
    <3>2. Len(c.query) \in Nat
      BY <1>2, KeptAreThere
    <3> HIDE DEF c
    <3>3. c = [form |-> c.form, host |-> c.host, kind |-> c.kind, ref |-> c.ref,
               query |-> c.query]
      BY <3>1 DEF IsUrl
    <3> QED
      BY <3>2, <3>3 DEF IsUrl
  <2>3. FilterQueryParams(c, f) = [c EXCEPT !.query = FlattenSeq(t)]
    BY <1>2, <2>6, FilteredUrl DEF Flat
  <2>4. c = [u EXCEPT !.query = FlattenSeq(s)]
    BY <1>2, FilteredUrl DEF Flat
  <2> HIDE DEF c, s, t
  <2>5. [c EXCEPT !.query = FlattenSeq(s)] = c
    BY <2>4
  <2> QED
    BY <2>2, <2>3, <2>5 DEF c
<1> QED
  BY <1>1, <1>2

--------------------------------------------------------------------------------
(* Ids and files. *)

Canonical(p) == FilterQueryParams(p.url, p.filter)

Base(url) == [url EXCEPT !.query = <<>>]

ValuesOf(p) ==
    [key \in ToSet(SortedKeys) |->
        [i \in DOMAIN Kept(p.url, p.filter, key) |-> Kept(p.url, p.filter, key)[i].value]]

\* A query that stays as it is and is not sorted.
Odd(p) == IF p.filter = {} /\ ~Sorted(p.url) THEN <<p.url.query>> ELSE <<>>

\* An id is the text it comes to.
LEMMA IdIsItsText ==
    ASSUME NEW p, TaskOf(p) # NoTask
    PROVE  TaskOf(p) = Text(p)
<1>1. TakenOf(p) \in {"content", "digest", "url"}
  BY DEF TakenOf
<1>2. CASE TakenOf(p) = "content"
  BY <1>2 DEF TaskOf, TaskID, Text
<1>3. CASE TakenOf(p) = "digest"
  BY <1>3 DEF TaskOf, TaskID, Text, Encoded
<1>4. CASE TakenOf(p) = "url"
  BY <1>4 DEF TaskOf, TaskID, Text
<1> QED
  BY <1>1, <1>2, <1>3, <1>4

\* The same parts come to the same text.
LEMMA SpelledTellsText ==
    ASSUME NEW p, NEW q, Spelled(p) = Spelled(q)
    PROVE  Text(p) = Text(q)
<1>1. ASSUME NEW r
      PROVE  TakenOf(r) \in {"content", "digest", "url"} /\ Spelled(r)[1] = TakenOf(r)
  <2>1. TakenOf(r) \in {"content", "digest", "url"}
    BY DEF TakenOf
  <2>2. CASE TakenOf(r) = "content"
    BY <2>2 DEF Spelled
  <2>3. CASE TakenOf(r) = "digest"
    BY <2>3 DEF Spelled
  <2>4. CASE TakenOf(r) = "url"
    BY <2>4 DEF Spelled
  <2> QED
    BY <2>1, <2>2, <2>3, <2>4
<1>2. TakenOf(p) = TakenOf(q)
  BY <1>1
<1>3. CASE TakenOf(p) = "content"
  BY <1>2, <1>3 DEF Spelled, Text
<1>4. CASE TakenOf(p) = "digest"
  BY <1>2, <1>4 DEF Spelled, Text
<1>5. CASE TakenOf(p) = "url"
  <2>1. /\ Canonical(p) = Canonical(q) /\ p.tag = q.tag
        /\ p.application = q.application /\ p.piece = q.piece
    BY <1>2, <1>5 DEF Spelled, Canonical
  <2> QED
    BY <1>2, <1>5, <2>1 DEF Text, Canonical
<1> QED
  BY <1>1, <1>3, <1>4, <1>5

LEMMA IdentityOfTheUrl ==
    ASSUME NEW p, TakenOf(p) = "url"
    PROVE  Identity(p) = <<"url", Base(p.url), ValuesOf(p), Odd(p), p.tag, p.application,
                           p.piece>>
BY DEF TakenOf, Identity, ValuesOf, IsBlobUrl, IsManifestDigestUrl, Base, Odd

LEMMA IdentityOfElse ==
    ASSUME NEW p, TakenOf(p) # "url", TaskOf(p) # NoTask
    PROVE  Identity(p) = Spelled(p) /\ Spelled(p)[1] \in {"content", "digest"}
<1>1. CASE TakenOf(p) = "content"
  BY <1>1 DEF TakenOf, Identity, Spelled
<1>2. CASE TakenOf(p) = "digest"
  <2>1. p.content = <<>> /\ p.by_digest /\ p.url.kind \in {"blobs", "manifests"}
    BY <1>2 DEF TakenOf, IsBlobUrl, IsManifestDigestUrl
  <2>2. IsDigest(p.url.ref)
    BY <1>2 DEF TaskOf, TaskID
  <2> QED
    BY <1>2, <2>1, <2>2 DEF Identity, Spelled
<1>3. TakenOf(p) \in {"content", "digest", "url"}
  BY DEF TakenOf
<1> QED
  BY <1>1, <1>2, <1>3

\* The same values are left if and only if the same pairs are.
LEMMA ValuesTellKept ==
    ASSUME NEW p, NEW q, IsUrl(p.url), IsUrl(q.url)
    PROVE  ValuesOf(p) = ValuesOf(q) <=>
             \A key \in ToSet(SortedKeys) :
                Kept(p.url, p.filter, key) = Kept(q.url, q.filter, key)
<1> DEFINE V == {p.url.query[i].value : i \in 1 .. Len(p.url.query)}
                  \cup {q.url.query[i].value : i \in 1 .. Len(q.url.query)}
<1>1. \A key : /\ Kept(p.url, p.filter, key) \in Seq(PairsIn(key, V))
               /\ Kept(q.url, q.filter, key) \in Seq(PairsIn(key, V))
  BY KeptPairs
<1>2. ASSUME ValuesOf(p) = ValuesOf(q), NEW key \in ToSet(SortedKeys)
      PROVE  Kept(p.url, p.filter, key) = Kept(q.url, q.filter, key)
  <2> DEFINE s == Kept(p.url, p.filter, key)
             t == Kept(q.url, q.filter, key)
  <2>1. ValuesOf(p)[key] = [i \in DOMAIN s |-> s[i].value]
    BY DEF ValuesOf
  <2>2. ValuesOf(q)[key] = [i \in DOMAIN t |-> t[i].value]
    BY DEF ValuesOf
  <2>3. s \in Seq(PairsIn(key, V)) /\ t \in Seq(PairsIn(key, V))
    BY <1>1
  <2>4. [i \in DOMAIN s |-> s[i].value] = [i \in DOMAIN t |-> t[i].value]
    BY <1>2, <2>1, <2>2
  <2> HIDE DEF s, t, V
  <2>5. s = t
    BY ONLY <2>3, <2>4, ValuesTellPairs
  <2> QED
    BY <2>5 DEF s, t
<1>3. ASSUME \A key \in ToSet(SortedKeys) :
                Kept(p.url, p.filter, key) = Kept(q.url, q.filter, key)
      PROVE  ValuesOf(p) = ValuesOf(q)
  BY <1>3 DEF ValuesOf
<1> QED
  BY <1>2, <1>3

\* Canonical urls are the same if and only if the urls are the same file's.
LEMMA SameCanonical ==
    ASSUME NEW p, NEW q, IsUrl(p.url), IsUrl(q.url)
    PROVE  Canonical(p) = Canonical(q)
             <=> Base(p.url) = Base(q.url) /\ ValuesOf(p) = ValuesOf(q) /\ Odd(p) = Odd(q)
<1>1. CASE p.filter # {} /\ q.filter # {}
  <2>1. Canonical(p) = Canonical(q) <=> Base(p.url) = Base(q.url) /\ ValuesOf(p) = ValuesOf(q)
    BY <1>1, CanonicalUrls, ValuesTellKept, KeysAssumption DEF Base, Canonical
  <2>2. Odd(p) = <<>> /\ Odd(q) = <<>>
    BY <1>1 DEF Odd
  <2> QED
    BY <2>1, <2>2
<1>2. ASSUME NEW r, r.filter = {}, IsUrl(r.url)
      PROVE  /\ Canonical(r) = r.url
             /\ \A key \in ToSet(SortedKeys) : Kept(r.url, r.filter, key) = Pairs(r.url.query, key)
             /\ Sorted(r.url) => r.url.query = Flat(r.url, r.filter)
  <2>1. \A key : Kept(r.url, r.filter, key) = Pairs(r.url.query, key)
    BY <1>2 DEF Kept
  <2>2. [i \in DOMAIN SortedKeys |-> Kept(r.url, r.filter, SortedKeys[i])]
          = [i \in DOMAIN SortedKeys |-> Pairs(r.url.query, SortedKeys[i])]
    BY <2>1
  <2> QED
    BY <1>2, <2>1, <2>2 DEF Canonical, FilterQueryParams, Sorted, Flat
<1>3. ASSUME ValuesOf(p) = ValuesOf(q)
      PROVE  Flat(p.url, p.filter) = Flat(q.url, q.filter)
  <2>1. \A i \in DOMAIN SortedKeys :
           Kept(p.url, p.filter, SortedKeys[i]) = Kept(q.url, q.filter, SortedKeys[i])
    BY <1>3, ValuesTellKept DEF ToSet
  <2>2. [i \in DOMAIN SortedKeys |-> Kept(p.url, p.filter, SortedKeys[i])]
          = [i \in DOMAIN SortedKeys |-> Kept(q.url, q.filter, SortedKeys[i])]
    BY <2>1
  <2> QED
    BY <2>2 DEF Flat
<1>4. ASSUME NEW u, NEW v, IsUrl(u), IsUrl(v), Base(u) = Base(v), u.query = v.query
      PROVE  u = v
  BY <1>4 DEF Base, IsUrl
<1>5. CASE p.filter = {} /\ q.filter = {}
  <2>1. Canonical(p) = p.url /\ Canonical(q) = q.url
    BY <1>2, <1>5
  <2>2. p.url = q.url => Base(p.url) = Base(q.url) /\ ValuesOf(p) = ValuesOf(q) /\ Odd(p) = Odd(q)
    BY <1>5 DEF ValuesOf, Odd
  <2>3. ASSUME Base(p.url) = Base(q.url), ValuesOf(p) = ValuesOf(q), Odd(p) = Odd(q)
        PROVE  p.url = q.url
    <3>1. CASE Sorted(p.url) /\ Sorted(q.url)
      <4>1. p.url.query = q.url.query
        BY <1>2, <1>3, <1>5, <2>3, <3>1
      <4> QED
        BY <1>4, <2>3, <4>1
    <3>2. CASE ~Sorted(p.url) /\ ~Sorted(q.url)
      <4>1. p.url.query = q.url.query
        BY <1>5, <2>3, <3>2 DEF Odd
      <4> QED
        BY <1>4, <2>3, <4>1
    <3>3. (Sorted(p.url) <=> Sorted(q.url))
      BY <1>5, <2>3 DEF Odd
    <3> QED
      BY <3>1, <3>2, <3>3
  <2> QED
    BY <2>1, <2>2, <2>3
<1>6. ASSUME NEW f, NEW u, f.filter # {}, u.filter = {}, IsUrl(f.url), IsUrl(u.url),
             ValuesOf(f) = ValuesOf(u) => Flat(f.url, f.filter) = Flat(u.url, u.filter),
             ValuesOf(f) = ValuesOf(u) <=>
                \A key \in ToSet(SortedKeys) :
                   Kept(f.url, f.filter, key) = Kept(u.url, u.filter, key)
      PROVE  Canonical(f) = Canonical(u)
               <=> Base(f.url) = Base(u.url) /\ ValuesOf(f) = ValuesOf(u) /\ Odd(f) = Odd(u)
  <2>1. Canonical(u) = u.url /\ Odd(f) = <<>>
    BY <1>2, <1>6 DEF Odd
  <2>2. /\ Canonical(f) = [f.url EXCEPT !.query = Flat(f.url, f.filter)]
        /\ Canonical(f).query = Flat(f.url, f.filter)
    BY <1>6, FilteredUrl DEF Canonical
  <2>3. Base(Canonical(f)) = Base(f.url) /\ IsUrl(f.url)
    BY <1>6, <2>2 DEF Base, IsUrl
  <2>4. ASSUME Canonical(f) = Canonical(u)
        PROVE  Base(f.url) = Base(u.url) /\ ValuesOf(f) = ValuesOf(u) /\ Odd(f) = Odd(u)
    <3>1. Base(f.url) = Base(u.url)
      BY <2>1, <2>3, <2>4
    <3>2. /\ \A key \in ToSet(SortedKeys) : Pairs(u.url.query, key) = Kept(f.url, f.filter, key)
          /\ Sorted(u.url)
      BY <1>6, <2>1, <2>4, KeptAreThere DEF Canonical
    <3>3. ValuesOf(f) = ValuesOf(u)
      BY <1>2, <1>6, <3>2
    <3>4. Odd(u) = <<>>
      BY <3>2 DEF Odd
    <3> QED
      BY <2>1, <3>1, <3>3, <3>4
  <2>5. ASSUME Base(f.url) = Base(u.url), ValuesOf(f) = ValuesOf(u), Odd(f) = Odd(u)
        PROVE  Canonical(f) = Canonical(u)
    <3>1. Sorted(u.url)
      BY <1>6, <2>1, <2>5 DEF Odd
    <3>2. u.url.query = Flat(f.url, f.filter)
      BY <1>2, <1>6, <2>5, <3>1
    <3> DEFINE x == Flat(f.url, f.filter)
    <3> HIDE DEF x
    <3>3. [f.url EXCEPT !.query = x] = [u.url EXCEPT !.query = x]
      BY <1>6, <2>5 DEF Base, IsUrl
    <3>4. [u.url EXCEPT !.query = x] = u.url
      BY <1>6, <3>2 DEF IsUrl, x
    <3> QED
      BY <2>1, <2>2, <3>3, <3>4 DEF x
  <2> QED
    BY <2>4, <2>5
<1>7. CASE p.filter # {} /\ q.filter = {}
  BY <1>3, <1>6, <1>7, ValuesTellKept
<1>8. CASE p.filter = {} /\ q.filter # {}
  <2>1. Canonical(q) = Canonical(p)
          <=> Base(q.url) = Base(p.url) /\ ValuesOf(q) = ValuesOf(p) /\ Odd(q) = Odd(p)
    BY <1>3, <1>6, <1>8, ValuesTellKept
  <2> QED
    BY <2>1
<1> QED
  BY <1>1, <1>5, <1>7, <1>8

\* What an id is made of is the same if and only if the files are, whatever the filters
\* and the spelling of the urls.
THEOREM PartsTellFiles ==
    ASSUME NEW p, NEW q, IsUrl(p.url), IsUrl(q.url), TaskOf(p) # NoTask, TaskOf(q) # NoTask
    PROVE  Spelled(p) = Spelled(q) <=> Identity(p) = Identity(q)
<1>1. ASSUME NEW r, TakenOf(r) = "url"
      PROVE  Spelled(r) = <<"url", Canonical(r), r.tag, r.application, r.piece>>
  BY <1>1 DEF Spelled, Canonical
<1>2. CASE TakenOf(p) = "url" /\ TakenOf(q) = "url"
  <2>1. /\ Spelled(p) = <<"url", Canonical(p), p.tag, p.application, p.piece>>
        /\ Spelled(q) = <<"url", Canonical(q), q.tag, q.application, q.piece>>
    BY <1>1, <1>2
  <2>2. /\ Identity(p) = <<"url", Base(p.url), ValuesOf(p), Odd(p), p.tag, p.application, p.piece>>
        /\ Identity(q) = <<"url", Base(q.url), ValuesOf(q), Odd(q), q.tag, q.application, q.piece>>
    BY <1>2, IdentityOfTheUrl
  <2>3. Canonical(p) = Canonical(q)
          <=> Base(p.url) = Base(q.url) /\ ValuesOf(p) = ValuesOf(q) /\ Odd(p) = Odd(q)
    BY SameCanonical
  <2> QED
    BY <2>1, <2>2, <2>3
<1>3. CASE TakenOf(p) # "url" /\ TakenOf(q) # "url"
  BY <1>3, IdentityOfElse
<1>4. ASSUME NEW r, NEW s, TakenOf(r) = "url", TakenOf(s) # "url", TaskOf(s) # NoTask
      PROVE  Spelled(r) # Spelled(s) /\ Identity(r) # Identity(s)
  <2>1. Spelled(r)[1] = "url" /\ Identity(r)[1] = "url"
    BY <1>1, <1>4, IdentityOfTheUrl
  <2>2. Spelled(s)[1] # "url" /\ Identity(s) = Spelled(s)
    BY <1>4, IdentityOfElse
  <2> QED
    BY <2>1, <2>2
<1> QED
  BY <1>2, <1>3, <1>4

\* Requests whose parts do not run together have the same task id if and only if they are
\* for the same file: content, digest or url, tag, application and piece length.
THEOREM IdsTellFiles ==
    ASSUME NEW p, NEW q, IsUrl(p.url), IsUrl(q.url),
           TaskOf(p) # NoTask, TaskOf(q) # NoTask, ~RunTogether(p, q)
    PROVE  TaskOf(p) = TaskOf(q) <=> Identity(p) = Identity(q)
<1>1. TaskOf(p) = Text(p) /\ TaskOf(q) = Text(q)
  BY IdIsItsText
<1>2. Spelled(p) = Spelled(q) <=> Text(p) = Text(q)
  BY SpelledTellsText DEF RunTogether
<1> QED
  BY <1>1, <1>2, PartsTellFiles

Join(x, y) == x \o y

LEMMA Joined ==
    ASSUME NEW R
    PROVE  /\ \A x, y \in Seq(R) : Join(x, y) \in Seq(R)
           /\ \A x, y, z \in Seq(R) : Join(Join(x, y), z) = Join(x, Join(y, z))
           /\ \A x, y, z \in Seq(R) : Join(x, y) = Join(x, z) => y = z
           /\ \A x, y, z \in Seq(R) : Join(x, z) = Join(y, z) => x = y
<1>1. ASSUME NEW x \in Seq(R), NEW y \in Seq(R) PROVE Join(x, y) \in Seq(R)
  BY DEF Join
<1>2. \A x, y, z \in Seq(R) : Join(Join(x, y), z) = Join(x, Join(y, z))
  <2> TAKE x, y, z \in Seq(R)
  <2> QED
    BY ConcatAssociative DEF Join
<1>3. ASSUME NEW x \in Seq(R), NEW y \in Seq(R), NEW z \in Seq(R)
      PROVE  /\ Join(x, y) = Join(x, z) => y = z
             /\ Join(x, z) = Join(y, z) => x = y
  BY ConcatSimplifications DEF Join
<1>4. /\ \A x, y, z \in Seq(R) : Join(x, y) = Join(x, z) => y = z
      /\ \A x, y, z \in Seq(R) : Join(x, z) = Join(y, z) => x = y
  BY <1>3
<1> QED
  BY ONLY <1>1, <1>2, <1>4

\* What stands between the same beginning and the same end is told by the whole.
LEMMA Between ==
    ASSUME NEW R, NEW a \in Seq(R), NEW x \in Seq(R), NEW y \in Seq(R), NEW b \in Seq(R),
           Join(a, Join(x, b)) = Join(a, Join(y, b))
    PROVE  x = y
<1>1. Join(x, b) \in Seq(R) /\ Join(y, b) \in Seq(R)
  BY Joined
<1>2. Join(x, b) = Join(y, b)
  BY <1>1, Joined
<1> QED
  BY <1>2, Joined

\* One parameter alone never runs together with anything: requests for a url that differ
\* in the tag only, in the application only or in the piece length only have different
\* task ids (lib.rs:276-280), whatever their letters.
THEOREM OneParameterTells ==
    ASSUME NEW R, NEW p, NEW q, TakenOf(p) = "url", TakenOf(q) = "url",
           Canonical(p) = Canonical(q), UrlText(Canonical(p)) \in Seq(R), "STANDARD" \in R,
           p.tag \in Seq(R), p.application \in Seq(R), p.piece \in Seq(R),
           q.tag \in Seq(R), q.application \in Seq(R), q.piece \in Seq(R),
           \/ p.application = q.application /\ p.piece = q.piece
           \/ p.tag = q.tag /\ p.piece = q.piece
           \/ p.tag = q.tag /\ p.application = q.application
    PROVE  ~RunTogether(p, q)
<1> DEFINE u == UrlText(Canonical(p))
           e == <<"STANDARD">>
           Whole(t, a, l) == Join(Join(Join(Join(u, t), a), l), e)
<1>1. u \in Seq(R) /\ e \in Seq(R)
  OBVIOUS
<1>2. /\ Text(p) = <<"hash", Whole(p.tag, p.application, p.piece)>>
      /\ Text(q) = <<"hash", Whole(q.tag, q.application, q.piece)>>
  BY DEF Text, Canonical, Join
<1>3. SUFFICES ASSUME Text(p) = Text(q)
               PROVE  p.tag = q.tag /\ p.application = q.application /\ p.piece = q.piece
  BY DEF RunTogether, Spelled, Canonical
<1> HIDE DEF u, e
<1>4. Whole(p.tag, p.application, p.piece) = Whole(q.tag, q.application, q.piece)
  <2> HIDE DEF Whole
  <2> QED
    BY <1>2, <1>3
<1> DEFINE Grouped(t, a, l) ==
      /\ Whole(t, a, l) = Join(u, Join(t, Join(a, Join(l, e))))
      /\ Whole(t, a, l) = Join(Join(u, t), Join(a, Join(l, e)))
      /\ Whole(t, a, l) = Join(Join(Join(u, t), a), Join(l, e))
      /\ Join(a, Join(l, e)) \in Seq(R) /\ Join(l, e) \in Seq(R)
      /\ Join(u, t) \in Seq(R) /\ Join(Join(u, t), a) \in Seq(R)
<1>5. ASSUME NEW t \in Seq(R), NEW a \in Seq(R), NEW l \in Seq(R)
      PROVE  Grouped(t, a, l)
  <2>1. /\ Join(a, Join(l, e)) \in Seq(R) /\ Join(l, e) \in Seq(R)
        /\ Join(u, t) \in Seq(R) /\ Join(Join(u, t), a) \in Seq(R)
    BY <1>1, Joined
  <2>2. Whole(t, a, l) = Join(Join(Join(u, t), a), Join(l, e))
    BY <1>1, <2>1, Joined
  <2>3. Join(Join(Join(u, t), a), Join(l, e)) = Join(Join(u, t), Join(a, Join(l, e)))
    BY <1>1, <2>1, Joined
  <2>4. Join(Join(u, t), Join(a, Join(l, e))) = Join(u, Join(t, Join(a, Join(l, e))))
    BY <1>1, <2>1, Joined
  <2> HIDE DEF Whole
  <2> QED
    BY <2>1, <2>2, <2>3, <2>4
<1> HIDE DEF Whole, Grouped
<1>9. Grouped(p.tag, p.application, p.piece) /\ Grouped(q.tag, q.application, q.piece)
  BY <1>5
<1> USE DEF Grouped
<1>6. CASE p.application = q.application /\ p.piece = q.piece
  <2>1. Join(u, Join(p.tag, Join(p.application, Join(p.piece, e))))
          = Join(u, Join(q.tag, Join(p.application, Join(p.piece, e))))
    BY <1>4, <1>9, <1>6
  <2>2. Join(p.application, Join(p.piece, e)) \in Seq(R)
    BY <1>9
  <2>3. p.tag = q.tag
    BY <1>1, <2>1, <2>2, Between
  <2> QED
    BY <1>6, <2>3
<1>7. CASE p.tag = q.tag /\ p.piece = q.piece
  <2>1. Join(Join(u, p.tag), Join(p.application, Join(p.piece, e)))
          = Join(Join(u, p.tag), Join(q.application, Join(p.piece, e)))
    BY <1>4, <1>9, <1>7
  <2>2. Join(u, p.tag) \in Seq(R) /\ Join(p.piece, e) \in Seq(R)
    BY <1>9
  <2>3. p.application = q.application
    BY <2>1, <2>2, Between
  <2> QED
    BY <1>7, <2>3
<1>8. CASE p.tag = q.tag /\ p.application = q.application
  <2>1. Join(Join(Join(u, p.tag), p.application), Join(p.piece, e))
          = Join(Join(Join(u, p.tag), p.application), Join(q.piece, e))
    BY <1>4, <1>9, <1>8
  <2>2. Join(Join(u, p.tag), p.application) \in Seq(R)
    BY <1>9
  <2>3. p.piece = q.piece
    BY <1>1, <2>1, <2>2, Between
  <2> QED
    BY <1>8, <2>3
<1> QED
  BY <1>6, <1>7, <1>8

--------------------------------------------------------------------------------
(* The ids of the seed peers and of the SDK. *)

\* A task has its id from nothing else of a request.
LEMMA SameParameters ==
    ASSUME NEW p, NEW q, p.url = q.url, p.piece = q.piece, p.tag = q.tag,
           p.application = q.application, p.content = q.content,
           p.by_digest = q.by_digest, p.filter = q.filter
    PROVE  TaskOf(p) = TaskOf(q)
BY DEF TaskOf, TaskID, TakenOf

\* Nor from the filter, where it is not taken of the url.
LEMMA FilterMattersToUrls ==
    ASSUME NEW p, NEW q, p.url = q.url, p.content = q.content, p.by_digest = q.by_digest,
           TakenOf(p) # "url"
    PROVE  TaskOf(p) = TaskOf(q)
BY DEF TaskOf, TaskID, TakenOf

\* The Download of a preheat makes the id it is sent to.
LEMMA DownloadKeepsTheId ==
    ASSUME NEW r
    PROVE  Preheated(r) = <<TaskOf(r), TaskOf(r)>>
<1>1. TaskOf(Download(r)) = TaskOf(r)
  BY SameParameters DEF Download, Parameters
<1> QED
  BY <1>1 DEF Preheated

\* Where the seed peer is told all, the proxy makes the id of the SDK from the headers it
\* gets.
LEMMA HeadersKeepTheId ==
    ASSUME NEW r, ToldAll(r)
    PROVE  Received(r) = <<TaskOf(r), TaskOf(r)>>
<1> DEFINE h == ProxyHeaders(r)
           T(name) == IF name \in DOMAIN h THEN h[name] ELSE <<>>
<1>1. r.header = <<>> /\ DOMAIN r.header = {}
  BY DEF ToldAll
<1>2. DOMAIN h = DOMAIN Header(r) /\ \A name \in DOMAIN h : h[name] = Header(r)[name]
  BY <1>1 DEF ProxyHeaders
<1>3. /\ T("Piece-Length") = r.piece
      /\ T("Tag") = r.tag
      /\ T("Application") = r.application
      /\ T("Content") = r.content
      /\ h["By-Digest"] = r.by_digest
      /\ r.filter # {} => "Filter" \in DOMAIN h /\ h["Filter"] = r.filter
  <2> HIDE DEF h
  <2> QED
    BY <1>2 DEF Header
<1> HIDE DEF h, T
<1>4. Told(r) = [url |-> r.url, piece |-> T("Piece-Length"), tag |-> T("Tag"),
                 application |-> T("Application"), content |-> T("Content"),
                 by_digest |-> h["By-Digest"],
                 filter |-> IF "Filter" \in DOMAIN h THEN h["Filter"] ELSE DefaultFilters]
  BY DEF Told, h, T
<1>5. /\ Told(r).url = r.url /\ Told(r).piece = r.piece /\ Told(r).tag = r.tag
      /\ Told(r).application = r.application /\ Told(r).content = r.content
      /\ Told(r).by_digest = r.by_digest
      /\ r.filter # {} => Told(r).filter = r.filter
  BY <1>3, <1>4
<1>6. TaskOf(Told(r)) = TaskOf(r)
  <2>1. CASE r.filter # {}
    BY <1>5, <2>1, SameParameters
  <2>2. CASE TakenOf(r) # "url"
    BY <1>5, <2>2, FilterMattersToUrls
  <2> QED
    BY <2>1, <2>2 DEF ToldAll
<1> QED
  BY <1>6 DEF Received

\* Whatever it is told, the seed peer makes an id for a get that has one.
LEMMA ToldHasAnId ==
    ASSUME NEW r, ValidGet(r), TaskOf(r) # NoTask
    PROVE  TaskOf(Told(r)) # NoTask /\ Told(r).url = r.url
<1> DEFINE t == Told(r)
           h == ProxyHeaders(r)
<1>1. t.url = r.url /\ t.url.form = "http"
  BY DEF Told, ValidGet
<1>2. /\ t.by_digest = r.by_digest
      /\ r.content # <<>> => t.content = r.content
  <2>1. /\ "By-Digest" \in DOMAIN Header(r) /\ Header(r)["By-Digest"] = r.by_digest
        /\ r.content # <<>> => "Content" \in DOMAIN Header(r)
                               /\ Header(r)["Content"] = r.content
    BY DEF Header
  <2>2. \A name \in DOMAIN Header(r) : name \in DOMAIN h /\ h[name] = Header(r)[name]
    BY DEF ProxyHeaders
  <2> HIDE DEF h
  <2>3. /\ t.by_digest = h["By-Digest"]
        /\ t.content = IF "Content" \in DOMAIN h THEN h["Content"] ELSE <<>>
    BY DEF Told, h
  <2> QED
    BY <2>1, <2>2, <2>3
<1> HIDE DEF t
<1>3. \A x, y : <<x, y>> # NoTask
  BY DEF NoTask
<1>4. TakenOf(t) \in {"content", "digest", "url"}
  BY DEF TakenOf
<1>5. ASSUME TakenOf(t) = "content" PROVE TaskOf(t) # NoTask
  <2>1. TaskOf(t) = <<"hash", t.content>>
    BY <1>5 DEF TaskOf, TaskID
  <2> QED
    BY <1>3, <2>1
<1>6. ASSUME TakenOf(t) = "url" PROVE TaskOf(t) # NoTask
  <2>1. TaskOf(t) = <<"hash", UrlText(FilterQueryParams(t.url, t.filter))
                              \o t.tag \o t.application \o t.piece \o <<"STANDARD">>>>
    BY <1>1, <1>6 DEF TaskOf, TaskID
  <2> DEFINE x == UrlText(FilterQueryParams(t.url, t.filter))
                    \o t.tag \o t.application \o t.piece \o <<"STANDARD">>
  <2>2. TaskOf(t) = <<"hash", x>>
    BY <2>1
  <2> HIDE DEF x
  <2> QED
    BY <1>3, <2>2
<1>7. ASSUME TakenOf(t) = "digest" PROVE TaskOf(t) # NoTask
  <2>1. t.content = <<>>
    BY <1>7 DEF TakenOf
  <2>2. r.content = <<>>
    BY <1>2, <2>1
  <2>3. TakenOf(r) = "digest"
    BY <1>1, <1>2, <1>7, <2>2 DEF TakenOf
  <2>4. IsDigest(r.url.ref)
    BY <2>3 DEF TaskOf, TaskID
  <2>5. TaskOf(t) = <<"digest", Encoded(t.url.ref)>>
    BY <1>1, <1>7, <2>4 DEF TaskOf, TaskID
  <2> QED
    BY <1>3, <2>5
<1> QED
  BY <1>1, <1>4, <1>5, <1>6, <1>7 DEF t

\* Urls are urls, those of images too.
LEMMA KnownUrls ==
    ASSUME NEW p \in Known
    PROVE  IsUrl(p.url) /\ TaskOf(p) # NoTask
<1> DEFINE gets == {r \in Gets : ValidGet(r)}
<1>1. TaskOf(p) # NoTask /\ p \in gets \cup {Told(r) : r \in gets} \cup Preheats
          \cup Deletes \cup Targets \cup UNION {Layers(r) : r \in Stats}
  BY DEF Known
<1>2. ASSUME p \in Gets \cup Preheats \cup Deletes PROVE IsUrl(p.url)
  BY <1>2, UrlsAssumption DEF UrlsAssumption
<1>3. ASSUME NEW r \in Gets, p = Told(r) PROVE IsUrl(p.url)
  <2>1. Told(r).url = r.url
    BY DEF Told
  <2>2. IsUrl(r.url)
    BY UrlsAssumption DEF UrlsAssumption
  <2> QED
    BY <1>3, <2>1, <2>2
<1>4. ASSUME NEW image, NEW kind, NEW ref PROVE IsUrl(RegistryUrl(image, kind, ref))
  BY DEF RegistryUrl, IsUrl
<1>5. ASSUME p \in Targets PROVE IsUrl(p.url)
  <2>1. PICK r \in ImagePreheats \cup ImageDeletes : \E url \in Urls(r) : p = Target(r, url)
    BY <1>5 DEF Targets
  <2>2. PICK url \in Urls(r) : p = Target(r, url)
    BY <2>1
  <2>3. p.url = url
    BY <2>2 DEF Target, Parameters
  <2>4. IsUrl(url)
    BY <1>4 DEF Urls, BuildManifestUrl, BuildBlobUrl
  <2> QED
    BY <2>3, <2>4
<1>6. ASSUME NEW r \in Stats, p \in Layers(r) PROVE IsUrl(p.url)
  <2>1. PICK d \in BlobDigests(Manifest(r)[1]) : p = Layer(r, d)
    BY <1>6 DEF Layers
  <2>2. p.url = BuildBlobUrl(r.image, d)
    BY <2>1 DEF Layer, Parameters
  <2> QED
    BY <1>4, <2>2 DEF BuildBlobUrl
<1> QED
  BY <1>1, <1>2, <1>3, <1>5, <1>6

\* What runs together with nothing is told apart from all that is known.
LEMMA ApartFromAll ==
    ASSUME NEW p \in Apart, NEW q \in Known
    PROVE  TaskOf(p) = TaskOf(q) <=> Identity(p) = Identity(q)
<1>1. p \in Known /\ ~RunTogether(p, q)
  BY DEF Apart
<1> QED
  BY <1>1, KnownUrls, IdsTellFiles

--------------------------------------------------------------------------------
(* What the seed peers hold. *)

\* The steps that put a file at the seed peers or delete one.
LEMMA OtherStepsKeepWhatIsHeld ==
    ASSUME [RequestsNext]_allVars,
           ~Receive, \A r \in Preheats : ~Preheat(r), \A r \in Deletes : ~Delete(r),
           \A r \in ImagePreheats : ~PreheatImage(r), \A r \in ImageDeletes : ~DeleteImage(r)
    PROVE  UNCHANGED <<held, files>>
<1>1. CASE UNCHANGED allVars
  BY <1>1 DEF allVars, requestVars
<1>2. ASSUME NEW r \in Gets, Begin(r) PROVE UNCHANGED <<held, files>>
  BY <1>2 DEF Begin
<1>3. CASE BeginInVain
  BY <1>3 DEF BeginInVain
<1>4. CASE Attempting
  BY <1>4 DEF Attempting, AttemptFails, BodyBreaks, Go
<1>5. CASE Finish
  BY <1>5 DEF Finish
<1>6. ASSUME NEW o, Refused(o) PROVE UNCHANGED <<held, files>>
  BY <1>6 DEF Refused
<1>7. ASSUME NEW r \in Stats, StatImage(r) PROVE UNCHANGED <<held, files>>
  BY <1>7 DEF StatImage
<1> QED
  BY <1>1, <1>2, <1>3, <1>4, <1>5, <1>6, <1>7 DEF RequestsNext

LEMMA UnderwayStepwise ==
    ASSUME Underway, [RequestsNext]_allVars
    PROVE  Underway'
<1>1. ASSUME NEW r \in Gets, Begin(r) PROVE Underway'
  BY <1>1 DEF Begin, Underway
<1>2. CASE BeginInVain
  BY <1>2 DEF BeginInVain, CallInVain, Underway
<1>3. CASE Finish
  BY <1>3 DEF Finish, Drop, TakeResult, Rest, Underway
<1>4. CASE Attempting
  <2>1. request' = request /\ pc \in {"send", "read", "decide"}
    BY <1>4 DEF Attempting, AttemptFails, Fail, Receive, Respond, BodyBreaks, Break, Go,
                Chunk, End, Decide
  <2> QED
    BY <2>1 DEF Underway
<1>5. ASSUME UNCHANGED <<pc, request>> PROVE Underway'
  BY <1>5 DEF Underway
<1>6. ASSUME \/ \E r \in Preheats : Preheat(r)
             \/ \E r \in Deletes : Delete(r)
             \/ \E outcome \in Statuses \cup {Unreachable} : Refused(outcome)
             \/ \E r \in ImagePreheats : PreheatImage(r)
             \/ \E r \in ImageDeletes : DeleteImage(r)
             \/ \E r \in Stats : StatImage(r)
      PROVE  UNCHANGED <<pc, request>>
  BY <1>6 DEF Preheat, Delete, Refused, PreheatImage, DeleteImage, StatImage, vars
<1>7. CASE UNCHANGED allVars
  BY <1>5, <1>7 DEF allVars, vars, requestVars
<1> QED
  BY <1>1, <1>2, <1>3, <1>4, <1>5, <1>6, <1>7 DEF RequestsNext

LEMMA PickedStepwise ==
    ASSUME Underway, PickedByTheIdKept, [RequestsNext]_allVars
    PROVE  PickedByTheIdKept'
<1> DEFINE Fits(pair) ==
      \/ pair = <<pair[2], pair[2]>>
      \/ \E r \in Gets : ~ToldAll(r) /\ pair = Received(r)
<1>1. ASSUME \A pair \in held' : pair \in held \/ Fits(pair)
      PROVE  PickedByTheIdKept'
  BY <1>1 DEF PickedByTheIdKept
<1>2. CASE Receive
  <2>1. held' = held \cup {Received(request)} /\ request \in Gets
    BY <1>2 DEF Receive, Respond, Underway
  <2>2. ToldAll(request) => Received(request) = <<TaskOf(request), TaskOf(request)>>
    BY <2>1, HeadersKeepTheId
  <2>3. Fits(Received(request))
    BY <2>1, <2>2
  <2> HIDE DEF Fits
  <2> QED
    BY <1>1, <2>1, <2>3
<1>3. ASSUME NEW r \in Preheats, Preheat(r) PROVE PickedByTheIdKept'
  <2>1. held' = held \cup {Preheated(r)} /\ Fits(Preheated(r))
    BY <1>3, DownloadKeepsTheId DEF Preheat
  <2> HIDE DEF Fits
  <2> QED
    BY <1>1, <2>1
<1>4. ASSUME NEW r \in ImagePreheats, PreheatImage(r) PROVE PickedByTheIdKept'
  <2>1. held' = held \cup {Preheated(Target(r, url)) : url \in Urls(r)}
    BY <1>4 DEF PreheatImage
  <2>2. \A url \in Urls(r) : Fits(Preheated(Target(r, url)))
    BY DownloadKeepsTheId
  <2> HIDE DEF Fits
  <2> QED
    BY <1>1, <2>1, <2>2
<1>5. ASSUME held' \subseteq held PROVE PickedByTheIdKept'
  BY <1>1, <1>5
<1>6. ASSUME NEW r \in Deletes, Delete(r) PROVE PickedByTheIdKept'
  BY <1>5, <1>6 DEF Delete
<1>7. ASSUME NEW r \in ImageDeletes, DeleteImage(r) PROVE PickedByTheIdKept'
  BY <1>5, <1>7 DEF DeleteImage
<1>8. CASE UNCHANGED <<held, files>>
  BY <1>5, <1>8
<1> QED
  BY <1>2, <1>3, <1>4, <1>6, <1>7, <1>8, OtherStepsKeepWhatIsHeld

LEMMA NothingHeldAtFirst ==
    RequestsInit => Underway /\ PickedByTheIdKept /\ HeldInStep /\ OthersInStep
BY DEF RequestsInit, Init, Underway, PickedByTheIdKept, HeldInStep, OthersInStep

\* Seed peers keep what they were given under the id the SDK picked them by, unless it
\* came of a get without a filter, or with headers of the caller's own: the deletes and
\* stats that go by the id of the SDK find everything else (lib.rs:1431-1445).
THEOREM PickedByTheIdKeptHolds == RequestsSpec => []PickedByTheIdKept
<1>1. Underway /\ PickedByTheIdKept /\ [RequestsNext]_allVars
        => Underway' /\ PickedByTheIdKept'
  BY UnderwayStepwise, PickedStepwise
<1> QED
  BY NothingHeldAtFirst, <1>1, PTL DEF RequestsSpec

--------------------------------------------------------------------------------
(* What is held is in step with the history. *)

InStep == HeldInStep /\ OthersInStep

\* A pair of ids and a pair of files are of the same requests.
Match(ids, file) ==
    /\ \A p, q \in Apart :
          ids = <<TaskOf(p), TaskOf(q)>> <=> file = <<Identity(p), Identity(q)>>
    /\ \A p \in Apart :
          (ids # Same(TaskOf(p)) /\ ids[2] = TaskOf(p))
              <=> file # Same(Identity(p)) /\ file[2] = Identity(p)

AllMatch(I, F) ==
    /\ \A ids \in I : \E file \in F : Match(ids, file)
    /\ \A file \in F : \E ids \in I : Match(ids, file)

LEMMA MatchOfOne ==
    ASSUME NEW p \in Known
    PROVE  Match(Same(TaskOf(p)), Same(Identity(p)))
<1>1. \A q \in Apart : TaskOf(q) = TaskOf(p) <=> Identity(q) = Identity(p)
  BY ApartFromAll
<1> QED
  BY <1>1 DEF Match, Same

LEMMA MatchOfReceived ==
    ASSUME NEW r \in Gets, ValidGet(r), TaskOf(r) # NoTask
    PROVE  Match(Received(r), <<Identity(r), KeptFor(r)>>)
<1>1. r \in Known
  BY DEF Known
<1>2. Told(r) \in Known
  BY ToldHasAnId DEF Known
<1>3. \A q \in Apart : /\ TaskOf(q) = TaskOf(r) <=> Identity(q) = Identity(r)
                       /\ TaskOf(q) = TaskOf(Told(r)) <=> Identity(q) = Identity(Told(r))
  BY <1>1, <1>2, ApartFromAll
<1>4. Received(r) = <<TaskOf(r), TaskOf(Told(r))>>
  BY DEF Received
<1>5. \A q \in Apart : TaskOf(q) = TaskOf(Told(r)) <=> Identity(q) = KeptFor(r)
  <2>1. CASE ToldAll(r)
    <3>1. TaskOf(Told(r)) = TaskOf(r)
      BY <1>4, <2>1, HeadersKeepTheId
    <3> QED
      BY <1>3, <2>1, <3>1 DEF KeptFor
  <2>2. CASE ~ToldAll(r)
    BY <1>3, <2>2 DEF KeptFor
  <2> QED
    BY <2>1, <2>2
<1> QED
  BY <1>3, <1>4, <1>5 DEF Match, Same

LEMMA PutInStep ==
    ASSUME InStep, NEW I, NEW F, AllMatch(I, F), held' = held \cup I, files' = files \cup F
    PROVE  InStep'
<1>1. ASSUME NEW p \in Apart, NEW q \in Apart
      PROVE  <<TaskOf(p), TaskOf(q)>> \in held' <=> <<Identity(p), Identity(q)>> \in files'
  <2>1. <<TaskOf(p), TaskOf(q)>> \in held <=> <<Identity(p), Identity(q)>> \in files
    BY DEF InStep, HeldInStep
  <2>2. <<TaskOf(p), TaskOf(q)>> \in I <=> <<Identity(p), Identity(q)>> \in F
    BY DEF AllMatch, Match
  <2> QED
    BY <2>1, <2>2
<1>2. ASSUME NEW p \in Apart
      PROVE  (\E pair \in held' : pair # Same(TaskOf(p)) /\ pair[2] = TaskOf(p))
               <=> \E file \in files' : file # Same(Identity(p)) /\ file[2] = Identity(p)
  <2>1. (\E pair \in held : pair # Same(TaskOf(p)) /\ pair[2] = TaskOf(p))
          <=> \E file \in files : file # Same(Identity(p)) /\ file[2] = Identity(p)
    BY DEF InStep, OthersInStep
  <2>2. (\E pair \in I : pair # Same(TaskOf(p)) /\ pair[2] = TaskOf(p))
          <=> \E file \in F : file # Same(Identity(p)) /\ file[2] = Identity(p)
    BY DEF AllMatch, Match
  <2> QED
    BY <2>1, <2>2
<1> QED
  BY <1>1, <1>2 DEF InStep, HeldInStep, OthersInStep

LEMMA TakenInStep ==
    ASSUME InStep, NEW I, NEW F, AllMatch(I, F), held' = held \ I, files' = files \ F,
           \A ids \in I : ids = Same(ids[2]), \A file \in F : file = Same(file[2])
    PROVE  InStep'
<1>1. ASSUME NEW p \in Apart, NEW q \in Apart
      PROVE  <<TaskOf(p), TaskOf(q)>> \in held' <=> <<Identity(p), Identity(q)>> \in files'
  <2>1. <<TaskOf(p), TaskOf(q)>> \in held <=> <<Identity(p), Identity(q)>> \in files
    BY DEF InStep, HeldInStep
  <2>2. <<TaskOf(p), TaskOf(q)>> \in I <=> <<Identity(p), Identity(q)>> \in F
    BY DEF AllMatch, Match
  <2> QED
    BY <2>1, <2>2
<1>2. ASSUME NEW p \in Apart
      PROVE  (\E pair \in held' : pair # Same(TaskOf(p)) /\ pair[2] = TaskOf(p))
               <=> \E file \in files' : file # Same(Identity(p)) /\ file[2] = Identity(p)
  <2>1. (\E pair \in held : pair # Same(TaskOf(p)) /\ pair[2] = TaskOf(p))
          <=> \E file \in files : file # Same(Identity(p)) /\ file[2] = Identity(p)
    BY DEF InStep, OthersInStep
  <2>2. ASSUME NEW pair, pair # Same(TaskOf(p)), pair[2] = TaskOf(p) PROVE pair \notin I
    BY <2>2
  <2>3. ASSUME NEW file, file # Same(Identity(p)), file[2] = Identity(p) PROVE file \notin F
    BY <2>3
  <2> QED
    BY <2>1, <2>2, <2>3
<1> QED
  BY <1>1, <1>2 DEF InStep, HeldInStep, OthersInStep

LEMMA TargetsMatch ==
    ASSUME NEW r \in ImagePreheats \cup ImageDeletes, HasTargets(r)
    PROVE  /\ AllMatch({Same(TaskOf(Target(r, url))) : url \in Urls(r)},
                       {Same(Identity(Target(r, url))) : url \in Urls(r)})
           /\ \A url \in Urls(r) : Target(r, url) \in Targets /\ Target(r, url) \in Known
<1>1. ASSUME NEW url \in Urls(r) PROVE Target(r, url) \in Targets /\ Target(r, url) \in Known
  <2>1. Target(r, url) \in Targets
    BY DEF Targets
  <2>2. TaskOf(Target(r, url)) # NoTask
    BY DEF HasTargets
  <2> QED
    BY <2>1, <2>2 DEF Known
<1>2. \A url \in Urls(r) :
         Match(Same(TaskOf(Target(r, url))), Same(Identity(Target(r, url))))
  BY <1>1, MatchOfOne
<1> QED
  BY <1>1, <1>2 DEF AllMatch

\* A step that puts files at the seed peers keeps what is held in step with the
\* history, and so does one that deletes files.
LEMMA InStepStepwise ==
    ASSUME Underway, InStep, [RequestsNext]_allVars
    PROVE  InStep'
<1>1. CASE Receive
  <2>1. /\ held' = held \cup {Received(request)}
        /\ files' = files \cup {<<Identity(request), KeptFor(request)>>}
    BY <1>1 DEF Receive
  <2>2. request \in Gets /\ ValidGet(request) /\ TaskOf(request) # NoTask
    BY <1>1 DEF Receive, Respond, Underway
  <2>3. Match(Received(request), <<Identity(request), KeptFor(request)>>)
    BY <2>2, MatchOfReceived
  <2>4. AllMatch({Received(request)}, {<<Identity(request), KeptFor(request)>>})
    BY <2>3 DEF AllMatch
  <2> QED
    BY <2>1, <2>4, PutInStep
<1>2. ASSUME NEW r \in Preheats \cup Deletes, TaskOf(r) # NoTask
      PROVE  AllMatch({Same(TaskOf(r))}, {Same(Identity(r))})
  <2>1. r \in Known
    BY <1>2 DEF Known
  <2> QED
    BY <2>1, MatchOfOne DEF AllMatch
<1>3. ASSUME NEW r \in Preheats, Preheat(r) PROVE InStep'
  <2>1. /\ held' = held \cup {Same(TaskOf(r))}
        /\ files' = files \cup {Same(Identity(r))} /\ TaskOf(r) # NoTask
    BY <1>3, DownloadKeepsTheId DEF Preheat, Same
  <2> QED
    BY <1>2, <2>1, PutInStep
<1>4. ASSUME NEW r \in Deletes, Delete(r) PROVE InStep'
  <2> DEFINE I == {Same(TaskOf(r))}
             F == {Same(Identity(r))}
  <2>1. held' = held \ I /\ files' = files \ F /\ TaskOf(r) # NoTask
    BY <1>4 DEF Delete
  <2>2. AllMatch(I, F)
    BY <1>2, <2>1
  <2>3. \A x : Same(x) = Same(Same(x)[2])
    BY DEF Same
  <2>4. (\A ids \in I : ids = Same(ids[2])) /\ (\A file \in F : file = Same(file[2]))
    BY <2>3
  <2> HIDE DEF I, F
  <2> QED
    BY <2>1, <2>2, <2>4, TakenInStep
<1>5. ASSUME NEW r \in ImagePreheats, PreheatImage(r) PROVE InStep'
  <2>1. /\ held' = held \cup {Preheated(Target(r, url)) : url \in Urls(r)}
        /\ files' = files \cup {Same(Identity(Target(r, url))) : url \in Urls(r)}
        /\ HasTargets(r)
    BY <1>5 DEF PreheatImage
  <2>2. \A url \in Urls(r) : Preheated(Target(r, url)) = Same(TaskOf(Target(r, url)))
    BY DownloadKeepsTheId DEF Same
  <2>3. {Preheated(Target(r, url)) : url \in Urls(r)}
          = {Same(TaskOf(Target(r, url))) : url \in Urls(r)}
    BY <2>2
  <2>4. AllMatch({Same(TaskOf(Target(r, url))) : url \in Urls(r)},
                 {Same(Identity(Target(r, url))) : url \in Urls(r)})
    BY <2>1, TargetsMatch
  <2> DEFINE I == {Same(TaskOf(Target(r, url))) : url \in Urls(r)}
             F == {Same(Identity(Target(r, url))) : url \in Urls(r)}
  <2>5. held' = held \cup I /\ files' = files \cup F /\ AllMatch(I, F)
    BY <2>1, <2>3, <2>4
  <2> HIDE DEF I, F
  <2> QED
    BY <2>5, PutInStep
<1>6. ASSUME NEW r \in ImageDeletes, DeleteImage(r) PROVE InStep'
  <2> DEFINE I == {Same(TaskOf(Target(r, url))) : url \in Urls(r)}
             F == {Same(Identity(Target(r, url))) : url \in Urls(r)}
  <2>1. held' = held \ I /\ files' = files \ F /\ HasTargets(r)
    BY <1>6 DEF DeleteImage
  <2>2. AllMatch(I, F)
    BY <2>1, TargetsMatch
  <2>3. \A x : Same(x) = Same(Same(x)[2])
    BY DEF Same
  <2>4. (\A ids \in I : ids = Same(ids[2])) /\ (\A file \in F : file = Same(file[2]))
    BY <2>3
  <2> HIDE DEF I, F
  <2> QED
    BY <2>1, <2>2, <2>4, TakenInStep
<1>7. CASE UNCHANGED <<held, files>>
  BY <1>7 DEF InStep, HeldInStep, OthersInStep
<1> QED
  BY <1>1, <1>3, <1>4, <1>5, <1>6, <1>7, OtherStepsKeepWhatIsHeld

LEMMA WhatIsAskedForIsHeld ==
    ASSUME HeldInStep
    PROVE  HoldsWhatIsAsked
<1>1. \A p \in Apart : Same(TaskOf(p)) \in held <=> Same(Identity(p)) \in files
  BY DEF HeldInStep, Same
<1>2. ASSUME NEW r \in Gets \cap Apart, Told(r) \in Apart
      PROVE  Received(r) \in held <=> <<Identity(r), KeptFor(r)>> \in files
  <2>1. CASE ToldAll(r)
    <3>1. Received(r) = Same(TaskOf(r))
      BY <2>1, HeadersKeepTheId DEF Same
    <3>2. <<Identity(r), KeptFor(r)>> = Same(Identity(r))
      BY <2>1 DEF KeptFor, Same
    <3> QED
      BY <1>1, <3>1, <3>2
  <2>2. CASE ~ToldAll(r)
    BY <1>2, <2>2 DEF HeldInStep, Received, KeptFor
  <2> QED
    BY <2>1, <2>2
<1>3. ASSUME NEW r \in Preheats \cap Apart
      PROVE  Preheated(r) \in held <=> Same(Identity(r)) \in files
  BY <1>1, DownloadKeepsTheId DEF Same
<1> QED
  BY <1>1, <1>2, <1>3 DEF HoldsWhatIsAsked

\* Whatever callers ask for, a get, preheat and delete whose parts run together with
\* those of no other find at the seed peers they pick the files that were put there and
\* not deleted since, and no other: however the urls are spelt, signed and filtered, in
\* whatever order their keys, and by the headers of a get or the message of a preheat.
THEOREM HoldsWhatIsAskedHolds == RequestsSpec => []HoldsWhatIsAsked
<1>1. Underway /\ InStep /\ [RequestsNext]_allVars => Underway' /\ InStep'
  BY UnderwayStepwise, InStepStepwise
<1>2. InStep => HoldsWhatIsAsked
  BY WhatIsAskedForIsHeld DEF InStep
<1>3. RequestsInit => Underway /\ InStep
  BY NothingHeldAtFirst DEF InStep
<1> QED
  BY <1>1, <1>2, <1>3, PTL DEF RequestsSpec

\* What the scheduler finds of the layers that run together with nothing.
LEMMA FoundAreTheLayersHeld ==
    ASSUME InStep, NEW r \in Stats
    PROVE  /\ Found(StatMessage(r))
                \subseteq {BuildBlobUrl(r.image, d) : d \in BlobDigests(Manifest(r)[1])}
           /\ \A d \in BlobDigests(Manifest(r)[1]) : Layer(r, d) \in Apart =>
                (BuildBlobUrl(r.image, d) \in Found(StatMessage(r)) <=>
                    \E file \in files : file[2] = Identity(Layer(r, d)))
<1> DEFINE message == StatMessage(r)
           image == [image |-> message.url, platform |-> message.platform]
           Blob(d) == [message.url EXCEPT !.kind = "blobs", !.ref = d]
           Digests == BlobDigests(Manifest(r)[1])
<1>1. Manifest(image) = Manifest(r)
  BY DEF Manifest, StatMessage, BuildManifestUrl, RegistryUrl
<1>2. ASSUME NEW d PROVE Blob(d) = BuildBlobUrl(r.image, d)
  <2>1. message.url = BuildManifestUrl(r.image, r.image.ref)
    BY DEF StatMessage
  <2> DEFINE host == <<ResolveRegistry(r.image), r.image.repository>>
  <2>2. /\ message.url = [form |-> "http", host |-> host, kind |-> "manifests",
                          ref |-> r.image.ref, query |-> <<>>]
        /\ BuildBlobUrl(r.image, d) = [form |-> "http", host |-> host, kind |-> "blobs",
                                       ref |-> d, query |-> <<>>]
    BY <2>1 DEF BuildManifestUrl, BuildBlobUrl, RegistryUrl
  <2> DEFINE url == message.url
             ofKind == [url EXCEPT !.kind = "blobs"]
  <2> HIDE DEF message, host, url
  <2>3. ofKind = [form |-> "http", host |-> host, kind |-> "blobs",
                  ref |-> r.image.ref, query |-> <<>>]
    BY <2>2 DEF url
  <2>4. Blob(d) = [ofKind EXCEPT !.ref = d]
    BY DEF url
  <2> HIDE DEF ofKind, Blob
  <2>5. [ofKind EXCEPT !.ref = d]
          = [form |-> "http", host |-> host, kind |-> "blobs", ref |-> d, query |-> <<>>]
    BY <2>3
  <2> QED
    BY <2>2, <2>4, <2>5
<1>3. ASSUME NEW d PROVE TaskOf(Parameters(message, Blob(d), <<>>)) = TaskOf(Layer(r, d))
  <2>1. Parameters(message, Blob(d), <<>>) = Layer(r, d)
    BY <1>2 DEF StatMessage, Parameters, Layer
  <2> QED
    BY <2>1
<1>4. Found(message) = {Blob(d) : d \in {d \in Digests :
                          \E pair \in held : pair[2] = TaskOf(Parameters(message, Blob(d), <<>>))}}
  BY <1>1 DEF Found
<1> HIDE DEF message, Blob
<1>5. Found(message) = {BuildBlobUrl(r.image, d) : d \in {d \in Digests :
                          \E pair \in held : pair[2] = TaskOf(Layer(r, d))}}
  BY <1>2, <1>3, <1>4
<1>6. ASSUME NEW d, NEW e, BuildBlobUrl(r.image, d) = BuildBlobUrl(r.image, e)
      PROVE  d = e
  <2>1. \A x : BuildBlobUrl(r.image, x).ref = x
    BY DEF BuildBlobUrl, RegistryUrl
  <2> QED
    BY <1>6, <2>1
<1>7. ASSUME NEW d \in Digests
      PROVE  BuildBlobUrl(r.image, d) \in Found(message)
               <=> \E pair \in held : pair[2] = TaskOf(Layer(r, d))
  BY <1>5, <1>6
<1>8. ASSUME NEW p \in Apart
      PROVE  (\E pair \in held : pair[2] = TaskOf(p)) <=> \E file \in files : file[2] = Identity(p)
  <2>1. \A x : Same(x)[2] = x
    BY DEF Same
  <2>2. (\E pair \in held : pair[2] = TaskOf(p))
          <=> \/ Same(TaskOf(p)) \in held
              \/ \E pair \in held : pair # Same(TaskOf(p)) /\ pair[2] = TaskOf(p)
    BY <2>1
  <2>3. (\E file \in files : file[2] = Identity(p))
          <=> \/ Same(Identity(p)) \in files
              \/ \E file \in files : file # Same(Identity(p)) /\ file[2] = Identity(p)
    BY <2>1
  <2>4. Same(TaskOf(p)) \in held <=> Same(Identity(p)) \in files
    BY DEF InStep, HeldInStep, Same
  <2>5. (\E pair \in held : pair # Same(TaskOf(p)) /\ pair[2] = TaskOf(p))
          <=> \E file \in files : file # Same(Identity(p)) /\ file[2] = Identity(p)
    BY DEF InStep, OthersInStep
  <2> QED
    BY <2>2, <2>3, <2>4, <2>5
<1>9. Found(message) \subseteq {BuildBlobUrl(r.image, d) : d \in Digests}
  BY <1>5
<1> QED
  BY <1>7, <1>8, <1>9 DEF message, Digests

\* A stat_image tells of the layers that run together with nothing what is held of them,
\* no more and no less, and of no other blob.
THEOREM StatTellsWhatIsHeldHolds == RequestsSpec => StatTellsWhatIsHeld
<1>1. Underway /\ InStep /\ [RequestsNext]_allVars => Underway' /\ InStep'
  BY UnderwayStepwise, InStepStepwise
<1>2. InStep =>
        [\A r \in Stats :
           StatImage(r) =>
              /\ report' \subseteq {BuildBlobUrl(r.image, d) : d \in BlobDigests(Manifest(r)[1])}
              /\ \A d \in BlobDigests(Manifest(r)[1]) : Layer(r, d) \in Apart =>
                      (BuildBlobUrl(r.image, d) \in report' <=>
                          \E file \in files : file[2] = Identity(Layer(r, d)))]_allVars
  BY FoundAreTheLayersHeld DEF StatImage
<1>3. RequestsInit => Underway /\ InStep
  BY NothingHeldAtFirst DEF InStep
<1> QED
  BY <1>1, <1>2, <1>3, PTL DEF RequestsSpec, StatTellsWhatIsHeld
================================================================================
