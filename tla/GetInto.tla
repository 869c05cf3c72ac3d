-------------------------------- MODULE GetInto ---------------------------------
(***************************************************************************)
(* Downloads into a buffer of the caller (rust/src/lib.rs, get_into of     *)
(* Proxy and ProxyWithEndpoints): the call takes the buffer, hands it      *)
(* through its attempts, each appending the chunks of a body as they       *)
(* arrive and cutting them off again when the body breaks, and gives it    *)
(* back when the attempts are over.                                        *)
(*                                                                         *)
(* One caller, one call after another on one buffer.  Where the attempts   *)
(* go is the matter of ProxyGet.                                           *)
(***************************************************************************)
EXTENDS Integers, Sequences

CONSTANTS
    File,           \* the chunks of the file
    MaxRetries,     \* RetryPolicy.max_retries
    MaxLength       \* no call on a buffer longer than this (bounds the model)

ASSUME GetIntoAssumption ==
    /\ File \in Seq({File[i] : i \in DOMAIN File})
    /\ MaxRetries \in Nat
    /\ MaxLength \in Nat

VARIABLES
    pc,             \* where the call is
    buf,            \* the buffer as its owner sees it
    body,           \* the buffer while the call has it
    mark,           \* its length when the attempt's response came
    chunks,         \* chunks of the file read from this response
    attempts,
    result,         \* of the last attempt, then of the call
    before          \* the buffer when the call began (history)

vars == <<pc, buf, body, mark, chunks, attempts, result, before>>

Chunks == {File[i] : i \in DOMAIN File}
Failures == {"transient", "definitive"}
Results == {"ok"} \cup Failures

TypeOK ==
    /\ pc \in {"idle", "send", "read", "decide", "returned"}
    /\ buf \in Seq(Chunks)
    /\ body \in Seq(Chunks)
    /\ mark \in 0 .. Len(body)
    /\ chunks \in 0 .. Len(File)
    /\ attempts \in 0 .. 1 + MaxRetries
    /\ result \in Results
    /\ before \in Seq(Chunks)

Init ==
    /\ pc = "idle"
    /\ buf = <<>>
    /\ body = <<>>
    /\ mark = 0
    /\ chunks = 0
    /\ attempts = 0
    /\ result = "ok"
    /\ before = <<>>

\* The request is valid and its endpoints are found: the buffer is taken.
Call ==
    /\ pc = "idle"
    /\ Len(buf) <= MaxLength
    /\ pc' = "send"
    /\ body' = buf
    /\ buf' = <<>>
    /\ before' = buf
    /\ UNCHANGED <<mark, chunks, attempts, result>>

\* The request is invalid, or no endpoint serves it.
CallInVain ==
    /\ pc = "idle"
    /\ pc' = "returned"
    /\ result' = "definitive"
    /\ before' = buf
    /\ UNCHANGED <<buf, body, mark, chunks, attempts>>

\* An attempt fails before a response with a body comes.
Fail(error) ==
    /\ pc = "send"
    /\ pc' = "decide"
    /\ attempts' = attempts + 1
    /\ result' = error
    /\ UNCHANGED <<buf, body, mark, chunks, before>>

\* The response comes.
Respond ==
    /\ pc = "send"
    /\ pc' = "read"
    /\ attempts' = attempts + 1
    /\ mark' = Len(body)
    /\ chunks' = 0
    /\ UNCHANGED <<buf, body, result, before>>

Chunk ==
    /\ pc = "read"
    /\ chunks < Len(File)
    /\ body' = Append(body, File[chunks + 1])
    /\ chunks' = chunks + 1
    /\ UNCHANGED <<pc, buf, mark, attempts, result, before>>

\* The body ends.
End ==
    /\ pc = "read"
    /\ chunks = Len(File)
    /\ pc' = "decide"
    /\ result' = "ok"
    /\ mark' = 0
    /\ chunks' = 0
    /\ UNCHANGED <<buf, body, attempts, before>>

\* Mutant: the buffer is cut back to where the last chunk began.
BreakCuttingOneChunk ==
    /\ pc = "read"
    /\ body' = SubSeq(body, 1, IF chunks = 0 THEN mark ELSE Len(body) - 1)
    /\ pc' = "decide"
    /\ result' = "transient"
    /\ mark' = 0
    /\ chunks' = 0
    /\ UNCHANGED <<buf, attempts, before>>

\* The body breaks, or the request's timeout strikes: both are transient.
Break ==
    /\ pc = "read"
    /\ body' = SubSeq(body, 1, mark)
    /\ pc' = "decide"
    /\ result' = "transient"
    /\ mark' = 0
    /\ chunks' = 0
    /\ UNCHANGED <<buf, attempts, before>>

WillRetry == result = "transient" /\ attempts < 1 + MaxRetries

\* Mutant: the attempts are counted afresh after every failure.
DecideAfresh ==
    /\ pc = "decide"
    /\ IF result = "transient"
       THEN pc' = "send" /\ attempts' = 0 /\ UNCHANGED <<buf, body>>
       ELSE pc' = "returned" /\ buf' = body /\ body' = <<>> /\ UNCHANGED attempts
    /\ UNCHANGED <<mark, chunks, result, before>>

\* Retry, or give the buffer back and return.
Decide ==
    /\ pc = "decide"
    /\ IF WillRetry
       THEN pc' = "send" /\ UNCHANGED <<buf, body>>
       ELSE pc' = "returned" /\ buf' = body /\ body' = <<>>
    /\ UNCHANGED <<mark, chunks, attempts, result, before>>

Rest ==
    /\ pc' = "idle"
    /\ body' = <<>>
    /\ mark' = 0
    /\ chunks' = 0
    /\ attempts' = 0
    /\ result' = "ok"
    /\ before' = <<>>

\* The caller drops the call, and the buffer with it.
Drop ==
    /\ pc \in {"send", "read", "decide"}
    /\ Rest
    /\ UNCHANGED buf

\* The caller takes the result; it may empty the buffer before the next call.
TakeResult ==
    /\ pc = "returned"
    /\ Rest
    /\ buf' \in {buf, <<>>}

Progress ==
    \/ \E error \in Failures : Fail(error)
    \/ Respond \/ Chunk \/ End \/ Break
    \/ Decide

Next == Call \/ CallInVain \/ Progress \/ Drop \/ TakeResult

Spec == Init /\ [][Next]_vars

\* The timeout of the request ends every attempt.
FairSpec == Spec /\ WF_vars(Progress)

--------------------------------------------------------------------------------

\* A call that returns Ok has appended the file to the buffer, once and whole, and
\* one that returns an error has left the buffer as it was, however many bodies
\* broke at whatever chunk on the way (lib.rs:239-242).
AppendsOnceOrNothing ==
    pc = "returned" =>
        /\ buf = IF result = "ok" THEN before \o File ELSE before
        /\ result = "transient" => attempts = 1 + MaxRetries

\* The inductive invariant behind it: the call holds what was in the buffer, and
\* behind it what it has read of the file in this attempt.
Holding ==
    /\ pc # "read" => mark = 0
    /\ pc = "idle" => attempts = 0
    /\ pc = "send" => attempts <= MaxRetries /\ body = before
    /\ pc = "read" => mark = Len(before) /\ body = before \o SubSeq(File, 1, chunks)
    /\ pc = "decide" => body = IF result = "ok" THEN before \o File ELSE before

IndInv == TypeOK /\ Holding /\ AppendsOnceOrNothing

\* Every call returns, unless its caller drops it.
EveryCallReturns == pc = "send" ~> pc \in {"returned", "idle"}
================================================================================
