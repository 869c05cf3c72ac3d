--------------------------------- MODULE Errors ---------------------------------
(***************************************************************************)
(* The errors of the Rust SDK and which of them are worth another attempt  *)
(* (rust/src/errors.rs): what an attempt met becomes an error, in          *)
(* from_response for the answers of a seed peer's proxy and in from_status *)
(* for the gRPC statuses of its dfdaemon, and is_retryable judges it.      *)
(* Messages and headers of the errors are left out.                        *)
(***************************************************************************)
EXTENDS Integers

NoStatus == 0

\* The variants that carry the detail of an answer.
Details == {"BackendError", "ProxyError", "DfdaemonError"}

\* The type Error: a variant with, where it has one, an HTTP status or a gRPC code.
Error(variant, status, code) == [variant |-> variant, status |-> status, code |-> code]

Plain(variant) == Error(variant, NoStatus, "Ok")

\* Mutant: 429 is taken for definitive, like the other 4xx.
RetryableUnlessLimited(error) ==
    \/ error.variant \in {"RequestTimeout", "Internal"}
    \/ /\ error.variant \in Details
       /\ error.status \in {NoStatus, 408} \cup 500 .. 599
    \/ /\ error.variant = "TonicStatus"
       /\ error.code \in {"Internal", "Unavailable", "Unknown", "Aborted"}

IsRetryable(error) ==
    \/ error.variant \in {"RequestTimeout", "Internal"}
    \/ /\ error.variant \in Details
       /\ error.status \in {NoStatus, 408, 429} \cup 500 .. 599
    \/ /\ error.variant = "TonicStatus"
       /\ error.code \in {"Internal", "Unavailable", "Unknown", "Aborted"}

\* A gRPC status [code, backend, status]: with the detail of an origin's answer, whose
\* status code is kept if it is one, or without.
FromStatus(s) ==
    IF s.backend
    THEN Error("BackendError", IF s.status \in 100 .. 999 THEN s.status ELSE NoStatus, "Ok")
    ELSE IF s.code = "DeadlineExceeded"
    THEN Plain("RequestTimeout")
    ELSE Error("TonicStatus", NoStatus, s.code)

\* An answer [status, type] that is not 2xx, type being its X-Dragonfly-Error-Type.
FromResponse(r) ==
    Error(CASE r.type = "backend" -> "BackendError"
            [] r.type = "dfdaemon" -> "DfdaemonError"
            [] OTHER -> "ProxyError",
          r.status, "Ok")
================================================================================
