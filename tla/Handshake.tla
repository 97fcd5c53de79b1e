------------------------------ MODULE Handshake ------------------------------
(***************************************************************************)
(* How one target is connected to: the errors a connection may end with,   *)
(* what classify makes of them, and the life of one check (CheckTarget and *)
(* handshake of pkg/checker) as steps on a record.  The connections        *)
(* themselves are the environment; the steps are interleaved by CheckPool. *)
(***************************************************************************)
EXTENDS Integers, Sequences

CONSTANTS
    Retries,      \* Options.Retries: verified attempts per target
    DialErrors,   \* how a connection may fail in this instance
    Verdicts      \* what a verified certificate may be found to be

\* An expired intermediate, or a leaf out of its window, is "window"; "refusal"
\* is a server that declines STARTTLS; "plaintext" one that does not speak TLS.
CertError == {"hostname", "authority", "window"}

Transient == {"resolver", "timeout", "refused", "reset", "unreachable", "eof", "unknown"}

DialError == CertError \cup Transient
                 \cup {"refusal", "nxdomain", "canceled", "plaintext", "alert"}

\* A verified chain may still hold an intermediate past its date, when
\* verification found a path around it.
VerifiedStatus == {"ok", "warning", "critical", "expired"}

ASSUME HandshakeAssumption ==
    /\ Retries \in Nat \ {0}
    /\ DialErrors \in SUBSET (DialError \ {"canceled"})
    /\ Verdicts \in SUBSET VerifiedStatus

\* The empty string.
None == ""

Kind == {None, "dns", "timeout", "refused", "expired", "hostname_mismatch",
         "untrusted", "not_yet_valid", "protocol", "other"}

KindOf(e) ==
    CASE e = "hostname"                           -> "hostname_mismatch"
      [] e = "authority"                          -> "untrusted"
      [] e = "window"                             -> "expired"
      [] e \in {"resolver", "nxdomain"}           -> "dns"
      [] e \in {"timeout", "refused"}             -> e
      [] e \in {"eof", "refusal", "plaintext", "alert"} -> "protocol"
      [] OTHER                                    -> "other"

\* Mutated form: a certificate that failed verification tried again.
classifyTransient(e) ==
    [kind |-> KindOf(e),
     status |-> IF e = "window" THEN "expired"
                ELSE IF e \in CertError THEN "invalid" ELSE "error",
     retryable |-> e \in Transient \cup CertError, certErr |-> e \in CertError]

classify(e) ==
    [kind |-> KindOf(e),
     status |-> IF e = "window" THEN "expired"
                ELSE IF e \in CertError THEN "invalid" ELSE "error",
     retryable |-> e \in Transient, certErr |-> e \in CertError]

\* Result, without what is copied from the certificate.  insecure is
\* MetadataInsecure; error is the failure Result.Error describes, if any.
Result == [status : {"ok", "warning", "critical", "expired", "invalid", "error"},
           kind : Kind, error : DialError \cup {None}, attempts : 1..Retries,
           insecure : BOOLEAN]

\* The zero value a result slot is made with.
ZeroResult == [status |-> None, kind |-> None, error |-> None, attempts |-> 0, insecure |-> FALSE]

Valid(status) == status \in {"ok", "warning", "critical"}

(***************************************************************************)
(* One check.                                                              *)
(*   phase     where the goroutine is                                      *)
(*   tried     how the verified attempts ended so far                      *)
(*   res       the result under construction                               *)
(*   late      connections begun after the signal                          *)
(***************************************************************************)
Phase == {"idle", "dialing", "backoff", "diagnosing", "storing", "stored",
          "released", "over"}

IdleCheck == [phase |-> "idle", tried |-> <<>>, res |-> ZeroResult, late |-> 0]

One(done) == IF done THEN 1 ELSE 0

Attempts(w) == Len(w.tried)

\* A new verified attempt.
Dial(w, done) == [w EXCEPT !.phase = "dialing", !.late = @ + One(done)]

\* applyCertificate.
Verified(w, status) ==
    [w EXCEPT !.phase = "storing", !.tried = Append(@, "verified"),
              !.res = [status |-> status,
                       kind |-> IF status = "expired" THEN "expired" ELSE None,
                       error |-> None, attempts |-> Attempts(w) + 1, insecure |-> FALSE]]

\* Mutated form: the context not looked at between two attempts.
GivesUpWhenSpent(w, e, done) ==
    ~classify(e).retryable \/ Attempts(w) + 1 >= Retries

\* Is a failure the last word?
GivesUp(w, e, done) ==
    \/ ~classify(e).retryable
    \/ Attempts(w) + 1 >= Retries
    \/ done

\* Mutated form: the counter as an exhausted loop leaves it.
ConcludePastTheEnd(w, e, done) ==
    LET c == classify(e)
    IN  [w EXCEPT !.phase = "storing",
                  !.res = [status |-> c.status, kind |-> c.kind, error |-> e,
                           attempts |-> Attempts(w) + 1, insecure |-> FALSE]]

\* handshake returns a failure: a certificate error is worth a diagnostic
\* connection, any other failure is the result.
Conclude(w, e, done) ==
    LET c == classify(e)
    IN  [w EXCEPT !.phase = IF c.certErr THEN "diagnosing" ELSE "storing",
                  !.late = @ + One(done /\ c.certErr),
                  !.res = [status |-> c.status, kind |-> c.kind, error |-> e,
                           attempts |-> Attempts(w), insecure |-> FALSE]]

Failed(w, e, done) ==
    LET noted == [w EXCEPT !.tried = Append(@, e)]
    IN  IF GivesUp(w, e, done) THEN Conclude(noted, e, done)
        ELSE [noted EXCEPT !.phase = "backoff"]

\* The diagnostic connection was not verified.  It found a certificate before,
\* inside or after its window; the server may present another one by now.
Window == {"before", "inside", "after"}

\* Mutated form: the status taken from the unverified certificate.
RefinedByDates(res, window) ==
    [res EXCEPT !.status = IF window = "inside" THEN "ok" ELSE "expired",
                !.insecure = TRUE]

Refined(res, window) ==
    CASE window = "after"  -> [res EXCEPT !.status = "expired", !.kind = "expired",
                                          !.insecure = TRUE]
      [] window = "before" -> [res EXCEPT !.status = "invalid", !.kind = "not_yet_valid",
                                          !.insecure = TRUE]
      [] window = "inside" /\ res.kind = "expired" ->
             [res EXCEPT !.status = "invalid", !.kind = "untrusted", !.insecure = TRUE]
      [] OTHER -> [res EXCEPT !.insecure = TRUE]

Diagnosed(w, window) == [w EXCEPT !.phase = "storing", !.res = Refined(@, window)]
==============================================================================
