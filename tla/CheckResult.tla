----------------------------- MODULE CheckResult -----------------------------
(***************************************************************************)
(* What one check of one target reports: pkg/checker's Result, reduced to  *)
(* the fields the alert history and the exit code look at.                 *)
(*                                                                         *)
(* A result is a record                                                    *)
(*   status    Result.Status                                               *)
(*   exp       Result.ExpiresAt, NoTime standing for a nil pointer         *)
(*   days      Result.EffectiveDaysRemaining()                             *)
(*   canceled  Result.Error is a "context canceled": the check was         *)
(*             interrupted and says nothing about the server               *)
(***************************************************************************)
EXTENDS Integers

CONSTANTS
    NoTime,                 \* a nil *time.Time
    TicksPerDay,            \* resolution of the clock
    AlertThresholdDays,     \* days from which a certificate is a warning
    CriticalThresholdDays   \* days from which it is critical

ASSUME ResultAssumption ==
    /\ NoTime \notin Int
    /\ TicksPerDay \in Nat \ {0}
    /\ AlertThresholdDays \in Nat \ {0}
    /\ CriticalThresholdDays \in Nat \ {0}

Status == {"ok", "warning", "critical", "invalid", "expired", "error"}

\* -fail-on and the report order share this scale.
Severity == [ok |-> 0, warning |-> 1, critical |-> 2,
             invalid |-> 3, expired |-> 4, error |-> 5]

Valid(status) == status \in {"ok", "warning", "critical"}

Time == Int \cup {NoTime}

Result == [status : Status, exp : Time, days : Int, canceled : BOOLEAN]

(***************************************************************************)
(* A server as the checker meets it:                                       *)
(*   up       it answers and speaks TLS                                    *)
(*   trusted  its name matches and its chain leads to a known root         *)
(*   leaf     NotAfter of its certificate                                  *)
(*   chain    NotAfter of the earliest intermediate that expires before    *)
(*            the leaf, NoTime when there is none                          *)
(*   altpath  verification can reach a root without that intermediate      *)
(***************************************************************************)
Server == [up : BOOLEAN, trusted : BOOLEAN, leaf : Int, chain : Time,
           altpath : BOOLEAN]

daysRemaining(now, notAfter) == (notAfter - now) \div TicksPerDay

EffectiveDaysRemaining(srv, now) ==
    IF srv.chain # NoTime /\ daysRemaining(now, srv.chain) < daysRemaining(now, srv.leaf)
    THEN daysRemaining(now, srv.chain)
    ELSE daysRemaining(now, srv.leaf)

Verifies(srv, now) ==
    /\ srv.trusted
    /\ now <= srv.leaf
    /\ srv.chain = NoTime \/ now <= srv.chain \/ srv.altpath

\* applyCertificate: the happy path, thresholds against the whole chain.
CertificateStatus(days) ==
    IF days < 0 THEN "expired"
    ELSE IF days <= CriticalThresholdDays THEN "critical"
    ELSE IF days <= AlertThresholdDays THEN "warning" ELSE "ok"

\* classify: x509 reports a certificate out of its validity window, the leaf's
\* or an intermediate's, before anything else is known about it.
RejectedStatus(srv, now) ==
    IF now > srv.leaf \/ srv.trusted THEN "expired" ELSE "invalid"

\* refineCertStatus: the diagnostic reconnection only tells the cases apart.
RefinedStatus(srv, now) == IF now > srv.leaf THEN "expired" ELSE "invalid"

ErrorResult(canceled) ==
    [status |-> "error", exp |-> NoTime, days |-> 0, canceled |-> canceled]

\* CheckTarget. "diagnosed" says whether the insecure reconnection, made only
\* after a verification failure, got through and so left metadata behind.
CheckTarget(srv, now, diagnosed) ==
    IF ~srv.up THEN ErrorResult(FALSE)
    ELSE IF Verifies(srv, now)
    THEN [status |-> CertificateStatus(EffectiveDaysRemaining(srv, now)),
          exp |-> srv.leaf, days |-> EffectiveDaysRemaining(srv, now),
          canceled |-> FALSE]
    ELSE IF diagnosed
    THEN [status |-> RefinedStatus(srv, now),
          exp |-> srv.leaf, days |-> EffectiveDaysRemaining(srv, now),
          canceled |-> FALSE]
    ELSE [status |-> RejectedStatus(srv, now),
          exp |-> NoTime, days |-> 0, canceled |-> FALSE]
==============================================================================
