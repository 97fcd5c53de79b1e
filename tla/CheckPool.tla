------------------------------ MODULE CheckPool ------------------------------
(***************************************************************************)
(* checkAll of cmd/sslscout: the targets are checked by goroutines, at     *)
(* most Concurrency of them at a time, each filling its own slot of the    *)
(* result list.  A signal cancels the context all of them share; the list  *)
(* is then cut where the loop stopped, once everyone started has finished. *)
(***************************************************************************)
EXTENDS Handshake, FiniteSets

CONSTANTS
    N,             \* length of the target list
    Concurrency    \* slots of the semaphore

ASSUME PoolAssumption ==
    /\ N \in Nat \ {0}
    /\ Concurrency \in Nat \ {0}

Index == 1..N

VARIABLES
    ctx,       \* the signal context: TRUE once it is done
    loop,      \* checkAll: "spawning", "waiting" for the group, "returned"
    started,   \* goroutines started
    sem,       \* slots taken
    check,     \* check[i]: the goroutine of target i
    results    \* the shared list

vars == <<ctx, loop, started, sem, check, results>>

Init ==
    /\ ctx = FALSE
    /\ loop = "spawning"
    /\ started = 0
    /\ sem = 0
    /\ check = [i \in Index |-> IdleCheck]
    /\ results = [i \in Index |-> ZeroResult]

Goes(i, w) == check' = [check EXCEPT ![i] = w]

\* The slot is acquired before the goroutine exists.
Spawn ==
    /\ loop = "spawning"
    /\ started < N
    /\ sem < Concurrency
    /\ sem' = sem + 1
    /\ started' = started + 1
    /\ Goes(started + 1, Dial(check[started + 1], ctx))
    /\ UNCHANGED <<ctx, loop, results>>

\* select picks any ready case: a free slot does not keep it from this one.
Cut ==
    /\ loop = "spawning"
    /\ started < N
    /\ ctx
    /\ loop' = "waiting"
    /\ UNCHANGED <<ctx, started, sem, check, results>>

AllSpawned ==
    /\ loop = "spawning"
    /\ started = N
    /\ loop' = "waiting"
    /\ UNCHANGED <<ctx, started, sem, check, results>>

\* Mutated form: the early return that does not wait for the group.
GroupDoneUnlessCut == started < N \/ \A i \in Index : check[i].phase \in {"idle", "over"}

\* wg.Wait().
GroupDone == \A i \in Index : check[i].phase \in {"idle", "over"}

Return ==
    /\ loop = "waiting"
    /\ GroupDone
    /\ loop' = "returned"
    /\ UNCHANGED <<ctx, started, sem, check, results>>

OnlyCheck == UNCHANGED <<ctx, loop, started, sem, results>>

\* Every attempt ends: the deadline covers the connection, the STARTTLS
\* dialogue and the handshake.  A connection begun under a done context fails,
\* in the resolver or in the dialer; one the signal finds under way may still
\* end in any way.
Fails(w) ==
    IF w.late > 0 THEN {"canceled", "resolver"}
    ELSE IF ctx THEN DialErrors \cup {"canceled"} ELSE DialErrors

DialSucceeds(i) ==
    /\ check[i].phase = "dialing"
    /\ check[i].late = 0
    /\ \E status \in Verdicts : Goes(i, Verified(check[i], status))
    /\ OnlyCheck

DialFails(i) ==
    /\ check[i].phase = "dialing"
    /\ \E e \in Fails(check[i]) : Goes(i, Failed(check[i], e, ctx))
    /\ OnlyCheck

BackoffOver(i) ==
    /\ check[i].phase = "backoff"
    /\ Goes(i, Dial(check[i], ctx))
    /\ OnlyCheck

BackoffCut(i) ==
    /\ check[i].phase = "backoff"
    /\ ctx
    /\ Goes(i, Conclude(check[i], check[i].tried[Attempts(check[i])], ctx))
    /\ OnlyCheck

Diagnose(i) ==
    /\ check[i].phase = "diagnosing"
    /\ check[i].late = 0
    /\ \E window \in Window : Goes(i, Diagnosed(check[i], window))
    /\ OnlyCheck

DiagnoseFails(i) ==
    /\ check[i].phase = "diagnosing"
    /\ Goes(i, [check[i] EXCEPT !.phase = "storing"])
    /\ OnlyCheck

Store(i) ==
    /\ check[i].phase = "storing"
    /\ results' = [results EXCEPT ![i] = check[i].res]
    /\ Goes(i, [check[i] EXCEPT !.phase = "stored"])
    /\ UNCHANGED <<ctx, loop, started, sem>>

\* Mutated form: the slot kept.
SlotsAfterLeak(n) == n

SlotsAfter(n) == n - 1

\* Deferred calls run last first: the slot, then the group.
Release(i) ==
    /\ check[i].phase = "stored"
    /\ sem' = SlotsAfter(sem)
    /\ Goes(i, [check[i] EXCEPT !.phase = "released"])
    /\ UNCHANGED <<ctx, loop, started, results>>

Leave(i) ==
    /\ check[i].phase = "released"
    /\ Goes(i, [check[i] EXCEPT !.phase = "over"])
    /\ OnlyCheck

Signal ==
    /\ ~ctx
    /\ ctx' = TRUE
    /\ UNCHANGED <<loop, started, sem, check, results>>

Worker(i) ==
    \/ DialSucceeds(i) \/ DialFails(i) \/ BackoffOver(i) \/ BackoffCut(i)
    \/ Diagnose(i) \/ DiagnoseFails(i) \/ Store(i) \/ Release(i) \/ Leave(i)

Main == Spawn \/ Cut \/ AllSpawned \/ Return

Next == Main \/ Signal \/ \E i \in Index : Worker(i)

Spec == Init /\ [][Next]_vars

\* Every goroutine runs on; no connection outlives its deadline.
Fairness == WF_vars(Main) /\ \A i \in Index : WF_vars(Worker(i))

FairSpec == Spec /\ Fairness
-------------------------------------------------------------------------------
\* Every variable keeps its type.
TypeOK ==
    /\ ctx \in BOOLEAN
    /\ loop \in {"spawning", "waiting", "returned"}
    /\ started \in 0..N
    /\ sem \in 0..Concurrency
    /\ \A i \in Index :
         /\ check[i].phase \in Phase
         /\ check[i].tried \in Seq(DialError \cup {"verified"})
         /\ check[i].res \in Result \cup {ZeroResult}
         /\ check[i].late \in Nat
    /\ results \in [Index -> Result \cup {ZeroResult}]

Connected == {i \in Index : check[i].phase \in {"dialing", "backoff", "diagnosing"}}

\* "While respecting the concurrency limit" (main.go checkAll): the slots taken
\* are those of the goroutines that have not given theirs back, so no more than
\* Concurrency targets are connected to at once.
SlotsAreHeld ==
    /\ sem = Cardinality({i \in Index : check[i].phase \notin {"idle", "released", "over"}})
    /\ Cardinality(Connected) <= Concurrency

\* "Retrying transient failures only" (checker.go handshake): every attempt but
\* the last ended in a transient failure, the last one did so only when the
\* attempts were used up or the signal had come, and the count reported is the
\* number of attempts made.
RetryPolicy ==
    \A i \in Index : check[i].phase \in {"diagnosing", "storing", "stored"} =>
        LET tried == check[i].tried
            last  == tried[Len(tried)]
        IN  /\ Len(tried) \in 1..Retries
            /\ \A k \in 1..(Len(tried) - 1) : tried[k] \in Transient
            /\ last \in Transient => Len(tried) = Retries \/ ctx
            /\ check[i].res.attempts = Len(tried)

\* The golden rule (checker.go CheckTarget): "the reconnection never validates
\* the domain".  A result is valid only when the last attempt was verified, an
\* unverified certificate is always marked as such, and what it can change is
\* which of expired and invalid the failure is called.
GoldenRule ==
    \A i \in Index : check[i].phase \in {"storing", "stored"} =>
        LET last == check[i].tried[Len(check[i].tried)]
            res  == check[i].res
        IN  /\ Valid(res.status) => last = "verified" /\ ~res.insecure
            /\ res.insecure => last \in CertError
            /\ last \in CertError => res.status \in {"expired", "invalid"}

\* The context reaches every goroutine: once the signal has come, no target is
\* connected to more than once more, not even for the diagnosis.
SignalStopsDialing == \A i \in Index : check[i].late <= 1

\* The list checkAll answers with, results[:started].
Batch == INSTANCE CheckBatch WITH
    cancelled <- ctx,
    Final <- Result,
    Garbled <- {r \in Result : r.error = "canceled"},
    answered <- loop = "returned",
    list <- IF loop = "returned" THEN [i \in 1..started |-> results[i]] ELSE <<>>

\* checkAll is a batch: it answers, with final results only, with all of them
\* unless the signal came.
ImplementsBatch == Batch!Spec
==============================================================================
