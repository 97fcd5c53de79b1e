------------------------------ MODULE CheckedRun ------------------------------
(***************************************************************************)
(* A process and its checks: RunLoop and CheckPool over one signal         *)
(* context.  What RunLoop takes for granted of a check, the goroutines of  *)
(* checkAll do here, once per cycle; the verdict is made of what they have *)
(* stored.  Every mode and every fault of RunLoop may occur.               *)
(***************************************************************************)
EXTENDS CheckPool

VARIABLES mode, main, signalled, held, worst, found, report, http, outcome,
          serverError, request, grace, code    \* as in RunLoop

AnyMode == [serve : BOOLEAN, interval : BOOLEAN, failOn : 1..6]

R == INSTANCE RunLoop WITH
    Modes <- AnyMode,
    Severities <- 0..5,
    Faults <- {"signal", "write", "accept"}

pool == <<loop, started, sem, check, results>>

life == <<mode, main, signalled, held, worst, found, report, http, outcome,
          serverError, request, grace, code>>

all == <<ctx, pool, life>>

CheckedInit == R!Init /\ Init

\* The goroutines work while run waits for checkAll.
Checking ==
    /\ main = "checking"
    /\ Main \/ \E i \in Index : Worker(i)
    /\ UNCHANGED life

Severity == [ok |-> 0, warning |-> 1, critical |-> 2, invalid |-> 3, expired |-> 4, error |-> 5]

\* Of results[:started], the list the report is built of.
WorstSeverity ==
    LET severities == {R!Nothing} \cup {Severity[results[i].status] : i \in 1..started}
    IN  CHOOSE s \in severities : \A t \in severities : t <= s

Garbled == started < N \/ \E i \in 1..started : results[i].error = "canceled"

Verdict == [worst |-> WorstSeverity, garbled |-> Garbled]

\* checkAll has returned.
Collect ==
    /\ main = "checking"
    /\ loop = "returned"
    /\ main' = "checked"
    /\ held' = Verdict
    /\ UNCHANGED <<mode, ctx, signalled, worst, found, report, http, outcome,
                   serverError, request, grace, code, pool>>

\* The next cycle has a list and a semaphore of its own.
Again ==
    /\ R!IntervalOver
    /\ loop' = "spawning"
    /\ started' = 0
    /\ sem' = 0
    /\ check' = [i \in Index |-> IdleCheck]
    /\ results' = [i \in Index |-> ZeroResult]

Beside ==
    /\ \/ R!Begin \/ R!Refuse \/ R!Interrupted \/ R!Publish \/ R!PublishFails \/ R!Decide
       \/ R!Stop \/ R!StopServing \/ R!ServerEnded \/ R!GiveUpOnServer
       \/ R!RunDeferred(1) \/ R!RunDeferred(2)
       \/ R!Server \/ R!ServerFails \/ R!Accept \/ R!Answer \/ R!GraceOver \/ R!Signal
    /\ UNCHANGED pool

CheckedNext == Checking \/ Collect \/ Again \/ Beside

CheckedSpec == CheckedInit /\ [][CheckedNext]_all
-------------------------------------------------------------------------------
\* With checkAll in the place of its Check, the process is the one of RunLoop.
ImplementsRunLoop == R!Spec

\* "Everything turns into context canceled" (main.go checkOnce): what is
\* published, in whichever cycle, is a final result for every target, none of
\* which the signal cut short.
EveryReportIsWhole ==
    [][R!Publish => \A i \in Index : results[i] \in Result /\ results[i].error # "canceled"]_all

\* The exit code of a single check is about its results (main.go run): 2 if and
\* only if a target is as bad as -fail-on says, 0 only if every target was
\* checked and none is; without a report it is 1, unless a signal came.
ExitTellsTheResults ==
    main = "exited" /\ ~mode.interval /\ ~mode.serve =>
        IF report = "complete"
        THEN code = IF \E i \in Index : Severity[results[i].status] >= mode.failOn THEN 2 ELSE 0
        ELSE signalled \/ code = 1

\* "2 means it ran and found what you told it to look for" (README).
FoundIsReal == R!FoundIsReal
===============================================================================
