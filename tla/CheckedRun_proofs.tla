-------------------------- MODULE CheckedRun_proofs --------------------------
(***************************************************************************)
(* Proofs about CheckedRun: checkAll may stand in the place of RunLoop's   *)
(* Check, in any number of cycles, for any list of targets, any mode and   *)
(* any fault.                                                              *)
(***************************************************************************)
EXTENDS CheckedRun, CheckPool_proofs

-------------------------------------------------------------------------------
(* The pool in its process.                                                *)

(* All that the rest of a process does to the pool is to cancel its context. *)
LEMMA BesideContext ==
    ASSUME Beside, ctx \in BOOLEAN
    PROVE  UNCHANGED pool /\ (ctx' = ctx \/ ctx' = TRUE)
<1>1. CASE R!Begin \/ R!Refuse \/ R!Interrupted \/ R!Publish \/ R!PublishFails \/ R!Decide
  BY <1>1 DEF Beside, R!Begin, R!Refuse, R!Interrupted, R!Publish, R!PublishFails, R!Decide
<1>2. CASE R!Stop \/ R!StopServing \/ R!ServerEnded \/ R!GiveUpOnServer
  BY <1>2 DEF Beside, R!Stop, R!StopServing, R!ServerEnded, R!GiveUpOnServer
<1>3. CASE R!RunDeferred(1) \/ R!RunDeferred(2)
  BY <1>3 DEF Beside, R!RunDeferred
<1>4. CASE R!Server \/ R!ServerFails \/ R!Accept \/ R!Answer \/ R!GraceOver \/ R!Signal
  BY <1>4 DEF Beside, R!Server, R!ServerCloses, R!ServerReports, R!ServerFails, R!Accept, R!Answer,
     R!GraceOver, R!Signal
<1>5. QED
  BY <1>1, <1>2, <1>3, <1>4 DEF Beside

(* A context that is done, or not, disturbs no pool at rest. *)
LEMMA ContextInv ==
    ASSUME IInv, UNCHANGED pool, ctx' = ctx \/ ctx' = TRUE
    PROVE  IInv'
<1>1. CASE ctx' = ctx
  <2>1. UNCHANGED vars
    BY <1>1 DEF pool, vars
  <2>2. QED
    BY <2>1, NextInv
<1>2. CASE ctx' = TRUE /\ ctx' # ctx
  <2>1. ~ctx
    BY <1>2 DEF IInv, PoolInv
  <2>2. Signal
    BY <1>2, <2>1 DEF Signal, pool
  <2>3. QED
    BY <2>2, SignalInv
<1>3. QED
  BY <1>1, <1>2

(* A new pool is a sound one, whatever has become of the context. *)
LEMMA NewPoolInv ==
    ASSUME ctx' \in BOOLEAN, loop' = "spawning", started' = 0, sem' = 0,
           check' = [i \in Index |-> IdleCheck], results' = [i \in Index |-> ZeroResult]
    PROVE  IInv'
<1>1. check' \in [Index -> Goroutine]
  BY IdleType
<1>2. \A i \in Index : check'[i] = IdleCheck /\ check'[i].phase = "idle" /\ check'[i].late = 0
  BY DEF IdleCheck
<1>3. \A i \in Index : Sound(check'[i], ctx')
  BY <1>1, <1>2 DEF Sound, Concluded
<1>4. Holders' = {}
  BY <1>2 DEF Holders, Holding
<1>5. sem' = Cardinality(Holders') /\ sem' \in 0..Concurrency
  BY <1>4, FS_EmptySet, PoolAssumption
<1>6. \A i \in Index : i > started' <=> check'[i].phase = "idle"
  BY <1>2, PoolAssumption DEF Index
<1>7. PoolInv'
  BY <1>1, <1>3, <1>5, <1>6, PoolAssumption DEF PoolInv
<1>8. ListInv'
  BY <1>2 DEF ListInv
<1>9. QED
  BY <1>7, <1>8 DEF IInv

(* What checkAll has promised to checkOnce when it returns. *)
LEMMA ReturnedList ==
    ASSUME IInv, loop = "returned"
    PROVE  /\ started \in 0..N
           /\ \A i \in 1..started : i \in Index /\ results[i] \in Result
           /\ Garbled => ctx
<1>1. started \in 0..N /\ (started = N \/ ctx) /\ N \in Nat
  BY PoolAssumption DEF IInv, PoolInv, ListInv
<1>2. ASSUME NEW i \in 1..started
      PROVE  i \in Index /\ results[i] \in Result /\ (results[i].error = "canceled" => ctx)
  <2>1. i \in Index /\ ~(i > started)
    BY <1>1, <1>2 DEF Index
  <2>2. check[i].phase = "over"
    BY <2>1 DEF GroupDone, IInv, PoolInv, ListInv
  <2>3. Counted(check[i], ctx) /\ results[i] = check[i].res
    BY <2>1, <2>2 DEF IInv, PoolInv, ListInv, Sound, Concluded
  <2>4. QED
    BY <2>1, <2>3 DEF Counted
<1>3. QED
  BY <1>1, <1>2 DEF Garbled

-------------------------------------------------------------------------------
(* The verdict.                                                            *)

LEMMA SeverityType ==
    ASSUME NEW r \in Result
    PROVE  Severity[r.status] \in 0..5
  BY DEF Result, Severity

(* Severities have a worst: looked for from the top. *)
LEMMA WorstIsThere ==
    ASSUME NEW S \in SUBSET (-1..5), S # {}
    PROVE  \E s \in S : \A t \in S : t <= s
<1>1. CASE 5 \in S
  BY <1>1
<1>2. CASE 5 \notin S /\ 4 \in S
  BY <1>2
<1>3. CASE 5 \notin S /\ 4 \notin S /\ 3 \in S
  BY <1>3
<1>4. CASE 5 \notin S /\ 4 \notin S /\ 3 \notin S /\ 2 \in S
  BY <1>4
<1>5. CASE 5 \notin S /\ 4 \notin S /\ 3 \notin S /\ 2 \notin S /\ 1 \in S
  BY <1>5
<1>6. CASE 5 \notin S /\ 4 \notin S /\ 3 \notin S /\ 2 \notin S /\ 1 \notin S /\ 0 \in S
  BY <1>6
<1>7. CASE 5 \notin S /\ 4 \notin S /\ 3 \notin S /\ 2 \notin S /\ 1 \notin S /\ 0 \notin S
  <2>1. \A s \in S : s <= -1
    BY <1>7
  <2>2. PICK s \in S : TRUE
    OBVIOUS
  <2>3. s <= -1 /\ -1 <= s
    BY <2>1, <2>2
  <2>4. \A t \in S : t <= s
    BY <2>1, <2>3
  <2>5. QED
    BY <2>4
<1>8. QED
  BY <1>1, <1>2, <1>3, <1>4, <1>5, <1>6, <1>7

(* WorstSeverity is a bound of the severities, and one of them. *)
LEMMA WorstIsWorst ==
    ASSUME IInv, loop = "returned"
    PROVE  /\ WorstSeverity \in -1..5
           /\ \A i \in 1..started : Severity[results[i].status] <= WorstSeverity
           /\ WorstSeverity = -1 \/ \E i \in 1..started : WorstSeverity = Severity[results[i].status]
<1> DEFINE severities == {R!Nothing} \cup {Severity[results[i].status] : i \in 1..started}
<1>1. \A i \in 1..started : Severity[results[i].status] \in 0..5
  BY ReturnedList, SeverityType
<1>2. R!Nothing = -1
  BY DEF R!Nothing
<1>3. severities \in SUBSET (-1..5) /\ severities # {}
  BY <1>1, <1>2
<1>4. WorstSeverity = CHOOSE s \in severities : \A t \in severities : t <= s
  BY DEF WorstSeverity
<1> HIDE DEF severities
<1>5. WorstSeverity \in severities /\ \A t \in severities : t <= WorstSeverity
  BY <1>3, <1>4, WorstIsThere
<1>6. QED
  BY <1>2, <1>3, <1>5 DEF severities

-------------------------------------------------------------------------------
(* The inductive invariant: between two checks the pool has returned, and the  *)
(* verdict in hand is its verdict.                                             *)

Resting == R!Label \ {"starting", "checking", "refused"}

VerdictInv ==
    /\ mode \in AnyMode
    /\ main \in R!Label
    /\ held.garbled => ctx
    /\ report \in {"old", "complete"}
    /\ main \in Resting => loop = "returned" /\ held = Verdict

(* The context is done because of the signal, until run itself cancels it; of  *)
(* a single check the report, if any, is that of the verdict, and so is the    *)
(* code.                                                                       *)
OneShotInv ==
    /\ ctx => signalled \/ main \in {"joining", "exited"}
    /\ ~mode.interval /\ ~mode.serve =>
         /\ main \notin {"sleeping", "serving", "stopping"}
         /\ main \in {"starting", "checking", "checked", "refused"} => report = "old"
         /\ main = "decided" /\ report = "old" => signalled
         /\ report # "old" => worst = held.worst /\ ~held.garbled
         /\ main \in {"leaving", "joining", "exited"} =>
              IF report # "old" THEN code = R!ExitCode(mode, worst) ELSE signalled \/ code = 1

CInv == IInv /\ VerdictInv /\ OneShotInv

LEMMA CheckedInitInv == CheckedInit => CInv
<1> SUFFICES ASSUME CheckedInit PROVE CInv
  OBVIOUS
<1>1. IInv
  BY InitInv DEF CheckedInit
<1>2. VerdictInv /\ OneShotInv
  BY DEF CheckedInit, R!Init, VerdictInv, OneShotInv, Resting, R!Label, R!NoResults
<1>3. QED
  BY <1>1, <1>2 DEF CInv

(* The pool is sound in every cycle. *)
LEMMA PoolKept ==
    ASSUME IInv, [CheckedNext]_all
    PROVE  IInv'
<1>1. CASE Checking
  <2>1. Next
    BY <1>1 DEF Checking, Next
  <2>2. QED
    BY <2>1, NextInv
<1>2. CASE Collect
  BY <1>2, ContextInv DEF Collect
<1>3. CASE Again
  <2>1. /\ ctx' \in BOOLEAN /\ loop' = "spawning" /\ started' = 0 /\ sem' = 0
        /\ check' = [i \in Index |-> IdleCheck] /\ results' = [i \in Index |-> ZeroResult]
    BY <1>3 DEF Again, R!IntervalOver, IInv, PoolInv
  <2>2. QED
    BY <2>1, NewPoolInv
<1>4. CASE Beside
  BY <1>4, BesideContext, ContextInv DEF IInv, PoolInv
<1>5. CASE UNCHANGED all
  BY <1>5, ContextInv DEF all
<1>6. QED
  BY <1>1, <1>2, <1>3, <1>4, <1>5 DEF CheckedNext

LEMMA VerdictStays ==
    ASSUME UNCHANGED pool
    PROVE  Verdict' = Verdict
  BY DEF Verdict, WorstSeverity, Garbled, pool

LEMMA BesideVerdict ==
    ASSUME CInv, Beside
    PROVE  VerdictInv' /\ OneShotInv'
<1> USE DEF CInv, VerdictInv, OneShotInv, Resting
<1>1. mode.serve \in BOOLEAN /\ mode.interval \in BOOLEAN /\ ctx \in BOOLEAN
  BY DEF AnyMode, IInv, PoolInv
<1>2. loop' = loop /\ Verdict' = Verdict
  BY VerdictStays DEF Beside, pool
<1>3. CASE R!Begin \/ R!Refuse \/ R!Interrupted
  BY <1>1, <1>2, <1>3 DEF R!Begin, R!Refuse, R!Interrupted, R!Usable, R!verdict, R!server, R!Label
<1>4. CASE R!Publish \/ R!PublishFails
  BY <1>1, <1>2, <1>4 DEF R!Publish, R!PublishFails, R!Usable, R!EndsOnError, R!verdict,
     R!server, R!Label
<1>5. CASE R!Decide
  BY <1>1, <1>2, <1>5 DEF R!Decide, R!verdict, R!server, R!Label
<1>6. CASE R!Stop \/ R!StopServing \/ R!ServerEnded \/ R!GiveUpOnServer
  BY <1>1, <1>2, <1>6 DEF R!Stop, R!StopServing, R!ServerEnded, R!GiveUpOnServer, R!verdict,
     R!server, R!Label
<1>7. CASE R!RunDeferred(1) \/ R!RunDeferred(2)
  BY <1>1, <1>2, <1>7 DEF R!RunDeferred, R!Deferred, R!verdict, R!server, R!Label
<1>8. CASE R!Server \/ R!ServerFails \/ R!Accept \/ R!Answer \/ R!GraceOver \/ R!Signal
  BY <1>1, <1>2, <1>8 DEF R!Server, R!ServerCloses, R!ServerReports, R!ServerFails, R!Accept,
     R!Answer, R!GraceOver, R!Signal, R!verdict, R!server, R!Label
<1>9. QED
  BY <1>3, <1>4, <1>5, <1>6, <1>7, <1>8 DEF Beside

LEMMA CheckedInv ==
    ASSUME CInv, [CheckedNext]_all
    PROVE  CInv'
<1> USE DEF CInv, VerdictInv, OneShotInv, Resting
<1>1. CASE Checking
  <2>1. ctx' = ctx /\ main \notin Resting
    BY <1>1 DEF Checking, Main, Spawn, Cut, AllSpawned, Return, Worker, OnlyCheck, DialSucceeds,
       DialFails, BackoffOver, BackoffCut, Diagnose, DiagnoseFails, Store, Release, Leave
  <2>2. UNCHANGED life
    BY <1>1 DEF Checking
  <2>3. QED
    BY <2>1, <2>2, PoolKept DEF life
<1>2. CASE Collect
  <2>1. loop = "returned" /\ loop' = loop /\ Verdict' = Verdict /\ held' = Verdict
    BY <1>2, VerdictStays DEF Collect, pool
  <2>2. held'.garbled => ctx
    BY <2>1, ReturnedList DEF Verdict
  <2>3. QED
    BY <1>2, <2>1, <2>2, PoolKept DEF Collect, R!Label
<1>3. CASE Again
  BY <1>3, PoolKept DEF Again, R!IntervalOver, R!NoResults, R!server, R!Label
<1>4. CASE Beside
  BY <1>4, BesideVerdict, PoolKept
<1>5. CASE UNCHANGED all
  <2>1. Verdict' = Verdict
    BY <1>5, VerdictStays DEF all
  <2>2. QED
    BY <1>5, <2>1, PoolKept DEF all, life, pool
<1>6. QED
  BY <1>1, <1>2, <1>3, <1>4, <1>5 DEF CheckedNext

LEMMA CheckedHolds == CheckedSpec => []CInv
<1>1. CInv /\ [CheckedNext]_all => CInv'
  BY CheckedInv
<1>2. QED
  BY <1>1, CheckedInitInv, PTL DEF CheckedSpec

-------------------------------------------------------------------------------
(* The theorems.                                                           *)

(* In every cycle of a process the pool keeps what it keeps when it is asked   *)
(* once: its slots, its retries, the golden rule, and no more than one         *)
(* connection per target after the signal (main.go checkAll, checker.go).      *)
THEOREM EveryCycleIsSound ==
    CheckedSpec => [](TypeOK /\ SlotsAreHeld /\ RetryPolicy /\ GoldenRule /\ SignalStopsDialing)
<1>1. IInv => TypeOK /\ SlotsAreHeld
  BY HoldsSlots DEF IInv, PoolInv, ListInv, TypeOK, Goroutine
<1>2. IInv => RetryPolicy /\ GoldenRule /\ SignalStopsDialing
  BY DEF IInv, PoolInv, RetryPolicy, GoldenRule, SignalStopsDialing, Sound, Concluded, Counted,
     Golden, Last
<1>3. CInv => TypeOK /\ SlotsAreHeld /\ RetryPolicy /\ GoldenRule /\ SignalStopsDialing
  BY <1>1, <1>2 DEF CInv
<1>4. QED
  BY <1>3, CheckedHolds, PTL

(* What RunLoop takes for granted of a check is what checkAll does: complete   *)
(* and uncanceled results unless the context is done (main.go checkOnce).  So  *)
(* every theorem about RunLoop holds of a process that checks.                 *)
THEOREM ChecksAsRunLoopAssumes == CheckedSpec => R!Spec
<1>1. CheckedInit => R!Init
  BY DEF CheckedInit
<1>2. ASSUME CInv, [CheckedNext]_all
      PROVE  [R!Next]_(R!vars)
  <2>1. CASE Checking
    <3>1. ctx' = ctx
      BY <2>1 DEF Checking, Main, Spawn, Cut, AllSpawned, Return, Worker, OnlyCheck, DialSucceeds,
         DialFails, BackoffOver, BackoffCut, Diagnose, DiagnoseFails, Store, Release, Leave
    <3>2. QED
      BY <2>1, <3>1 DEF Checking, life, R!vars
  <2>2. CASE Collect
    <3>1. WorstSeverity \in -1..5 /\ (Garbled => ctx) /\ started \in 0..N
      BY <1>2, <2>2, WorstIsWorst, ReturnedList DEF CInv, Collect
    <3>2. CASE ~Garbled
      <4>1. 1 \in 1..started /\ results[1] \in Result
        BY <1>2, <2>2, <3>1, <3>2, ReturnedList, PoolAssumption DEF CInv, Collect, Garbled
      <4>2. Severity[results[1].status] \in 0..5 /\ Severity[results[1].status] <= WorstSeverity
        BY <1>2, <2>2, <4>1, WorstIsWorst, SeverityType DEF CInv, Collect
      <4>3. WorstSeverity \in 0..5
        BY <3>1, <4>2
      <4>4. held' = [worst |-> WorstSeverity, garbled |-> FALSE]
        BY <2>2, <3>2 DEF Collect, Verdict, Garbled
      <4>5. R!Check
        BY <2>2, <4>3, <4>4 DEF Collect, R!Check, R!server
      <4>6. QED
        BY <4>5 DEF R!Next, R!Main
    <3>3. CASE Garbled
      <4>1. held' = [worst |-> WorstSeverity, garbled |-> TRUE]
        BY <2>2, <3>3 DEF Collect, Verdict, Garbled
      <4>2. WorstSeverity \in 0..5 \cup {R!Nothing, R!Canceled}
        BY <3>1 DEF R!Nothing
      <4>3. R!Check
        BY <2>2, <3>1, <3>3, <4>1, <4>2 DEF Collect, R!Check, R!server
      <4>4. QED
        BY <4>3 DEF R!Next, R!Main
    <3>4. QED
      BY <3>2, <3>3
  <2>3. CASE Again
    BY <2>3 DEF Again, R!Next, R!Main
  <2>4. CASE Beside
    BY <2>4 DEF Beside, R!Next, R!Main
  <2>5. CASE UNCHANGED all
    BY <2>5 DEF all, life, R!vars
  <2>6. QED
    BY <1>2, <2>1, <2>2, <2>3, <2>4, <2>5 DEF CheckedNext
<1>3. CInv /\ [CheckedNext]_all => [R!Next]_(R!vars)
  BY <1>2
<1>4. QED
  BY <1>1, <1>3, CheckedHolds, PTL DEF CheckedSpec, R!Spec

(* What is published, in whichever cycle and wherever the signal falls, is a   *)
(* final result for every target, none of which the signal cut short (main.go  *)
(* checkOnce).                                                                 *)
THEOREM ReportsAreWhole == CheckedSpec => EveryReportIsWhole
<1>1. ASSUME CInv, R!Publish, NEW i \in Index
      PROVE  results[i] \in Result /\ results[i].error # "canceled"
  <2>1. ~ctx /\ loop = "returned" /\ IInv
    BY <1>1 DEF R!Publish, R!Usable, CInv, VerdictInv, Resting, R!Label
  <2>2. ~Garbled
    BY <2>1, ReturnedList
  <2>3. i \in 1..started
    BY <2>1, <2>2, ReturnedList, PoolAssumption DEF Garbled, Index
  <2>4. QED
    BY <2>1, <2>2, <2>3, ReturnedList DEF Garbled
<1>2. CInv /\ [CheckedNext]_all =>
        [R!Publish => \A i \in Index : results[i] \in Result /\ results[i].error # "canceled"]_all
  BY <1>1
<1>3. QED
  BY <1>2, CheckedHolds, PTL DEF CheckedSpec, EveryReportIsWhole

(* The exit code of a single check is about its results (main.go run,          *)
(* report.go WorstSeverity): 2 if and only if a target is as bad as -fail-on   *)
(* says; and without a report it is 1, unless a signal came.                   *)
THEOREM TheCodeIsTheResults == CheckedSpec => []ExitTellsTheResults
<1>1. ASSUME CInv, main = "exited", ~mode.interval, ~mode.serve, report = "complete"
      PROVE  code = IF \E i \in Index : Severity[results[i].status] >= mode.failOn THEN 2 ELSE 0
  <2>1. /\ code = R!ExitCode(mode, WorstSeverity) /\ ~Garbled
        /\ loop = "returned" /\ IInv
    BY <1>1 DEF CInv, VerdictInv, OneShotInv, Resting, R!Label, Verdict
  <2>2. Index = 1..started
    BY <2>1, ReturnedList, PoolAssumption DEF Garbled, Index
  <2>3. mode.failOn \in 1..6
    BY <1>1 DEF CInv, VerdictInv, AnyMode
  <2>4. \A i \in Index : Severity[results[i].status] \in 0..5
    BY <2>1, <2>2, ReturnedList, SeverityType
  <2>5. WorstSeverity >= mode.failOn <=> \E i \in Index : Severity[results[i].status] >= mode.failOn
    BY <2>1, <2>2, <2>3, <2>4, WorstIsWorst
  <2>6. QED
    BY <2>1, <2>5 DEF R!ExitCode
<1>2. ASSUME CInv, main = "exited", ~mode.interval, ~mode.serve, report # "complete"
      PROVE  signalled \/ code = 1
  BY <1>2 DEF CInv, VerdictInv, OneShotInv
<1>3. CInv => ExitTellsTheResults
  BY <1>1, <1>2 DEF ExitTellsTheResults
<1>4. QED
  BY <1>3, CheckedHolds, PTL
===============================================================================
