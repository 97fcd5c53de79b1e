---------------------------- MODULE RunLoop_proofs ----------------------------
(***************************************************************************)
(* Proofs about RunLoop, for any set of modes, severities and faults.      *)
(***************************************************************************)
EXTENDS RunLoop, TLAPS

-------------------------------------------------------------------------------
(* The inductive invariant.                                                *)

(* Where run has decided to leave. *)
Gone == {"leaving", "joining", "exited"}

(* The context is done because of the signal, until run itself cancels it. *)
ContextInv ==
    /\ ctx => signalled \/ main \in {"joining", "exited"}
    /\ main = "stopping" => ctx
    /\ main = "serving" => mode.serve /\ ~mode.interval

(* Only an interrupted check hands out garbled results. *)
ReportInv ==
    /\ held.garbled => ctx
    /\ report # "garbled"

(* The server fails once, and what it reports is how it ended. *)
ServerInv ==
    /\ http # "none" => mode.serve
    /\ main = "starting" => http = "none"
    /\ outcome = "error" => http \in {"sending", "done"}
    /\ http = "sending" /\ outcome = "nil" => ctx
    /\ serverError # "empty" => http = "done"
    /\ serverError = "error" => outcome = "error"
    /\ serverError = "nil" => ctx

(* Nobody leaves without a reason; without a signal a server's owner leaves *)
(* with an error.                                                           *)
LeaveInv ==
    main \in Gone /\ ~signalled =>
        /\ mode.interval => outcome = "error"
        /\ mode.serve => code = 1

RInv == TypeOK /\ ContextInv /\ ReportInv /\ ServerInv /\ LeaveInv

(* The value of results before a check. *)
LEMMA NoResultsType == NoResults \in [worst : -1..5, garbled : BOOLEAN]
<1>1. Nothing \in -1..5
  BY DEF Nothing
<1>2. QED
  BY <1>1, Zenon DEF NoResults

LEMMA InitInv == Init => RInv
<1>1. ASSUME Init PROVE TypeOK
  <2>1. held \in [worst : -1..5, garbled : BOOLEAN]
    BY <1>1, NoResultsType DEF Init
  <2>2. worst \in -1..5 /\ found \in -1..5 /\ code \in -1..2
    BY <1>1 DEF Init, Nothing
  <2>3. QED
    BY <1>1, <2>1, <2>2 DEF Init, TypeOK, Label
<1>2. ASSUME Init PROVE ContextInv /\ ReportInv /\ ServerInv /\ LeaveInv
  BY <1>2 DEF Init, ContextInv, ReportInv, ServerInv, LeaveInv, Gone, NoResults
<1>3. QED
  BY <1>1, <1>2 DEF RInv

(* The fields of a mode. *)
LEMMA ModeType ==
    ASSUME NEW m \in Modes
    PROVE  m.serve \in BOOLEAN /\ m.interval \in BOOLEAN
  BY RunAssumption DEF Mode

(* What a check answers has a type. *)
LEMMA CheckType ==
    ASSUME NEW s \in Severities \cup {Nothing, Canceled}
    PROVE  s \in -1..5
  BY RunAssumption DEF Nothing, Canceled

(* One lemma per conjunct: a step of run, of the server or of the outside *)
(* keeps it.                                                              *)
LEMMA TypeInv ==
    ASSUME RInv, [Next]_vars
    PROVE  TypeOK'
<1> USE DEF RInv, TypeOK
<1>1. mode.serve \in BOOLEAN /\ mode.interval \in BOOLEAN
  BY ModeType
<1>2. CASE Check
  <2>1. held' \in [worst : -1..5, garbled : BOOLEAN]
    <3>1. CASE \E s \in Severities : held' = [worst |-> s, garbled |-> FALSE]
      BY <3>1, CheckType
    <3>2. CASE \E s \in Severities \cup {Nothing, Canceled} : held' = [worst |-> s, garbled |-> TRUE]
      BY <3>2, CheckType
    <3>3. QED
      BY <1>2, <3>1, <3>2 DEF Check
  <2>2. QED
    BY <1>2, <2>1 DEF Check, server, Label
<1>3. CASE Begin \/ Refuse \/ Interrupted \/ Publish \/ PublishFails \/ Decide
  BY <1>1, <1>3 DEF Begin, Refuse, Interrupted, Publish, PublishFails, Decide, EndsOnError,
     ExitCode, verdict, server, Label
<1>4. CASE IntervalOver \/ Stop \/ StopServing \/ ServerEnded \/ GiveUpOnServer
  <2>1. CASE IntervalOver
    BY <2>1, NoResultsType DEF IntervalOver, server, Label
  <2>2. CASE Stop \/ StopServing \/ ServerEnded \/ GiveUpOnServer
    BY <1>1, <2>2 DEF Stop, StopServing, ServerEnded, GiveUpOnServer, CodeOf, verdict, server, Label
  <2>3. QED
    BY <1>4, <2>1, <2>2
<1>5. CASE RunDeferred(1) \/ RunDeferred(2)
  BY <1>5 DEF RunDeferred, Deferred, verdict, server, Label
<1>6. CASE Server \/ ServerFails \/ Accept \/ Answer \/ GraceOver \/ Signal
  BY <1>6 DEF Server, ServerCloses, ServerFails, ServerReports, Accept, Answer, GraceOver, Signal,
     verdict, server
<1>7. CASE UNCHANGED vars
  BY <1>7 DEF vars
<1>8. QED
  BY <1>2, <1>3, <1>4, <1>5, <1>6, <1>7 DEF Next, Main

LEMMA ContextKept ==
    ASSUME RInv, [Next]_vars
    PROVE  ContextInv'
<1> USE DEF RInv, ContextInv
<1>1. mode.serve \in BOOLEAN /\ mode.interval \in BOOLEAN
  BY ModeType DEF TypeOK
<1>2. CASE Check \/ Begin \/ Refuse \/ Interrupted \/ Publish \/ PublishFails \/ Decide
  BY <1>1, <1>2 DEF Check, Begin, Refuse, Interrupted, Publish, PublishFails, Decide, EndsOnError,
     verdict, server
<1>3. CASE IntervalOver \/ Stop \/ StopServing \/ ServerEnded \/ GiveUpOnServer
  BY <1>1, <1>3 DEF IntervalOver, Stop, StopServing, ServerEnded, GiveUpOnServer, verdict, server
<1>4. CASE RunDeferred(1) \/ RunDeferred(2)
  BY <1>4 DEF RunDeferred, Deferred, verdict, server
<1>5. CASE Server \/ ServerFails \/ Accept \/ Answer \/ GraceOver \/ Signal
  BY <1>5 DEF Server, ServerCloses, ServerFails, ServerReports, Accept, Answer, GraceOver, Signal,
     verdict, server
<1>6. CASE UNCHANGED vars
  BY <1>6 DEF vars
<1>7. QED
  BY <1>2, <1>3, <1>4, <1>5, <1>6 DEF Next, Main

LEMMA ReportKept ==
    ASSUME RInv, [Next]_vars
    PROVE  ReportInv'
<1> USE DEF RInv, ReportInv
<1>1. CASE Check
  BY <1>1 DEF Check, server
<1>2. CASE Publish
  BY <1>2 DEF Publish, Usable, server
<1>3. CASE Begin \/ Refuse \/ Interrupted \/ PublishFails \/ Decide \/ Stop \/ StopServing
           \/ ServerEnded \/ GiveUpOnServer
  BY <1>3 DEF Begin, Refuse, Interrupted, PublishFails, Decide, Stop, StopServing,
     ServerEnded, GiveUpOnServer, verdict, server
<1>4. CASE IntervalOver
  BY <1>4 DEF IntervalOver, NoResults, server
<1>5. CASE RunDeferred(1) \/ RunDeferred(2)
  BY <1>5 DEF RunDeferred, verdict, server, TypeOK
<1>6. CASE Server \/ ServerFails \/ Accept \/ Answer \/ GraceOver \/ Signal
  BY <1>6 DEF Server, ServerCloses, ServerFails, ServerReports, Accept, Answer, GraceOver, Signal,
     verdict, server
<1>7. CASE UNCHANGED vars
  BY <1>7 DEF vars
<1>8. QED
  BY <1>1, <1>2, <1>3, <1>4, <1>5, <1>6, <1>7 DEF Next, Main

LEMMA ServerKept ==
    ASSUME RInv, [Next]_vars
    PROVE  ServerInv'
<1> USE DEF RInv, ServerInv
<1>1. CASE Begin
  BY <1>1 DEF Begin, verdict
<1>2. CASE Check \/ Refuse \/ Interrupted \/ Publish \/ PublishFails \/ Decide
           \/ IntervalOver \/ Stop \/ StopServing \/ GiveUpOnServer
  BY <1>2 DEF Check, Refuse, Interrupted, Publish, PublishFails, Decide, IntervalOver,
     Stop, StopServing, GiveUpOnServer, verdict, server
<1>3. CASE ServerEnded
  BY <1>3 DEF ServerEnded, verdict
<1>4. CASE RunDeferred(1) \/ RunDeferred(2)
  BY <1>4 DEF RunDeferred, Deferred, verdict, server
<1>5. CASE ServerCloses \/ ServerFails \/ ServerReports
  BY <1>5 DEF ServerCloses, ServerFails, ServerReports, verdict, TypeOK
<1>6. CASE Accept \/ Answer \/ GraceOver \/ Signal
  BY <1>6 DEF Accept, Answer, GraceOver, Signal, verdict, server
<1>7. CASE UNCHANGED vars
  BY <1>7 DEF vars
<1>8. QED
  BY <1>1, <1>2, <1>3, <1>4, <1>5, <1>6, <1>7 DEF Next, Main, Server

LEMMA LeaveKept ==
    ASSUME RInv, [Next]_vars
    PROVE  LeaveInv'
<1> USE DEF RInv, LeaveInv, Gone
<1>1. mode.serve \in BOOLEAN /\ mode.interval \in BOOLEAN
  BY ModeType DEF TypeOK
<1>2. CASE Begin \/ Refuse \/ Check \/ Interrupted \/ Publish \/ IntervalOver
  BY <1>2 DEF Begin, Refuse, Check, Interrupted, Publish, IntervalOver
<1>3. CASE PublishFails
  BY <1>1, <1>3 DEF PublishFails, EndsOnError, verdict, server
<1>4. CASE Decide
  BY <1>1, <1>4 DEF Decide, verdict, server
<1>5. CASE Stop \/ StopServing \/ GiveUpOnServer
  BY <1>5 DEF Stop, StopServing, GiveUpOnServer, ContextInv, verdict, server
<1>6. CASE ServerEnded
  <2>1. signalled \/ serverError = "error"
    BY <1>6 DEF ServerEnded, ServerInv, ContextInv, TypeOK
  <2>2. QED
    BY <1>6, <2>1 DEF ServerEnded, ServerInv, CodeOf, verdict
<1>7. CASE RunDeferred(1) \/ RunDeferred(2)
  BY <1>7 DEF RunDeferred, verdict, server
<1>8. CASE ServerCloses \/ ServerFails \/ ServerReports
  BY <1>8 DEF ServerCloses, ServerFails, ServerReports, ServerInv, verdict
<1>9. CASE Accept \/ Answer \/ GraceOver \/ Signal
  BY <1>9 DEF Accept, Answer, GraceOver, Signal, verdict, server
<1>10. CASE UNCHANGED vars
  BY <1>10 DEF vars
<1>11. QED
  BY <1>2, <1>3, <1>4, <1>5, <1>6, <1>7, <1>8, <1>9, <1>10 DEF Next, Main, Server

(* RInv is an invariant. *)
LEMMA Inductive == Spec => []RInv
<1>1. RInv /\ [Next]_vars => RInv'
  BY TypeInv, ContextKept, ReportKept, ServerKept, LeaveKept DEF RInv
<1>2. QED
  BY InitInv, <1>1, PTL DEF Spec

-------------------------------------------------------------------------------
(* Every variable of the process keeps its type, in every mode and under every *)
(* fault (main.go run).                                                        *)
THEOREM RunTypeCorrect == Spec => []TypeOK
<1>1. RInv => TypeOK
  BY DEF RInv
<1>2. QED
  BY <1>1, Inductive, PTL

(* report.json is never made of the results of an interrupted check (main.go   *)
(* checkOnce), wherever in whichever cycle the signal falls.                   *)
THEOREM ReportStaysWhole == Spec => []ReportIsNeverGarbled
<1>1. RInv => ReportIsNeverGarbled
  BY DEF RInv, ReportInv, ReportIsNeverGarbled
<1>2. QED
  BY <1>1, Inductive, PTL

(* With -interval only a signal or the loss of the server ends the process     *)
(* (main.go run): no failed check, after any number of cycles.                 *)
THEOREM StaysUp == Spec => []IntervalStaysUp
<1>1. RInv => IntervalStaysUp
  BY DEF RInv, LeaveInv, Gone, IntervalStaysUp, Lost
<1>2. QED
  BY <1>1, Inductive, PTL

(* A server that died makes the exit code 1, in whichever of its waits run was *)
(* (main.go run, shutdownServer), unless a signal came as well.                *)
THEOREM LossIsAnError == Spec => []LostServerIsAnError
<1>1. RInv => LostServerIsAnError
  BY DEF RInv, LeaveInv, ServerInv, Gone, LostServerIsAnError, Lost
<1>2. QED
  BY <1>1, Inductive, PTL
===============================================================================
