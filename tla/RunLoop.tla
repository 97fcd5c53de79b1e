------------------------------- MODULE RunLoop -------------------------------
(***************************************************************************)
(* The life of one sslscout process: run of cmd/sslscout.  A loop of       *)
(* checks, the HTTP server beside it, the signal that cancels both, and    *)
(* the exit code.  A check is the batch of CheckBatch: without a signal it *)
(* answers with complete results, under one with a prefix of them.         *)
(***************************************************************************)
EXTENDS Integers

CONSTANTS
    Modes,       \* the ways the process may be started
    Severities,  \* what a complete check may find at worst
    Faults       \* what may go wrong in this instance

\* serve and interval: is the flag given; failOn: severity -fail-on stops at.
Mode == [serve : BOOLEAN, interval : BOOLEAN, failOn : 1..6]

\* SeverityFromName("none"): above every status.
Never == 6

\* WorstSeverity of an empty list, and of one with a canceled check in it.
Nothing == -1
Canceled == 5

Fault == {"signal", "write", "accept"}

ASSUME RunAssumption ==
    /\ Modes \in SUBSET Mode
    /\ Modes # {}
    /\ Severities \in SUBSET (0..5)
    /\ Severities # {}
    /\ Faults \in SUBSET Fault

VARIABLES
    mode,       \* the flags
    main,       \* where run is
    ctx,        \* the signal context is done
    signalled,  \* a signal has arrived
    held,       \* results in hand: [worst, garbled]
    worst,      \* run's variable: the verdict -fail-on is compared with
    found,      \* worst severity of the last report published
    report,     \* report.json: "old" from an earlier run, "complete", "garbled"
    http,       \* the server: "none", "serving", "sending", "done"
    outcome,    \* what serve returned, or has put in the channel
    serverError, \* the channel: "empty", "nil" or "error"
    request,    \* an accepted request is still being answered
    grace,      \* Shutdown's five seconds are not over
    code        \* exit code, -1 while the process runs

vars == <<mode, main, ctx, signalled, held, worst, found, report, http, outcome,
          serverError, request, grace, code>>

server == <<http, outcome, serverError, request, grace>>

verdict == <<held, worst, found, report>>

NoResults == [worst |-> Nothing, garbled |-> FALSE]

\* "sleeping" waits for the interval, "serving" for the signal, "stopping" for
\* the server; "leaving" and "joining" run the deferred calls; "refused" is an
\* exit before there was anything to defer.
Label == {"starting", "checking", "checked", "decided", "sleeping", "serving",
          "stopping", "leaving", "joining", "exited", "refused"}

Init ==
    /\ mode \in Modes
    /\ main = "starting"
    /\ ctx = FALSE
    /\ signalled = FALSE
    /\ held = NoResults
    /\ worst = 0
    /\ found = Nothing
    /\ report = "old"
    /\ http = "none"
    /\ outcome = "nil"
    /\ serverError = "empty"
    /\ request = FALSE
    /\ grace = TRUE
    /\ code = -1

\* The port is bound before the first check.
Begin ==
    /\ main = "starting"
    /\ main' = "checking"
    /\ http' = IF mode.serve THEN "serving" ELSE "none"
    /\ UNCHANGED <<mode, ctx, signalled, verdict, outcome, serverError, request, grace, code>>

\* A configuration, list or port that is no good: nothing is deferred yet.
Refuse ==
    /\ main = "starting"
    /\ main' = "refused"
    /\ code' = 1
    /\ UNCHANGED <<mode, ctx, signalled, verdict, server>>

\* checkAll answers.
Check ==
    /\ main = "checking"
    /\ main' = "checked"
    /\ \/ \E s \in Severities : held' = [worst |-> s, garbled |-> FALSE]
       \/ /\ ctx
          /\ \E s \in Severities \cup {Nothing, Canceled} :
               held' = [worst |-> s, garbled |-> TRUE]
    /\ UNCHANGED <<mode, ctx, signalled, worst, found, report, server, code>>

\* Mutated form: garbled results taken for good ones.
UsableAlways(done) == TRUE

Usable(done) == ~done

\* The report survives an interrupted check; the results are returned all the
\* same.
Interrupted ==
    /\ main = "checked"
    /\ ~Usable(ctx)
    /\ main' = "decided"
    /\ worst' = held.worst
    /\ UNCHANGED <<mode, ctx, signalled, held, found, report, server, code>>

\* The report is written and the problems notified, which no signal cuts short.
Publish ==
    /\ main = "checked"
    /\ Usable(ctx)
    /\ main' = "decided"
    /\ worst' = held.worst
    /\ found' = held.worst
    /\ report' = IF held.garbled THEN "garbled" ELSE "complete"
    /\ UNCHANGED <<mode, ctx, signalled, held, server, code>>

\* Mutated form: a failed check ends the process whatever the mode.
EndsOnErrorAlways(m) == TRUE

EndsOnError(m) == ~m.interval

PublishFails ==
    /\ "write" \in Faults
    /\ main = "checked"
    /\ Usable(ctx)
    /\ IF EndsOnError(mode) THEN main' = "leaving" /\ code' = 1
                            ELSE main' = "decided" /\ code' = code
    /\ UNCHANGED <<mode, ctx, signalled, verdict, server>>

\* Mutated form: the severity itself as the code.
ExitCodeIsSeverity(m, w) == IF w >= m.failOn THEN w ELSE 0

ExitCode(m, w) == IF w >= m.failOn THEN 2 ELSE 0

Decide ==
    /\ main = "decided"
    /\ main' = IF mode.interval THEN "sleeping"
               ELSE IF mode.serve THEN "serving" ELSE "leaving"
    /\ code' = IF mode.interval \/ mode.serve THEN code ELSE ExitCode(mode, worst)
    /\ UNCHANGED <<mode, ctx, signalled, verdict, server>>

IntervalOver ==
    /\ main = "sleeping"
    /\ main' = "checking"
    /\ held' = NoResults
    /\ UNCHANGED <<mode, ctx, signalled, worst, found, report, server, code>>

\* ctx.Done in the select of the loop, then shutdownServer.
Stop ==
    /\ main = "sleeping"
    /\ ctx
    /\ main' = IF mode.serve THEN "stopping" ELSE "leaving"
    /\ code' = IF mode.serve THEN code ELSE 0
    /\ UNCHANGED <<mode, ctx, signalled, verdict, server>>

\* ctx.Done without an interval: the server is not asked how it ended.
StopServing ==
    /\ main = "serving"
    /\ ctx
    /\ main' = "leaving"
    /\ code' = 0
    /\ UNCHANGED <<mode, ctx, signalled, verdict, server>>

\* Mutated form: the server's error dropped.
CodeOfIgnored(end) == 0

CodeOf(end) == IF end = "error" THEN 1 ELSE 0

\* The server ended: every wait of run listens for it.
ServerEnded ==
    /\ main \in {"sleeping", "serving", "stopping"}
    /\ serverError # "empty"
    /\ main' = "leaving"
    /\ code' = CodeOf(serverError)
    /\ serverError' = "empty"
    /\ UNCHANGED <<mode, ctx, signalled, verdict, http, outcome, request, grace>>

\* The ten seconds of shutdownServer.
GiveUpOnServer ==
    /\ main = "stopping"
    /\ main' = "leaving"
    /\ code' = 0
    /\ UNCHANGED <<mode, ctx, signalled, verdict, server>>

\* Mutated form: the deferred calls the other way round.
DeferredWaitFirst(k) == IF k = 1 THEN "wait" ELSE "stop"

\* Deferred calls run last first: stop cancels the context, then the wait for
\* the server.
Deferred(k) == IF k = 1 THEN "stop" ELSE "wait"

RunDeferred(k) ==
    /\ main = IF k = 1 THEN "leaving" ELSE "joining"
    /\ main' = IF k = 1 THEN "joining" ELSE "exited"
    /\ Deferred(k) = "wait" => http \in {"none", "done"}
    /\ ctx' = (ctx \/ Deferred(k) = "stop")
    /\ UNCHANGED <<mode, signalled, verdict, server, code>>

\* Serve returns as soon as Shutdown is called, whatever is still in flight.
ServerCloses ==
    /\ http = "serving"
    /\ ctx
    /\ http' = "sending"
    /\ outcome' = "nil"
    /\ UNCHANGED <<mode, main, ctx, signalled, verdict, serverError, request, grace, code>>

ServerFails ==
    /\ "accept" \in Faults
    /\ http = "serving"
    /\ http' = "sending"
    /\ outcome' = "error"
    /\ UNCHANGED <<mode, main, ctx, signalled, verdict, serverError, request, grace, code>>

\* Mutated form: a channel without a buffer.
RoomOnlyIfAwaited(ch) == ch = "empty" /\ main \in {"sleeping", "serving", "stopping"}

\* A buffer of one: the goroutine never waits for run.
Room(ch) == ch = "empty"

ServerReports ==
    /\ http = "sending"
    /\ Room(serverError)
    /\ serverError' = outcome
    /\ http' = "done"
    /\ UNCHANGED <<mode, main, ctx, signalled, verdict, outcome, request, grace, code>>

Accept ==
    /\ http = "serving"
    /\ ~request
    /\ main # "exited"
    /\ request' = TRUE
    /\ UNCHANGED <<mode, main, ctx, signalled, verdict, http, outcome, serverError, grace, code>>

Answer ==
    /\ request
    /\ main # "exited"
    /\ request' = FALSE
    /\ UNCHANGED <<mode, main, ctx, signalled, verdict, http, outcome, serverError, grace, code>>

GraceOver ==
    /\ ctx
    /\ grace
    /\ http # "none"
    /\ main # "exited"
    /\ grace' = FALSE
    /\ UNCHANGED <<mode, main, ctx, signalled, verdict, http, outcome, serverError, request, code>>

\* SIGINT or SIGTERM, once the handler is in place; later ones change nothing.
Signal ==
    /\ "signal" \in Faults
    /\ ~signalled
    /\ main \notin {"starting", "exited", "refused"}
    /\ signalled' = TRUE
    /\ ctx' = TRUE
    /\ UNCHANGED <<mode, main, verdict, server, code>>

Main ==
    \/ Begin \/ Refuse \/ Check \/ Interrupted \/ Publish \/ PublishFails \/ Decide
    \/ IntervalOver \/ Stop \/ StopServing \/ ServerEnded \/ GiveUpOnServer
    \/ RunDeferred(1) \/ RunDeferred(2)

Server == ServerCloses \/ ServerReports

Next ==
    \/ Main \/ Server \/ ServerFails \/ Accept \/ Answer \/ GraceOver \/ Signal

Spec == Init /\ [][Next]_vars

\* run and the server's goroutine run on.  A select whose cases stay ready does
\* not pass the same one over for ever.
Fairness ==
    /\ WF_vars(Main)
    /\ WF_vars(Server)
    /\ SF_vars(Stop)
    /\ SF_vars(ServerEnded)

FairSpec == Spec /\ Fairness
-------------------------------------------------------------------------------
\* Every variable keeps its type.
TypeOK ==
    /\ mode \in Modes
    /\ main \in Label
    /\ {ctx, signalled, request, grace} \subseteq BOOLEAN
    /\ held \in [worst : -1..5, garbled : BOOLEAN]
    /\ worst \in -1..5
    /\ found \in -1..5
    /\ report \in {"old", "complete", "garbled"}
    /\ http \in {"none", "serving", "sending", "done"}
    /\ outcome \in {"nil", "error"}
    /\ serverError \in {"empty", "nil", "error"}
    /\ code \in -1..2

Lost == outcome = "error"

\* "Better to keep the previous report than ruin it" (main.go checkOnce):
\* report.json is never made of the results of an interrupted check, wherever
\* in the cycle the signal falls.
ReportIsNeverGarbled == report # "garbled"

\* "The process stays up" with -interval (README): a failed check does not end
\* it, only a signal or the loss of its server does.
IntervalStaysUp ==
    main = "exited" /\ mode.interval => signalled \/ Lost

\* A server that died is an execution error, never a success: without a signal
\* the process ends with code 1, whichever wait it was in.
LostServerIsAnError ==
    main = "exited" /\ Lost /\ ~signalled => code = 1

\* Ctrl-C ends the process, whatever it is doing: a check, a wait, or serving.
SignalEnds == signalled ~> main = "exited"

\* A process that has decided to leave does so: the deferred calls cannot wait
\* for a server nobody told to stop, nor the server for a reader that is gone.
LeavingEnds == main = "leaving" ~> main = "exited"

\* A server that died takes the process with it: nobody keeps checking for a
\* dashboard that is not there.
LossEnds == Lost ~> main = "exited"

\* "2 means it ran and found what you told it to look for" (README): the code
\* of -fail-on comes from a check that was completed and published.
FoundIsReal == code = 2 => found >= mode.failOn

\* "Only then do we wait for the server" (main.go): when the process ends, an
\* accepted request is answered or its five seconds of grace are over.
RequestsAreAnswered ==
    main = "exited" /\ request /\ ~Lost => ~grace
==============================================================================
