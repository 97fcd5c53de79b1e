------------------------------ MODULE AlertCycle ------------------------------
(***************************************************************************)
(* One sslscout process checks its targets, publishes the report, loads    *)
(* the alert history, sends what is pending over every configured channel, *)
(* commits the history in memory and saves it: checkOnce and notify of     *)
(* cmd/sslscout/main.go, step by step.  Around it stand the servers, whose *)
(* certificates age and change, the state file, the channels, and every    *)
(* interruption the program handles: a signal, a crash, a file that cannot *)
(* be written or read, a delivery that fails or whose answer is lost.      *)
(*                                                                         *)
(* Several processes may share the state file: nothing in the code locks   *)
(* it.                                                                     *)
(***************************************************************************)
EXTENDS AlertState, FiniteSets

CONSTANTS
    Procs,      \* processes that share one state file
    Channels,   \* numbered in sending order: 1 Slack, 2 Teams, 3 e-mail
    Configs,    \* configurations a process may be started with
    Servers,    \* what a target's server may become
    Faults,     \* what may go wrong in this instance
    Unusable,   \* a state file that cannot be read or decoded
    MaxTime     \* bound on the clock

Fault == {"crash", "signal", "publish", "send", "lost_ack", "save", "corrupt"}

\* notify is the flag -notify.
Config == [channels : SUBSET Channels, history : BOOLEAN, notify : BOOLEAN,
           targets : SUBSET Targets]

ASSUME CycleAssumption ==
    /\ IsFiniteSet(Targets)
    /\ Channels \in SUBSET (Nat \ {0})
    /\ Configs \in SUBSET Config
    /\ Configs # {}
    /\ Servers \in SUBSET Server
    /\ Servers # {}
    /\ Unusable \notin Domains
    /\ Faults \in SUBSET Fault
    /\ MaxTime \in Nat

VARIABLES
    now,        \* the wall clock
    servers,    \* servers[t] is what a check of t meets
    file,       \* the state file: its Domains, or Unusable.  A missing one
                \* loads as NoDomains, and so is NoDomains here
    proc,       \* the processes
    heard,      \* every announcement a channel has delivered
    owed        \* <<domain, channel>>: the channel is owed the domain's next
                \* problem, never told of one or told before it was found fine

vars == <<now, servers, file, proc, heard, owed>>

\* "off" no process, "fresh" started, "resting" between two cycles or about to
\* exit; the others are the steps of a cycle.
Label == {"off", "fresh", "checked", "written", "sending", "saving", "resting"}

Announcement == [channel : Channels, target : Targets, entry : Entry]

Process(pc, cfg, done) ==
    [pc |-> pc, cfg |-> cfg, done |-> done, results |-> NoResults, clock |-> 0,
     mem |-> NoDomains, pending |-> {}, todo |-> {}, failed |-> FALSE]

\* One configuration, so that a stopped process has a canonical form.
AnyConfig == CHOOSE c \in Configs : TRUE

ProcState ==
    [pc : Label, cfg : Configs, done : BOOLEAN, results : Results, clock : Int,
     mem : Domains, pending : SUBSET Targets, todo : SUBSET Channels,
     failed : BOOLEAN]

Goto(p, new) == proc' = [proc EXCEPT ![p] = new]

\* The cycle is over and what it held is garbage.
EndCycle(p) == Goto(p, Process("resting", proc[p].cfg, proc[p].done))

IsComplete(s) == Listed(s.results) = s.cfg.targets
-------------------------------------------------------------------------------
Init ==
    /\ now = 0
    /\ servers \in [Targets -> Servers]
    /\ file = NoDomains
    /\ proc = [p \in Procs |-> Process("off", AnyConfig, FALSE)]
    /\ heard = {}
    /\ owed = Domain \X Channels

\* cron, systemd or an operator starts the program; it reads its
\* configuration and its target list once.
Start(p) ==
    /\ proc[p].pc = "off"
    /\ \E cfg \in Configs : Goto(p, Process("fresh", cfg, FALSE))
    /\ UNCHANGED <<now, servers, file, heard, owed>>

\* Without -interval, or after a signal.
Exit(p) ==
    /\ proc[p].pc = "resting"
    /\ Goto(p, Process("off", AnyConfig, FALSE))
    /\ UNCHANGED <<now, servers, file, heard, owed>>

\* checkAll, nothing in its way: one result per target of the list.
CompleteResults(srv, n, list, diagnosed) ==
    [t \in Targets |->
        IF t \in list THEN CheckTarget(srv[t], n, t \in diagnosed) ELSE NoResult]

\* checkAll under a signal: the targets never reached are missing, those
\* whose connection was cut report a canceled context.
PartialResults(srv, n, reached, cut) ==
    [t \in Targets |->
        IF t \in cut THEN ErrorResult(TRUE)
        ELSE IF t \in reached THEN CheckTarget(srv[t], n, FALSE) ELSE NoResult]

Checked(s, results, done) ==
    [s EXCEPT !.pc = "checked", !.results = results, !.done = done]

Check(p) ==
    /\ proc[p].pc \in {"fresh", "resting"}
    /\ ~proc[p].done
    /\ \E diagnosed \in SUBSET proc[p].cfg.targets :
         Goto(p, Checked(proc[p],
                         CompleteResults(servers, now, proc[p].cfg.targets, diagnosed),
                         FALSE))
    /\ UNCHANGED <<now, servers, file, heard, owed>>

\* A timer that fires together with the signal starts such a cycle too.
CheckInterrupted(p) ==
    /\ proc[p].pc \in {"fresh", "resting"}
    /\ proc[p].done \/ "signal" \in Faults
    /\ \E reached \in SUBSET proc[p].cfg.targets : \E cut \in SUBSET reached :
         Goto(p, Checked(proc[p], PartialResults(servers, now, reached, cut), TRUE))
    /\ UNCHANGED <<now, servers, file, heard, owed>>

\* Mutated form: the signal not looked at after the check.
NeverInterrupted(s) == FALSE

\* ctx.Err() is looked at once, after the check.
Interrupted(s) == s.done

\* checkOnce keeps the previous report and skips the notifications.
Abandon(p) ==
    /\ proc[p].pc = "checked"
    /\ \/ Interrupted(proc[p])
       \/ "publish" \in Faults      \* report.Write failed
    /\ EndCycle(p)
    /\ UNCHANGED <<now, servers, file, heard, owed>>

Publish(p) ==
    /\ proc[p].pc = "checked"
    /\ ~Interrupted(proc[p])
    /\ Goto(p, [proc[p] EXCEPT !.pc = "written"])
    /\ UNCHANGED <<now, servers, file, heard, owed>>

\* -notify=false: the report is all there is, and the history is left alone.
StaySilent(p) ==
    /\ proc[p].pc = "written"
    /\ ~proc[p].cfg.notify
    /\ EndCycle(p)
    /\ UNCHANGED <<now, servers, file, heard, owed>>

\* state.Load: what cannot be read or decoded counts as no history at all.
Load(content) == IF content = Unusable THEN NoDomains ELSE content

\* What notify hands to the channels.
ToAnnounce(cfg, domains, results, clock) ==
    IF cfg.history THEN Pending(domains, results, clock) ELSE Problems(results)

Decided(s, domains, n) ==
    LET pending == ToAnnounce(s.cfg, domains, s.results, n)
    IN  [s EXCEPT !.pc = "sending", !.clock = n, !.mem = domains, !.pending = pending,
                  !.todo = IF pending = {} THEN {} ELSE s.cfg.channels]

\* notify up to the delivery: the clock is read once, the history loaded, the
\* pending results selected.
Decide(p) ==
    /\ proc[p].pc = "written"
    /\ proc[p].cfg.notify
    /\ Goto(p, Decided(proc[p],
                       IF proc[p].cfg.history THEN Load(file) ELSE NoDomains, now))
    /\ UNCHANGED <<now, servers, file, heard, owed>>

\* notifier.Notify tries its channels in a fixed order.
IsNext(c, todo) == c \in todo /\ \A d \in todo : c <= d

Message(p, c) ==
    {[channel |-> c, target |-> t, entry |-> EntryOf(proc[p].results[t], proc[p].clock)]
        : t \in proc[p].pending}

Tried(p, c, failed) ==
    Goto(p, [proc[p] EXCEPT !.todo = @ \ {c}, !.failed = @ \/ failed])

Deliver(p, c) ==
    /\ heard' = heard \cup Message(p, c)
    /\ owed' = owed \ {<<Key[t], c>> : t \in proc[p].pending}

\* A channel takes the whole message and says so.
SendOk(p, c) ==
    /\ proc[p].pc = "sending"
    /\ IsNext(c, proc[p].todo)
    /\ Deliver(p, c)
    /\ Tried(p, c, FALSE)
    /\ UNCHANGED <<now, servers, file>>

\* A channel refuses, times out or cannot be reached; the others still go.
SendFails(p, c) ==
    /\ "send" \in Faults
    /\ proc[p].pc = "sending"
    /\ IsNext(c, proc[p].todo)
    /\ Tried(p, c, TRUE)
    /\ UNCHANGED <<now, servers, file, heard, owed>>

\* The channel delivered, and its answer was lost: a webhook that timed out
\* after accepting, a mail server that dropped the line before QUIT.
SendUnacknowledged(p, c) ==
    /\ "lost_ack" \in Faults
    /\ proc[p].pc = "sending"
    /\ IsNext(c, proc[p].todo)
    /\ Deliver(p, c)
    /\ Tried(p, c, TRUE)
    /\ UNCHANGED <<now, servers, file>>

\* Mutated form: the history committed whatever the channels said.
AnnouncedAnyway(s) == s.pending

\* Nothing is recorded of a cycle in which one channel failed.
Announced(s) == IF s.failed THEN {} ELSE s.pending

Committed(s) ==
    Sync(Record(s.mem, s.results, Announced(s), s.clock), s.results)

SeenFine(results) ==
    {d \in Domain : \A t \in Problems(results) : Key[t] # d}

\* Record, then Sync, both in memory.
Commit(p) ==
    /\ proc[p].pc = "sending"
    /\ proc[p].todo = {}
    /\ IF proc[p].cfg.history
       THEN Goto(p, [proc[p] EXCEPT !.pc = "saving", !.mem = Committed(proc[p])])
       ELSE EndCycle(p)
    /\ owed' = IF proc[p].cfg.history
               THEN owed \cup (SeenFine(proc[p].results) \X Channels) ELSE owed
    /\ UNCHANGED <<now, servers, file, heard>>

\* The rename publishes the new history at once.
Save(p) ==
    /\ proc[p].pc = "saving"
    /\ file' = proc[p].mem
    /\ EndCycle(p)
    /\ UNCHANGED <<now, servers, heard, owed>>

\* Any step before the rename failed: logged, and the old file stays.
SaveFails(p) ==
    /\ "save" \in Faults
    /\ proc[p].pc = "saving"
    /\ EndCycle(p)
    /\ UNCHANGED <<now, servers, file, heard, owed>>

\* SIGINT or SIGTERM while a cycle runs.
Signal(p) ==
    /\ "signal" \in Faults
    /\ proc[p].pc # "off"
    /\ ~proc[p].done
    /\ Goto(p, [proc[p] EXCEPT !.done = TRUE])
    /\ UNCHANGED <<now, servers, file, heard, owed>>

Crash(p) ==
    /\ "crash" \in Faults
    /\ proc[p].pc # "off"
    /\ Goto(p, Process("off", AnyConfig, FALSE))
    /\ UNCHANGED <<now, servers, file, heard, owed>>

\* Time passes, and with it servers fail, recover or renew.
Tick ==
    /\ now < MaxTime
    /\ now' = now + 1
    /\ servers' \in [Targets -> Servers]
    /\ UNCHANGED <<file, proc, heard, owed>>

Corrupt ==
    /\ "corrupt" \in Faults
    /\ file' = Unusable
    /\ UNCHANGED <<now, servers, proc, heard, owed>>

Deliveries(p) ==
    \E c \in Channels : SendOk(p, c) \/ SendFails(p, c) \/ SendUnacknowledged(p, c)

Step(p) ==
    \/ Check(p) \/ Abandon(p) \/ Publish(p) \/ StaySilent(p) \/ Decide(p)
    \/ Deliveries(p) \/ Commit(p) \/ Save(p) \/ SaveFails(p)

Next ==
    \/ \E p \in Procs :
         \/ Step(p) \/ Start(p) \/ Exit(p)
         \/ CheckInterrupted(p) \/ Signal(p) \/ Crash(p)
    \/ Tick
    \/ Corrupt

Spec == Init /\ [][Next]_vars

\* What the schedule of the program justifies: a started step of a cycle ends,
\* an interval or a cron starts the next one, and a channel that is tried for
\* ever is not down for ever.
Fairness ==
    \A p \in Procs :
        /\ WF_vars(Step(p))
        /\ WF_vars(Start(p))
        /\ \A c \in Channels : SF_vars(SendOk(p, c))

FairSpec == Spec /\ Fairness
-------------------------------------------------------------------------------
\* Every variable keeps its type.
TypeOK ==
    /\ now \in Nat
    /\ servers \in [Targets -> Servers]
    /\ file \in Domains \cup {Unusable}
    /\ proc \in [Procs -> ProcState]
    /\ heard \in SUBSET Announcement
    /\ owed \in SUBSET (Domain \X Channels)

\* In history h, entry e about target t went out over every channel of a configuration.
Delivered(h, t, e) ==
    \E cfg \in Configs : \A c \in cfg.channels :
        [channel |-> c, target |-> t, entry |-> e] \in h

Backed(h, domains) ==
    \A d \in Domain : domains[d] # NoEntry =>
        \E t \in Targets : Key[t] = d /\ Delivered(h, t, domains[d])

\* "Record runs only once the alert has actually gone out" (state.go, main.go
\* notify): whatever a cycle holds in memory or finds in the file was delivered
\* over every channel of a configuration, whichever crash, failed write, lost
\* answer or second process came between.
OnlyAnnouncedIsRemembered ==
    /\ file # Unusable => Backed(heard, file)
    /\ \A p \in Procs : proc[p].pc \in {"sending", "saving"} => Backed(heard, proc[p].mem)

\* What keeps a problem quiet: an announcement of the same target with the same
\* status and certificate, on a rung no higher than any the days left have come
\* down to, less than RepeatAfter ago.
Covers(a, t, r, clock) ==
    /\ a.target = t
    /\ a.entry.status = r.status
    /\ sameCertificate(a.entry.exp, r.exp)
    /\ \A s \in Steps : Valid(r.status) /\ r.days <= s =>
           a.entry.step # 0 /\ a.entry.step <= s
    /\ RepeatAfter = 0 \/ clock < a.entry.at + RepeatAfter

Suppressed(s) == IF s.pc = "sending" THEN Problems(s.results) \ s.pending ELSE {}

\* "Every one of them can only suppress a repeat of something already sent"
\* (state.go): a problem a cycle does not send was heard, on some channel, as
\* it is now.  It needs a channel to be configured and no two targets to share
\* a domain.
NeverSwallowed ==
    \A p \in Procs : \A t \in Suppressed(proc[p]) :
        \E a \in heard : Covers(a, t, proc[p].results[t], proc[p].clock)

\* "The ones that came back to ok, so the next problem alerts immediately"
\* (state.go Sync): no cycle keeps quiet about a domain that was ok, or not
\* listed, in a committed cycle after its channels last heard of it.
OwedIsNeverSuppressed ==
    \A p \in Procs : \A t \in Suppressed(proc[p]) :
        \A c \in proc[p].cfg.channels : <<Key[t], c>> \notin owed

\* "It must only be called with the results of a complete run" (state.go Sync;
\* main.go checkOnce drops an interrupted check): a cycle that announces or
\* commits holds one result for each target of its list and none of them is a
\* canceled context, however the signal falls.
OnlyCompleteRunsNotify ==
    \A p \in Procs : proc[p].pc \in {"sending", "saving"} =>
        /\ IsComplete(proc[p])
        /\ \A t \in Listed(proc[p].results) : ~proc[p].results[t].canceled

FineFor(s, d) ==
    \A t \in s.cfg.targets : Key[t] = d =>
        t \in Listed(s.results) \ Problems(s.results)

\* A readable file loses a domain only to a cycle that found every target of
\* that domain ok or no longer listed: not to an interruption, a crash, a failed
\* delivery or a failed write.
ForgottenOnlyWhenFine ==
    [][\A d \in Domain :
          (/\ file # Unusable /\ file' # Unusable
           /\ file[d] # NoEntry /\ file'[d] = NoEntry)
          => \E p \in Procs : proc[p].pc = "saving" /\ FineFor(proc[p], d)]_vars

\* b is the last thing its channel has heard of its target; of two that came
\* between one tick and the next neither is.
IsLast(b, h) ==
    \A c \in h \ {b} : c.channel = b.channel /\ c.target = b.target => c.entry.at < b.entry.at

\* "Anything else repeats only once per RepeatAfter" (state.go): a channel does
\* not hear of a problem again, with nothing new since it last did, before
\* RepeatAfter is over or the domain was fine.
NoEarlyRepeat ==
    [][\A a \in heard' \ heard : <<Key[a.target], a.channel>> \notin owed =>
          \A b \in heard :
            (/\ b.channel = a.channel
             /\ b.target = a.target
             /\ IsLast(b, heard)
             /\ [b.entry EXCEPT !.at = a.entry.at] = a.entry)
            => RepeatAfter > 0 /\ a.entry.at >= b.entry.at + RepeatAfter]_vars

\* The alert history as a ledger: see AlertLedger.
Ledger == INSTANCE AlertLedger WITH ledger <- Load(file)

\* The cycle with its file implements the ledger.
ImplementsLedger == Ledger!Spec

ShowsProblem(t) ==
    \A diagnosed \in BOOLEAN : CheckTarget(servers[t], now, diagnosed).status # "ok"

\* A cycle that ends before anything is sent.
Setback == \E p \in Procs : Crash(p) \/ Abandon(p) \/ StaySilent(p)

\* A problem that stays reaches every channel in the end, however many deliveries
\* and saves fail before, for the failed ones are not recorded and so retried;
\* unless the process keeps crashing, cannot publish its reports or is told to
\* be silent.
PersistentProblemIsHeard ==
    \A t \in Targets :
        <>[]ShowsProblem(t) /\ <>[][~Setback]_vars
            => \A c \in Channels : <>[](<<Key[t], c>> \notin owed)
==============================================================================
