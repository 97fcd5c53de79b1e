# A TLA+ model of sslscout

sslscout checks the TLS certificates of a list of targets, publishes a
`report.json` for a static dashboard and sends alerts to Slack, Teams and
e-mail, remembering in `state.json` what it has already said. This directory
holds TLA+ modules translated from its Go source, TLC configurations that check
them on small instances, and TLAPS proofs. All paths below are relative to the
repository; `main.go` is `cmd/sslscout/main.go`.

## Inventory

| Component | State it keeps | Operations | What makes it correct |
| --- | --- | --- | --- |
| Alert history, `pkg/state` | `state.json`: per domain the last announced status, rung, expiry date and time | `Load`, `Pending`, `Record`, `Sync`, `Save` | only what was sent is remembered; what is kept quiet was heard; a recovered target alerts at once |
| Check cycle, `main.go` `checkOnce`, `notify` | results in hand, history in memory, pending alerts | check, drop or publish, load, send, commit, save | an interrupted check changes nothing; nothing is committed before it is delivered |
| Check pool, `main.go` `checkAll` | result list, semaphore, wait group | start, cut, wait | never more than `concurrency` at once; the list is final when it is returned |
| Process life, `main.go` `run`, `serve`, `shutdownServer` | mode, context, server, error channel, exit code | the loop, three waits, deferred calls | a signal ends it; a lost server is noticed; the code tells the truth |
| Target check, `pkg/checker/checker.go` | attempts, result under construction | dial, retry with backoff, diagnostic reconnection, refinement | only transient failures are retried; nothing unverified validates a domain |
| Classification, `pkg/checker/status.go` | none | `classify`, `Severity`, `SeverityFromName` | transient and permanent failures kept apart |
| STARTTLS, `pkg/checker/starttls.go` | the dialogue with the server, 64 KiB cap | five dialogues | a refusal is permanent, an I/O failure is not; the cap is an error |
| Target list, `pkg/checker/target.go` | the list | parse, infer, de-duplicate | a name always means the same target |
| Notifier and e-mail, `pkg/notifier` | none | group, render, post, SMTP session | one channel's failure neither hides the others nor is hidden |
| Report, `pkg/report` | `report.json` | sort, summarise, write | never seen half written |
| Configuration, `pkg/config` | the configuration | merge, override, validate | an invalid one never runs |
| Translations, `pkg/i18n` | catalogs | look up, pluralise | — |
| Dashboard, `public/index.html` | page state | load, normalise, filter, sort | shows what the report says |
| Packaging | — | images, units, cron lines | — |

How they interact: `run` starts the HTTP server's goroutine and calls
`checkOnce` in a loop. `checkOnce` calls `checkAll`, which runs one goroutine per
target, at most `concurrency` at a time; each calls `CheckTarget`. The results
are sorted into a report and written; `notify` loads the history, hands what is
news to the channels one after the other, and commits and saves the history. The
signal context is shared by all of them except `notify`, which no signal cuts
short. The state file is shared by every process that names it, without a lock;
the report is shared with the web server and the dashboard.

What is hard here: signals that fall between any two of those steps; crashes
between a delivery and the save; channels that fail one by one, or deliver and
lose the answer; the unlocked file; several waits that select over the same
events; deferred calls whose order matters; retries that must stop. The full list,
with lines, is under `hazards` in `PROJECT.json`.

## Modules

| Module | Models | Composed of |
| --- | --- | --- |
| `CheckResult` | what one check reports: statuses, thresholds, chain and leaf dates | — |
| `AlertState` | `pkg/state` as operators | `CheckResult` |
| `AlertCycle` | the cycle with its state file, channels, clock, faults | `AlertState` |
| `AlertLedger` | abstract: what the history promises | implemented by `AlertCycle` |
| `AlertCycle_proofs` | theorems about `AlertCycle` | `AlertCycle` |
| `AlertHistory_proofs` | theorems about one process with the file to itself; the refinement of `AlertLedger` | `AlertCycle_proofs` |
| `AtomicFile` | how a file is published: temporary file, sync, rename | — |
| `MailSession` | one message over SMTP, command by command | — |
| `Outbox` | what a cycle puts out, down to disk and wire, by several processes | `AtomicFile`, `MailSession` |
| `Outlet` | abstract: what is promised of the report, the history and the receivers together | implemented by `Outbox` |
| `Outbox_proofs` | theorems about `Outbox`; the refinement of `Outlet` | `Outbox` |
| `Handshake` | one target's check as steps on a record; `classify` | — |
| `StartTLS` | one connection behind STARTTLS: client, socket, server | `Handshake` |
| `StartTLS_proofs` | theorems about `StartTLS` | `StartTLS` |
| `CheckPool` | `checkAll`: loop, semaphore, goroutines, signal | `Handshake` |
| `CheckBatch` | abstract: what `checkAll` promises its caller | implemented by `CheckPool` |
| `CheckPool_proofs` | theorems about `CheckPool`; the refinement of `CheckBatch` | `CheckPool` |
| `RunLoop` | `run` from its first check, `serve`, `shutdownServer`, the exit code | a check is one step |
| `RunLoop_proofs` | theorems about `RunLoop` | `RunLoop` |
| `CheckedRun` | `run` with the goroutines of its checks | `CheckPool`; implements `RunLoop` |
| `CheckedRun_proofs` | theorems about `CheckedRun`, with those of `CheckPool` | `CheckedRun`, `CheckPool_proofs` |
| `Settings` | `pkg/config` as operators: layers, overrides, `Validate` | — |
| `TargetList` | `pkg/checker/target.go` as operators on a line and on the list so far | — |
| `Process` | `run` from its first line: the start, then `RunLoop` | `RunLoop`, `Settings`, `TargetList` |
| `Process_proofs` | theorems about `Process`, with those of `RunLoop` | `Process`, `RunLoop_proofs` |
| `MCAlertCycle`, `MCCheckPool`, `MCRunLoop`, `MCProcess`, `MCOutbox` | instances for TLC | |

The state machines cut the program by level. `Process` is the program from its
first line; once it has started, every step is one of `RunLoop`. There a check is
one step, `Check`. `CheckedRun` puts the goroutines of `CheckPool` in its place,
over the same signal context and once per cycle, makes the verdict of what they
stored, and is proved to implement `RunLoop`: what `RunLoop` takes for granted of
a check is what `checkAll` does. A connection of the pool ends in one of the errors
of `Handshake`; `StartTLS` opens one, and ends in one of those errors or in a
certificate (its `TypeOK`). `DialFails` takes any error of `DialErrors`, of which
the theorems say no more than that `classify` knows them.
`AlertCycle` takes the answer of `CheckBatch` in its actions `Check` and
`CheckInterrupted` and follows what becomes of it, one step per channel and per
file; `Outbox` opens those steps. So a property of `AlertCycle` that needs complete
results rests on `ImplementsBatch`, and the steps it takes as atomic, or as one of
three outcomes, rest on `ImplementsOutlet`. The joint between
`AlertCycle` and `CheckBatch`, whose results keep different fields, is by reading;
the others are the theorems named.

Mutated forms: some definitions are preceded by a variant that holds a plausible
mistake (a dropped guard, a swapped order, a counter one too far). No action
uses them. `PROJECT.json` says which property fails when the variant takes the
definition's place, so that every property is known to depend on the code.

### AlertCycle and the code

| Action | Code |
| --- | --- |
| `Start`, `Exit` | `run` begins with the loop, ends after it |
| `Check`, `CheckInterrupted` | `checkAll` without and with a signal |
| `Abandon` | `ctx.Err() != nil`, or `report.Write` failed |
| `Publish` | `report.Write` succeeded |
| `StaySilent` | `-notify=false`: the report is all there is |
| `Decide` | `notify` up to the delivery: `time.Now`, `state.Load`, `Pending` |
| `SendOk`, `SendFails`, `SendUnacknowledged` | one channel of `notifier.Notify` |
| `Commit` | `Record`, then `Sync`, in memory; without a history the cycle just ends |
| `Save`, `SaveFails` | `State.Save`, which renames or leaves the old file |
| `Signal`, `Crash`, `Tick`, `Corrupt` | the environment |

`proc[p]` is one process: where it is, its configuration and what its cycle
holds. `file` is the state file, or `Unusable`; a missing file loads as an empty
history and is modelled as one. `heard` and `owed` are history variables: every
delivery there ever was, and for which domain and channel the next problem is
new. Days are computed from dates (`daysRemaining` floors), so time drives the
countdown, the thresholds and the rungs. One tick is the resolution of the
clock; the servers may change when it passes, and do not in between.

A result keeps the fields the history and the exit code look at. Which of two
results of one domain `Record` and `Sync` see last follows the report's order;
equal ones keep the order of the list, for which a fixed choice stands.
Left out: not-yet-valid certificates (a status `invalid` like others here; they
are in `Handshake`), the message texts, and the delivery inside a channel.

### CheckPool, Handshake and the code

`check[i]` is the goroutine of target `i`: dialing, in backoff, diagnosing, about
to store its result, about to give back its slot, about to leave the group. The
steps on it are operators of `Handshake`; `CheckPool` interleaves them with the
loop (`Spawn`, `Cut`, `AllSpawned`, `Return`) and the signal. `tried` and `late`
are history: how each attempt ended, and how many connections began after the
signal. A connection begun under a done context can only fail, in the dialer
(`context.Canceled`) or in the resolver, whose error `classify` calls transient;
one under way when the signal comes may still end in any way, because the
STARTTLS dialogue does not look at the context. A handshake of `crypto/tls`
always yields a certificate, so the status `no_certificate`, a defensive branch,
is left out.

### RunLoop and the code

`main` is where `run` is; `checked` and `decided` are inside `checkOnce` and after
it. `http` is the server's goroutine, `serverError` the channel, `held` the
results in hand, `found` the verdict of the last report that was published.
`net/http` is external: `Serve` returns as soon as `Shutdown` is called, a
request may be in flight then, and `Shutdown` waits for it five seconds.
The interval's timer may fire whenever the process sleeps. `notify` is part of
`Publish`: it changes nothing `run` looks at.

`CheckedRun` shares `ctx` between the two: `Checking` is a step of the loop or of a
goroutine while `run` waits, `Collect` the return of `checkAll` with the verdict
(the worst severity of `results[:started]`, and whether anything in it is
canceled or missing), `Again` the next cycle with a list and a semaphore of its own,
`Beside` every other step of `RunLoop`.

### StartTLS and the code

The five dialogues differ in what they say and agree in how they read, so
they are one reader over the table `Dialogue`. A stage may ask something, then
reads units (lines, BER elements, one byte): those in `skips` are passed over,
one in `wants` ends the stage, any other is a refusal. `Fill` and `Read` are the
two halves of `bufio.Reader` over the `LimitReader`. A read takes in any part of
what arrived: it ends at the 4096 bytes of the buffer, at the end of a segment, or
where the 64 KiB (`MaxUnits`) are used up, and a unit may be of any length. What
lies in the buffer is lost when TLS takes over the socket. PostgreSQL's byte is
read without a buffer. `readLine` answers with what it has when the stream ends in
the middle of a line, so `Fill` and `Close` may leave a fragment there that reads
as another line. `cutShort` remembers that one was consumed.

The server is external. It answers what it is asked, agrees or declines in words
of the protocol or not, chats as far as the protocol lets it, and may close or
fall silent anywhere; it does not answer twice or unasked.

`Hello` is the handshake. With plaintext in its way it fails. With a server that
agreed it ends in a certificate or in any error of `DialError` that is not the
business of the resolver, the dialer or the dialogue (`HandshakeError`): a
certificate that is refused, an alert or another failure of TLS, a lost
connection, a context that is canceled. So what is final (not tried again) is not
only a refusal, and `OnlyAnswersAreFinal` says what it is: something the server
declined, or agreed to and then failed at.

`UpgradeIsClean` has one exception, which is what the code does. `startTLSLDAP`
stops at the result code and never looks at what follows it in the response; that
rest is lost with the buffer or, when it has not been read yet, reaches the
handshake. This happens to a reply in several segments and to one that is longer
than a read, even in one piece.

### Process and the code

| Action | Code |
| --- | --- |
| `ParseArgs`, `Tell` | the flags; `-help`, `-version` |
| `LoadConfig` | `config.Load`: a missing file is fine unless it was asked for |
| `Override` | `ApplyEnv`, then `applyFlags` |
| `ValidateConfig` | `Validate`, `-fail-on`, `-interval` |
| `ScanLine` | one turn of the scanner in `ParseTargetList` |
| `LoadTargets` | its end, and that of `LoadTargets`: every problem is known, or none |
| `Listen` | `net.Listen` with `-serve`, and then `Begin` of `RunLoop` |
| `Running` | any other step of `RunLoop` |

A scenario is what a process may be started with: mode, file, environment, flags,
lines of the list, and one further trouble. A layer is a record of the fields it
sets, so that a field not given differs from one given as zero. Durations are
multiplied in half seconds in a word of `Word` values; the code has
nanoseconds in 64 bits, where the same numbers wrap around later. `normalized`
replaces a timeout or a number of attempts below its least by a default;
`DurationsAreSound` says, among other things, that `Validate` leaves it no occasion
to. A line is scheme, host and port.

### Outbox and the code

`job[p]` is one cycle of process `p`: report, webhook, mail, history. `Write`
is the next step of `report.Write` or `State.Save` (`Order`: create, write in
`Parts` pieces, sync, close and set the mode, rename); `WriteFails` is an error of
it with the deferred `Remove`. Both functions write the same way, so one
protocol stands for both. The mail is a list of commands (`Commands`): `MailObeyed`,
`MailRefused` and `MailLost` are the server's yes, its no, and the deadline or a lost
connection, after which the command may have been obeyed. `local` says that the
server is `localhost`, the one host `smtp.PlainAuth` sends a password to in the
clear (`Refrains`). `Crash` ends one
process, `PowerLoss` all of them: a file keeps what was synced, and a rename may
be undone, since no directory is synced.

Which problems are news is simplified to what the history does not hold; the
rules for it are `AlertCycle`'s. The webhook stands for Slack and Teams, which are
posted alike, and does not redirect.

## Runs

| Run | Instance | Shows |
| --- | --- | --- |
| `cycle_faults` | one target, two channels that fail or lose the answer independently; crashes, failed publication and save, corruption; two ticks, under fairness | `NeverSwallowed`, `ForgottenOnlyWhenFine`, `ImplementsLedger`, `PersistentProblemIsHeard` |
| `cycle_lists` | two targets, one may leave the list; servers fail and recover, certificates age and are renewed; a signal at any step | `TypeOK`, `OnlyCompleteRunsNotify`, `OwedIsNeverSuppressed`, `NoEarlyRepeat` |
| `cycle_shared` | two processes, with or without a history, one file, with or without `-notify`; crashes, failures; a target that stops and starts being trusted | `OnlyAnnouncedIsRemembered`, `NeverSwallowed` |
| `starttls` | the five dialogues, a server that agrees, declines, chats, closes or falls silent, reads that take in any part, every end of the handshake; under fairness of the client alone | `TypeOK`, `UpgradeIsAgreed`, `OnlyAnswersAreFinal`, `UpgradeIsClean`, `AsksInTurn`, `DialogueEnds` |
| `pool` | three targets, two slots, two attempts; one error of verification, one of the resolver, one verdict; a signal at any step, under fairness | `TypeOK`, `SlotsAreHeld`, `RetryPolicy`, `GoldenRule`, `SignalStopsDialing`, `ImplementsBatch` (with its liveness: it answers) |
| `process` | files, environments and flags against each other; every pair of lines and some of three; every combination of `-serve`, `-interval`, `-fail-on` and trouble; then the life of the process with signal, failed write, lost server; under fairness | `TypeOK`, `FlagsWin`, `BrokenNeverRuns`, `DurationsAreSound`, `EveryLineIsAsked`, `ReportIsNeverGarbled`, `IntervalStaysUp`, `LostServerIsAnError`, `SignalEnds`, `LeavingEnds`, `LossEnds` |
| `outbox` | two processes over the same two files; five mail configurations, on this machine and elsewhere, two recipients; failing disks and servers, kills, power failures; under fairness | `TypeOK`, `PublishedIsWhole`, `NoLitter`, `RecordedWasDelivered`, `NothingInTheClear`, `CycleEnds`, `ImplementsOutlet` |

Why the bounds are enough.

- Cycle runs. One tick is a day, the ladder is {2, 3}, warnings start at three
  days and critical at one. The ageing certificate has three days at first: two
  ticks take it over both rungs to critical; the one that renews it has five, above
  the ladder until the second tick, where it warns as the old one did at first. A
  quiet period of one tick is over between two cycles; one of three ticks lasts
  through `cycle_lists`, where a target that fails, recovers and fails again is
  quiet only if something is wrong. The history looks at one domain at a time; two
  targets matter for lists that shrink and for shared domains. Two processes are
  enough for a lost update; a third would only lose another. Two channels are
  enough for one to fail before or after the other. `cycle_lists` leaves untrusted
  certificates out: the diagnostic connection may or may not yield a date for
  them, and `sameCertificate` takes "no date" and "a date" for two certificates, so
  such a problem may be repeated early (`state.go:206`). `cycle_shared` has them.
- `starttls`. The longest reply has five units and the limit is six, so it falls
  inside every later stage; two chatting lines are one more than it takes to
  confuse a reply with the next.
- `pool`. Three targets over two slots make the loop wait for a slot, be cut while
  it waits, and be cut with a slot free. Two attempts make one that may be retried
  and a last one; the three outcomes are one the diagnosis looks into, one that is
  transient and one that succeeds; the other errors share their branches.
- `process`. `RunLoop` needs no bound: its state is finite and any number of cycles
  is checked. The severities 0, 2 and 5 are below, at and above the threshold. The
  scenarios vary one group (settings, lines, mode and trouble) with the others at
  their plainest, because the groups meet in no expression. The values are on
  both sides of every condition of `Validate`; with `Word` 2^20 there are durations that wrap
  around to negative and to small positive ones. Two lines are enough for a
  duplicate, three for one with a target in between; the theorems are about lists of
  any length.
- `outbox`. Two processes with one cycle each, started in any order, make each
  read what the other has saved and write while it writes. Two parts make a
  half-written file; two recipients make a half-accepted mail. The second problem
  of the larger batch is news to one process and not to the other.

Deadlock is checked in the cycle runs. The others end by design, so their
configurations switch that check off; that they do not stop early is their
liveness.

Fairness.

- `AlertCycle`: a cycle's steps go on and a scheduler (an interval, cron, systemd)
  starts the next one (weak fairness); a channel tried for ever is not down for
  ever (strong fairness of `SendOk`, an assumption about the outside without which
  no alert can be promised). `PersistentProblemIsHeard` further assumes that crashes
  and cycles without a report or with `-notify=false` do not go on for ever; failed
  deliveries and saves may.
- `CheckPool`: goroutines run on, and each connection ends because its deadline
  covers the dial, the dialogue and the handshake (weak fairness per goroutine).
  `StartTLS` is where that deadline is modelled: the client runs on and its
  deadline passes; the server owes nothing.
- `RunLoop`, `Process`: the start is straight-line code; the process and its server's
  goroutine run on; a `select` does not for ever pass over a case that is ready
  again and again (strong fairness of `Stop` and `ServerEnded`; Go chooses among
  ready cases at random).
- `Outbox`: a process that is not killed takes its next step: writes return, the
  deadlines of the webhook and the mail pass. `MailObeyed` and `MailRefused` are not fair: no
  server is trusted to answer.

## Where the code and its word differ

Five runs end in a violation: each checks what a comment or the README says.

- `find_twins`: `smtp://mail:587` and `tls://mail:587` are two targets and one
  domain. While one is fine and the other is not, the entry is written and
  deleted in the same cycle, and the alert is repeated in every run.
- `find_save_lost`: a failed save after a recovery leaves the old entry, and the
  next problem is suppressed by it.
- `find_interrupted_exit`: with every server answering and every certificate
  fine, a one-shot run that is interrupted takes its canceled checks for errors and
  exits with 2. The run is of `CheckedRun`, so the canceled results are those of
  `checkAll`.
- `find_cut_request`: a request in flight at shutdown is cut, although it has five
  seconds of grace.
- `find_zero_threshold`: a threshold of zero is accepted, the checks use the
  default in its place, and the report shows zero. With `alert` 5 and `critical` 0
  the critical threshold in force is 7, above the other.

Met while modelling, and kept as a precondition or an exception of a property
rather than as a run:

- With no channel configured a problem counts as announced, and a channel
  configured later stays silent about it (`main.go:348`). `NeverSwallowed` assumes
  a channel.
- A partial line at the end of the stream or of the limit counts as a line
  (`starttls.go:99-110`), so a lost connection may come out as a refusal, which is
  not retried, against the comment at `starttls.go:40-44`. This is `cutShort`.
- The rest of an LDAP response may reach the TLS handshake, which then fails for
  good although the server agreed (`starttls.go:300-316`). The comment on
  `textConn` (`starttls.go:85-89`) says why a buffered reader is safe before a
  handshake; for LDAP, it does not apply. This is the exception of `UpgradeIsClean`.
- A run that comes a moment less than `repeat` after the last notification is
  too early to repeat it, and the next one may be a whole interval away
  (`state.go:130`). `NoEarlyRepeat` is about repeats that come too soon.
- `-timeout 0` and negative values of `-timeout` and `-repeat` are ignored in silence,
  although a flag that is given overrides the file. `FlagsWin` speaks of
  the settings; the durations made of them are in `DurationsAreSound`.
- The README (294) wants the critical threshold lower than the other; an equal one
  is accepted.
- The README (325) says that with `tls` "none" the password travels in the clear.
  It does only to `localhost`, `127.0.0.1` or `::1`; for any other host
  `smtp.PlainAuth` refuses, and the mail counts as failed. `NothingInTheClear`
  says so.
- A webhook's redirect is followed with a GET, and its answer counts as delivery.
- A power failure after a delivery may undo the rename of the history, since
  the directory is not synced: a duplicate alert, never a lost one.

## Proofs

Every theorem below holds for any values of the constants that satisfy the named
assumptions of its module: any targets (finitely many), processes, channels,
slots, attempts, recipients, limits and sets of faults. The runs show the same
properties on their instances, with the invariants of this section checked by
TLC before they were proved. All of them are theorems of the safety
specification `Spec`, so they hold with any fairness.

| Module | Theorem | States | Provided that |
| --- | --- | --- | --- |
| `AlertCycle_proofs` | `TypeCorrect` | `TypeOK` | |
| | `RememberedWasAnnounced` | `OnlyAnnouncedIsRemembered` | |
| | `InterruptedIsSilent` | `OnlyCompleteRunsNotify` | |
| | `NothingSwallowed` | `NeverSwallowed` | `KeyInjective`, `AlwaysSomeChannel` |
| `AlertHistory_proofs` | `OwedIsSent` | `OwedIsNeverSuppressed` | `OneProcess`, `SameChannels`, `SavesSucceed` |
| | `QuietPeriodIsKept` | `NoEarlyRepeat` | `KeyInjective`, `OneProcess`, `AlwaysHistory`, `SameChannels`, `NothingLost`, `AllOrNothing` |
| | `OnlyFineIsForgotten` | `ForgottenOnlyWhenFine` | `KeyInjective`, `OneProcess` |
| | `KeepsTheLedger` | `ImplementsLedger` | `OneProcess`, `AlwaysHistory` |
| `CheckPool_proofs` | `PoolTypeCorrect`, `NeverTooMany`, `RetriesAreJustified`, `NeverValidatedUnverified`, `SignalStops` | `TypeOK`, `SlotsAreHeld`, `RetryPolicy`, `GoldenRule`, `SignalStopsDialing` | |
| | `AnswersAsABatch` | the safety half of `ImplementsBatch` | |
| `StartTLS_proofs` | `StaysInItsLimit`, `NoHelloUnagreed`, `NoRefusalUnspoken`, `NeverOutOfTurn` | `TypeOK`, `UpgradeIsAgreed`, `RefusalIsSpoken`, `AsksInTurn` | |
| | `NoPlaintextLeft`, `FinalMeansAnswered` | `UpgradeIsClean`, `OnlyAnswersAreFinal` | |
| `Outbox_proofs` | `OutboxTypeCorrect`, `NeverHalfAFile`, `LeavesNoLitter`, `QuietMeansDelivered`, `SpeaksUnderCover` | `TypeOK`, `PublishedIsWhole`, `NoLitter`, `RecordedWasDelivered`, `NothingInTheClear` | |
| | `KeepsThePromise` | `ImplementsOutlet` | |
| `RunLoop_proofs` | `RunTypeCorrect`, `ReportStaysWhole`, `StaysUp`, `LossIsAnError` | `TypeOK`, `ReportIsNeverGarbled`, `IntervalStaysUp`, `LostServerIsAnError` | |
| `CheckedRun_proofs` | `ChecksAsRunLoopAssumes` | `CheckedRun` implements `RunLoop` | |
| | `EveryCycleIsSound` | `TypeOK`, `SlotsAreHeld`, `RetryPolicy`, `GoldenRule`, `SignalStopsDialing` in every cycle | |
| | `ReportsAreWhole`, `TheCodeIsTheResults` | `EveryReportIsWhole`, `ExitTellsTheResults` | |
| `Process_proofs` | `TheHighestLayerWins`, `NoDurationIsLost` | `FlagsWin`, `DurationsAreSound` | |
| | `NothingBrokenRuns`, `NoLineIsLost` | `BrokenNeverRuns`, `EveryLineIsAsked` | |
| | `WholeLife` | what `RunLoop_proofs` proves, of a process that starts with its arguments | |

The assumptions on constants say what they are: sets of records of the declared
types, positive bounds, a finite list of targets; of a scenario, that a layer
declares fields it may declare, with numbers where the code has numbers, that
a file that was not read declares nothing, and that a list is a sequence of lines,
each of any scheme, host and port.

### The inductive invariants

Hardly any of these properties is inductive; each module names the
strengthening.

`AlertCycle_proofs`, `IInv`. What `Save` writes was decided several steps
earlier, so the invariant follows each process through its cycle. From the check
on, its results are complete (`Whole`) unless the signal came; from `Decide` on,
what is pending is exactly what `ToAnnounce` selects from the history in memory,
that history is `Backed` by deliveries, and every channel already tried without
a failure has delivered every pending announcement (`SentSoFar`). When no
channel is left and none has failed, the committed history is `Backed` again.
Deliveries only grow `heard`, and `Backed` and `SentSoFar` grow with it, so no
other process can disturb it: this is the lemma behind the unlocked file. With
targets that share a domain, `LastIsLast` is what is needed: an entry is that of
the last result that wrote it, by a least counterexample over the list's order.

`AlertHistory_proofs` is about one process that has the file to itself.
`SoleInv`: between `Decide` and `Save` the file is the one that was loaded, and
every difference from it is a rule of the ledger. `OwedInv`: no channel is owed
the next problem of a domain the history has an entry for, at each stage of the
cycle. `RepeatInv`: unless a channel is owed the next problem, the last thing it
heard about a target is in the history, or pending with that channel done.

Each of their hypotheses is needed; for each one removed TLC finds a
counterexample:

- `OneProcess`: a slower process saves an older history over a newer one.
  Nothing in the code locks the file.
- `SameChannels`: a channel that was added is not told what the history holds.
- `SavesSucceed` (no crash, no failed save): a lost save brings back the entry
  of a problem that was over (`find_save_lost`). Failed deliveries and
  publications, signals and damage to the file may happen.
- `AlwaysHistory`: without one a problem is repeated in every run, by design.
- `KeyInjective`: two targets that share a domain forget each other's entries
  (`find_twins`).
- `NothingLost`, `AllOrNothing`, for the quiet period alone: an alert that went
  out is sent again when its save or its answer was lost, when the file was
  damaged, or when a second channel refused it. The code prefers that to losing
  it.

`cycle_lists` satisfies those of `OwedIsSent` and `QuietPeriodIsKept`,
`cycle_faults` those of the other two.

`CheckPool_proofs`, `IInv`: what is true of one goroutine in each phase
(`Sound`: attempts left while it retries, attempts counted and ended for a
reason once it does not, at most one connection after the signal), that `sem` is
the number of goroutines in a phase with a slot (`Holders`), and that the list
holds what has been stored. A step moves one goroutine, so one lemma per step
says which phase it leaves and which it enters, and the slots follow from
`FS_AddElement` and `FS_RemoveElement`.

`StartTLS_proofs`, `SInv`. A text protocol (`TextInv`) is at one of four points:
a question not yet asked, `Pending`, `Coming` or `Given`, and then the first
unit in the stream `buf \o wire` that is no chatter answers the question of this
stage, and no other. For LDAP and PostgreSQL (`BinaryInv`) the stream and what
the server has yet to send are the rest of one reply. `Fill` moves a piece
across the stream and may cut its last unit, which is why everything is said of
the concatenation. `UpgradeIsClean` follows: the stream ahead of a text protocol
is empty when the handshake begins, PostgreSQL's reply has one unit, and an LDAP
reply one more than the dialogue looks at. `OnlyAnswersAreFinal` needs two more
facts, because an ended connection no longer says what went before. `Agreed`: once
past its last stage, a dialogue has the server's consent. `EndInv`: a connection
that ended in any way but a refusal, a timeout or a loss was past it. So what
`classify` calls final is a refusal, which the server has spoken
(`RefusalIsSpoken`), or comes of a handshake the server agreed to.

`Outbox_proofs`, `IInv`. A file under a writer's own temporary name is what the
step of the writer says it is (`DraftOK`, `TempOK`); a published file, and every
one a power failure may bring back, is whole and synced (`FilesInv`). Once a
job's step is past a receiver without a failure, that receiver was told
(`JobOK`), for the mail because each `rcpt` that was done has been accepted
(`SessionOK`). So a text that is renamed over the history has been heard by
everybody, and `heard` only grows. The refinement maps a rename to the outlet's
`Show` or `Remember`, a delivery to `Hear`, a power failure to `Restore`, and
everything else to a stutter.

`RunLoop_proofs`, `RInv`. The exit code is chosen when `run` decides to leave,
two deferred calls before the process is gone, and the reason for it may lie
cycles back. `ContextInv`: until `run` cancels the context itself, it is done
only because of the signal. `ReportInv`: garbled results are in hand only under
a context that is done, which is why one look at it is enough, although the
signal may come right after it. `ServerInv`: the server ends once, what the
channel holds is how it ended, and it ends without an error only under a done
context. `LeaveInv`: whoever leaves without a signal leaves a server's process
with code 1, and an interval's only if the server was lost.

`CheckedRun_proofs`, `CInv`: the `IInv` of `CheckPool`, which `Again` establishes
afresh, and that from `Collect` until the exit the verdict in hand is the one of
the list as it then lies there (`VerdictInv`). A garbled verdict means a context that
is done, which is the guard of `Check` in `RunLoop` and the heart of the
refinement. With a published report the single look at the context proves the
list whole: `ReportsAreWhole` follows although `ctx` may change at once
afterwards. `OneShotInv` keeps a single check's code and its results together
through the deferred calls. TLC has checked the two properties and the refinement
on two targets, two slots and two attempts (5 million states), besides the run.

`Process_proofs`, `StartInv`: how far the start has come says what has been
checked. It is needed for `WholeLife`, too: `RInv` is not kept by a start whose
mode came from anywhere else. For the list, `ReadSoFar` says what the lines up to
`lineNo` have made: a problem for a malformed one, otherwise a target that asks the
same, each from a line up to which no later target was named. The induction over the list is
the program's own loop, one line per step (`OneLineMore`), which is what makes it
provable. That two lines with one key ask the same question (`KeyIsTarget`) is
why a dropped duplicate is no lost line.

### What is only model-checked

- Liveness: `DialogueEnds`, `PersistentProblemIsHeard`, `CycleEnds`,
  `SignalEnds`, `LeavingEnds`, `LossEnds`, and that `checkAll` answers at all,
  the other half of `ImplementsBatch`. Fairness and ENABLED are beyond the
  prover.

Every other property of a passing run is a theorem.

## Plan

Next: the joint that is still by reading, that an answer of `CheckBatch` is what
`AlertCycle`'s `Check` and `CheckInterrupted` take, for which the two need one
record of a result. A module still worth writing: `Dashboard`, the normalisation of
a report, filters and sorting.

## Not modelled, and why

Texts, layout and translations (no property is about them); JSON encoding;
certificate fields other than the dates; `crypto/tls`, `crypto/x509` and
`net/http`, which are external and modelled from how the code uses them; the
dashboard, for now; the packaging. A listed component that is not complete
says in `PROJECT.json` what is missing.
