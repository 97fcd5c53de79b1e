------------------------------ MODULE AlertState ------------------------------
(***************************************************************************)
(* pkg/state: what has already been announced, so that a check that runs   *)
(* every hour does not send the same alert every hour.  The operators are  *)
(* the package's functions; the state machine that calls them is           *)
(* AlertCycle.  A definition introduced as a mutated form is a plausible   *)
(* mistake in the definition that follows it: no action uses it, and the   *)
(* properties are shown to catch it when it takes that definition's place. *)
(***************************************************************************)
EXTENDS CheckResult, FiniteSetsExt

CONSTANTS
    Targets,      \* the targets a list may name
    Key,          \* Key[t] is Target.String(), the domain a result is keyed by
    NoEntry,      \* a domain absent from State.Domains
    NoResult,     \* a target without a result in the list
    Steps,        \* the ladder of day counts
    RepeatAfter   \* ticks an unchanged problem stays quiet, 0 for ever

ASSUME AlertAssumption ==
    /\ Key \in [Targets -> {Key[t] : t \in Targets}]
    /\ Steps \in SUBSET (Nat \ {0})
    /\ RepeatAfter \in Nat

Domain == {Key[t] : t \in Targets}

\* No two targets of the list share a host and port.
KeyInjective == \A t, u \in Targets : Key[t] = Key[u] => t = u

Rung == Steps \cup {0}

Entry == [status : Status, step : Rung, exp : Time, at : Int]

ASSUME AbsenceAssumption == NoEntry \notin Entry /\ NoResult \notin Result

\* A list of results, by target: complete, or missing what was not reached.
Results == [Targets -> Result \cup {NoResult}]

NoResults == [t \in Targets |-> NoResult]

Listed(results) == {t \in Targets : results[t] # NoResult}

Problems(results) == {t \in Listed(results) : results[t].status # "ok"}

Domains == [Domain -> Entry \cup {NoEntry}]

NoDomains == [d \in Domain |-> NoEntry]

\* Mutated form: the days themselves instead of the rung that covers them.
StepForDays(r) == IF Valid(r.status) THEN r.days ELSE 0

\* Mutated form: a rung reached a day late.
StepForBelow(r) ==
    LET reached == {s \in Steps : r.days < s}
    IN  IF Valid(r.status) /\ reached # {} THEN Min(reached) ELSE 0

StepFor(r) ==
    LET reached == {s \in Steps : r.days <= s}
    IN  IF Valid(r.status) /\ reached # {} THEN Min(reached) ELSE 0

descended(prev, cur) == cur # 0 /\ (prev = 0 \/ cur < prev)

sameCertificate(a, b) == a = b

\* Mutated forms: the certificate and the ladder ignored; the quiet period
\* taken for over at once.
shouldNotifyStatusOnly(prev, r, now) ==
    prev = NoEntry \/ prev.status # r.status

shouldNotifyAtOnce(prev, r, now) == prev = NoEntry \/ now >= prev.at

shouldNotify(prev, r, now) ==
    \/ prev = NoEntry
    \/ prev.status # r.status
    \/ ~sameCertificate(prev.exp, r.exp)
    \/ descended(prev.step, StepFor(r))
    \/ RepeatAfter > 0 /\ now >= prev.at + RepeatAfter

Pending(domains, results, now) ==
    {t \in Problems(results) : shouldNotify(domains[Key[t]], results[t], now)}

EntryOf(r, now) ==
    [status |-> r.status, step |-> StepFor(r), exp |-> r.exp, at |-> now]

\* Results arrive in report order: most severe first, then fewest days.
After(r, s) ==
    \/ Severity[r.status] < Severity[s.status]
    \/ r.status = s.status /\ r.days > s.days

\* The result a loop over the list leaves in a map keyed by domain: the last
\* one.  Equal results keep the order of the list, which CHOOSE stands for.
LastOf(results, targets) ==
    CHOOSE t \in targets : \A u \in targets : ~After(results[u], results[t])

\* Mutated form: the map rebuilt from this cycle's announcements alone.
RecordAfresh(domains, results, announced, now) ==
    [d \in Domain |->
        LET on == {t \in announced \cap Problems(results) : Key[t] = d}
        IN  IF on = {} THEN NoEntry ELSE EntryOf(results[LastOf(results, on)], now)]

Record(domains, results, announced, now) ==
    [d \in Domain |->
        LET on == {t \in announced \cap Problems(results) : Key[t] = d}
        IN  IF on = {} THEN domains[d] ELSE EntryOf(results[LastOf(results, on)], now)]

\* Mutated form: only the domains that left the list are forgotten.
SyncListOnly(domains, results) ==
    [d \in Domain |->
        IF \A t \in Listed(results) : Key[t] # d THEN NoEntry ELSE domains[d]]

Sync(domains, results) ==
    [d \in Domain |->
        LET on == {t \in Listed(results) : Key[t] = d}
        IN  IF on = {} \/ results[LastOf(results, on)].status = "ok"
            THEN NoEntry ELSE domains[d]]
==============================================================================
