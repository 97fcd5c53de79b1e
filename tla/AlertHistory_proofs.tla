-------------------------- MODULE AlertHistory_proofs --------------------------
(***************************************************************************)
(* Proofs about AlertCycle where one process has the state file to itself, *)
(* as a cron line or one -interval process gives it.  Nothing in the code  *)
(* locks the file, and with two processes the slower one puts an older     *)
(* history back: what is proved here then fails.                           *)
(***************************************************************************)
EXTENDS AlertCycle_proofs

OneProcess == \A p, q \in Procs : p = q

\* Every configuration keeps a history.
AlwaysHistory == \A cfg \in Configs : cfg.history

\* No channel is added to the configuration or taken from it between two runs.
SameChannels == \A cfg, other \in Configs : cfg.channels = other.channels

-------------------------------------------------------------------------------
(* What a step does, seen from one process.                                *)

\* p ends a cycle without a trace, or gets no further than its own results.
Quiet(p) ==
    /\ proc'[p].pc \in Label \ {"sending", "saving"}
    /\ proc[p].pc = "saving" => Faults \cap {"crash", "save"} # {}
    /\ proc[p].pc = "sending" => "crash" \in Faults \/ ~proc[p].cfg.history
    /\ proc'[p].failed => proc[p].failed /\ proc[p].pc \notin {"sending", "saving"}
    /\ UNCHANGED <<now, file, heard, owed>>

Sends(p, c) == SendOk(p, c) \/ SendFails(p, c) \/ SendUnacknowledged(p, c)

LEMMA Moves ==
    ASSUME IInv, [Next]_vars
    PROVE  \/ Corrupt
           \/ now' \in {now, now + 1} /\ UNCHANGED <<file, proc, heard, owed>>
           \/ \E p \in Procs : \/ Quiet(p) \/ Signal(p) \/ Decide(p)
                               \/ \E c \in Channels : Sends(p, c)
                               \/ Commit(p) /\ proc[p].cfg.history
                               \/ Save(p)
<1> USE DEF IInv, Goto
<1>1. ASSUME NEW p \in Procs, Start(p) \/ Exit(p) \/ Crash(p)
      PROVE  Quiet(p)
  <2>1. CASE Start(p)
    <3>1. PICK cfg \in Configs : proc' = [proc EXCEPT ![p] = Process("fresh", cfg, FALSE)]
      BY <2>1 DEF Start
    <3>2. proc'[p] = Process("fresh", cfg, FALSE)
      BY <3>1
    <3>3. QED
      <4>1. proc'[p].pc = "fresh" /\ ~proc'[p].failed
        BY <3>2 DEF Process
      <4>2. QED
        BY <2>1, <4>1 DEF Start, Quiet, Label
  <2>3. CASE Exit(p) \/ Crash(p)
    <3>1. proc'[p] = Process("off", AnyConfig, FALSE)
      BY <2>3 DEF Exit, Crash
    <3>2. QED
      <4>1. proc'[p].pc = "off" /\ ~proc'[p].failed
        BY <3>1 DEF Process
      <4>2. QED
        BY <2>3, <4>1 DEF Exit, Crash, Quiet, Label
  <2>4. QED
    BY <1>1, <2>1, <2>3
<1>2. ASSUME NEW p \in Procs, Check(p) \/ CheckInterrupted(p) \/ Publish(p)
      PROVE  Quiet(p)
  <2>1. proc[p] \in ProcState
    OBVIOUS
  <2>2. CASE Check(p) \/ CheckInterrupted(p)
    <3>1. PICK R, done : proc' = [proc EXCEPT ![p] = Checked(proc[p], R, done)]
      BY <2>2 DEF Check, CheckInterrupted
    <3>2. /\ Checked(proc[p], R, done).pc = "checked"
          /\ Checked(proc[p], R, done).failed = proc[p].failed
      BY <2>1 DEF Checked, ProcState
    <3>3. QED
      BY <2>2, <3>1, <3>2 DEF Check, CheckInterrupted, Quiet, Label
  <2>3. CASE Publish(p)
    BY <2>1, <2>3 DEF Publish, Quiet, Label, ProcState
  <2>4. QED
    BY <1>2, <2>2, <2>3
<1>3. ASSUME NEW p \in Procs, Abandon(p) \/ StaySilent(p) \/ SaveFails(p)
      PROVE  Quiet(p)
  <2>1. proc'[p].pc = "resting" /\ ~proc'[p].failed
    BY <1>3 DEF Abandon, StaySilent, SaveFails, EndCycle, Process
  <2>2. QED
    BY <1>3, <2>1 DEF Abandon, StaySilent, SaveFails, Quiet, Label
<1>4. ASSUME NEW p \in Procs, Commit(p), ~proc[p].cfg.history
      PROVE  Quiet(p)
  <2>1. proc'[p].pc = "resting" /\ ~proc'[p].failed
    BY <1>4 DEF Commit, EndCycle, Process
  <2>2. QED
    BY <1>4, <2>1 DEF Commit, Quiet, Label
<1>5. CASE Tick \/ UNCHANGED vars
  BY <1>5 DEF Tick, vars
<1>6. QED
  BY <1>1, <1>2, <1>3, <1>4, <1>5 DEF Next, Step, Deliveries, Sends

(* The fields a step of p changes, and those it does not. *)
LEMMA SignalFacts ==
    ASSUME IInv, NEW p \in Procs, Signal(p)
    PROVE  /\ proc'[p].pc = proc[p].pc /\ proc'[p].cfg = proc[p].cfg
           /\ proc'[p].results = proc[p].results /\ proc'[p].clock = proc[p].clock
           /\ proc'[p].mem = proc[p].mem /\ proc'[p].pending = proc[p].pending
           /\ proc'[p].todo = proc[p].todo /\ (proc'[p].failed <=> proc[p].failed)
           /\ UNCHANGED <<now, file, heard, owed>>
<1>1. proc[p] \in ProcState /\ proc' = [proc EXCEPT ![p] = [proc[p] EXCEPT !.done = TRUE]]
  BY DEF Signal, Goto, IInv
<1>2. proc'[p] = [proc[p] EXCEPT !.done = TRUE]
  BY <1>1 DEF IInv
<1>3. QED
  BY <1>1, <1>2 DEF ProcState, Signal

LEMMA DecideFacts ==
    ASSUME IInv, NEW p \in Procs, Decide(p)
    PROVE  /\ proc[p].pc = "written" /\ proc'[p].pc = "sending"
           /\ proc'[p].cfg = proc[p].cfg /\ proc'[p].results = proc[p].results
           /\ proc'[p].clock = now /\ (proc'[p].failed <=> proc[p].failed)
           /\ proc'[p].mem = IF proc[p].cfg.history THEN Load(file) ELSE NoDomains
           /\ proc'[p].pending = ToAnnounce(proc'[p].cfg, proc'[p].mem,
                                            proc'[p].results, now)
           /\ proc'[p].todo = IF proc'[p].pending = {} THEN {} ELSE proc[p].cfg.channels
           /\ UNCHANGED <<now, file, heard, owed>>
<1> DEFINE s == proc[p]
           m == IF s.cfg.history THEN Load(file) ELSE NoDomains
           pending == ToAnnounce(s.cfg, m, s.results, now)
           todo == IF pending = {} THEN {} ELSE s.cfg.channels
<1>1. proc'[p] = [s EXCEPT !.pc = "sending", !.clock = now, !.mem = m,
                           !.pending = pending, !.todo = todo]
  BY DEF Decide, Goto, IInv, Decided
<1>2. s \in ProcState
  BY DEF IInv
<1> HIDE DEF m, pending, todo
<1>3. /\ proc'[p].pc = "sending" /\ proc'[p].cfg = s.cfg
      /\ proc'[p].results = s.results /\ proc'[p].clock = now
      /\ (proc'[p].failed <=> s.failed) /\ proc'[p].mem = m
      /\ proc'[p].pending = pending /\ proc'[p].todo = todo
  BY <1>1, <1>2 DEF ProcState
<1>4. QED
  BY <1>3 DEF Decide, m, pending, todo

LEMMA SendFacts ==
    ASSUME IInv, NEW p \in Procs, NEW c \in Channels, Sends(p, c)
    PROVE  /\ proc[p].pc = "sending" /\ proc'[p].pc = "sending" /\ c \in proc[p].todo
           /\ proc'[p].cfg = proc[p].cfg /\ proc'[p].results = proc[p].results
           /\ proc'[p].clock = proc[p].clock /\ proc'[p].mem = proc[p].mem
           /\ proc'[p].pending = proc[p].pending /\ proc'[p].todo = proc[p].todo \ {c}
           /\ UNCHANGED <<now, file>>
           /\ \/ Deliver(p, c) /\ (proc'[p].failed <=> proc[p].failed)
              \/ Deliver(p, c) /\ proc'[p].failed /\ "lost_ack" \in Faults
              \/ UNCHANGED <<heard, owed>> /\ proc'[p].failed /\ "send" \in Faults
<1>1. ASSUME NEW failed \in BOOLEAN, Tried(p, c, failed)
      PROVE  /\ proc'[p].pc = proc[p].pc /\ proc'[p].cfg = proc[p].cfg
             /\ proc'[p].results = proc[p].results /\ proc'[p].clock = proc[p].clock
             /\ proc'[p].mem = proc[p].mem /\ proc'[p].pending = proc[p].pending
             /\ proc'[p].todo = proc[p].todo \ {c}
             /\ (proc'[p].failed <=> proc[p].failed \/ failed)
  <2>1. proc'[p] = [proc[p] EXCEPT !.todo = @ \ {c}, !.failed = @ \/ failed]
    BY <1>1 DEF Tried, Goto, IInv
  <2>2. proc[p] \in ProcState
    BY DEF IInv
  <2>3. QED
    BY <2>1, <2>2 DEF ProcState
<1>2. CASE SendOk(p, c)
  BY <1>1, <1>2 DEF SendOk, IsNext
<1>3. CASE SendUnacknowledged(p, c)
  BY <1>1, <1>3 DEF SendUnacknowledged, IsNext
<1>4. CASE SendFails(p, c)
  BY <1>1, <1>4 DEF SendFails, IsNext
<1>5. QED
  BY <1>2, <1>3, <1>4 DEF Sends

LEMMA CommitFacts ==
    ASSUME IInv, NEW p \in Procs, Commit(p), proc[p].cfg.history
    PROVE  /\ proc[p].pc = "sending" /\ proc[p].todo = {} /\ proc'[p].pc = "saving"
           /\ proc'[p].cfg = proc[p].cfg /\ proc'[p].results = proc[p].results
           /\ proc'[p].mem = Committed(proc[p])
           /\ owed' = owed \cup (SeenFine(proc[p].results) \X Channels)
           /\ UNCHANGED <<now, file, heard>>
<1>1. proc[p] \in ProcState
  BY DEF IInv
<1>2. proc'[p] = [proc[p] EXCEPT !.pc = "saving", !.mem = Committed(proc[p])]
  BY DEF Commit, Goto, IInv
<1>3. QED
  BY <1>1, <1>2 DEF ProcState, Commit

LEMMA SaveFacts ==
    ASSUME IInv, NEW p \in Procs, Save(p)
    PROVE  /\ proc[p].pc = "saving" /\ proc'[p].pc = "resting" /\ ~proc'[p].failed
           /\ file' = proc[p].mem /\ UNCHANGED <<now, heard, owed>>
BY DEF Save, EndCycle, Goto, Process, IInv

-------------------------------------------------------------------------------
(* One process: what it holds is the file, or news to it.                  *)

\* s holds what it loaded while it sends; what it is about to save differs from
\* the file only where it forgot a domain that is fine or has news of it.  A
\* file that was damaged meanwhile counts as empty.
Current(s, f) ==
    f # Unusable =>
      /\ s.pc = "sending" /\ s.cfg.history => s.mem = f
      /\ s.pc = "saving" => \A d \in Domain :
           \/ s.mem[d] = f[d]
           \/ s.mem[d] = NoEntry /\ (KeyInjective => FineFor(s, d))
           \/ s.mem[d] # NoEntry /\ Ledger!IsNews(f[d], s.mem[d])

SoleInv == \A p \in Procs : Current(proc[p], file)

(* What the rules of state.go select is news to the history they looked at. *)
LEMMA PendingIsNews ==
    ASSUME NEW s, NEW m, s.cfg.history, NEW t \in ToAnnounce(s.cfg, m, s.results, s.clock)
    PROVE  Ledger!IsNews(m[Key[t]], EntryOf(s.results[t], s.clock))
<1>1. shouldNotify(m[Key[t]], s.results[t], s.clock)
  BY DEF ToAnnounce, Pending
<1>2. QED
  BY <1>1 DEF shouldNotify, sameCertificate, Ledger!IsNews, Ledger!descended, descended, EntryOf

LEMMA CommitCurrent ==
    ASSUME IInv, SoleInv, NEW p \in Procs, Commit(p), proc[p].cfg.history
    PROVE  Current(proc'[p], file)
<1> DEFINE s == proc[p]
           rec == Record(s.mem, s.results, Announced(s), s.clock)
<1>1. /\ s.pc = "sending" /\ proc'[p].pc = "saving" /\ proc'[p].cfg = s.cfg
      /\ proc'[p].results = s.results /\ proc'[p].mem = Committed(s)
  BY CommitFacts
<1>2. s \in ProcState /\ ProcInv(s, heard)
  BY DEF IInv
<1> SUFFICES ASSUME file # Unusable, NEW d \in Domain
             PROVE  \/ Committed(s)[d] = file[d]
                    \/ Committed(s)[d] = NoEntry /\ (KeyInjective => FineFor(proc'[p], d))
                    \/ Committed(s)[d] # NoEntry /\ Ledger!IsNews(file[d], Committed(s)[d])
  BY <1>1 DEF Current
<1>3. s.mem = file
  BY <1>1 DEF SoleInv, Current
<1>4. s.results \in Results
  BY <1>2 DEF ProcState
<1>5. Committed(s) = Sync(rec, s.results)
  BY DEF Committed
<1> HIDE DEF rec
<1>6. CASE /\ Committed(s)[d] = NoEntry
           /\ KeyInjective =>
                \A t \in Listed(s.results) : Key[t] = d => s.results[t].status = "ok"
  <2>1. Listed(s.results) = s.cfg.targets
    BY <1>1, <1>2 DEF ProcInv, Whole
  <2>2. KeyInjective => FineFor(proc'[p], d)
    BY <1>1, <1>6, <2>1 DEF FineFor, Problems
  <2>3. QED
    BY <1>6, <2>2
<1>7. CASE Committed(s)[d] = rec[d]
  <2>1. CASE rec[d] = s.mem[d]
    BY <1>3, <1>7, <2>1
  <2>2. ASSUME NEW t \in Announced(s) \cap Problems(s.results),
               Key[t] = d, rec[d] = EntryOf(s.results[t], s.clock)
        PROVE  Committed(s)[d] # NoEntry /\ Ledger!IsNews(file[d], Committed(s)[d])
    <3>1. t \in ToAnnounce(s.cfg, s.mem, s.results, s.clock)
      BY <1>1, <1>2, <2>2 DEF Announced, ProcInv
    <3>2. Ledger!IsNews(s.mem[d], EntryOf(s.results[t], s.clock))
      BY <2>2, <3>1, PendingIsNews
    <3>3. s.results[t] \in Result /\ s.clock \in Int
      BY <1>2 DEF ProcState, Results, Problems, Listed
    <3>4. EntryOf(s.results[t], s.clock) # NoEntry
      BY <3>3, EntryOfType
    <3>5. QED
      BY <1>3, <1>7, <2>2, <3>2, <3>4
  <2>3. QED
    BY <1>2, <2>1, <2>2, RecordEntry DEF rec
<1>8. QED
  BY <1>4, <1>5, <1>6, <1>7, SyncEntry

LEMMA SoleInit == Init => SoleInv
BY DEF Init, SoleInv, Current, Process

LEMMA SoleStep ==
    ASSUME OneProcess, IInv, SoleInv, [Next]_vars
    PROVE  SoleInv'
<1>1. CASE Corrupt
  BY <1>1 DEF Corrupt, SoleInv, Current
<1>2. CASE UNCHANGED <<file, proc>>
  BY <1>2 DEF SoleInv
<1>3. ASSUME NEW p \in Procs, Current(proc'[p], file')
      PROVE  SoleInv'
  BY <1>3, OneProcess DEF OneProcess, SoleInv
<1>4. ASSUME NEW p \in Procs, Quiet(p)
      PROVE  Current(proc'[p], file')
  BY <1>4 DEF Quiet, Current
<1>5. ASSUME NEW p \in Procs, Signal(p)
      PROVE  Current(proc'[p], file')
  BY <1>5, SignalFacts DEF SoleInv, Current, FineFor
<1>6. ASSUME NEW p \in Procs, Decide(p)
      PROVE  Current(proc'[p], file')
  BY <1>6, DecideFacts DEF Current, Load
<1>7. ASSUME NEW p \in Procs, NEW c \in Channels, Sends(p, c)
      PROVE  Current(proc'[p], file')
  BY <1>7, SendFacts DEF SoleInv, Current
<1>8. ASSUME NEW p \in Procs, Commit(p), proc[p].cfg.history
      PROVE  Current(proc'[p], file')
  BY <1>8, CommitCurrent, CommitFacts
<1>9. ASSUME NEW p \in Procs, Save(p)
      PROVE  Current(proc'[p], file')
  BY <1>9, SaveFacts DEF Current
<1>10. QED
  BY <1>1, <1>2, <1>3, <1>4, <1>5, <1>6, <1>7, <1>8, <1>9, Moves

LEMMA SoleHolds ==
    ASSUME OneProcess
    PROVE  Spec => [](IInv /\ SoleInv)
<1>1. IInv /\ SoleInv /\ [Next]_vars => SoleInv'
  BY SoleStep
<1>2. QED
  BY <1>1, SoleInit, InvariantHolds, PTL DEF Spec

(* A readable file loses a domain only to a cycle that found it fine, whatever *)
(* is interrupted, killed, refused or damaged (state.go Sync, main.go notify). *)
THEOREM OnlyFineIsForgotten ==
    ASSUME KeyInjective, OneProcess
    PROVE  Spec => ForgottenOnlyWhenFine
<1> DEFINE Lost(d) == /\ file # Unusable /\ file' # Unusable
                      /\ file[d] # NoEntry /\ file'[d] = NoEntry
           Excused(d) == \E p \in Procs : proc[p].pc = "saving" /\ FineFor(proc[p], d)
<1>1. ASSUME IInv, SoleInv, [Next]_vars, NEW d \in Domain, Lost(d)
      PROVE  Excused(d)
  <2>1. ASSUME NEW p \in Procs, Save(p)
        PROVE  Excused(d)
    <3>1. proc[p].pc = "saving" /\ file' = proc[p].mem
      BY <1>1, <2>1, SaveFacts
    <3>2. Current(proc[p], file)
      BY <1>1 DEF SoleInv
    <3>3. FineFor(proc[p], d)
      BY <1>1, <3>1, <3>2 DEF Current
    <3>4. QED
      BY <3>1, <3>3
  <2>2. ASSUME UNCHANGED file
        PROVE  FALSE
    BY <1>1, <2>2
  <2>3. Corrupt => FALSE
    BY <1>1 DEF Corrupt
  <2>4. ASSUME NEW p \in Procs, \/ Quiet(p) \/ Signal(p) \/ Decide(p)
                                \/ \E c \in Channels : Sends(p, c)
                                \/ Commit(p) /\ proc[p].cfg.history
        PROVE  UNCHANGED file
    BY <1>1, <2>4, SignalFacts, DecideFacts, SendFacts, CommitFacts DEF Quiet
  <2>5. QED
    BY <1>1, <2>1, <2>2, <2>3, <2>4, Moves
<1>2. IInv /\ SoleInv /\ [Next]_vars => [\A d \in Domain : Lost(d) => Excused(d)]_vars
  BY <1>1
<1>3. QED
  BY <1>2, SoleHolds, PTL DEF Spec, ForgottenOnlyWhenFine

(* A step of the cycle is a step of the ledger: a channel hears news, the      *)
(* ledger takes over what was delivered or forgets, or nothing of it changes. *)
LEMMA LedgerStep ==
    ASSUME OneProcess, AlwaysHistory, IInv, SoleInv, [Next]_vars
    PROVE  [Ledger!Next]_(Ledger!vars)
<1>1. CASE Corrupt
  <2>1. Load(file') = NoDomains /\ UNCHANGED heard
    BY <1>1 DEF Corrupt, Load
  <2>2. \A d \in Domain : Load(file')[d] = NoEntry
    BY <2>1 DEF NoDomains
  <2>3. Ledger!Settle
    BY <2>1, <2>2 DEF Ledger!Settle, Ledger!Domain, Domain
  <2>4. QED
    BY <2>3 DEF Ledger!Next
<1>2. CASE UNCHANGED <<file, heard>>
  BY <1>2 DEF Ledger!vars, Load
<1>3. ASSUME NEW p \in Procs, NEW c \in Channels, Sends(p, c), Deliver(p, c)
      PROVE  Ledger!Announce
  <2> DEFINE s == proc[p]
  <2>1. s.pc = "sending" /\ UNCHANGED file /\ heard' = heard \cup Message(p, c)
    BY <1>3, SendFacts DEF Deliver
  <2>2. s \in ProcState /\ ProcInv(s, heard) /\ Current(s, file)
    BY DEF IInv, SoleInv
  <2>3. s.cfg.history
    BY <2>2 DEF AlwaysHistory, ProcState
  <2>4. ASSUME NEW a \in Message(p, c)
        PROVE  Ledger!IsNews(Load(file)[Key[a.target]], a.entry)
    <3>1. PICK t \in s.pending : a = [channel |-> c, target |-> t,
                                      entry |-> EntryOf(s.results[t], s.clock)]
      BY <2>4 DEF Message
    <3>2. t \in ToAnnounce(s.cfg, s.mem, s.results, s.clock) /\ t \in Targets
      BY <2>1, <2>2, <3>1 DEF ProcInv, ProcState
    <3>3. Ledger!IsNews(s.mem[Key[t]], EntryOf(s.results[t], s.clock))
      BY <2>3, <3>2, PendingIsNews
    <3>4. CASE file = Unusable
      <4>1. Load(file)[Key[t]] = NoEntry
        BY <3>2, <3>4, KeyType DEF Load, NoDomains
      <4>2. QED
        BY <3>1, <4>1 DEF Ledger!IsNews
    <3>5. CASE file # Unusable
      BY <2>1, <2>2, <2>3, <3>1, <3>3, <3>5 DEF Current, Load
    <3>6. QED
      BY <3>4, <3>5
  <2>5. QED
    BY <2>1, <2>4 DEF Ledger!Announce, Load
<1>4. ASSUME NEW p \in Procs, Save(p)
      PROVE  Ledger!Settle
  <2> DEFINE s == proc[p]
  <2>1. s.pc = "saving" /\ file' = s.mem /\ UNCHANGED heard
    BY <1>4, SaveFacts
  <2>2. s \in ProcState /\ Backed(heard, s.mem) /\ Current(s, file)
    BY <2>1 DEF IInv, SoleInv, ProcInv
  <2>3. Load(file') = s.mem
    BY <2>1, <2>2, CycleAssumption DEF Load, ProcState
  <2>4. ASSUME NEW d \in Domain
        PROVE  \/ s.mem[d] \in {Load(file)[d], NoEntry}
               \/ Ledger!Delivered(d, s.mem[d]) /\ Ledger!IsNews(Load(file)[d], s.mem[d])
    <3>1. s.mem[d] # NoEntry => Ledger!Delivered(d, s.mem[d])
      BY <2>2 DEF Backed, Delivered, Ledger!Delivered
    <3>2. CASE file = Unusable
      <4>1. Load(file)[d] = NoEntry
        BY <3>2 DEF Load, NoDomains
      <4>2. QED
        BY <3>1, <4>1 DEF Ledger!IsNews
    <3>3. CASE file # Unusable
      BY <2>1, <2>2, <3>1, <3>3 DEF Current, Load
    <3>4. QED
      BY <3>2, <3>3
  <2>5. QED
    BY <2>1, <2>3, <2>4 DEF Ledger!Settle, Ledger!Domain, Domain
<1>5. ASSUME NEW p \in Procs, NEW c \in Channels, Sends(p, c), ~Deliver(p, c)
      PROVE  UNCHANGED <<file, heard>>
  BY <1>5, SendFacts
<1>6. ASSUME NEW p \in Procs, \/ Quiet(p) \/ Signal(p) \/ Decide(p)
                              \/ Commit(p) /\ proc[p].cfg.history
      PROVE  UNCHANGED <<file, heard>>
  BY <1>6, SignalFacts, DecideFacts, CommitFacts DEF Quiet
<1>7. QED
  BY <1>1, <1>2, <1>3, <1>4, <1>5, <1>6, Moves DEF Ledger!Next

(* The cycle, its file and every fault implement the ledger: a channel hears of *)
(* a problem only when the rules of state.go call it news to the history, and   *)
(* the history takes an entry only once it was delivered.                       *)
THEOREM KeepsTheLedger ==
    ASSUME OneProcess, AlwaysHistory
    PROVE  Spec => ImplementsLedger
<1>1. Init => Ledger!Init
  <2>1. NoDomains # Unusable
    BY NothingBacked, CycleAssumption
  <2>2. QED
    BY <2>1 DEF Init, Ledger!Init, Load, Ledger!NoDomains, NoDomains, Ledger!Domain, Domain
<1>2. IInv /\ SoleInv /\ [Next]_vars => [Ledger!Next]_(Ledger!vars)
  BY LedgerStep
<1>3. QED
  BY <1>1, <1>2, SoleHolds, PTL DEF Spec, ImplementsLedger, Ledger!Spec

-------------------------------------------------------------------------------
(* One process whose saves succeed: what is owed is not kept quiet.        *)

\* Nothing comes between Commit and the rename of Save.
SavesSucceed == Faults \cap {"crash", "save"} = {}

\* No channel is owed the next problem of a domain that has an entry in m.
Settled(m, o) ==
    \A d \in Domain : m[d] # NoEntry =>
        \A cfg \in Configs : \A c \in cfg.channels : <<d, c>> \notin o

Accounted(s, f, o) ==
    /\ s.pc # "saving" /\ f # Unusable => Settled(f, o)
    /\ s.pc \in {"sending", "saving"} => Settled(s.mem, o)
    /\ s.pc = "sending" /\ ~s.failed =>
         \A t \in s.pending : \A c \in s.cfg.channels \ s.todo : <<Key[t], c>> \notin o

OwedInv == \A p \in Procs : Accounted(proc[p], file, owed)

LEMMA SettledMonotone ==
    ASSUME NEW m, NEW o, NEW u, Settled(m, o), u \subseteq o
    PROVE  Settled(m, u)
BY DEF Settled

(* A domain that Commit leaves an entry for is not one it found fine, so the   *)
(* promise of its next problem is not renewed; and if the entry is new all the *)
(* channels have just had it.                                                  *)
LEMMA CommitAccounted ==
    ASSUME SameChannels, IInv, OwedInv,
           NEW p \in Procs, Commit(p), proc[p].cfg.history
    PROVE  Accounted(proc'[p], file', owed')
<1> DEFINE s == proc[p]
           rec == Record(s.mem, s.results, Announced(s), s.clock)
<1>1. /\ s.pc = "sending" /\ s.todo = {} /\ proc'[p].pc = "saving"
      /\ proc'[p].mem = Committed(s)
      /\ owed' = owed \cup (SeenFine(s.results) \X Channels)
  BY CommitFacts
<1>2. s \in ProcState /\ Accounted(s, file, owed)
  BY DEF IInv, OwedInv
<1>3. Committed(s) = Sync(rec, s.results) /\ s.results \in Results
  BY <1>2 DEF Committed, ProcState
<1> HIDE DEF rec
<1>4. ASSUME NEW d \in Domain, Committed(s)[d] # NoEntry
      PROVE  Committed(s)[d] = rec[d] /\ d \notin SeenFine(s.results)
  BY <1>3, <1>4, SyncEntry DEF SeenFine
<1>5. ASSUME NEW d \in Domain, rec[d] # NoEntry, NEW cfg \in Configs, NEW c \in cfg.channels
      PROVE  <<d, c>> \notin owed
  <2>1. CASE rec[d] = s.mem[d]
    BY <1>1, <1>2, <1>5, <2>1 DEF Accounted, Settled
  <2>2. ASSUME NEW t \in Announced(s) \cap Problems(s.results), Key[t] = d
        PROVE  <<d, c>> \notin owed
    <3>1. ~s.failed /\ t \in s.pending
      BY <2>2 DEF Announced
    <3>2. c \in s.cfg.channels
      BY <1>2, <1>5 DEF SameChannels, ProcState
    <3>3. QED
      BY <1>1, <1>2, <2>2, <3>1, <3>2 DEF Accounted
  <2>3. QED
    BY <1>2, <2>1, <2>2, RecordEntry DEF rec
<1>6. Settled(Committed(s), owed')
  <2> SUFFICES ASSUME NEW d \in Domain, Committed(s)[d] # NoEntry,
                      NEW cfg \in Configs, NEW c \in cfg.channels
               PROVE  <<d, c>> \notin owed'
    BY DEF Settled
  <2>1. rec[d] # NoEntry /\ d \notin SeenFine(s.results)
    BY <1>4
  <2>2. <<d, c>> \notin owed
    BY <1>5, <2>1
  <2>3. QED
    BY <1>1, <2>1, <2>2
<1>7. QED
  BY <1>1, <1>6 DEF Accounted

LEMMA OwedInit == Init => OwedInv
BY DEF Init, OwedInv, Accounted, Process, Settled, NoDomains

LEMMA OwedStep ==
    ASSUME OneProcess, SameChannels, SavesSucceed,
           IInv, OwedInv, [Next]_vars
    PROVE  OwedInv'
<1>1. CASE Corrupt
  BY <1>1 DEF Corrupt, OwedInv, Accounted
<1>2. CASE UNCHANGED <<file, proc, owed>>
  BY <1>2 DEF OwedInv
<1>3. ASSUME NEW p \in Procs, Accounted(proc'[p], file', owed')
      PROVE  OwedInv'
  BY <1>3, OneProcess DEF OneProcess, OwedInv
<1>4. ASSUME NEW p \in Procs, Quiet(p)
      PROVE  Accounted(proc'[p], file', owed')
  BY <1>4 DEF Quiet, Accounted, OwedInv, SavesSucceed
<1>5. ASSUME NEW p \in Procs, Signal(p)
      PROVE  Accounted(proc'[p], file', owed')
  BY <1>5, SignalFacts DEF Accounted, OwedInv
<1>6. ASSUME NEW p \in Procs, Decide(p)
      PROVE  Accounted(proc'[p], file', owed')
  <2> DEFINE new == proc'[p]
  <2>1. /\ proc[p].pc = "written" /\ new.pc = "sending" /\ new.cfg = proc[p].cfg
        /\ new.mem = IF proc[p].cfg.history THEN Load(file) ELSE NoDomains
        /\ new.todo = IF new.pending = {} THEN {} ELSE proc[p].cfg.channels
        /\ UNCHANGED <<file, owed>>
    BY <1>6, DecideFacts
  <2>2. file # Unusable => Settled(file, owed)
    BY <2>1 DEF OwedInv, Accounted
  <2>3. Settled(NoDomains, owed)
    BY DEF Settled, NoDomains
  <2>4. Settled(new.mem, owed)
    BY <2>1, <2>2, <2>3 DEF Load
  <2>5. \A t \in new.pending : new.cfg.channels \ new.todo = {}
    BY <2>1
  <2> HIDE DEF new
  <2>6. Accounted(new, file', owed')
    BY <2>1, <2>2, <2>4, <2>5 DEF Accounted
  <2>7. QED
    BY <2>6 DEF new
<1>7. ASSUME NEW p \in Procs, NEW c \in Channels, Sends(p, c)
      PROVE  Accounted(proc'[p], file', owed')
  <2>1. /\ proc[p].pc = "sending" /\ proc'[p].pc = "sending"
        /\ proc'[p].cfg = proc[p].cfg /\ proc'[p].mem = proc[p].mem
        /\ proc'[p].pending = proc[p].pending /\ proc'[p].todo = proc[p].todo \ {c}
        /\ UNCHANGED file
        /\ \/ Deliver(p, c) /\ (proc'[p].failed <=> proc[p].failed)
           \/ owed' \subseteq owed /\ proc'[p].failed
    BY <1>7, SendFacts DEF Deliver
  <2>2. Accounted(proc[p], file, owed) /\ owed' \subseteq owed
    BY <2>1 DEF OwedInv, Deliver
  <2>3. Settled(proc'[p].mem, owed') /\ (file' # Unusable => Settled(file', owed'))
    BY <2>1, <2>2, SettledMonotone DEF Accounted
  <2>4. Deliver(p, c) => \A t \in proc[p].pending : <<Key[t], c>> \notin owed'
    BY DEF Deliver
  <2>5. ~proc'[p].failed => \A t \in proc'[p].pending :
           \A b \in proc'[p].cfg.channels \ proc'[p].todo : <<Key[t], b>> \notin owed'
    BY <2>1, <2>2, <2>4 DEF Accounted
  <2>6. QED
    BY <2>1, <2>3, <2>5 DEF Accounted
<1>8. ASSUME NEW p \in Procs, Commit(p), proc[p].cfg.history
      PROVE  Accounted(proc'[p], file', owed')
  BY <1>8, CommitAccounted
<1>9. ASSUME NEW p \in Procs, Save(p)
      PROVE  Accounted(proc'[p], file', owed')
  BY <1>9, SaveFacts DEF Accounted, OwedInv
<1>10. QED
  BY <1>1, <1>2, <1>3, <1>4, <1>5, <1>6, <1>7, <1>8, <1>9, Moves

(* A domain that was fine in a committed cycle, or left the list, alerts again *)
(* with its next problem: no cycle keeps quiet about what a channel is owed    *)
(* (state.go Sync, main.go notify), whatever delivery fails and whenever the   *)
(* file is damaged, and whoever shares the domain.  Each hypothesis is needed: *)
(* a second process saves an older history, a channel that was added since was *)
(* never told, a save that is lost brings the old entry back.                  *)
THEOREM OwedIsSent ==
    ASSUME OneProcess, SameChannels, SavesSucceed
    PROVE  Spec => []OwedIsNeverSuppressed
<1>1. ASSUME IInv, OwedInv
      PROVE  OwedIsNeverSuppressed
  <2> SUFFICES ASSUME NEW p \in Procs, NEW t \in Suppressed(proc[p]),
                      NEW c \in proc[p].cfg.channels
               PROVE  <<Key[t], c>> \notin owed
    BY DEF OwedIsNeverSuppressed
  <2> DEFINE s == proc[p]
  <2>1. s \in ProcState /\ ProcInv(s, heard) /\ Accounted(s, file, owed)
    BY <1>1 DEF IInv, OwedInv
  <2>2. s.pc = "sending" /\ t \in Problems(s.results) \ s.pending /\ t \in Targets
    BY DEF Suppressed, Problems, Listed
  <2>3. ~shouldNotify(s.mem[Key[t]], s.results[t], s.clock)
    BY <2>1, <2>2 DEF ProcInv, ToAnnounce, Pending
  <2>4. s.mem[Key[t]] # NoEntry /\ Key[t] \in Domain
    BY <2>2, <2>3, KeyType DEF shouldNotify
  <2>5. QED
    BY <2>1, <2>2, <2>4 DEF Accounted, Settled, ProcState
<1>2. IInv /\ OwedInv /\ [Next]_vars => OwedInv'
  BY OwedStep
<1>3. IInv /\ OwedInv => OwedIsNeverSuppressed
  BY <1>1
<1>4. QED
  BY <1>2, <1>3, OwedInit, InvariantHolds, PTL DEF Spec

-------------------------------------------------------------------------------
(* One process that loses nothing: what is quiet stays quiet.              *)

\* A failed delivery delivers nothing and nothing comes between delivery and save.
NothingLost == Faults \subseteq {"signal", "publish", "send"}

\* With a second channel, what the first one took is sent to it again when the
\* other refuses.
AllOrNothing ==
    "send" \in Faults => \A cfg \in Configs : \A c, d \in cfg.channels : c = d

\* Nothing channel c was told about target t in h is later than entry e, which it was told.
LastHeard(c, t, e, h) ==
    /\ [channel |-> c, target |-> t, entry |-> e] \in h
    /\ \A b \in h : b.channel = c /\ b.target = t => b.entry.at =< e.at

Knows(m, c, t, h) == m[Key[t]] # NoEntry /\ LastHeard(c, t, m[Key[t]], h)

Clocked(s, n, h) ==
    /\ s.pc \notin {"sending", "saving"} => ~s.failed
    /\ s.pc = "sending" =>
         /\ s.clock =< n
         /\ \A b \in h : b.entry.at =< s.clock
         /\ s.todo \subseteq s.cfg.channels
         /\ s.failed => "send" \in Faults /\ s.todo = {}

\* The last thing c was told about t is in the history of s, or about to be.
UpToDate(s, f, c, t, h) ==
    /\ s.pc \notin {"sending", "saving"} => Knows(f, c, t, h)
    /\ s.pc = "saving" => Knows(s.mem, c, t, h)
    /\ s.pc = "sending" =>
         IF t \in s.pending /\ c \notin s.todo /\ ~s.failed
         THEN LastHeard(c, t, EntryOf(s.results[t], s.clock), h)
         ELSE Knows(s.mem, c, t, h)

Reached(c) == \A cfg \in Configs : c \in cfg.channels

Tracked(s, f, h, o) ==
    \A t \in Targets : \A c \in Channels : <<Key[t], c>> \notin o =>
        Reached(c) /\ UpToDate(s, f, c, t, h)

Consistent(s, f, n, h, o) ==
    /\ f # Unusable
    /\ \A b \in h : b.entry.at =< n
    /\ Clocked(s, n, h)
    /\ Tracked(s, f, h, o)

RepeatInv == \A p \in Procs : Consistent(proc[p], file, now, heard, owed)

LEMMA LastHeardKept ==
    ASSUME NEW c, NEW t, NEW e, NEW h, NEW g, h \subseteq g, LastHeard(c, t, e, h),
           \A b \in g \ h : b.channel = c => b.target # t
    PROVE  LastHeard(c, t, e, g)
BY DEF LastHeard

LEMMA EntryClock == ASSUME NEW r, NEW n PROVE EntryOf(r, n).at = n
BY DEF EntryOf

(* The channel that takes the message has now heard of what is pending; of *)
(* everything else it and the others know what they knew.                  *)
LEMMA DeliveryTracked ==
    ASSUME KeyInjective, SameChannels, IInv, RepeatInv,
           NEW p \in Procs, NEW c \in Channels, Sends(p, c), Deliver(p, c),
           proc'[p].failed <=> proc[p].failed
    PROVE  Consistent(proc'[p], file', now', heard', owed')
<1> DEFINE s == proc[p]
           new == proc'[p]
           say(t) == [channel |-> c, target |-> t, entry |-> EntryOf(s.results[t], s.clock)]
<1>1. /\ s.pc = "sending" /\ new.pc = "sending" /\ c \in s.todo /\ new.cfg = s.cfg
      /\ new.results = s.results /\ new.clock = s.clock /\ new.mem = s.mem
      /\ new.pending = s.pending /\ new.todo = s.todo \ {c}
      /\ UNCHANGED <<now, file>>
  BY SendFacts
<1>2. /\ s \in ProcState /\ Consistent(s, file, now, heard, owed)
      /\ heard \in SUBSET Announcement /\ now \in Nat
  BY DEF IInv, RepeatInv
<1>3. /\ s.clock \in Int /\ s.clock =< now /\ s.pending \subseteq Targets /\ ~s.failed
      /\ \A b \in heard : b.entry.at =< s.clock
      /\ s.todo \subseteq s.cfg.channels /\ s.cfg \in Configs
  BY <1>1, <1>2 DEF Consistent, Clocked, ProcState
<1>4. /\ heard' = heard \cup {say(t) : t \in s.pending}
      /\ owed' = owed \ {<<Key[t], c>> : t \in s.pending}
  BY DEF Deliver, Message
<1>5. \A t : say(t).channel = c /\ say(t).target = t /\ say(t).entry.at = s.clock
             /\ say(t).entry = EntryOf(s.results[t], s.clock)
  BY DEF EntryOf
<1> HIDE DEF say, s, new
<1>6. \A b \in heard' : b.entry.at =< s.clock
  BY <1>3, <1>4, <1>5
<1>7. Reached(c)
  BY <1>1, <1>3 DEF SameChannels, Reached
<1>8. ~new.failed
  BY <1>3 DEF s, new
<1>9. Clocked(new, now, heard')
  BY <1>1, <1>3, <1>6, <1>8 DEF Clocked
<1>10. \A b \in heard' : b.entry.at =< now
  <2>1. ASSUME NEW b \in heard'
        PROVE  b.entry.at =< now
    <3>1. CASE b \in heard
      BY <1>2, <3>1 DEF Consistent
    <3>2. CASE b \notin heard
      <4>1. b.entry.at = s.clock
        BY <1>4, <1>5, <3>2
      <4>2. QED
        BY <1>3, <4>1
    <3>3. QED
      BY <3>1, <3>2
  <2>2. QED
    BY <2>1
<1>11. ASSUME NEW t \in Targets, NEW d \in Channels, <<Key[t], d>> \notin owed'
       PROVE  Reached(d) /\ UpToDate(new, file, d, t, heard')
  <2>1. CASE d = c /\ t \in s.pending
    <3>1. say(t) \in heard'
      BY <1>4, <2>1
    <3>2. say(t) = [channel |-> c, target |-> t, entry |-> EntryOf(s.results[t], s.clock)]
      BY DEF say
    <3>3. EntryOf(s.results[t], s.clock).at = s.clock
      BY EntryClock
    <3>4. LastHeard(c, t, EntryOf(s.results[t], s.clock), heard')
      BY <1>6, <3>1, <3>2, <3>3 DEF LastHeard
    <3>5. QED
      BY <1>1, <1>7, <1>8, <2>1, <3>4 DEF UpToDate
  <2>2. CASE ~(d = c /\ t \in s.pending)
    <3>1. ASSUME NEW u \in s.pending, <<Key[t], d>> = <<Key[u], c>>
          PROVE  FALSE
      BY <1>3, <2>2, <3>1 DEF KeyInjective
    <3>2. <<Key[t], d>> \notin owed
      BY <1>4, <1>11, <3>1
    <3>3. Reached(d) /\ UpToDate(s, file, d, t, heard)
      BY <1>2, <3>2 DEF Consistent, Tracked
    <3>4. \A b \in heard' \ heard : b.channel = d => b.target # t
      BY <1>4, <1>5, <2>2
    <3>5. CASE t \in s.pending /\ d \notin s.todo
      <4>1. LastHeard(d, t, EntryOf(s.results[t], s.clock), heard')
        BY <1>1, <1>3, <1>4, <3>3, <3>4, <3>5, LastHeardKept DEF UpToDate
      <4>2. QED
        BY <1>1, <1>8, <3>3, <3>5, <4>1 DEF UpToDate
    <3>6. CASE ~(t \in s.pending /\ d \notin s.todo)
      <4>1. Knows(s.mem, d, t, heard')
        BY <1>1, <1>4, <3>3, <3>4, <3>6, LastHeardKept DEF UpToDate, Knows
      <4>2. ~(t \in new.pending /\ d \notin new.todo)
        BY <1>1, <2>2, <3>6
      <4>3. QED
        BY <1>1, <3>3, <4>1, <4>2 DEF UpToDate
    <3>7. QED
      BY <3>5, <3>6
  <2>3. QED
    BY <2>1, <2>2
<1>12. Consistent(new, file, now, heard', owed')
  BY <1>2, <1>9, <1>10, <1>11 DEF Consistent, Tracked
<1>13. QED
  BY <1>1, <1>12 DEF new

(* The only channel refuses: it knows what it knew. *)
LEMMA RefusalTracked ==
    ASSUME AllOrNothing, IInv, RepeatInv, NEW p \in Procs, NEW c \in Channels,
           Sends(p, c), UNCHANGED <<heard, owed>>, proc'[p].failed, "send" \in Faults
    PROVE  Consistent(proc'[p], file', now', heard', owed')
<1> DEFINE s == proc[p]
           new == proc'[p]
<1>1. /\ s.pc = "sending" /\ new.pc = "sending" /\ c \in s.todo /\ new.cfg = s.cfg
      /\ new.results = s.results /\ new.clock = s.clock /\ new.mem = s.mem
      /\ new.pending = s.pending /\ new.todo = s.todo \ {c}
      /\ UNCHANGED <<now, file>>
  BY SendFacts
<1>2. s \in ProcState /\ Consistent(s, file, now, heard, owed)
  BY DEF IInv, RepeatInv
<1>3. s.cfg \in Configs /\ s.todo \subseteq s.cfg.channels
  BY <1>1, <1>2 DEF Consistent, Clocked, ProcState
<1>4. \A d \in s.cfg.channels : d = c
  BY <1>1, <1>3 DEF AllOrNothing
<1> HIDE DEF s
<1>5. new.todo = {}
  BY <1>1, <1>3, <1>4
<1>6. Clocked(new, now, heard)
  BY <1>1, <1>2, <1>5 DEF Consistent, Clocked
<1>7. ASSUME NEW t \in Targets, NEW d \in Channels, <<Key[t], d>> \notin owed
      PROVE  Reached(d) /\ UpToDate(new, file, d, t, heard)
  <2>1. Reached(d) /\ UpToDate(s, file, d, t, heard)
    BY <1>2, <1>7 DEF Consistent, Tracked
  <2>2. d \in s.todo
    BY <1>1, <1>3, <1>4, <2>1 DEF Reached
  <2>3. Knows(s.mem, d, t, heard)
    BY <1>1, <2>1, <2>2 DEF UpToDate
  <2>4. QED
    BY <1>1, <2>1, <2>3 DEF UpToDate
<1>8. QED
  BY <1>1, <1>2, <1>6, <1>7 DEF Consistent, Tracked

(* What was announced is recorded as it was said, and Sync drops only what is *)
(* owed again.                                                                *)
LEMMA CommitTracked ==
    ASSUME KeyInjective, IInv, RepeatInv,
           NEW p \in Procs, Commit(p), proc[p].cfg.history
    PROVE  Consistent(proc'[p], file', now', heard', owed')
<1> DEFINE s == proc[p]
           new == proc'[p]
           rec == Record(s.mem, s.results, Announced(s), s.clock)
<1>1. /\ s.pc = "sending" /\ s.todo = {} /\ new.pc = "saving"
      /\ new.mem = Committed(s)
      /\ owed' = owed \cup (SeenFine(s.results) \X Channels)
      /\ UNCHANGED <<now, file, heard>>
  BY CommitFacts
<1>2. /\ s \in ProcState /\ Consistent(s, file, now, heard, owed)
      /\ ProcInv(s, heard)
  BY DEF IInv, RepeatInv
<1>3. Committed(s) = Sync(rec, s.results) /\ s.results \in Results
  BY <1>2 DEF Committed, ProcState
<1> HIDE DEF s, rec, new
<1>4. ASSUME NEW t \in Targets, NEW c \in Channels, <<Key[t], c>> \notin owed'
      PROVE  Reached(c) /\ UpToDate(new, file, c, t, heard)
  <2>1. <<Key[t], c>> \notin owed /\ Key[t] \in Domain /\ Key[t] \notin SeenFine(s.results)
    BY <1>1, <1>4, KeyType
  <2>2. Reached(c) /\ UpToDate(s, file, c, t, heard)
    BY <1>2, <2>1 DEF Consistent, Tracked
  <2>3. t \in Problems(s.results)
    BY <2>1 DEF SeenFine, KeyInjective, Problems, Listed
  <2>4. Committed(s)[Key[t]] = rec[Key[t]]
    BY <1>3, <2>1, <2>3, SyncEntry DEF Problems
  <2>5. CASE t \in s.pending /\ ~s.failed
    <3>1. LastHeard(c, t, EntryOf(s.results[t], s.clock), heard)
      BY <1>1, <2>2, <2>5 DEF UpToDate
    <3>2. t \in Announced(s) \cap Problems(s.results)
      BY <2>3, <2>5 DEF Announced
    <3>3. PICK u \in Announced(s) \cap Problems(s.results) :
            Key[u] = Key[t] /\ rec[Key[t]] = EntryOf(s.results[u], s.clock)
      BY <1>2, <2>1, <3>2, RecordEntry DEF rec
    <3>4. u = t
      BY <3>3 DEF KeyInjective, Problems, Listed
    <3>5. EntryOf(s.results[t], s.clock) # NoEntry
      BY <1>2, <2>3, EntryOfType DEF ProcState, Results, Problems, Listed
    <3>6. QED
      BY <1>1, <2>2, <2>4, <3>1, <3>3, <3>4, <3>5 DEF UpToDate, Knows
  <2>6. CASE ~(t \in s.pending /\ ~s.failed)
    <3>1. Knows(s.mem, c, t, heard)
      BY <1>1, <2>2, <2>6 DEF UpToDate
    <3>2. \A u \in Announced(s) \cap Problems(s.results) : Key[u] # Key[t]
      BY <2>6 DEF Announced, KeyInjective, Problems, Listed
    <3>3. rec[Key[t]] = s.mem[Key[t]]
      BY <1>2, <2>1, <3>2, RecordEntry DEF rec
    <3>4. QED
      BY <1>1, <2>2, <2>4, <3>1, <3>3 DEF UpToDate, Knows
  <2>7. QED
    BY <2>5, <2>6
<1>5. Clocked(new, now, heard)
  BY <1>1 DEF Clocked
<1>6. Consistent(new, file, now, heard, owed')
  BY <1>2, <1>4, <1>5 DEF Consistent, Tracked
<1>7. QED
  BY <1>1, <1>6 DEF new

LEMMA RepeatInit == Init => RepeatInv
<1> SUFFICES ASSUME Init, NEW p \in Procs
             PROVE  Consistent(proc[p], file, now, heard, owed)
  BY DEF RepeatInv
<1>1. proc[p].pc = "off" /\ ~proc[p].failed
  BY DEF Init, Process
<1>2. \A t \in Targets, c \in Channels : <<Key[t], c>> \in owed
  BY KeyType DEF Init
<1>3. file # Unusable
  BY NothingBacked, CycleAssumption DEF Init
<1>4. QED
  BY <1>1, <1>2, <1>3 DEF Consistent, Clocked, Tracked, Init

LEMMA RepeatStep ==
    ASSUME KeyInjective, OneProcess, AlwaysHistory, SameChannels, NothingLost,
           AllOrNothing, IInv, RepeatInv, [Next]_vars
    PROVE  RepeatInv'
<1> DEFINE Keeps(p) == Consistent(proc'[p], file', now', heard', owed')
<1>1. ~Corrupt
  BY DEF Corrupt, NothingLost
<1>2. CASE now' \in {now, now + 1} /\ UNCHANGED <<file, proc, heard, owed>>
  <2> SUFFICES ASSUME NEW p \in Procs
               PROVE  Consistent(proc[p], file, now', heard, owed)
    BY <1>2 DEF RepeatInv
  <2>1. /\ Consistent(proc[p], file, now, heard, owed) /\ now \in Nat
        /\ heard \in SUBSET Announcement /\ proc[p] \in ProcState
    BY DEF RepeatInv, IInv
  <2>2. \A b \in heard : b.entry.at \in Int
    BY <2>1 DEF Announcement, Entry
  <2>3. \A b \in heard : b.entry.at =< now'
    BY <1>2, <2>1, <2>2 DEF Consistent
  <2>4. Clocked(proc[p], now', heard)
    BY <1>2, <2>1 DEF Consistent, Clocked, ProcState
  <2>5. QED
    BY <2>1, <2>3, <2>4 DEF Consistent
<1>3. ASSUME NEW p \in Procs, Keeps(p)
      PROVE  RepeatInv'
  BY <1>3, OneProcess DEF OneProcess, RepeatInv
<1>4. ASSUME NEW p \in Procs
      PROVE  Consistent(proc[p], file, now, heard, owed)
  BY DEF RepeatInv
<1>5. ASSUME NEW p \in Procs, Quiet(p)
      PROVE  Keeps(p)
  <2>1. proc[p].pc \notin {"sending", "saving"}
    <3>1. proc[p].cfg.history
      BY DEF IInv, ProcState, AlwaysHistory
    <3>2. Faults \cap {"crash", "save"} = {}
      BY DEF NothingLost
    <3>3. QED
      BY <1>5, <3>1, <3>2 DEF Quiet
  <2>2. proc'[p].pc \notin {"sending", "saving"} /\ UNCHANGED <<now, file, heard, owed>>
    BY <1>5 DEF Quiet
  <2>3. ~proc'[p].failed
    BY <1>4, <1>5 DEF Quiet, Consistent, Clocked
  <2>4. Clocked(proc'[p], now, heard)
    BY <2>2, <2>3 DEF Clocked
  <2>5. QED
    BY <1>4, <1>5, <2>1, <2>2, <2>4 DEF Consistent, Tracked, UpToDate, Quiet
<1>6. ASSUME NEW p \in Procs, Signal(p)
      PROVE  Keeps(p)
  BY <1>4, <1>6, SignalFacts DEF Consistent, Clocked, Tracked, UpToDate
<1>7. ASSUME NEW p \in Procs, Decide(p)
      PROVE  Keeps(p)
  <2> DEFINE s == proc[p]
             new == proc'[p]
  <2>1. /\ s.pc = "written" /\ new.pc = "sending" /\ new.cfg = s.cfg
        /\ new.clock = now /\ (new.failed <=> s.failed)
        /\ new.mem = IF s.cfg.history THEN Load(file) ELSE NoDomains
        /\ new.todo = IF new.pending = {} THEN {} ELSE s.cfg.channels
        /\ UNCHANGED <<now, file, heard, owed>>
    BY <1>7, DecideFacts
  <2>2. s \in ProcState /\ Consistent(s, file, now, heard, owed) /\ now \in Nat
    BY DEF IInv, RepeatInv
  <2>3. s.cfg \in Configs /\ new.mem = file
    BY <2>1, <2>2 DEF AlwaysHistory, ProcState, Load, Consistent
  <2> HIDE DEF s, new
  <2>4. ~new.failed
    BY <2>1, <2>2 DEF Consistent, Clocked
  <2>5. Clocked(new, now, heard)
    BY <2>1, <2>2, <2>4 DEF Clocked, Consistent
  <2>6. ASSUME NEW t \in Targets, NEW c \in Channels, <<Key[t], c>> \notin owed
        PROVE  Reached(c) /\ UpToDate(new, file, c, t, heard)
    <3>1. Reached(c) /\ UpToDate(s, file, c, t, heard)
      BY <2>2, <2>6 DEF Consistent, Tracked
    <3>2. ~(t \in new.pending /\ c \notin new.todo)
      BY <2>1, <2>3, <3>1 DEF Reached
    <3>3. QED
      BY <2>1, <2>3, <3>1, <3>2 DEF UpToDate
  <2>7. Consistent(new, file, now, heard, owed)
    BY <2>2, <2>5, <2>6 DEF Consistent, Tracked
  <2>8. QED
    BY <2>1, <2>7 DEF new
<1>8. ASSUME NEW p \in Procs, NEW c \in Channels, Sends(p, c)
      PROVE  Keeps(p)
  <2>1. "lost_ack" \notin Faults
    BY DEF NothingLost
  <2>2. QED
    BY <1>8, <2>1, SendFacts, DeliveryTracked, RefusalTracked
<1>9. ASSUME NEW p \in Procs, Commit(p), proc[p].cfg.history
      PROVE  Keeps(p)
  BY <1>9, CommitTracked
<1>10. ASSUME NEW p \in Procs, Save(p)
       PROVE  Keeps(p)
  <2>1. /\ proc[p].pc = "saving" /\ proc'[p].pc = "resting" /\ ~proc'[p].failed
        /\ file' = proc[p].mem /\ UNCHANGED <<now, heard, owed>>
    BY <1>10, SaveFacts
  <2>2. file' # Unusable
    BY <2>1, CycleAssumption DEF IInv, ProcState
  <2>3. Clocked(proc'[p], now, heard)
    BY <2>1 DEF Clocked
  <2>4. QED
    BY <1>4, <2>1, <2>2, <2>3 DEF Consistent, Tracked, UpToDate
<1>11. QED
  BY <1>1, <1>2, <1>3, <1>5, <1>6, <1>7, <1>8, <1>9, <1>10, Moves

(* A channel hears of a problem again, with nothing new about it, only once    *)
(* RepeatAfter is over or the domain was fine in between (state.go             *)
(* shouldNotify): as long as no save, no answer and no file is lost, and a     *)
(* channel refuses only where it is the only one.                              *)
THEOREM QuietPeriodIsKept ==
    ASSUME KeyInjective, OneProcess, AlwaysHistory, SameChannels, NothingLost, AllOrNothing
    PROVE  Spec => NoEarlyRepeat
<1> DEFINE Early(a) == \E b \in heard :
              /\ b.channel = a.channel /\ b.target = a.target /\ IsLast(b, heard)
              /\ [b.entry EXCEPT !.at = a.entry.at] = a.entry
              /\ ~(RepeatAfter > 0 /\ a.entry.at >= b.entry.at + RepeatAfter)
           Said(p, c, t) == [channel |-> c, target |-> t,
                             entry |-> EntryOf(proc[p].results[t], proc[p].clock)]
<1>1. ASSUME IInv, RepeatInv, [Next]_vars, NEW a \in heard' \ heard
      PROVE  \E p \in Procs, c \in Channels : \E t \in proc[p].pending :
               Sends(p, c) /\ a = Said(p, c, t)
  <2>1. heard' # heard
    BY <1>1
  <2>2. ASSUME NEW p \in Procs, \/ Quiet(p) \/ Signal(p) \/ Decide(p)
                                \/ Commit(p) /\ proc[p].cfg.history
                                \/ Save(p)
        PROVE  FALSE
    BY <1>1, <2>1, <2>2, SignalFacts, DecideFacts, CommitFacts, SaveFacts DEF Quiet
  <2>3. ASSUME NEW p \in Procs, NEW c \in Channels, Sends(p, c)
        PROVE  \E t \in proc[p].pending : a = Said(p, c, t)
    <3>1. Deliver(p, c)
      BY <1>1, <2>1, <2>3, SendFacts
    <3>2. QED
      BY <1>1, <3>1 DEF Deliver, Message
  <2>4. ~Corrupt
    BY <2>1 DEF Corrupt
  <2>5. QED
    BY <1>1, <2>1, <2>2, <2>3, <2>4, Moves
<1>2. ASSUME IInv, RepeatInv, NEW p \in Procs, NEW c \in Channels, Sends(p, c),
             NEW t \in proc[p].pending, <<Key[t], c>> \notin owed, Early(Said(p, c, t))
      PROVE  FALSE
  <2> DEFINE s == proc[p]
             r == s.results[t]
             e == s.mem[Key[t]]
             a == Said(p, c, t)
  <2>1. s.pc = "sending" /\ c \in s.todo
    BY <1>2, SendFacts
  <2>2. /\ s \in ProcState /\ ProcInv(s, heard) /\ Consistent(s, file, now, heard, owed)
        /\ heard \in SUBSET Announcement
    BY <1>2 DEF IInv, RepeatInv
  <2>3. t \in Targets /\ s.clock \in Int /\ s.cfg.history /\ s.mem \in Domains
    BY <1>2, <2>2 DEF ProcState, AlwaysHistory
  <2>4. Knows(s.mem, c, t, heard)
    BY <1>2, <2>1, <2>2, <2>3 DEF Consistent, Tracked, UpToDate
  <2>5. shouldNotify(e, r, s.clock)
    BY <1>2, <2>1, <2>2, <2>3 DEF ProcInv, ToAnnounce, Pending
  <2>6. e \in Entry /\ e # NoEntry
    BY <2>3, <2>4, KeyType DEF Domains, Knows
  <2>7. a.channel = c /\ a.target = t /\ a.entry = EntryOf(r, s.clock)
    OBVIOUS
  <2> HIDE DEF s, r, e, a
  <2>8. PICK b \in heard :
          /\ b.channel = c /\ b.target = t /\ IsLast(b, heard)
          /\ [b.entry EXCEPT !.at = a.entry.at] = a.entry
          /\ ~(RepeatAfter > 0 /\ a.entry.at >= b.entry.at + RepeatAfter)
    BY <1>2, <2>7 DEF a
  <2>9. b.entry = e
    <3>1. [channel |-> c, target |-> t, entry |-> e] \in heard /\ b.entry.at =< e.at
      BY <2>4, <2>8 DEF Knows, LastHeard, e
    <3>2. b.entry.at \in Int /\ e.at \in Int
      BY <2>2, <2>6, <2>8 DEF Announcement, Entry
    <3>3. b = [channel |-> c, target |-> t, entry |-> e]
      BY <2>8, <3>1, <3>2 DEF IsLast
    <3>4. QED
      BY <3>3
  <2>10. a.entry.at = s.clock
    BY <2>7, EntryClock
  <2>11. e.status = r.status /\ e.exp = r.exp /\ e.step = StepFor(r)
    BY <2>6, <2>7, <2>8, <2>9 DEF Entry, EntryOf
  <2>12. ~descended(e.step, StepFor(r))
    <3>1. e.step \in Int
      BY <2>6, AlertAssumption DEF Entry, Rung
    <3>2. QED
      BY <2>11, <3>1 DEF descended
  <2>13. QED
    BY <2>5, <2>6, <2>8, <2>9, <2>10, <2>11, <2>12 DEF shouldNotify, sameCertificate
<1>3. ASSUME IInv, RepeatInv, [Next]_vars,
             NEW a \in heard' \ heard, <<Key[a.target], a.channel>> \notin owed
      PROVE  ~Early(a)
  <2>0. PICK p \in Procs, c \in Channels : \E t \in proc[p].pending :
          Sends(p, c) /\ a = Said(p, c, t)
    BY <1>1, <1>3
  <2>1. PICK t \in proc[p].pending : Sends(p, c) /\ a = Said(p, c, t)
    BY <2>0
  <2>2. a.target = t /\ a.channel = c
    BY <2>1
  <2> HIDE DEF Early, Said
  <2>3. QED
    BY <1>2, <1>3, <2>1, <2>2
<1>4. IInv /\ RepeatInv /\ [Next]_vars =>
        [\A a \in heard' \ heard : <<Key[a.target], a.channel>> \notin owed =>
          \A b \in heard :
            (/\ b.channel = a.channel
             /\ b.target = a.target
             /\ IsLast(b, heard)
             /\ [b.entry EXCEPT !.at = a.entry.at] = a.entry)
            => RepeatAfter > 0 /\ a.entry.at >= b.entry.at + RepeatAfter]_vars
  BY <1>3
<1>5. IInv /\ RepeatInv /\ [Next]_vars => RepeatInv'
  BY RepeatStep
<1>6. QED
  BY <1>4, <1>5, RepeatInit, InvariantHolds, PTL DEF Spec, NoEarlyRepeat
================================================================================
