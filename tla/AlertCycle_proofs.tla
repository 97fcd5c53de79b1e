--------------------------- MODULE AlertCycle_proofs ---------------------------
(***************************************************************************)
(* Proofs about AlertCycle, for any number of targets, processes and       *)
(* channels, any ladder, any quiet period and every combination of faults. *)
(***************************************************************************)
EXTENDS AlertCycle, TLAPS, FiniteSetTheorems, WellFoundedInduction

-------------------------------------------------------------------------------
(* Lemmas about the operators.                                             *)

(* A nonempty set of naturals has a least element, so Min picks it. *)
LEMMA MinIsMember ==
    ASSUME NEW S \in SUBSET Nat, S # {}
    PROVE  Min(S) \in S /\ \A x \in S : Min(S) =< x
<1> DEFINE R == {ss \in Nat \X Nat : ss[1] < ss[2]}
<1>1. IsWellFoundedOn(R, Nat)
  BY NatLessThanWellFounded DEF OpToRel
<1> HIDE DEF R
<1>2. \E x \in S : \A y \in S : ~(<<y, x>> \in R)
  BY <1>1, WFMin, Zenon
<1>3. ASSUME NEW x \in Nat, NEW y \in Nat, <<y, x>> \notin R
      PROVE  x =< y
  <2>1. ~(y < x)
    BY <1>3 DEF R
  <2>2. QED
    BY <2>1
<1>4. \E x \in S : \A y \in S : x =< y
  BY <1>2, <1>3
<1>5. QED
  BY <1>4 DEF Min

(* A check always yields a result, whatever the server. *)
LEMMA CheckTargetType ==
    ASSUME NEW srv \in Server, NEW n \in Int, NEW b \in BOOLEAN
    PROVE  CheckTarget(srv, n, b) \in Result /\ ~CheckTarget(srv, n, b).canceled
<1>1. \A x \in Int : daysRemaining(n, x) \in Int
  BY ResultAssumption DEF daysRemaining
<1>2. EffectiveDaysRemaining(srv, n) \in Int
  BY <1>1 DEF EffectiveDaysRemaining, Server, Time
<1>3. CertificateStatus(EffectiveDaysRemaining(srv, n)) \in Status
  BY DEF CertificateStatus, Status
<1>4. RefinedStatus(srv, n) \in Status /\ RejectedStatus(srv, n) \in Status
  BY DEF RefinedStatus, RejectedStatus, Status
<1>5. QED
  BY <1>2, <1>3, <1>4 DEF CheckTarget, ErrorResult, Result, Status, Server, Time

(* The rung of a result is a step of the ladder, or zero. *)
LEMMA StepForType ==
    ASSUME NEW r
    PROVE  StepFor(r) \in Rung
<1> DEFINE reached == {s \in Steps : r.days <= s}
<1>1. CASE reached = {}
  BY <1>1 DEF StepFor, Rung
<1>2. CASE reached # {}
  <2>1. reached \in SUBSET Nat
    BY AlertAssumption
  <2>2. Min(reached) \in reached
    BY <1>2, <2>1, MinIsMember
  <2>3. QED
    BY <2>2 DEF StepFor, Rung
<1>3. QED
  BY <1>1, <1>2

LEMMA EntryOfType ==
    ASSUME NEW r \in Result, NEW n \in Int
    PROVE  EntryOf(r, n) \in Entry /\ EntryOf(r, n) # NoEntry
<1>1. EntryOf(r, n) \in Entry
  BY StepForType DEF EntryOf, Entry, Result
<1>2. QED
  BY <1>1, AbsenceAssumption

(* Of the results on a domain one is the last, for a list is finite. *)
LEMMA LastIsLast ==
    ASSUME NEW results \in Results, NEW on \in SUBSET Listed(results), on # {}
    PROVE  /\ LastOf(results, on) \in on
           /\ \A u \in on : ~After(results[u], results[LastOf(results, on)])
<1> DEFINE sev(t) == Severity[results[t].status]
           sevs == {sev(t) : t \in on}
           above(t) == {u \in on : /\ results[u].status = results[t].status
                                   /\ results[u].days > results[t].days}
<1>1. \A t \in on : results[t].status \in Status /\ results[t].days \in Int
  BY DEF Results, Listed, Result
<1>2. \A t \in on : sev(t) \in Nat
  BY <1>1 DEF Severity, Status
<1>3. IsFiniteSet(on)
  BY CycleAssumption, FS_Subset DEF Listed
<1>4. \A t \in on : IsFiniteSet(above(t)) /\ Cardinality(above(t)) \in Nat
  BY <1>3, FS_Subset, FS_CardinalityType
<1>5. PICK t0 \in on : \A u \in on : sev(t0) <= sev(u)
  <2>1. sevs \in SUBSET Nat /\ sevs # {}
    BY <1>2
  <2>2. Min(sevs) \in sevs /\ \A x \in sevs : Min(sevs) <= x
    BY <2>1, MinIsMember
  <2>3. PICK t0 \in on : sev(t0) = Min(sevs)
    BY <2>2
  <2>4. \A u \in on : sev(u) \in sevs
    OBVIOUS
  <2>5. QED
    BY <2>2, <2>3, <2>4
<1> DEFINE worst == {t \in on : results[t].status = results[t0].status}
           counts == {Cardinality(above(t)) : t \in worst}
<1>6. PICK t \in worst : \A u \in worst : Cardinality(above(t)) <= Cardinality(above(u))
  <2>1. counts \in SUBSET Nat /\ counts # {}
    BY <1>4
  <2>2. Min(counts) \in counts /\ \A x \in counts : Min(counts) <= x
    <3> HIDE DEF counts
    <3>1. QED
      BY <2>1, MinIsMember
  <2>3. PICK t \in worst : Cardinality(above(t)) = Min(counts)
    BY <2>2
  <2>4. \A u \in worst : Cardinality(above(u)) \in counts
    OBVIOUS
  <2>5. QED
    BY <2>2, <2>3, <2>4
<1>7. above(t) = {}
  <2> SUFFICES ASSUME NEW u \in above(t) PROVE FALSE
    OBVIOUS
  <2>1. u \in worst /\ u \notin above(u)
    BY <1>1, <1>6
  <2>2. above(u) \in SUBSET above(t)
    BY <1>1, <1>6
  <2>3. /\ Cardinality(above(u)) <= Cardinality(above(t))
        /\ Cardinality(above(t)) = Cardinality(above(u)) => above(t) = above(u)
    <3> HIDE DEF above
    <3>1. QED
      BY <1>4, <1>6, <2>2, FS_Subset
  <2>4. Cardinality(above(t)) <= Cardinality(above(u))
    BY <1>6, <2>1
  <2>5. Cardinality(above(t)) \in Nat /\ Cardinality(above(u)) \in Nat
    BY <1>4, <1>6, <2>1
  <2>6. above(t) = above(u)
    <3> HIDE DEF above
    <3>1. QED
      BY <2>3, <2>4, <2>5
  <2>7. QED
    BY <2>1, <2>6
<1>8. \A u \in on : ~After(results[u], results[t])
  <2> SUFFICES ASSUME NEW u \in on, After(results[u], results[t]) PROVE FALSE
    OBVIOUS
  <2>1. sev(t) <= sev(u)
    BY <1>5, <1>6
  <2>2. ~(sev(u) < sev(t))
    BY <1>2, <1>6, <2>1
  <2>3. u \in above(t)
    BY <2>2 DEF After
  <2>4. QED
    BY <1>7, <2>3
<1>9. QED
  BY <1>6, <1>8 DEF LastOf

(* Record keeps the entry of a domain or takes that of a result it announced. *)
LEMMA RecordEntry ==
    ASSUME NEW s \in ProcState, NEW d \in Domain
    PROVE  LET rec == Record(s.mem, s.results, Announced(s), s.clock) IN
           \/ /\ rec[d] = s.mem[d]
              /\ \A t \in Announced(s) \cap Problems(s.results) : Key[t] # d
           \/ \E t \in Announced(s) \cap Problems(s.results) :
                 Key[t] = d /\ rec[d] = EntryOf(s.results[t], s.clock)
<1> DEFINE on == {t \in Announced(s) \cap Problems(s.results) : Key[t] = d}
           rec == Record(s.mem, s.results, Announced(s), s.clock)
<1>1. rec[d] = IF on = {} THEN s.mem[d]
               ELSE EntryOf(s.results[LastOf(s.results, on)], s.clock)
  BY DEF Record
<1>2. s.results \in Results /\ on \in SUBSET Listed(s.results)
  BY DEF ProcState, Problems
<1>3. on # {} => LastOf(s.results, on) \in on
  <2> HIDE DEF on
  <2>1. QED
    BY <1>2, LastIsLast
<1>4. QED
  BY <1>1, <1>3

(* Sync keeps the entry of a domain only if one of its results is a problem,  *)
(* and drops it, where no two targets share it, only if all its results are ok. *)
LEMMA SyncEntry ==
    ASSUME NEW m, NEW results \in Results, NEW d \in Domain
    PROVE  \/ /\ Sync(m, results)[d] = NoEntry
              /\ KeyInjective =>
                   \A t \in Listed(results) : Key[t] = d => results[t].status = "ok"
           \/ /\ Sync(m, results)[d] = m[d]
              /\ \E t \in Problems(results) : Key[t] = d
<1> DEFINE on == {t \in Listed(results) : Key[t] = d}
           last == LastOf(results, on)
<1>1. Sync(m, results)[d] =
        IF on = {} \/ results[last].status = "ok" THEN NoEntry ELSE m[d]
  BY DEF Sync
<1>2. CASE on = {}
  BY <1>1, <1>2
<1>3. CASE on # {}
  <2>1. on \in SUBSET Listed(results)
    OBVIOUS
  <2>2. last \in on
    <3> HIDE DEF on
    <3>1. QED
      BY <1>3, <2>1, LastIsLast
  <2>3. CASE results[last].status = "ok"
    <3>1. KeyInjective => \A t \in on : t = last
      BY <2>2 DEF KeyInjective, Listed
    <3>2. QED
      BY <1>1, <2>3, <3>1
  <2>4. CASE results[last].status # "ok"
    BY <1>1, <1>3, <2>2, <2>4 DEF Problems
  <2>5. QED
    BY <2>3, <2>4
<1>4. QED
  BY <1>2, <1>3

(* What Record and Sync leave for a domain: nothing, the entry that was there, *)
(* or the entry of an announced result.                                         *)
LEMMA CommittedEntry ==
    ASSUME NEW s \in ProcState, NEW d \in Domain
    PROVE  \/ Committed(s)[d] = NoEntry
           \/ Committed(s)[d] = s.mem[d]
           \/ \E t \in Announced(s) \cap Problems(s.results) :
                 Key[t] = d /\ Committed(s)[d] = EntryOf(s.results[t], s.clock)
<1>1. \/ Committed(s)[d] = NoEntry
      \/ Committed(s)[d] = Record(s.mem, s.results, Announced(s), s.clock)[d]
  BY DEF Committed, Sync
<1>2. QED
  BY <1>1, RecordEntry

LEMMA CommittedType ==
    ASSUME NEW s \in ProcState
    PROVE  Committed(s) \in Domains
<1>1. Committed(s) = [d \in Domain |-> Committed(s)[d]]
  BY DEF Committed, Sync
<1>2. ASSUME NEW d \in Domain
      PROVE  Committed(s)[d] \in Entry \cup {NoEntry}
  <2>1. s.mem[d] \in Entry \cup {NoEntry}
    BY DEF ProcState, Domains
  <2>2. ASSUME NEW t \in Problems(s.results)
        PROVE  EntryOf(s.results[t], s.clock) \in Entry
    BY EntryOfType DEF ProcState, Results, Problems, Listed
  <2>3. QED
    BY <2>1, <2>2, CommittedEntry
<1>3. QED
  BY <1>1, <1>2 DEF Domains

-------------------------------------------------------------------------------
(* Type correctness.                                                       *)

LEMMA ProcessType ==
    ASSUME NEW pc \in Label, NEW cfg \in Configs, NEW done \in BOOLEAN
    PROVE  Process(pc, cfg, done) \in ProcState
BY DEF Process, ProcState, NoResults, Results, NoDomains, Domains

LEMMA AnyConfigType == AnyConfig \in Configs
BY CycleAssumption DEF AnyConfig

-------------------------------------------------------------------------------
(* The inductive invariant.  What a process holds is consistent with what the *)
(* channels have delivered: that is what a delivery failure, a crash or a      *)
(* second process must not break, and what the properties follow from.         *)

\* A complete list of genuine results.
Whole(s) == Listed(s.results) = s.cfg.targets
            /\ \A t \in Listed(s.results) : ~s.results[t].canceled

\* The channels tried so far have all delivered, unless one of them failed.
SentSoFar(s, h) ==
    \A t \in s.pending : \A c \in s.cfg.channels \ s.todo :
        [channel |-> c, target |-> t, entry |-> EntryOf(s.results[t], s.clock)] \in h

ProcInv(s, h) ==
    /\ s \in ProcState
    /\ s.pc = "checked" /\ ~s.done => Whole(s)
    /\ s.pc \in {"written", "sending", "saving"} => Whole(s)
    /\ s.pc = "sending" => s.pending = ToAnnounce(s.cfg, s.mem, s.results, s.clock)
    /\ s.pc = "sending" /\ ~s.failed => SentSoFar(s, h)
    /\ s.pc \in {"sending", "saving"} => Backed(h, s.mem)

IInv ==
    /\ now \in Nat
    /\ servers \in [Targets -> Servers]
    /\ file \in Domains \cup {Unusable}
    /\ file # Unusable => Backed(heard, file)
    /\ proc \in [Procs -> ProcState]
    /\ \A p \in Procs : ProcInv(proc[p], heard)
    /\ heard \in SUBSET Announcement
    /\ owed \in SUBSET (Domain \X Channels)

LEMMA BackedMonotone ==
    ASSUME NEW h, NEW g, h \subseteq g, NEW m, Backed(h, m)
    PROVE  Backed(g, m)
BY DEF Backed, Delivered

LEMMA ProcInvMonotone ==
    ASSUME NEW h, NEW g, h \subseteq g, NEW s, ProcInv(s, h)
    PROVE  ProcInv(s, g)
BY BackedMonotone DEF ProcInv, SentSoFar

LEMMA NothingBacked ==
    ASSUME NEW h PROVE NoDomains \in Domains /\ Backed(h, NoDomains)
BY DEF NoDomains, Domains, Backed

(* Between two cycles a process holds nothing that could be wrong. *)
LEMMA ProcessInv ==
    ASSUME NEW pc \in {"off", "fresh", "resting"}, NEW cfg \in Configs,
           NEW done \in BOOLEAN, NEW h
    PROVE  ProcInv(Process(pc, cfg, done), h)
<1>1. Process(pc, cfg, done) \in ProcState
  BY ProcessType DEF Label
<1>2. QED
  BY <1>1 DEF ProcInv, Process

LEMMA CompleteResultsWhole ==
    ASSUME NEW n \in Nat, NEW srv \in [Targets -> Servers],
           NEW list \in SUBSET Targets, NEW diagnosed
    PROVE  /\ CompleteResults(srv, n, list, diagnosed) \in Results
           /\ Listed(CompleteResults(srv, n, list, diagnosed)) = list
           /\ \A t \in list : ~CompleteResults(srv, n, list, diagnosed)[t].canceled
<1>1. ASSUME NEW t \in Targets
      PROVE  CheckTarget(srv[t], n, t \in diagnosed) \in Result
             /\ ~CheckTarget(srv[t], n, t \in diagnosed).canceled
  <2>1. srv[t] \in Server /\ n \in Int
    BY CycleAssumption
  <2>2. CASE t \in diagnosed
    <3>1. CheckTarget(srv[t], n, TRUE) \in Result /\ ~CheckTarget(srv[t], n, TRUE).canceled
      BY <2>1, CheckTargetType
    <3>2. (t \in diagnosed) = TRUE
      BY <2>2
    <3>3. QED
      BY <3>1, <3>2, Zenon
  <2>3. CASE t \notin diagnosed
    <3>1. CheckTarget(srv[t], n, FALSE) \in Result /\ ~CheckTarget(srv[t], n, FALSE).canceled
      BY <2>1, CheckTargetType
    <3>2. (t \in diagnosed) = FALSE
      BY <2>3
    <3>3. QED
      BY <3>1, <3>2, Zenon
  <2>4. QED
    BY <2>2, <2>3
<1>2. CompleteResults(srv, n, list, diagnosed) \in Results
  BY <1>1 DEF CompleteResults, Results
<1>3. Listed(CompleteResults(srv, n, list, diagnosed)) = list
  BY <1>1, AbsenceAssumption DEF CompleteResults, Listed
<1>4. \A t \in list : ~CompleteResults(srv, n, list, diagnosed)[t].canceled
  BY <1>1 DEF CompleteResults
<1>5. QED
  BY <1>2, <1>3, <1>4

LEMMA PartialResultsType ==
    ASSUME NEW n \in Nat, NEW srv \in [Targets -> Servers], NEW reached, NEW cut
    PROVE  PartialResults(srv, n, reached, cut) \in Results
<1>1. ASSUME NEW t \in Targets
      PROVE  CheckTarget(srv[t], n, FALSE) \in Result
  <2>1. srv[t] \in Server /\ n \in Int
    BY CycleAssumption
  <2>2. QED
    BY <2>1, CheckTargetType
<1>2. ErrorResult(TRUE) \in Result
  BY DEF ErrorResult, Result, Status, Time
<1>3. QED
  BY <1>1, <1>2 DEF PartialResults, Results

(* The results of a check: complete and genuine, or of an interrupted run. *)
LEMMA CheckedInv ==
    ASSUME NEW s, NEW h, ProcInv(s, h), NEW R \in Results, NEW done \in BOOLEAN,
           ~done => Listed(R) = s.cfg.targets /\ \A t \in Listed(R) : ~R[t].canceled
    PROVE  ProcInv(Checked(s, R, done), h)
<1> DEFINE new == Checked(s, R, done)
<1>1. new \in ProcState
  BY DEF Checked, ProcInv, ProcState, Label
<1>2. /\ new.pc = "checked" /\ new.done = done /\ new.results = R
      /\ new.cfg = s.cfg
  BY DEF Checked, ProcInv, ProcState
<1> HIDE DEF new
<1>3. ~done => Whole(new)
  BY <1>2 DEF Whole
<1>4. ProcInv(new, h)
  BY <1>1, <1>2, <1>3 DEF ProcInv
<1>5. QED
  BY <1>4 DEF new

LEMMA DecideInv ==
    ASSUME NEW s, NEW h, ProcInv(s, h), s.pc = "written",
           NEW n \in Nat, NEW m \in Domains, Backed(h, m)
    PROVE  ProcInv(Decided(s, m, n), h)
<1> DEFINE pending == ToAnnounce(s.cfg, m, s.results, n)
           todo == IF pending = {} THEN {} ELSE s.cfg.channels
           new == [s EXCEPT !.pc = "sending", !.clock = n, !.mem = m,
                            !.pending = pending, !.todo = todo]
<1>1. pending \in SUBSET Targets
  BY DEF ToAnnounce, Pending, Problems, Listed
<1>2. s.cfg.channels \in SUBSET Channels
  BY CycleAssumption DEF ProcInv, ProcState, Config
<1>3. pending # {} => todo = s.cfg.channels
  OBVIOUS
<1>4. todo \in SUBSET Channels
  BY <1>2
<1> HIDE DEF pending, todo
<1>5. new \in ProcState
  <2>1. s \in ProcState /\ n \in Int /\ "sending" \in Label
    BY DEF ProcInv, Label
  <2>2. QED
    BY <1>1, <1>4, <2>1 DEF ProcState
<1>6. /\ new.pc = "sending" /\ new.pending = pending /\ new.mem = m
      /\ new.clock = n /\ new.results = s.results /\ new.cfg = s.cfg
      /\ new.todo = todo
  BY DEF ProcInv, ProcState
<1>7. Whole(new)
  BY <1>6 DEF Whole, ProcInv
<1>8. SentSoFar(new, h)
  BY <1>3, <1>6 DEF SentSoFar
<1>9. new.pending = ToAnnounce(new.cfg, new.mem, new.results, new.clock)
  BY <1>6 DEF pending
<1> HIDE DEF new
<1>10. ProcInv(new, h)
  BY <1>5, <1>6, <1>7, <1>8, <1>9 DEF ProcInv
<1>11. Decided(s, m, n) = new
  BY DEF Decided, new, pending, todo
<1>12. QED
  BY <1>10, <1>11

(* One channel tried: if it failed nothing will be recorded, if not it is one *)
(* more channel that delivered.                                               *)
LEMMA TriedInv ==
    ASSUME NEW s, NEW h, ProcInv(s, h), s.pc = "sending", NEW c \in Channels,
           NEW g, h \subseteq g, NEW failed \in BOOLEAN,
           ~failed => \A t \in s.pending :
               [channel |-> c, target |-> t,
                entry |-> EntryOf(s.results[t], s.clock)] \in g
    PROVE  ProcInv([s EXCEPT !.todo = @ \ {c}, !.failed = @ \/ failed], g)
<1> DEFINE new == [s EXCEPT !.todo = @ \ {c}, !.failed = @ \/ failed]
<1>1. ProcInv(s, g)
  BY ProcInvMonotone
<1>2. new \in ProcState
  BY DEF ProcInv, ProcState
<1>3. /\ new.pc = "sending" /\ new.pending = s.pending /\ new.mem = s.mem
      /\ new.clock = s.clock /\ new.results = s.results /\ new.cfg = s.cfg
      /\ new.todo = s.todo \ {c} /\ new.failed = (s.failed \/ failed)
  BY DEF ProcInv, ProcState
<1> HIDE DEF new
<1>4. ~new.failed => SentSoFar(new, g)
  BY <1>1, <1>3 DEF ProcInv, SentSoFar
<1>5. Whole(new)
  BY <1>1, <1>3 DEF ProcInv, Whole
<1>6. ProcInv(new, g)
  BY <1>1, <1>2, <1>3, <1>4, <1>5 DEF ProcInv
<1>7. QED
  BY <1>6 DEF new

(* Record and Sync keep the history backed by what was delivered. *)
LEMMA CommitInv ==
    ASSUME NEW s, NEW h, ProcInv(s, h), s.pc = "sending", s.todo = {}
    PROVE  ProcInv([s EXCEPT !.pc = "saving", !.mem = Committed(s)], h)
<1> DEFINE new == [s EXCEPT !.pc = "saving", !.mem = Committed(s)]
<1>1. s \in ProcState /\ Backed(h, s.mem) /\ s.cfg \in Configs
  BY DEF ProcInv, ProcState
<1>2. Committed(s) \in Domains
  BY <1>1, CommittedType
<1>3. ASSUME NEW t \in Announced(s) \cap Problems(s.results)
      PROVE  t \in Targets /\ Delivered(h, t, EntryOf(s.results[t], s.clock))
  <2>1. ~s.failed /\ t \in s.pending
    BY <1>3 DEF Announced
  <2>2. \A c \in s.cfg.channels :
          [channel |-> c, target |-> t, entry |-> EntryOf(s.results[t], s.clock)] \in h
    BY <2>1 DEF ProcInv, SentSoFar
  <2>3. QED
    BY <1>1, <1>3, <2>2 DEF Delivered, Problems, Listed
<1>4. Backed(h, Committed(s))
  <2> SUFFICES ASSUME NEW d \in Domain, Committed(s)[d] # NoEntry
               PROVE  \E t \in Targets : Key[t] = d /\ Delivered(h, t, Committed(s)[d])
    BY DEF Backed
  <2>1. CASE Committed(s)[d] = s.mem[d]
    BY <1>1, <2>1 DEF Backed
  <2>2. CASE \E t \in Announced(s) \cap Problems(s.results) :
               Key[t] = d /\ Committed(s)[d] = EntryOf(s.results[t], s.clock)
    BY <1>3, <2>2
  <2>3. QED
    BY <1>1, <2>1, <2>2, CommittedEntry
<1>5. new \in ProcState
  BY <1>1, <1>2 DEF ProcState, Label
<1>6. new.pc = "saving" /\ new.mem = Committed(s) /\ new.results = s.results
      /\ new.cfg = s.cfg
  BY <1>1 DEF ProcState
<1> HIDE DEF new
<1>7. Whole(new)
  BY <1>6 DEF ProcInv, Whole
<1>8. ProcInv(new, h)
  BY <1>4, <1>5, <1>6, <1>7 DEF ProcInv
<1>9. QED
  BY <1>8 DEF new

LEMMA InitInv == Init => IInv
<1> SUFFICES ASSUME Init PROVE IInv
  OBVIOUS
<1>1. ProcInv(Process("off", AnyConfig, FALSE), heard)
  BY ProcessInv, AnyConfigType
<1>2. Process("off", AnyConfig, FALSE) \in ProcState
  BY <1>1 DEF ProcInv
<1>3. QED
  BY <1>1, <1>2, NothingBacked DEF Init, IInv

(* A step of process p that leaves it consistent, adds to what was heard and *)
(* does not touch the file preserves the invariant.                          *)
LEMMA GotoInv ==
    ASSUME IInv, NEW p \in Procs, NEW new, Goto(p, new),
           heard \subseteq heard', heard' \in SUBSET Announcement,
           ProcInv(new, heard'),
           owed' \in SUBSET (Domain \X Channels), UNCHANGED <<now, servers, file>>
    PROVE  IInv'
<1>1. proc' \in [Procs -> ProcState]
  BY DEF Goto, IInv, ProcInv
<1>2. \A q \in Procs : ProcInv(proc'[q], heard')
  <2>1. ASSUME NEW q \in Procs
        PROVE  ProcInv(proc'[q], heard')
    <3>1. CASE q = p
      BY <3>1 DEF Goto, IInv
    <3>2. CASE q # p
      <4>1. proc'[q] = proc[q]
        BY <3>2 DEF Goto, IInv
      <4>2. ProcInv(proc[q], heard')
        BY ProcInvMonotone DEF IInv
      <4>3. QED
        BY <4>1, <4>2
    <3>3. QED
      BY <3>1, <3>2
  <2>2. QED
    BY <2>1
<1>3. file' # Unusable => Backed(heard', file')
  BY BackedMonotone DEF IInv
<1>4. QED
  BY <1>1, <1>2, <1>3 DEF IInv

LEMMA RestingInv ==
    ASSUME IInv, NEW p \in Procs
    PROVE  ProcInv(Process("resting", proc[p].cfg, proc[p].done), heard)
<1>1. proc[p].cfg \in Configs /\ proc[p].done \in BOOLEAN
  BY DEF IInv, ProcState
<1>2. QED
  BY <1>1, ProcessInv

(* The message of a process is made of entries about its results. *)
LEMMA MessageType ==
    ASSUME IInv, NEW p \in Procs, proc[p].pc = "sending", NEW c \in Channels
    PROVE  Message(p, c) \in SUBSET Announcement
<1>1. ProcInv(proc[p], heard) /\ proc[p] \in ProcState
  BY DEF IInv, ProcInv
<1>2. proc[p].pending \subseteq Listed(proc[p].results)
  BY <1>1 DEF ProcInv, ToAnnounce, Pending, Problems
<1>3. ASSUME NEW t \in proc[p].pending
      PROVE  t \in Targets /\ EntryOf(proc[p].results[t], proc[p].clock) \in Entry
  <2>1. t \in Targets /\ proc[p].results[t] \in Result /\ proc[p].clock \in Int
    BY <1>1, <1>2 DEF ProcState, Listed, Results
  <2>2. QED
    BY <2>1, EntryOfType
<1>4. QED
  BY <1>3 DEF Message, Announcement

LEMMA KeyType == \A t \in Targets : Key[t] \in Domain
BY DEF Domain

(* One step per action. *)
LEMMA NextInv ==
    ASSUME IInv, [Next]_vars
    PROVE  IInv'
<1>1. ASSUME NEW p \in Procs, Start(p)
      PROVE  IInv'
  <2>1. PICK cfg \in Configs : Goto(p, Process("fresh", cfg, FALSE))
    BY <1>1 DEF Start
  <2>2. ProcInv(Process("fresh", cfg, FALSE), heard)
    BY ProcessInv
  <2>3. QED
    BY <1>1, <2>1, <2>2, GotoInv DEF Start, IInv
<1>2. ASSUME NEW p \in Procs, Exit(p) \/ Crash(p)
      PROVE  IInv'
  <2>1. ProcInv(Process("off", AnyConfig, FALSE), heard)
    BY ProcessInv, AnyConfigType
  <2>2. QED
    BY <1>2, <2>1, GotoInv DEF Exit, Crash, IInv
<1>3. ASSUME NEW p \in Procs, Check(p)
      PROVE  IInv'
  <2>1. PICK diagnosed \in SUBSET proc[p].cfg.targets :
          Goto(p, Checked(proc[p],
                          CompleteResults(servers, now, proc[p].cfg.targets, diagnosed),
                          FALSE))
    BY <1>3 DEF Check
  <2> DEFINE R == CompleteResults(servers, now, proc[p].cfg.targets, diagnosed)
  <2>2. ProcInv(proc[p], heard) /\ UNCHANGED <<now, servers, file, heard, owed>>
    BY <1>3 DEF Check, IInv
  <2>3. proc[p].cfg.targets \in SUBSET Targets
    BY CycleAssumption DEF IInv, ProcState, Config
  <2>4. now \in Nat /\ servers \in [Targets -> Servers]
    BY DEF IInv
  <2>5. /\ R \in Results /\ Listed(R) = proc[p].cfg.targets
        /\ \A t \in proc[p].cfg.targets : ~R[t].canceled
    <3> DEFINE list == proc[p].cfg.targets
    <3>1. list \in SUBSET Targets
      BY <2>3
    <3> HIDE DEF list
    <3>2. /\ CompleteResults(servers, now, list, diagnosed) \in Results
          /\ Listed(CompleteResults(servers, now, list, diagnosed)) = list
          /\ \A t \in list :
               ~CompleteResults(servers, now, list, diagnosed)[t].canceled
      BY <2>4, <3>1, CompleteResultsWhole
    <3>3. QED
      BY <3>2 DEF list
  <2> HIDE DEF R
  <2>6. ProcInv(Checked(proc[p], R, FALSE), heard)
    BY <2>2, <2>5, CheckedInv
  <2>7. Goto(p, Checked(proc[p], R, FALSE))
    BY <2>1 DEF R
  <2>8. QED
    BY <2>2, <2>6, <2>7, GotoInv DEF IInv
<1>4. ASSUME NEW p \in Procs, CheckInterrupted(p)
      PROVE  IInv'
  <2>1. PICK reached \in SUBSET proc[p].cfg.targets, cut \in SUBSET proc[p].cfg.targets :
          Goto(p, Checked(proc[p], PartialResults(servers, now, reached, cut), TRUE))
    BY <1>4 DEF CheckInterrupted
  <2> DEFINE R == PartialResults(servers, now, reached, cut)
  <2>2. ProcInv(proc[p], heard) /\ UNCHANGED <<now, servers, file, heard, owed>>
    BY <1>4 DEF CheckInterrupted, IInv
  <2>3. R \in Results
    BY PartialResultsType DEF IInv
  <2> HIDE DEF R
  <2>4. ProcInv(Checked(proc[p], R, TRUE), heard)
    BY <2>2, <2>3, CheckedInv
  <2>5. Goto(p, Checked(proc[p], R, TRUE))
    BY <2>1 DEF R
  <2>6. QED
    BY <2>2, <2>4, <2>5, GotoInv DEF IInv
<1>5. ASSUME NEW p \in Procs, Abandon(p) \/ StaySilent(p) \/ SaveFails(p)
      PROVE  IInv'
  <2>1. EndCycle(p) /\ UNCHANGED <<now, servers, file, heard, owed>>
    BY <1>5 DEF Abandon, StaySilent, SaveFails
  <2>2. QED
    BY <2>1, RestingInv, GotoInv DEF EndCycle, IInv
<1>6. ASSUME NEW p \in Procs, Publish(p)
      PROVE  IInv'
  <2> DEFINE new == [proc[p] EXCEPT !.pc = "written"]
  <2>1. ProcInv(proc[p], heard) /\ proc[p].pc = "checked" /\ ~proc[p].done
    BY <1>6 DEF Publish, Interrupted, IInv
  <2>2. /\ new \in ProcState /\ new.pc = "written"
        /\ new.results = proc[p].results /\ new.cfg = proc[p].cfg
    BY <2>1 DEF ProcInv, ProcState, Label
  <2> HIDE DEF new
  <2>3. ProcInv(new, heard)
    BY <2>1, <2>2 DEF ProcInv, Whole
  <2>4. Goto(p, new) /\ UNCHANGED <<now, servers, file, heard, owed>>
    BY <1>6 DEF Publish, new
  <2>5. QED
    BY <2>3, <2>4, GotoInv DEF IInv
<1>7. ASSUME NEW p \in Procs, Decide(p)
      PROVE  IInv'
  <2> DEFINE m == IF proc[p].cfg.history THEN Load(file) ELSE NoDomains
  <2>1. ProcInv(proc[p], heard) /\ proc[p].pc = "written" /\ now \in Nat
    BY <1>7 DEF Decide, IInv
  <2>2. m \in Domains /\ Backed(heard, m)
    BY NothingBacked DEF Load, IInv
  <2>3. Goto(p, Decided(proc[p], m, now)) /\ UNCHANGED <<now, servers, file, heard, owed>>
    BY <1>7 DEF Decide
  <2> HIDE DEF m
  <2>4. ProcInv(Decided(proc[p], m, now), heard)
    BY <2>1, <2>2, DecideInv
  <2>5. QED
    BY <2>3, <2>4, GotoInv DEF IInv
<1>8. ASSUME NEW p \in Procs, NEW c \in Channels, SendOk(p, c) \/ SendUnacknowledged(p, c)
      PROVE  IInv'
  <2>1. PICK failed \in BOOLEAN : Tried(p, c, failed)
    BY <1>8 DEF SendOk, SendUnacknowledged
  <2>2. /\ ProcInv(proc[p], heard) /\ proc[p].pc = "sending"
        /\ heard' = heard \cup Message(p, c)
        /\ owed' = owed \ {<<Key[t], c>> : t \in proc[p].pending}
        /\ UNCHANGED <<now, servers, file>>
    BY <1>8 DEF SendOk, SendUnacknowledged, Deliver, IInv
  <2>3. heard' \in SUBSET Announcement /\ heard \subseteq heard'
    BY <2>2, MessageType DEF IInv
  <2>4. \A t \in proc[p].pending :
          [channel |-> c, target |-> t,
           entry |-> EntryOf(proc[p].results[t], proc[p].clock)] \in heard'
    BY <2>2 DEF Message
  <2>5. ProcInv([proc[p] EXCEPT !.todo = @ \ {c}, !.failed = @ \/ failed], heard')
    BY <2>2, <2>3, <2>4, TriedInv
  <2>6. owed' \in SUBSET (Domain \X Channels)
    BY <2>2 DEF IInv
  <2>7. QED
    BY <2>1, <2>2, <2>3, <2>5, <2>6, GotoInv DEF Tried
<1>9. ASSUME NEW p \in Procs, NEW c \in Channels, SendFails(p, c)
      PROVE  IInv'
  <2>1. /\ ProcInv(proc[p], heard) /\ proc[p].pc = "sending"
        /\ Tried(p, c, TRUE) /\ UNCHANGED <<now, servers, file, heard, owed>>
    BY <1>9 DEF SendFails, IInv
  <2>2. ProcInv([proc[p] EXCEPT !.todo = @ \ {c}, !.failed = @ \/ TRUE], heard)
    BY <2>1, TriedInv
  <2>3. QED
    BY <2>1, <2>2, GotoInv DEF Tried, IInv
<1>10. ASSUME NEW p \in Procs, Commit(p)
       PROVE  IInv'
  <2>1. /\ ProcInv(proc[p], heard) /\ proc[p].pc = "sending" /\ proc[p].todo = {}
        /\ UNCHANGED <<now, servers, file, heard>>
    BY <1>10 DEF Commit, IInv
  <2>2. owed' \in SUBSET (Domain \X Channels)
    BY <1>10 DEF Commit, SeenFine, IInv
  <2>3. ProcInv([proc[p] EXCEPT !.pc = "saving", !.mem = Committed(proc[p])], heard)
    BY <2>1, CommitInv
  <2>4. CASE proc[p].cfg.history
    BY <1>10, <2>1, <2>2, <2>3, <2>4, GotoInv DEF Commit, IInv
  <2>5. CASE ~proc[p].cfg.history
    BY <1>10, <2>1, <2>2, <2>5, RestingInv, GotoInv DEF Commit, EndCycle, IInv
  <2>6. QED
    BY <2>4, <2>5
<1>11. ASSUME NEW p \in Procs, Save(p)
       PROVE  IInv'
  <2>1. ProcInv(proc[p], heard) /\ proc[p].pc = "saving" /\ file' = proc[p].mem
    BY <1>11 DEF Save, IInv
  <2>2. file' \in Domains /\ Backed(heard, file')
    BY <2>1 DEF ProcInv, ProcState
  <2>3. /\ proc' \in [Procs -> ProcState]
        /\ \A q \in Procs : ProcInv(proc'[q], heard)
    BY <1>11, RestingInv DEF Save, EndCycle, Goto, IInv, ProcInv
  <2>4. QED
    BY <1>11, <2>2, <2>3 DEF Save, IInv
<1>12. ASSUME NEW p \in Procs, Signal(p)
       PROVE  IInv'
  <2> DEFINE new == [proc[p] EXCEPT !.done = TRUE]
  <2>1. ProcInv(proc[p], heard) /\ proc[p] \in ProcState
    BY DEF IInv
  <2>2. /\ new \in ProcState /\ new.done /\ new.pc = proc[p].pc
        /\ new.results = proc[p].results /\ new.cfg = proc[p].cfg
        /\ new.mem = proc[p].mem /\ new.pending = proc[p].pending
        /\ new.clock = proc[p].clock /\ new.todo = proc[p].todo
        /\ new.failed = proc[p].failed
    BY <2>1 DEF ProcState
  <2> HIDE DEF new
  <2>3. ProcInv(new, heard)
    BY <2>1, <2>2 DEF ProcInv, Whole, SentSoFar
  <2>4. Goto(p, new) /\ UNCHANGED <<now, servers, file, heard, owed>>
    BY <1>12 DEF Signal, new
  <2>5. QED
    BY <2>3, <2>4, GotoInv DEF IInv
<1>13. CASE Tick
  BY <1>13 DEF Tick, IInv
<1>14. CASE Corrupt
  BY <1>14 DEF Corrupt, IInv
<1>15. CASE UNCHANGED vars
  BY <1>15 DEF vars, IInv
<1>16. QED
  BY <1>1, <1>2, <1>3, <1>4, <1>5, <1>6, <1>7, <1>8, <1>9, <1>10, <1>11, <1>12,
     <1>13, <1>14, <1>15 DEF Next, Step, Deliveries

-------------------------------------------------------------------------------
(* The theorems.                                                           *)

LEMMA InvariantHolds == Spec => []IInv
<1>1. Init => IInv
  BY InitInv
<1>2. IInv /\ [Next]_vars => IInv'
  BY NextInv
<1>3. QED
  BY <1>1, <1>2, PTL DEF Spec

(* Every variable keeps its type: the program never holds a malformed history, *)
(* result list or message.                                                     *)
THEOREM TypeCorrect == Spec => []TypeOK
<1>1. IInv => TypeOK
  BY DEF IInv, TypeOK
<1>2. QED
  BY <1>1, InvariantHolds, PTL

(* "Record runs only once the alert has actually gone out": whatever the file *)
(* or a process remembers was delivered over every channel of a configuration, *)
(* with any number of processes sharing the file and any combination of faults. *)
THEOREM RememberedWasAnnounced == Spec => []OnlyAnnouncedIsRemembered
<1>1. IInv => OnlyAnnouncedIsRemembered
  BY DEF IInv, ProcInv, OnlyAnnouncedIsRemembered
<1>2. QED
  BY <1>1, InvariantHolds, PTL

(* An interrupted check, however much of it was done, never reaches the *)
(* channels or the history.                                             *)
THEOREM InterruptedIsSilent == Spec => []OnlyCompleteRunsNotify
<1>1. IInv => OnlyCompleteRunsNotify
  BY DEF IInv, ProcInv, Whole, OnlyCompleteRunsNotify, IsComplete
<1>2. QED
  BY <1>1, InvariantHolds, PTL

\* Every configuration has a channel.
AlwaysSomeChannel == \A cfg \in Configs : cfg.channels # {}

(* What the ladder makes of the days: no rung they have come down to is lower  *)
(* than one that has not been descended from.                                  *)
LEMMA RungsCovered ==
    ASSUME NEW r \in Result, NEW prev \in Rung, ~descended(prev, StepFor(r)),
           NEW s \in Steps, Valid(r.status), r.days <= s
    PROVE  prev # 0 /\ prev <= s
<1> DEFINE reached == {x \in Steps : r.days <= x}
<1>1. reached \in SUBSET Nat /\ s \in reached
  BY AlertAssumption
<1>2. Min(reached) \in reached /\ \A x \in reached : Min(reached) <= x
  BY <1>1, MinIsMember
<1>3. StepFor(r) = Min(reached)
  BY <1>1 DEF StepFor
<1>4. PICK m \in Nat \ {0} : m = StepFor(r) /\ m <= s
  BY <1>1, <1>2, <1>3, AlertAssumption
<1>5. prev # 0 /\ ~(m < prev)
  BY <1>4 DEF descended
<1>6. prev \in Nat /\ s \in Nat
  BY AlertAssumption DEF Rung
<1>7. QED
  BY <1>4, <1>5, <1>6

(* A problem a cycle keeps quiet about was heard, on a channel, with the same  *)
(* status and certificate, on a rung no higher than any reached since, and     *)
(* less than RepeatAfter ago.                                                  *)
(* Both hypotheses are needed: without a channel Notify succeeds and sends     *)
(* nothing, and targets that share a domain share its entry.                   *)
THEOREM NothingSwallowed ==
    ASSUME KeyInjective, AlwaysSomeChannel
    PROVE  Spec => []NeverSwallowed
<1>1. IInv => NeverSwallowed
  <2> SUFFICES ASSUME IInv, NEW p \in Procs, NEW t \in Suppressed(proc[p])
               PROVE  \E a \in heard : Covers(a, t, proc[p].results[t], proc[p].clock)
    BY DEF NeverSwallowed
  <2> DEFINE s == proc[p]
             r == s.results[t]
             e == s.mem[Key[t]]
  <2>1. ProcInv(s, heard) /\ s.pc = "sending" /\ t \in Problems(s.results) \ s.pending
    BY DEF IInv, Suppressed
  <2>2. t \in Targets /\ r \in Result /\ s.clock \in Int /\ s.mem \in Domains
    BY <2>1 DEF ProcInv, ProcState, Problems, Listed, Results
  <2>3. ~shouldNotify(e, r, s.clock)
    BY <2>1 DEF ProcInv, ToAnnounce, Pending
  <2>4. e # NoEntry
    BY <2>3 DEF shouldNotify
  <2>5. PICK u \in Targets : Key[u] = Key[t] /\ Delivered(heard, u, e)
    BY <2>1, <2>2, <2>4, KeyType DEF ProcInv, Backed
  <2>6. u = t
    BY <2>2, <2>5 DEF KeyInjective
  <2>7. PICK cfg \in Configs, c \in Channels :
          [channel |-> c, target |-> t, entry |-> e] \in heard
    BY <2>5, <2>6, CycleAssumption DEF Delivered, AlwaysSomeChannel, Config
  <2>8. e \in Entry
    BY <2>2, <2>4, KeyType DEF Domains
  <2>9. RepeatAfter = 0 \/ s.clock < e.at + RepeatAfter
    <3>1. ~(RepeatAfter > 0 /\ s.clock >= e.at + RepeatAfter)
      BY <2>3 DEF shouldNotify
    <3>2. e.at \in Int
      BY <2>8 DEF Entry
    <3>3. QED
      BY <2>2, <3>1, <3>2, AlertAssumption
  <2>10. e.status = r.status /\ sameCertificate(e.exp, r.exp) /\ ~descended(e.step, StepFor(r))
    BY <2>3 DEF shouldNotify
  <2> HIDE DEF e, r, s
  <2>13. \A x \in Steps : Valid(r.status) /\ r.days <= x => e.step # 0 /\ e.step <= x
    BY <2>2, <2>8, <2>10, RungsCovered DEF Entry
  <2>11. Covers([channel |-> c, target |-> t, entry |-> e], t, r, s.clock)
    BY <2>9, <2>10, <2>13 DEF Covers
  <2>12. QED
    BY <2>7, <2>11 DEF r, s
<1>2. QED
  BY <1>1, InvariantHolds, PTL
================================================================================
