--------------------------- MODULE CheckPool_proofs ---------------------------
(***************************************************************************)
(* Proofs about CheckPool, for any list, any number of slots and attempts, *)
(* any errors and any signal.                                              *)
(***************************************************************************)
EXTENDS CheckPool, FiniteSetTheorems, TLAPS

-------------------------------------------------------------------------------
(* The inductive invariant: what is true of one goroutine in each phase, and *)
(* how the goroutines, the loop, the semaphore and the list hang together.   *)

Goroutine ==
    [phase : Phase, tried : Seq(DialError \cup {"verified"}),
     res : Result \cup {ZeroResult}, late : Nat]

(* The phases with a slot, and those after the last attempt. *)
Holding == {"dialing", "backoff", "diagnosing", "storing", "stored"}
Concluded == {"diagnosing", "storing", "stored", "released", "over"}

Last(w) == w.tried[Len(w.tried)]

(* Attempts are left, for all so far failed in passing. *)
Retrying(w) ==
    /\ Len(w.tried) < Retries
    /\ \A k \in 1..Len(w.tried) : w.tried[k] \in Transient

(* The attempts are over for a reason, and counted; a result that blames the *)
(* context has one that is done.                                             *)
Counted(w, done) ==
    /\ Len(w.tried) \in 1..Retries
    /\ \A k \in 1..(Len(w.tried) - 1) : w.tried[k] \in Transient
    /\ Last(w) \in Transient => Len(w.tried) = Retries \/ done
    /\ w.res \in Result
    /\ w.res.attempts = Len(w.tried)
    /\ w.res.error = "canceled" => done

(* The golden rule for one goroutine. *)
Golden(w) ==
    /\ Valid(w.res.status) => Last(w) = "verified" /\ ~w.res.insecure
    /\ w.res.insecure => Last(w) \in CertError
    /\ Last(w) \in CertError => w.res.status \in {"expired", "invalid"}

Sound(w, done) ==
    /\ w \in Goroutine
    /\ w.late <= 1
    /\ w.late = 1 => done
    /\ w.phase = "idle" => w = IdleCheck
    /\ w.phase = "dialing" => Retrying(w)
    /\ w.phase = "backoff" => Retrying(w) /\ w.tried # <<>> /\ w.late = 0
    /\ w.phase \in Concluded => Counted(w, done) /\ Golden(w)
    /\ w.phase = "diagnosing" => Last(w) \in CertError /\ ~w.res.insecure

Holders == {i \in Index : check[i].phase \in Holding}

PoolInv ==
    /\ ctx \in BOOLEAN
    /\ loop \in {"spawning", "waiting", "returned"}
    /\ started \in 0..N
    /\ sem \in 0..Concurrency
    /\ sem = Cardinality(Holders)
    /\ check \in [Index -> Goroutine]
    /\ \A i \in Index : Sound(check[i], ctx)
    /\ \A i \in Index : i > started <=> check[i].phase = "idle"

(* The list holds what the goroutines have stored; the loop ends early only *)
(* for the signal, and returns when nobody is at work.                      *)
ListInv ==
    /\ results \in [Index -> Result \cup {ZeroResult}]
    /\ \A i \in Index : check[i].phase \in {"stored", "released", "over"} =>
          results[i] = check[i].res
    /\ loop # "spawning" => started = N \/ ctx
    /\ loop = "returned" => GroupDone

IInv == PoolInv /\ ListInv

-------------------------------------------------------------------------------
(* The steps of one goroutine.                                             *)

(* No error has no name. *)
LEMMA NoneIsNoError == None \notin DialError \cup {"canceled"}
  BY Zenon DEF None, DialError, CertError, Transient

(* One more attempt noted. *)
LEMMA Appended ==
    ASSUME NEW S, NEW s \in Seq(S), NEW e \in S
    PROVE  /\ Append(s, e) \in Seq(S)
           /\ Len(Append(s, e)) = Len(s) + 1
           /\ Len(s) \in Nat
           /\ Append(s, e)[Len(s) + 1] = e
           /\ \A k \in 1..Len(s) : Append(s, e)[k] = s[k]
  OBVIOUS

LEMMA IdleType == IdleCheck \in Goroutine
<1>1. <<>> \in Seq(DialError \cup {"verified"})
  OBVIOUS
<1>2. QED
  BY <1>1 DEF IdleCheck, Goroutine, Phase

(* classify gives a status and a kind, and calls certificate errors either *)
(* expired or invalid; no certificate error is transient.                  *)
LEMMA ClassifyType ==
    ASSUME NEW e \in DialError
    PROVE  /\ classify(e).status \in {"expired", "invalid", "error"}
           /\ classify(e).kind \in Kind
           /\ classify(e).retryable <=> e \in Transient
           /\ classify(e).certErr <=> e \in CertError
           /\ e \in CertError => classify(e).status \in {"expired", "invalid"}
  BY DEF classify, KindOf, Kind, DialError, CertError, Transient

(* The first attempt and every later one. *)
LEMMA DialSound ==
    ASSUME NEW w, NEW done \in BOOLEAN, Sound(w, done), w.phase \in {"idle", "backoff"}
    PROVE  /\ Sound(Dial(w, done), done)
           /\ Dial(w, done).phase = "dialing"
<1> DEFINE v == Dial(w, done)
<1>1. w \in Goroutine /\ w.late = 0 /\ Retrying(w)
  <2>1. CASE w.phase = "idle"
    BY <2>1, HandshakeAssumption, IdleType DEF Sound, IdleCheck, Retrying
  <2>2. CASE w.phase = "backoff"
    BY <2>2 DEF Sound
  <2>3. QED
    BY <2>1, <2>2
<1>2. /\ v.phase = "dialing" /\ v.tried = w.tried /\ v.res = w.res
      /\ v.late = One(done) /\ v \in Goroutine
  <2>1. One(done) \in Nat /\ w.late + One(done) = One(done)
    BY <1>1 DEF One
  <2>2. v = [w EXCEPT !.phase = "dialing", !.late = One(done)]
    BY <1>1, <2>1 DEF Dial
  <2>3. QED
    BY <1>1, <2>1, <2>2 DEF Goroutine, Phase
<1>3. Retrying(v)
  BY <1>1, <1>2 DEF Retrying
<1>4. QED
  BY <1>2, <1>3 DEF Sound, One, Concluded

(* A verified attempt. *)
LEMMA VerifiedSound ==
    ASSUME NEW w, NEW done \in BOOLEAN, Sound(w, done), w.phase = "dialing",
           NEW status \in Verdicts
    PROVE  /\ Sound(Verified(w, status), done)
           /\ Verified(w, status).phase = "storing"
<1> DEFINE v == Verified(w, status)
<1>1. w \in Goroutine /\ Retrying(w) /\ w.tried \in Seq(DialError \cup {"verified"})
  BY DEF Sound, Goroutine
<1>2. /\ v.phase = "storing" /\ v.late = w.late
      /\ v.tried = Append(w.tried, "verified")
      /\ v.res = [status |-> status, kind |-> IF status = "expired" THEN "expired" ELSE None,
                  error |-> None, attempts |-> Len(w.tried) + 1, insecure |-> FALSE]
  BY <1>1 DEF Verified, Goroutine, Attempts
<1> HIDE DEF v
<1>3. /\ Len(v.tried) = Len(w.tried) + 1 /\ Last(v) = "verified"
      /\ v.tried \in Seq(DialError \cup {"verified"})
      /\ Len(w.tried) \in Nat
      /\ \A k \in 1..Len(w.tried) : v.tried[k] = w.tried[k]
  <2> DEFINE S == DialError \cup {"verified"}
  <2>1. "verified" \in S /\ w.tried \in Seq(S)
    BY <1>1
  <2> HIDE DEF S
  <2>2. /\ Append(w.tried, "verified") \in Seq(S)
        /\ Len(Append(w.tried, "verified")) = Len(w.tried) + 1
        /\ Len(w.tried) \in Nat
        /\ Append(w.tried, "verified")[Len(w.tried) + 1] = "verified"
        /\ \A k \in 1..Len(w.tried) : Append(w.tried, "verified")[k] = w.tried[k]
    BY <2>1, Appended
  <2>3. QED
    BY <1>2, <2>2 DEF Last, S
<1>4. \A k \in 1..(Len(v.tried) - 1) : v.tried[k] \in Transient
  BY <1>1, <1>3 DEF Retrying
<1>5. Len(v.tried) \in 1..Retries
  BY <1>1, <1>3, HandshakeAssumption DEF Retrying
<1>6. v.res \in Result
  <2>1. status \in {"ok", "warning", "critical", "expired"}
    BY HandshakeAssumption DEF VerifiedStatus
  <2>2. Len(w.tried) + 1 \in 1..Retries
    BY <1>3, <1>5
  <2>3. QED
    BY <1>2, <2>1, <2>2 DEF Result, Kind
<1>7. v \in Goroutine
  <2>1. v = [w EXCEPT !.phase = "storing", !.tried = v.tried, !.res = v.res]
    BY <1>2 DEF v, Verified, Attempts
  <2>2. \A p \in Phase, t \in Seq(DialError \cup {"verified"}), r \in Result :
          [w EXCEPT !.phase = p, !.tried = t, !.res = r] \in Goroutine
    BY <1>1 DEF Goroutine
  <2>3. "storing" \in Phase
    BY DEF Phase
  <2>4. QED
    BY <1>3, <1>6, <2>1, <2>2, <2>3, Zenon
<1>8. Counted(v, done)
  <2>1. v.res.attempts = Len(w.tried) + 1 /\ v.res.error # "canceled"
    BY <1>2, NoneIsNoError
  <2>2. Last(v) \notin Transient
    BY <1>3 DEF Transient
  <2>3. QED
    BY <1>3, <1>4, <1>5, <1>6, <2>1, <2>2 DEF Counted
<1>9. Golden(v)
  <2>1. Last(v) \notin CertError /\ ~v.res.insecure
    BY <1>2, <1>3 DEF CertError
  <2>2. QED
    BY <1>3, <2>1 DEF Golden
<1>10. Sound(v, done)
  BY <1>2, <1>7, <1>8, <1>9 DEF Sound, Concluded
<1>11. QED
  BY <1>2, <1>10 DEF v

(* The failure e is the last word on w, whose last attempt it ended. *)
LEMMA ConcludeSound ==
    ASSUME NEW w \in Goroutine, NEW done \in BOOLEAN, NEW e \in DialError,
           w.late <= 1, w.late = 1 => done,
           w.late = 1 => e \notin CertError,
           e = "canceled" => done,
           Len(w.tried) \in 1..Retries,
           \A k \in 1..(Len(w.tried) - 1) : w.tried[k] \in Transient,
           Last(w) = e,
           e \in Transient => Len(w.tried) = Retries \/ done
    PROVE  /\ Sound(Conclude(w, e, done), done)
           /\ Conclude(w, e, done).phase \in {"diagnosing", "storing"}
<1> DEFINE v == Conclude(w, e, done)
<1>1. /\ classify(e).status \in {"expired", "invalid", "error"}
      /\ classify(e).kind \in Kind
      /\ classify(e).certErr <=> e \in CertError
      /\ e \in CertError => classify(e).status \in {"expired", "invalid"}
  BY ClassifyType
<1>2. /\ v.phase = IF e \in CertError THEN "diagnosing" ELSE "storing"
      /\ v.tried = w.tried
      /\ v.late = w.late + One(done /\ e \in CertError)
      /\ v.res = [status |-> classify(e).status, kind |-> classify(e).kind, error |-> e,
                  attempts |-> Len(w.tried), insecure |-> FALSE]
  BY <1>1 DEF Conclude, Goroutine, Attempts
<1>3. v.late \in Nat /\ v.late <= 1 /\ (v.late = 1 => done)
  BY <1>2 DEF One, Goroutine
<1>4. v.res \in Result
  BY <1>1, <1>2, HandshakeAssumption DEF Result
<1>5. v \in Goroutine
  BY <1>2, <1>3, <1>4 DEF Conclude, Goroutine, Phase
<1>6. Counted(v, done)
  BY <1>2, <1>4 DEF Counted, Last
<1>7. Golden(v)
  BY <1>1, <1>2 DEF Golden, Last, Valid
<1>8. QED
  BY <1>2, <1>3, <1>5, <1>6, <1>7 DEF Sound, Concluded, Last

(* A failed attempt. *)
LEMMA FailedSound ==
    ASSUME NEW w, NEW done \in BOOLEAN, Sound(w, done), w.phase = "dialing",
           NEW e \in DialError, w.late = 1 => e \notin CertError, e = "canceled" => done
    PROVE  /\ Sound(Failed(w, e, done), done)
           /\ Failed(w, e, done).phase \in {"backoff", "diagnosing", "storing"}
<1> DEFINE v == [w EXCEPT !.tried = Append(@, e)]
<1>1. /\ w \in Goroutine /\ Retrying(w) /\ w.tried \in Seq(DialError \cup {"verified"})
      /\ w.late <= 1 /\ (w.late = 1 => done)
  BY DEF Sound, Goroutine
<1>2. v \in Goroutine /\ v.tried = Append(w.tried, e) /\ v.late = w.late /\ v.res = w.res
  BY <1>1 DEF Goroutine
<1>3. /\ Len(v.tried) = Len(w.tried) + 1 /\ Last(v) = e
      /\ \A k \in 1..(Len(v.tried) - 1) : v.tried[k] \in Transient
  BY <1>1, <1>2 DEF Last, Retrying
<1>4. Len(v.tried) \in 1..Retries
  BY <1>1, <1>3, HandshakeAssumption DEF Retrying
<1>5. classify(e).retryable <=> e \in Transient
  BY ClassifyType
<1>6. CASE GivesUp(w, e, done)
  <2>1. e \in Transient => Len(v.tried) = Retries \/ done
    <3>1. ~classify(e).retryable \/ Len(w.tried) + 1 >= Retries \/ done
      BY <1>6 DEF GivesUp, Attempts
    <3>2. Len(w.tried) \in Nat /\ Retries \in Nat
      BY <1>1, HandshakeAssumption
    <3>3. QED
      BY <1>3, <1>4, <1>5, <3>1, <3>2
  <2>2. Failed(w, e, done) = Conclude(v, e, done)
    BY <1>6 DEF Failed
  <2>3. v.late <= 1 /\ (v.late = 1 => done) /\ (v.late = 1 => e \notin CertError)
    BY <1>1, <1>2
  <2> HIDE DEF v
  <2>4. /\ Sound(Conclude(v, e, done), done)
        /\ Conclude(v, e, done).phase \in {"diagnosing", "storing"}
    BY <1>2, <1>3, <1>4, <2>1, <2>3, ConcludeSound
  <2>5. QED
    BY <2>2, <2>4
<1>7. CASE ~GivesUp(w, e, done)
  <2> DEFINE u == [v EXCEPT !.phase = "backoff"]
  <2>1. Failed(w, e, done) = u
    BY <1>7 DEF Failed
  <2>2. e \in Transient /\ Len(v.tried) < Retries /\ ~done
    BY <1>3, <1>4, <1>5, <1>7, HandshakeAssumption DEF GivesUp, Attempts
  <2>3. u \in Goroutine /\ u.phase = "backoff" /\ u.tried = v.tried /\ u.late = w.late
    BY <1>2 DEF Goroutine, Phase
  <2>4. Retrying(u) /\ u.tried # <<>>
    <3>1. \A k \in 1..Len(v.tried) : v.tried[k] \in Transient
      BY <1>3, <1>4, <2>2 DEF Last
    <3>2. v.tried # <<>>
      BY <1>4
    <3>3. QED
      BY <2>2, <2>3, <3>1, <3>2 DEF Retrying
  <2>5. u.late = 0
    BY <2>2, <2>3, <1>1 DEF Sound, Goroutine
  <2>6. QED
    BY <2>1, <2>3, <2>4, <2>5 DEF Sound, Concluded
<1>8. QED
  BY <1>6, <1>7

(* What a diagnostic connection adds. *)
LEMMA DiagnosedSound ==
    ASSUME NEW w, NEW done \in BOOLEAN, Sound(w, done), w.phase = "diagnosing",
           NEW window \in Window
    PROVE  /\ Sound(Diagnosed(w, window), done)
           /\ Diagnosed(w, window).phase = "storing"
<1> DEFINE v == Diagnosed(w, window)
<1>1. /\ w \in Goroutine /\ Counted(w, done) /\ Golden(w) /\ w.res \in Result
      /\ Last(w) \in CertError
  BY DEF Sound, Concluded, Counted
<1>2. /\ v.phase = "storing" /\ v.tried = w.tried /\ v.late = w.late
      /\ v.res = Refined(w.res, window)
  BY <1>1 DEF Diagnosed, Goroutine
<1>3. /\ v.res \in Result /\ v.res.attempts = w.res.attempts /\ v.res.error = w.res.error
      /\ v.res.insecure
      /\ v.res.status \in {w.res.status, "expired", "invalid"}
  BY <1>1, <1>2 DEF Refined, Result, Kind
<1>4. v \in Goroutine
  BY <1>1, <1>2, <1>3 DEF Diagnosed, Goroutine, Phase
<1>5. Counted(v, done)
  BY <1>1, <1>2, <1>3 DEF Counted, Last
<1>6. Golden(v)
  BY <1>1, <1>2, <1>3 DEF Golden, Last, Valid
<1>7. QED
  BY <1>2, <1>4, <1>5, <1>6 DEF Sound, Concluded

(* From one concluded phase to another, none of which is the diagnosis. *)
LEMMA MovesOnSound ==
    ASSUME NEW w, NEW done \in BOOLEAN, Sound(w, done), w.phase \in Concluded,
           NEW p \in {"storing", "stored", "released", "over"}
    PROVE  /\ Sound([w EXCEPT !.phase = p], done)
           /\ [w EXCEPT !.phase = p].phase = p
           /\ [w EXCEPT !.phase = p].res = w.res
<1> DEFINE v == [w EXCEPT !.phase = p]
<1>1. w \in Goroutine /\ Counted(w, done) /\ Golden(w)
  BY DEF Sound
<1>2. /\ v.phase = p /\ v.tried = w.tried /\ v.late = w.late /\ v.res = w.res
      /\ v \in Goroutine
  BY <1>1 DEF Goroutine, Phase
<1>3. Counted(v, done) /\ Golden(v)
  BY <1>1, <1>2 DEF Counted, Golden, Last
<1>4. QED
  BY <1>2, <1>3 DEF Sound, Concluded

(* The signal disturbs nobody. *)
LEMMA SignalSound ==
    ASSUME NEW w, Sound(w, FALSE)
    PROVE  Sound(w, TRUE)
  BY DEF Sound, Counted

-------------------------------------------------------------------------------
(* The steps of the pool.                                                  *)

LEMMA InitInv == Init => IInv
<1> SUFFICES ASSUME Init PROVE IInv
  OBVIOUS
<1>1. check \in [Index -> Goroutine]
  BY IdleType DEF Init
<1>2. \A i \in Index : check[i] = IdleCheck /\ check[i].phase = "idle" /\ check[i].late = 0
  BY DEF Init, IdleCheck
<1>3. \A i \in Index : Sound(check[i], ctx)
  BY <1>1, <1>2 DEF Sound, Concluded
<1>4. Holders = {}
  BY <1>2 DEF Holders, Holding
<1>5. sem = Cardinality(Holders) /\ sem \in 0..Concurrency
  BY <1>4, FS_EmptySet, PoolAssumption DEF Init
<1>6. \A i \in Index : i > started <=> check[i].phase = "idle"
  BY <1>2, PoolAssumption DEF Init, Index
<1>7. PoolInv
  <2>1. ctx \in BOOLEAN /\ loop \in {"spawning", "waiting", "returned"}
    BY DEF Init
  <2>2. started \in 0..N
    BY PoolAssumption DEF Init
  <2>3. QED
    BY <1>1, <1>3, <1>5, <1>6, <2>1, <2>2 DEF PoolInv
<1>8. ListInv
  BY <1>2 DEF Init, ListInv
<1>9. QED
  BY <1>7, <1>8 DEF IInv

LEMMA HoldersFinite == IsFiniteSet(Holders) /\ Cardinality(Holders) \in Nat
<1>1. IsFiniteSet(Index)
  BY FS_Interval, PoolAssumption DEF Index
<1>2. Holders \in SUBSET Index
  BY DEF Holders
<1>3. QED
  BY <1>1, <1>2, FS_Subset, FS_CardinalityType

(* A goroutine at work goes on and keeps its slot, or its lack of one. *)
LEMMA GoesOn ==
    ASSUME IInv, NEW i \in Index, NEW w, Goes(i, w), OnlyCheck, Sound(w, ctx),
           check[i].phase \notin {"idle", "over"}, w.phase # "idle",
           check[i].phase \in Holding <=> w.phase \in Holding,
           w.phase \in {"stored", "released", "over"} => results[i] = w.res
    PROVE  IInv'
<1>1. w \in Goroutine
  BY DEF Sound
<1>2. /\ check' \in [Index -> Goroutine] /\ check'[i] = w
      /\ \A j \in Index \ {i} : check'[j] = check[j]
  BY <1>1 DEF Goes, IInv, PoolInv
<1>3. Holders' = Holders
  BY <1>2 DEF Holders
<1>4. PoolInv'
  BY <1>2, <1>3 DEF OnlyCheck, IInv, PoolInv
<1>5. loop # "returned"
  BY DEF IInv, ListInv, GroupDone
<1>6. ListInv'
  BY <1>2, <1>5 DEF OnlyCheck, IInv, ListInv
<1>7. QED
  BY <1>4, <1>6 DEF IInv

LEMMA SpawnInv ==
    ASSUME IInv, Spawn
    PROVE  IInv'
<1> DEFINE k == started + 1
           w == Dial(check[k], ctx)
<1>1. k \in Index /\ started \in 0..N /\ check[k].phase = "idle" /\ Sound(check[k], ctx)
  BY PoolAssumption DEF Spawn, IInv, PoolInv, Index
<1>2. Sound(w, ctx) /\ w.phase = "dialing"
  BY <1>1, DialSound DEF IInv, PoolInv
<1> HIDE DEF w
<1>3. w \in Goroutine
  BY <1>2 DEF Sound
<1>4. /\ check' \in [Index -> Goroutine] /\ check'[k] = w
      /\ \A j \in Index \ {k} : check'[j] = check[j]
  BY <1>1, <1>3 DEF Spawn, Goes, IInv, PoolInv, w
<1>5. Holders' = Holders \cup {k} /\ k \notin Holders
  BY <1>1, <1>2, <1>4 DEF Holders, Holding
<1>6. sem' = Cardinality(Holders)' /\ sem' \in 0..Concurrency
  <2>1. Cardinality(Holders') = Cardinality(Holders) + 1
    BY <1>5, HoldersFinite, FS_AddElement
  <2>2. sem = Cardinality(Holders) /\ sem \in 0..Concurrency /\ Concurrency \in Nat
    BY PoolAssumption DEF IInv, PoolInv
  <2>3. sem' = sem + 1 /\ sem < Concurrency
    BY DEF Spawn
  <2>4. QED
    BY <2>1, <2>2, <2>3
<1>7. \A j \in Index : j > started' <=> check'[j].phase = "idle"
  BY <1>1, <1>2, <1>4 DEF Spawn, IInv, PoolInv, Index
<1>8. PoolInv'
  BY <1>1, <1>2, <1>4, <1>6, <1>7, PoolAssumption DEF Spawn, IInv, PoolInv, Index
<1>9. ListInv'
  BY <1>2, <1>4 DEF Spawn, IInv, ListInv
<1>10. QED
  BY <1>8, <1>9 DEF IInv

LEMMA LoopInv ==
    ASSUME IInv, Cut \/ AllSpawned \/ Return
    PROVE  IInv'
<1>1. check' = check /\ ctx' = ctx /\ started' = started /\ sem' = sem /\ results' = results
  BY DEF Cut, AllSpawned, Return
<1>2. PoolInv'
  BY <1>1 DEF Cut, AllSpawned, Return, IInv, PoolInv, Holders
<1>3. ListInv'
  BY <1>1 DEF Cut, AllSpawned, Return, GroupDone, IInv, ListInv
<1>4. QED
  BY <1>2, <1>3 DEF IInv

LEMMA SignalInv ==
    ASSUME IInv, Signal
    PROVE  IInv'
<1>1. \A i \in Index : Sound(check[i], TRUE)
  BY SignalSound DEF Signal, IInv, PoolInv
<1>2. PoolInv'
  BY <1>1 DEF Signal, IInv, PoolInv, Holders
<1>3. ListInv'
  BY DEF Signal, IInv, ListInv, GroupDone
<1>4. QED
  BY <1>2, <1>3 DEF IInv

(* The errors a connection may end with under this context. *)
LEMMA FailsType ==
    ASSUME IInv, NEW i \in Index, NEW e \in Fails(check[i])
    PROVE  /\ e \in DialError
           /\ check[i].late = 1 => e \notin CertError
           /\ e = "canceled" => ctx
<1>1. check[i].late \in Nat /\ check[i].late <= 1 /\ (check[i].late = 1 => ctx)
  BY DEF IInv, PoolInv, Sound, Goroutine
<1>2. QED
  BY <1>1, HandshakeAssumption DEF Fails, DialError, CertError, Transient

LEMMA DialInv ==
    ASSUME IInv, NEW i \in Index, DialSucceeds(i) \/ DialFails(i)
    PROVE  IInv'
<1>1. Sound(check[i], ctx) /\ ctx \in BOOLEAN /\ check[i].phase = "dialing"
  BY DEF IInv, PoolInv, DialSucceeds, DialFails
<1>2. CASE DialSucceeds(i)
  <2>1. PICK status \in Verdicts : Goes(i, Verified(check[i], status))
    BY <1>2 DEF DialSucceeds
  <2>2. /\ Sound(Verified(check[i], status), ctx)
        /\ Verified(check[i], status).phase = "storing"
    BY <1>1, VerifiedSound
  <2>3. QED
    BY <1>1, <1>2, <2>1, <2>2, GoesOn DEF DialSucceeds, Holding
<1>3. CASE DialFails(i)
  <2>1. PICK e \in Fails(check[i]) : Goes(i, Failed(check[i], e, ctx))
    BY <1>3 DEF DialFails
  <2>2. e \in DialError /\ (check[i].late = 1 => e \notin CertError) /\ (e = "canceled" => ctx)
    BY FailsType
  <2>3. /\ Sound(Failed(check[i], e, ctx), ctx)
        /\ Failed(check[i], e, ctx).phase \in {"backoff", "diagnosing", "storing"}
    BY <1>1, <2>2, FailedSound
  <2>4. QED
    BY <1>1, <1>3, <2>1, <2>3, GoesOn DEF DialFails, Holding
<1>4. QED
  BY <1>2, <1>3

LEMMA BackoffInv ==
    ASSUME IInv, NEW i \in Index, BackoffOver(i) \/ BackoffCut(i)
    PROVE  IInv'
<1> DEFINE w == check[i]
           e == Last(w)
<1>1. Sound(w, ctx) /\ ctx \in BOOLEAN /\ w.phase = "backoff"
  BY DEF IInv, PoolInv, BackoffOver, BackoffCut
<1>2. CASE BackoffOver(i)
  <2>1. Sound(Dial(w, ctx), ctx) /\ Dial(w, ctx).phase = "dialing"
    BY <1>1, DialSound
  <2>2. QED
    BY <1>1, <1>2, <2>1, GoesOn DEF BackoffOver, Holding
<1>3. CASE BackoffCut(i)
  <2>1. /\ w \in Goroutine /\ w.late = 0 /\ Retrying(w) /\ w.tried # <<>>
        /\ w.tried \in Seq(DialError \cup {"verified"})
    BY <1>1 DEF Sound, Goroutine
  <2>2. Len(w.tried) \in 1..Retries /\ Len(w.tried) \in 1..Len(w.tried)
    BY <2>1, HandshakeAssumption DEF Retrying
  <2>3. e \in Transient
    BY <2>1, <2>2 DEF Last, Retrying
  <2>4. e \in DialError /\ e # "canceled"
    BY <2>3 DEF DialError, Transient
  <2>5. ctx
    BY <1>3 DEF BackoffCut
  <2>6. \A k \in 1..(Len(w.tried) - 1) : w.tried[k] \in Transient
    BY <2>1, <2>2 DEF Retrying
  <2>7. /\ Sound(Conclude(w, e, ctx), ctx)
        /\ Conclude(w, e, ctx).phase \in {"diagnosing", "storing"}
    <3> HIDE DEF w, e
    <3>1. e = Last(w)
      BY DEF e
    <3>2. QED
      <4>1. /\ w \in Goroutine /\ ctx \in BOOLEAN /\ e \in DialError
            /\ w.late <= 1 /\ w.late # 1 /\ Last(w) = e
        BY <1>1, <2>1, <2>4, <3>1
      <4>2. QED
        BY <2>2, <2>4, <2>5, <2>6, <4>1, ConcludeSound
  <2>8. Goes(i, Conclude(w, e, ctx)) /\ OnlyCheck
    BY <1>3 DEF BackoffCut, Attempts, Last
  <2>9. QED
    BY <1>1, <2>7, <2>8, GoesOn DEF Holding
<1>4. QED
  BY <1>2, <1>3

LEMMA DiagnoseInv ==
    ASSUME IInv, NEW i \in Index, Diagnose(i) \/ DiagnoseFails(i)
    PROVE  IInv'
<1>1. Sound(check[i], ctx) /\ ctx \in BOOLEAN /\ check[i].phase = "diagnosing"
  BY DEF IInv, PoolInv, Diagnose, DiagnoseFails
<1>2. CASE Diagnose(i)
  <2>1. PICK window \in Window : Goes(i, Diagnosed(check[i], window))
    BY <1>2 DEF Diagnose
  <2>2. /\ Sound(Diagnosed(check[i], window), ctx)
        /\ Diagnosed(check[i], window).phase = "storing"
    BY <1>1, DiagnosedSound
  <2>3. QED
    BY <1>1, <1>2, <2>1, <2>2, GoesOn DEF Diagnose, Holding
<1>3. CASE DiagnoseFails(i)
  <2> DEFINE w == [check[i] EXCEPT !.phase = "storing"]
  <2>1. Sound(w, ctx) /\ w.phase = "storing"
    BY <1>1, MovesOnSound DEF Concluded
  <2>2. Goes(i, w) /\ OnlyCheck
    BY <1>3 DEF DiagnoseFails
  <2> HIDE DEF w
  <2>3. QED
    BY <1>1, <2>1, <2>2, GoesOn DEF Holding
<1>4. QED
  BY <1>2, <1>3

LEMMA StoreInv ==
    ASSUME IInv, NEW i \in Index, Store(i)
    PROVE  IInv'
<1> DEFINE w == [check[i] EXCEPT !.phase = "stored"]
<1>1. /\ Sound(check[i], ctx) /\ ctx \in BOOLEAN /\ check[i].phase = "storing"
      /\ check[i].res \in Result
  BY DEF IInv, PoolInv, Store, Sound, Concluded, Counted
<1>2. Sound(w, ctx) /\ w.phase = "stored" /\ w.res = check[i].res
  BY <1>1, MovesOnSound DEF Concluded
<1>3. Goes(i, w) /\ results' = [results EXCEPT ![i] = check[i].res]
  BY DEF Store
<1> HIDE DEF w
<1>4. /\ check' \in [Index -> Goroutine] /\ check'[i] = w
      /\ \A j \in Index \ {i} : check'[j] = check[j]
  BY <1>2, <1>3 DEF Goes, IInv, PoolInv, Sound
<1>5. Holders' = Holders
  BY <1>1, <1>2, <1>4 DEF Holders, Holding
<1>6. PoolInv'
  BY <1>1, <1>2, <1>4, <1>5 DEF Store, IInv, PoolInv
<1>7. /\ results' \in [Index -> Result \cup {ZeroResult}] /\ results'[i] = w.res
      /\ \A j \in Index \ {i} : results'[j] = results[j]
  BY <1>1, <1>2, <1>3 DEF IInv, ListInv
<1>8. loop # "returned"
  BY <1>1 DEF IInv, ListInv, GroupDone
<1>9. ListInv'
  BY <1>4, <1>7, <1>8 DEF Store, IInv, ListInv
<1>10. QED
  BY <1>6, <1>9 DEF IInv

LEMMA ReleaseInv ==
    ASSUME IInv, NEW i \in Index, Release(i)
    PROVE  IInv'
<1> DEFINE w == [check[i] EXCEPT !.phase = "released"]
<1>1. Sound(check[i], ctx) /\ ctx \in BOOLEAN /\ check[i].phase = "stored"
  BY DEF IInv, PoolInv, Release
<1>2. Sound(w, ctx) /\ w.phase = "released" /\ w.res = check[i].res
  BY <1>1, MovesOnSound DEF Concluded
<1>3. Goes(i, w) /\ sem' = sem - 1
  BY DEF Release, SlotsAfter
<1> HIDE DEF w
<1>4. /\ check' \in [Index -> Goroutine] /\ check'[i] = w
      /\ \A j \in Index \ {i} : check'[j] = check[j]
  BY <1>2, <1>3 DEF Goes, IInv, PoolInv, Sound
<1>5. Holders' = Holders \ {i} /\ i \in Holders
  BY <1>1, <1>2, <1>4 DEF Holders, Holding
<1>6. Cardinality(Holders)' = Cardinality(Holders) - 1
  BY <1>5, HoldersFinite, FS_RemoveElement
<1>7. sem' = Cardinality(Holders)' /\ sem' \in 0..Concurrency
  <2>1. Cardinality(Holders) # 0
    BY <1>5, HoldersFinite, FS_EmptySet
  <2>2. QED
    BY <1>3, <1>6, <2>1, HoldersFinite, PoolAssumption DEF IInv, PoolInv
<1>8. PoolInv'
  BY <1>1, <1>2, <1>4, <1>7 DEF Release, IInv, PoolInv
<1>9. loop # "returned"
  BY <1>1 DEF IInv, ListInv, GroupDone
<1>10. ListInv'
  BY <1>1, <1>2, <1>4, <1>9 DEF Release, IInv, ListInv
<1>11. QED
  BY <1>8, <1>10 DEF IInv

LEMMA LeaveInv ==
    ASSUME IInv, NEW i \in Index, Leave(i)
    PROVE  IInv'
<1> DEFINE w == [check[i] EXCEPT !.phase = "over"]
<1>1. Sound(check[i], ctx) /\ ctx \in BOOLEAN /\ check[i].phase = "released"
  BY DEF IInv, PoolInv, Leave
<1>2. Sound(w, ctx) /\ w.phase = "over" /\ w.res = check[i].res
  BY <1>1, MovesOnSound DEF Concluded
<1>3. Goes(i, w) /\ OnlyCheck
  BY DEF Leave
<1>4. results[i] = check[i].res
  BY <1>1 DEF IInv, ListInv
<1> HIDE DEF w
<1>5. QED
  BY <1>1, <1>2, <1>3, <1>4, GoesOn DEF Holding

LEMMA NextInv ==
    ASSUME IInv, [Next]_vars
    PROVE  IInv'
<1>1. CASE Main
  BY <1>1, SpawnInv, LoopInv DEF Main
<1>2. CASE Signal
  BY <1>2, SignalInv
<1>3. ASSUME NEW i \in Index, Worker(i) PROVE IInv'
  BY <1>3, DialInv, BackoffInv, DiagnoseInv, StoreInv, ReleaseInv, LeaveInv DEF Worker
<1>4. CASE UNCHANGED vars
  BY <1>4 DEF vars, IInv, PoolInv, ListInv, Holders, GroupDone
<1>5. QED
  BY <1>1, <1>2, <1>3, <1>4 DEF Next

(* No more slots are held than there are. *)
LEMMA HoldsSlots ==
    ASSUME IInv
    PROVE  SlotsAreHeld
<1>1. Holders = {i \in Index : check[i].phase \notin {"idle", "released", "over"}}
  BY DEF IInv, PoolInv, Goroutine, Phase, Holders, Holding
<1>2. Connected \in SUBSET Holders
  BY DEF Connected, Holders, Holding
<1>3. Cardinality(Connected) <= Cardinality(Holders) /\ Cardinality(Connected) \in Nat
  BY <1>2, HoldersFinite, FS_Subset, FS_CardinalityType
<1>4. QED
  BY <1>1, <1>3, HoldersFinite, PoolAssumption DEF IInv, PoolInv, SlotsAreHeld

LEMMA Inductive == Spec => []IInv
<1>1. IInv /\ [Next]_vars => IInv'
  BY NextInv
<1>2. QED
  BY InitInv, <1>1, PTL DEF Spec

-------------------------------------------------------------------------------
(* Every variable of the pool keeps its type (main.go checkAll).           *)
THEOREM PoolTypeCorrect == Spec => []TypeOK
<1>1. IInv => TypeOK
  BY DEF IInv, PoolInv, ListInv, TypeOK, Goroutine
<1>2. QED
  BY <1>1, Inductive, PTL

(* The slots taken are those of the goroutines that have not given theirs  *)
(* back, and no more targets are connected to than there are slots (main.go *)
(* checkAll), for any list and any concurrency.                            *)
THEOREM NeverTooMany == Spec => []SlotsAreHeld
<1>1. IInv => SlotsAreHeld
  BY HoldsSlots
<1>2. QED
  BY <1>1, Inductive, PTL

(* Only what may pass is tried again, and the count reported is the number *)
(* of attempts (checker.go handshake), for any number of attempts.         *)
THEOREM RetriesAreJustified == Spec => []RetryPolicy
<1>1. IInv => RetryPolicy
  BY DEF IInv, PoolInv, RetryPolicy, Sound, Concluded, Counted, Last
<1>2. QED
  BY <1>1, Inductive, PTL

(* No unverified certificate makes a domain valid (checker.go CheckTarget), *)
(* whatever the diagnostic connection presents.                            *)
THEOREM NeverValidatedUnverified == Spec => []GoldenRule
<1>1. IInv => GoldenRule
  BY DEF IInv, PoolInv, GoldenRule, Sound, Concluded, Golden, Last
<1>2. QED
  BY <1>1, Inductive, PTL

(* After the signal no target is connected to more than once more, in      *)
(* whichever phase it fell.                                                *)
THEOREM SignalStops == Spec => []SignalStopsDialing
<1>1. IInv => SignalStopsDialing
  BY DEF IInv, PoolInv, SignalStopsDialing, Sound
<1>2. QED
  BY <1>1, Inductive, PTL

(* Only the return of the loop answers, and then for good: everyone it      *)
(* started is over, each with a final result, and has stored it.            *)
LEMMA ReturnAnswers ==
    ASSUME IInv, Return
    PROVE  Batch!Answer
<1>1. /\ loop = "waiting" /\ loop' = "returned" /\ GroupDone
      /\ UNCHANGED <<ctx, started, results>>
  BY DEF Return
<1>2. started \in 0..N /\ (started = N \/ ctx) /\ N \in Nat
  BY <1>1, PoolAssumption DEF IInv, PoolInv, ListInv
<1>3. ASSUME NEW i \in 1..started
      PROVE  results[i] \in Result /\ (results[i].error = "canceled" => ctx)
  <2>1. i \in Index /\ ~(i > started)
    BY <1>2, <1>3 DEF Index
  <2>2. check[i].phase = "over"
    BY <1>1, <2>1 DEF GroupDone, IInv, PoolInv
  <2>3. Counted(check[i], ctx) /\ results[i] = check[i].res
    BY <2>1, <2>2 DEF IInv, PoolInv, ListInv, Sound, Concluded
  <2>4. QED
    BY <2>3 DEF Counted
<1> DEFINE answer == [i \in 1..started |-> results[i]]
<1>4. answer \in [1..started -> Result]
  BY <1>3
<1>5. \A i \in 1..started : ctx \/ answer[i] \notin {r \in Result : r.error = "canceled"}
  BY <1>3
<1>6. started \in IF ctx THEN 0..N ELSE {N}
  BY <1>2
<1>7. (IF loop' = "returned" THEN [i \in 1..started' |-> results'[i]] ELSE <<>>) = answer
  BY <1>1
<1> HIDE DEF answer
<1>8. QED
  BY <1>1, <1>4, <1>5, <1>6, <1>7 DEF Batch!Answer

LEMMA WorkerIsSilent ==
    ASSUME IInv, NEW i \in Index, Worker(i)
    PROVE  UNCHANGED Batch!vars
<1>1. check[i].phase \notin {"idle", "over"}
  BY DEF Worker, DialSucceeds, DialFails, BackoffOver, BackoffCut, Diagnose,
         DiagnoseFails, Store, Release, Leave
<1>2. loop # "returned"
  BY <1>1 DEF IInv, ListInv, GroupDone
<1>3. ctx' = ctx /\ loop' = loop
  BY DEF Worker, OnlyCheck, DialSucceeds, DialFails, BackoffOver, BackoffCut, Diagnose,
         DiagnoseFails, Store, Release, Leave
<1>4. QED
  BY <1>2, <1>3 DEF Batch!vars

LEMMA BatchStep ==
    ASSUME IInv, [Next]_vars
    PROVE  [Batch!Next]_(Batch!vars)
<1>1. CASE Spawn \/ Cut \/ AllSpawned
  BY <1>1 DEF Spawn, Cut, AllSpawned, Batch!vars
<1>2. CASE Return
  BY <1>2, ReturnAnswers DEF Batch!Next
<1>3. CASE Signal
  <2>1. ctx' = TRUE /\ UNCHANGED <<loop, started, results>>
    BY <1>3 DEF Signal
  <2>2. Batch!Cancel
    BY <2>1 DEF Batch!Cancel
  <2>3. QED
    BY <2>2 DEF Batch!Next
<1>4. ASSUME NEW i \in Index, Worker(i) PROVE [Batch!Next]_(Batch!vars)
  BY <1>4, WorkerIsSilent
<1>5. CASE UNCHANGED vars
  BY <1>5 DEF vars, Batch!vars
<1>6. QED
  BY <1>1, <1>2, <1>3, <1>4, <1>5 DEF Next, Main

(* checkAll is a batch (main.go checkAll): asked once, it answers once, with *)
(* final results only, with one for every target unless the signal came,     *)
(* and none of them then blames a canceled context.  That it answers at all  *)
(* is liveness, the other half of ImplementsBatch.                           *)
THEOREM AnswersAsABatch == Spec => Batch!Safety
<1>1. Init => Batch!Init
  BY DEF Init, Batch!Init
<1>2. IInv /\ [Next]_vars => [Batch!Next]_(Batch!vars)
  BY BatchStep
<1>3. QED
  BY <1>1, <1>2, Inductive, PTL DEF Spec, Batch!Safety
===============================================================================
