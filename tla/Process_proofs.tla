----------------------------- MODULE Process_proofs -----------------------------
(***************************************************************************)
(* Proofs about Process: for any arguments, environment, file and list,    *)
(* and any width of a duration.                                            *)
(***************************************************************************)
EXTENDS Process, RunLoop_proofs

-------------------------------------------------------------------------------
(* Lemmas about the layers and the durations.                              *)

LEMMA OverField ==
    ASSUME NEW layer, NEW c, NEW f \in DOMAIN c
    PROVE  /\ f \in DOMAIN Over(layer, c)
           /\ Over(layer, c)[f] = IF f \in DOMAIN layer THEN layer[f] ELSE c[f]
BY DEF Over

(* A number that fits its word is left as it is, any other is brought into it. *)
LEMMA WrappedFits ==
    ASSUME NEW x \in Int
    PROVE  Wrapped(x) \in Int /\ (Fits(x) => Wrapped(x) = x)
BY WordAssumption DEF Wrapped, Fits

LEMMA DefaultFields ==
    /\ FileField \subseteq DOMAIN Default
    /\ EnvField \subseteq DOMAIN Default
    /\ FlagField \subseteq DOMAIN Default
    /\ Number \subseteq DOMAIN Default
    /\ \A f \in Number : Default[f] \in Int
BY DEF FileField, EnvField, FlagField, Number, Default

\* The configuration as its layers make it.
Layers(a) == applyFlags(ApplyEnv(Load(a.file), a.env), a.flags)

LEMMA ScenarioType ==
    ASSUME NEW a \in Scenarios
    PROVE  /\ a.mode \in Modes /\ a.trouble \in Trouble
           /\ a.file.is \in {"missing", "unreadable", "broken", "sound"}
           /\ a.file.is # "sound" => DOMAIN a.file.sets = {}
           /\ IsLayer(a.file.sets, FileField)
           /\ IsLayer(a.env, EnvField) /\ IsLayer(a.flags, FlagField)
           /\ a.lines \in Seq(AnyLine)
BY ProcessAssumption

(* Each field has the value of the highest layer that gives it one. *)
LEMMA LayersField ==
    ASSUME NEW a \in Scenarios, NEW f \in DOMAIN Default
    PROVE  Layers(a)[f] =
             IF Given(a.flags, f) THEN a.flags[f]
             ELSE IF Given(a.env, f) /\ a.env[f] # Unset THEN a.env[f]
             ELSE IF Given(a.file.sets, f) THEN a.file.sets[f]
             ELSE Default[f]
<1> DEFINE exported == [g \in {h \in DOMAIN a.env : a.env[h] # Unset} |-> a.env[g]]
           c1 == Load(a.file)
           c2 == ApplyEnv(c1, a.env)
<1>1. /\ f \in DOMAIN c1
      /\ c1[f] = IF Given(a.file.sets, f) THEN a.file.sets[f] ELSE Default[f]
  <2>1. CASE a.file.is = "sound"
    BY <2>1, OverField DEF Load, Given
  <2>2. CASE a.file.is # "sound"
    <3>1. DOMAIN a.file.sets = {}
      BY <2>2, ScenarioType
    <3>2. QED
      BY <2>2, <3>1 DEF Load, Given
  <2>3. QED
    BY <2>1, <2>2
<1> HIDE DEF c1
<1>2. /\ f \in DOMAIN c2
      /\ c2[f] = IF Given(a.env, f) /\ a.env[f] # Unset THEN a.env[f] ELSE c1[f]
  <2>1. c2 = Over(exported, c1)
    BY DEF ApplyEnv
  <2>2. /\ f \in DOMAIN exported <=> Given(a.env, f) /\ a.env[f] # Unset
        /\ f \in DOMAIN exported => exported[f] = a.env[f]
    BY DEF Given
  <2> HIDE DEF exported, c2
  <2>3. f \in DOMAIN c2 /\ c2[f] = IF f \in DOMAIN exported THEN exported[f] ELSE c1[f]
    BY <1>1, <2>1, OverField
  <2>4. QED
    BY <2>2, <2>3
<1> HIDE DEF c2
<1>3. Layers(a) = Over(a.flags, c2)
  BY DEF Layers, applyFlags, c1, c2
<1>4. Layers(a)[f] = IF f \in DOMAIN a.flags THEN a.flags[f] ELSE c2[f]
  BY <1>2, <1>3, OverField
<1>5. QED
  BY <1>1, <1>2, <1>4 DEF Given

LEMMA LayersNumber ==
    ASSUME NEW a \in Scenarios, NEW f \in Number
    PROVE  Layers(a)[f] \in Int
<1>1. f \in DOMAIN Default /\ Default[f] \in Int
  BY DefaultFields
<1>2. /\ Given(a.flags, f) => a.flags[f] \in Int
      /\ Given(a.env, f) => a.env[f] \in Int
      /\ Given(a.file.sets, f) => a.file.sets[f] \in Int
  BY ScenarioType DEF Given, IsLayer
<1>3. QED
  BY <1>1, <1>2, LayersField

-------------------------------------------------------------------------------
(* Lemmas about the list of targets.                                       *)

(* A comment names no target. *)
LEMMA BlankIsMalformed == ParseTarget(Blank) = Malformed
<1>1. Blank.host = NoHost
  BY Zenon DEF Blank, Line
<1>2. HostOf(NoHost) = NoHost
  BY Zenon DEF HostOf, NoHost
<1>3. QED
  BY <1>1, <1>2 DEF ParseTarget

(* Two targets with one key are one. *)
LEMMA ParsedForms ==
    ASSUME NEW l
    PROVE  \/ ParseTarget(l) = Malformed
           \/ ParseTarget(l) = Target(HostOf(l.host), PortOf(l), Negotiation(l))
<1> DEFINE bad == HostOf(l.host) = NoHost \/ PortOf(l) \notin 1..65535
<1>1. ParseTarget(l) = IF bad THEN Malformed ELSE Target(HostOf(l.host), PortOf(l), Negotiation(l))
  BY DEF ParseTarget
<1> HIDE DEF bad
<1>2. QED
  BY <1>1

LEMMA KeyIsTarget ==
    ASSUME NEW l, NEW m, key(ParseTarget(l)) = key(ParseTarget(m))
    PROVE  ParseTarget(l) = ParseTarget(m)
<1>1. ASSUME NEW x
      PROVE  \E h, p, n : ParseTarget(x) = Target(h, p, n)
  BY ParsedForms DEF Malformed
<1>2. PICK h1, p1, n1 : ParseTarget(l) = Target(h1, p1, n1)
  BY <1>1
<1>3. PICK h2, p2, n2 : ParseTarget(m) = Target(h2, p2, n2)
  BY <1>1
<1>4. <<n1, <<h1, p1>>>> = <<n2, <<h2, p2>>>>
  BY <1>2, <1>3 DEF key, String, Target
<1>5. QED
  BY <1>2, <1>3, <1>4

(* A target asks the question of the line it is made of. *)
LEMMA AsksIt ==
    ASSUME NEW l, ParseTarget(l) # Malformed
    PROVE  Asks(ParseTarget(l), l)
<1>1. ParseTarget(l) = Target(HostOf(l.host), PortOf(l), Negotiation(l))
  BY ParsedForms
<1>2. l.port # 0 => PortOf(l) = l.port
  BY DEF PortOf
<1>3. l.scheme = "tls" => Negotiation(l) = StartTLSNone
  BY DEF Negotiation, schemes, Scheme
<1>4. l.scheme = "smtp" => Negotiation(l) = "smtp"
  BY DEF Negotiation, schemes, Scheme
<1>5. QED
  BY <1>1, <1>2, <1>3, <1>4 DEF Asks, Target

(* What is known of lines and the list l when n of them have been read. *)
Names(lines, targets, i, k) ==
    /\ ParseTarget(lines[i]) = targets[k]
    /\ \A m \in 1..i, j \in DOMAIN targets : ParseTarget(lines[m]) = targets[j] => j <= k

ReadSoFar(lines, n, l) ==
    /\ l \in [targets : Seq({ParseTarget(line) : line \in AnyLine}), problems : Nat]
    /\ \A i \in 1..n :
          \/ lines[i] = Blank
          \/ ParseTarget(lines[i]) = Malformed /\ l.problems > 0
          \/ ParseTarget(lines[i]) # Malformed /\ Listed(l.targets, ParseTarget(lines[i]))
    /\ \A k \in DOMAIN l.targets : \E i \in 1..n : Names(lines, l.targets, i, k)

LEMMA NothingRead ==
    ASSUME NEW lines
    PROVE  ReadSoFar(lines, 0, NoList)
<1>1. <<>> \in Seq({ParseTarget(line) : line \in AnyLine}) /\ DOMAIN <<>> = {}
  OBVIOUS
<1>2. /\ NoList \in [targets : Seq({ParseTarget(line) : line \in AnyLine}), problems : Nat]
      /\ NoList.targets = <<>>
  BY <1>1 DEF NoList
<1>3. QED
  BY <1>1, <1>2 DEF ReadSoFar

(* One turn of the scanner. *)
LEMMA OneLineMore ==
    ASSUME NEW lines \in Seq(AnyLine), NEW n \in Nat, n < Len(lines), NEW l,
           ReadSoFar(lines, n, l)
    PROVE  ReadSoFar(lines, n + 1, ParseLine(l, lines[n + 1]))
<1> DEFINE line == lines[n + 1]
           target == ParseTarget(line)
           new == ParseLine(l, line)
           S == {ParseTarget(x) : x \in AnyLine}
<1>0. line \in AnyLine /\ target \in S
  OBVIOUS
<1>1. l \in [targets : Seq(S), problems : Nat]
  BY DEF ReadSoFar
<1>2. \A i \in 1..(n + 1) : i \in 1..n \/ i = n + 1
  OBVIOUS
<1>3. \A i \in 1..n :
          \/ lines[i] = Blank
          \/ ParseTarget(lines[i]) = Malformed /\ l.problems > 0
          \/ ParseTarget(lines[i]) # Malformed /\ Listed(l.targets, ParseTarget(lines[i]))
  BY DEF ReadSoFar
<1>4. \A k \in DOMAIN l.targets : \E i \in 1..n : Names(lines, l.targets, i, k)
  BY DEF ReadSoFar
<1>5. ASSUME new.targets = l.targets
      PROVE  \A k \in DOMAIN new.targets : \E i \in 1..(n + 1) : Names(lines, new.targets, i, k)
  BY <1>4, <1>5
<1> HIDE DEF S
<1>6. CASE line = Blank
  <2>1. new = l
    BY <1>6 DEF ParseLine
  <2> HIDE DEF new
  <2>2. QED
    BY <1>1, <1>2, <1>3, <1>5, <1>6, <2>1 DEF ReadSoFar, S, line, new
<1>7. CASE line # Blank /\ target = Malformed
  <2>1. new = [targets |-> l.targets, problems |-> l.problems + 1]
    BY <1>1, <1>7 DEF ParseLine
  <2>2. new \in [targets : Seq(S), problems : Nat] /\ new.targets = l.targets /\ new.problems > 0
    BY <1>1, <2>1
  <2> HIDE DEF new
  <2>3. QED
    BY <1>2, <1>3, <1>5, <1>7, <2>2 DEF ReadSoFar, S, line, new, target
<1>8. CASE line # Blank /\ target # Malformed /\ Listed(l.targets, target)
  <2>1. new = l
    BY <1>8 DEF ParseLine
  <2> HIDE DEF new
  <2>2. QED
    BY <1>1, <1>2, <1>3, <1>5, <1>8, <2>1 DEF ReadSoFar, S, line, new, target
<1>9. CASE line # Blank /\ target # Malformed /\ ~Listed(l.targets, target)
  <2> DEFINE K == Len(l.targets)
             longer == Append(l.targets, target)
  <2>1. new = [targets |-> longer, problems |-> l.problems]
    BY <1>1, <1>9 DEF ParseLine
  <2>2. /\ longer \in Seq(S) /\ K \in Nat /\ DOMAIN longer = 1..(K + 1) /\ DOMAIN l.targets = 1..K
        /\ longer[K + 1] = target
        /\ \A k \in 1..K : longer[k] = l.targets[k]
    <3>1. l.targets \in Seq(S) /\ target \in S
      BY <1>0, <1>1
    <3> HIDE DEF target
    <3>2. QED
      BY <3>1
  <2>3. new \in [targets : Seq(S), problems : Nat] /\ new.targets = longer /\ new.problems = l.problems
    BY <1>1, <2>1, <2>2
  <2> HIDE DEF longer, new, target, K
  <2>4. ASSUME NEW t, Listed(l.targets, t)
        PROVE  Listed(longer, t)
    <3>1. PICK j \in 1..K : key(l.targets[j]) = key(t)
      BY <2>2, <2>4 DEF Listed
    <3>2. j \in DOMAIN longer /\ longer[j] = l.targets[j]
      BY <2>2
    <3>3. QED
      BY <3>1, <3>2 DEF Listed
  <2>5. Listed(longer, target)
    <3>1. K + 1 \in DOMAIN longer
      BY <2>2
    <3>2. QED
      BY <2>2, <3>1 DEF Listed
  <2>6. \A i \in 1..(n + 1) :
          \/ lines[i] = Blank
          \/ ParseTarget(lines[i]) = Malformed /\ new.problems > 0
          \/ ParseTarget(lines[i]) # Malformed /\ Listed(new.targets, ParseTarget(lines[i]))
    <3> SUFFICES ASSUME NEW i \in 1..(n + 1), lines[i] # Blank
                 PROVE  \/ ParseTarget(lines[i]) = Malformed /\ new.problems > 0
                        \/ ParseTarget(lines[i]) # Malformed /\ Listed(new.targets, ParseTarget(lines[i]))
      OBVIOUS
    <3>1. CASE i = n + 1
      BY <1>9, <2>3, <2>5, <3>1 DEF target
    <3>2. CASE i \in 1..n
      BY <1>3, <2>3, <2>4, <3>2
    <3>3. QED
      BY <1>2, <3>1, <3>2
  <2>7. ASSUME NEW i \in 1..n PROVE ParseTarget(lines[i]) # target
    <3>1. CASE lines[i] = Blank
      BY <1>9, <3>1, BlankIsMalformed
    <3>2. CASE lines[i] # Blank
      BY <1>3, <1>9, <3>2
    <3>3. QED
      BY <3>1, <3>2
  <2>8. ASSUME NEW k \in 1..K
        PROVE  \E i \in 1..(n + 1) : Names(lines, longer, i, k)
    <3>1. PICK i \in 1..n : Names(lines, l.targets, i, k)
      BY <1>4, <2>2
    <3>2. ASSUME NEW m \in 1..i, NEW j \in DOMAIN longer, ParseTarget(lines[m]) = longer[j]
          PROVE  j <= k
      <4>1. m \in 1..n
        OBVIOUS
      <4>2. j # K + 1
        BY <2>2, <2>7, <3>2, <4>1
      <4>3. j \in 1..K
        BY <2>2, <4>2
      <4>4. QED
        BY <2>2, <3>1, <3>2, <4>3 DEF Names
    <3>3. ParseTarget(lines[i]) = longer[k]
      BY <2>2, <3>1 DEF Names
    <3>4. Names(lines, longer, i, k)
      BY <3>2, <3>3 DEF Names
    <3>5. QED
      BY <3>4
  <2>9. Names(lines, longer, n + 1, K + 1)
    BY <2>2 DEF Names, target, line
  <2>10. \A k \in DOMAIN longer : \E i \in 1..(n + 1) : Names(lines, longer, i, k)
    <3> SUFFICES ASSUME NEW k \in DOMAIN longer
                 PROVE  \E i \in 1..(n + 1) : Names(lines, longer, i, k)
      OBVIOUS
    <3>1. k \in 1..K \/ k = K + 1
      BY <2>2
    <3>2. n + 1 \in 1..(n + 1)
      OBVIOUS
    <3>3. QED
      BY <2>8, <2>9, <3>1, <3>2
  <2>11. ReadSoFar(lines, n + 1, new)
    BY <2>3, <2>6, <2>10 DEF ReadSoFar, S
  <2>12. QED
    BY <2>11 DEF new, line
<1>10. QED
  BY <1>6, <1>7, <1>8, <1>9

-------------------------------------------------------------------------------
(* The inductive invariant: how far the start has come says what has been  *)
(* checked, and what runs has passed it all.                               *)

StartLabel == {"args", "load", "override", "validate", "list", "listen", "over"}

StartInv ==
    /\ asked \in Scenarios
    /\ step \in StartLabel
    /\ main = "starting" <=> step # "over"
    /\ step # "args" /\ main # "refused" => asked.trouble \notin {"usage", "help"}
    /\ step \notin {"args", "load"} /\ main # "refused" => Loads(asked.file, asked.explicit)
    /\ step = "override" => cfg = Load(asked.file)
    /\ step \notin {"args", "load", "override"} /\ main # "refused" => cfg = Layers(asked)
    /\ step \in {"list", "listen", "over"} /\ main # "refused" =>
         Validate(cfg) /\ asked.trouble \notin {"failOn", "interval"}
    /\ lineNo \in 0..Len(asked.lines)
    /\ ReadSoFar(asked.lines, lineNo, list)
    /\ step \in {"listen", "over"} /\ main # "refused" =>
         asked.trouble # "domains" /\ lineNo = Len(asked.lines) /\ list.problems = 0

(* Once it runs it keeps running, and what was refused does nothing. *)
LEMMA NextStarted ==
    ASSUME main # "starting", Next
    PROVE  main' # "starting" /\ (main = "refused" <=> main' = "refused")
<1>1. CASE Begin \/ Refuse
  BY <1>1 DEF Begin, Refuse
<1>2. CASE Check \/ Interrupted \/ Publish \/ PublishFails \/ Decide
  BY <1>2 DEF Check, Interrupted, Publish, PublishFails, Decide
<1>3. CASE IntervalOver \/ Stop \/ StopServing \/ ServerEnded \/ GiveUpOnServer
  BY <1>3 DEF IntervalOver, Stop, StopServing, ServerEnded, GiveUpOnServer
<1>4. CASE RunDeferred(1) \/ RunDeferred(2)
  BY <1>4 DEF RunDeferred
<1>5. CASE Server \/ ServerFails \/ Accept \/ Answer \/ GraceOver \/ Signal
  BY <1>5 DEF Server, ServerCloses, ServerFails, ServerReports, Accept, Answer, GraceOver, Signal
<1>6. QED
  BY <1>1, <1>2, <1>3, <1>4, <1>5 DEF Next, Main

LEMMA StartInit == ProcessInit => StartInv
<1> SUFFICES ASSUME ProcessInit PROVE StartInv
  OBVIOUS
<1>1. lineNo \in 0..Len(asked.lines) /\ ReadSoFar(asked.lines, lineNo, list)
  BY NothingRead, ScenarioType DEF ProcessInit
<1>2. QED
  BY <1>1 DEF ProcessInit, Init, StartInv, StartLabel

LEMMA StartStep ==
    ASSUME StartInv, [ProcessNext]_everything
    PROVE  StartInv'
<1> USE DEF StartInv, StartLabel
<1>1. CASE ParseArgs
  BY <1>1 DEF ParseArgs, Proceed, Refuse, vars
<1>2. CASE Tell
  BY <1>2 DEF Tell
<1>3. CASE LoadConfig
  BY <1>3 DEF LoadConfig, Proceed, Refuse, vars
<1>4. CASE Override
  BY <1>4 DEF Override, Proceed, Refuse, vars, Layers
<1>5. CASE ValidateConfig
  BY <1>5 DEF ValidateConfig, Proceed, Refuse, vars
<1>6. CASE LoadTargets
  BY <1>6 DEF LoadTargets, Proceed, Refuse, vars
<1>7. CASE ScanLine
  <2>1. asked.lines \in Seq(AnyLine) /\ lineNo \in Nat /\ lineNo < Len(asked.lines)
    BY <1>7, ScenarioType DEF ScanLine
  <2>2. ReadSoFar(asked.lines, lineNo + 1, ParseLine(list, asked.lines[lineNo + 1]))
    BY <2>1, OneLineMore
  <2>3. lineNo + 1 \in 0..Len(asked.lines)
    BY <2>1
  <2>4. QED
    BY <1>7, <2>2, <2>3 DEF ScanLine, vars
<1>8. CASE Listen
  BY <1>8 DEF Listen, Refuse, Begin
<1>9. CASE Running
  BY <1>9, NextStarted DEF Running, own
<1>10. CASE UNCHANGED everything
  BY <1>10 DEF everything, own, vars
<1>11. QED
  BY <1>1, <1>2, <1>3, <1>4, <1>5, <1>6, <1>7, <1>8, <1>9, <1>10 DEF ProcessNext, Startup

LEMMA StartHolds == ProcessSpec => []StartInv
<1>1. StartInv /\ [ProcessNext]_everything => StartInv'
  BY StartStep
<1>2. QED
  BY <1>1, StartInit, PTL DEF ProcessSpec

-------------------------------------------------------------------------------
(* The theorems.                                                           *)

(* An explicit flag beats the environment, which beats the file, which beats   *)
(* the default, in every setting and for every process that runs (config.go    *)
(* Load, ApplyEnv, main.go run).                                               *)
THEOREM TheHighestLayerWins == ProcessSpec => []FlagsWin
<1>1. StartInv => FlagsWin
  <2> SUFFICES ASSUME StartInv, Started, NEW f \in DOMAIN Default
               PROVE  cfg[f] = IF Given(asked.flags, f) THEN asked.flags[f]
                               ELSE IF Given(asked.env, f) /\ asked.env[f] # Unset THEN asked.env[f]
                               ELSE IF Given(asked.file.sets, f) THEN asked.file.sets[f]
                               ELSE Default[f]
    BY DEF FlagsWin
  <2>1. cfg = Layers(asked) /\ asked \in Scenarios
    BY DEF StartInv, Started
  <2>2. QED
    BY <2>1, LayersField
<1>2. QED
  BY <1>1, StartHolds, PTL

(* Nothing runs on a file that was there and could not be used, or on one that *)
(* was asked for by name and is not there (config.go Load), nor on a list of   *)
(* whatever length with a malformed line in it (target.go LoadTargets).        *)
THEOREM NothingBrokenRuns == ProcessSpec => []BrokenNeverRuns
<1>1. ASSUME StartInv, Started
      PROVE  /\ asked.file.is \in {"missing", "sound"}
             /\ asked.explicit => asked.file.is = "sound"
             /\ asked.trouble \in {Unset, "port"}
  <2>1. /\ Loads(asked.file, asked.explicit)
        /\ asked.trouble \notin {"usage", "help", "failOn", "interval", "domains"}
        /\ asked.trouble \in Trouble
    BY <1>1, ScenarioType DEF StartInv, Started
  <2>2. QED
    BY <2>1 DEF Loads, Trouble
<1>2. ASSUME StartInv, Started, NEW i \in DOMAIN asked.lines
      PROVE  asked.lines[i] = Blank \/ ParseTarget(asked.lines[i]) # Malformed
  <2>1. i \in 1..lineNo /\ ReadSoFar(asked.lines, lineNo, list) /\ list.problems = 0
    BY <1>2, ScenarioType DEF StartInv, Started
  <2>2. QED
    BY <2>1 DEF ReadSoFar
<1>3. StartInv => BrokenNeverRuns
  BY <1>1, <1>2 DEF BrokenNeverRuns, ConfigWasSound
<1>4. QED
  BY <1>3, StartHolds, PTL

(* Of a list of whatever length every line's question is asked, once, and no   *)
(* other, in the order of the list (target.go ParseTargetList, key).           *)
THEOREM NoLineIsLost == ProcessSpec => []EveryLineIsAsked
<1>1. ASSUME StartInv, Started
      PROVE  /\ asked.lines \in Seq(AnyLine) /\ DOMAIN asked.lines = 1..lineNo
             /\ ReadSoFar(asked.lines, lineNo, list) /\ list.problems = 0
             /\ list.targets \in Seq({ParseTarget(line) : line \in AnyLine})
  BY <1>1, ScenarioType DEF StartInv, Started, ReadSoFar
<1>2. ASSUME StartInv, Started, NEW i \in DOMAIN asked.lines, asked.lines[i] # Blank
      PROVE  \E k \in DOMAIN list.targets : Asks(list.targets[k], asked.lines[i])
  <2>1. /\ ParseTarget(asked.lines[i]) # Malformed
        /\ Listed(list.targets, ParseTarget(asked.lines[i]))
    <3>1. i \in 1..lineNo /\ ReadSoFar(asked.lines, lineNo, list) /\ list.problems = 0
      BY <1>1, <1>2
    <3>2. QED
      BY <1>2, <3>1 DEF ReadSoFar
  <2>2. PICK k \in DOMAIN list.targets : key(list.targets[k]) = key(ParseTarget(asked.lines[i]))
    BY <2>1 DEF Listed
  <2>3. PICK line \in AnyLine : list.targets[k] = ParseTarget(line)
    BY <1>1, <1>2
  <2>4. list.targets[k] = ParseTarget(asked.lines[i])
    BY <2>2, <2>3, KeyIsTarget
  <2>5. QED
    BY <2>1, <2>4, AsksIt
<1>3. ASSUME StartInv, Started, NEW k \in DOMAIN list.targets
      PROVE  \E i \in DOMAIN asked.lines : Names(asked.lines, list.targets, i, k)
  BY <1>1, <1>3 DEF ReadSoFar
<1>4. StartInv => EveryLineIsAsked
  BY <1>2, <1>3 DEF EveryLineIsAsked, Names
<1>5. QED
  BY <1>4, StartHolds, PTL

(* However wide a duration is and whatever number stands in the file: the      *)
(* deadline of a connection is the configured one and not a default in place   *)
(* of one that has passed, no quiet period is negative, and a number that fits *)
(* is the duration it says (config.go Validate, Timeout, RepeatAfter;          *)
(* checker.go normalized).                                                     *)
THEOREM NoDurationIsLost == ProcessSpec => []DurationsAreSound
<1>1. ASSUME StartInv, Started
      PROVE  /\ normalized(cfg).timeout = Timeout(cfg)
             /\ normalized(cfg).retries = cfg.retries
             /\ RepeatAfter(cfg) >= 0
             /\ cfg.timeoutOverride > 0 => normalized(cfg).timeout = cfg.timeoutOverride
             /\ cfg.timeoutOverride <= 0 /\ Fits(cfg.timeout * Second) =>
                   normalized(cfg).timeout = cfg.timeout * Second
             /\ cfg.repeatOverride < 0 /\ Fits(cfg.repeat * Hour) =>
                   RepeatAfter(cfg) = cfg.repeat * Hour
  <2>1. cfg = Layers(asked) /\ asked \in Scenarios /\ Validate(cfg)
    BY <1>1 DEF StartInv, Started
  <2>2. /\ cfg.timeout \in Int /\ cfg.repeat \in Int
        /\ cfg.timeoutOverride \in Int /\ cfg.repeatOverride \in Int
    BY <2>1, LayersNumber DEF Number
  <2>3. cfg.timeout * Second \in Int /\ cfg.repeat * Hour \in Int
    BY <2>2 DEF Second, Hour
  <2>4. Timeout(cfg) \in Int /\ RepeatAfter(cfg) \in Int
    BY <2>2, <2>3, WrappedFits DEF Timeout, RepeatAfter
  <2>5. ~(Timeout(cfg) <= 0) /\ ~(RepeatAfter(cfg) < 0) /\ ~(cfg.retries < 1)
    BY <2>1 DEF Validate, Problem, BadTimeout
  <2>6. normalized(cfg).timeout = Timeout(cfg) /\ normalized(cfg).retries = cfg.retries
    BY <2>5 DEF normalized
  <2>7. QED
    BY <2>2, <2>3, <2>4, <2>5, <2>6, WrappedFits DEF Timeout, RepeatAfter
<1>2. StartInv => DurationsAreSound
  BY <1>1 DEF DurationsAreSound
<1>3. QED
  BY <1>2, StartHolds, PTL

(* What RunLoop promises of a process holds of one that starts with its        *)
(* arguments, too: its types, its results, its stay and its exit code.         *)
THEOREM WholeLife ==
    ProcessSpec => [](TypeOK /\ ReportIsNeverGarbled /\ IntervalStaysUp /\ LostServerIsAnError)
<1>1. ProcessInit => RInv
  BY InitInv DEF ProcessInit
<1>2. ASSUME RInv, StartInv, Tell
      PROVE  RInv'
  <2>1. main = "starting"
    BY <1>2 DEF Tell, StartInv
  <2>2. /\ main' = "refused" /\ code' = 0
        /\ UNCHANGED <<mode, ctx, signalled, held, worst, found, report,
                      http, outcome, serverError, request, grace>>
    BY <1>2 DEF Tell, verdict, server
  <2>3. TypeOK'
    BY <1>2, <2>2 DEF RInv, TypeOK, Label
  <2>4. ContextInv' /\ ReportInv'
    BY <1>2, <2>1, <2>2 DEF RInv, ContextInv, ReportInv
  <2>5. ServerInv' /\ LeaveInv'
    BY <1>2, <2>1, <2>2 DEF RInv, ServerInv, LeaveInv, Gone
  <2>6. QED
    BY <2>3, <2>4, <2>5 DEF RInv
<1>3. ASSUME RInv, StartInv, [ProcessNext]_everything
      PROVE  RInv'
  <2>1. Tell \/ [Next]_vars
    BY <1>3 DEF ProcessNext, Startup, Running, everything, ParseArgs, LoadConfig, Override,
       ValidateConfig, ScanLine, LoadTargets, Listen, Proceed, Next, Main
  <2>2. CASE [Next]_vars
    BY <1>3, <2>2, TypeInv, ContextKept, ReportKept, ServerKept, LeaveKept DEF RInv
  <2>3. QED
    BY <1>2, <1>3, <2>1, <2>2
<1>4. RInv => TypeOK /\ ReportIsNeverGarbled /\ IntervalStaysUp /\ LostServerIsAnError
  BY DEF RInv, ReportInv, LeaveInv, ServerInv, Gone, ReportIsNeverGarbled, IntervalStaysUp,
     LostServerIsAnError, Lost
<1>5. RInv /\ StartInv /\ [ProcessNext]_everything => RInv'
  BY <1>3
<1>6. QED
  BY <1>1, <1>4, <1>5, StartHolds, PTL DEF ProcessSpec
===============================================================================
