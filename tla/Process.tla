-------------------------------- MODULE Process --------------------------------
(***************************************************************************)
(* run of cmd/sslscout from its first line: the configuration is put       *)
(* together from its layers, checked, the list read and the port bound.    *)
(* Only then does the life of RunLoop begin; up to there every error is an *)
(* exit, with nothing to clean up.                                         *)
(***************************************************************************)
EXTENDS RunLoop, Settings, TargetList

CONSTANTS Scenarios   \* what the process may be started with

\* What stands in the way of the start, besides the file and the list.
Trouble == {Unset, "usage", "help", "failOn", "interval", "domains", "port"}

ASSUME ProcessAssumption ==
    \A a \in Scenarios :
        /\ a.mode \in Modes
        /\ a.trouble \in Trouble
        /\ a.explicit \in BOOLEAN
        /\ a.file.is \in {"missing", "unreadable", "broken", "sound"}
        /\ a.file.is # "sound" => DOMAIN a.file.sets = {}
        /\ IsLayer(a.file.sets, FileField)
        /\ IsLayer(a.env, EnvField)
        /\ IsLayer(a.flags, FlagField)
        /\ a.lines \in Seq(AnyLine)

VARIABLES
    asked,     \* arguments, files and environment of this process
    step,      \* how far the start has come
    cfg,       \* the configuration
    lineNo,    \* lines of the list read
    list       \* what they have made: targets and problems

own == <<asked, step, cfg, lineNo, list>>

everything == <<vars, own>>

ProcessInit ==
    /\ Init
    /\ asked \in Scenarios
    /\ mode = asked.mode
    /\ step = "args"
    /\ cfg = Default
    /\ lineNo = 0
    /\ list = NoList

\* From one step to the next, or out.
Proceed(from, to, ok) ==
    /\ step = from
    /\ \/ ok  /\ step' = to     /\ UNCHANGED vars
       \/ ~ok /\ step' = "over" /\ Refuse

ParseArgs ==
    /\ Proceed("args", "load", asked.trouble # "usage")
    /\ asked.trouble # "help"
    /\ UNCHANGED <<asked, cfg, lineNo, list>>

\* -help and -version.
Tell ==
    /\ step = "args"
    /\ asked.trouble = "help"
    /\ step' = "over"
    /\ main' = "refused"
    /\ code' = 0
    /\ UNCHANGED <<mode, ctx, signalled, verdict, server, asked, cfg, lineNo, list>>

LoadConfig ==
    /\ Proceed("load", "override", Loads(asked.file, asked.explicit))
    /\ cfg' = Load(asked.file)
    /\ UNCHANGED <<asked, lineNo, list>>

Override ==
    /\ Proceed("override", "validate", TRUE)
    /\ cfg' = applyFlags(ApplyEnv(cfg, asked.env), asked.flags)
    /\ UNCHANGED <<asked, lineNo, list>>

ValidateConfig ==
    /\ Proceed("validate", "list", Validate(cfg) /\ asked.trouble \notin {"failOn", "interval"})
    /\ UNCHANGED <<asked, cfg, lineNo, list>>

\* One turn of the scanner.
ScanLine ==
    /\ step = "list"
    /\ lineNo < Len(asked.lines)
    /\ lineNo' = lineNo + 1
    /\ list' = ParseLine(list, asked.lines[lineNo + 1])
    /\ UNCHANGED <<vars, asked, step, cfg>>

\* A malformed line, a list that cannot be opened or read to its end, one with
\* nothing in it.
LoadTargets ==
    /\ lineNo = Len(asked.lines) \/ asked.trouble = "domains"
    /\ Proceed("list", "listen", /\ asked.trouble # "domains"
                                 /\ list.problems = 0
                                 /\ list.targets # <<>>)
    /\ UNCHANGED <<asked, cfg, lineNo, list>>

Listen ==
    /\ step = "listen"
    /\ step' = "over"
    /\ IF mode.serve /\ asked.trouble = "port" THEN Refuse ELSE Begin
    /\ UNCHANGED <<asked, cfg, lineNo, list>>

Startup ==
    \/ ParseArgs \/ Tell \/ LoadConfig \/ Override \/ ValidateConfig
    \/ ScanLine \/ LoadTargets \/ Listen

Running == main # "starting" /\ Next /\ UNCHANGED own

ProcessNext == Startup \/ Running

ProcessSpec == ProcessInit /\ [][ProcessNext]_everything

\* The start is straight-line code.
ProcessFairSpec == ProcessSpec /\ WF_everything(Startup) /\ Fairness
-------------------------------------------------------------------------------
(***************************************************************************)
(* Properties.                                                             *)
(***************************************************************************)

Started == main \notin {"starting", "refused"}

Given(layer, field) == field \in DOMAIN layer

\* An explicit flag beats the environment, which beats the file, which beats the
\* default (README), for every setting a process runs with.
FlagsWin ==
    Started =>
        \A f \in DOMAIN Default :
            cfg[f] = IF Given(asked.flags, f) THEN asked.flags[f]
                     ELSE IF Given(asked.env, f) /\ asked.env[f] # Unset THEN asked.env[f]
                     ELSE IF Given(asked.file.sets, f) THEN asked.file.sets[f]
                     ELSE Default[f]

ConfigWasSound ==
    Started =>
        /\ asked.file.is \in {"missing", "sound"}
        /\ asked.explicit => asked.file.is = "sound"
        /\ asked.trouble \in {Unset, "port"}

\* "A broken config must NEVER silently turn into a zeroed one" (config.go
\* Load), nor a broken list into a shorter one: nothing starts on top of either.
BrokenNeverRuns ==
    /\ ConfigWasSound
    /\ Started =>
        \A i \in DOMAIN asked.lines :
              asked.lines[i] = Blank \/ ParseTarget(asked.lines[i]) # Malformed

Fits(x) == x \in -(Word \div 2)..(Word \div 2 - 1)

\* Whatever the multiplication made of the number in the file: no deadline has
\* passed before it is set, for normalized to put a default in its place, and no
\* quiet period is negative; a number that fits is the duration it says.  (One
\* that does not may come out positive.)
DurationsAreSound ==
    Started =>
        /\ normalized(cfg).timeout = Timeout(cfg)
        /\ normalized(cfg).retries = cfg.retries
        /\ RepeatAfter(cfg) >= 0
        /\ cfg.timeoutOverride > 0 => normalized(cfg).timeout = cfg.timeoutOverride
        /\ cfg.timeoutOverride <= 0 /\ Fits(cfg.timeout * Second) =>
              normalized(cfg).timeout = cfg.timeout * Second
        /\ cfg.repeatOverride < 0 /\ Fits(cfg.repeat * Hour) =>
              RepeatAfter(cfg) = cfg.repeat * Hour

\* Does target t ask what line l wants to know?  An explicit scheme is obeyed on
\* any port.
Asks(t, l) ==
    /\ t.host = HostOf(l.host)
    /\ l.port # 0 => t.port = l.port
    /\ l.scheme = "tls" => t.startTLS = StartTLSNone
    /\ l.scheme = "smtp" => t.startTLS = "smtp"

\* Every line's question is asked, once, and no other, in the order of the list
\* (target.go ParseTargetList): two lines that ask one host and port two
\* different questions stay two targets (key), and each target comes from a line
\* up to which no later target was named.
EveryLineIsAsked ==
    Started =>
        /\ \A i \in DOMAIN asked.lines :
              asked.lines[i] = Blank \/ \E k \in DOMAIN list.targets : Asks(list.targets[k], asked.lines[i])
        /\ \A k \in DOMAIN list.targets : \E i \in DOMAIN asked.lines :
              /\ ParseTarget(asked.lines[i]) = list.targets[k]
              /\ \A m \in 1..i, j \in DOMAIN list.targets :
                    ParseTarget(asked.lines[m]) = list.targets[j] => j <= k

\* The report shows "the threshold used in this run" (README).
ThresholdsAsReported ==
    Started =>
        /\ normalized(cfg).alert = cfg.alert
        /\ normalized(cfg).critical = cfg.critical
===============================================================================
