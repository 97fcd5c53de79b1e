------------------------------- MODULE Settings -------------------------------
(***************************************************************************)
(* The configuration of pkg/config: built-in defaults, the file, the       *)
(* environment and the flags, layer upon layer, what Validate refuses and  *)
(* what pkg/checker makes of the result.                                   *)
(*                                                                         *)
(* A layer is a record with the fields it declares, and no others.  Names  *)
(* and URLs are abstracted to what Validate tells apart.  Durations are    *)
(* counted in half seconds, finer than timeout_seconds, in a word that     *)
(* wraps around.                                                           *)
(***************************************************************************)
EXTENDS Integers

CONSTANTS Word   \* number of values of a duration

ASSUME WordAssumption == Word \in Nat /\ Word > 0 /\ Word % 2 = 0

Second == 2
Hour   == 3600 * Second

Wrapped(x) == ((x + Word \div 2) % Word) - Word \div 2

\* The zero value of a string.
Unset == ""

\* Config, with SMTP flattened into it; smtpTo counts the recipients.
Default ==
    [alert |-> 15, critical |-> 7, timeout |-> 10, concurrency |-> 20, retries |-> 3,
     language |-> "en", dashboard |-> Unset, slack |-> Unset, state |-> "state.json",
     repeat |-> 24, smtp |-> FALSE, smtpHost |-> Unset, smtpPort |-> 587, smtpFrom |-> Unset,
     smtpTo |-> 0, smtpTLS |-> "starttls", timeoutOverride |-> 0, repeatOverride |-> -1]

\* An override is no field of the file.
FileField == DOMAIN Default \ {"timeoutOverride", "repeatOverride"}

EnvField == {"language", "dashboard", "slack"}

FlagField == {"timeoutOverride", "concurrency", "retries", "alert", "critical",
              "language", "dashboard", "state", "repeatOverride"}

Number == {"alert", "critical", "timeout", "concurrency", "retries", "repeat", "smtpPort",
           "smtpTo", "timeoutOverride", "repeatOverride"}

\* What a layer declares are some of these fields, of their types.
IsLayer(layer, fields) ==
    DOMAIN layer \subseteq fields /\ \A f \in DOMAIN layer \cap Number : layer[f] \in Int

(***************************************************************************)
(* The layers.                                                             *)
(***************************************************************************)

\* What the layer declares, and the rest as it was.
Over(layer, c) ==
    [f \in DOMAIN layer \cup DOMAIN c |-> IF f \in DOMAIN layer THEN layer[f] ELSE c[f]]

\* Mutated form: a file that cannot be used, left aside.
LoadsAnyway(file, explicit) == ~(file.is = "missing" /\ explicit)

\* A file is "missing", "unreadable", "broken" or "sound", and declares fields.
Loads(file, explicit) ==
    file.is = "sound" \/ (file.is = "missing" /\ ~explicit)

Load(file) == IF file.is = "sound" THEN Over(file.sets, Default) ELSE Default

\* A variable that is exported empty overrides nothing.
ApplyEnv(c, env) ==
    Over([f \in {g \in DOMAIN env : env[g] # Unset} |-> env[f]], c)

\* Mutated form: the flags' defaults in place of the ones not given.
applyFlagsAll(c, flags) ==
    Over(flags, Over([alert |-> 15, critical |-> 7, concurrency |-> 20, language |-> "en"], c))

\* Only the flags actually given.
applyFlags(c, flags) == Over(flags, c)

(***************************************************************************)
(* What they say.                                                          *)
(***************************************************************************)

Timeout(c) == IF c.timeoutOverride > 0 THEN c.timeoutOverride ELSE Wrapped(c.timeout * Second)

RepeatAfter(c) == IF c.repeatOverride >= 0 THEN c.repeatOverride ELSE Wrapped(c.repeat * Hour)

Unsupported == "unsupported"

\* i18n.Parse of a normalized name; "pt-PT" is as good as "pt".
Parse(name) ==
    CASE name \in {Unset, "en", "en-GB"}       -> "en"
      [] name \in {"pt", "pt-BR", "pt-PT"}  -> "pt-BR"
      [] OTHER                              -> Unsupported

\* Mutated form: the field looked at, and not the duration made of it.
BadTimeoutByField(c) == c.timeoutOverride = 0 /\ c.timeout <= 0

BadTimeout(c) == Timeout(c) <= 0

BadSMTP(c) ==
    \/ c.smtpHost = Unset
    \/ c.smtpPort \notin 1..65535
    \/ c.smtpFrom = Unset
    \/ c.smtpTo = 0
    \/ c.smtpTLS \notin {Unset, "starttls", "implicit", "none"}

Problem(c) ==
    [alert       |-> c.alert < 0,
     critical    |-> c.critical < 0,
     order       |-> c.critical > c.alert,
     timeout     |-> BadTimeout(c),
     concurrency |-> c.concurrency < 1,
     retries     |-> c.retries < 1,
     repeat      |-> RepeatAfter(c) < 0,
     language    |-> Parse(c.language) = Unsupported,
     dashboard   |-> c.dashboard \notin {Unset, "https://host"},
     smtp        |-> c.smtp /\ BadSMTP(c)]

Validate(c) == \A p \in DOMAIN Problem(c) : ~Problem(c)[p]

\* Options.normalized on what checkAll passes on.
normalized(c) ==
    [timeout  |-> IF Timeout(c) <= 0 THEN 10 * Second ELSE Timeout(c),
     retries  |-> IF c.retries < 1 THEN 3 ELSE c.retries,
     alert    |-> IF c.alert <= 0 THEN 15 ELSE c.alert,
     critical |-> IF c.critical <= 0 THEN 7 ELSE c.critical]
===============================================================================
