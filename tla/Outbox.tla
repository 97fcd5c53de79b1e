-------------------------------- MODULE Outbox --------------------------------
(***************************************************************************)
(* What one cycle puts out once its results are in: the report, a message  *)
(* to the webhook, a mail, the history; down to the steps on the disk and  *)
(* the commands of the mail session.  Several processes share the files;   *)
(* any of them may be killed, and the machine may lose power.              *)
(*                                                                         *)
(* A text is a set of problems, named by their status: the report shows    *)
(* those of the run, the history those already announced.  (AlertCycle has *)
(* the rules of the history; here a problem is news when it is not in it.) *)
(***************************************************************************)
EXTENDS AtomicFile, MailSession

CONSTANTS
    Processes,
    MaxRuns,      \* cycles of one process
    Batches,      \* problems a cycle may find
    Mails,        \* how mail may be configured
    Faults        \* what may go wrong in this instance

Problem == {"error", "expired", "invalid", "critical", "warning"}

Fault == {"disk", "crash", "power", "hook", "mail"}

ASSUME OutboxAssumption ==
    /\ Paths = {"report", "history"}
    /\ Parts \in Nat \ {0}
    /\ Batches \in SUBSET (SUBSET Problem)
    /\ Mails \in SUBSET MailConfig
    /\ Recipients # {} /\ IsFiniteSet(Recipients) /\ "hook" \notin Recipients
    /\ MaxRuns \in Nat \ {0}
    /\ Faults \in SUBSET Fault

VARIABLES
    mail,    \* config.SMTP
    disk,    \* name -> file
    past,    \* path -> files it once had, which a power failure may restore
    job,     \* process -> where its cycle is
    heard    \* <<receiver, problem>>: what was delivered

vars == <<mail, disk, past, job, heard>>

Receivers == Recipients \cup {"hook"}

Names == {Published(path) : path \in Paths} \cup {TempShared(path, "any", 0) : path \in Paths}
           \cup {<<path, p, n>> : path \in Paths, p \in Processes, n \in 1..MaxRuns}

\* at: what the process is doing; step: of the file it writes; known: the
\* history it loaded; failed: a channel failed; revealed: what its mail session
\* has said in the clear.
Job(at, n) == [at |-> at, n |-> n, batch |-> {}, step |-> 1, known |-> {},
   session |-> NewSession, revealed |-> {}, failed |-> FALSE]

Init ==
    /\ mail \in Mails
    /\ disk = [name \in Names |->
                 IF name \in {Published(path) : path \in Paths} THEN File({}, Parts, Parts)
                                                               ELSE NoFile]
    /\ past = [path \in Paths |-> {}]
    /\ job = [p \in Processes |-> Job("off", 0)]
    /\ heard = {}

(***************************************************************************)
(* What a cycle says.                                                      *)
(***************************************************************************)

\* Mutated form: a status the channels do not know.
groupOrderShort(b) == b \ {"warning"}

\* BuildGroups: the statuses that get a block of their own in a message.
groupOrder(b) == b

Pending(j) == j.batch \ j.known

Message(j) == groupOrder(Pending(j))

\* Record and Sync.
Remembered(j) == (j.known \cap j.batch) \cup (IF j.failed THEN {} ELSE Pending(j))

TextOf(j) == IF j.at = "report" THEN j.batch ELSE Remembered(j)

-------------------------------------------------------------------------------
(***************************************************************************)
(* Files.                                                                  *)
(***************************************************************************)

Start(p) ==
    /\ job[p].at \in {"off", "ended"}
    /\ job[p].n < MaxRuns
    /\ \E batch \in Batches :
         job' = [job EXCEPT ![p] = [Job("report", @.n + 1) EXCEPT !.batch = batch]]
    /\ UNCHANGED <<mail, disk, past, heard>>

Writing(p) == job[p].at \in Paths

StepOf(p) == Order(job[p].at)[job[p].step]

NameOf(p) == Temp(job[p].at, p, job[p].n)

\* Once the report is out the history is loaded, and the news are sent.
Shown(j, d) ==
    LET known == d[Published("history")].text
    IN  [j EXCEPT !.at = IF j.batch \subseteq known THEN "history" ELSE "hook",
                  !.step = 1, !.known = known]

Write(p) ==
    LET j    == job[p]
        path == j.at
    IN  /\ Writing(p)
        /\ disk' = Done(StepOf(p), disk, path, NameOf(p), TextOf(j))
        /\ IF StepOf(p) = "rename"
           THEN /\ past' = [past EXCEPT ![path] = @ \cup {disk[Published(path)]}]
                /\ job' = [job EXCEPT ![p] = IF path = "report" THEN Shown(@, disk)
                                             ELSE Job("ended", @.n)]
           ELSE /\ job' = [job EXCEPT ![p].step = @ + Advanced(StepOf(p), disk, NameOf(p))]
                /\ UNCHANGED past
        /\ UNCHANGED <<mail, heard>>

\* The report's error ends the cycle, the history's is logged at its end.
WriteFails(p) ==
    /\ "disk" \in Faults
    /\ Writing(p)
    /\ disk' = Removed(disk, NameOf(p))
    /\ job' = [job EXCEPT ![p] = Job("ended", @.n)]
    /\ UNCHANGED <<mail, past, heard>>

-------------------------------------------------------------------------------
(***************************************************************************)
(* Channels: the webhook first, then the mail whatever became of it.       *)
(***************************************************************************)

Hears(receivers, j) == heard' = heard \cup (receivers \X Message(j))

HookOk(p) ==
    /\ job[p].at = "hook"
    /\ Hears({"hook"}, job[p])
    /\ job' = [job EXCEPT ![p].at = "mail"]
    /\ UNCHANGED <<mail, disk, past>>

\* Refused, or not answered in time, with the message delivered or not.
HookFails(p) ==
    /\ "hook" \in Faults
    /\ job[p].at = "hook"
    /\ Hears({"hook"}, job[p]) \/ UNCHANGED heard
    /\ job' = [job EXCEPT ![p].at = "mail", ![p].failed = TRUE]
    /\ UNCHANGED <<mail, disk, past>>

\* The session goes on, or was the last step of the notification.
MailGoesOn(p, s) ==
    [job EXCEPT ![p].session = IF SessionOver(mail, s) THEN NewSession ELSE s,
                ![p].at = IF SessionOver(mail, s) THEN "history" ELSE "mail"]

Speaks(p) == job[p].at = "mail" /\ ~Refrains(mail, job[p].session)

\* What the command about to be sent shows to whoever listens.
RevealedBy(p) ==
    job[p].revealed \cup
        (IF Reveals(mail, job[p].session) /\ ~job[p].session.secure
         THEN {IF Command(mail, job[p].session) = "auth" THEN "password" ELSE "message"} ELSE {})

\* A body that was taken is delivered, whatever is heard of it.
Takes(p) ==
    IF Command(mail, job[p].session) = "body" THEN Hears(job[p].session.accepted, job[p])
                                              ELSE UNCHANGED heard

\* Whom the next "rcpt" is about.
NextRecipient(s) ==
    IF Recipients \subseteq s.accepted THEN "nobody"
    ELSE CHOOSE r \in Recipients \ s.accepted : TRUE

MailObeyed(p) ==
    LET s == job[p].session
    IN  /\ Speaks(p)
        /\ job' = [MailGoesOn(p, Obeyed(mail, s, NextRecipient(s)))
                     EXCEPT ![p].revealed = RevealedBy(p)]
        /\ Takes(p)
        /\ UNCHANGED <<mail, disk, past>>

MailFailed(p) ==
    [job EXCEPT ![p].at = "history", ![p].session = NewSession, ![p].failed = TRUE,
                ![p].revealed = RevealedBy(p)]

\* The server says no, or does not offer what is asked.
MailRefused(p) ==
    /\ "mail" \in Faults
    /\ Speaks(p)
    /\ job' = IF GoesOn(mail, job[p].session) THEN MailGoesOn(p, Skipped(job[p].session))
                                              ELSE MailFailed(p)
    /\ UNCHANGED <<mail, disk, past, heard>>

MailRefrains(p) ==
    /\ job[p].at = "mail"
    /\ Refrains(mail, job[p].session)
    /\ job' = [job EXCEPT ![p].at = "history", ![p].session = NewSession, ![p].failed = TRUE]
    /\ UNCHANGED <<mail, disk, past, heard>>

\* Mutated form: a time limit for the connection and none for the session.
ExpiresDialing(s) == s.done = 0

\* One deadline covers the session.
Expires(s) == TRUE

\* It passes, or the connection is lost: the command may have been obeyed.
MailLost(p) ==
    /\ Speaks(p)
    /\ Expires(job[p].session)
    /\ job' = MailFailed(p)
    /\ Takes(p) \/ UNCHANGED heard
    /\ UNCHANGED <<mail, disk, past>>

-------------------------------------------------------------------------------
(***************************************************************************)
(* The end of a process, or of all of them.                                *)
(***************************************************************************)

Crash(p) ==
    /\ "crash" \in Faults
    /\ job[p].at \notin {"off", "ended"}
    /\ job' = [job EXCEPT ![p] = Job("off", @.n)]
    /\ UNCHANGED <<mail, disk, past, heard>>

\* What was not synced is gone, and a rename may be undone.
PowerLoss ==
    /\ "power" \in Faults
    /\ \E p \in Processes : job[p].at # "off"
    /\ \E kept \in [Paths -> UNION {past[path] : path \in Paths}
                               \cup {disk[Published(path)] : path \in Paths}] :
         /\ \A path \in Paths : kept[path] \in past[path] \cup {disk[Published(path)]}
         /\ disk' = [name \in Names |->
                       IF \E path \in Paths : name = Published(path)
                       THEN Survivor(kept[name[1]]) ELSE Survivor(disk[name])]
    /\ past' = [path \in Paths |-> past[path] \cup {disk[Published(path)]}]
    /\ job' = [p \in Processes |-> Job("off", job[p].n)]
    /\ UNCHANGED <<mail, heard>>

Step(p) ==
    \/ Write(p) \/ HookOk(p) \/ HookFails(p) \/ MailRefrains(p) \/ MailLost(p)

Next ==
    \/ \E p \in Processes :
         \/ Start(p) \/ Step(p) \/ WriteFails(p) \/ MailObeyed(p) \/ MailRefused(p) \/ Crash(p)
    \/ PowerLoss

Spec == Init /\ [][Next]_vars

\* A process runs on: writes return, and the time limits pass.  No server is
\* trusted to answer.
FairSpec == Spec /\ \A p \in Processes : WF_vars(Step(p))
-------------------------------------------------------------------------------
(***************************************************************************)
(* Properties.                                                             *)
(***************************************************************************)

TypeOK ==
    /\ mail \in Mails
    /\ \A name \in Names : disk[name].written \in 0..Parts /\ disk[name].synced \in 0..Parts
    /\ \A p \in Processes :
         /\ job[p].at \in {"off", "report", "hook", "mail", "history", "ended"}
         /\ job[p].step \in DOMAIN Order("report")
         /\ job[p].session.accepted \subseteq Recipients
    /\ heard \subseteq Receivers \X Problem

\* "The dashboard never reads a truncated JSON, even if the process dies
\* mid-write" (report.go Write), nor does the next run a truncated history: with
\* another process writing the same file, and after a power failure.
PublishedIsWhole ==
    \A path \in Paths : Whole(disk[Published(path)])

\* A temporary file belongs to a writer at work, or to one that was killed:
\* steps that fail leave none behind in a directory that may be served.
NoLitter ==
    \A p \in Processes : job[p].at \in {"ended", "hook", "mail"} =>
        \A path \in Paths : disk[Temp(path, p, job[p].n)] = NoFile

\* What the history keeps quiet was delivered to the webhook and to every single
\* recipient of the mail, whichever command of the session failed, whichever
\* answer was lost, and whoever saved it.
RecordedWasDelivered ==
    Receivers \X disk[Published("history")].text \subseteq heard

\* A server that does not offer TLS gets neither the password nor the list of
\* broken domains, unless the configuration says "none"; and the password then
\* only where it stays on the machine.
NothingInTheClear ==
    \A p \in Processes : job[p].revealed # {} =>
        mail.tls = "none" /\ ("password" \in job[p].revealed => mail.local)

\* "One hung webhook used to block the process forever" (notifier.go): a cycle
\* ends, whatever the servers do or keep from doing.
CycleEnds ==
    \A p \in Processes : (job[p].at \notin {"off", "ended"}) ~> (job[p].at \in {"off", "ended"})

\* Steps, sessions, processes and failures put together keep the promise of
\* Outlet.
TextShown(file) == IF Whole(file) THEN file.text ELSE {"garbled"}

Promise == INSTANCE Outlet WITH
    Reports   <- Batches,
    Histories <- SUBSET UNION Batches,
    report    <- TextShown(disk[Published("report")]),
    shown     <- {TextShown(f) : f \in past["report"] \cup {disk[Published("report")]}},
    history   <- TextShown(disk[Published("history")])

ImplementsOutlet == Promise!Spec
===============================================================================
