-------------------------------- MODULE Outlet --------------------------------
(***************************************************************************)
(* What sslscout promises of what it puts out, however it writes and sends *)
(* it: files change from one whole text to the next, in one step; nobody   *)
(* hears of what no report has shown; and the history only ever contains   *)
(* what everybody has heard of.                                            *)
(***************************************************************************)
CONSTANTS
    Receivers,
    Reports,      \* texts a report may have
    Histories     \* texts a history may have, {} among them

VARIABLES
    report,    \* the text of report.json
    shown,     \* every text it has had
    history,   \* what state.json remembers
    heard      \* who has heard of what

Init ==
    /\ report = {}
    /\ shown = {{}}
    /\ history = {}
    /\ heard = {}

Show ==
    /\ report' \in Reports \cup shown
    /\ shown' = shown \cup {report'}
    /\ UNCHANGED <<history, heard>>

Hear ==
    /\ heard \subseteq heard'
    /\ \A h \in heard' : \E text \in shown : h[2] \in text
    /\ UNCHANGED <<report, shown, history>>

Remember ==
    /\ history' \in Histories
    /\ Receivers \X history' \subseteq heard
    /\ UNCHANGED <<report, shown, heard>>

\* A power failure may bring back earlier texts, both at once.
Restore ==
    /\ report' \in shown
    /\ history' \in Histories
    /\ Receivers \X history' \subseteq heard
    /\ UNCHANGED <<shown, heard>>

Next == Show \/ Hear \/ Remember \/ Restore

Spec == Init /\ [][Next]_<<report, shown, history, heard>>
===============================================================================
