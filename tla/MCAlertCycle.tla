----------------------------- MODULE MCAlertCycle -----------------------------
(***************************************************************************)
(* Small instances of AlertCycle.                                          *)
(***************************************************************************)
EXTENDS AlertCycle, TLC

CONSTANTS t1, t2, p1, p2

Srv(up, trusted, leaf, chain, altpath) ==
    [up |-> up, trusted |-> trusted, leaf |-> leaf, chain |-> chain, altpath |-> altpath]

Healthy   == Srv(TRUE, TRUE, 20, NoTime, FALSE)
Expiring  == Srv(TRUE, TRUE, 3, NoTime, FALSE)
Renewed   == Srv(TRUE, TRUE, 5, NoTime, FALSE)
Untrusted == Srv(TRUE, FALSE, 20, NoTime, FALSE)
Down      == Srv(FALSE, TRUE, 20, NoTime, FALSE)

OneKey  == (t1 :> t1)
TwoKeys == (t1 :> t1) @@ (t2 :> t2)
Twins   == (t1 :> t1) @@ (t2 :> t1)

Cfg(channels, history, targets) ==
    [channels |-> channels, history |-> history, notify |-> TRUE, targets |-> targets]

Silent(cfg) == [cfg EXCEPT !.notify = FALSE]

Slack       == {Cfg({1}, TRUE, Targets)}
SlackMail   == {Cfg({1, 3}, TRUE, Targets)}
MayForget   == {Cfg({1}, h, Targets) : h \in BOOLEAN} \cup {Silent(Cfg({1}, TRUE, Targets))}
Lists       == {Cfg({1}, TRUE, S) : S \in {{t1}, {t1, t2}}}

\* Expiring has three days at time 0: rung 3, rung 2 and critical; Renewed has five,
\* over the ladder until the second tick, where it warns like the old one did.
Ladder == {2, 3}

AgingServers    == {Healthy, Expiring, Down}
RenewingServers == {Renewed, Expiring, Down}
FlappingServers == {Healthy, Untrusted}
==============================================================================
