----------------------------- MODULE AlertLedger -----------------------------
(***************************************************************************)
(* What the alert history promises to whoever reads the channels, without  *)
(* checks, processes or files: a ledger of what was last announced for     *)
(* each domain.  A channel hears about a domain only when that is news to  *)
(* the ledger; the ledger takes an entry only once it was delivered.       *)
(***************************************************************************)
EXTENDS AlertState

CONSTANTS Channels, Configs

VARIABLES
    ledger,   \* what was last announced, per domain
    heard     \* what the channels have delivered

vars == <<ledger, heard>>

Init == ledger = NoDomains /\ heard = {}

\* The five rules of pkg/state, between two announcements.
IsNews(prev, e) ==
    \/ prev = NoEntry
    \/ prev.status # e.status
    \/ prev.exp # e.exp
    \/ descended(prev.step, e.step)
    \/ RepeatAfter > 0 /\ e.at >= prev.at + RepeatAfter

Delivered(d, e) ==
    \E cfg \in Configs : \E t \in Targets : Key[t] = d /\
        \A c \in cfg.channels : [channel |-> c, target |-> t, entry |-> e] \in heard

\* Some channel delivers: news only.
Announce ==
    /\ heard \subseteq heard'
    /\ \A a \in heard' \ heard : IsNews(ledger[Key[a.target]], a.entry)
    /\ UNCHANGED ledger

\* The ledger forgets a domain, or takes over what was delivered and was news.
Settle ==
    /\ \A d \in Domain :
         \/ ledger'[d] \in {ledger[d], NoEntry}
         \/ Delivered(d, ledger'[d]) /\ IsNews(ledger[d], ledger'[d])
    /\ UNCHANGED heard

Next == Announce \/ Settle

Spec == Init /\ [][Next]_vars
==============================================================================
