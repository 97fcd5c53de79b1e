------------------------------ MODULE TargetList ------------------------------
(***************************************************************************)
(* The list of targets: pkg/checker/target.go.  A line is what is left of  *)
(* it without comments and blanks, taken apart into scheme, host and port. *)
(***************************************************************************)
EXTENDS Integers, Sequences

\* A line without a scheme has "", one without a port 0; -1 is a port that is
\* none.  Hosts are spelled in more than one way.
Line(scheme, host, port) == [scheme |-> scheme, host |-> host, port |-> port]

NoHost == ""

AnyLine == [scheme : STRING, host : STRING, port : Int]

\* A comment, or nothing.
Blank == Line("", NoHost, 0)

\* A direct handshake.
StartTLSNone == ""

Target(host, port, startTLS) == [host |-> host, port |-> port, startTLS |-> startTLS]

\* What no target is made of.
Malformed == Target(NoHost, 0, StartTLSNone)

DefaultPort == 443

Scheme(port, startTLS) == [port |-> port, startTLS |-> startTLS]

\* "http" is about the certificate of that host; "tls" is a direct handshake on
\* any port.
schemes ==
    [http |-> Scheme(443, StartTLSNone), https |-> Scheme(443, StartTLSNone),
     tls |-> Scheme(443, StartTLSNone), ftps |-> Scheme(990, StartTLSNone),
     imaps |-> Scheme(993, StartTLSNone), ldaps |-> Scheme(636, StartTLSNone),
     pop3s |-> Scheme(995, StartTLSNone), smtps |-> Scheme(465, StartTLSNone),
     smtp |-> Scheme(587, "smtp"), submission |-> Scheme(587, "smtp"),
     imap |-> Scheme(143, "imap"), pop3 |-> Scheme(110, "pop3"), ldap |-> Scheme(389, "ldap"),
     postgres |-> Scheme(5432, "postgres"), postgresql |-> Scheme(5432, "postgres")]

startTLSByPort(port) ==
    CASE port \in {25, 587, 2525} -> "smtp"
      [] port = 143               -> "imap"
      [] port = 110               -> "pop3"
      [] port = 389               -> "ldap"
      [] port = 5432              -> "postgres"
      [] OTHER                    -> StartTLSNone

\* newTarget: lower case, no trailing dot; a host with a blank in it is none.
HostOf(spelling) ==
    CASE spelling = "MAIL."   -> "mail"
      [] spelling = "ma il"   -> NoHost
      [] OTHER                -> spelling

PortOf(line) ==
    IF line.port # 0 THEN line.port
    ELSE IF line.scheme \in DOMAIN schemes THEN schemes[line.scheme].port ELSE DefaultPort

\* Mutated form: the port's usual negotiation whatever the scheme says.
NegotiationByPort(line) == startTLSByPort(PortOf(line))

\* An explicit scheme is an instruction, the port a hint.
Negotiation(line) ==
    IF line.scheme \in DOMAIN schemes THEN schemes[line.scheme].startTLS
                                      ELSE startTLSByPort(PortOf(line))

ParseTarget(line) ==
    IF HostOf(line.host) = NoHost \/ PortOf(line) \notin 1..65535 THEN Malformed
    ELSE Target(HostOf(line.host), PortOf(line), Negotiation(line))

\* Target.String drops the negotiation, key keeps it.
String(target) == <<target.host, target.port>>

\* Mutated form: the key the alert history uses.
keyDropped(target) == <<"", String(target)>>

key(target) == <<target.startTLS, String(target)>>

Listed(targets, target) == \E i \in DOMAIN targets : key(targets[i]) = key(target)

\* Nothing read yet.
NoList == [targets |-> <<>>, problems |-> 0]

\* One line more; every problem is noted before the list is given up.
ParseLine(list, line) ==
    LET target == ParseTarget(line)
    IN  IF line = Blank THEN list
        ELSE IF target = Malformed THEN [list EXCEPT !.problems = @ + 1]
        ELSE IF Listed(list.targets, target) THEN list
        ELSE [list EXCEPT !.targets = Append(@, target)]
===============================================================================
