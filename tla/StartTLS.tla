------------------------------- MODULE StartTLS -------------------------------
(***************************************************************************)
(* One connection to a target behind STARTTLS: the plaintext dialogue of   *)
(* pkg/checker/starttls.go, then the ClientHello.  The five dialogues are  *)
(* one reader over a table: in each stage the client may ask something,    *)
(* then reads units (lines, BER elements, a byte), skips some, is content  *)
(* with one and takes any other for a refusal.                             *)
(*                                                                         *)
(* The server speaks in turn; what it says is up to it, and it may close,  *)
(* fall silent or be cut off at any moment.  What it sends passes through  *)
(* the socket into the reader's buffer, whose rest is lost when TLS takes  *)
(* over the socket.                                                        *)
(***************************************************************************)
EXTENDS Handshake

CONSTANTS
    Protocols,   \* the negotiations of this instance
    MaxUnits,    \* startTLSMaxRead, in units
    Room         \* units a chatting server may have in the socket

Stage(asks, wants, skips) == [asks |-> asks, wants |-> wants, skips |-> skips]

Continued == {"220-", "250-"}

\* "no" and "bad" stand for what a server may say to decline, in words of the
\* protocol or not; "*" for an untagged IMAP line.
Dialogue ==
    [smtp |-> <<Stage(None, {"220"}, Continued),
                Stage("EHLO", {"250"}, Continued),
                Stage("STARTTLS", {"220"}, Continued)>>,
     imap |-> <<Stage(None, {"*OK"}, {}),
                Stage("STARTTLS", {"a001OK"}, {"*OK", "*"})>>,
     pop3 |-> <<Stage(None, {"+OK"}, {}),
                Stage("STLS", {"+OK"}, {})>>,
     ldap |-> <<Stage("StartTLS", {"message"}, {}),
                Stage(None, {"messageID"}, {}),
                Stage(None, {"response"}, {}),
                Stage(None, {"success"}, {})>>,
     postgres |-> <<Stage("SSLRequest", {"S"}, {})>>]

Text == {"smtp", "imap", "pop3"}

ASSUME StartTLSAssumption ==
    /\ Protocols \in SUBSET DOMAIN Dialogue
    /\ Protocols # {}
    /\ MaxUnits \in Nat \ {0}
    /\ Room \in Nat \ {0}

VARIABLES
    proto,     \* Target.StartTLS
    phase,     \* client: "asking", "reading", "hello", "over"
    stage,     \* client: stage of the dialogue
    buf,       \* bufio.Reader: read from the socket, not consumed
    taken,     \* units that passed the LimitReader
    cutShort,  \* a line was consumed that had lost its end
    outcome,   \* how the connection ended, None while it lives
    wire,      \* the socket: arrived, not read
    server     \* at: question being answered, or answered last; due: the one
               \* it has been asked; todo: the rest of its reply; yes: it agreed
               \* to the upgrade; no: it declined something; closed

vars == <<proto, phase, stage, buf, taken, cutShort, outcome, wire, server>>

client == <<phase, stage, buf, taken, cutShort, outcome>>

Stages == Dialogue[proto]

\* A unit, and whether it lost its end.
Unit(kind, cut) == [is |-> kind, cut |-> cut]

\* Where the client stands once it has entered stage k.
Entered(k) == IF k > Len(Stages) THEN "hello"
              ELSE IF Stages[k].asks = None THEN "reading" ELSE "asking"

\* Text servers greet first.
Init ==
    /\ proto \in Protocols
    /\ phase = Entered(1)
    /\ stage = 1
    /\ buf = <<>>
    /\ taken = 0
    /\ cutShort = FALSE
    /\ outcome = None
    /\ wire = <<>>
    /\ server = [at |-> 0, due |-> IF proto \in Text THEN 1 ELSE 0, todo |-> <<>>,
                 yes |-> FALSE, no |-> FALSE, closed |-> FALSE]
-------------------------------------------------------------------------------
(* The server, external.                                                   *)

\* The last thing asked in the dialogue.
IsUpgrade(k) == \A j \in DOMAIN Stages : Stages[j].asks # None => j <= k

YesTo(k) ==
    CASE proto = "ldap"     -> {<<"message", "messageID", "response", "success", "rest">>}
      [] proto = "postgres" -> {<<"S">>}
      [] OTHER              -> {<<kind>> : kind \in Stages[k].wants}

NoTo ==
    CASE proto = "ldap"     -> {<<"bad">>,
                                <<"message", "messageID", "response", "failure", "rest">>}
      [] proto = "postgres" -> {<<"no">>, <<"no", "rest">>}
      [] OTHER              -> {<<"no">>, <<"bad">>}

Answer ==
    /\ server.due # 0
    /\ ~server.closed
    /\ \/ \E reply \in YesTo(server.due) :
            server' = [server EXCEPT !.at = server.due, !.due = 0, !.todo = reply,
                                     !.yes = IsUpgrade(server.due)]
       \/ \E reply \in NoTo :
            server' = [server EXCEPT !.at = server.due, !.due = 0, !.todo = reply, !.no = TRUE]
    /\ UNCHANGED <<proto, client, wire>>

\* A reply arrives unit by unit; what the client reads at once is in Fill.
Send ==
    /\ server.todo # <<>>
    /\ ~server.closed
    /\ wire' = Append(wire, Unit(Head(server.todo), FALSE))
    /\ server' = [server EXCEPT !.todo = Tail(@)]
    /\ UNCHANGED <<proto, client>>

\* Lines before the one that answers, as many as it likes; an IMAP server sends
\* them between its greeting and the command, too.
Chat ==
    /\ proto \in Text
    /\ ~server.closed
    /\ Len(wire) < Room
    /\ \E kind \in {"220-", "250-", "*"} :
         /\ \/ server.todo # <<>> /\ kind \in Stages[server.at].skips
            \/ proto = "imap" /\ server.at = 1 /\ server.todo = <<>> /\ kind = "*"
         /\ wire' = Append(wire, Unit(kind, FALSE))
    /\ UNCHANGED <<proto, client, server>>

\* What is left of a line cut off somewhere may read as another.
Fragments(kind) ==
    {"bad", kind} \cup
        (CASE kind = "220-" -> {"220"}
           [] kind = "250-" -> {"250"}
           [] kind = "*OK" -> {"*"}
           [] OTHER         -> {})

\* The connection closes, in the middle of a line or not.
Close ==
    /\ ~server.closed
    /\ server' = [server EXCEPT !.closed = TRUE, !.todo = <<>>, !.due = 0]
    /\ \/ wire' = wire
       \/ /\ proto \in Text
          /\ server.todo # <<>>
          /\ \E kind \in Fragments(Head(server.todo)) : wire' = Append(wire, Unit(kind, TRUE))
    /\ UNCHANGED <<proto, client>>

-------------------------------------------------------------------------------
(* The client.                                                             *)

Ends(how) == phase' = "over" /\ outcome' = how

Ask ==
    /\ phase = "asking"
    /\ phase' = "reading"
    /\ server' = [server EXCEPT !.due = IF server.closed THEN 0 ELSE stage]
    /\ UNCHANGED <<proto, stage, buf, taken, cutShort, outcome, wire>>

\* Writing to a connection the other side has closed.
AskFails ==
    /\ phase = "asking"
    /\ server.closed
    /\ Ends("reset")
    /\ UNCHANGED <<proto, stage, buf, taken, cutShort, wire, server>>

Smallest(a, b) == IF a < b THEN a ELSE b

\* Mutated form: a reader without a limit.
BudgetUnlimited == Len(wire)

\* What the LimitReader still lets through.
Budget == MaxUnits - taken

\* How far reads of the socket may reach before the client looks at what it
\* has; PostgreSQL's single byte is read without a buffer.
Reach(p) == IF p = "postgres" THEN 1 ELSE Smallest(Len(wire), Budget)

\* The buffer takes in some of what arrived: bufio reads 4096 bytes at most, and
\* a unit may be of any length.  The limit falls anywhere in a line.
Fill ==
    /\ phase = "reading"
    /\ buf = <<>>
    /\ wire # <<>>
    /\ \E n \in 1..Reach(proto) :
           /\ wire' = SubSeq(wire, n + 1, Len(wire))
           /\ \/ /\ taken' = taken + n
                 /\ buf' = SubSeq(wire, 1, n)
              \/ /\ proto \in Text
                 /\ taken' = MaxUnits
                 /\ \E kind \in Fragments(wire[n].is) :
                      buf' = Append(SubSeq(wire, 1, n - 1), Unit(kind, TRUE))
    /\ UNCHANGED <<proto, phase, stage, cutShort, outcome, server>>

\* Mutated form: the first line of a reply taken for the whole of it.
SkipsNothing(s) == {}

Skips(s) == s.skips

\* Mutated form: any well-formed reply will do, whatever it says.
WantsAnyReply(s) == s.wants \cup {"no"}

\* Mutated form: a continuation line taken for the reply.
WantsContinued(s) == s.wants \cup s.skips

Wants(s) == s.wants

\* One unit is looked at.  None is both wanted and skipped.
Read ==
    /\ phase = "reading"
    /\ buf # <<>>
    /\ buf' = Tail(buf)
    /\ cutShort' = (cutShort \/ Head(buf).cut)
    /\ LET kind == Head(buf).is
           s    == Stages[stage]
       IN  \/ /\ kind \in Skips(s)
              /\ UNCHANGED <<phase, stage, outcome>>
           \/ /\ kind \in Wants(s)
              /\ stage' = stage + 1
              /\ phase' = Entered(stage + 1)
              /\ UNCHANGED outcome
           \/ /\ kind \notin Skips(s) \cup Wants(s)
              /\ Ends("refusal")
              /\ UNCHANGED stage
    /\ UNCHANGED <<proto, taken, wire, server>>

\* The end of the stream, or of the limit, with nothing left to look at.
ReadFails ==
    /\ phase = "reading"
    /\ buf = <<>>
    /\ \/ wire = <<>> /\ server.closed /\ (Ends("eof") \/ Ends("reset"))
       \/ proto # "postgres" /\ Budget = 0 /\ Ends("eof")
    /\ UNCHANGED <<proto, stage, buf, taken, cutShort, wire, server>>

\* Mutated form: a deadline for the handshake only.
DeadlineCoversHandshake(ph) == ph = "hello"

\* SetDeadline on the connection, before the dialogue begins.
DeadlineCovers(ph) == ph # "over"

Deadline ==
    /\ DeadlineCovers(phase)
    /\ Ends("timeout")
    /\ UNCHANGED <<proto, stage, buf, taken, cutShort, wire, server>>

\* Does plaintext reach the TLS handshake, or is it to?
Spoken == wire # <<>> \/ (~server.closed /\ (server.todo # <<>> \/ ~server.yes))

\* Whatever is not the business of the resolver, the dialer or the dialogue: the
\* server's certificate and its TLS, the network, the signal (HandshakeContext
\* looks at the context).
HandshakeError == DialError \ {"resolver", "nxdomain", "refused", "refusal", "timeout"}

\* TLS owns the socket, and with it whatever plaintext is left there or still to
\* come; what is in the buffer is gone.
Hello ==
    /\ phase = "hello"
    /\ \/ Spoken /\ (Ends("plaintext") \/ Ends("canceled"))
       \/ wire = <<>> /\ server.closed /\ (Ends("eof") \/ Ends("reset") \/ Ends("canceled"))
       \/ /\ ~Spoken /\ ~server.closed /\ server.yes
          /\ \E how \in HandshakeError \cup {"verified"} : Ends(how)
    /\ UNCHANGED <<proto, stage, buf, taken, cutShort, wire, server>>

Client == Ask \/ AskFails \/ Fill \/ Read \/ ReadFails \/ Hello

Next == Client \/ Deadline \/ Answer \/ Send \/ Chat \/ Close

Spec == Init /\ [][Next]_vars

\* The client runs on, and its deadline passes.  Nothing is asked of the server.
FairSpec == Spec /\ WF_vars(Client) /\ WF_vars(Deadline)
-------------------------------------------------------------------------------
(***************************************************************************)
(* Properties.                                                             *)
(***************************************************************************)

\* The plaintext phase stays within its limit, and ends in an error classify
\* knows or in a handshake.
TypeOK ==
    /\ proto \in Protocols
    /\ phase \in {"asking", "reading", "hello", "over"}
    /\ stage \in 1..(Len(Stages) + 1)
    /\ taken \in 0..MaxUnits
    /\ outcome \in DialError \cup {None, "verified"}
    /\ phase = "over" <=> outcome # None

\* The ClientHello follows an agreement: whatever the server chats, repeats or
\* declines on the way, the client does not take it for its consent.  (A line
\* that lost its end is the exception, readLine takes it for a whole one.)
UpgradeIsAgreed ==
    phase = "hello" => server.yes \/ cutShort

\* A refusal, which is never retried, is one the server has spoken: chat, a
\* closed connection or the limit is not taken for it.  (With the same
\* exception, against the comment on startTLSError.)
RefusalIsSpoken ==
    outcome = "refusal" => server.no \/ cutShort

\* Only an answer is final: what is not tried again (classify), whichever way the
\* dialogue or the handshake after it ended, is what a server has refused, or has
\* agreed to and then failed at.  One that is slow, mute, chatting or gone is
\* tried again.  (With the same exception; the signal ends a connection, too.)
OnlyAnswersAreFinal ==
    outcome \in DialError \ {"canceled"} /\ ~classify(outcome).retryable =>
        cutShort \/ IF stage > Len(Stages) THEN server.yes ELSE server.no

\* Nothing the server said in plaintext is left for the TLS handshake to choke
\* on, except by LDAP: startTLSLDAP never looks at what follows the result code
\* of a response, and what it has not read yet is in the handshake's way.
UpgradeIsClean ==
    phase = "hello" /\ ~cutShort =>
        Len(wire) + Len(server.todo) <= IF proto = "ldap" THEN 1 ELSE 0

\* The client speaks when the server has finished: the next command is never
\* sent into the middle of a reply, nor the answer to it looked for there.
AsksInTurn ==
    phase = "asking" /\ ~cutShort =>
        /\ server.todo = <<>>
        /\ proto # "imap" => wire = <<>> /\ buf = <<>>

\* A connection ends, whatever the server does or keeps from doing: the
\* deadline covers the dialogue as well as the handshake.
DialogueEnds == <>(outcome # None)
==============================================================================
