------------------------------ MODULE MailSession ------------------------------
(***************************************************************************)
(* One message over SMTP: sendEmail and dialSMTP of pkg/notifier, with the *)
(* client of net/smtp it drives.                                           *)
(***************************************************************************)
EXTENDS Integers, Sequences, FiniteSets

CONSTANTS Recipients   \* smtp.to

\* config.SMTP: how the connection is protected, whether there is a user, and
\* whether the host is this machine (localhost, 127.0.0.1 or ::1).
MailConfig == [tls : {"starttls", "implicit", "none"}, user : BOOLEAN, local : BOOLEAN]

\* Mutated form: one too many.
RcptsOneMore == Cardinality(Recipients) + 1

\* How many "rcpt" there are to a message.
Rcpts == Cardinality(Recipients)

\* The commands of a session, in order.
Commands(mail) ==
    <<"dial", "greet">>
        \o (IF mail.tls = "starttls" THEN <<"starttls">> ELSE <<>>)
        \o (IF mail.user THEN <<"auth">> ELSE <<>>)
        \o <<"mail">> \o [i \in 1..Rcpts |-> "rcpt"]
        \o <<"data", "body", "quit">>

\* Done so far, whether over TLS, and whom the server will deliver to.
NewSession == [done |-> 0, secure |-> FALSE, accepted |-> {}]

Command(mail, s) == Commands(mail)[s.done + 1]

SessionOver(mail, s) == s.done = Len(Commands(mail))

\* PlainAuth keeps the password to itself over a connection in the clear, unless
\* it does not leave the machine.
Refrains(mail, s) == Command(mail, s) = "auth" /\ ~s.secure /\ ~mail.local

\* The server does what it is asked; recipient r is the one of a "rcpt".
Obeyed(mail, s, r) ==
    [done     |-> s.done + 1,
     secure   |-> \/ s.secure
                  \/ Command(mail, s) = "starttls"
                  \/ Command(mail, s) = "dial" /\ mail.tls = "implicit",
     accepted |-> s.accepted \cup (IF Command(mail, s) = "rcpt" THEN {r} ELSE {})]

\* Mutated form: a recipient who is refused is done without, and so is TLS when
\* it is not offered.
GoesOnWithout(mail, s) == Command(mail, s) \in {"rcpt", "starttls"}

\* Does the session survive a "no" of the server?
GoesOn(mail, s) == FALSE

Skipped(s) == [s EXCEPT !.done = @ + 1]

\* What has gone over the wire once the next command is sent.
Reveals(mail, s) ==
    \/ Command(mail, s) \in {"mail", "rcpt", "data", "body"}
    \/ Command(mail, s) = "auth" /\ ~Refrains(mail, s)
================================================================================
