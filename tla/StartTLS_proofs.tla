---------------------------- MODULE StartTLS_proofs ----------------------------
(***************************************************************************)
(* Proofs about StartTLS, for any set of negotiations, any limit and any   *)
(* amount of chat.                                                         *)
(***************************************************************************)
EXTENDS StartTLS, TLAPS

-------------------------------------------------------------------------------
(* The inductive invariant.                                                *)

(* What has arrived and the client has not looked at. *)
Ahead == buf \o wire

(* Everything that is ever said. *)
Words == {"220-", "220", "250-", "250", "*OK", "*", "a001OK", "+OK", "no", "bad",
          "message", "messageID", "response", "success", "failure", "rest", "S"}

Pieces == [is : Words, cut : BOOLEAN]

Servers(last) ==
    [at : Nat, due : 0..last, todo : Seq(Words), yes : BOOLEAN, no : BOOLEAN, closed : BOOLEAN]

Shape ==
    /\ proto \in Protocols
    /\ phase \in {"asking", "reading", "hello", "over"}
    /\ stage \in Nat
    /\ taken \in 0..MaxUnits
    /\ cutShort \in BOOLEAN
    /\ outcome \in DialError \cup {None, "verified"}
    /\ buf \in Seq(Pieces)
    /\ wire \in Seq(Pieces)
    /\ server \in Servers(Len(Stages))

(* Where the client is in the dialogue. *)
ControlInv ==
    /\ stage \in 1..(Len(Stages) + 1)
    /\ phase \in {"asking", "reading"} => stage <= Len(Stages)
    /\ phase = "asking" => Stages[stage].asks # None
    /\ phase = "hello" => stage = Len(Stages) + 1
    /\ phase = "over" <=> outcome # None
    /\ proto = "postgres" /\ phase = "asking" => taken = 0
    /\ proto = "postgres" /\ phase = "reading" /\ buf = <<>> => taken = 0
    /\ server.closed => server.todo = <<>> /\ server.due = 0
    /\ proto \notin Text => ~cutShort

(* What a server says to question k, one line of it or all. *)
Says(k, word) ==
    \/ word \in Stages[k].wants /\ (IsUpgrade(k) => server.yes)
    \/ word \in {"no", "bad"} /\ server.no

(* The first n units are no answer, unless they lost their end. *)
Chatter(n) == \A i \in 1..n : Ahead[i].cut \/ Ahead[i].is \in Stages[stage].skips

(* What an IMAP server says between its greeting and the command. *)
Unasked(i) == proto = "imap" /\ (Ahead[i].cut \/ Ahead[i].is = "*")

(* The answer is the p-th unit ahead, with chatter before it. *)
AnswerAt(p) ==
    /\ Chatter(p - 1)
    /\ Ahead[p].cut \/ Says(stage, Ahead[p].is)
    /\ \A i \in (p + 1)..Len(Ahead) : stage = 1 /\ Unasked(i)

(* A question is asked and the answer not begun. *)
Pending ==
    /\ server.at = stage - 1
    /\ server.todo = <<>>
    /\ server.closed \/ server.due = stage
    /\ Chatter(Len(Ahead))

(* The server is at it, ... *)
Coming ==
    /\ server.at = stage
    /\ server.due = 0
    /\ \E word \in Words : server.todo = <<word>> /\ Says(stage, word)
    /\ Chatter(Len(Ahead))

(* ... has sent it, or hung up before. *)
Given ==
    /\ server.at = stage
    /\ server.due = 0
    /\ server.todo = <<>>
    /\ \/ server.closed /\ Chatter(Len(Ahead))
       \/ \E p \in 1..Len(Ahead) : AnswerAt(p)

(* The three text protocols, until a line without an end is believed. *)
TextInv ==
    proto \in Text /\ ~cutShort =>
        /\ phase = "asking" =>
             /\ server.at = stage - 1 /\ server.due = 0 /\ server.todo = <<>>
             /\ \A i \in 1..Len(Ahead) : Unasked(i)
        /\ phase = "reading" => Pending \/ Coming \/ Given
        /\ phase = "hello" =>
             /\ server.at = Len(Stages) /\ server.due = 0 /\ server.todo = <<>>
             /\ server.yes
             /\ Ahead = <<>>

(* A reply of LDAP or PostgreSQL, and where its rest is: in the stream up to *)
(* Len(Ahead), the server still has what is beyond.                          *)
Replies == YesTo(1) \cup NoTo

Remains(reply) ==
    /\ stage - 1 + Len(Ahead) + Len(server.todo) <= Len(reply)
    /\ \A i \in 1..Len(Ahead) : Ahead[i] = Unit(reply[stage - 1 + i], FALSE)
    /\ \A i \in 1..Len(server.todo) : server.todo[i] = reply[stage - 1 + Len(Ahead) + i]
    /\ \A k \in 1..(stage - 1) : reply[k] \in Stages[k].wants
    /\ reply \in YesTo(1) => server.yes
    /\ reply \in NoTo => server.no

BinaryInv ==
    proto \notin Text =>
        /\ phase = "asking" => stage = 1 /\ server.at = 0
        /\ phase # "over" /\ server.at = 0 =>
             /\ stage = 1 /\ server.todo = <<>> /\ Ahead = <<>>
             /\ phase \in {"asking", "reading"}
             /\ phase = "asking" => server.due = 0
             /\ server.due \in {0, 1}
        /\ phase # "over" /\ server.at # 0 =>
             server.due = 0 /\ \E reply \in Replies : Remains(reply)

SInv ==
    Shape /\ ControlInv /\ TextInv /\ BinaryInv /\ RefusalIsSpoken

-------------------------------------------------------------------------------
(* Lemmas about the table and the stream.                                  *)

(* An ended connection ended somehow. *)
LEMMA NoneIsNoEnd == None \notin DialError \cup {"verified", "StartTLS", "STARTTLS", "EHLO", "STLS", "SSLRequest"}
  BY Zenon DEF None, DialError, CertError, Transient

LEMMA Ended == /\ "reset" \in DialError /\ "refusal" \in DialError /\ "eof" \in DialError
               /\ "timeout" \in DialError /\ "plaintext" \in DialError
               /\ "canceled" \in DialError
  BY DEF DialError, Transient

(* The five dialogues. *)
LEMMA Protos == proto \in Protocols => proto \in {"smtp", "imap", "pop3", "ldap", "postgres"}
  BY StartTLSAssumption DEF Dialogue

LEMMA StageParts ==
    ASSUME NEW asks, NEW wants, NEW skips
    PROVE  /\ Stage(asks, wants, skips).asks = asks
           /\ Stage(asks, wants, skips).wants = wants
           /\ Stage(asks, wants, skips).skips = skips
  BY DEF Stage

LEMMA SmtpStages ==
    ASSUME proto = "smtp"
    PROVE  /\ Len(Stages) = 3 /\ DOMAIN Stages = 1..3
           /\ Stages[1] = Stage(None, {"220"}, Continued)
           /\ Stages[2] = Stage("EHLO", {"250"}, Continued)
           /\ Stages[3] = Stage("STARTTLS", {"220"}, Continued)
  BY DEF Stages, Dialogue

LEMMA ImapStages ==
    ASSUME proto = "imap"
    PROVE  /\ Len(Stages) = 2 /\ DOMAIN Stages = 1..2
           /\ Stages[1] = Stage(None, {"*OK"}, {})
           /\ Stages[2] = Stage("STARTTLS", {"a001OK"}, {"*OK", "*"})
  BY DEF Stages, Dialogue

LEMMA PopStages ==
    ASSUME proto = "pop3"
    PROVE  /\ Len(Stages) = 2 /\ DOMAIN Stages = 1..2
           /\ Stages[1] = Stage(None, {"+OK"}, {})
           /\ Stages[2] = Stage("STLS", {"+OK"}, {})
  BY DEF Stages, Dialogue

LEMMA LdapStages ==
    ASSUME proto = "ldap"
    PROVE  /\ Len(Stages) = 4 /\ DOMAIN Stages = 1..4
           /\ Stages[1] = Stage("StartTLS", {"message"}, {})
           /\ Stages[2] = Stage(None, {"messageID"}, {})
           /\ Stages[3] = Stage(None, {"response"}, {})
           /\ Stages[4] = Stage(None, {"success"}, {})
  BY DEF Stages, Dialogue

LEMMA PostgresStages ==
    ASSUME proto = "postgres"
    PROVE  /\ Len(Stages) = 1 /\ DOMAIN Stages = {1}
           /\ Stages[1] = Stage("SSLRequest", {"S"}, {})
  BY DEF Stages, Dialogue

(* What the proofs need to know of a text dialogue: the server speaks first and *)
(* only then; the upgrade is asked for last; nothing is both an answer and      *)
(* chatter, and what declines is neither.                                       *)
LEMMA TextStages ==
    ASSUME proto \in Text
    PROVE  /\ Len(Stages) \in {2, 3}
           /\ proto = "imap" => Len(Stages) = 2 /\ "*" \in Stages[2].skips
           /\ DOMAIN Stages = 1..Len(Stages)
           /\ \A k \in 1..Len(Stages) :
                /\ Stages[k].asks = None <=> k = 1
                /\ Stages[k].wants \cap Stages[k].skips = {}
                /\ "no" \notin Stages[k].wants \cup Stages[k].skips
                /\ "bad" \notin Stages[k].wants \cup Stages[k].skips
                /\ Stages[k].wants \subseteq Words
           /\ IsUpgrade(Len(Stages))
<1>1. CASE proto = "smtp"
  <2>1. \A k \in 1..3 : k = 1 \/ k = 2 \/ k = 3
    OBVIOUS
  <2>2. /\ Stages[1].asks = None /\ Stages[1].wants = {"220"} /\ Stages[1].skips = {"220-", "250-"}
        /\ Stages[2].asks = "EHLO" /\ Stages[2].wants = {"250"} /\ Stages[2].skips = {"220-", "250-"}
        /\ Stages[3].asks = "STARTTLS" /\ Stages[3].wants = {"220"} /\ Stages[3].skips = {"220-", "250-"}
    BY <1>1, SmtpStages, StageParts DEF Continued
  <2>3. Len(Stages) = 3 /\ DOMAIN Stages = 1..3
    BY <1>1, SmtpStages
  <2>4. \A k \in 1..3 : Stages[k].asks = None <=> k = 1
    BY <2>1, <2>2, NoneIsNoEnd
  <2>5. IsUpgrade(3)
    BY <2>3 DEF IsUpgrade
  <2>6. QED
    BY <1>1, <2>1, <2>2, <2>3, <2>4, <2>5 DEF Words
<1>2. CASE proto = "imap"
  <2>1. \A k \in 1..2 : k = 1 \/ k = 2
    OBVIOUS
  <2>2. /\ Stages[1].asks = None /\ Stages[1].wants = {"*OK"} /\ Stages[1].skips = {}
        /\ Stages[2].asks = "STARTTLS" /\ Stages[2].wants = {"a001OK"}
        /\ Stages[2].skips = {"*OK", "*"}
    BY <1>2, ImapStages, StageParts
  <2>3. Len(Stages) = 2 /\ DOMAIN Stages = 1..2
    BY <1>2, ImapStages
  <2>4. \A k \in 1..2 : Stages[k].asks = None <=> k = 1
    BY <2>1, <2>2, NoneIsNoEnd
  <2>5. IsUpgrade(2)
    BY <2>3 DEF IsUpgrade
  <2>6. QED
    BY <1>2, <2>1, <2>2, <2>3, <2>4, <2>5 DEF Words
<1>3. CASE proto = "pop3"
  <2>1. \A k \in 1..2 : k = 1 \/ k = 2
    OBVIOUS
  <2>2. /\ Stages[1].asks = None /\ Stages[1].wants = {"+OK"} /\ Stages[1].skips = {}
        /\ Stages[2].asks = "STLS" /\ Stages[2].wants = {"+OK"} /\ Stages[2].skips = {}
    BY <1>3, PopStages, StageParts
  <2>3. Len(Stages) = 2 /\ DOMAIN Stages = 1..2
    BY <1>3, PopStages
  <2>4. \A k \in 1..2 : Stages[k].asks = None <=> k = 1
    BY <2>1, <2>2, NoneIsNoEnd
  <2>5. IsUpgrade(2)
    BY <2>3 DEF IsUpgrade
  <2>6. QED
    BY <1>3, <2>1, <2>2, <2>3, <2>4, <2>5 DEF Words
<1>4. QED
  BY <1>1, <1>2, <1>3 DEF Text

(* The other two: one question, and the reply answers all that is read of it. *)
LEMMA LdapTable ==
    ASSUME proto = "ldap"
    PROVE  /\ Len(Stages) = 4 /\ DOMAIN Stages = 1..4
           /\ Stages[1].asks # None /\ Stages[2].asks = None
           /\ Stages[3].asks = None /\ Stages[4].asks = None
           /\ Stages[1].wants = {"message"} /\ Stages[2].wants = {"messageID"}
           /\ Stages[3].wants = {"response"} /\ Stages[4].wants = {"success"}
           /\ Stages[1].skips = {} /\ Stages[2].skips = {}
           /\ Stages[3].skips = {} /\ Stages[4].skips = {}
  BY LdapStages, StageParts, NoneIsNoEnd

LEMMA PostgresTable ==
    ASSUME proto = "postgres"
    PROVE  /\ Len(Stages) = 1 /\ DOMAIN Stages = {1}
           /\ Stages[1].asks # None /\ Stages[1].wants = {"S"} /\ Stages[1].skips = {}
  BY PostgresStages, StageParts, NoneIsNoEnd

LEMMA BinaryStages ==
    ASSUME proto \in {"ldap", "postgres"}
    PROVE  /\ Len(Stages) = IF proto = "ldap" THEN 4 ELSE 1
           /\ DOMAIN Stages = 1..Len(Stages)
           /\ \A k \in 1..Len(Stages) :
                /\ Stages[k].asks = None <=> k # 1
                /\ Stages[k].skips = {}
           /\ IsUpgrade(1)
<1>1. CASE proto = "ldap"
  <2>1. \A k \in 1..4 : k = 1 \/ k = 2 \/ k = 3 \/ k = 4
    OBVIOUS
  <2>2. IsUpgrade(1)
    BY <1>1, <2>1, LdapTable DEF IsUpgrade
  <2>3. QED
    BY <1>1, <2>1, <2>2, LdapTable
<1>2. CASE proto = "postgres"
  <2>1. IsUpgrade(1)
    BY <1>2, PostgresTable DEF IsUpgrade
  <2>2. 1..1 = {1} /\ \A k \in 1..1 : k = 1
    OBVIOUS
  <2>3. QED
    BY <1>2, <2>1, <2>2, PostgresTable
<1>3. QED
  BY <1>1, <1>2

LEMMA StagesLength ==
    ASSUME proto \in Protocols
    PROVE  /\ Len(Stages) \in Nat \ {0}
           /\ DOMAIN Stages = 1..Len(Stages)
           /\ proto \notin Text => proto \in {"ldap", "postgres"}
<1>1. CASE proto \in Text
  BY <1>1, TextStages
<1>2. CASE proto \notin Text
  BY <1>2, Protos, BinaryStages DEF Text
<1>3. QED
  BY <1>1, <1>2

(* What the server may say is made of words. *)
LEMMA YesWords ==
    ASSUME proto \in Protocols, NEW k \in 1..Len(Stages), NEW reply \in YesTo(k)
    PROVE  reply \in Seq(Words)
<1>1. CASE proto \in Text
  <2>1. PICK kind \in Stages[k].wants : reply = <<kind>>
    BY <1>1 DEF YesTo, Text
  <2>2. kind \in Words
    BY <1>1, <2>1, TextStages
  <2>3. QED
    BY <2>1, <2>2
<1>2. CASE proto \notin Text
  <2>1. proto = "ldap" \/ proto = "postgres"
    BY <1>2, StagesLength
  <2>2. reply \in {<<"message", "messageID", "response", "success", "rest">>, <<"S">>}
    BY <2>1 DEF YesTo
  <2>3. /\ <<"message", "messageID", "response", "success", "rest">> \in Seq(Words)
        /\ <<"S">> \in Seq(Words)
    BY DEF Words
  <2>4. QED
    BY <2>2, <2>3
<1>3. QED
  BY <1>1, <1>2

LEMMA NoWords == \A reply \in NoTo : reply \in Seq(Words)
<1>1. NoTo \subseteq {<<"no">>, <<"bad">>, <<"no", "rest">>,
                     <<"message", "messageID", "response", "failure", "rest">>}
  BY DEF NoTo
<1>2. /\ <<"no">> \in Seq(Words) /\ <<"bad">> \in Seq(Words) /\ <<"no", "rest">> \in Seq(Words)
      /\ <<"message", "messageID", "response", "failure", "rest">> \in Seq(Words)
  BY DEF Words
<1>3. QED
  BY <1>1, <1>2

LEMMA FragmentWords ==
    ASSUME NEW kind \in Words
    PROVE  Fragments(kind) \subseteq Words
  BY DEF Fragments, Words

LEMMA UnitType ==
    ASSUME NEW kind \in Words, NEW cut \in BOOLEAN
    PROVE  Unit(kind, cut) \in Pieces /\ Unit(kind, cut).is = kind /\ Unit(kind, cut).cut = cut
  BY DEF Unit, Pieces

(* The table does not change. *)
LEMMA Frame ==
    ASSUME [Next]_vars
    PROVE  /\ proto' = proto
           /\ Stages' = Stages
           /\ \A k : IsUpgrade(k)' <=> IsUpgrade(k)
           /\ \A k : YesTo(k)' = YesTo(k)
           /\ NoTo' = NoTo
<1>1. proto' = proto
  BY DEF Next, Client, Ask, AskFails, Fill, Read, ReadFails, Hello, Deadline, Answer, Send, Chat,
     Close, vars
<1>2. Stages' = Stages
  BY <1>1 DEF Stages
<1>3. QED
  BY <1>1, <1>2 DEF IsUpgrade, YesTo, NoTo

LEMMA CatParts ==
    ASSUME NEW P, NEW s \in Seq(P), NEW t \in Seq(P)
    PROVE  /\ s \o t \in Seq(P)
           /\ Len(s) \in Nat /\ Len(t) \in Nat
           /\ Len(s \o t) = Len(s) + Len(t)
           /\ \A i \in 1..Len(s) : (s \o t)[i] = s[i]
           /\ \A i \in 1..Len(t) : (s \o t)[Len(s) + i] = t[i]
           /\ \A i \in (Len(s) + 1)..(Len(s) + Len(t)) : (s \o t)[i] = t[i - Len(s)]
  OBVIOUS

LEMMA AppendParts ==
    ASSUME NEW P, NEW s \in Seq(P), NEW u \in P
    PROVE  /\ Append(s, u) \in Seq(P)
           /\ Len(s) \in Nat
           /\ Len(Append(s, u)) = Len(s) + 1
           /\ \A i \in 1..Len(s) : Append(s, u)[i] = s[i]
           /\ Append(s, u)[Len(s) + 1] = u
  OBVIOUS

LEMMA AheadParts ==
    ASSUME Shape
    PROVE  /\ Ahead \in Seq(Pieces)
           /\ Len(buf) \in Nat /\ Len(wire) \in Nat
           /\ Len(Ahead) = Len(buf) + Len(wire)
           /\ \A i \in 1..Len(buf) : Ahead[i] = buf[i]
           /\ \A i \in 1..Len(wire) : Ahead[Len(buf) + i] = wire[i]
  BY DEF Shape, Ahead

(* More units arrive. *)
LEMMA AllArrive ==
    ASSUME Shape, buf' = buf, NEW us \in Seq(Pieces), wire' = wire \o us
    PROVE  /\ wire' \in Seq(Pieces) /\ Len(wire') = Len(wire) + Len(us)
           /\ Len(Ahead') = Len(Ahead) + Len(us)
           /\ \A i \in 1..Len(Ahead) : Ahead'[i] = Ahead[i]
           /\ \A i \in 1..Len(us) : Ahead'[Len(Ahead) + i] = us[i]
<1>1. /\ wire' \in Seq(Pieces) /\ Len(wire') = Len(wire) + Len(us)
      /\ Len(wire) \in Nat /\ Len(us) \in Nat
      /\ \A i \in 1..Len(us) : wire'[Len(wire) + i] = us[i]
      /\ \A i \in 1..Len(wire) : wire'[i] = wire[i]
  BY CatParts DEF Shape
<1>2. /\ Len(Ahead') = Len(buf) + Len(wire') /\ Len(buf) \in Nat
      /\ \A i \in 1..Len(buf) : Ahead'[i] = buf[i]
      /\ \A i \in 1..Len(wire') : Ahead'[Len(buf) + i] = wire'[i]
  BY <1>1, CatParts DEF Shape, Ahead
<1>3. /\ Len(Ahead) = Len(buf) + Len(wire)
      /\ \A i \in 1..Len(buf) : Ahead[i] = buf[i]
      /\ \A i \in 1..Len(wire) : Ahead[Len(buf) + i] = wire[i]
  BY AheadParts
<1>4. ASSUME NEW i \in 1..Len(Ahead) PROVE Ahead'[i] = Ahead[i]
  <2>1. CASE i \in 1..Len(buf)
    BY <1>2, <1>3, <2>1
  <2>2. CASE i \notin 1..Len(buf)
    <3>1. PICK j \in 1..Len(wire) : i = Len(buf) + j
      <4>1. i - Len(buf) \in 1..Len(wire) /\ i = Len(buf) + (i - Len(buf))
        BY <1>1, <1>2, <1>3, <2>2
      <4>2. QED
        BY <4>1
    <3>2. j \in 1..Len(wire')
      BY <1>1, <3>1
    <3>3. QED
      BY <1>1, <1>2, <1>3, <3>1, <3>2
  <2>3. QED
    BY <2>1, <2>2
<1>5. ASSUME NEW i \in 1..Len(us) PROVE Ahead'[Len(Ahead) + i] = us[i]
  <2>1. Len(wire) + i \in 1..Len(wire') /\ Len(Ahead) + i = Len(buf) + (Len(wire) + i)
    BY <1>1, <1>2, <1>3
  <2>2. QED
    BY <1>1, <1>2, <2>1
<1>6. QED
  BY <1>1, <1>2, <1>3, <1>4, <1>5

LEMMA Arrives ==
    ASSUME Shape, buf' = buf, NEW u \in Pieces, wire' = Append(wire, u)
    PROVE  /\ wire' \in Seq(Pieces) /\ Len(wire') = Len(wire) + 1
           /\ Len(Ahead') = Len(Ahead) + 1
           /\ \A i \in 1..Len(Ahead) : Ahead'[i] = Ahead[i]
           /\ Ahead'[Len(Ahead) + 1] = u
<1> DEFINE us == <<u>>
<1>1. us \in Seq(Pieces) /\ Len(us) = 1 /\ us[1] = u
  OBVIOUS
<1>2. wire' = wire \o us
  BY DEF Shape
<1> HIDE DEF us
<1>3. /\ wire' \in Seq(Pieces) /\ Len(wire') = Len(wire) + Len(us)
      /\ Len(Ahead') = Len(Ahead) + Len(us)
      /\ \A i \in 1..Len(Ahead) : Ahead'[i] = Ahead[i]
      /\ \A i \in 1..Len(us) : Ahead'[Len(Ahead) + i] = us[i]
  BY <1>1, <1>2, AllArrive
<1>4. 1 \in 1..Len(us)
  BY <1>1
<1>5. QED
  BY <1>1, <1>3, <1>4

(* The first is looked at. *)
LEMMA Looks ==
    ASSUME Shape, buf # <<>>, buf' = Tail(buf), wire' = wire
    PROVE  /\ buf' \in Seq(Pieces)
           /\ Len(Ahead) > 0 /\ Head(buf) = Ahead[1] /\ Ahead[1] \in Pieces
           /\ Len(Ahead') = Len(Ahead) - 1
           /\ \A i \in 1..Len(Ahead') : Ahead'[i] = Ahead[i + 1]
<1>1. /\ Len(buf) \in Nat /\ Len(buf) > 0 /\ Head(buf) = buf[1] /\ buf[1] \in Pieces
      /\ buf' \in Seq(Pieces) /\ Len(buf') = Len(buf) - 1
      /\ \A i \in 1..Len(buf') : buf'[i] = buf[i + 1]
  BY DEF Shape
<1>2. /\ Len(Ahead) = Len(buf) + Len(wire) /\ Len(wire) \in Nat
      /\ \A i \in 1..Len(buf) : Ahead[i] = buf[i]
      /\ \A i \in 1..Len(wire) : Ahead[Len(buf) + i] = wire[i]
  BY AheadParts
<1>3. /\ Len(Ahead') = Len(buf') + Len(wire)
      /\ \A i \in 1..Len(buf') : Ahead'[i] = buf'[i]
      /\ \A i \in 1..Len(wire) : Ahead'[Len(buf') + i] = wire[i]
  BY <1>1, CatParts DEF Shape, Ahead
<1>4. ASSUME NEW i \in 1..Len(Ahead') PROVE Ahead'[i] = Ahead[i + 1]
  <2>1. CASE i \in 1..Len(buf')
    BY <1>1, <1>2, <1>3, <2>1
  <2>2. CASE i \notin 1..Len(buf')
    <3>1. PICK j \in 1..Len(wire) : i = Len(buf') + j
      <4>1. i - Len(buf') \in 1..Len(wire) /\ i = Len(buf') + (i - Len(buf'))
        BY <1>1, <1>2, <1>3, <2>2
      <4>2. QED
        BY <4>1
    <3>2. i + 1 = Len(buf) + j
      BY <1>1, <3>1
    <3>3. QED
      BY <1>2, <1>3, <3>1, <3>2
  <2>3. QED
    BY <2>1, <2>2
<1>5. QED
  BY <1>1, <1>2, <1>3, <1>4

LEMMA ReachFacts ==
    ASSUME SInv, Fill
    PROVE  /\ Reach(proto) \in 1..Len(wire)
           /\ taken + Reach(proto) <= MaxUnits
<1>1. Len(wire) \in Nat /\ Len(wire) > 0 /\ taken \in 0..MaxUnits /\ Reach(proto) \in Int
  <2>1. wire \in Seq(Pieces) /\ wire # <<>> /\ taken \in 0..MaxUnits
    BY DEF SInv, Shape, Fill
  <2>2. Len(wire) \in Nat /\ Len(wire) > 0
    BY <2>1
  <2>3. MaxUnits \in Nat
    BY StartTLSAssumption
  <2>4. QED
    BY <2>1, <2>2, <2>3 DEF Reach, Smallest, Budget
<1>6. Reach(proto) > 0
  <2>1. PICK n \in 1..Reach(proto) : TRUE
    BY DEF Fill
  <2>2. QED
    BY <1>1, <2>1
<1>2. MaxUnits \in Nat \ {0}
  BY StartTLSAssumption
<1>3. CASE proto = "postgres"
  BY <1>1, <1>2, <1>3 DEF SInv, ControlInv, Fill, Reach
<1>4. CASE proto # "postgres"
  BY <1>1, <1>2, <1>4, <1>6 DEF Reach, Smallest, Budget
<1>5. QED
  BY <1>3, <1>4

(* A read of the socket moves what it reaches, and may cut the last of it. *)
LEMMA Fills ==
    ASSUME SInv, Fill
    PROVE  /\ buf' \in Seq(Pieces) /\ wire' \in Seq(Pieces) /\ taken' \in 0..MaxUnits
           /\ buf' # <<>>
           /\ Len(Ahead') = Len(Ahead)
           /\ \A i \in 1..Len(Ahead) :
                Ahead'[i] = Ahead[i] \/ (proto \in Text /\ Ahead'[i].cut)
<1>2. PICK n \in 1..Reach(proto) :
        /\ buf = <<>> /\ wire' = SubSeq(wire, n + 1, Len(wire))
        /\ taken' = taken + n \/ taken' = MaxUnits
        /\ \/ buf' = SubSeq(wire, 1, n)
           \/ /\ proto \in Text
              /\ \E kind \in Fragments(wire[n].is) :
                   buf' = Append(SubSeq(wire, 1, n - 1), Unit(kind, TRUE))
  BY DEF Fill
<1>3. wire \in Seq(Pieces) /\ Len(wire) \in Nat /\ taken \in 0..MaxUnits /\ MaxUnits \in Nat
  BY StartTLSAssumption DEF SInv, Shape
<1>1. n \in 1..Len(wire) /\ taken + n <= MaxUnits
  BY <1>3, ReachFacts
<1>4. /\ wire' \in Seq(Pieces) /\ Len(wire') = Len(wire) - n
      /\ \A i \in 1..Len(wire') : wire'[i] = wire[n + i]
  BY <1>1, <1>2, <1>3
<1>5. /\ buf' \in Seq(Pieces) /\ Len(buf') = n
      /\ \A i \in 1..n : buf'[i] = wire[i] \/ (proto \in Text /\ buf'[i].cut)
  <2>1. CASE buf' = SubSeq(wire, 1, n)
    BY <1>1, <1>3, <2>1
  <2>2. CASE /\ proto \in Text
             /\ \E kind \in Fragments(wire[n].is) :
                  buf' = Append(SubSeq(wire, 1, n - 1), Unit(kind, TRUE))
    <3>1. PICK kind \in Fragments(wire[n].is) :
            buf' = Append(SubSeq(wire, 1, n - 1), Unit(kind, TRUE))
      BY <2>2
    <3>2. wire[n].is \in Words
      <4>1. wire[n] \in Pieces
        BY <1>1, <1>3
      <4>2. QED
        BY <4>1 DEF Pieces
    <3>3. kind \in Words
      BY <3>1, <3>2, FragmentWords
    <3>4. Unit(kind, TRUE) \in Pieces /\ Unit(kind, TRUE).cut
      BY <3>3, UnitType
    <3> DEFINE first == SubSeq(wire, 1, n - 1)
    <3>5. /\ first \in Seq(Pieces) /\ Len(first) = n - 1
          /\ \A i \in 1..(n - 1) : first[i] = wire[i]
      BY <1>1, <1>3
    <3> HIDE DEF first
    <3>6. PICK u \in Pieces : u.cut /\ buf' = Append(first, u)
      BY <3>1, <3>4 DEF first
    <3>7. /\ buf' \in Seq(Pieces) /\ Len(buf') = (n - 1) + 1
          /\ \A i \in 1..(n - 1) : buf'[i] = first[i]
          /\ buf'[(n - 1) + 1] = u
      BY <3>5, <3>6, AppendParts
    <3>10. n \in Int /\ (n - 1) + 1 = n
      BY <1>1, <1>3
    <3>8. ASSUME NEW i \in 1..n PROVE buf'[i] = wire[i] \/ buf'[i].cut
      <4>1. CASE i = n
        BY <3>6, <3>7, <3>10, <4>1
      <4>2. CASE i # n
        BY <3>5, <3>7, <3>10, <4>2
      <4>3. QED
        BY <4>1, <4>2
    <3>9. QED
      BY <2>2, <3>7, <3>8, <3>10
  <2>3. QED
    BY <1>2, <2>1, <2>2
<1>6. Ahead' = buf' \o wire' /\ Ahead = wire
  BY <1>2, <1>3 DEF Ahead
<1>7. /\ Len(Ahead') = Len(Ahead)
      /\ \A i \in 1..n : Ahead'[i] = buf'[i]
      /\ \A i \in (n + 1)..Len(wire) : Ahead'[i] = wire'[i - n]
  <2>1. /\ Len(Ahead') = Len(buf') + Len(wire')
        /\ \A i \in 1..Len(buf') : Ahead'[i] = buf'[i]
        /\ \A i \in (Len(buf') + 1)..(Len(buf') + Len(wire')) : Ahead'[i] = wire'[i - Len(buf')]
    <3>1. PICK b \in Seq(Pieces), w \in Seq(Pieces) : b = buf' /\ w = wire'
      BY <1>4, <1>5
    <3>2. /\ Len(b \o w) = Len(b) + Len(w)
          /\ \A i \in 1..Len(b) : (b \o w)[i] = b[i]
          /\ \A i \in (Len(b) + 1)..(Len(b) + Len(w)) : (b \o w)[i] = w[i - Len(b)]
      BY CatParts
    <3>3. QED
      BY <1>6, <3>1, <3>2
  <2>2. QED
    BY <1>1, <1>3, <1>4, <1>5, <1>6, <2>1
<1>8. \A i \in 1..Len(Ahead) : Ahead'[i] = Ahead[i] \/ (proto \in Text /\ Ahead'[i].cut)
  BY <1>1, <1>3, <1>4, <1>5, <1>6, <1>7
<1>9. buf' # <<>> /\ taken' \in 0..MaxUnits
  BY <1>1, <1>2, <1>3, <1>5
<1>10. QED
  BY <1>4, <1>5, <1>7, <1>8, <1>9

-------------------------------------------------------------------------------
(* The first two conjuncts.                                                *)

LEMMA EnteredIs ==
    ASSUME proto \in Protocols, NEW k \in 1..(Len(Stages) + 1)
    PROVE  /\ k = Len(Stages) + 1 => Entered(k) = "hello"
           /\ k <= Len(Stages) =>
                Entered(k) = IF Stages[k].asks = None THEN "reading" ELSE "asking"
  BY StagesLength DEF Entered

(* A server's record, when some of it changes. *)
LEMMA ServerParts ==
    ASSUME NEW last \in Nat, NEW s \in Servers(last)
    PROVE  /\ s.at \in Nat /\ s.due \in 0..last /\ s.todo \in Seq(Words)
           /\ s.yes \in BOOLEAN /\ s.no \in BOOLEAN /\ s.closed \in BOOLEAN
  BY DEF Servers

LEMMA ServerGoesOn ==
    ASSUME NEW last \in Nat, NEW s \in Servers(last), NEW todo \in Seq(Words),
           NEW t, t = [s EXCEPT !.todo = todo]
    PROVE  /\ t \in Servers(last)
           /\ t.todo = todo /\ t.at = s.at /\ t.due = s.due
           /\ t.yes = s.yes /\ t.no = s.no /\ t.closed = s.closed
  BY DEF Servers

LEMMA ServerIsAsked ==
    ASSUME NEW last \in Nat, NEW s \in Servers(last), NEW due \in 0..last,
           NEW t, t = [s EXCEPT !.due = due]
    PROVE  /\ t \in Servers(last)
           /\ t.due = due /\ t.at = s.at /\ t.todo = s.todo
           /\ t.yes = s.yes /\ t.no = s.no /\ t.closed = s.closed
  BY DEF Servers

LEMMA ServerType ==
    ASSUME Shape
    PROVE  /\ server \in Servers(Len(Stages)) /\ Len(Stages) \in Nat \ {0}
           /\ server.at \in Nat /\ server.due \in 0..Len(Stages) /\ server.todo \in Seq(Words)
           /\ server.yes \in BOOLEAN /\ server.no \in BOOLEAN /\ server.closed \in BOOLEAN
  BY StagesLength, ServerParts DEF Shape

(* What the actions of the server leave of it. *)
LEMMA AnswerFacts ==
    ASSUME Shape, Answer
    PROVE  /\ server.due \in 1..Len(Stages) /\ ~server.closed
           /\ server'.at = server.due /\ server'.due = 0 /\ server'.closed = server.closed
           /\ \/ /\ server'.todo \in YesTo(server.due)
                 /\ server'.yes = IsUpgrade(server.due) /\ server'.no = server.no
              \/ /\ server'.todo \in NoTo
                 /\ server'.yes = server.yes /\ server'.no = TRUE
           /\ server' \in Servers(Len(Stages))
           /\ UNCHANGED <<proto, phase, stage, buf, taken, cutShort, outcome, wire>>
<1>1. Len(Stages) \in Nat \ {0}
  BY StagesLength DEF Shape
<1>2. server.due \in 1..Len(Stages) /\ ~server.closed
  <2>1. server.due # 0 /\ ~server.closed
    BY DEF Answer
  <2>2. QED
    BY <1>1, <2>1, ServerType
<1>11. server.due \in Nat /\ 0 \in 0..Len(Stages)
  BY <1>1, <1>2
<1>3. UNCHANGED <<proto, phase, stage, buf, taken, cutShort, outcome, wire>>
  BY DEF Answer, client
<1>4. IsUpgrade(server.due) \in BOOLEAN
  BY DEF IsUpgrade
<1>5. CASE \E reply \in YesTo(server.due) :
             server' = [server EXCEPT !.at = server.due, !.due = 0, !.todo = reply,
                                      !.yes = IsUpgrade(server.due)]
  <2>1. PICK reply \in YesTo(server.due) :
             server' = [server EXCEPT !.at = server.due, !.due = 0, !.todo = reply,
                                      !.yes = IsUpgrade(server.due)]
    BY <1>5
  <2>2. reply \in Seq(Words)
    BY <1>2, YesWords DEF Shape
  <2> DEFINE upgrade == IsUpgrade(server.due)
  <2>3. /\ upgrade \in BOOLEAN
        /\ server' = [server EXCEPT !.at = server.due, !.due = 0, !.todo = reply, !.yes = upgrade]
    BY <1>4, <2>1
  <2> HIDE DEF upgrade
  <2>4. /\ server'.at = server.due /\ server'.due = 0 /\ server'.closed = server.closed
        /\ server'.todo = reply /\ server'.yes = upgrade /\ server'.no = server.no
        /\ server' \in Servers(Len(Stages))
    <3>1. server \in Servers(Len(Stages)) /\ Len(Stages) \in Nat
      BY ServerType
    <3>2. server' = [at |-> server.due, due |-> 0, todo |-> reply,
                     yes |-> upgrade, no |-> server.no, closed |-> server.closed]
      BY <2>3, <3>1 DEF Servers
    <3>3. server.at \in Nat /\ server.yes \in BOOLEAN /\ server.no \in BOOLEAN /\ server.closed \in BOOLEAN
      BY ServerType
    <3>4. server' \in Servers(Len(Stages))
      BY <1>11, <2>2, <2>3, <3>2, <3>3 DEF Servers
    <3>5. QED
      BY <3>2, <3>4
  <2>5. QED
    BY <1>2, <1>3, <2>1, <2>4 DEF upgrade
<1>6. CASE \E reply \in NoTo :
             server' = [server EXCEPT !.at = server.due, !.due = 0, !.todo = reply, !.no = TRUE]
  <2>1. PICK reply \in NoTo :
             server' = [server EXCEPT !.at = server.due, !.due = 0, !.todo = reply, !.no = TRUE]
    BY <1>6
  <2>2. reply \in Seq(Words)
    BY NoWords
  <2>3. /\ server'.at = server.due /\ server'.due = 0 /\ server'.closed = server.closed
        /\ server'.todo = reply /\ server'.yes = server.yes /\ server'.no = TRUE
        /\ server' \in Servers(Len(Stages))
    <3>1. server \in Servers(Len(Stages)) /\ Len(Stages) \in Nat
      BY ServerType
    <3>2. server' = [at |-> server.due, due |-> 0, todo |-> reply,
                     yes |-> server.yes, no |-> TRUE, closed |-> server.closed]
      BY <2>1, <3>1 DEF Servers
    <3>3. server.at \in Nat /\ server.yes \in BOOLEAN /\ server.no \in BOOLEAN /\ server.closed \in BOOLEAN
      BY ServerType
    <3>4. server' \in Servers(Len(Stages))
      BY <1>11, <2>2, <3>2, <3>3 DEF Servers
    <3>5. QED
      BY <3>2, <3>4
  <2>4. QED
    BY <1>2, <1>3, <2>1, <2>3
<1>7. QED
  BY <1>5, <1>6 DEF Answer

LEMMA SendFacts ==
    ASSUME Shape, Send
    PROVE  /\ server.todo # <<>> /\ ~server.closed
           /\ UNCHANGED <<proto, phase, stage, buf, taken, cutShort, outcome>>
           /\ server'.at = server.at /\ server'.due = server.due /\ server'.closed = server.closed
           /\ server'.yes = server.yes /\ server'.no = server.no
           /\ server' \in Servers(Len(Stages))
           /\ Len(server.todo) \in Nat \ {0}
           /\ Len(server'.todo) = Len(server.todo) - 1
           /\ \A i \in 1..Len(server'.todo) : server'.todo[i] = server.todo[i + 1]
           /\ wire' \in Seq(Pieces) /\ Len(Ahead') = Len(Ahead) + 1
           /\ \A i \in 1..Len(Ahead) : Ahead'[i] = Ahead[i]
           /\ Ahead'[Len(Ahead) + 1] = Unit(server.todo[1], FALSE)
<1> DEFINE u == Unit(Head(server.todo), FALSE)
           rest == Tail(server.todo)
<1>1. /\ server.todo # <<>> /\ ~server.closed
      /\ UNCHANGED <<proto, phase, stage, buf, taken, cutShort, outcome>>
      /\ wire' = Append(wire, u)
      /\ server' = [server EXCEPT !.todo = rest]
  BY DEF Send, client
<1>2. server.todo \in Seq(Words) /\ Len(server.todo) \in Nat \ {0}
  BY <1>1, ServerType
<1>3. Head(server.todo) = server.todo[1] /\ server.todo[1] \in Words
  BY <1>1, <1>2
<1>4. u \in Pieces /\ u = Unit(server.todo[1], FALSE)
  BY <1>3, UnitType
<1>5. /\ rest \in Seq(Words) /\ Len(rest) = Len(server.todo) - 1
      /\ \A i \in 1..Len(rest) : rest[i] = server.todo[i + 1]
  BY <1>1, <1>2
<1> HIDE DEF rest
<1>6. /\ server'.at = server.at /\ server'.due = server.due /\ server'.closed = server.closed
      /\ server'.yes = server.yes /\ server'.no = server.no /\ server'.todo = rest
      /\ server' \in Servers(Len(Stages))
  <2>1. server' = [server EXCEPT !.todo = rest] /\ rest \in Seq(Words)
    BY <1>1, <1>5
  <2>2. server \in Servers(Len(Stages)) /\ Len(Stages) \in Nat
    BY ServerType
  <2>3. QED
    BY <2>1, <2>2, ServerGoesOn
<1>7. wire' = Append(wire, u) /\ buf' = buf
  BY <1>1
<1> HIDE DEF u
<1>8. /\ wire' \in Seq(Pieces) /\ Len(wire') = Len(wire) + 1
      /\ Len(Ahead') = Len(Ahead) + 1
      /\ \A i \in 1..Len(Ahead) : Ahead'[i] = Ahead[i]
      /\ Ahead'[Len(Ahead) + 1] = u
  BY <1>4, <1>7, Arrives
<1>9. QED
  BY <1>1, <1>2, <1>4, <1>5, <1>6, <1>8

LEMMA ChatFacts ==
    ASSUME Shape, Chat
    PROVE  /\ proto \in Text /\ ~server.closed
           /\ UNCHANGED <<proto, phase, stage, buf, taken, cutShort, outcome, server>>
           /\ \E kind \in Words :
                /\ \/ server.todo # <<>> /\ kind \in Stages[server.at].skips
                   \/ proto = "imap" /\ server.at = 1 /\ server.todo = <<>> /\ kind = "*"
                /\ wire' \in Seq(Pieces)
                /\ Len(Ahead') = Len(Ahead) + 1
                /\ \A i \in 1..Len(Ahead) : Ahead'[i] = Ahead[i]
                /\ Ahead'[Len(Ahead) + 1] = Unit(kind, FALSE)
<1>1. PICK kind \in {"220-", "250-", "*"} :
           /\ \/ server.todo # <<>> /\ kind \in Stages[server.at].skips
              \/ proto = "imap" /\ server.at = 1 /\ server.todo = <<>> /\ kind = "*"
           /\ wire' = Append(wire, Unit(kind, FALSE))
  BY DEF Chat
<1>2. kind \in Words
  BY DEF Words
<1> DEFINE u == Unit(kind, FALSE)
<1>3. u \in Pieces
  BY <1>2, UnitType
<1>4. proto \in Text /\ ~server.closed /\
      UNCHANGED <<proto, phase, stage, buf, taken, cutShort, outcome, server>>
  BY DEF Chat, client
<1>5. wire' = Append(wire, u) /\ buf' = buf
  BY <1>1, <1>4
<1> HIDE DEF u
<1>6. /\ wire' \in Seq(Pieces) /\ Len(wire') = Len(wire) + 1
      /\ Len(Ahead') = Len(Ahead) + 1
      /\ \A i \in 1..Len(Ahead) : Ahead'[i] = Ahead[i]
      /\ Ahead'[Len(Ahead) + 1] = u
  BY <1>3, <1>5, Arrives
<1>7. QED
  BY <1>1, <1>2, <1>4, <1>6 DEF u

LEMMA CloseFacts ==
    ASSUME Shape, Close
    PROVE  /\ ~server.closed
           /\ UNCHANGED <<proto, phase, stage, buf, taken, cutShort, outcome>>
           /\ server'.at = server.at /\ server'.due = 0 /\ server'.todo = <<>>
           /\ server'.closed /\ server'.yes = server.yes /\ server'.no = server.no
           /\ server' \in Servers(Len(Stages))
           /\ \/ wire' = wire /\ Ahead' = Ahead
              \/ /\ proto \in Text /\ server.todo # <<>>
                 /\ wire' \in Seq(Pieces)
                 /\ Len(Ahead') = Len(Ahead) + 1
                 /\ \A i \in 1..Len(Ahead) : Ahead'[i] = Ahead[i]
                 /\ Ahead'[Len(Ahead) + 1].cut
<1>1. /\ ~server.closed
      /\ UNCHANGED <<proto, phase, stage, buf, taken, cutShort, outcome>>
      /\ server' = [server EXCEPT !.closed = TRUE, !.todo = <<>>, !.due = 0]
  BY DEF Close, client
<1>2. <<>> \in Seq(Words) /\ Len(Stages) \in Nat
  BY StagesLength DEF Shape
<1>11. 0 \in 0..Len(Stages)
  BY <1>2
<1>3. /\ server'.at = server.at /\ server'.due = 0 /\ server'.todo = <<>>
      /\ server'.closed /\ server'.yes = server.yes /\ server'.no = server.no
      /\ server' \in Servers(Len(Stages))
  <2>1. server \in Servers(Len(Stages)) /\ Len(Stages) \in Nat
    BY ServerType
  <2>2. server' = [at |-> server.at, due |-> 0, todo |-> <<>>,
                 yes |-> server.yes, no |-> server.no, closed |-> TRUE]
    BY <1>1, <2>1 DEF Servers
  <2>3. server.at \in Nat /\ server.yes \in BOOLEAN /\ server.no \in BOOLEAN /\ server.closed \in BOOLEAN
    BY ServerType
  <2>4. server' \in Servers(Len(Stages))
    BY <1>2, <1>11, <2>2, <2>3 DEF Servers
  <2>5. QED
    BY <2>2, <2>4
<1>4. CASE wire' = wire
  BY <1>1, <1>3, <1>4 DEF Ahead
<1>5. CASE /\ proto \in Text
           /\ server.todo # <<>>
           /\ \E kind \in Fragments(Head(server.todo)) : wire' = Append(wire, Unit(kind, TRUE))
  <2>1. PICK kind \in Fragments(Head(server.todo)) : wire' = Append(wire, Unit(kind, TRUE))
    BY <1>5
  <2>2. Head(server.todo) \in Words
    BY <1>5, ServerType
  <2>3. kind \in Words
    BY <2>1, <2>2, FragmentWords
  <2>4. PICK u \in Pieces : u.cut /\ wire' = Append(wire, u)
    BY <2>1, <2>3, UnitType
  <2>5. /\ wire' \in Seq(Pieces) /\ Len(wire') = Len(wire) + 1
        /\ Len(Ahead') = Len(Ahead) + 1
        /\ \A i \in 1..Len(Ahead) : Ahead'[i] = Ahead[i]
        /\ Ahead'[Len(Ahead) + 1] = u
    BY <1>1, <2>4, Arrives
  <2>6. QED
    BY <1>1, <1>3, <1>5, <2>4, <2>5
<1>6. QED
  BY <1>4, <1>5 DEF Close

LEMMA AskFacts ==
    ASSUME Shape, ControlInv, Ask
    PROVE  /\ phase = "asking" /\ phase' = "reading" /\ stage \in 1..Len(Stages)
           /\ UNCHANGED <<proto, stage, buf, taken, cutShort, outcome, wire>>
           /\ Ahead' = Ahead
           /\ server'.at = server.at /\ server'.todo = server.todo
           /\ server'.yes = server.yes /\ server'.no = server.no
           /\ server'.closed = server.closed
           /\ server'.due = IF server.closed THEN 0 ELSE stage
           /\ server' \in Servers(Len(Stages))
<1> DEFINE d == IF server.closed THEN 0 ELSE stage
<1>1. /\ phase = "asking" /\ phase' = "reading"
      /\ server' = [server EXCEPT !.due = d]
      /\ UNCHANGED <<proto, stage, buf, taken, cutShort, outcome, wire>>
  BY DEF Ask
<1>2. server \in Servers(Len(Stages)) /\ Len(Stages) \in Nat
  BY ServerType
<1>3. d \in 0..Len(Stages) /\ stage \in 1..Len(Stages)
  BY <1>1, <1>2 DEF Shape, ControlInv
<1>4. Ahead' = Ahead
  BY <1>1 DEF Ahead
<1> HIDE DEF d
<1>5. /\ server'.at = server.at /\ server'.todo = server.todo
      /\ server'.yes = server.yes /\ server'.no = server.no
      /\ server'.closed = server.closed /\ server'.due = d
      /\ server' \in Servers(Len(Stages))
  BY <1>1, <1>2, <1>3, ServerIsAsked
<1>6. QED
  BY <1>1, <1>3, <1>4, <1>5 DEF d

LEMMA ReadFacts ==
    ASSUME Shape, ControlInv, Read
    PROVE  /\ phase = "reading" /\ stage \in 1..Len(Stages)
           /\ UNCHANGED <<proto, taken, wire, server>>
           /\ cutShort' \in BOOLEAN
           /\ cutShort' <=> cutShort \/ Ahead[1].cut
           /\ buf' \in Seq(Pieces)
           /\ Len(Ahead) \in Nat /\ Len(Ahead) > 0 /\ Ahead[1] \in Pieces
           /\ Len(Ahead') = Len(Ahead) - 1
           /\ \A i \in 1..Len(Ahead') : Ahead'[i] = Ahead[i + 1]
           /\ \/ /\ Ahead[1].is \in Stages[stage].skips
                 /\ UNCHANGED <<phase, stage, outcome>>
              \/ /\ Ahead[1].is \in Stages[stage].wants \ Stages[stage].skips
                 /\ stage' = stage + 1 /\ phase' = Entered(stage + 1)
                 /\ UNCHANGED outcome
              \/ /\ Ahead[1].is \notin Stages[stage].wants \cup Stages[stage].skips
                 /\ phase' = "over" /\ outcome' = "refusal" /\ UNCHANGED stage
<1>1. /\ phase = "reading" /\ buf # <<>> /\ buf' = Tail(buf)
      /\ UNCHANGED <<proto, taken, wire, server>>
      /\ cutShort' = (cutShort \/ Head(buf).cut)
  BY DEF Read
<1>2. stage \in 1..Len(Stages)
  BY <1>1, ServerType DEF Shape, ControlInv
<1>3. /\ buf' \in Seq(Pieces)
      /\ Len(Ahead) > 0 /\ Head(buf) = Ahead[1] /\ Ahead[1] \in Pieces
      /\ Len(Ahead') = Len(Ahead) - 1
      /\ \A i \in 1..Len(Ahead') : Ahead'[i] = Ahead[i + 1]
  BY <1>1, Looks
<1>4. cutShort' \in BOOLEAN /\ (cutShort' <=> cutShort \/ Ahead[1].cut)
  <2>1. Ahead[1].cut \in BOOLEAN /\ cutShort \in BOOLEAN
    BY <1>3 DEF Pieces, Shape
  <2>2. cutShort' = (cutShort \/ Ahead[1].cut)
    BY <1>1, <1>3
  <2>3. QED
    BY <2>1, <2>2, Zenon
<1>5. Stages[stage].wants \cap Stages[stage].skips = {}
  <2>1. CASE proto \in Text
    BY <1>2, <2>1, TextStages
  <2>2. CASE proto \notin Text
    BY <1>2, <2>2, StagesLength, BinaryStages DEF Shape
  <2>3. QED
    BY <2>1, <2>2
<1>6. \/ /\ Ahead[1].is \in Stages[stage].skips
         /\ UNCHANGED <<phase, stage, outcome>>
      \/ /\ Ahead[1].is \in Stages[stage].wants
         /\ stage' = stage + 1 /\ phase' = Entered(stage + 1)
         /\ UNCHANGED outcome
      \/ /\ Ahead[1].is \notin Stages[stage].wants \cup Stages[stage].skips
         /\ phase' = "over" /\ outcome' = "refusal" /\ UNCHANGED stage
  BY <1>3 DEF Read, Skips, Wants, Ends
<1>7. Len(Ahead) \in Nat
  BY AheadParts
<1>8. QED
  BY <1>1, <1>2, <1>3, <1>4, <1>5, <1>6, <1>7

(* Every way to end that is not a refusal. *)
LEMMA EndFacts ==
    ASSUME Shape, AskFails \/ ReadFails \/ Hello \/ Deadline
    PROVE  /\ phase # "over" /\ phase' = "over"
           /\ outcome' \in DialError \cup {"verified"} /\ outcome' # "refusal"
           /\ UNCHANGED <<proto, stage, buf, taken, cutShort, wire, server>>
<1>1. /\ phase # "over" /\ phase' = "over"
      /\ UNCHANGED <<proto, stage, buf, taken, cutShort, wire, server>>
  BY DEF AskFails, ReadFails, Hello, Deadline, DeadlineCovers, Ends
<1>2. outcome' \in HandshakeError \cup {"reset", "eof", "timeout", "plaintext", "canceled", "verified"}
  BY DEF AskFails, ReadFails, Hello, Deadline, Ends
<1>3. QED
  BY <1>1, <1>2, Ended DEF HandshakeError

LEMMA ShapeInit == Init => Shape /\ ControlInv
<1> SUFFICES ASSUME Init PROVE Shape /\ ControlInv
  OBVIOUS
<1>1. proto \in Protocols /\ phase = Entered(1) /\ stage = 1 /\ buf = <<>> /\ taken = 0
      /\ cutShort = FALSE /\ outcome = None /\ wire = <<>>
  BY DEF Init
<1>2. Len(Stages) \in Nat \ {0}
  BY <1>1, StagesLength
<1>3. server \in Servers(Len(Stages)) /\ server.todo = <<>>
      /\ server.closed = FALSE
  <2> DEFINE d == IF proto \in Text THEN 1 ELSE 0
  <2>1. server = [at |-> 0, due |-> d, todo |-> <<>>, yes |-> FALSE, no |-> FALSE, closed |-> FALSE]
    BY DEF Init
  <2>2. d \in 0..Len(Stages) /\ <<>> \in Seq(Words)
    BY <1>2
  <2> HIDE DEF d
  <2>3. QED
    BY <2>1, <2>2 DEF Servers
<1>4. phase \in {"asking", "reading"} /\ (phase = "asking" => Stages[1].asks # None)
  BY <1>1, <1>2, EnteredIs
<1>5. MaxUnits \in Nat
  BY StartTLSAssumption
<1>6. Shape
  <2>1. 0 \in 0..MaxUnits /\ <<>> \in Seq(Pieces) /\ 1 \in Nat /\ FALSE \in BOOLEAN
    BY <1>5
  <2>2. None \in DialError \cup {None, "verified"}
    OBVIOUS
  <2>3. phase \in {"asking", "reading", "hello", "over"}
    BY <1>4
  <2>4. QED
    BY <1>1, <1>3, <2>1, <2>2, <2>3 DEF Shape
<1>7. ControlInv
  BY <1>1, <1>2, <1>3, <1>4 DEF ControlInv
<1>8. QED
  BY <1>6, <1>7

LEMMA ShapeKept ==
    ASSUME SInv, [Next]_vars
    PROVE  Shape'
<1> USE DEF SInv
<1>1. proto' = proto /\ Stages' = Stages
  BY Frame
<1>2. CASE Ask
  BY <1>1, <1>2, AskFacts DEF Shape
<1>3. CASE AskFails \/ ReadFails \/ Hello \/ Deadline
  BY <1>1, <1>3, EndFacts DEF Shape
<1>4. CASE Fill
  BY <1>1, <1>4, Fills DEF Shape, Fill
<1>5. CASE Read
  <2>1. stage \in 1..Len(Stages) /\ stage + 1 \in 1..(Len(Stages) + 1)
    BY <1>5, ReadFacts, ServerType
  <2>2. Entered(stage + 1) \in {"asking", "reading", "hello"}
    <3>1. stage + 1 = Len(Stages) + 1 \/ stage + 1 <= Len(Stages)
      BY <2>1, ServerType
    <3>2. proto \in Protocols
      BY DEF Shape
    <3>3. QED
      BY <2>1, <3>1, <3>2, EnteredIs
  <2>3. /\ UNCHANGED <<proto, taken, wire, server>>
        /\ cutShort' \in BOOLEAN /\ buf' \in Seq(Pieces)
    BY <1>5, ReadFacts
  <2>4. /\ phase' \in {"asking", "reading", "hello", "over"}
        /\ stage' \in Nat
        /\ outcome' \in DialError \cup {None, "verified"}
    BY <1>5, <2>1, <2>2, ReadFacts, Ended, ServerType DEF Shape
  <2>5. QED
    BY <1>1, <2>3, <2>4 DEF Shape
<1>6. CASE Answer
  BY <1>1, <1>6, AnswerFacts DEF Shape
<1>7. CASE Send
  BY <1>1, <1>7, SendFacts DEF Shape
<1>8. CASE Chat
  BY <1>1, <1>8, ChatFacts DEF Shape
<1>9. CASE Close
  BY <1>1, <1>9, CloseFacts DEF Shape
<1>10. CASE UNCHANGED vars
  BY <1>1, <1>10 DEF vars, Shape
<1>11. QED
  BY <1>2, <1>3, <1>4, <1>5, <1>6, <1>7, <1>8, <1>9, <1>10 DEF Next, Client

LEMMA ControlKept ==
    ASSUME SInv, [Next]_vars
    PROVE  ControlInv'
<1> USE DEF SInv
<1>1. proto' = proto /\ Stages' = Stages
  BY Frame
<1>2. CASE Ask
  BY <1>1, <1>2, AskFacts DEF ControlInv
<1>3. CASE AskFails \/ ReadFails \/ Hello \/ Deadline
  <2>1. outcome' # None
    BY <1>3, EndFacts, NoneIsNoEnd
  <2>2. QED
    BY <1>1, <1>3, <2>1, EndFacts DEF ControlInv
<1>4. CASE Fill
  <2>1. buf' # <<>>
    BY <1>4, Fills
  <2>2. QED
    BY <1>1, <1>4, <2>1 DEF ControlInv, Fill
<1>5. CASE Read
  <2>1. stage \in 1..Len(Stages) /\ phase = "reading"
        /\ UNCHANGED <<proto, taken, wire, server>>
    BY <1>5, ReadFacts
  <2>2. Len(Stages) \in Nat
    BY ServerType
  <2>3. proto \notin Text => ~Ahead[1].cut
    <3>1. ASSUME proto \notin Text PROVE ~Ahead[1].cut
      <4>1. Len(Ahead) \in Nat /\ Len(Ahead) > 0
        BY <1>5, ReadFacts
      <4>2. 1 \in 1..Len(Ahead)
        BY <4>1
      <4>3. PICK reply \in Replies : Remains(reply)
        BY <1>5, <2>1, <3>1, <4>1 DEF BinaryInv
      <4>4. Ahead[1] = Unit(reply[stage - 1 + 1], FALSE)
        BY <4>2, <4>3 DEF Remains
      <4>5. QED
        BY <4>4 DEF Unit
    <3>2. QED
      BY <3>1
  <2>4. CASE UNCHANGED <<phase, stage, outcome>>
    <3>1. proto # "postgres"
      <4>1. CASE proto = "postgres"
        <5>1. Stages[stage].skips = {}
          BY <2>1, <4>1, BinaryStages
        <5>2. stage # stage + 1
          BY <2>1, <2>2
        <5>3. Ahead[1].is \in Stages[stage].skips
          BY <1>5, <2>1, <2>4, <5>2, ReadFacts
        <5>4. QED
          BY <5>1, <5>3
      <4>2. QED
        BY <4>1
    <3>2. QED
      BY <1>1, <1>5, <2>1, <2>3, <2>4, <3>1, ReadFacts DEF ControlInv
  <2>5. CASE stage' = stage + 1 /\ phase' = Entered(stage + 1) /\ UNCHANGED outcome
    <3>1. /\ stage' = Len(Stages) + 1 => phase' = "hello"
          /\ stage' <= Len(Stages) =>
               phase' = IF Stages[stage'].asks = None THEN "reading" ELSE "asking"
      BY <2>1, <2>2, <2>5, EnteredIs DEF Shape
    <3>2. proto = "postgres" => phase' = "hello"
      BY <2>1, <2>5, <3>1, BinaryStages
    <3>3. QED
      BY <1>1, <1>5, <2>1, <2>2, <2>3, <2>5, <3>1, <3>2, ReadFacts DEF ControlInv
  <2>6. CASE phase' = "over" /\ outcome' = "refusal" /\ UNCHANGED stage
    <3>1. outcome' # None
      BY <2>6, Ended, NoneIsNoEnd
    <3>2. QED
      BY <1>1, <1>5, <2>1, <2>2, <2>3, <2>6, <3>1, ReadFacts DEF ControlInv
  <2>7. QED
    BY <1>5, <2>4, <2>5, <2>6, ReadFacts
<1>6. CASE Answer
  BY <1>1, <1>6, AnswerFacts DEF ControlInv
<1>7. CASE Send
  <2>1. UNCHANGED <<phase, stage, taken, cutShort, outcome, buf>> /\ ~server'.closed
    BY <1>7, SendFacts
  <2>2. QED
    BY <1>1, <2>1 DEF ControlInv
<1>8. CASE Chat
  BY <1>1, <1>8, ChatFacts DEF ControlInv
<1>9. CASE Close
  BY <1>1, <1>9, CloseFacts DEF ControlInv
<1>10. CASE UNCHANGED vars
  BY <1>1, <1>10 DEF vars, ControlInv
<1>11. QED
  BY <1>2, <1>3, <1>4, <1>5, <1>6, <1>7, <1>8, <1>9, <1>10 DEF Next, Client

-------------------------------------------------------------------------------
(* The text protocols.                                                     *)

(* What was said stays said. *)
LEMMA SaysKept ==
    ASSUME [Next]_vars, server.yes => server'.yes, server.no => server'.no
    PROVE  \A k, word : Says(k, word) => Says(k, word)'
  BY Frame DEF Says

LEMMA TextAsk ==
    ASSUME SInv, [Next]_vars, Ask, proto \in Text, ~cutShort
    PROVE  Pending'
<1>1. /\ phase = "asking" /\ stage' = stage /\ Ahead' = Ahead
      /\ server'.at = server.at /\ server'.todo = server.todo /\ server'.closed = server.closed
      /\ server'.due = IF server.closed THEN 0 ELSE stage
      /\ stage \in 1..Len(Stages)
  BY AskFacts DEF SInv
<1>2. /\ server.at = stage - 1 /\ server.todo = <<>>
      /\ \A i \in 1..Len(Ahead) : Unasked(i)
  BY <1>1 DEF SInv, TextInv
<1>3. Stages' = Stages
  BY Frame
<1>4. proto = "imap" => stage = 2 /\ "*" \in Stages[2].skips
  BY <1>1, TextStages DEF SInv, ControlInv
<1>5. \A i \in 1..Len(Ahead) : Ahead[i].cut \/ Ahead[i].is \in Stages[stage].skips
  BY <1>2, <1>4 DEF Unasked
<1>6. Chatter(Len(Ahead))'
  BY <1>1, <1>3, <1>5 DEF Chatter
<1>7. QED
  BY <1>1, <1>2, <1>6 DEF Pending

(* A unit that is no answer is looked at. *)
LEMMA TextSkip ==
    ASSUME SInv, [Next]_vars, Read, ~cutShort', NEW n \in 1..Len(Ahead), Chatter(n)
    PROVE  UNCHANGED <<phase, stage, outcome>> /\ Chatter(n - 1)'
<1>1. /\ ~Ahead[1].cut /\ stage \in 1..Len(Stages)
      /\ Len(Ahead) \in Nat /\ Len(Ahead') = Len(Ahead) - 1
      /\ \A i \in 1..Len(Ahead') : Ahead'[i] = Ahead[i + 1]
  BY ReadFacts DEF SInv
<1>2. Ahead[1].is \in Stages[stage].skips
  BY <1>1 DEF Chatter
<1>3. UNCHANGED <<phase, stage, outcome>>
  BY <1>2, ReadFacts DEF SInv
<1>4. Stages' = Stages
  BY Frame
<1>5. ASSUME NEW i \in 1..(n - 1)
      PROVE  Ahead'[i].cut \/ Ahead'[i].is \in Stages[stage].skips
  <2>1. i \in 1..Len(Ahead') /\ i + 1 \in 1..n
    BY <1>1
  <2>2. QED
    BY <1>1, <2>1 DEF Chatter
<1>6. QED
  BY <1>3, <1>4, <1>5 DEF Chatter

LEMMA TextSkipOne ==
    ASSUME SInv, [Next]_vars, Read, ~cutShort', Chatter(Len(Ahead))
    PROVE  UNCHANGED <<phase, stage, outcome>> /\ Chatter(Len(Ahead))'
<1>1. Len(Ahead) \in Nat /\ Len(Ahead) > 0 /\ Len(Ahead') = Len(Ahead) - 1
  BY ReadFacts DEF SInv
<1>2. PICK n \in 1..Len(Ahead) : n = Len(Ahead)
  BY <1>1
<1>3. UNCHANGED <<phase, stage, outcome>> /\ Chatter(n - 1)'
  BY <1>2, TextSkip
<1>4. QED
  BY <1>1, <1>2, <1>3 DEF Chatter

(* The answer is looked at. *)
LEMMA TextAnswered ==
    ASSUME SInv, [Next]_vars, Read, proto \in Text, ~cutShort', Given, AnswerAt(1)
    PROVE  TextInv'
<1>1. /\ ~Ahead[1].cut /\ stage \in 1..Len(Stages) /\ phase = "reading"
      /\ Len(Ahead) \in Nat /\ Len(Ahead) > 0 /\ Len(Ahead') = Len(Ahead) - 1
      /\ \A i \in 1..Len(Ahead') : Ahead'[i] = Ahead[i + 1]
      /\ server' = server
  BY ReadFacts DEF SInv
<1>2. Says(stage, Ahead[1].is)
  BY <1>1 DEF AnswerAt
<1>3. \A i \in 2..Len(Ahead) : stage = 1 /\ Unasked(i)
  BY DEF AnswerAt
<1>4. proto' = proto /\ Stages' = Stages
  BY Frame
<1>5. CASE Ahead[1].is \in Stages[stage].wants
  <2>1. Ahead[1].is \notin Stages[stage].skips
    BY <1>1, <1>5, TextStages
  <2>2. stage' = stage + 1 /\ phase' = Entered(stage + 1)
    BY <1>5, <2>1, ReadFacts DEF SInv
  <2>3. Len(Stages) \in {2, 3}
    BY TextStages
  <2>4. proto \in Protocols
    BY DEF SInv, Shape
  <2>5. CASE stage + 1 <= Len(Stages)
    <3>1. phase' = "asking"
      <4>1. stage + 1 \in 1..Len(Stages) /\ stage + 1 # 1
        BY <1>1, <2>3, <2>5
      <4>2. Stages[stage + 1].asks # None
        BY <4>1, TextStages
      <4>3. QED
        BY <2>2, <2>3, <2>4, <2>5, <4>1, <4>2, EnteredIs
    <3>2. ASSUME NEW i \in 1..Len(Ahead') PROVE Unasked(i)'
      <4>1. i + 1 \in 2..Len(Ahead)
        BY <1>1
      <4>2. QED
        BY <1>1, <1>3, <1>4, <4>1 DEF Unasked
    <3>3. server.at = stage' - 1 /\ server.due = 0 /\ server.todo = <<>>
      BY <1>1, <2>2, <2>3 DEF Given
    <3>4. QED
      BY <1>1, <3>1, <3>2, <3>3 DEF TextInv
  <2>6. CASE stage + 1 = Len(Stages) + 1
    <3>1. stage = Len(Stages) /\ stage # 1
      <4>1. stage \in Int /\ Len(Stages) \in Int
        BY <1>1, <2>3
      <4>2. QED
        BY <2>3, <2>6, <4>1
    <3>2. phase' = "hello"
      <4>1. stage + 1 \in 1..(Len(Stages) + 1)
        BY <1>1, <2>3
      <4>2. QED
        BY <2>2, <2>4, <2>6, <4>1, EnteredIs
    <3>3. Len(Ahead') = 0
      <4>1. Len(Ahead) < 2
        BY <1>1, <1>3, <3>1
      <4>2. QED
        BY <1>1, <4>1
    <3>4. Ahead' = <<>>
      <4>1. Shape'
        BY ShapeKept
      <4>2. Ahead' \in Seq(Pieces)
        BY <4>1, CatParts DEF Shape, Ahead
      <4>3. QED
        BY <3>3, <4>2
    <3>5. server.yes
      <4>1. Ahead[1].is \notin {"no", "bad"}
        BY <1>1, <1>5, TextStages
      <4>2. IsUpgrade(stage)
        BY <3>1, TextStages
      <4>3. QED
        BY <1>2, <4>1, <4>2 DEF Says
    <3>6. server.at = Len(Stages) /\ server.due = 0 /\ server.todo = <<>>
      BY <3>1 DEF Given
    <3>7. QED
      BY <1>1, <1>4, <3>2, <3>4, <3>5, <3>6 DEF TextInv
  <2>7. QED
    BY <1>1, <2>3, <2>5, <2>6
<1>6. CASE Ahead[1].is \notin Stages[stage].wants
  <2>1. Ahead[1].is \in {"no", "bad"}
    BY <1>2, <1>6 DEF Says
  <2>2. Ahead[1].is \notin Stages[stage].skips
    BY <1>1, <2>1, TextStages
  <2>3. phase' = "over"
    BY <1>6, <2>2, ReadFacts DEF SInv
  <2>4. QED
    BY <2>3 DEF TextInv
<1>7. QED
  BY <1>5, <1>6

LEMMA TextRead ==
    ASSUME SInv, [Next]_vars, Read, proto \in Text, ~cutShort'
    PROVE  TextInv'
<1>1. /\ ~cutShort /\ phase = "reading" /\ server' = server
      /\ Len(Ahead) \in Nat /\ Len(Ahead) > 0 /\ Len(Ahead') = Len(Ahead) - 1
      /\ \A i \in 1..Len(Ahead') : Ahead'[i] = Ahead[i + 1]
      /\ Len(Ahead) \in 1..Len(Ahead)
  BY ReadFacts DEF SInv
<1>2. Pending \/ Coming \/ Given
  BY <1>1 DEF SInv, TextInv
<1>3. proto' = proto /\ Stages' = Stages /\ \A k, word : Says(k, word) => Says(k, word)'
  BY <1>1, Frame, SaysKept
<1>4. CASE Pending
  <2>1. UNCHANGED <<phase, stage, outcome>> /\ Chatter(Len(Ahead))'
    BY <1>1, <1>4, TextSkipOne DEF Pending
  <2>2. Pending'
    BY <1>1, <1>4, <2>1 DEF Pending
  <2>3. QED
    BY <1>1, <2>1, <2>2 DEF TextInv
<1>5. CASE Coming
  <2>1. UNCHANGED <<phase, stage, outcome>> /\ Chatter(Len(Ahead))'
    BY <1>1, <1>5, TextSkipOne DEF Coming
  <2>2. Coming'
    BY <1>1, <1>3, <1>5, <2>1 DEF Coming
  <2>3. QED
    BY <1>1, <2>1, <2>2 DEF TextInv
<1>6. CASE Given
  <2>1. CASE server.closed /\ Chatter(Len(Ahead))
    <3>1. UNCHANGED <<phase, stage, outcome>> /\ Chatter(Len(Ahead))'
      BY <1>1, <2>1, TextSkipOne
    <3>2. Given'
      BY <1>1, <1>6, <2>1, <3>1 DEF Given
    <3>3. QED
      BY <1>1, <3>1, <3>2 DEF TextInv
  <2>2. CASE AnswerAt(1)
    BY <1>6, <2>2, TextAnswered
  <2>3. ASSUME NEW p \in 2..Len(Ahead), AnswerAt(p) PROVE TextInv'
    <3>1. p - 1 \in 1..Len(Ahead) /\ Chatter(p - 1)
      BY <1>1, <2>3 DEF AnswerAt
    <3>2. UNCHANGED <<phase, stage, outcome>> /\ Chatter((p - 1) - 1)'
      BY <3>1, TextSkip
    <3>3. p - 1 \in 1..Len(Ahead')
      BY <1>1
    <3>4. Ahead'[p - 1] = Ahead[p]
      BY <1>1, <3>3
    <3>5. (Ahead[p - 1].cut \/ Says(stage, Ahead[p - 1].is))'
      <4>1. Ahead[p].cut \/ Says(stage, Ahead[p].is)
        BY <2>3 DEF AnswerAt
      <4>2. QED
        BY <1>3, <3>2, <3>4, <4>1 DEF Says
    <3>6. ASSUME NEW i \in p..Len(Ahead') PROVE stage' = 1 /\ Unasked(i)'
      <4>1. i + 1 \in (p + 1)..Len(Ahead) /\ Ahead'[i] = Ahead[i + 1]
        BY <1>1
      <4>2. stage = 1 /\ Unasked(i + 1)
        BY <2>3, <4>1 DEF AnswerAt
      <4>3. QED
        BY <1>3, <3>2, <4>1, <4>2 DEF Unasked
    <3>7. AnswerAt(p - 1)'
      <4>1. (p - 1) + 1 = p
        BY <1>1
      <4>2. QED
        BY <3>2, <3>5, <3>6, <4>1 DEF AnswerAt
    <3>8. Given'
      BY <1>1, <1>6, <3>2, <3>3, <3>7 DEF Given
    <3>9. QED
      BY <1>1, <3>2, <3>8 DEF TextInv
  <2>4. QED
    BY <1>1, <1>6, <2>1, <2>2, <2>3 DEF Given
<1>7. QED
  BY <1>2, <1>4, <1>5, <1>6

LEMMA TextFill ==
    ASSUME SInv, [Next]_vars, Fill, proto \in Text, ~cutShort
    PROVE  TextInv'
<1>1. /\ phase = "reading" /\ UNCHANGED <<proto, phase, stage, cutShort, outcome, server>>
  BY DEF Fill
<1>2. /\ Len(Ahead') = Len(Ahead) /\ Len(Ahead) \in Nat
      /\ \A i \in 1..Len(Ahead) : Ahead'[i] = Ahead[i] \/ Ahead'[i].cut
  BY Fills, AheadParts DEF SInv
<1>3. proto' = proto /\ Stages' = Stages /\ \A k, word : Says(k, word) => Says(k, word)'
  BY <1>1, Frame, SaysKept
<1>4. \A n \in 0..Len(Ahead) : Chatter(n) => Chatter(n)'
  BY <1>1, <1>2, <1>3 DEF Chatter
<1>5. ASSUME NEW p \in 1..Len(Ahead), AnswerAt(p) PROVE AnswerAt(p)'
  <2>1. Chatter(p - 1)'
    <3>1. p - 1 \in 0..Len(Ahead) /\ Chatter(p - 1)
      BY <1>2, <1>5 DEF AnswerAt
    <3>2. QED
      BY <1>4, <3>1
  <2>2. (Ahead[p].cut \/ Says(stage, Ahead[p].is))'
    <3>1. Ahead[p].cut \/ Says(stage, Ahead[p].is)
      BY <1>5 DEF AnswerAt
    <3>2. Ahead'[p] = Ahead[p] \/ Ahead'[p].cut
      BY <1>2
    <3>3. QED
      BY <1>1, <1>3, <3>1, <3>2 DEF Says
  <2>3. ASSUME NEW i \in (p + 1)..Len(Ahead) PROVE stage = 1 /\ Unasked(i)'
    <3>1. i \in 1..Len(Ahead) /\ stage = 1 /\ Unasked(i)
      BY <1>2, <1>5 DEF AnswerAt
    <3>2. QED
      BY <1>2, <1>3, <3>1 DEF Unasked
  <2>4. QED
    BY <1>1, <1>2, <2>1, <2>2, <2>3 DEF AnswerAt
<1>6. Pending \/ Coming \/ Given
  BY <1>1 DEF SInv, TextInv
<1>7. Len(Ahead) \in 0..Len(Ahead)
  BY <1>2
<1>8. Pending => Pending'
  BY <1>1, <1>2, <1>4, <1>7 DEF Pending
<1>9. Coming => Coming'
  BY <1>1, <1>2, <1>3, <1>4, <1>7 DEF Coming
<1>10. Given => Given'
  BY <1>1, <1>2, <1>4, <1>5, <1>7 DEF Given
<1>11. QED
  BY <1>1, <1>6, <1>8, <1>9, <1>10 DEF TextInv

LEMMA TextAnswer ==
    ASSUME SInv, [Next]_vars, Answer, proto \in Text, ~cutShort
    PROVE  TextInv'
<1>1. /\ server.due \in 1..Len(Stages) /\ ~server.closed
      /\ server'.at = server.due /\ server'.due = 0
      /\ UNCHANGED <<proto, phase, stage, buf, taken, cutShort, outcome, wire>>
      /\ \/ /\ server'.todo \in YesTo(server.due) /\ server'.yes = IsUpgrade(server.due)
         \/ server'.todo \in NoTo /\ server'.no = TRUE
  BY AnswerFacts DEF SInv
<1>2. Ahead' = Ahead /\ Stages' = Stages /\ \A k : IsUpgrade(k)' <=> IsUpgrade(k)
  BY <1>1, Frame DEF Ahead
<1>3. phase \in {"reading", "over"} /\ (phase = "reading" => Pending)
  <2>1. server.due # 0
    BY <1>1
  <2>2. QED
    BY <2>1 DEF SInv, Shape, TextInv, Coming, Given
<1>4. CASE phase = "over"
  BY <1>1, <1>4 DEF TextInv
<1>5. CASE phase = "reading"
  <2>1. server.due = stage /\ Chatter(Len(Ahead)) /\ stage \in 1..Len(Stages)
    BY <1>1, <1>3, <1>5 DEF Pending
  <2>2. Chatter(Len(Ahead))'
    BY <1>1, <1>2, <2>1 DEF Chatter
  <2>3. PICK word \in Words : server'.todo = <<word>> /\ Says(stage, word)'
    <3>1. CASE server'.todo \in YesTo(stage) /\ server'.yes = IsUpgrade(stage)
      <4>1. PICK word \in Stages[stage].wants : server'.todo = <<word>>
        BY <3>1 DEF YesTo, Text
      <4>2. word \in Words
        BY <2>1, <4>1, TextStages
      <4>3. IsUpgrade(stage)' => server'.yes
        <5>1. IsUpgrade(stage) => server'.yes
          BY <3>1
        <5>2. IsUpgrade(stage)' => IsUpgrade(stage)
          BY <1>1, <1>2 DEF IsUpgrade
        <5>3. QED
          BY <5>1, <5>2
      <4>4. Says(stage, word)'
        BY <1>1, <1>2, <4>1, <4>3 DEF Says
      <4>5. QED
        BY <4>1, <4>2, <4>4
    <3>2. CASE server'.todo \in NoTo /\ server'.no = TRUE
      <4>1. PICK word \in {"no", "bad"} : server'.todo = <<word>>
        BY <3>2 DEF NoTo, Text
      <4>2. word \in Words
        BY <4>1 DEF Words
      <4>3. Says(stage, word)'
        BY <3>2, <4>1 DEF Says
      <4>4. QED
        BY <4>1, <4>2, <4>3
    <3>3. QED
      BY <1>1, <2>1, <3>1, <3>2
  <2>4. Coming'
    BY <1>1, <2>1, <2>2, <2>3 DEF Coming
  <2>5. QED
    BY <1>1, <1>5, <2>4 DEF TextInv
<1>6. QED
  BY <1>3, <1>4, <1>5

LEMMA TextSend ==
    ASSUME SInv, [Next]_vars, Send, proto \in Text, ~cutShort
    PROVE  TextInv'
<1>1. /\ server.todo # <<>> /\ ~server.closed
      /\ UNCHANGED <<proto, phase, stage, buf, taken, cutShort, outcome>>
      /\ server'.at = server.at /\ server'.due = server.due
      /\ server'.yes = server.yes /\ server'.no = server.no
      /\ server' \in Servers(Len(Stages))
  BY SendFacts DEF SInv
<1>2. /\ Len(server'.todo) = Len(server.todo) - 1
      /\ Len(Ahead') = Len(Ahead) + 1
      /\ \A i \in 1..Len(Ahead) : Ahead'[i] = Ahead[i]
      /\ Ahead'[Len(Ahead) + 1] = Unit(server.todo[1], FALSE)
  BY SendFacts DEF SInv
<1>3. Len(Ahead) \in Nat
  BY AheadParts DEF SInv
<1>4. proto' = proto /\ Stages' = Stages /\ \A k, word : Says(k, word) => Says(k, word)'
  BY <1>1, Frame, SaysKept
<1>5. phase \in {"reading", "over"} /\ (phase = "reading" => Coming)
  BY <1>1 DEF SInv, Shape, TextInv, Pending, Given
<1>6. CASE phase = "over"
  BY <1>1, <1>6 DEF TextInv
<1>7. CASE phase = "reading"
  <2>1. PICK word \in Words : server.todo = <<word>> /\ Says(stage, word)
    BY <1>5, <1>7 DEF Coming
  <2>2. Len(server.todo) = 1 /\ server.todo[1] = word
    BY <2>1
  <2> DEFINE p == Len(Ahead) + 1
  <2>3. Ahead'[p] = Unit(word, FALSE) /\ Len(Ahead') = p
    BY <1>2, <2>2
  <2>4. Ahead'[p].is = word
    BY <2>3 DEF Unit
  <2>5. p \in 1..Len(Ahead') /\ p - 1 = Len(Ahead)
    BY <1>3, <2>3
  <2>6. \A i \in 1..(p - 1) : Ahead'[i].cut \/ Ahead'[i].is \in Stages[stage].skips
    BY <1>2, <1>5, <1>7, <2>5 DEF Coming, Chatter
  <2>7. server'.todo = <<>>
    <3>1. Len(server'.todo) = 0
      BY <1>2, <2>1, <2>2
    <3>2. server'.todo \in Seq(Words)
      BY <1>1, ServerType, ServerParts DEF SInv
    <3>3. QED
      BY <3>1, <3>2
  <2> HIDE DEF p
  <2>8. \E q \in 1..Len(Ahead') : AnswerAt(q)'
    <3>1. PICK q \in 1..Len(Ahead') : q = p
      BY <2>5
    <3>2. Chatter(q - 1)'
      BY <1>1, <1>4, <2>6, <3>1 DEF Chatter
    <3>3. (Ahead[q].cut \/ Says(stage, Ahead[q].is))'
      BY <1>1, <1>4, <2>1, <2>4, <3>1 DEF Says
    <3>4. \A i \in (q + 1)..Len(Ahead') : FALSE
      BY <1>3, <2>3, <2>5, <3>1
    <3>5. AnswerAt(q)'
      BY <3>2, <3>3, <3>4 DEF AnswerAt
    <3>6. QED
      BY <3>5
  <2>9. Given'
    BY <1>1, <1>5, <1>7, <2>7, <2>8 DEF Given, Coming
  <2>10. QED
    BY <1>1, <1>7, <2>9 DEF TextInv
<1>8. QED
  BY <1>5, <1>6, <1>7

LEMMA TextChat ==
    ASSUME SInv, [Next]_vars, Chat, proto \in Text, ~cutShort
    PROVE  TextInv'
<1>1. /\ ~server.closed
      /\ UNCHANGED <<proto, phase, stage, buf, taken, cutShort, outcome, server>>
  BY ChatFacts DEF SInv
<1>2. PICK kind \in Words :
        /\ \/ server.todo # <<>> /\ kind \in Stages[server.at].skips
           \/ proto = "imap" /\ server.at = 1 /\ server.todo = <<>> /\ kind = "*"
        /\ Len(Ahead') = Len(Ahead) + 1
        /\ \A i \in 1..Len(Ahead) : Ahead'[i] = Ahead[i]
        /\ Ahead'[Len(Ahead) + 1] = Unit(kind, FALSE)
  BY ChatFacts DEF SInv
<1>3. Len(Ahead) \in Nat
  BY AheadParts DEF SInv
<1>4. proto' = proto /\ Stages' = Stages /\ \A k, word : Says(k, word) => Says(k, word)'
  BY <1>1, Frame, SaysKept
<1> DEFINE u == Ahead'[Len(Ahead) + 1]
<1>5. u.is = kind
  BY <1>2 DEF Unit
<1>6. ASSUME NEW i \in 1..Len(Ahead') PROVE i \in 1..Len(Ahead) \/ Ahead'[i] = u
  <2>1. i \in 1..Len(Ahead) \/ i = Len(Ahead) + 1
    BY <1>2, <1>3
  <2>2. QED
    BY <2>1
<1> HIDE DEF u
<1>7. phase \in {"asking", "reading", "hello", "over"} /\ stage \in Nat
  BY DEF SInv, Shape
<1>8. CASE phase = "over"
  BY <1>1, <1>8 DEF TextInv
<1>9. CASE phase = "hello"
  <2>1. server.at = Len(Stages) /\ server.todo = <<>>
    BY <1>9 DEF SInv, TextInv
  <2>2. proto = "imap" /\ server.at = 1
    BY <1>2, <2>1
  <2>3. QED
    BY <2>1, <2>2, TextStages
<1>10. CASE phase = "asking"
  <2>1. /\ server.at = stage - 1 /\ server.due = 0 /\ server.todo = <<>>
        /\ \A i \in 1..Len(Ahead) : Unasked(i)
    BY <1>10 DEF SInv, TextInv
  <2>2. proto = "imap" /\ kind = "*"
    BY <1>2, <2>1
  <2>3. ASSUME NEW i \in 1..Len(Ahead') PROVE Unasked(i)'
    BY <1>2, <1>4, <1>5, <1>6, <2>1, <2>2 DEF Unasked
  <2>4. QED
    BY <1>1, <1>10, <2>1, <2>3 DEF TextInv
<1>11. CASE phase = "reading"
  <2>1. Pending \/ Coming \/ Given
    BY <1>11 DEF SInv, TextInv
  <2>2. ASSUME Chatter(Len(Ahead)), kind \in Stages[stage].skips PROVE Chatter(Len(Ahead))'
    BY <1>1, <1>2, <1>4, <1>5, <1>6, <2>2 DEF Chatter
  <2>3. CASE Pending
    <3>1. proto = "imap" /\ stage = 2 /\ kind = "*"
      BY <1>2, <1>7, <2>3 DEF Pending
    <3>2. kind \in Stages[stage].skips
      BY <3>1, TextStages
    <3>3. Pending'
      BY <1>1, <2>2, <2>3, <3>2 DEF Pending
    <3>4. QED
      BY <1>1, <1>11, <3>3 DEF TextInv
  <2>4. CASE Coming
    <3>1. server.todo # <<>> /\ server.at = stage
      BY <2>4 DEF Coming
    <3>2. kind \in Stages[stage].skips
      BY <1>2, <3>1
    <3>3. Coming'
      BY <1>1, <1>4, <2>2, <2>4, <3>2 DEF Coming
    <3>4. QED
      BY <1>1, <1>11, <3>3 DEF TextInv
  <2>5. CASE Given
    <3>1. proto = "imap" /\ stage = 1 /\ kind = "*"
      BY <1>2, <2>5 DEF Given
    <3>2. PICK p \in 1..Len(Ahead) : AnswerAt(p)
      BY <1>1, <2>5 DEF Given
    <3>3. p \in 1..Len(Ahead') /\ Ahead'[p] = Ahead[p]
      BY <1>2, <1>3
    <3>4. Chatter(p - 1)'
      <4>1. Chatter(p - 1) /\ \A i \in 1..(p - 1) : Ahead'[i] = Ahead[i]
        BY <1>2, <1>3, <3>2 DEF AnswerAt
      <4>2. QED
        BY <1>1, <1>4, <4>1 DEF Chatter
    <3>5. (Ahead[p].cut \/ Says(stage, Ahead[p].is))'
      BY <1>1, <1>4, <3>2, <3>3 DEF AnswerAt, Says
    <3>6. ASSUME NEW i \in (p + 1)..Len(Ahead') PROVE Unasked(i)'
      <4>1. CASE i \in 1..Len(Ahead)
        <5>1. Unasked(i) /\ Ahead'[i] = Ahead[i]
          BY <1>2, <1>3, <3>2, <4>1 DEF AnswerAt
        <5>2. QED
          BY <1>4, <5>1 DEF Unasked
      <4>2. CASE i \notin 1..Len(Ahead)
        <5>1. Ahead'[i] = u
          BY <1>2, <1>3, <1>6, <4>2
        <5>2. QED
          BY <1>4, <1>5, <3>1, <5>1 DEF Unasked
      <4>3. QED
        BY <4>1, <4>2
    <3>7. AnswerAt(p)'
      BY <1>1, <3>1, <3>4, <3>5, <3>6 DEF AnswerAt
    <3>8. Given'
      BY <1>1, <2>5, <3>3, <3>7 DEF Given
    <3>9. QED
      BY <1>1, <1>11, <3>8 DEF TextInv
  <2>6. QED
    BY <2>1, <2>3, <2>4, <2>5
<1>12. QED
  BY <1>7, <1>8, <1>9, <1>10, <1>11

LEMMA TextClose ==
    ASSUME SInv, [Next]_vars, Close, proto \in Text, ~cutShort
    PROVE  TextInv'
<1>1. /\ ~server.closed
      /\ UNCHANGED <<proto, phase, stage, buf, taken, cutShort, outcome>>
      /\ server'.at = server.at /\ server'.due = 0 /\ server'.todo = <<>>
      /\ server'.closed /\ server'.yes = server.yes /\ server'.no = server.no
      /\ \/ Ahead' = Ahead
         \/ /\ server.todo # <<>>
            /\ Len(Ahead') = Len(Ahead) + 1
            /\ \A i \in 1..Len(Ahead) : Ahead'[i] = Ahead[i]
            /\ Ahead'[Len(Ahead) + 1].cut
  BY CloseFacts DEF SInv
<1>2. Len(Ahead) \in Nat
  BY AheadParts DEF SInv
<1>3. proto' = proto /\ Stages' = Stages /\ \A k, word : Says(k, word) => Says(k, word)'
  BY <1>1, Frame, SaysKept
<1>4. phase \in {"asking", "reading", "hello", "over"}
  BY DEF SInv, Shape
<1>5. CASE phase = "over"
  BY <1>1, <1>5 DEF TextInv
<1>6. CASE phase \in {"asking", "hello"}
  <2>1. server.todo = <<>>
    BY <1>6 DEF SInv, TextInv
  <2>2. Ahead' = Ahead
    BY <1>1, <2>1
  <2>3. \A i : Unasked(i) => Unasked(i)'
    BY <1>3, <2>2 DEF Unasked
  <2>4. QED
    BY <1>1, <1>3, <1>6, <2>1, <2>2, <2>3 DEF SInv, TextInv
<1>7. CASE phase = "reading"
  <2>1. Pending \/ Coming \/ Given
    BY <1>7 DEF SInv, TextInv
  <2>2. ASSUME Ahead' = Ahead, Chatter(Len(Ahead)) PROVE Chatter(Len(Ahead))'
    BY <1>1, <1>3, <2>2 DEF Chatter
  <2>3. CASE Pending
    <3>1. Ahead' = Ahead
      BY <1>1, <2>3 DEF Pending
    <3>2. Pending'
      BY <1>1, <2>2, <2>3, <3>1 DEF Pending
    <3>3. QED
      BY <1>1, <1>7, <3>2 DEF TextInv
  <2>4. CASE Coming
    <3>1. CASE Ahead' = Ahead
      <4>1. Given'
        BY <1>1, <2>2, <2>4, <3>1 DEF Given, Coming
      <4>2. QED
        BY <1>1, <1>7, <4>1 DEF TextInv
    <3>2. CASE /\ Len(Ahead') = Len(Ahead) + 1
               /\ \A i \in 1..Len(Ahead) : Ahead'[i] = Ahead[i]
               /\ Ahead'[Len(Ahead) + 1].cut
      <4>1. PICK p \in 1..Len(Ahead') : p = Len(Ahead) + 1
        BY <1>2, <3>2
      <4>2. \A i \in 1..(p - 1) : Ahead'[i].cut \/ Ahead'[i].is \in Stages[stage].skips
        BY <1>2, <2>4, <3>2, <4>1 DEF Coming, Chatter
      <4>3. Chatter(p - 1)'
        BY <1>1, <1>3, <4>2 DEF Chatter
      <4>4. \A i \in (p + 1)..Len(Ahead') : FALSE
        BY <1>2, <3>2, <4>1
      <4>5. AnswerAt(p)'
        BY <3>2, <4>1, <4>3, <4>4 DEF AnswerAt
      <4>6. Given'
        BY <1>1, <2>4, <4>5 DEF Given, Coming
      <4>7. QED
        BY <1>1, <1>7, <4>6 DEF TextInv
    <3>3. QED
      BY <1>1, <3>1, <3>2
  <2>5. CASE Given
    <3>1. Ahead' = Ahead
      BY <1>1, <2>5 DEF Given
    <3>2. ASSUME NEW p \in 1..Len(Ahead), AnswerAt(p) PROVE AnswerAt(p)'
      <4>1. Chatter(p - 1)'
        BY <1>1, <1>3, <3>1, <3>2 DEF AnswerAt, Chatter
      <4>2. (Ahead[p].cut \/ Says(stage, Ahead[p].is))'
        BY <1>1, <1>3, <3>1, <3>2 DEF AnswerAt, Says
      <4>3. \A i \in (p + 1)..Len(Ahead') : stage' = 1 /\ Unasked(i)'
        BY <1>1, <1>3, <3>1, <3>2 DEF AnswerAt, Unasked
      <4>4. QED
        BY <4>1, <4>2, <4>3 DEF AnswerAt
    <3>3. Given'
      BY <1>1, <2>2, <2>5, <3>1, <3>2 DEF Given
    <3>4. QED
      BY <1>1, <1>7, <3>3 DEF TextInv
  <2>6. QED
    BY <2>1, <2>3, <2>4, <2>5
<1>8. QED
  BY <1>4, <1>5, <1>6, <1>7

LEMMA TextKept ==
    ASSUME SInv, [Next]_vars
    PROVE  TextInv'
<1> SUFFICES ASSUME proto \in Text, ~cutShort' PROVE TextInv'
  BY Frame DEF TextInv
<1>1. ~cutShort
  <2>1. CASE Read
    BY <2>1, ReadFacts DEF SInv
  <2>2. CASE UNCHANGED cutShort
    BY <2>2
  <2>3. Read \/ UNCHANGED cutShort
    BY DEF Next, Client, Ask, AskFails, Fill, ReadFails, Hello, Deadline, Answer, Send, Chat,
       Close, vars, client
  <2>4. QED
    BY <2>1, <2>2, <2>3
<1>2. CASE Ask
  <2>1. phase' = "reading" /\ Pending'
    BY <1>1, <1>2, TextAsk, AskFacts DEF SInv
  <2>2. QED
    BY <2>1 DEF TextInv
<1>3. CASE AskFails \/ ReadFails \/ Hello \/ Deadline
  <2>1. phase' = "over"
    BY <1>3, EndFacts DEF SInv
  <2>2. QED
    BY <2>1 DEF TextInv
<1>4. CASE Fill
  BY <1>1, <1>4, TextFill
<1>5. CASE Read
  BY <1>5, TextRead
<1>6. CASE Answer
  BY <1>1, <1>6, TextAnswer
<1>7. CASE Send
  BY <1>1, <1>7, TextSend
<1>8. CASE Chat
  BY <1>1, <1>8, TextChat
<1>9. CASE Close
  BY <1>1, <1>9, TextClose
<1>10. CASE UNCHANGED vars
  <2>1. /\ UNCHANGED <<proto, phase, stage, cutShort, server>>
        /\ Ahead' = Ahead /\ Stages' = Stages
    BY <1>10, Frame DEF vars, Ahead
  <2>2. /\ \A k, word : Says(k, word) => Says(k, word)'
        /\ \A n : Chatter(n) => Chatter(n)'
        /\ \A i : Unasked(i) => Unasked(i)'
    BY <2>1, SaysKept DEF Chatter, Unasked
  <2>3. ASSUME NEW p \in 1..Len(Ahead), AnswerAt(p) PROVE AnswerAt(p)'
    <3>1. Chatter(p - 1)'
      BY <2>2, <2>3 DEF AnswerAt
    <3>2. (Ahead[p].cut \/ Says(stage, Ahead[p].is))'
      BY <2>1, <2>2, <2>3 DEF AnswerAt, Says
    <3>3. \A i \in (p + 1)..Len(Ahead') : stage' = 1 /\ Unasked(i)'
      BY <2>1, <2>2, <2>3 DEF AnswerAt
    <3>4. QED
      BY <3>1, <3>2, <3>3 DEF AnswerAt
  <2>4. Chatter(Len(Ahead)) => Chatter(Len(Ahead))'
    BY <2>1 DEF Chatter
  <2>5. (Pending => Pending') /\ (Coming => Coming') /\ (Given => Given')
    BY <2>1, <2>2, <2>3, <2>4 DEF Pending, Coming, Given
  <2>6. QED
    BY <1>1, <2>1, <2>2, <2>5 DEF SInv, TextInv
<1>11. QED
  BY <1>2, <1>3, <1>4, <1>5, <1>6, <1>7, <1>8, <1>9, <1>10 DEF Next, Client

-------------------------------------------------------------------------------
(* LDAP and PostgreSQL.                                                    *)

(* A yes answers every stage, a no leaves one unanswered. *)
LEMMA RepliesAnswer ==
    ASSUME proto \in {"ldap", "postgres"}
    PROVE  /\ \A reply \in YesTo(1) :
                /\ Len(reply) = IF proto = "ldap" THEN 5 ELSE 1
                /\ \A k \in 1..Len(Stages) : reply[k] \in Stages[k].wants
           /\ \A reply \in NoTo :
                \E k \in 1..Len(Stages) : reply[k] \notin Stages[k].wants
           /\ YesTo(1) \cap NoTo = {}
<1>1. CASE proto = "ldap"
  <2> DEFINE yes == <<"message", "messageID", "response", "success", "rest">>
             no == <<"message", "messageID", "response", "failure", "rest">>
  <2>1. YesTo(1) = {yes} /\ NoTo = {<<"bad">>, no}
    BY <1>1 DEF YesTo, NoTo
  <2>2. /\ Len(yes) = 5
        /\ yes[1] \in Stages[1].wants /\ yes[2] \in Stages[2].wants
        /\ yes[3] \in Stages[3].wants /\ yes[4] \in Stages[4].wants
        /\ no[4] \notin Stages[4].wants /\ <<"bad">>[1] \notin Stages[1].wants
        /\ yes[4] = "success" /\ no[4] = "failure" /\ yes[1] = "message" /\ <<"bad">>[1] = "bad"
    BY <1>1, LdapTable
  <2> HIDE DEF yes, no
  <2>3. Len(Stages) = 4 /\ \A k \in 1..4 : k = 1 \/ k = 2 \/ k = 3 \/ k = 4
    BY <1>1, LdapTable
  <2>4. 1 \in 1..Len(Stages) /\ 4 \in 1..Len(Stages)
    BY <2>3
  <2>5. yes # no /\ yes # <<"bad">>
    BY <2>2
  <2>6. QED
    BY <1>1, <2>1, <2>2, <2>3, <2>4, <2>5
<1>2. CASE proto = "postgres"
  <2>1. YesTo(1) = {<<"S">>} /\ NoTo = {<<"no">>, <<"no", "rest">>}
    BY <1>2 DEF YesTo, NoTo
  <2>2. Len(Stages) = 1 /\ Stages[1].wants = {"S"}
    BY <1>2, PostgresTable
  <2>3. QED
    BY <1>2, <2>1, <2>2
<1>3. QED
  BY <1>1, <1>2

LEMMA RepliesType ==
    ASSUME Shape, NEW reply \in Replies
    PROVE  reply \in Seq(Words) /\ Len(reply) \in Nat
<1>1. 1 \in 1..Len(Stages)
  BY ServerType
<1>2. reply \in Seq(Words)
  BY <1>1, YesWords, NoWords DEF Replies, Shape
<1>3. QED
  BY <1>2

LEMMA BinaryRead ==
    ASSUME SInv, [Next]_vars, Read, proto \notin Text
    PROVE  BinaryInv' /\ RefusalIsSpoken'
<1>1. /\ stage \in 1..Len(Stages) /\ phase = "reading"
      /\ Len(Ahead) \in Nat /\ Len(Ahead) > 0 /\ Len(Ahead') = Len(Ahead) - 1
      /\ \A i \in 1..Len(Ahead') : Ahead'[i] = Ahead[i + 1]
      /\ server' = server
  BY ReadFacts DEF SInv
<1>2. proto' = proto /\ Stages' = Stages /\ Replies' = Replies /\ YesTo(1)' = YesTo(1) /\ NoTo' = NoTo
  BY Frame DEF Replies
<1>3. proto \in {"ldap", "postgres"}
  BY StagesLength DEF SInv, Shape
<1>4. Len(Stages) \in Nat
  BY ServerType DEF SInv
<1>5. server.at # 0 /\ server.due = 0 /\ \E reply \in Replies : Remains(reply)
  <2>1. Ahead # <<>>
    BY <1>1
  <2>2. QED
    BY <1>1, <2>1 DEF SInv, BinaryInv
<1>6. PICK reply \in Replies : Remains(reply)
  BY <1>5
<1>7. Ahead[1].is = reply[stage]
  <2>1. Ahead[1] = Unit(reply[stage - 1 + 1], FALSE)
    <3>1. 1 \in 1..Len(Ahead)
      BY <1>1
    <3>2. QED
      BY <1>6, <3>1 DEF Remains
  <2>2. stage - 1 + 1 = stage
    BY <1>1, <1>4
  <2>3. QED
    BY <2>1, <2>2 DEF Unit
<1>8. Stages[stage].skips = {}
  BY <1>1, <1>3, BinaryStages
<1>9. CASE reply[stage] \in Stages[stage].wants
  <2>1. stage' = stage + 1 /\ phase' = Entered(stage + 1) /\ outcome' = outcome
    BY <1>7, <1>8, <1>9, ReadFacts DEF SInv
  <2>2. phase' \in {"reading", "hello"}
    <3>1. stage + 1 \in 1..(Len(Stages) + 1) /\ stage + 1 # 1
          /\ (stage + 1 <= Len(Stages) \/ stage + 1 = Len(Stages) + 1)
      BY <1>1, <1>4
    <3>2. CASE stage + 1 <= Len(Stages)
      <4>1. stage + 1 \in 1..Len(Stages)
        BY <3>1, <3>2, <1>4
      <4>2. Stages[stage + 1].asks = None
        BY <1>3, <3>1, <4>1, BinaryStages
      <4>3. Entered(stage + 1) = "reading"
        BY <3>1, <3>2, <4>2, EnteredIs DEF SInv, Shape
      <4>4. QED
        BY <2>1, <4>3
    <3>3. CASE stage + 1 = Len(Stages) + 1
      BY <2>1, <3>1, <3>3, EnteredIs DEF SInv, Shape
    <3>4. QED
      BY <3>1, <3>2, <3>3
  <2>3. Len(server.todo) \in Nat /\ Len(reply) \in Nat
    BY <1>6, ServerType, RepliesType DEF SInv
  <2>4. stage' - 1 + Len(Ahead') + Len(server'.todo) <= Len(reply)
    <3>1. stage - 1 + Len(Ahead) + Len(server.todo) <= Len(reply)
      BY <1>6 DEF Remains
    <3>2. PICK k \in Nat, a \in Nat, t \in Nat, r \in Nat :
            k = stage /\ a = Len(Ahead) /\ t = Len(server.todo) /\ r = Len(reply)
      <4>1. stage \in Nat
        BY <1>1, <1>4
      <4>2. QED
        BY <1>1, <2>3, <4>1
    <3>3. k - 1 + a + t <= r
      BY <3>1, <3>2
    <3>4. (k + 1) - 1 + (a - 1) + t <= r
      BY <3>3
    <3>5. QED
      BY <1>1, <2>1, <3>2, <3>4
  <2>5. ASSUME NEW i \in 1..Len(Ahead') PROVE Ahead'[i] = Unit(reply[stage' - 1 + i], FALSE)
    <3>1. i + 1 \in 1..Len(Ahead) /\ stage - 1 + (i + 1) = stage' - 1 + i
      BY <1>1, <1>4, <2>1
    <3>2. Ahead[i + 1] = Unit(reply[stage - 1 + (i + 1)], FALSE)
      BY <1>6, <3>1 DEF Remains
    <3>3. QED
      BY <1>1, <3>1, <3>2
  <2>6. ASSUME NEW i \in 1..Len(server'.todo)
        PROVE  server'.todo[i] = reply[stage' - 1 + Len(Ahead') + i]
    <3>1. stage - 1 + Len(Ahead) + i = stage' - 1 + Len(Ahead') + i
      BY <1>1, <1>4, <2>1
    <3>2. server.todo[i] = reply[stage - 1 + Len(Ahead) + i]
      BY <1>1, <1>6 DEF Remains
    <3>3. QED
      BY <1>1, <3>1, <3>2
  <2>7. ASSUME NEW k \in 1..(stage' - 1) PROVE reply[k] \in Stages[k].wants
    <3>1. k \in 1..(stage - 1) \/ k = stage
      BY <1>1, <1>4, <2>1
    <3>2. QED
      BY <1>6, <1>9, <3>1 DEF Remains
  <2>8. Remains(reply)'
    BY <1>1, <1>2, <1>6, <2>4, <2>5, <2>6, <2>7 DEF Remains
  <2>9. BinaryInv'
    BY <1>1, <1>2, <1>5, <2>2, <2>8 DEF BinaryInv
  <2>10. RefusalIsSpoken'
    <3>1. outcome # "refusal"
      BY <1>1, NoneIsNoEnd, Ended DEF SInv, ControlInv
    <3>2. QED
      BY <2>1, <3>1 DEF RefusalIsSpoken
  <2>11. QED
    BY <2>9, <2>10
<1>10. CASE reply[stage] \notin Stages[stage].wants
  <2>1. phase' = "over" /\ outcome' = "refusal"
    BY <1>7, <1>8, <1>10, ReadFacts DEF SInv
  <2>2. reply \notin YesTo(1)
    BY <1>1, <1>3, <1>10, RepliesAnswer
  <2>3. server.no
    BY <1>6, <2>2 DEF Replies, Remains
  <2>4. QED
    BY <1>1, <2>1, <2>3 DEF BinaryInv, RefusalIsSpoken
<1>11. QED
  BY <1>9, <1>10

LEMMA BinaryAnswer ==
    ASSUME SInv, [Next]_vars, Answer, proto \notin Text
    PROVE  BinaryInv'
<1>1. /\ server.due \in 1..Len(Stages)
      /\ server'.at = server.due /\ server'.due = 0
      /\ UNCHANGED <<proto, phase, stage, buf, taken, cutShort, outcome, wire>>
      /\ \/ /\ server'.todo \in YesTo(server.due) /\ server'.yes = IsUpgrade(server.due)
         \/ server'.todo \in NoTo /\ server'.no = TRUE
  BY AnswerFacts DEF SInv
<1>2. /\ Ahead' = Ahead /\ proto' = proto /\ Stages' = Stages
      /\ YesTo(1)' = YesTo(1) /\ NoTo' = NoTo
  BY <1>1, Frame DEF Ahead
<1>3. proto \in {"ldap", "postgres"}
  BY StagesLength DEF SInv, Shape
<1>4. CASE phase = "over"
  BY <1>1, <1>4 DEF BinaryInv
<1>5. CASE phase # "over"
  <2>1. server.due # 0
    BY <1>1
  <2>2. server.at = 0
    BY <1>5, <2>1 DEF SInv, BinaryInv
  <2>3. /\ stage = 1 /\ server.todo = <<>> /\ Ahead = <<>> /\ server.due = 1
        /\ phase = "reading"
    BY <1>5, <2>1, <2>2 DEF SInv, BinaryInv
  <2>4. PICK reply \in Replies : server'.todo = reply
    BY <1>1, <2>3 DEF Replies
  <2>5. reply \in YesTo(1) => server'.yes
    BY <1>1, <1>3, <2>3, <2>4, RepliesAnswer, BinaryStages
  <2>6. reply \in NoTo => server'.no
    BY <1>1, <1>3, <2>3, <2>4, RepliesAnswer
  <2>7. Len(reply) \in Nat
    BY RepliesType DEF SInv
  <2>8. /\ stage' = 1 /\ Len(Ahead') = 0
        /\ stage' - 1 + Len(Ahead') + Len(server'.todo) = Len(reply)
        /\ \A i \in 1..Len(server'.todo) : stage' - 1 + Len(Ahead') + i = i
    BY <1>1, <1>2, <2>3, <2>4, <2>7
  <2>9. /\ \A i \in 1..Len(Ahead') : FALSE
        /\ \A k \in 1..(stage' - 1) : FALSE
    BY <2>8
  <2>10. \A i \in 1..Len(server'.todo) : server'.todo[i] = reply[stage' - 1 + Len(Ahead') + i]
    BY <2>4, <2>8
  <2>11. stage' - 1 + Len(Ahead') + Len(server'.todo) <= Len(reply)
    BY <2>7, <2>8
  <2>12. Remains(reply)'
    BY <1>2, <2>5, <2>6, <2>9, <2>10, <2>11 DEF Remains
  <2>13. reply \in Replies'
    BY <1>2, <2>4 DEF Replies
  <2>14. QED
    BY <1>1, <2>3, <2>12, <2>13 DEF BinaryInv
<1>6. QED
  BY <1>4, <1>5

LEMMA BinarySend ==
    ASSUME SInv, [Next]_vars, Send, proto \notin Text
    PROVE  BinaryInv'
<1>1. /\ server.todo # <<>>
      /\ UNCHANGED <<proto, phase, stage, buf, taken, cutShort, outcome>>
      /\ server'.at = server.at /\ server'.due = server.due
      /\ server'.yes = server.yes /\ server'.no = server.no
  BY SendFacts DEF SInv
<1>2. /\ Len(server.todo) \in Nat \ {0}
      /\ Len(server'.todo) = Len(server.todo) - 1
      /\ \A i \in 1..Len(server'.todo) : server'.todo[i] = server.todo[i + 1]
      /\ Len(Ahead') = Len(Ahead) + 1
      /\ \A i \in 1..Len(Ahead) : Ahead'[i] = Ahead[i]
      /\ Ahead'[Len(Ahead) + 1] = Unit(server.todo[1], FALSE)
  BY SendFacts DEF SInv
<1>3. Stages' = Stages /\ Replies' = Replies /\ YesTo(1)' = YesTo(1) /\ NoTo' = NoTo
  BY Frame DEF Replies
<1>4. CASE phase = "over"
  BY <1>1, <1>4 DEF BinaryInv
<1>5. CASE phase # "over"
  <2>1. server.at # 0 /\ server.due = 0 /\ \E reply \in Replies : Remains(reply)
    BY <1>1, <1>5 DEF SInv, BinaryInv
  <2>2. PICK reply \in Replies : Remains(reply)
    BY <2>1
  <2>3. Len(Ahead) \in Nat /\ Len(server.todo) \in Nat /\ Len(reply) \in Nat /\ stage \in Nat
    BY AheadParts, ServerType, RepliesType DEF SInv, Shape
  <2>4. stage - 1 + Len(Ahead') + Len(server'.todo) <= Len(reply)
    <3>1. stage - 1 + Len(Ahead) + Len(server.todo) <= Len(reply)
      BY <2>2 DEF Remains
    <3>2. PICK k \in Nat, a \in Nat, t \in Nat, r \in Nat :
            k = stage /\ a = Len(Ahead) /\ t = Len(server.todo) /\ r = Len(reply)
      BY <2>3
    <3>3. k - 1 + a + t <= r
      BY <3>1, <3>2
    <3>4. k - 1 + (a + 1) + (t - 1) <= r
      BY <3>3
    <3>5. QED
      BY <1>2, <3>2, <3>4
  <2>5. ASSUME NEW i \in 1..Len(Ahead') PROVE Ahead'[i] = Unit(reply[stage - 1 + i], FALSE)
    <3>1. CASE i \in 1..Len(Ahead)
      BY <1>2, <2>2, <3>1 DEF Remains
    <3>2. CASE i \notin 1..Len(Ahead)
      <4>1. i = Len(Ahead) + 1
        BY <1>2, <2>3, <3>2
      <4>2. 1 \in 1..Len(server.todo) /\ stage - 1 + Len(Ahead) + 1 = stage - 1 + i
        BY <1>2, <2>3, <4>1
      <4>3. server.todo[1] = reply[stage - 1 + Len(Ahead) + 1]
        BY <2>2, <4>2 DEF Remains
      <4>4. QED
        BY <1>2, <4>1, <4>2, <4>3
    <3>3. QED
      BY <3>1, <3>2
  <2>6. ASSUME NEW i \in 1..Len(server'.todo)
        PROVE  server'.todo[i] = reply[stage - 1 + Len(Ahead') + i]
    <3>1. i + 1 \in 1..Len(server.todo)
          /\ stage - 1 + Len(Ahead) + (i + 1) = stage - 1 + Len(Ahead') + i
      BY <1>2, <2>3
    <3>2. server.todo[i + 1] = reply[stage - 1 + Len(Ahead) + (i + 1)]
      BY <2>2, <3>1 DEF Remains
    <3>3. QED
      BY <1>2, <3>1, <3>2
  <2>7. Remains(reply)'
    BY <1>1, <1>3, <2>2, <2>4, <2>5, <2>6 DEF Remains
  <2>8. QED
    BY <1>1, <1>3, <1>5, <2>1, <2>7 DEF SInv, BinaryInv
<1>6. QED
  BY <1>4, <1>5

(* The rest of the steps bring nothing new. *)
LEMMA BinarySame ==
    ASSUME SInv, [Next]_vars, proto \notin Text,
           UNCHANGED <<phase, stage>>,
           Len(Ahead') = Len(Ahead), \A i \in 1..Len(Ahead) : Ahead'[i] = Ahead[i],
           Ahead = <<>> => Ahead' = <<>>,
           server'.at = server.at, server'.due \in {0, server.due},
           server'.todo \in {server.todo, <<>>},
           server'.yes = server.yes, server'.no = server.no
    PROVE  BinaryInv'
<1>1. Stages' = Stages /\ Replies' = Replies /\ YesTo(1)' = YesTo(1) /\ NoTo' = NoTo
  BY Frame DEF Replies
<1>2. ASSUME NEW reply \in Replies, Remains(reply) PROVE Remains(reply)'
  <2>1. Len(Ahead) \in Nat /\ Len(server.todo) \in Nat /\ Len(reply) \in Nat /\ stage \in Nat
    BY AheadParts, ServerType, RepliesType DEF SInv, Shape
  <2>2. stage - 1 + Len(Ahead') + Len(server'.todo) <= Len(reply)
    <3>1. Len(server'.todo) <= Len(server.todo) /\ Len(server'.todo) \in Nat
      BY <2>1
    <3>2. stage - 1 + Len(Ahead) + Len(server.todo) <= Len(reply)
      BY <1>2 DEF Remains
    <3>3. PICK k \in Nat, a \in Nat, t \in Nat, u \in Nat, r \in Nat :
            /\ k = stage /\ a = Len(Ahead) /\ t = Len(server.todo) /\ u = Len(server'.todo)
            /\ r = Len(reply)
      BY <2>1, <3>1
    <3>4. k - 1 + a + t <= r /\ u <= t
      BY <3>1, <3>2, <3>3
    <3>5. k - 1 + a + u <= r
      BY <3>4
    <3>6. QED
      BY <3>3, <3>5
  <2>3. \A i \in 1..Len(Ahead') : Ahead'[i] = Unit(reply[stage - 1 + i], FALSE)
    BY <1>2 DEF Remains
  <2>4. \A i \in 1..Len(server'.todo) : server'.todo[i] = reply[stage - 1 + Len(Ahead') + i]
    BY <1>2, <2>1 DEF Remains
  <2>5. QED
    BY <1>1, <1>2, <2>2, <2>3, <2>4 DEF Remains
<1>3. CASE server.at = 0 \/ phase = "over"
  BY <1>1, <1>3, Frame DEF SInv, BinaryInv
<1>4. CASE server.at # 0 /\ phase # "over"
  <2>1. server.due = 0 /\ \E reply \in Replies : Remains(reply)
    BY <1>4 DEF SInv, BinaryInv
  <2>2. phase # "asking"
    BY <1>4 DEF SInv, BinaryInv
  <2>3. QED
    BY <1>1, <1>2, <1>4, <2>1, <2>2 DEF BinaryInv
<1>5. QED
  BY <1>3, <1>4

LEMMA BinaryKept ==
    ASSUME SInv, [Next]_vars
    PROVE  BinaryInv'
<1> SUFFICES ASSUME proto \notin Text PROVE BinaryInv'
  BY Frame DEF BinaryInv
<1>1. CASE Ask
  <2>1. /\ phase = "asking" /\ phase' = "reading" /\ stage' = stage
        /\ Ahead' = Ahead /\ server'.at = server.at /\ server'.todo = server.todo
        /\ server'.due \in {0, stage}
    BY <1>1, AskFacts DEF SInv
  <2>2. stage = 1 /\ server.at = 0 /\ server.todo = <<>> /\ Ahead = <<>>
    BY <2>1 DEF SInv, BinaryInv
  <2>3. QED
    BY <2>1, <2>2 DEF BinaryInv
<1>2. CASE AskFails \/ ReadFails \/ Hello \/ Deadline
  <2>1. phase' = "over"
    BY <1>2, EndFacts DEF SInv
  <2>2. QED
    BY <2>1 DEF BinaryInv
<1>3. CASE Fill
  <2>1. UNCHANGED <<phase, stage, server>>
    BY <1>3 DEF Fill
  <2>2. Len(Ahead') = Len(Ahead) /\ \A i \in 1..Len(Ahead) : Ahead'[i] = Ahead[i]
    BY <1>3, Fills
  <2>3. Ahead # <<>>
    <3>1. Len(wire) > 0 /\ Len(wire) \in Nat
      <4>1. wire \in Seq(Pieces) /\ wire # <<>>
        BY <1>3 DEF Fill, SInv, Shape
      <4>2. QED
        BY <4>1
    <3>2. Len(Ahead) > 0
      BY <3>1, AheadParts DEF SInv
    <3>3. QED
      BY <3>2
  <2>4. QED
    BY <2>1, <2>2, <2>3, BinarySame
<1>4. CASE Read
  BY <1>4, BinaryRead
<1>5. CASE Answer
  BY <1>5, BinaryAnswer
<1>6. CASE Send
  BY <1>6, BinarySend
<1>7. CASE Chat
  BY <1>7, ChatFacts DEF SInv
<1>8. CASE Close
  <2>1. /\ UNCHANGED <<phase, stage>> /\ Ahead' = Ahead
        /\ server'.at = server.at /\ server'.due = 0 /\ server'.todo = <<>>
        /\ server'.yes = server.yes /\ server'.no = server.no
    BY <1>8, CloseFacts DEF SInv
  <2>2. QED
    BY <2>1, BinarySame
<1>9. CASE UNCHANGED vars
  <2>1. UNCHANGED <<phase, stage, server>> /\ Ahead' = Ahead
    BY <1>9 DEF vars, Ahead
  <2>2. QED
    BY <2>1, BinarySame
<1>10. QED
  BY <1>1, <1>2, <1>3, <1>4, <1>5, <1>6, <1>7, <1>8, <1>9 DEF Next, Client

-------------------------------------------------------------------------------
(* Refusals.                                                               *)

LEMMA TextRefusal ==
    ASSUME SInv, [Next]_vars, Read, proto \in Text, ~cutShort'
    PROVE  RefusalIsSpoken'
<1>1. /\ ~cutShort /\ ~Ahead[1].cut /\ phase = "reading" /\ server' = server
      /\ stage \in 1..Len(Stages) /\ Len(Ahead) \in Nat /\ Len(Ahead) > 0
  BY ReadFacts DEF SInv
<1>2. outcome # "refusal"
  BY <1>1, NoneIsNoEnd, Ended DEF SInv, ControlInv
<1>3. Pending \/ Coming \/ Given
  BY <1>1 DEF SInv, TextInv
<1>4. CASE Chatter(Len(Ahead))
  BY <1>2, <1>4, TextSkipOne DEF RefusalIsSpoken
<1>5. CASE AnswerAt(1)
  <2>1. Says(stage, Ahead[1].is)
    BY <1>1, <1>5 DEF AnswerAt
  <2>2. CASE Ahead[1].is \in Stages[stage].wants
    <3>1. outcome' = outcome
      BY <2>2, ReadFacts DEF SInv
    <3>2. QED
      BY <1>2, <3>1 DEF RefusalIsSpoken
  <2>3. CASE server.no
    BY <1>1, <2>3 DEF RefusalIsSpoken
  <2>4. QED
    BY <2>1, <2>2, <2>3 DEF Says
<1>6. ASSUME NEW p \in 2..Len(Ahead), AnswerAt(p) PROVE RefusalIsSpoken'
  <2>1. p - 1 \in 1..Len(Ahead) /\ Chatter(p - 1)
    BY <1>1, <1>6 DEF AnswerAt
  <2>2. outcome' = outcome
    BY <2>1, TextSkip
  <2>3. QED
    BY <1>2, <2>2 DEF RefusalIsSpoken
<1>7. QED
  BY <1>1, <1>3, <1>4, <1>5, <1>6 DEF Pending, Coming, Given

LEMMA SpokenKept ==
    ASSUME SInv, [Next]_vars
    PROVE  RefusalIsSpoken'
<1>1. CASE Read
  <2>1. CASE proto \notin Text
    BY <1>1, <2>1, BinaryRead
  <2>2. CASE proto \in Text /\ ~cutShort'
    BY <1>1, <2>2, TextRefusal
  <2>3. CASE cutShort'
    BY <2>3 DEF RefusalIsSpoken
  <2>4. QED
    BY <2>1, <2>2, <2>3
<1>2. CASE AskFails \/ ReadFails \/ Hello \/ Deadline
  <2>1. outcome' # "refusal"
    BY <1>2, EndFacts DEF SInv
  <2>2. QED
    BY <2>1 DEF RefusalIsSpoken
<1>3. CASE Ask
  <2>1. UNCHANGED <<outcome, cutShort>> /\ server'.no = server.no
    BY <1>3, AskFacts DEF SInv
  <2>2. QED
    BY <2>1 DEF SInv, RefusalIsSpoken
<1>4. CASE Fill
  BY <1>4 DEF Fill, SInv, RefusalIsSpoken
<1>5. CASE Answer
  <2>1. UNCHANGED <<outcome, cutShort>> /\ (server'.no = server.no \/ server'.no = TRUE)
    BY <1>5, AnswerFacts DEF SInv
  <2>2. QED
    BY <2>1 DEF SInv, RefusalIsSpoken
<1>6. CASE Send
  <2>1. UNCHANGED <<outcome, cutShort>> /\ server'.no = server.no
    BY <1>6, SendFacts DEF SInv
  <2>2. QED
    BY <2>1 DEF SInv, RefusalIsSpoken
<1>7. CASE Chat
  BY <1>7, ChatFacts DEF SInv, RefusalIsSpoken
<1>8. CASE Close
  <2>1. UNCHANGED <<outcome, cutShort>> /\ server'.no = server.no
    BY <1>8, CloseFacts DEF SInv
  <2>2. QED
    BY <2>1 DEF SInv, RefusalIsSpoken
<1>9. CASE UNCHANGED vars
  BY <1>9 DEF vars, SInv, RefusalIsSpoken
<1>10. QED
  BY <1>1, <1>2, <1>3, <1>4, <1>5, <1>6, <1>7, <1>8, <1>9 DEF Next, Client

-------------------------------------------------------------------------------
(* The invariant holds.                                                    *)

LEMMA SInvInit == Init => SInv
<1> SUFFICES ASSUME Init PROVE SInv
  OBVIOUS
<1>1. Shape /\ ControlInv
  BY ShapeInit
<1>2. /\ stage = 1 /\ phase = Entered(1) /\ buf = <<>> /\ wire = <<>> /\ outcome = None
      /\ server.at = 0 /\ server.todo = <<>>
      /\ server.due = IF proto \in Text THEN 1 ELSE 0
  BY DEF Init
<1>3. Ahead = <<>> /\ Len(Ahead) = 0
  BY <1>2 DEF Ahead
<1>4. Len(Stages) \in Nat \ {0} /\ proto \in Protocols
  BY <1>1, ServerType DEF Shape
<1>5. 1 \in 1..Len(Stages)
  BY <1>4
<1>6. Entered(1) = IF Stages[1].asks = None THEN "reading" ELSE "asking"
  BY <1>4, <1>5, EnteredIs
<1>7. TextInv
  <2>1. SUFFICES ASSUME proto \in Text PROVE phase = "reading" /\ Pending
    BY DEF TextInv
  <2>2. phase = "reading"
    BY <1>2, <1>5, <1>6, <2>1, TextStages
  <2>3. \A i \in 1..Len(Ahead) : FALSE
    BY <1>3
  <2>4. Pending
    BY <1>2, <2>1, <2>3 DEF Pending, Chatter
  <2>5. QED
    BY <2>2, <2>4
<1>8. BinaryInv
  <2>1. SUFFICES ASSUME proto \notin Text PROVE phase = "asking"
    BY <1>2, <1>3 DEF BinaryInv
  <2>2. Stages[1].asks # None
    BY <1>4, <1>5, <2>1, StagesLength, BinaryStages
  <2>3. QED
    BY <1>2, <1>6, <2>2
<1>9. RefusalIsSpoken
  BY <1>2, NoneIsNoEnd, Ended DEF RefusalIsSpoken
<1>10. QED
  BY <1>1, <1>7, <1>8, <1>9 DEF SInv

LEMMA SInvHolds == Spec => []SInv
<1>1. ASSUME SInv, [Next]_vars PROVE SInv'
  BY <1>1, ShapeKept, ControlKept, TextKept, BinaryKept, SpokenKept DEF SInv
<1>2. SInv /\ [Next]_vars => SInv'
  BY <1>1
<1>3. QED
  BY <1>2, SInvInit, PTL DEF Spec

-------------------------------------------------------------------------------
(* The theorems.                                                           *)

(* Before the handshake a binary dialogue has been answered in every stage. *)
LEMMA BinaryAgreed ==
    ASSUME SInv, proto \notin Text, phase = "hello"
    PROVE  \E reply \in YesTo(1) : Remains(reply) /\ server.yes
<1>1. PICK reply \in Replies : Remains(reply)
  BY DEF SInv, BinaryInv
<1>2. proto \in {"ldap", "postgres"} /\ Len(Stages) \in Nat /\ stage - 1 = Len(Stages)
  BY StagesLength, ServerType DEF SInv, Shape, ControlInv
<1>3. \A k \in 1..Len(Stages) : reply[k] \in Stages[k].wants
  BY <1>1, <1>2 DEF Remains
<1>4. reply \in YesTo(1)
  BY <1>2, <1>3, RepliesAnswer DEF Replies
<1>5. QED
  BY <1>1, <1>4 DEF Remains

(* The dialogue stays within its read limit and ends as classify expects,      *)
(* whatever the server does and however much it is allowed to say              *)
(* (starttls.go startTLSMaxRead).                                              *)
THEOREM StaysInItsLimit == Spec => []TypeOK
<1>1. SInv => TypeOK
  BY DEF SInv, Shape, ControlInv, TypeOK
<1>2. QED
  BY <1>1, SInvHolds, PTL

(* No ClientHello is sent to a server that has not agreed to the upgrade it    *)
(* was asked for last, unless a line without its end was taken for one         *)
(* (starttls.go startTLSSMTP, startTLSIMAP, startTLSPOP3, startTLSLDAP,        *)
(* startTLSPostgres).                                                          *)
THEOREM NoHelloUnagreed == Spec => []UpgradeIsAgreed
<1>1. ASSUME SInv, phase = "hello", ~cutShort PROVE server.yes
  <2>1. CASE proto \in Text
    BY <1>1, <2>1 DEF SInv, TextInv
  <2>2. CASE proto \notin Text
    BY <1>1, <2>2, BinaryAgreed
  <2>3. QED
    BY <2>1, <2>2
<1>2. SInv => UpgradeIsAgreed
  BY <1>1 DEF UpgradeIsAgreed
<1>3. QED
  BY <1>2, SInvHolds, PTL

(* A connection that ends in a refusal, which is never retried, was refused by *)
(* the server, with the same exception (starttls.go startTLSError).            *)
THEOREM NoRefusalUnspoken == Spec => []RefusalIsSpoken
<1>1. SInv => RefusalIsSpoken
  BY DEF SInv
<1>2. QED
  BY <1>1, SInvHolds, PTL

(* A command is never sent into the middle of a reply, so that no answer is    *)
(* looked for in what is left of it (starttls.go smtpReply).                   *)
THEOREM NeverOutOfTurn == Spec => []AsksInTurn
<1>1. ASSUME SInv, phase = "asking", ~cutShort
      PROVE  server.todo = <<>> /\ (proto # "imap" => wire = <<>> /\ buf = <<>>)
  <2>1. /\ Len(Ahead) = Len(buf) + Len(wire) /\ Len(buf) \in Nat /\ Len(wire) \in Nat
        /\ buf \in Seq(Pieces) /\ wire \in Seq(Pieces)
    BY <1>1, AheadParts DEF SInv, Shape
  <2>2. server.todo = <<>> /\ (proto # "imap" => Len(Ahead) = 0)
    <3>1. CASE proto \in Text
      <4>1. server.todo = <<>> /\ \A i \in 1..Len(Ahead) : proto = "imap"
        BY <1>1, <3>1 DEF SInv, TextInv, Unasked
      <4>2. QED
        BY <2>1, <4>1
    <3>2. CASE proto \notin Text
      BY <1>1, <3>2 DEF SInv, BinaryInv
    <3>3. QED
      BY <3>1, <3>2
  <2>3. QED
    BY <2>1, <2>2
<1>2. SInv => AsksInTurn
  BY <1>1 DEF AsksInTurn
<1>3. QED
  BY <1>2, SInvHolds, PTL

(* Nothing said in plaintext is left, or still to come, when TLS takes the      *)
(* socket over, but by LDAP: of its response one unit at most, the rest that    *)
(* nobody looks at (starttls.go textConn, startTLSLDAP, startTLSPostgres).      *)
THEOREM NoPlaintextLeft == Spec => []UpgradeIsClean
<1>1. ASSUME SInv, phase = "hello", ~cutShort
      PROVE  Len(wire) + Len(server.todo) <= IF proto = "ldap" THEN 1 ELSE 0
  <2>1. /\ Len(Ahead) = Len(buf) + Len(wire) /\ Len(buf) \in Nat /\ Len(wire) \in Nat
        /\ Len(server.todo) \in Nat /\ stage = Len(Stages) + 1
    BY <1>1, AheadParts, ServerType DEF SInv, Shape, ControlInv
  <2>2. PICK b \in Nat, w \in Nat, t \in Nat :
          b = Len(buf) /\ w = Len(wire) /\ t = Len(server.todo)
    BY <2>1
  <2>3. CASE proto \in Text
    <3>1. server.todo = <<>> /\ Ahead = <<>>
      BY <1>1, <2>3 DEF SInv, TextInv
    <3>2. Len(Ahead) = 0 /\ Len(server.todo) = 0
      BY <3>1
    <3>3. b + w = 0 /\ t = 0
      BY <2>1, <2>2, <3>2
    <3>4. w + t = 0
      BY <3>3
    <3>5. proto # "ldap"
      BY <2>3 DEF Text
    <3>6. QED
      BY <2>2, <3>4, <3>5
  <2>4. CASE proto \notin Text
    <3>1. PICK reply \in YesTo(1) : Remains(reply)
      BY <1>1, <2>4, BinaryAgreed
    <3>2. proto = "ldap" \/ proto = "postgres"
      BY <1>1, <2>4, StagesLength DEF SInv, Shape
    <3>3. Len(reply) = IF proto = "ldap" THEN 5 ELSE 1
      BY <3>2 DEF YesTo
    <3>4. stage = IF proto = "ldap" THEN 5 ELSE 2
      <4>1. Len(Stages) = IF proto = "ldap" THEN 4 ELSE 1
        BY <3>2, BinaryStages
      <4>2. CASE proto = "ldap"
        BY <2>1, <4>1, <4>2
      <4>3. CASE proto # "ldap"
        BY <2>1, <4>1, <4>3
      <4>4. QED
        BY <4>2, <4>3
    <3>5. stage - 1 + Len(Ahead) + Len(server.todo) <= Len(reply)
      BY <3>1 DEF Remains
    <3>6. CASE proto = "ldap"
      <4>1. 5 - 1 + (b + w) + t <= 5
        BY <2>1, <2>2, <3>3, <3>4, <3>5, <3>6
      <4>2. w + t <= 1
        BY <4>1
      <4>3. QED
        BY <2>2, <3>6, <4>2
    <3>7. CASE proto # "ldap"
      <4>1. 2 - 1 + (b + w) + t <= 1
        BY <2>1, <2>2, <3>3, <3>4, <3>5, <3>7
      <4>2. w + t <= 0
        BY <4>1
      <4>3. QED
        BY <2>2, <3>7, <4>2
    <3>8. QED
      BY <3>6, <3>7
  <2>5. QED
    BY <2>3, <2>4
<1>2. SInv => UpgradeIsClean
  BY <1>1 DEF UpgradeIsClean
<1>3. QED
  BY <1>2, SInvHolds, PTL
-------------------------------------------------------------------------------
(* How a connection ends, and what classify makes of it.                       *)

(* The consent outlives the dialogue: nothing is asked after it. *)
Agreed == stage > Len(Stages) /\ ~cutShort => server.yes /\ server.due = 0

(* ... and is in hand when the handshake begins. *)
HelloAgreed == phase = "hello" /\ ~cutShort => server.yes /\ server.due = 0

(* What ends a connection before that. *)
DialogueEnd == {"refusal", "eof", "reset", "timeout"}

EndInv == outcome \in DialogueEnd \cup {None} \/ stage > Len(Stages)

LEMMA ConsentInHand ==
    ASSUME SInv
    PROVE  HelloAgreed
<1> SUFFICES ASSUME phase = "hello", ~cutShort PROVE server.yes /\ server.due = 0
  BY DEF HelloAgreed
<1>1. CASE proto \in Text
  BY <1>1 DEF SInv, TextInv
<1>2. CASE proto \notin Text
  BY <1>2, BinaryAgreed DEF SInv, BinaryInv
<1>3. QED
  BY <1>1, <1>2

LEMMA AgreedKept ==
    ASSUME SInv, ControlInv', HelloAgreed', Agreed, [Next]_vars
    PROVE  Agreed'
<1>1. Stages' = Stages /\ stage \in 1..(Len(Stages) + 1) /\ Len(Stages) \in Nat
  BY Frame, ServerType DEF SInv, ControlInv
<1>2. CASE Read
  <2>1. /\ stage \in 1..Len(Stages)
        /\ stage' = stage \/ phase' = Entered(stage + 1)
    BY <1>2, ReadFacts DEF SInv
  <2>2. CASE stage' = stage
    BY <1>1, <2>1, <2>2 DEF Agreed
  <2>3. CASE phase' \in {"asking", "reading"}
    BY <1>1, <2>3 DEF Agreed, ControlInv
  <2>4. CASE phase' = "hello"
    BY <2>4 DEF Agreed, HelloAgreed
  <2>5. phase' = Entered(stage + 1) => phase' \in {"asking", "reading", "hello"}
    BY DEF Entered
  <2>6. QED
    BY <2>1, <2>2, <2>3, <2>4, <2>5
<1>3. CASE AskFails \/ ReadFails \/ Hello \/ Deadline
  <2>1. UNCHANGED <<stage, cutShort, server>>
    BY <1>3, EndFacts DEF SInv
  <2>2. QED
    BY <1>1, <2>1 DEF Agreed
<1>4. CASE Ask
  <2>1. stage' = stage /\ phase = "asking"
    BY <1>4 DEF Ask
  <2>2. stage <= Len(Stages)
    BY <2>1 DEF SInv, ControlInv
  <2>3. QED
    BY <1>1, <2>1, <2>2 DEF Agreed
<1>5. CASE Fill \/ Chat \/ UNCHANGED vars
  <2>1. UNCHANGED <<stage, cutShort, server>>
    BY <1>5 DEF Fill, Chat, client, vars
  <2>2. QED
    BY <1>1, <2>1 DEF Agreed
<1>6. CASE Answer
  <2>1. UNCHANGED <<stage, cutShort>> /\ server.due # 0
    BY <1>6, AnswerFacts DEF SInv
  <2>2. QED
    BY <1>1, <2>1 DEF Agreed
<1>7. CASE Send
  <2>1. UNCHANGED <<stage, cutShort>> /\ server'.yes = server.yes /\ server'.due = server.due
    BY <1>7, SendFacts DEF SInv
  <2>2. QED
    BY <1>1, <2>1 DEF Agreed
<1>8. CASE Close
  <2>1. UNCHANGED <<stage, cutShort>> /\ server'.yes = server.yes /\ server'.due = 0
    BY <1>8, CloseFacts DEF SInv
  <2>2. QED
    BY <1>1, <2>1 DEF Agreed
<1>9. QED
  BY <1>2, <1>3, <1>4, <1>5, <1>6, <1>7, <1>8 DEF Next, Client

LEMMA EndKept ==
    ASSUME SInv, EndInv, [Next]_vars
    PROVE  EndInv'
<1>1. Stages' = Stages /\ stage \in 1..(Len(Stages) + 1) /\ Len(Stages) \in Nat
  BY Frame, ServerType DEF SInv, ControlInv
<1>2. CASE Ask \/ Fill \/ Answer \/ Send \/ Chat \/ Close \/ UNCHANGED vars
  <2>1. UNCHANGED <<outcome, stage>>
    BY <1>2 DEF Ask, Fill, Answer, Send, Chat, Close, client, vars
  <2>2. QED
    BY <1>1, <2>1 DEF EndInv
<1>3. CASE AskFails \/ ReadFails \/ Deadline
  BY <1>3 DEF AskFails, ReadFails, Deadline, Ends, EndInv, DialogueEnd
<1>4. CASE Read
  <2>1. \/ outcome' = "refusal"
        \/ outcome' = outcome /\ stage' \in {stage, stage + 1}
    BY <1>4 DEF Read, Ends
  <2>2. QED
    BY <1>1, <2>1 DEF EndInv, DialogueEnd
<1>5. CASE Hello
  <2>1. stage' = stage /\ stage = Len(Stages) + 1
    BY <1>5 DEF Hello, SInv, ControlInv
  <2>2. QED
    BY <1>1, <2>1 DEF EndInv
<1>6. QED
  BY <1>2, <1>3, <1>4, <1>5 DEF Next, Client

(* What is not tried again is an answer: a refusal in the dialogue, or any      *)
(* failure of a handshake the server agreed to, its certificate and alerts      *)
(* included; a line without its end is the exception (status.go classify,       *)
(* starttls.go startTLSError, checker.go dial).                                 *)
THEOREM FinalMeansAnswered == Spec => []OnlyAnswersAreFinal
<1>1. Init => Agreed /\ EndInv
  <2> SUFFICES ASSUME Init PROVE Agreed /\ EndInv
    OBVIOUS
  <2>1. Len(Stages) \in Nat \ {0} /\ stage = 1 /\ outcome = None
    BY StagesLength DEF Init
  <2>2. QED
    BY <2>1 DEF Agreed, EndInv
<1>2. SInv => HelloAgreed /\ ControlInv
  BY ConsentInHand DEF SInv
<1>3. Agreed /\ SInv /\ ControlInv' /\ HelloAgreed' /\ [Next]_vars => Agreed'
  BY AgreedKept
<1>4. EndInv /\ SInv /\ [Next]_vars => EndInv'
  BY EndKept
<1>5. Agreed /\ EndInv /\ RefusalIsSpoken => OnlyAnswersAreFinal
  <2> SUFFICES ASSUME Agreed, EndInv, RefusalIsSpoken, outcome \in DialError,
                      ~classify(outcome).retryable, ~cutShort
               PROVE  IF stage > Len(Stages) THEN server.yes ELSE server.no
    BY DEF OnlyAnswersAreFinal
  <2>1. CASE stage > Len(Stages)
    BY <2>1 DEF Agreed
  <2>2. CASE ~(stage > Len(Stages))
    <3>1. outcome \notin Transient
      BY DEF classify
    <3>2. outcome # None
      BY NoneIsNoEnd
    <3>3. outcome \in DialogueEnd
      BY <2>2, <3>2 DEF EndInv
    <3>4. outcome = "refusal"
      BY <3>1, <3>3, Zenon DEF DialogueEnd, Transient
    <3>5. QED
      BY <2>2, <3>4 DEF RefusalIsSpoken
  <2>3. QED
    BY <2>1, <2>2
<1>6. Spec => [](SInv /\ HelloAgreed /\ ControlInv)
  BY <1>2, SInvHolds, PTL
<1>7. QED
  BY <1>1, <1>3, <1>4, <1>5, <1>6, NoRefusalUnspoken, PTL DEF Spec
===============================================================================
