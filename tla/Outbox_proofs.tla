----------------------------- MODULE Outbox_proofs -----------------------------
(***************************************************************************)
(* Proofs about Outbox, for any processes, recipients, problems, mail      *)
(* configuration, length of a file and number of cycles.                   *)
(***************************************************************************)
EXTENDS Outbox, FiniteSetTheorems, SequenceTheorems, TLAPS

-------------------------------------------------------------------------------
(* Types.                                                                  *)

FileType == [text : SUBSET Problem, written : 0..Parts, synced : 0..Parts]

SessionType == [done : Nat, secure : BOOLEAN, accepted : SUBSET Recipients]

JobType ==
    [at : {"off", "report", "hook", "mail", "history", "ended"}, n : 0..MaxRuns,
     batch : SUBSET Problem, step : 1..5, known : SUBSET Problem,
     session : SessionType, revealed : SUBSET {"password", "message"}, failed : BOOLEAN]

Types ==
    /\ mail \in Mails
    /\ disk \in [Names -> FileType]
    /\ past \in [Paths -> SUBSET FileType]
    /\ job \in [Processes -> JobType]
    /\ heard \subseteq Receivers \X Problem

-------------------------------------------------------------------------------
(* The mail session.                                                       *)

(* Where the first "rcpt" stands. *)
First(m) ==
    3 + (IF m.tls = "starttls" THEN 1 ELSE 0) + (IF m.user THEN 1 ELSE 0)

(* A session under way: TLS from the moment the configuration says, and one *)
(* recipient for each "rcpt" done, so all of them before the message.      *)
SessionOK(m, s) ==
    /\ s.done <= First(m) + Rcpts + 2
    /\ s.secure <=> \/ m.tls = "implicit" /\ s.done >= 1
                    \/ m.tls = "starttls" /\ s.done >= 3
    /\ s.done <= First(m) => s.accepted = {}
    /\ s.done \in First(m)..(First(m) + Rcpts) => Cardinality(s.accepted) = s.done - First(m)
    /\ s.done >= First(m) + Rcpts => s.accepted = Recipients

-------------------------------------------------------------------------------
(* What a job has done so far.                                             *)

(* Each of the receivers has heard of each of the problems. *)
Told(receivers, problems, h) == \A r \in receivers : \A problem \in problems : <<r, problem>> \in h

(* h is what was heard, texts what reports have shown. *)
JobOK(j, h, texts) ==
    /\ j.at \notin {"off", "ended"} => j.batch \in Batches
    /\ j.at \in {"hook", "mail", "history"} =>
          /\ j.batch \in texts
          /\ Told(Receivers, j.known, h)
    /\ j.at \in {"mail", "history"} /\ ~j.failed => Told({"hook"}, Pending(j), h)
    /\ j.at = "history" /\ ~j.failed => Told(Recipients, Pending(j), h)
    /\ j.at \notin Paths => j.step = 1
    /\ j.at # "mail" => j.session = NewSession

(* What a session may have said in the clear. *)
Covered(m, revealed) ==
    revealed # {} => m.tls = "none" /\ ("password" \in revealed => m.local)

MailOK(m, j, h) ==
    /\ j.at = "mail" =>
          /\ SessionOK(m, j.session)
          /\ j.session.done = First(m) + Rcpts + 2 => Told(Recipients, Pending(j), h)
    /\ Covered(m, j.revealed)

(* The file a job is writing, f, and those it is not. *)
DraftOK(j, f) ==
    /\ j.step >= 2 => f.text = TextOf(j)
    /\ j.step = 2 => f.written < Parts
    /\ j.step >= 3 => f.written = Parts
    /\ j.step >= 4 => f.synced = Parts

TempOK(p, j, d) ==
    /\ j.at # "off" => j.n \in 1..MaxRuns
    /\ \A path \in Paths : \A m \in 1..MaxRuns :
          m > j.n \/ (m = j.n /\ j.at \notin {path, "off"}) => d[Temp(path, p, m)] = NoFile
    /\ j.at \in Paths => DraftOK(j, d[Temp(j.at, p, j.n)])

-------------------------------------------------------------------------------
(* What was published, now or before a power failure.                      *)

Files(path) == past[path] \cup {disk[Published(path)]}

Texts == {f.text : f \in Files("report")}

FilesInv ==
    /\ \A path \in Paths : \A f \in Files(path) : f.written = Parts /\ f.synced = Parts
    /\ \A f \in Files("report") : f.text \in Batches \cup {{}}
    /\ \A f \in Files("history") :
          Told(Receivers, f.text, heard) /\ f.text \in SUBSET UNION Batches

HeardInv ==
    \A r \in Receivers, problem \in Problem :
        <<r, problem>> \in heard => \E text \in Texts : problem \in text

IInv ==
    /\ Types
    /\ FilesInv
    /\ HeardInv
    /\ \A p \in Processes :
          JobOK(job[p], heard, Texts) /\ MailOK(mail, job[p], heard) /\ TempOK(p, job[p], disk)

-------------------------------------------------------------------------------
(* The commands of a session.                                              *)

(* The commands before the first "rcpt". *)
Opening(m) ==
    <<"dial", "greet">>
        \o (IF m.tls = "starttls" THEN <<"starttls">> ELSE <<>>)
        \o (IF m.user THEN <<"auth">> ELSE <<>>)
        \o <<"mail">>

Word == {"dial", "greet", "starttls", "auth", "mail", "rcpt", "data", "body", "quit"}

LEMMA Joined ==
    ASSUME NEW S, NEW s \in Seq(S), NEW t \in Seq(S)
    PROVE  /\ s \o t \in Seq(S)
           /\ Len(s \o t) = Len(s) + Len(t)
           /\ \A k \in 1..Len(s) : (s \o t)[k] = s[k]
           /\ \A k \in 1..Len(t) : (s \o t)[Len(s) + k] = t[k]
<1>1. /\ s \o t \in Seq(S)
      /\ Len(s \o t) = Len(s) + Len(t)
      /\ \A i \in 1 .. Len(s) + Len(t) : (s \o t)[i] = IF i <= Len(s) THEN s[i] ELSE t[i - Len(s)]
  BY ConcatProperties
<1>2. Len(s) \in Nat /\ Len(t) \in Nat
  OBVIOUS
<1>3. ASSUME NEW k \in 1..Len(s) PROVE (s \o t)[k] = s[k]
  BY <1>1, <1>2
<1>4. ASSUME NEW k \in 1..Len(t) PROVE (s \o t)[Len(s) + k] = t[k]
  <2> DEFINE i == Len(s) + k
  <2>1. i \in 1..Len(s) + Len(t) /\ ~(i <= Len(s)) /\ i - Len(s) = k
    BY <1>2
  <2> HIDE DEF i
  <2>2. (s \o t)[i] = t[i - Len(s)]
    BY <1>1, <2>1
  <2>3. QED
    BY <2>1, <2>2 DEF i
<1>5. QED
  BY <1>1, <1>3, <1>4

LEMMA OpeningLike ==
    ASSUME NEW m \in MailConfig
    PROVE  /\ Opening(m) \in Seq(Word)
           /\ Len(Opening(m)) = First(m)
           /\ Opening(m)[1] = "dial" /\ Opening(m)[2] = "greet"
           /\ \A k \in 3..First(m) :
                 /\ Opening(m)[k] \in {"starttls", "auth", "mail"}
                 /\ Opening(m)[k] = "starttls" <=> k = 3 /\ m.tls = "starttls"
<1> DEFINE hello == <<"dial", "greet">>
           tls == IF m.tls = "starttls" THEN <<"starttls">> ELSE <<>>
           auth == IF m.user THEN <<"auth">> ELSE <<>>
           from == <<"mail">>
           A == hello \o tls
           B == A \o auth
<1>1. Opening(m) = B \o from
  BY DEF Opening
<1>2. /\ hello \in Seq(Word) /\ Len(hello) = 2 /\ hello[1] = "dial" /\ hello[2] = "greet"
      /\ from \in Seq(Word) /\ Len(from) = 1 /\ from[1] = "mail"
  BY DEF Word
<1>3. /\ tls \in Seq(Word) /\ Len(tls) = (IF m.tls = "starttls" THEN 1 ELSE 0)
      /\ \A k \in 1..Len(tls) : tls[k] = "starttls"
  <2>1. CASE m.tls = "starttls"
    BY <2>1 DEF Word
  <2>2. CASE m.tls # "starttls"
    BY <2>2 DEF Word
  <2>3. QED
    BY <2>1, <2>2
<1>4. /\ auth \in Seq(Word) /\ Len(auth) = (IF m.user THEN 1 ELSE 0)
      /\ \A k \in 1..Len(auth) : auth[k] = "auth"
  <2>1. CASE m.user
    BY <2>1 DEF Word
  <2>2. CASE ~m.user
    BY <2>2 DEF Word
  <2>3. QED
    BY <2>1, <2>2
<1> HIDE DEF hello, tls, auth, from
<1>5. /\ A \in Seq(Word)
      /\ Len(A) = Len(hello) + Len(tls)
      /\ \A k \in 1..Len(hello) : A[k] = hello[k]
      /\ \A k \in 1..Len(tls) : A[Len(hello) + k] = tls[k]
  <2>1. hello \in Seq(Word) /\ tls \in Seq(Word)
    BY <1>2, <1>3
  <2>2. QED
    BY <2>1, Joined
<1> HIDE DEF A
<1>6. /\ B \in Seq(Word)
      /\ Len(B) = Len(A) + Len(auth)
      /\ \A k \in 1..Len(A) : B[k] = A[k]
      /\ \A k \in 1..Len(auth) : B[Len(A) + k] = auth[k]
  <2>1. A \in Seq(Word) /\ auth \in Seq(Word)
    BY <1>4, <1>5
  <2>2. QED
    BY <2>1, Joined
<1> HIDE DEF B
<1>7. /\ Opening(m) \in Seq(Word)
      /\ Len(Opening(m)) = Len(B) + Len(from)
      /\ \A k \in 1..Len(B) : Opening(m)[k] = B[k]
      /\ \A k \in 1..Len(from) : Opening(m)[Len(B) + k] = from[k]
  <2>1. B \in Seq(Word) /\ from \in Seq(Word)
    BY <1>2, <1>6
  <2>2. QED
    BY <1>1, <2>1, Joined
<1>8. Len(Opening(m)) = First(m)
  BY <1>2, <1>3, <1>4, <1>5, <1>6, <1>7 DEF First
<1>9. Opening(m)[1] = "dial" /\ Opening(m)[2] = "greet"
  BY <1>2, <1>3, <1>4, <1>5, <1>6, <1>7
<1>10. m.tls = "starttls" => Opening(m)[3] = "starttls"
  BY <1>2, <1>3, <1>4, <1>5, <1>6, <1>7
<1>11. m.user => Opening(m)[Len(A) + 1] = "auth"
  BY <1>2, <1>3, <1>4, <1>5, <1>6, <1>7
<1>12. Opening(m)[First(m)] = "mail"
  BY <1>2, <1>3, <1>4, <1>5, <1>6, <1>7, <1>8
<1>13. Len(A) = IF m.tls = "starttls" THEN 3 ELSE 2
  BY <1>2, <1>3, <1>5
<1>14. QED
  BY <1>7, <1>8, <1>9, <1>10, <1>11, <1>12, <1>13 DEF First

LEMMA Counts ==
    ASSUME NEW m \in MailConfig
    PROVE Rcpts \in Nat \ {0} /\ First(m) \in 3..5
<1>1. Rcpts \in Nat
  BY OutboxAssumption, FS_CardinalityType DEF Rcpts
<1>2. Rcpts # 0
  BY OutboxAssumption, FS_EmptySet DEF Rcpts
<1>3. QED
  BY <1>1, <1>2 DEF First

LEMMA CommandsAre ==
    ASSUME NEW m \in MailConfig
    PROVE  /\ Len(Commands(m)) = First(m) + Rcpts + 3
           /\ \A k \in 1..First(m) : Commands(m)[k] = Opening(m)[k]
           /\ \A k \in (First(m) + 1)..(First(m) + Rcpts) : Commands(m)[k] = "rcpt"
           /\ Commands(m)[First(m) + Rcpts + 1] = "data"
           /\ Commands(m)[First(m) + Rcpts + 2] = "body"
           /\ Commands(m)[First(m) + Rcpts + 3] = "quit"
<1> DEFINE opening == Opening(m)
           rcpts == [i \in 1..Rcpts |-> "rcpt"]
           closing == <<"data", "body", "quit">>
           B == opening \o rcpts
<1>1. Commands(m) = B \o closing
  BY DEF Commands, Opening
<1>2. opening \in Seq(Word) /\ Len(opening) = First(m)
  BY OpeningLike
<1>3. rcpts \in Seq(Word) /\ Len(rcpts) = Rcpts /\ \A i \in 1..Rcpts : rcpts[i] = "rcpt"
  BY Counts DEF Word
<1>4. /\ closing \in Seq(Word) /\ Len(closing) = 3
      /\ closing[1] = "data" /\ closing[2] = "body" /\ closing[3] = "quit"
  BY DEF Word
<1>5. First(m) \in Nat /\ Rcpts \in Nat
  BY Counts
<1> HIDE DEF opening, rcpts, closing
<1>6. /\ B \in Seq(Word)
      /\ Len(B) = Len(opening) + Len(rcpts)
      /\ \A k \in 1..Len(opening) : B[k] = opening[k]
      /\ \A k \in 1..Len(rcpts) : B[Len(opening) + k] = rcpts[k]
  <2>1. opening \in Seq(Word) /\ rcpts \in Seq(Word)
    BY <1>2, <1>3
  <2>2. QED
    BY <2>1, Joined
<1> HIDE DEF B
<1>7. /\ Commands(m) \in Seq(Word)
      /\ Len(Commands(m)) = Len(B) + Len(closing)
      /\ \A k \in 1..Len(B) : Commands(m)[k] = B[k]
      /\ \A k \in 1..Len(closing) : Commands(m)[Len(B) + k] = closing[k]
  <2>1. B \in Seq(Word) /\ closing \in Seq(Word)
    BY <1>4, <1>6
  <2>2. QED
    BY <1>1, <2>1, Joined
<1>8. \A k \in 1..First(m) : Commands(m)[k] = opening[k]
  BY <1>2, <1>3, <1>5, <1>6, <1>7
<1>9. ASSUME NEW k \in (First(m) + 1)..(First(m) + Rcpts) PROVE Commands(m)[k] = "rcpt"
  <2>1. k - First(m) \in 1..Rcpts /\ k = First(m) + (k - First(m)) /\ k \in 1..Len(B)
    BY <1>2, <1>3, <1>5, <1>6
  <2>2. B[First(m) + (k - First(m))] = "rcpt"
    BY <1>2, <1>3, <1>6, <2>1
  <2>3. QED
    BY <1>7, <2>1, <2>2
<1>10. Len(B) = First(m) + Rcpts
  BY <1>2, <1>3, <1>6
<1>11. /\ Commands(m)[First(m) + Rcpts + 1] = "data"
       /\ Commands(m)[First(m) + Rcpts + 2] = "body"
       /\ Commands(m)[First(m) + Rcpts + 3] = "quit"
  BY <1>4, <1>7, <1>10
<1>12. QED
  BY <1>4, <1>7, <1>8, <1>9, <1>10, <1>11 DEF opening

(* The command at each place of a session. *)
LEMMA CommandAt ==
    ASSUME NEW m \in MailConfig, NEW s, s.done \in 0..(First(m) + Rcpts + 2)
    PROVE  /\ Command(m, s) = "dial" <=> s.done = 0
           /\ Command(m, s) = "starttls" <=> s.done = 2 /\ m.tls = "starttls"
           /\ Command(m, s) = "rcpt" <=> s.done \in First(m)..(First(m) + Rcpts - 1)
           /\ Command(m, s) = "body" <=> s.done = First(m) + Rcpts + 1
           /\ s.done < 2 => Command(m, s) \in {"dial", "greet"}
<1> DEFINE word == Commands(m)
           opening == Opening(m)
<1>1. /\ First(m) \in 3..5 /\ Rcpts \in Nat \ {0}
      /\ Command(m, s) = word[s.done + 1]
  BY Counts DEF Command
<1>0. /\ \A k \in 1..First(m) : word[k] = opening[k]
      /\ opening[1] = "dial" /\ opening[2] = "greet"
      /\ \A k \in 3..First(m) :
            /\ opening[k] \in {"starttls", "auth", "mail"}
            /\ opening[k] = "starttls" <=> k = 3 /\ m.tls = "starttls"
      /\ \A k \in (First(m) + 1)..(First(m) + Rcpts) : word[k] = "rcpt"
      /\ word[First(m) + Rcpts + 1] = "data"
      /\ word[First(m) + Rcpts + 2] = "body"
      /\ word[First(m) + Rcpts + 3] = "quit"
  BY CommandsAre, OpeningLike
<1> HIDE DEF word, opening
<1>2. CASE s.done = 0
  BY <1>0, <1>1, <1>2
<1>3. CASE s.done = 1
  BY <1>0, <1>1, <1>3
<1>4. CASE s.done \in 2..(First(m) - 1)
  <2>1. s.done + 1 \in 3..First(m) /\ s.done + 1 \in 1..First(m)
    BY <1>1, <1>4
  <2>2. /\ Command(m, s) \in {"starttls", "auth", "mail"}
        /\ Command(m, s) = "starttls" <=> s.done + 1 = 3 /\ m.tls = "starttls"
    BY <1>0, <1>1, <2>1
  <2>3. QED
    BY <1>1, <1>4, <2>2
<1>5. CASE s.done \in First(m)..(First(m) + Rcpts - 1)
  <2>1. s.done + 1 \in (First(m) + 1)..(First(m) + Rcpts)
    BY <1>1, <1>5
  <2>2. Command(m, s) = "rcpt"
    BY <1>0, <1>1, <2>1
  <2>3. QED
    BY <1>1, <1>5, <2>2
<1>6. CASE s.done \in (First(m) + Rcpts)..(First(m) + Rcpts + 2)
  <2>1. Command(m, s) = IF s.done = First(m) + Rcpts THEN "data"
                        ELSE IF s.done = First(m) + Rcpts + 1 THEN "body" ELSE "quit"
    BY <1>0, <1>1, <1>6
  <2>2. QED
    BY <1>1, <1>6, <2>1
<1>7. QED
  BY <1>1, <1>2, <1>3, <1>4, <1>5, <1>6

(* The server obeys. *)
LEMMA ObeyedOK ==
    ASSUME NEW m \in MailConfig, NEW s \in SessionType, SessionOK(m, s)
    PROVE  LET t == Obeyed(m, s, NextRecipient(s))
           IN  /\ t.done = s.done + 1
               /\ SessionOver(m, t) <=> s.done = First(m) + Rcpts + 2
               /\ ~SessionOver(m, t) => t \in SessionType /\ SessionOK(m, t)
<1> DEFINE t == Obeyed(m, s, NextRecipient(s))
           c == Command(m, s)
<1>1. /\ First(m) \in 3..5 /\ Rcpts \in Nat \ {0} /\ s.done \in Nat
      /\ s.done \in 0..(First(m) + Rcpts + 2)
      /\ s.secure \in BOOLEAN /\ s.accepted \in SUBSET Recipients
  BY Counts DEF SessionType, SessionOK
<1>2. /\ c = "dial" <=> s.done = 0
      /\ c = "starttls" <=> s.done = 2 /\ m.tls = "starttls"
      /\ c = "rcpt" <=> s.done \in First(m)..(First(m) + Rcpts - 1)
  BY <1>1, CommandAt
<1> HIDE DEF c
<1>3. /\ t.done = s.done + 1
      /\ t.secure <=> s.secure \/ c = "starttls" \/ (c = "dial" /\ m.tls = "implicit")
      /\ t.accepted = s.accepted \cup (IF c = "rcpt" THEN {NextRecipient(s)} ELSE {})
      /\ t = [done |-> t.done, secure |-> t.secure, accepted |-> t.accepted]
      /\ t.secure \in BOOLEAN
  BY <1>1 DEF Obeyed, c
<1> HIDE DEF t
<1>4. SessionOver(m, t) <=> s.done = First(m) + Rcpts + 2
  BY <1>1, <1>3, CommandsAre DEF SessionOver
<1>5. t.secure <=> \/ m.tls = "implicit" /\ t.done >= 1
                   \/ m.tls = "starttls" /\ t.done >= 3
  BY <1>1, <1>2, <1>3 DEF SessionOK
<1>6. IsFiniteSet(Recipients) /\ Cardinality(Recipients) = Rcpts
  BY OutboxAssumption DEF Rcpts
<1>7. CASE c = "rcpt"
  <2>1. s.done \in First(m)..(First(m) + Rcpts - 1)
    BY <1>2, <1>7
  <2>2. Cardinality(s.accepted) = s.done - First(m) /\ Cardinality(s.accepted) < Rcpts
    BY <1>1, <2>1 DEF SessionOK
  <2>3. ~(Recipients \subseteq s.accepted)
    <3>1. Recipients \subseteq s.accepted => Recipients = s.accepted
      BY <1>1
    <3>2. QED
      BY <1>1, <1>6, <2>2, <3>1
  <2>4. NextRecipient(s) \in Recipients /\ NextRecipient(s) \notin s.accepted
    BY <2>3 DEF NextRecipient
  <2>5. t.accepted = s.accepted \cup {NextRecipient(s)} /\ t.accepted \in SUBSET Recipients
    BY <1>1, <1>3, <1>7, <2>4
  <2>6. Cardinality(t.accepted) = Cardinality(s.accepted) + 1
    <3>1. IsFiniteSet(s.accepted)
      BY <1>1, <1>6, FS_Subset
    <3>2. QED
      BY <2>4, <2>5, <3>1, FS_AddElement
  <2>7. t.done \in (First(m) + 1)..(First(m) + Rcpts) /\ Cardinality(t.accepted) = t.done - First(m)
    BY <1>1, <1>3, <2>1, <2>2, <2>6
  <2>8. t.done >= First(m) + Rcpts => t.accepted = Recipients
    <3>1. t.done >= First(m) + Rcpts => Cardinality(t.accepted) = Rcpts
      BY <1>1, <2>7
    <3>2. QED
      BY <1>6, <2>5, <3>1, FS_Subset
  <2>9. t \in SessionType
    BY <1>1, <1>3, <2>5 DEF SessionType
  <2>10. SessionOK(m, t)
    BY <1>1, <1>5, <2>7, <2>8 DEF SessionOK
  <2>11. QED
    BY <1>3, <1>4, <2>9, <2>10 DEF t
<1>8. CASE c # "rcpt"
  <2>1. t.accepted = s.accepted /\ s.done \notin First(m)..(First(m) + Rcpts - 1)
    BY <1>2, <1>3, <1>8
  <2>2. t \in SessionType
    BY <1>1, <1>3, <2>1 DEF SessionType
  <2>3. /\ t.done <= First(m) => t.accepted = {}
        /\ t.done >= First(m) + Rcpts => t.accepted = Recipients
    BY <1>1, <1>3, <2>1 DEF SessionOK
  <2>4. t.done \in First(m)..(First(m) + Rcpts) => Cardinality(t.accepted) = t.done - First(m)
    <3>1. t.done \in First(m)..(First(m) + Rcpts) => t.done = First(m)
      BY <1>1, <1>3, <2>1
    <3>2. Cardinality({}) = 0
      BY FS_EmptySet
    <3>3. t.done = First(m) => t.accepted = {} /\ t.done - First(m) = 0
      BY <1>1, <1>3, <2>3
    <3>4. QED
      BY <3>1, <3>2, <3>3
  <2>5. ~SessionOver(m, t) => SessionOK(m, t)
    BY <1>1, <1>3, <1>4, <1>5, <2>3, <2>4 DEF SessionOK
  <2>6. QED
    BY <1>3, <1>4, <2>2, <2>5 DEF t
<1>9. QED
  BY <1>7, <1>8

(* What goes in the clear: nothing where TLS is configured, and the password *)
(* only where it stays on the machine.                                       *)
LEMMA RevealsLittle ==
    ASSUME NEW m \in MailConfig, NEW s \in SessionType, SessionOK(m, s),
           Reveals(m, s), ~s.secure
    PROVE  m.tls = "none" /\ (Command(m, s) = "auth" => m.local)
<1>1. /\ First(m) \in 3..5 /\ Rcpts \in Nat \ {0} /\ s.done \in Nat
      /\ s.done \in 0..(First(m) + Rcpts + 2)
  BY Counts DEF SessionType, SessionOK
<1>2. Command(m, s) \in {"mail", "rcpt", "data", "body", "auth"}
  BY DEF Reveals
<1>3. s.done >= 2 /\ ~(s.done = 2 /\ m.tls = "starttls")
  BY <1>1, <1>2, CommandAt
<1>4. m.tls = "none"
  BY <1>1, <1>3 DEF SessionOK, MailConfig
<1>5. QED
  BY <1>4 DEF Reveals, Refrains

-------------------------------------------------------------------------------
(* The names of files.                                                     *)

LEMMA NameFacts ==
    ASSUME NEW path \in Paths
    PROVE  /\ Published(path) \in Names
           /\ \A p \in Processes, n \in 1..MaxRuns : Temp(path, p, n) \in Names
           /\ \A other \in Paths : \A p, n :
                 /\ Published(path) = Published(other) => path = other
                 /\ n \in 1..MaxRuns => Temp(other, p, n) # Published(path)
           /\ \A other \in Paths : \A p, q, m, n :
                 Temp(path, p, m) = Temp(other, q, n) => path = other /\ p = q /\ m = n
  BY OutboxAssumption DEF Names, Published, Temp

LEMMA PathsAre == Paths = {"report", "history"} /\ "report" \in Paths /\ "history" \in Paths
  BY OutboxAssumption

LEMMA NoFileType == NoFile \in FileType
  BY OutboxAssumption DEF NoFile, File, FileType

-------------------------------------------------------------------------------
(* What holds of a job and what others do.                                 *)

(* Having been heard and having been shown last. *)
LEMMA StaysOK ==
    ASSUME NEW m, NEW j, NEW h, NEW g, h \subseteq g, NEW texts, NEW more, texts \subseteq more,
           JobOK(j, h, texts), MailOK(m, j, h)
    PROVE  JobOK(j, g, more) /\ MailOK(m, j, g)
<1>1. \A rs, ts : Told(rs, ts, h) => Told(rs, ts, g)
  BY DEF Told
<1>2. JobOK(j, g, more)
  BY <1>1 DEF JobOK
<1>3. MailOK(m, j, g)
  BY <1>1 DEF MailOK
<1>4. QED
  BY <1>2, <1>3

(* Nobody touches the temporary files of somebody else. *)
LEMMA TempStaysOK ==
    ASSUME NEW p \in Processes, NEW j \in JobType, NEW d, NEW e,
           TempOK(p, j, d),
           \A path \in Paths, m \in 1..MaxRuns : e[Temp(path, p, m)] = d[Temp(path, p, m)]
    PROVE  TempOK(p, j, e)
<1>1. j.at \in Paths => j.at # "off" /\ j.n \in 1..MaxRuns
  BY PathsAre DEF TempOK
<1>2. j.at \in Paths => DraftOK(j, e[Temp(j.at, p, j.n)])
  BY <1>1 DEF TempOK
<1>3. QED
  BY <1>2 DEF TempOK

(* A step of one job that leaves the disk alone, whatever is heard of its batch. *)
LEMMA JobMoves ==
    ASSUME IInv, NEW p \in Processes, NEW j \in JobType,
           job' = [job EXCEPT ![p] = j], UNCHANGED <<mail, disk, past>>,
           heard \subseteq heard',
           heard' \subseteq heard \cup (Receivers \X job[p].batch),
           heard' = heard \/ job[p].batch \in Texts,
           JobOK(j, heard', Texts), MailOK(mail, j, heard'), TempOK(p, j, disk)
    PROVE  IInv'
<1>1. Texts' = Texts /\ \A path \in Paths : Files(path)' = Files(path)
  BY DEF Texts, Files
<1>2. job[p].batch \in SUBSET Problem
  BY DEF IInv, Types, JobType
<1>3. Types'
  <2>1. job' \in [Processes -> JobType]
    BY DEF IInv, Types
  <2>2. heard' \subseteq Receivers \X Problem
    BY <1>2 DEF IInv, Types
  <2>3. QED
    BY <2>1, <2>2 DEF IInv, Types
<1>4. FilesInv'
  <2>1. \A rs, ts : Told(rs, ts, heard) => Told(rs, ts, heard')
    BY DEF Told
  <2>2. QED
    BY <1>1, <2>1, PathsAre DEF IInv, FilesInv
<1>5. HeardInv'
  <2>1. ASSUME NEW r \in Receivers, NEW problem \in Problem, <<r, problem>> \in heard'
        PROVE  \E text \in Texts : problem \in text
    <3>1. CASE <<r, problem>> \in heard
      BY <3>1 DEF IInv, HeardInv
    <3>2. CASE <<r, problem>> \notin heard
      <4>1. heard' # heard /\ <<r, problem>> \in Receivers \X job[p].batch
        BY <2>1, <3>2
      <4>2. job[p].batch \in Texts /\ problem \in job[p].batch
        BY <4>1
      <4>3. QED
        BY <4>2
    <3>3. QED
      BY <3>1, <3>2
  <2>2. QED
    BY <1>1, <2>1 DEF HeardInv
<1>6. ASSUME NEW q \in Processes
      PROVE  JobOK(job'[q], heard', Texts) /\ MailOK(mail, job'[q], heard') /\ TempOK(q, job'[q], disk)
  <2>1. CASE q = p
    <3>1. job'[q] = j
      BY <2>1 DEF IInv, Types
    <3>2. QED
      BY <2>1, <3>1
  <2>2. CASE q # p
    <3>1. job'[q] = job[q]
      BY <2>2 DEF IInv, Types
    <3>2. JobOK(job[q], heard, Texts) /\ MailOK(mail, job[q], heard) /\ TempOK(q, job[q], disk)
      BY DEF IInv
    <3>3. JobOK(job[q], heard', Texts) /\ MailOK(mail, job[q], heard')
      BY <3>2, StaysOK
    <3>4. QED
      BY <3>1, <3>2, <3>3
  <2>3. QED
    BY <2>1, <2>2
<1>7. QED
  BY <1>1, <1>3, <1>4, <1>5, <1>6 DEF IInv

(* A step of one job on a temporary file of its own. *)
LEMMA DraftMoves ==
    ASSUME IInv, NEW p \in Processes, NEW j \in JobType, NEW path \in Paths,
           NEW n \in 1..MaxRuns, NEW f \in FileType,
           disk' = [disk EXCEPT ![Temp(path, p, n)] = f],
           job' = [job EXCEPT ![p] = j], UNCHANGED <<mail, past, heard>>,
           JobOK(j, heard, Texts), MailOK(mail, j, heard), TempOK(p, j, disk')
    PROVE  IInv'
<1> DEFINE name == Temp(path, p, n)
<1>1. name \in Names /\ \A other \in Paths : Published(other) # name /\ Published(other) \in Names
  BY NameFacts
<1>2. /\ disk' \in [Names -> FileType]
      /\ \A other \in Names : other # name => disk'[other] = disk[other]
  BY <1>1 DEF IInv, Types
<1> HIDE DEF name
<1>3. \A other \in Paths : Files(other)' = Files(other)
  BY <1>1, <1>2 DEF Files
<1>4. Texts' = Texts
  BY <1>3, PathsAre DEF Texts
<1>5. Types'
  BY <1>2 DEF IInv, Types
<1>6. FilesInv'
  BY <1>3, PathsAre DEF IInv, FilesInv
<1>7. HeardInv'
  BY <1>4 DEF IInv, HeardInv
<1>8. ASSUME NEW q \in Processes
      PROVE  JobOK(job'[q], heard, Texts) /\ MailOK(mail, job'[q], heard) /\ TempOK(q, job'[q], disk')
  <2>1. CASE q = p
    <3>1. job'[q] = j
      BY <2>1 DEF IInv, Types
    <3>2. QED
      BY <2>1, <3>1
  <2>2. CASE q # p
    <3>1. job'[q] = job[q] /\ job[q] \in JobType
      BY <2>2 DEF IInv, Types
    <3>2. \A other \in Paths, m \in 1..MaxRuns :
             Temp(other, q, m) \in Names /\ Temp(other, q, m) # name
      BY <2>2, NameFacts DEF name
    <3>3. \A other \in Paths, m \in 1..MaxRuns : disk'[Temp(other, q, m)] = disk[Temp(other, q, m)]
      BY <1>2, <3>2
    <3>4. JobOK(job[q], heard, Texts) /\ MailOK(mail, job[q], heard) /\ TempOK(q, job[q], disk)
      BY DEF IInv
    <3>5. TempOK(q, job[q], disk')
      BY <3>1, <3>3, <3>4, TempStaysOK
    <3>6. QED
      BY <3>1, <3>4, <3>5
  <2>3. QED
    BY <2>1, <2>2
<1>9. QED
  BY <1>4, <1>5, <1>6, <1>7, <1>8 DEF IInv

-------------------------------------------------------------------------------
(* The steps that leave the disk alone.                                    *)

LEMMA NewSessionOK ==
    ASSUME NEW m \in MailConfig
    PROVE  NewSession \in SessionType /\ SessionOK(m, NewSession) /\ NewSession.done < First(m) + Rcpts + 2
<1>1. First(m) \in 3..5 /\ Rcpts \in Nat
  BY Counts
<1>2. NewSession.done = 0 /\ NewSession.secure = FALSE /\ NewSession.accepted = {}
  BY DEF NewSession
<1>3. NewSession \in SessionType
  BY DEF NewSession, SessionType
<1>4. QED
  BY <1>1, <1>2, <1>3 DEF SessionOK

(* A job between two cycles, and one that begins. *)
LEMMA JobFacts ==
    ASSUME NEW at \in {"off", "report", "ended"}, NEW n \in 0..MaxRuns
    PROVE  LET w == Job(at, n)
           IN  /\ w \in JobType
               /\ w.at = at /\ w.n = n /\ w.step = 1 /\ w.batch = {}
               /\ w.session = NewSession /\ w.revealed = {}
<1>1. NewSession \in SessionType
  BY DEF NewSession, SessionType
<1> HIDE DEF NewSession
<1>2. QED
  BY <1>1 DEF Job, JobType

LEMMA JobAtRest ==
    ASSUME NEW at \in {"off", "ended"}, NEW n \in 0..MaxRuns, NEW h, NEW texts, NEW m
    PROVE  /\ Job(at, n) \in JobType
           /\ Job(at, n).at = at /\ Job(at, n).n = n
           /\ JobOK(Job(at, n), h, texts) /\ MailOK(m, Job(at, n), h)
<1> DEFINE j == Job(at, n)
<1>1. /\ j \in JobType /\ j.at = at /\ j.n = n /\ j.step = 1
      /\ j.session = NewSession /\ j.revealed = {}
  BY JobFacts
<1> HIDE DEF j
<1>2. JobOK(j, h, texts) /\ MailOK(m, j, h)
  BY <1>1, PathsAre DEF JobOK, MailOK, Covered
<1>3. QED
  BY <1>1, <1>2 DEF j

LEMMA StartInv ==
    ASSUME IInv, NEW p \in Processes, Start(p)
    PROVE  IInv'
<1>1. PICK batch \in Batches :
         job' = [job EXCEPT ![p] = [Job("report", job[p].n + 1) EXCEPT !.batch = batch]]
  BY DEF Start, IInv, Types
<1> DEFINE n == job[p].n + 1
           j == [Job("report", n) EXCEPT !.batch = batch]
<1>2. batch \in SUBSET Problem
  BY OutboxAssumption
<1>3. n \in 1..MaxRuns /\ job[p].n \in Nat /\ n = job[p].n + 1
  BY OutboxAssumption DEF Start, IInv, Types, JobType
<1>4. /\ j \in JobType
      /\ j.at = "report" /\ j.n = n /\ j.batch = batch /\ j.step = 1
      /\ j.session = NewSession /\ j.revealed = {}
  <2> DEFINE w == Job("report", n)
  <2>1. /\ w \in JobType
        /\ w.at = "report" /\ w.n = n /\ w.step = 1
        /\ w.session = NewSession /\ w.revealed = {}
    <3>1. n \in 0..MaxRuns
      BY <1>3
    <3> HIDE DEF n
    <3>2. QED
      BY <3>1, JobFacts
  <2> HIDE DEF w, n
  <2>2. [w EXCEPT !.batch = batch] \in JobType
    BY <1>2, <2>1 DEF JobType
  <2>3. QED
    BY <2>1, <2>2 DEF j, w, JobType
<1> HIDE DEF j, n
<1>5. JobOK(j, heard, Texts) /\ MailOK(mail, j, heard)
  BY <1>4, PathsAre DEF JobOK, MailOK, Covered
<1>6. TempOK(p, j, disk)
  <2>1. TempOK(p, job[p], disk)
    BY DEF IInv
  <2>2. \A m \in 1..MaxRuns : m >= n => m > job[p].n
    BY <1>3
  <2>3. \A path \in Paths : \A m \in 1..MaxRuns : m >= n => disk[Temp(path, p, m)] = NoFile
    BY <2>1, <2>2 DEF TempOK
  <2>4. DraftOK(j, disk[Temp("report", p, n)])
    BY <1>4 DEF DraftOK
  <2>5. QED
    BY <1>3, <1>4, <2>3, <2>4 DEF TempOK
<1>7. job' = [job EXCEPT ![p] = j] /\ UNCHANGED <<mail, disk, past, heard>>
  BY <1>1 DEF Start, j, n
<1>8. QED
  BY <1>4, <1>5, <1>6, <1>7, JobMoves

LEMMA CrashInv ==
    ASSUME IInv, NEW p \in Processes, Crash(p)
    PROVE  IInv'
<1> DEFINE j == Job("off", job[p].n)
<1>1. job[p].n \in 0..MaxRuns /\ TempOK(p, job[p], disk)
  BY DEF IInv, Types, JobType
<1>2. /\ j \in JobType /\ j.at = "off" /\ j.n = job[p].n
      /\ JobOK(j, heard, Texts) /\ MailOK(mail, j, heard)
  BY <1>1, JobAtRest
<1>3. job' = [job EXCEPT ![p] = j] /\ UNCHANGED <<mail, disk, past, heard>>
  BY DEF Crash, IInv, Types
<1> HIDE DEF j
<1>4. TempOK(p, j, disk)
  BY <1>1, <1>2, PathsAre DEF TempOK
<1>5. QED
  BY <1>2, <1>3, <1>4, JobMoves

(* A cycle that has something to send, or has sent it, writes nothing yet. *)
LEMMA TempMovesOn ==
    ASSUME NEW p, NEW w \in JobType, NEW d, TempOK(p, w, d), w.at \in {"hook", "mail"},
           NEW j, j.n = w.n, j.step = 1, j.at \in {"hook", "mail", "history"}
    PROVE  TempOK(p, j, d)
<1>1. /\ w.n \in 1..MaxRuns
      /\ \A path \in Paths, m \in 1..MaxRuns : m > w.n \/ m = w.n => d[Temp(path, p, m)] = NoFile
  BY PathsAre DEF TempOK
<1>2. j.at \in Paths => DraftOK(j, d[Temp(j.at, p, j.n)])
  BY DEF DraftOK
<1>3. QED
  BY <1>1, <1>2 DEF TempOK

(* The message tells of what is pending, and of nothing that is not in the batch. *)
LEMMA HearsFacts ==
    ASSUME NEW receivers \in SUBSET Receivers, NEW w, Hears(receivers, w)
    PROVE  /\ heard \subseteq heard'
           /\ heard' \subseteq heard \cup (Receivers \X w.batch)
           /\ Told(receivers, Pending(w), heard')
  BY DEF Hears, Message, groupOrder, Pending, Told

LEMMA HookInv ==
    ASSUME IInv, NEW p \in Processes, HookOk(p) \/ HookFails(p)
    PROVE  IInv'
<1> DEFINE w == job[p]
<1>1. /\ w \in JobType /\ JobOK(w, heard, Texts) /\ MailOK(mail, w, heard) /\ TempOK(p, w, disk)
      /\ w.at = "hook" /\ mail \in MailConfig /\ UNCHANGED <<mail, disk, past>>
  BY OutboxAssumption DEF IInv, Types, HookOk, HookFails
<1>2. /\ heard \subseteq heard' /\ heard' \subseteq heard \cup (Receivers \X w.batch)
      /\ Told({"hook"}, Pending(w), heard') \/ HookFails(p)
  BY HearsFacts DEF HookOk, HookFails, Receivers
<1>3. PICK failed \in BOOLEAN :
         /\ job' = [job EXCEPT ![p] = [w EXCEPT !.at = "mail", !.failed = failed]]
         /\ ~failed => Told({"hook"}, Pending(w), heard')
  <2>1. CASE HookOk(p)
    <3>1. [w EXCEPT !.at = "mail"] = [w EXCEPT !.at = "mail", !.failed = w.failed]
      BY <1>1 DEF JobType
    <3>2. job' = [job EXCEPT ![p] = [w EXCEPT !.at = "mail"]]
      BY <2>1 DEF HookOk
    <3>3. Told({"hook"}, Pending(w), heard') /\ w.failed \in BOOLEAN
      BY <1>1, <2>1, HearsFacts DEF HookOk, Receivers, JobType
    <3>4. QED
      BY <3>1, <3>2, <3>3
  <2>2. CASE HookFails(p)
    <3>1. job' = [job EXCEPT ![p] = [w EXCEPT !.at = "mail", !.failed = TRUE]]
      BY <2>2 DEF HookFails, IInv, Types
    <3>2. QED
      BY <3>1
  <2>3. QED
    BY <2>1, <2>2
<1> DEFINE j == [w EXCEPT !.at = "mail", !.failed = failed]
<1>4. /\ j \in JobType /\ j.at = "mail" /\ j.failed = failed
      /\ j.batch = w.batch /\ j.known = w.known /\ j.step = w.step /\ j.n = w.n
      /\ j.session = w.session /\ j.revealed = w.revealed
  BY <1>1 DEF JobType
<1>5. /\ w.batch \in Batches /\ w.batch \in Texts /\ Told(Receivers, w.known, heard)
      /\ w.step = 1 /\ w.session = NewSession
  BY <1>1, PathsAre DEF JobOK
<1>6. job' = [job EXCEPT ![p] = j]
  BY <1>3
<1> HIDE DEF j, w
<1>7. Told(Receivers, w.known, heard') /\ Pending(j) = Pending(w)
  BY <1>2, <1>4, <1>5 DEF Told, Pending
<1>8. JobOK(j, heard', Texts)
  BY <1>3, <1>4, <1>5, <1>7 DEF JobOK
<1>9. MailOK(mail, j, heard')
  <2>1. j.at = "mail" => SessionOK(mail, j.session) /\ j.session.done # First(mail) + Rcpts + 2
    BY <1>1, <1>4, <1>5, NewSessionOK, Counts DEF NewSession
  <2>2. Covered(mail, j.revealed)
    BY <1>1, <1>4 DEF MailOK
  <2>3. QED
    BY <2>1, <2>2 DEF MailOK
<1>10. TempOK(p, j, disk)
  BY <1>1, <1>4, <1>5, TempMovesOn
<1>11. QED
  BY <1>1, <1>2, <1>4, <1>5, <1>6, <1>8, <1>9, <1>10, JobMoves DEF w

(* Where the mail leaves a job: in the session, or done with it. *)
Mailed(w, session, at, revealed, failed) ==
    [w EXCEPT !.session = session, !.at = at, !.revealed = revealed, !.failed = failed]

LEMMA MailedFacts ==
    ASSUME NEW w \in JobType, NEW session \in SessionType, NEW at \in {"mail", "history"},
           NEW revealed \in SUBSET {"password", "message"}, NEW failed \in BOOLEAN
    PROVE  LET j == Mailed(w, session, at, revealed, failed)
           IN  /\ j \in JobType
               /\ j.session = session /\ j.at = at /\ j.revealed = revealed
               /\ j.failed <=> failed
               /\ j.n = w.n /\ j.batch = w.batch /\ j.known = w.known /\ j.step = w.step
  BY DEF Mailed, JobType

(* A step of a session, whatever was said: if it left the session without a *)
(* failure, or past the body, all the recipients have been told.            *)
LEMMA MailMoves ==
    ASSUME IInv, NEW p \in Processes, job[p].at = "mail",
           NEW session \in SessionType, NEW at \in {"mail", "history"},
           NEW revealed \in SUBSET {"password", "message"}, NEW failed \in BOOLEAN,
           job' = [job EXCEPT ![p] = Mailed(job[p], session, at, revealed, failed)],
           UNCHANGED <<mail, disk, past>>,
           heard' = heard \/ \E receivers \in SUBSET Receivers : Hears(receivers, job[p]),
           ~failed => ~job[p].failed,
           Covered(mail, revealed),
           at = "mail" => /\ SessionOK(mail, session)
                          /\ session.done = First(mail) + Rcpts + 2 =>
                                Told(Recipients, Pending(job[p]), heard'),
           at = "history" => session = NewSession /\ (failed \/ Told(Recipients, Pending(job[p]), heard'))
    PROVE  IInv'
<1> DEFINE w == job[p]
           j == Mailed(w, session, at, revealed, failed)
<1>1. /\ w \in JobType /\ JobOK(w, heard, Texts) /\ TempOK(p, w, disk)
      /\ w.at = "mail" /\ mail \in MailConfig
  BY OutboxAssumption DEF IInv, Types
<1>2. /\ j \in JobType
      /\ j.session = session /\ j.at = at /\ j.revealed = revealed
      /\ j.failed <=> failed
      /\ j.n = w.n /\ j.batch = w.batch /\ j.known = w.known /\ j.step = w.step
  BY <1>1, MailedFacts
<1>3. /\ w.batch \in Batches /\ w.batch \in Texts /\ Told(Receivers, w.known, heard)
      /\ w.step = 1 /\ (~w.failed => Told({"hook"}, Pending(w), heard))
  BY <1>1, PathsAre DEF JobOK
<1>4. /\ heard \subseteq heard' /\ heard' \subseteq heard \cup (Receivers \X w.batch)
  BY HearsFacts
<1>5. job' = [job EXCEPT ![p] = j]
  OBVIOUS
<1> HIDE DEF j, w
<1>6. /\ Told(Receivers, w.known, heard') /\ Pending(j) = Pending(w)
      /\ ~failed => Told({"hook"}, Pending(w), heard')
  BY <1>2, <1>3, <1>4 DEF Told, Pending, w
<1>7. JobOK(j, heard', Texts)
  BY <1>2, <1>3, <1>6, PathsAre DEF JobOK, w
<1>8. MailOK(mail, j, heard')
  BY <1>2, <1>6 DEF MailOK, w
<1>9. TempOK(p, j, disk)
  BY <1>1, <1>2, <1>3, TempMovesOn
<1>10. QED
  BY <1>2, <1>3, <1>4, <1>5, <1>7, <1>8, <1>9, JobMoves DEF w

(* What may have been revealed once the next command is sent. *)
LEMMA RevealedOK ==
    ASSUME IInv, NEW p \in Processes, job[p].at = "mail"
    PROVE  /\ RevealedBy(p) \in SUBSET {"password", "message"}
           /\ Covered(mail, RevealedBy(p))
           /\ job[p].revealed \in SUBSET {"password", "message"}
           /\ Covered(mail, job[p].revealed)
<1> DEFINE s == job[p].session
<1>1. /\ mail \in MailConfig /\ s \in SessionType /\ SessionOK(mail, s)
      /\ job[p].revealed \in SUBSET {"password", "message"}
      /\ Covered(mail, job[p].revealed)
  BY OutboxAssumption DEF IInv, Types, JobType, MailOK
<1> HIDE DEF s
<1>2. Reveals(mail, s) /\ ~s.secure =>
        mail.tls = "none" /\ (Command(mail, s) = "auth" => mail.local)
  BY <1>1, RevealsLittle
<1>3. CASE Reveals(mail, s) /\ ~s.secure
  <2>1. PICK said \in {"password", "message"} :
          /\ RevealedBy(p) = job[p].revealed \cup {said}
          /\ said = "password" => Command(mail, s) = "auth"
    BY <1>3 DEF RevealedBy, s
  <2>2. mail.tls = "none" /\ (said = "password" => mail.local)
    BY <1>2, <1>3, <2>1
  <2>3. QED
    BY <1>1, <2>1, <2>2 DEF Covered
<1>4. CASE ~(Reveals(mail, s) /\ ~s.secure)
  <2>1. RevealedBy(p) = job[p].revealed
    BY <1>4 DEF RevealedBy, s
  <2>2. QED
    BY <1>1, <2>1
<1>5. QED
  BY <1>3, <1>4

(* A session that fails, whether the command was obeyed or not. *)
LEMMA MailFailsInv ==
    ASSUME IInv, NEW p \in Processes, MailRefused(p) \/ MailRefrains(p) \/ MailLost(p)
    PROVE  IInv'
<1> DEFINE w == job[p]
<1>1. w.at = "mail" /\ w \in JobType /\ mail \in MailConfig /\ UNCHANGED <<mail, disk, past>>
  BY OutboxAssumption DEF IInv, Types, MailRefused, MailRefrains, MailLost, Speaks
<1>2. NewSession \in SessionType
  BY <1>1, NewSessionOK
<1>3. PICK revealed \in {w.revealed, RevealedBy(p)} :
         job' = [job EXCEPT ![p] = Mailed(w, NewSession, "history", revealed, TRUE)]
  <2>1. CASE MailRefrains(p)
    <3>1. job' = [job EXCEPT ![p] = Mailed(w, NewSession, "history", w.revealed, TRUE)]
      BY <1>1, <2>1 DEF MailRefrains, Mailed, IInv, Types, JobType
    <3>2. QED
      BY <3>1
  <2>2. CASE MailRefused(p) \/ MailLost(p)
    <3>1. job' = MailFailed(p)
      BY <2>2 DEF MailRefused, MailLost, GoesOn
    <3>2. job' = [job EXCEPT ![p] = Mailed(w, NewSession, "history", RevealedBy(p), TRUE)]
      BY <1>1, <3>1 DEF MailFailed, Mailed, IInv, Types, JobType
    <3>3. QED
      BY <3>2
  <2>3. QED
    BY <2>1, <2>2, <1>1 DEF MailRefused, MailRefrains, MailLost
<1>4. heard' = heard \/ \E receivers \in SUBSET Receivers : Hears(receivers, w)
  <2>1. CASE MailLost(p)
    <3>1. w.session.accepted \in SUBSET Receivers
      BY <1>1 DEF JobType, SessionType, Receivers
    <3>2. QED
      BY <2>1, <3>1 DEF MailLost, Takes
  <2>2. QED
    BY <2>1 DEF MailRefused, MailRefrains
<1>5. /\ revealed \in SUBSET {"password", "message"}
      /\ Covered(mail, revealed)
  BY <1>1, <1>3, RevealedOK
<1>6. QED
  BY <1>1, <1>2, <1>3, <1>4, <1>5, MailMoves

(* The server obeys: once it has taken the body all recipients are told. *)
LEMMA MailObeyedInv ==
    ASSUME IInv, NEW p \in Processes, MailObeyed(p)
    PROVE  IInv'
<1> DEFINE w == job[p]
           s == w.session
           t == Obeyed(mail, s, NextRecipient(s))
           session == IF SessionOver(mail, t) THEN NewSession ELSE t
           at == IF SessionOver(mail, t) THEN "history" ELSE "mail"
<1>1. /\ w.at = "mail" /\ w \in JobType /\ mail \in MailConfig /\ UNCHANGED <<mail, disk, past>>
      /\ MailOK(mail, w, heard) /\ s \in SessionType /\ SessionOK(mail, s)
  BY OutboxAssumption DEF IInv, Types, MailObeyed, Speaks, MailOK, JobType
<1>2. /\ First(mail) \in 3..5 /\ Rcpts \in Nat \ {0} /\ s.done \in Nat
      /\ s.done \in 0..(First(mail) + Rcpts + 2)
  BY <1>1, Counts DEF SessionType, SessionOK
<1>3. /\ t.done = s.done + 1
      /\ SessionOver(mail, t) <=> s.done = First(mail) + Rcpts + 2
      /\ ~SessionOver(mail, t) => t \in SessionType /\ SessionOK(mail, t)
  BY <1>1, ObeyedOK
<1>4. job' = [job EXCEPT ![p] = Mailed(w, session, at, RevealedBy(p), w.failed)]
  <2>1. job' = [MailGoesOn(p, t) EXCEPT ![p].revealed = RevealedBy(p)]
    BY DEF MailObeyed
  <2> HIDE DEF t
  <2>2. QED
    BY <1>1, <2>1 DEF MailGoesOn, Mailed, IInv, Types, JobType
<1>5. heard' = heard \/ \E receivers \in SUBSET Receivers : Hears(receivers, w)
  <2>1. s.accepted \in SUBSET Receivers
    BY <1>1 DEF SessionType, Receivers
  <2>2. QED
    BY <2>1 DEF MailObeyed, Takes
<1> HIDE DEF t
<1>6. ~SessionOver(mail, t) /\ t.done = First(mail) + Rcpts + 2 => Told(Recipients, Pending(w), heard')
  <2>1. SUFFICES ASSUME t.done = First(mail) + Rcpts + 2
                 PROVE  Told(Recipients, Pending(w), heard')
    OBVIOUS
  <2>2. s.done = First(mail) + Rcpts + 1
    BY <1>2, <1>3, <2>1
  <2>3. Command(mail, s) = "body"
    BY <1>1, <1>2, <2>2, CommandAt
  <2>4. s.accepted = Recipients
    BY <1>1, <1>2, <2>2 DEF SessionOK
  <2>5. Hears(Recipients, w)
    BY <2>3, <2>4 DEF MailObeyed, Takes
  <2>6. QED
    BY <2>5, HearsFacts DEF Receivers
<1>7. SessionOver(mail, t) => Told(Recipients, Pending(w), heard')
  <2>1. heard \subseteq heard'
    BY <1>5, HearsFacts
  <2>2. SessionOver(mail, t) => Told(Recipients, Pending(w), heard)
    BY <1>1, <1>3 DEF MailOK
  <2>3. QED
    BY <2>1, <2>2 DEF Told
<1>8. session \in SessionType /\ at \in {"mail", "history"} /\ w.failed \in BOOLEAN
  BY <1>1, <1>3, NewSessionOK DEF JobType
<1>9. /\ at = "mail" => /\ SessionOK(mail, session)
                        /\ session.done = First(mail) + Rcpts + 2 =>
                              Told(Recipients, Pending(w), heard')
      /\ at = "history" => session = NewSession /\ (w.failed \/ Told(Recipients, Pending(w), heard'))
  BY <1>3, <1>6, <1>7
<1>10. /\ RevealedBy(p) \in SUBSET {"password", "message"}
       /\ Covered(mail, RevealedBy(p))
  BY <1>1, RevealedOK
<1> HIDE DEF session, at
<1>11. QED
  BY <1>1, <1>4, <1>5, <1>8, <1>9, <1>10, MailMoves

-------------------------------------------------------------------------------
(* The steps on the disk.                                                  *)

LEMMA OrderIs ==
    ASSUME NEW path, NEW k \in 1..5
    PROVE  /\ Order(path)[k] = "create" <=> k = 1
           /\ Order(path)[k] = "write" <=> k = 2
           /\ Order(path)[k] = "sync" <=> k = 3
           /\ Order(path)[k] = "close" <=> k = 4
           /\ Order(path)[k] = "rename" <=> k = 5
  BY DEF Order

(* What a job writes; and what it would have remembered is what was told. *)
LEMMA TextFacts ==
    ASSUME IInv, NEW p \in Processes, job[p].at \in Paths
    PROVE  /\ TextOf(job[p]) \in SUBSET Problem
           /\ job[p].at = "report" => TextOf(job[p]) = job[p].batch /\ TextOf(job[p]) \in Batches
           /\ job[p].at = "history" => /\ Told(Receivers, TextOf(job[p]), heard)
                                       /\ TextOf(job[p]) \in SUBSET UNION Batches
<1> DEFINE w == job[p]
<1>1. w \in JobType /\ JobOK(w, heard, Texts)
  BY DEF IInv, Types
<1>2. w.batch \in Batches /\ w.batch \in SUBSET Problem
  BY <1>1, PathsAre, OutboxAssumption DEF JobOK
<1>3. CASE w.at = "report"
  BY <1>2, <1>3 DEF TextOf
<1>4. CASE w.at = "history"
  <2>1. TextOf(w) = (w.known \cap w.batch) \cup (IF w.failed THEN {} ELSE Pending(w))
    BY <1>4 DEF TextOf, Remembered
  <2>2. TextOf(w) \subseteq w.batch
    BY <2>1 DEF Pending
  <2>3. /\ Told(Receivers, w.known, heard)
        /\ ~w.failed => Told({"hook"}, Pending(w), heard) /\ Told(Recipients, Pending(w), heard)
    BY <1>1, <1>4 DEF JobOK
  <2> HIDE DEF w
  <2>4. Told(Receivers, TextOf(w), heard)
    BY <2>1, <2>3 DEF Told, Receivers
  <2>5. QED
    BY <1>2, <1>4, <2>2, <2>4 DEF w
<1>5. QED
  BY <1>3, <1>4, PathsAre

(* A step before the last. *)
LEMMA DraftInv ==
    ASSUME IInv, NEW p \in Processes, Write(p), StepOf(p) # "rename"
    PROVE  IInv'
<1> DEFINE w == job[p]
           path == w.at
           n == w.n
           name == Temp(path, p, n)
           g == disk[name]
           text == TextOf(w)
           k == w.step
           ahead == IF g.written < Parts THEN g.written + 1 ELSE g.written
           f == CASE k = 1 -> [text |-> text, written |-> 0, synced |-> 0]
                  [] k = 2 -> [g EXCEPT !.written = ahead]
                  [] k = 3 -> [g EXCEPT !.synced = g.written]
                  [] OTHER -> g
           l == IF k = 2 /\ g.written + 1 < Parts THEN k ELSE k + 1
           j == [w EXCEPT !.step = l]
<1>1. /\ w \in JobType /\ path \in Paths /\ JobOK(w, heard, Texts) /\ MailOK(mail, w, heard)
      /\ TempOK(p, w, disk) /\ UNCHANGED <<mail, past, heard>>
  BY DEF IInv, Types, Write, Writing
<1>2. n \in 1..MaxRuns /\ k \in 1..4 /\ StepOf(p) = Order(path)[k]
  <2>1. path # "off"
    BY <1>1, PathsAre
  <2>2. k \in 1..5 /\ StepOf(p) = Order(path)[k]
    BY <1>1 DEF JobType, StepOf
  <2>3. QED
    BY <1>1, <2>1, <2>2, OrderIs DEF TempOK
<1>3. name \in Names /\ g \in FileType /\ text \in SUBSET Problem /\ Parts \in Nat \ {0}
  BY <1>1, <1>2, NameFacts, TextFacts, OutboxAssumption DEF IInv, Types
<1>4. /\ k >= 2 => g.text = text
      /\ k = 2 => g.written < Parts
      /\ k >= 3 => g.written = Parts
      /\ k >= 4 => g.synced = Parts
  BY <1>1 DEF TempOK, DraftOK
<1>5. /\ StepOf(p) = "create" <=> k = 1
      /\ StepOf(p) = "write" <=> k = 2
      /\ StepOf(p) = "sync" <=> k = 3
      /\ StepOf(p) = "close" <=> k = 4
  BY <1>2, OrderIs
<1>6. /\ disk' = Done(StepOf(p), disk, path, name, text)
      /\ job' = [job EXCEPT ![p].step = @ + Advanced(StepOf(p), disk, name)]
  BY DEF Write, NameOf
<1> HIDE DEF name, text, k
<1>7. disk' = [disk EXCEPT ![name] = f]
  <2>1. CASE k = 1
    BY <1>5, <1>6, <2>1 DEF Done, File
  <2>2. CASE k = 2
    BY <1>3, <1>5, <1>6, <2>2 DEF Done
  <2>3. CASE k = 3
    BY <1>3, <1>5, <1>6, <2>3 DEF Done
  <2>4. CASE k = 4
    BY <1>3, <1>5, <1>6, <2>4 DEF Done, IInv, Types
  <2>5. QED
    BY <1>2, <2>1, <2>2, <2>3, <2>4
<1>8. job' = [job EXCEPT ![p] = j]
  <2>1. k + Advanced(StepOf(p), disk, name) = l
    BY <1>2, <1>5 DEF Advanced
  <2> HIDE DEF l
  <2>2. QED
    BY <1>6, <2>1 DEF IInv, Types, k
<1>9. f \in FileType
  <2>1. 0 \in 0..Parts /\ ahead \in 0..Parts /\ g.written \in 0..Parts
    BY <1>3 DEF FileType
  <2>2. CASE k = 1
    BY <1>3, <2>1, <2>2 DEF FileType
  <2>3. CASE k # 1
    BY <1>2, <1>3, <2>1, <2>3 DEF FileType
  <2>4. QED
    BY <2>2, <2>3
<1>10. /\ l \in 2..5
       /\ f.text = text
       /\ l = 2 => f.written < Parts
       /\ l >= 3 => f.written = Parts
       /\ l >= 4 => f.synced = Parts
  <2>1. CASE k = 1
    BY <1>3, <2>1
  <2>2. CASE k = 2
    BY <1>3, <1>4, <2>2 DEF FileType
  <2>3. CASE k = 3
    BY <1>3, <1>4, <2>3 DEF FileType
  <2>4. CASE k = 4
    BY <1>3, <1>4, <2>4
  <2>5. QED
    BY <1>2, <2>1, <2>2, <2>3, <2>4
<1> HIDE DEF f, l
<1>11. /\ j \in JobType /\ j.step = l
       /\ j.at = path /\ j.n = n /\ j.batch = w.batch /\ j.known = w.known
       /\ j.session = w.session /\ j.revealed = w.revealed /\ (j.failed <=> w.failed)
  BY <1>1, <1>10 DEF JobType
<1> HIDE DEF j
<1>12. Pending(j) = Pending(w) /\ TextOf(j) = text
  <2>1. Pending(j) = Pending(w)
    BY <1>11 DEF Pending
  <2>2. QED
    BY <1>11, <2>1 DEF TextOf, Remembered, text
<1>13. JobOK(j, heard, Texts) /\ MailOK(mail, j, heard)
  <2>1. path # "mail"
    BY <1>1, PathsAre
  <2>2. QED
    BY <1>1, <1>11, <1>12, <2>1 DEF JobOK, MailOK, Covered
<1>14. TempOK(p, j, disk')
  <2>1. DraftOK(j, disk'[name])
    BY <1>3, <1>7, <1>10, <1>11, <1>12 DEF DraftOK, IInv, Types
  <2>2. ASSUME NEW other \in Paths, NEW m \in 1..MaxRuns, m > n \/ (m = n /\ path # other)
        PROVE  disk'[Temp(other, p, m)] = NoFile
    <3>1. Temp(other, p, m) \in Names /\ Temp(other, p, m) # name
      BY <1>1, <1>2, <2>2, NameFacts DEF name
    <3>2. disk[Temp(other, p, m)] = NoFile
      BY <1>1, <2>2, PathsAre DEF TempOK
    <3>3. QED
      BY <1>7, <3>1, <3>2 DEF IInv, Types
  <2>3. QED
    BY <1>2, <1>11, <2>1, <2>2 DEF TempOK, name
<1>15. QED
  BY <1>1, <1>2, <1>7, <1>8, <1>9, <1>11, <1>13, <1>14, DraftMoves DEF name

(* A step that fails takes the file with it. *)
LEMMA WriteFailsInv ==
    ASSUME IInv, NEW p \in Processes, WriteFails(p)
    PROVE  IInv'
<1> DEFINE w == job[p]
           n == w.n
           name == Temp(w.at, p, n)
           j == Job("ended", n)
<1>1. /\ w \in JobType /\ w.at \in Paths /\ TempOK(p, w, disk) /\ UNCHANGED <<mail, past, heard>>
      /\ disk' = [disk EXCEPT ![name] = NoFile] /\ job' = [job EXCEPT ![p] = j]
  BY DEF IInv, Types, WriteFails, Writing, Removed, NameOf
<1>2. n \in 1..MaxRuns /\ n \in 0..MaxRuns
  BY <1>1, PathsAre DEF TempOK, JobType
<1>3. /\ j \in JobType /\ j.at = "ended" /\ j.n = n
      /\ JobOK(j, heard, Texts) /\ MailOK(mail, j, heard)
  BY <1>2, JobAtRest
<1> HIDE DEF j, name
<1>4. name \in Names
  BY <1>1, <1>2, NameFacts DEF name
<1>5. ASSUME NEW other \in Paths, NEW m \in 1..MaxRuns, m >= n
      PROVE  disk'[Temp(other, p, m)] = NoFile
  <2>1. CASE Temp(other, p, m) = name
    BY <1>1, <1>4, <2>1 DEF IInv, Types
  <2>2. CASE Temp(other, p, m) # name
    <3>1. m > n \/ (m = n /\ w.at # other)
      BY <1>2, <1>5, <2>2 DEF name
    <3>2. disk[Temp(other, p, m)] = NoFile /\ Temp(other, p, m) \in Names
      BY <1>1, <3>1, PathsAre, NameFacts DEF TempOK
    <3>3. QED
      BY <1>1, <2>2, <3>2 DEF IInv, Types
  <2>3. QED
    BY <2>1, <2>2
<1>6. TempOK(p, j, disk')
  BY <1>2, <1>3, <1>5, PathsAre DEF TempOK
<1>7. QED
  BY <1>1, <1>2, <1>3, <1>6, NoFileType, DraftMoves DEF name

(* The rename: what was written and synced takes the published name. *)
LEMMA RenameDisk ==
    ASSUME IInv, NEW p \in Processes, Write(p), StepOf(p) = "rename",
           NEW path, path = job[p].at
    PROVE  LET w    == job[p]
               name == Temp(path, p, w.n)
           IN  /\ w \in JobType /\ path \in Paths /\ w.n \in 1..MaxRuns
               /\ name \in Names /\ name # Published(path)
               /\ disk[name] \in FileType /\ disk[name].text = TextOf(w)
               /\ disk[name].written = Parts /\ disk[name].synced = Parts
               /\ disk' \in [Names -> FileType]
               /\ disk'[name] = NoFile /\ disk'[Published(path)] = disk[name]
               /\ \A other \in Names \ {name, Published(path)} : disk'[other] = disk[other]
               /\ past' \in [Paths -> SUBSET FileType]
               /\ Files(path)' = Files(path) \cup {disk[name]}
               /\ \A other \in Paths \ {path} : Files(other)' = Files(other)
               /\ UNCHANGED <<mail, heard>>
<1> DEFINE w == job[p]
           name == Temp(path, p, w.n)
           public == Published(path)
<1>1. /\ w \in JobType /\ path \in Paths /\ TempOK(p, w, disk) /\ UNCHANGED <<mail, heard>>
      /\ disk' = Done("rename", disk, path, name, TextOf(w))
      /\ past' = [past EXCEPT ![path] = @ \cup {disk[public]}]
  BY DEF IInv, Types, Write, Writing, NameOf
<1>2. w.n \in 1..MaxRuns
  BY <1>1, PathsAre DEF TempOK
<1>3. w.step = 5
  <2>1. Order(path)[w.step] = "rename" /\ w.step \in 1..5
    BY <1>1 DEF StepOf, JobType
  <2>2. QED
    BY <2>1, OrderIs
<1>4. disk[name].text = TextOf(w) /\ disk[name].written = Parts /\ disk[name].synced = Parts
  BY <1>1, <1>3 DEF TempOK, DraftOK
<1>5. name \in Names /\ public \in Names /\ name # public
  BY <1>1, <1>2, NameFacts
<1>6. disk' = [disk EXCEPT ![public] = disk[name], ![name] = NoFile]
  BY <1>1 DEF Done
<1> HIDE DEF name, public
<1>7. disk[name] \in FileType /\ disk[public] \in FileType
  BY <1>5 DEF IInv, Types
<1>8. /\ disk' \in [Names -> FileType]
      /\ disk'[name] = NoFile /\ disk'[public] = disk[name]
      /\ \A other \in Names \ {name, public} : disk'[other] = disk[other]
  BY <1>5, <1>6, <1>7, NoFileType DEF IInv, Types
<1>9. past' \in [Paths -> SUBSET FileType]
  BY <1>1, <1>7 DEF IInv, Types
<1>10. Files(path)' = Files(path) \cup {disk[name]}
  <2>1. past'[path] = past[path] \cup {disk[public]} /\ disk'[Published(path)] = disk[name]
    BY <1>1, <1>8 DEF IInv, Types, public
  <2>2. Files(path)' = past'[path] \cup {disk'[Published(path)]} /\ Files(path) = past[path] \cup {disk[public]}
    BY DEF Files, public
  <2>3. QED
    BY <2>1, <2>2
<1>11. ASSUME NEW other \in Paths \ {path} PROVE Files(other)' = Files(other)
  <2>1. Published(other) \in Names \ {name, public}
    BY <1>1, <1>2, NameFacts DEF name, public
  <2>2. past'[other] = past[other]
    BY <1>1 DEF IInv, Types
  <2>3. QED
    BY <1>8, <2>1, <2>2 DEF Files
<1>12. QED
  BY <1>1, <1>2, <1>4, <1>5, <1>7, <1>8, <1>9, <1>10, <1>11 DEF name, public

(* The report is out and the history loaded. *)
Informed(w, at, step, known) == [w EXCEPT !.at = at, !.step = step, !.known = known]

LEMMA InformedFacts ==
    ASSUME NEW w \in JobType, NEW at \in {"history", "hook"}, NEW step \in 1..5,
           NEW known \in SUBSET Problem
    PROVE  LET j == Informed(w, at, step, known)
           IN  /\ j \in JobType /\ j.at = at /\ j.step = step /\ j.known = known
               /\ j.batch = w.batch /\ j.n = w.n /\ j.session = w.session /\ j.revealed = w.revealed
  BY DEF Informed, JobType

(* The job that renamed: the report is out, or the cycle over. *)
LEMMA RenameJob ==
    ASSUME IInv, NEW p \in Processes, Write(p), StepOf(p) = "rename"
    PROVE  \E j \in JobType :
               /\ job' = [job EXCEPT ![p] = j]
               /\ JobOK(j, heard, Texts') /\ MailOK(mail, j, heard)
               /\ j.n = job[p].n /\ j.at \in {"hook", "history", "ended"}
               /\ j.at = "history" => j.step = 1 /\ job[p].at = "report"
<1> DEFINE w == job[p]
<1>1. /\ w \in JobType /\ JobOK(w, heard, Texts) /\ MailOK(mail, w, heard) /\ w.at \in Paths
      /\ w.n \in 0..MaxRuns
  BY DEF IInv, Types, Write, Writing, JobType
<1>2. CASE w.at = "report"
  <2> DEFINE known == disk[Published("history")].text
             at == IF w.batch \subseteq known THEN "history" ELSE "hook"
             j == Informed(w, at, 1, known)
  <2>1. job' = [job EXCEPT ![p] = j]
    BY <1>2 DEF Write, Shown, Informed, IInv, Types
  <2>2. known \in SUBSET Problem /\ Told(Receivers, known, heard)
    <3>1. disk[Published("history")] \in Files("history") /\ disk[Published("history")] \in FileType
      BY PathsAre, NameFacts DEF Files, IInv, Types
    <3>2. QED
      BY <3>1 DEF IInv, FilesInv, FileType
  <2>3. w.batch \in Batches /\ w.session = NewSession
    BY <1>1, <1>2 DEF JobOK
  <2>4. w.batch \in Texts'
    <3>1. TextOf(w) = w.batch
      BY <1>2 DEF TextOf
    <3>2. disk[Temp("report", p, w.n)] \in Files("report")' /\ disk[Temp("report", p, w.n)].text = w.batch
      BY <1>2, <3>1, RenameDisk
    <3>3. Texts' = {f.text : f \in Files("report")'}
      BY DEF Texts
    <3>4. QED
      BY <3>2, <3>3
  <2> HIDE DEF known
  <2>5. /\ j \in JobType /\ j.at = at /\ j.step = 1 /\ j.known = known
        /\ j.batch = w.batch /\ j.n = w.n /\ j.session = w.session /\ j.revealed = w.revealed
    <3>1. at \in {"history", "hook"}
      OBVIOUS
    <3>2. w \in JobType /\ known \in SUBSET Problem
      BY <1>1, <2>2
    <3> HIDE DEF at, w
    <3>3. 1 \in 1..5
      OBVIOUS
    <3>4. QED
      BY <3>1, <3>2, <3>3, InformedFacts
  <2>6. at = "history" => Pending(j) = {}
    BY <2>5 DEF Pending
  <2> HIDE DEF j
  <2>7. at \in {"history", "hook"}
    OBVIOUS
  <2> HIDE DEF at
  <2>8. JobOK(j, heard, Texts')
    BY <2>2, <2>3, <2>4, <2>5, <2>6, <2>7, PathsAre DEF JobOK, Told
  <2>9. MailOK(mail, j, heard)
    BY <1>1, <2>5, <2>7 DEF MailOK, Covered
  <2>10. QED
    BY <1>2, <2>1, <2>5, <2>7, <2>8, <2>9
<1>3. CASE w.at = "history"
  <2> DEFINE j == Job("ended", w.n)
  <2>1. job' = [job EXCEPT ![p] = j]
    BY <1>3 DEF Write, IInv, Types
  <2>2. /\ j \in JobType /\ j.at = "ended" /\ j.n = w.n
        /\ JobOK(j, heard, Texts') /\ MailOK(mail, j, heard)
    BY <1>1, JobAtRest
  <2> HIDE DEF j
  <2>3. QED
    BY <2>1, <2>2
<1>4. QED
  BY <1>1, <1>2, <1>3, PathsAre

LEMMA RenameInv ==
    ASSUME IInv, NEW p \in Processes, Write(p), StepOf(p) = "rename"
    PROVE  IInv'
<1>0. PICK path : path = job[p].at
  OBVIOUS
<1> DEFINE w == job[p]
           name == Temp(path, p, w.n)
           public == Published(path)
<1>1. /\ w \in JobType /\ path \in Paths /\ w.n \in 1..MaxRuns
      /\ name \in Names /\ name # public
      /\ disk[name] \in FileType /\ disk[name].text = TextOf(w)
      /\ disk[name].written = Parts /\ disk[name].synced = Parts
      /\ disk' \in [Names -> FileType]
      /\ disk'[name] = NoFile /\ disk'[public] = disk[name]
      /\ \A other \in Names \ {name, public} : disk'[other] = disk[other]
      /\ past' \in [Paths -> SUBSET FileType]
      /\ Files(path)' = Files(path) \cup {disk[name]}
      /\ \A other \in Paths \ {path} : Files(other)' = Files(other)
      /\ UNCHANGED <<mail, heard>>
  BY <1>0, RenameDisk
<1>2. PICK j \in JobType :
         /\ job' = [job EXCEPT ![p] = j]
         /\ JobOK(j, heard, Texts') /\ MailOK(mail, j, heard)
         /\ j.n = w.n /\ j.at \in {"hook", "history", "ended"}
         /\ j.at = "history" => j.step = 1 /\ path = "report"
  BY <1>0, RenameJob
<1>3. /\ TextOf(w) \in SUBSET Problem
      /\ path = "report" => TextOf(w) \in Batches
      /\ path = "history" => Told(Receivers, TextOf(w), heard) /\ TextOf(w) \in SUBSET UNION Batches
  BY <1>0, <1>1, TextFacts
<1>4. Texts \subseteq Texts'
  <2>1. Files("report") \subseteq Files("report")'
    BY <1>1, PathsAre
  <2>2. Texts' = {f.text : f \in Files("report")'}
    BY DEF Texts
  <2>3. QED
    BY <2>1, <2>2 DEF Texts
<1>5. Types'
  BY <1>1, <1>2 DEF IInv, Types
<1>6. FilesInv'
  <2>1. ASSUME NEW other \in Paths, NEW f \in Files(other)' PROVE f \in Files(other) \/ (other = path /\ f = disk[name])
    BY <1>1
  <2>2. \A other \in Paths : \A f \in Files(other)' : f.written = Parts /\ f.synced = Parts
    BY <1>1, <2>1 DEF IInv, FilesInv
  <2>3. \A f \in Files("report")' : f.text \in Batches \cup {{}}
    BY <1>1, <1>3, <2>1, PathsAre DEF IInv, FilesInv
  <2>4. \A f \in Files("history")' : Told(Receivers, f.text, heard) /\ f.text \in SUBSET UNION Batches
    BY <1>1, <1>3, <2>1, PathsAre DEF IInv, FilesInv
  <2>5. QED
    BY <1>1, <2>2, <2>3, <2>4 DEF FilesInv
<1>7. HeardInv'
  BY <1>1, <1>4 DEF IInv, HeardInv
<1>8. ASSUME NEW q \in Processes
      PROVE  JobOK(job'[q], heard, Texts') /\ MailOK(mail, job'[q], heard) /\ TempOK(q, job'[q], disk')
  <2> HIDE DEF name, public
  <2>1. CASE q = p
    <3>1. job'[q] = j
      BY <1>2, <2>1 DEF IInv, Types
    <3>2. ASSUME NEW other \in Paths, NEW m \in 1..MaxRuns,
                 m > w.n \/ (m = w.n /\ j.at # other)
          PROVE  disk'[Temp(other, p, m)] = NoFile
      <4>1. CASE Temp(other, p, m) = name
        BY <1>1, <4>1
      <4>2. CASE Temp(other, p, m) # name
        <5>1. m > w.n \/ (m = w.n /\ path # other)
          BY <3>2, <4>2 DEF name
        <5>2. disk[Temp(other, p, m)] = NoFile
            BY <1>0, <1>1, <5>1, PathsAre DEF IInv, TempOK
        <5>3. Temp(other, p, m) \in Names \ {name, public}
          BY <1>1, <4>2, NameFacts DEF public
        <5>4. QED
          BY <1>1, <5>2, <5>3
      <4>3. QED
        BY <4>1, <4>2
    <3>3. j.at \in Paths => DraftOK(j, disk'[Temp(j.at, p, j.n)])
      BY <1>2, PathsAre DEF DraftOK
    <3>4. TempOK(p, j, disk')
      BY <1>1, <1>2, <3>2, <3>3 DEF TempOK
    <3>5. QED
      BY <1>2, <2>1, <3>1, <3>4
  <2>2. CASE q # p
    <3>1. job'[q] = job[q] /\ job[q] \in JobType
      BY <1>2, <2>2 DEF IInv, Types
    <3>2. JobOK(job[q], heard, Texts) /\ MailOK(mail, job[q], heard) /\ TempOK(q, job[q], disk)
      BY DEF IInv
    <3>3. JobOK(job[q], heard, Texts')
      BY <1>4, <3>2, StaysOK
    <3>4. \A other \in Paths, m \in 1..MaxRuns : Temp(other, q, m) \in Names \ {name, public}
      BY <1>1, <2>2, NameFacts DEF name, public
    <3>5. TempOK(q, job[q], disk')
      BY <1>1, <3>1, <3>2, <3>4, TempStaysOK
    <3>6. QED
      BY <3>1, <3>2, <3>3, <3>5
  <2>3. QED
    BY <2>1, <2>2
<1>9. QED
  BY <1>1, <1>5, <1>6, <1>7, <1>8 DEF IInv

(* What survives a power failure. *)
LEMMA SurvivorFacts ==
    /\ \A f \in FileType : Survivor(f) \in FileType
    /\ \A f \in FileType : f.written = f.synced => Survivor(f) = f
    /\ Survivor(NoFile) = NoFile
<1>1. ASSUME NEW f \in FileType
      PROVE  Survivor(f) \in FileType /\ (f.written = f.synced => Survivor(f) = f)
  BY DEF Survivor, FileType
<1>2. NoFile \in FileType /\ NoFile.written = NoFile.synced
  BY NoFileType DEF NoFile, File
<1>3. QED
  BY <1>1, <1>2

LEMMA PowerInv ==
    ASSUME IInv, PowerLoss
    PROVE  IInv'
<1>1. PICK kept :
         /\ \A path \in Paths : kept[path] \in past[path] \cup {disk[Published(path)]}
         /\ disk' = [name \in Names |->
                       IF \E path \in Paths : name = Published(path)
                       THEN Survivor(kept[name[1]]) ELSE Survivor(disk[name])]
  BY DEF PowerLoss
<1>2. /\ past' = [path \in Paths |-> past[path] \cup {disk[Published(path)]}]
      /\ job' = [p \in Processes |-> Job("off", job[p].n)]
      /\ UNCHANGED <<mail, heard>>
  BY DEF PowerLoss
<1>3. ASSUME NEW path \in Paths
      PROVE  /\ kept[path] \in Files(path) /\ kept[path] \in FileType
             /\ disk'[Published(path)] = kept[path]
             /\ Files(path)' = Files(path)
  <2>1. kept[path] \in Files(path)
    BY <1>1 DEF Files
  <2>2. Published(path) \in Names /\ Published(path)[1] = path
    BY NameFacts DEF Published
  <2>3. kept[path] \in FileType
    BY <2>1, <2>2 DEF Files, IInv, Types
  <2>4. kept[path].written = kept[path].synced
    BY <2>1 DEF IInv, FilesInv
  <2>5. disk'[Published(path)] = Survivor(kept[path])
    BY <1>1, <2>2
  <2>6. disk'[Published(path)] = kept[path]
    BY <2>3, <2>4, <2>5, SurvivorFacts
  <2>7. past'[path] = Files(path)
    BY <1>2 DEF Files
  <2>8. Files(path)' = past'[path] \cup {disk'[Published(path)]}
    BY DEF Files
  <2>9. QED
    BY <2>1, <2>3, <2>6, <2>7, <2>8
<1>4. ASSUME NEW path \in Paths, NEW p \in Processes, NEW m \in 1..MaxRuns
      PROVE  /\ Temp(path, p, m) \in Names
             /\ disk'[Temp(path, p, m)] = Survivor(disk[Temp(path, p, m)])
  <2>1. Temp(path, p, m) \in Names /\ ~ \E other \in Paths : Temp(path, p, m) = Published(other)
    BY NameFacts
  <2>2. QED
    BY <1>1, <2>1
<1>5. Types'
  <2>1. ASSUME NEW name \in Names PROVE disk'[name] \in FileType
    <3>1. CASE \E path \in Paths : name = Published(path)
      BY <1>3, <3>1
    <3>2. CASE ~ \E path \in Paths : name = Published(path)
      <4>1. disk'[name] = Survivor(disk[name]) /\ disk[name] \in FileType
        BY <1>1, <3>2 DEF IInv, Types
      <4>2. QED
        BY <4>1, SurvivorFacts
    <3>3. QED
      BY <3>1, <3>2
  <2>2. disk' \in [Names -> FileType]
    BY <1>1, <2>1
  <2>3. past' \in [Paths -> SUBSET FileType]
    BY <1>2, NameFacts DEF IInv, Types
  <2>4. ASSUME NEW p \in Processes PROVE Job("off", job[p].n) \in JobType
    <3>1. job[p].n \in 0..MaxRuns
      BY DEF IInv, Types, JobType
    <3>2. QED
      BY <3>1, JobAtRest
  <2>5. job' \in [Processes -> JobType]
    BY <1>2, <2>4
  <2>6. QED
    BY <1>2, <2>2, <2>3, <2>5 DEF IInv, Types
<1>6. FilesInv'
  BY <1>2, <1>3, PathsAre DEF IInv, FilesInv
<1>7. Texts' = Texts
  BY <1>3, PathsAre DEF Texts
<1>8. HeardInv'
  BY <1>2, <1>7 DEF IInv, HeardInv
<1>9. ASSUME NEW p \in Processes
      PROVE  JobOK(job'[p], heard, Texts) /\ MailOK(mail, job'[p], heard) /\ TempOK(p, job'[p], disk')
  <2> DEFINE n == job[p].n
             j == Job("off", n)
  <2>1. n \in 0..MaxRuns /\ TempOK(p, job[p], disk)
    BY DEF IInv, Types, JobType
  <2>2. job'[p] = j
    BY <1>2
  <2>3. /\ j.at = "off" /\ j.n = n
        /\ JobOK(j, heard, Texts) /\ MailOK(mail, j, heard)
    BY <2>1, JobAtRest
  <2> HIDE DEF j
  <2>4. ASSUME NEW path \in Paths, NEW m \in 1..MaxRuns, m > n
        PROVE  disk'[Temp(path, p, m)] = NoFile
    <3>1. disk[Temp(path, p, m)] = NoFile
      BY <2>1, <2>4 DEF TempOK
    <3>2. QED
      BY <1>4, <3>1, SurvivorFacts
  <2>5. TempOK(p, j, disk')
    BY <2>3, <2>4, PathsAre DEF TempOK
  <2>6. QED
    BY <2>2, <2>3, <2>5
<1>10. QED
  BY <1>2, <1>5, <1>6, <1>7, <1>8, <1>9 DEF IInv

-------------------------------------------------------------------------------
(* The invariant.                                                          *)

LEMMA InitInv == Init => IInv
<1> SUFFICES ASSUME Init PROVE IInv
  OBVIOUS
<1>1. File({}, Parts, Parts) \in FileType /\ NoFile \in FileType
  BY OutboxAssumption, NoFileType DEF File, FileType
<1>2. ASSUME NEW p \in Processes
      PROVE  /\ job[p] = Job("off", 0) /\ Job("off", 0) \in JobType
             /\ job[p].at = "off" /\ job[p].n = 0
             /\ \A h, texts : JobOK(job[p], h, texts) /\ MailOK(mail, job[p], h)
  <2>1. job[p] = Job("off", 0) /\ 0 \in 0..MaxRuns
    BY OutboxAssumption DEF Init
  <2>2. QED
    BY <2>1, JobAtRest
<1>3. Types
  BY <1>1, <1>2 DEF Init, Types
<1>4. ASSUME NEW path \in Paths
      PROVE  Files(path) = {File({}, Parts, Parts)}
  <2>1. disk[Published(path)] = File({}, Parts, Parts)
    BY NameFacts DEF Init
  <2>2. QED
    BY <2>1 DEF Files, Init
<1>5. FilesInv
  <2>1. /\ File({}, Parts, Parts).text = {}
        /\ File({}, Parts, Parts).written = Parts /\ File({}, Parts, Parts).synced = Parts
    BY DEF File
  <2>2. Told(Receivers, {}, heard)
    BY DEF Told
  <2>3. QED
    BY <1>4, <2>1, <2>2, PathsAre DEF FilesInv
<1>6. HeardInv
  BY DEF Init, HeardInv
<1>7. ASSUME NEW p \in Processes PROVE TempOK(p, job[p], disk)
  <2>1. ASSUME NEW path \in Paths, NEW m \in 1..MaxRuns PROVE disk[Temp(path, p, m)] = NoFile
    BY NameFacts DEF Init
  <2>2. QED
    BY <1>2, <2>1, PathsAre DEF TempOK
<1>8. QED
  BY <1>2, <1>3, <1>5, <1>6, <1>7 DEF IInv

LEMMA NextInv ==
    ASSUME IInv, [Next]_vars
    PROVE  IInv'
<1>1. ASSUME NEW p \in Processes, Start(p) \/ Crash(p) \/ WriteFails(p)
      PROVE  IInv'
  BY <1>1, StartInv, CrashInv, WriteFailsInv
<1>2. ASSUME NEW p \in Processes, Write(p)
      PROVE  IInv'
  BY <1>2, DraftInv, RenameInv
<1>3. ASSUME NEW p \in Processes, HookOk(p) \/ HookFails(p)
      PROVE  IInv'
  BY <1>3, HookInv
<1>4. ASSUME NEW p \in Processes, MailObeyed(p) \/ MailRefused(p) \/ MailRefrains(p) \/ MailLost(p)
      PROVE  IInv'
  BY <1>4, MailObeyedInv, MailFailsInv
<1>5. CASE PowerLoss
  BY <1>5, PowerInv
<1>6. CASE UNCHANGED vars
  BY <1>6 DEF vars, IInv, Types, FilesInv, HeardInv, Files, Texts, JobOK, MailOK, TempOK
<1>7. QED
  BY <1>1, <1>2, <1>3, <1>4, <1>5, <1>6 DEF Next, Step

LEMMA Inductive == Spec => []IInv
<1>1. IInv /\ [Next]_vars => IInv'
  BY NextInv
<1>2. QED
  BY InitInv, <1>1, PTL DEF Spec

-------------------------------------------------------------------------------
(* Every variable of the outbox keeps its type; and the server is never told *)
(* of anybody who is not to have the mail (email.go sendEmail).            *)
THEOREM OutboxTypeCorrect == Spec => []TypeOK
<1>1. ASSUME IInv PROVE TypeOK
  <2>1. \A name \in Names : disk[name].written \in 0..Parts /\ disk[name].synced \in 0..Parts
    BY <1>1 DEF IInv, Types, FileType
  <2>2. DOMAIN Order("report") = 1..5
    BY DEF Order
  <2>3. \A p \in Processes :
          /\ job[p].at \in {"off", "report", "hook", "mail", "history", "ended"}
          /\ job[p].step \in 1..5
          /\ job[p].session.accepted \subseteq Recipients
    BY <1>1 DEF IInv, Types, JobType, SessionType
  <2>4. QED
    BY <1>1, <2>1, <2>2, <2>3 DEF IInv, Types, TypeOK
<1>2. QED
  BY <1>1, Inductive, PTL

(* No reader ever meets half a report or half a history (report.go Write,   *)
(* state.go Save), whoever else writes them, and whenever power fails.      *)
THEOREM NeverHalfAFile == Spec => []PublishedIsWhole
<1>1. IInv => PublishedIsWhole
  BY DEF IInv, FilesInv, Files, PublishedIsWhole, Whole
<1>2. QED
  BY <1>1, Inductive, PTL

(* Steps that fail leave no temporary file behind (report.go Write's        *)
(* deferred Remove).                                                        *)
THEOREM LeavesNoLitter == Spec => []NoLitter
<1>1. ASSUME IInv, NEW p \in Processes, job[p].at \in {"ended", "hook", "mail"}, NEW path \in Paths
      PROVE  disk[Temp(path, p, job[p].n)] = NoFile
  BY <1>1, PathsAre DEF IInv, TempOK
<1>2. IInv => NoLitter
  BY <1>1 DEF NoLitter
<1>3. QED
  BY <1>2, Inductive, PTL

(* Whatever the published history keeps quiet has been delivered to the     *)
(* webhook and to each recipient of the mail (notifier.go Notify, email.go  *)
(* sendEmail, main.go notify).                                              *)
THEOREM QuietMeansDelivered == Spec => []RecordedWasDelivered
<1>1. ASSUME IInv PROVE RecordedWasDelivered
  <2>1. Told(Receivers, disk[Published("history")].text, heard)
    BY <1>1, PathsAre DEF IInv, FilesInv, Files
  <2>2. QED
    BY <2>1 DEF Told, RecordedWasDelivered
<1>2. QED
  BY <1>1, Inductive, PTL

(* Where TLS is configured nothing of worth is said without it; with "none" *)
(* the password is said to a relay on the machine only (email.go sendEmail, *)
(* with the PlainAuth it calls).                                            *)
THEOREM SpeaksUnderCover == Spec => []NothingInTheClear
<1>1. IInv => NothingInTheClear
  BY DEF IInv, MailOK, Covered, NothingInTheClear
<1>2. QED
  BY <1>1, Inductive, PTL

-------------------------------------------------------------------------------
(* The promise of Outlet.                                                  *)

ReportText == disk[Published("report")].text
HistoryText == disk[Published("history")].text

(* Published files are whole, so what they show is what they say. *)
ShowsWhatItSays ==
    /\ TextShown(disk[Published("report")]) = ReportText
    /\ TextShown(disk[Published("history")]) = HistoryText
    /\ {TextShown(f) : f \in past["report"] \cup {disk[Published("report")]}} = Texts

LEMMA ShownIsSaid == IInv => ShowsWhatItSays
<1> SUFFICES ASSUME IInv PROVE ShowsWhatItSays
  OBVIOUS
<1>1. \A path \in Paths : \A f \in Files(path) : TextShown(f) = f.text
  BY DEF IInv, FilesInv, TextShown, Whole
<1>2. disk[Published("report")] \in Files("report") /\ disk[Published("history")] \in Files("history")
  BY DEF Files
<1>3. {TextShown(f) : f \in Files("report")} = {f.text : f \in Files("report")}
  BY <1>1, PathsAre
<1>4. QED
  BY <1>1, <1>2, <1>3, PathsAre DEF ShowsWhatItSays, ReportText, HistoryText, Texts, Files

LEMMA ShownIsSaidNext == IInv' => ShowsWhatItSays'
  BY ShownIsSaid, PTL

(* Of all steps on the disk the rename alone is seen. *)
LEMMA DraftUnseen ==
    ASSUME IInv, NEW p \in Processes, WriteFails(p) \/ (Write(p) /\ StepOf(p) # "rename")
    PROVE  UNCHANGED <<ReportText, HistoryText, Texts, heard>>
<1>1. job[p].at \in Paths /\ job[p].n \in 1..MaxRuns /\ past' = past /\ heard' = heard
  BY PathsAre DEF IInv, TempOK, WriteFails, Write, Writing
<1> DEFINE name == NameOf(p)
<1>2. name \in Names /\ \A path \in Paths : Published(path) # name /\ Published(path) \in Names
  BY <1>1, NameFacts DEF NameOf
<1>3. \A other \in Names : other # name => disk'[other] = disk[other]
  <2>1. CASE WriteFails(p)
    BY <2>1 DEF WriteFails, Removed, IInv, Types
  <2>2. CASE Write(p) /\ StepOf(p) # "rename"
    <3>1. disk' = Done(StepOf(p), disk, job[p].at, name, TextOf(job[p]))
      BY <2>2 DEF Write
    <3> HIDE DEF name
    <3>2. QED
      BY <2>2, <3>1 DEF Done, IInv, Types
  <2>3. QED
    BY <2>1, <2>2
<1> HIDE DEF name
<1>4. \A path \in Paths : disk'[Published(path)] = disk[Published(path)]
  BY <1>2, <1>3
<1>5. QED
  BY <1>1, <1>4, PathsAre DEF ReportText, HistoryText, Texts, Files

(* What the promise sees of a step. *)
LEMMA StepSeen ==
    ASSUME IInv, [Next]_vars
    PROVE  \/ UNCHANGED <<ReportText, HistoryText, Texts, heard>>
           \/ /\ ReportText' \in Batches
              /\ Texts' = Texts \cup {ReportText'}
              /\ UNCHANGED <<HistoryText, heard>>
           \/ heard \subseteq heard' /\ UNCHANGED <<ReportText, HistoryText, Texts>>
           \/ UNCHANGED <<ReportText, Texts, heard>>
           \/ ReportText' \in Texts /\ UNCHANGED <<Texts, heard>>
<1> USE DEF ReportText, HistoryText
<1>1. ASSUME NEW p \in Processes, Start(p) \/ Crash(p)
      PROVE  UNCHANGED <<ReportText, HistoryText, Texts, heard>>
  BY <1>1 DEF Start, Crash, Texts, Files
<1>2. ASSUME NEW p \in Processes,
             \/ HookOk(p) \/ HookFails(p)
             \/ MailObeyed(p) \/ MailRefused(p) \/ MailRefrains(p) \/ MailLost(p)
      PROVE  heard \subseteq heard' /\ UNCHANGED <<ReportText, HistoryText, Texts>>
  BY <1>2 DEF HookOk, HookFails, MailObeyed, MailRefused, MailRefrains, MailLost, Takes, Hears,
              Texts, Files
<1>3. ASSUME NEW p \in Processes, WriteFails(p) \/ (Write(p) /\ StepOf(p) # "rename")
      PROVE  UNCHANGED <<ReportText, HistoryText, Texts, heard>>
  BY <1>3, DraftUnseen
<1>4. ASSUME NEW p \in Processes, Write(p), StepOf(p) = "rename", job[p].at = "report"
      PROVE  /\ ReportText' \in Batches
             /\ Texts' = Texts \cup {ReportText'}
             /\ UNCHANGED <<HistoryText, heard>>
  <2> DEFINE name == Temp("report", p, job[p].n)
  <2>1. /\ disk'[Published("report")] = disk[name] /\ disk[name].text = TextOf(job[p])
        /\ \A other \in Names \ {name, Published("report")} : disk'[other] = disk[other]
        /\ Files("report")' = Files("report") \cup {disk[name]}
        /\ heard' = heard /\ job[p].n \in 1..MaxRuns
    BY <1>4, RenameDisk
  <2>2. TextOf(job[p]) \in Batches
    BY <1>4, PathsAre, TextFacts
  <2>3. Published("history") \in Names \ {name, Published("report")}
    BY <2>1, PathsAre, NameFacts
  <2>4. Texts' = {f.text : f \in Files("report")'}
    BY DEF Texts
  <2> HIDE DEF name
  <2>5. Texts' = Texts \cup {disk[name].text}
    BY <2>1, <2>4 DEF Texts
  <2>6. QED
    BY <2>1, <2>2, <2>3, <2>5
<1>5. ASSUME NEW p \in Processes, Write(p), StepOf(p) = "rename", job[p].at = "history"
      PROVE  UNCHANGED <<ReportText, Texts, heard>>
  <2> DEFINE name == Temp("history", p, job[p].n)
  <2>1. /\ \A other \in Names \ {name, Published("history")} : disk'[other] = disk[other]
        /\ \A other \in Paths \ {"history"} : Files(other)' = Files(other)
        /\ heard' = heard /\ job[p].n \in 1..MaxRuns
    BY <1>5, RenameDisk
  <2>2. Published("report") \in Names \ {name, Published("history")}
    BY <2>1, PathsAre, NameFacts
  <2>3. QED
    BY <2>1, <2>2, PathsAre DEF Texts
<1>6. CASE PowerLoss
  <2>1. PICK kept :
           /\ \A path \in Paths : kept[path] \in past[path] \cup {disk[Published(path)]}
           /\ disk' = [name \in Names |->
                         IF \E path \in Paths : name = Published(path)
                         THEN Survivor(kept[name[1]]) ELSE Survivor(disk[name])]
    BY <1>6 DEF PowerLoss
  <2>2. heard' = heard /\ past'["report"] = Files("report")
    BY <1>6, PathsAre DEF PowerLoss, Files
  <2>3. kept["report"] \in Files("report") /\ kept["report"] \in FileType
    BY <2>1, PathsAre, NameFacts DEF Files, IInv, Types
  <2>4. kept["report"].written = kept["report"].synced
    BY <2>3, PathsAre DEF IInv, FilesInv
  <2>5. disk'[Published("report")] = Survivor(kept["report"])
    BY <2>1, PathsAre, NameFacts DEF Published
  <2>6. disk'[Published("report")] = kept["report"]
    BY <2>3, <2>4, <2>5, SurvivorFacts
  <2>7. Files("report")' = past'["report"] \cup {disk'[Published("report")]}
    BY DEF Files
  <2>8. Texts' = Texts
    BY <2>2, <2>3, <2>6, <2>7 DEF Texts
  <2>9. QED
    BY <2>2, <2>3, <2>6, <2>8 DEF Texts
<1>7. CASE UNCHANGED vars
  BY <1>7 DEF vars, Texts, Files
<1>8. ASSUME NEW p \in Processes, Write(p), StepOf(p) = "rename"
      PROVE  job[p].at \in {"report", "history"}
  BY <1>8, PathsAre DEF Write, Writing
<1> HIDE DEF ReportText, HistoryText
<1>9. QED
  BY <1>1, <1>2, <1>3, <1>4, <1>5, <1>6, <1>7, <1>8 DEF Next, Step

LEMMA PromiseStep ==
    ASSUME IInv, IInv', [Next]_vars
    PROVE  [Promise!Next]_<<TextShown(disk[Published("report")]),
                            {TextShown(f) : f \in past["report"] \cup {disk[Published("report")]}},
                            TextShown(disk[Published("history")]), heard>>
<1>1. /\ TextShown(disk[Published("report")]) = ReportText
      /\ TextShown(disk[Published("history")]) = HistoryText
      /\ {TextShown(f) : f \in past["report"] \cup {disk[Published("report")]}} = Texts
  BY ShownIsSaid DEF ShowsWhatItSays
<1>2. /\ TextShown(disk'[Published("report")]) = ReportText'
      /\ TextShown(disk'[Published("history")]) = HistoryText'
      /\ {TextShown(f) : f \in past'["report"] \cup {disk'[Published("report")]}} = Texts'
  BY ShownIsSaidNext DEF ShowsWhatItSays
<1>3. HistoryText' \in SUBSET UNION Batches /\ Receivers \X HistoryText' \subseteq heard'
  <2>1. disk'[Published("history")] \in Files("history")'
    BY DEF Files
  <2>2. HistoryText' \in SUBSET UNION Batches /\ Told(Receivers, HistoryText', heard')
    BY <2>1 DEF IInv, FilesInv, HistoryText
  <2>3. QED
    BY <2>2 DEF Told
<1>4. \A h \in heard' : \E text \in Texts' : h[2] \in text
  BY DEF IInv, Types, HeardInv
<1>5. CASE UNCHANGED <<ReportText, HistoryText, Texts, heard>>
  BY <1>1, <1>2, <1>5
<1>6. CASE /\ ReportText' \in Batches
           /\ Texts' = Texts \cup {ReportText'}
           /\ UNCHANGED <<HistoryText, heard>>
  <2>1. Promise!Show
    BY <1>1, <1>2, <1>6 DEF Promise!Show
  <2>2. QED
    BY <2>1 DEF Promise!Next
<1>7. CASE heard \subseteq heard' /\ UNCHANGED <<ReportText, HistoryText, Texts>>
  <2>1. Promise!Hear
    BY <1>1, <1>2, <1>4, <1>7 DEF Promise!Hear
  <2>2. QED
    BY <2>1 DEF Promise!Next
<1>8. CASE UNCHANGED <<ReportText, Texts, heard>>
  <2>1. Promise!Remember
    BY <1>1, <1>2, <1>3, <1>8 DEF Promise!Remember
  <2>2. QED
    BY <2>1 DEF Promise!Next
<1>9. CASE ReportText' \in Texts /\ UNCHANGED <<Texts, heard>>
  <2>1. Promise!Restore
    BY <1>1, <1>2, <1>3, <1>9 DEF Promise!Restore
  <2>2. QED
    BY <2>1 DEF Promise!Next
<1>10. QED
  BY <1>5, <1>6, <1>7, <1>8, <1>9, StepSeen

(* All of it put together (report.go Write, state.go Save, notifier.go      *)
(* Notify, main.go checkOnce): the report changes from one whole text to    *)
(* the next, nobody hears of what no report has shown, and the history only *)
(* ever has what everybody has heard of.                                    *)
THEOREM KeepsThePromise == Spec => ImplementsOutlet
<1>1. Init => Promise!Init
  <2> SUFFICES ASSUME Init PROVE Promise!Init
    OBVIOUS
  <2>1. IInv
    BY InitInv
  <2>2. ReportText = {} /\ HistoryText = {} /\ Texts = {{}} /\ heard = {}
    <3>1. \A path \in Paths : disk[Published(path)] = File({}, Parts, Parts)
      BY NameFacts DEF Init
    <3>2. File({}, Parts, Parts).text = {}
      BY DEF File
    <3>3. Files("report") = {File({}, Parts, Parts)}
      BY <3>1, PathsAre DEF Init, Files
    <3>4. QED
      BY <3>1, <3>2, <3>3, PathsAre DEF Init, ReportText, HistoryText, Texts
  <2>3. QED
    BY <2>1, <2>2, ShownIsSaid DEF ShowsWhatItSays, Promise!Init
<1>2. IInv /\ IInv' /\ [Next]_vars =>
        [Promise!Next]_<<TextShown(disk[Published("report")]),
                         {TextShown(f) : f \in past["report"] \cup {disk[Published("report")]}},
                         TextShown(disk[Published("history")]), heard>>
  BY PromiseStep
<1>3. QED
  BY <1>1, <1>2, Inductive, PTL DEF Spec, ImplementsOutlet, Promise!Spec
================================================================================
