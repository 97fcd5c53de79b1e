------------------------------- MODULE MCProcess -------------------------------
(***************************************************************************)
(* Small instances of Process: every way to combine a file, an environment *)
(* and flags, every pair of lines, and every mode and trouble, each group  *)
(* with the others at their plainest.                                      *)
(***************************************************************************)
EXTENDS Process, TLC

AnyMode == [serve : BOOLEAN, interval : BOOLEAN, failOn : {2, Never}]

OneShot == [serve |-> FALSE, interval |-> FALSE, failOn |-> 2]

None == <<>>

File(sets) == [is |-> "sound", sets |-> sets]

NoFile == [is |-> "missing", sets |-> None]

Web == Line("", "web", 0)

Plain ==
    [mode |-> OneShot, trouble |-> "", explicit |-> FALSE, file |-> NoFile,
     env |-> None, flags |-> None, lines |-> <<Web>>]

\* 146 hours and 524290 seconds wrap around to a little more than nothing, 100
\* hours and 300000 seconds to less.
Files ==
    {NoFile, [is |-> "unreadable", sets |-> None], [is |-> "broken", sets |-> None]} \cup
    {File(sets) : sets \in
        {None, [alert |-> 0] @@ [critical |-> 0], [critical |-> 0] @@ [alert |-> 5],
         [critical |-> 20], [alert |-> -1], [timeout |-> 0], [timeout |-> 300000],
         [timeout |-> 524290], [repeat |-> 0], [repeat |-> 100], [repeat |-> 146],
         [repeat |-> -1], [concurrency |-> 0], [retries |-> 0],
         [language |-> "pt-PT"], [language |-> "fr"], [dashboard |-> "host"],
         [smtp |-> TRUE],
         [smtp |-> TRUE] @@ [smtpHost |-> "relay"] @@ [smtpFrom |-> "me"] @@ [smtpTo |-> 1]}}

Envs == {None, [language |-> "pt"], [language |-> ""], [language |-> "fr"],
         [dashboard |-> "https://host"] @@ [slack |-> "https://hook"]}

FlagSets ==
    {None, [timeoutOverride |-> 1], [timeoutOverride |-> 0], [timeoutOverride |-> -2],
     [repeatOverride |-> 0], [repeatOverride |-> -1], [language |-> "en"],
     [alert |-> 30] @@ [critical |-> 20], [critical |-> 3], [dashboard |-> ""],
     [state |-> ""], [concurrency |-> 1] @@ [retries |-> 1]}

Lines ==
    {Blank, Web, Line("", "mail", 587), Line("", "MAIL.", 587), Line("smtp", "mail", 0),
     Line("tls", "mail", 587), Line("ldaps", "mail", 389), Line("gopher", "mail", 143),
     Line("https", "web", 8443), Line("", "web", -1), Line("", "ma il", 443)}

Pairs == {<<>>} \cup {<<l>> : l \in Lines} \cup (Lines \X Lines)

\* One key twice, once spelt differently, and another key in between.
Mails == {Line("", "mail", 587), Line("tls", "mail", 587), Line("", "MAIL.", 587)}

Triples == Mails \X Mails \X Mails

Layered ==
    {[Plain EXCEPT !.file = f, !.env = e, !.flags = g, !.explicit = x] :
        f \in Files, e \in Envs, g \in FlagSets, x \in BOOLEAN}

Listings == {[Plain EXCEPT !.lines = l] : l \in Pairs \cup Triples}

Starts == {[Plain EXCEPT !.mode = m, !.trouble = t] : m \in AnyMode, t \in Trouble}

AnyScenario == Layered \cup Listings \cup Starts

\* Files alone.
FewScenarios == {[Plain EXCEPT !.file = f] : f \in Files}
================================================================================
