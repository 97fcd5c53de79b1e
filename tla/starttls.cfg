\* Every dialogue against every server.
CONSTANTS
    Retries = 1
    DialErrors = {}
    Verdicts = {}
    Protocols = {"smtp", "imap", "pop3", "ldap", "postgres"}
    MaxUnits = 6
    Room = 2
SPECIFICATION FairSpec
INVARIANTS TypeOK UpgradeIsAgreed OnlyAnswersAreFinal UpgradeIsClean AsksInTurn
PROPERTIES DialogueEnds
CHECK_DEADLOCK FALSE
