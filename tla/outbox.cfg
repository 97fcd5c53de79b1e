\* Two processes put out their cycles side by side.
SPECIFICATION FairSpec
CONSTANTS
    p = p
    q = q
    alice = alice
    bob = bob
    Paths = {"report", "history"}
    Parts = 2
    Processes = {p, q}
    Recipients = {alice, bob}
    MaxRuns = 1
    Batches <- MCBatches
    Mails <- MCMails
    Faults = {"disk", "crash", "power", "hook", "mail"}
INVARIANTS TypeOK PublishedIsWhole NoLitter RecordedWasDelivered NothingInTheClear
PROPERTIES CycleEnds ImplementsOutlet
CHECK_DEADLOCK FALSE
