CONSTANTS
    c1 = c1
    c2 = c2
    l1 = l1
    l2 = l2
    s1 = s1
    Client = {c1, c2}
    Legacy = Legacy
    Nil = Nil
    Stopper = {s1}
    Lister = {l1, l2}
    Cleaners = {l1}
    Reconcilers = {l2}
    Mortal = {c2}
    MaxWrites = 1
SPECIFICATION FairSpec
CHECK_DEADLOCK FALSE
INVARIANTS
    TypeOK
    OneStreamId
PROPERTIES
    ImplementsSlot
    DeadIsRetired
