CONSTANTS
    c1 = c1
    l1 = l1
    l2 = l2
    s1 = s1
    Client = {c1}
    Legacy = Legacy
    Nil = Nil
    Stopper = {s1}
    Lister = {l1, l2}
    Cleaners = {l1}
    Reconcilers = {}
    Mortal = {}
    MaxWrites = 2
SPECIFICATION Spec
INVARIANT
    CreatedIsListed
