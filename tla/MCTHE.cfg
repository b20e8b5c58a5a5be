CONSTANTS
    Thieves = {t1, t2}
    LtqLimit = 4
    MaxDetach = 4
    None = None
SPECIFICATION FairSpec
INVARIANTS THEInv AtMostOnce NoneLost
PROPERTIES ImplementsDeque OwnerNotStarved
