\* One draft, perhaps discarded for another, with two saves in flight, two
\* changes of which the second is to the core identity, and one setback.
SPECIFICATION FairSpec
CONSTANTS
    Contracts = {c1, c2, c3}
    Saves = {s1, s2}
    Variants = {v1, v2}
    MaxEdits = 2
    CoreEdits = {2}
    MaxSetbacks = 1
    None = None
INVARIANTS
    TypeOK
    ConfirmedIsSubmitted
    OneContractPerDraft
CHECK_DEADLOCK FALSE
PROPERTIES
    DraftIsSaved
