SPECIFICATION Spec
CONSTANTS
    MaxRows = 3
    Alphabet <- Letters
    Empty = Empty
    None = None
    Wrong = Wrong
    Missing = Missing
CHECK_DEADLOCK FALSE
INVARIANTS ReadsHonest SpecificationsHold  Disclosure
