SPECIFICATION Spec
CONSTANTS
    m1 = m1
    m2 = m2
    big = big
    Slots = 4
    Messages = {m1, m2}
    TooLong = {big}
    LongTopics = {m2}
    Cut = Cut
    None = None
    Wrap = 2
INVARIANTS IInv
PROPERTIES ImplementsFifo
