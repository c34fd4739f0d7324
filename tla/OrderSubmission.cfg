SPECIFICATION FairSpec
CONSTANTS
    r1 = r1
    r2 = r2
    r3 = r3
    r4 = r4
    r5 = r5
    k1 = k1
    k2 = k2
    e1 = e1
    e2 = e2
    Submissions = {r1, r2, r3, r4, r5}
    Keys = {k1, k2}
    ExternalIds = {e1, e2}
    KeyOf <- MCKeyOf
    ExternalOf <- MCExternalOf
    NoOrder = NoOrder
    MaxFaults = 2
INVARIANTS
    NoDuplicateOrders
    AnswersAgree
PROPERTY
    EverySubmissionIsAnswered
CHECK_DEADLOCK FALSE
