\* One initialiser, and two requests that wait or come late.
CONSTANTS
    Requests = {r1, r2, r3}
SPECIFICATION FairSpec
INVARIANTS
    OneContainer
    ChosenConnection
PROPERTIES
    NobodyIsStuck
