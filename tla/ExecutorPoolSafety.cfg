\* Three requests share two permits (the program has four): one must wait,
\* and two holders can end in either order around it.
CONSTANTS
    Requests = {r1, r2, r3}
    MaxExecutors = 2
SYMMETRY RequestSymmetry
SPECIFICATION Spec
INVARIANTS
    TypeOK
    PermitsConserved
    QueueIsWaiting
    NoStrayChild
PROPERTIES
    ImplementsService
