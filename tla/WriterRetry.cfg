\* One writer that does what the remediation says.
CONSTANTS
    Writers = {w1}
    MaxAttempts = 2
    Resends = FALSE
SPECIFICATION Spec
INVARIANTS
    RetryIsSafe
CHECK_DEADLOCK FALSE
