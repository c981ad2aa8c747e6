\* Two writers, of which any pass match_seq_num; requests are retried and
\* resent, late and out of order.
CONSTANTS
    Writers = {w1, w2}
    MaxAttempts = 2
    Resends = TRUE
SYMMETRY WriterSymmetry
SPECIFICATION Spec
INVARIANTS
    AppliedAtMostOnce
    FencedOffWritesNothing
CHECK_DEADLOCK FALSE
