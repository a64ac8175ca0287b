\* What the comment on Close says, with the fewest actors that refute it.
CONSTANTS
    Callers = {r1, r2}
    Closers = {k1}
SPECIFICATION Spec
INVARIANTS
    CloseDrains
CHECK_DEADLOCK FALSE
