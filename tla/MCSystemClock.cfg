SPECIFICATION Spec
CONSTANTS
    r1 = r1  r2 = r2  r3 = r3
    Readers = {r1, r2, r3}
    Cap = 2
    MaxSys = 3
INVARIANTS TypeOK NeverBackwards NeverAhead
