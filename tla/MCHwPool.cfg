\* Four units, any of which a race may hand to two or three clients.
CONSTANTS
    N = 4
    MaxHeld = 2
SPECIFICATION Spec
INVARIANTS TypeOK Exclusive FailsHonest
