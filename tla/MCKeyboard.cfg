\* The keyboard on two cores with interrupt balancing
SPECIFICATION FairSpec
CONSTANTS
    Core = {0, 1}
    Script <- MCScript
    Byte <- MCByte
    MaxBytes = 5
    KEY_MAXQUEUECOUNT = 2
    Divisor = 2
INVARIANTS
    TypeOK
    KeysAreTypedKeys
    LEDsFollowLocks
PROPERTIES
    ImplementsFIFO
    InputIsServed
CHECK_DEADLOCK FALSE
