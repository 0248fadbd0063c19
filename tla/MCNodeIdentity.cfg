SPECIFICATION Spec
CONSTANTS
    Keys = {k1, k2, k3}
    NoKey = NoKey
    Pins = {p1, p2}
    NoPin = NoPin
    EmptyPin = EmptyPin
    Serials = {s1, s2, s3}
    NoSerial = NoSerial
    BootstrapAttempts = 2
    ReenrollAttempts = 2
INVARIANTS
    TypeOK
    BootstrapSound
    TpmPairSound
    PinSound
PROPERTIES
    TokenBootstrapOnly
    ReloadSound
    ImplementsSealed
    EventuallyServes
    RenewalHappens
