SPECIFICATION Spec
CONSTANTS
    MaxUint = 1999
    MaxBigint = 999
    MaxLen = 4
INVARIANTS
    CheckIsLuhn
    TypoRefused
    KeptAsLoaded
