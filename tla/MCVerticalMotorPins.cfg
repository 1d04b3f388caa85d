CONSTANT
    Speeds <- MCSpeeds
SPECIFICATION Spec
INVARIANTS
    NeverBothDriven
