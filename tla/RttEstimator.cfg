SPECIFICATION Spec
INVARIANT
    RtoPositive
