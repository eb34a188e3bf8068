SPECIFICATION ServerFairSpec
CONSTANT N = 3
INVARIANTS RightAnswer AddressReleased
PROPERTY Finishes
