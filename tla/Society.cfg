SPECIFICATION Spec
CONSTANTS
    ana = ana
    ben = ben
    cen = cen
SYMMETRY Symmetry
CHECK_DEADLOCK FALSE
INVARIANTS MeritIsEarned CompanyIsSound
