SPECIFICATION Spec
CONSTANTS
    Nodes = {n1, n2, n3, n4, n5}
    Numbers = {0, 1, 2}
    Hashes = {hashA, hashB}
SYMMETRY Symmetry
INVARIANTS
    TypeOK
    AgreementIsUnanimous
PROPERTY ImplementsForkChoice
CHECK_DEADLOCK FALSE
