\* Three entries on two rings and two hash slots, in every order of calls.
SPECIFICATION Spec
CONSTANTS
    Heads = {h1, h2}
    HHeads = {s1, s2}
    Nodes = {n1, n2, n3}
    NULL = NULL
INVARIANTS
    RingsClose
    PointedBack
PROPERTIES
    ListSpec
CONSTRAINT MCApart
SYMMETRY MCSymmetry
CHECK_DEADLOCK FALSE
