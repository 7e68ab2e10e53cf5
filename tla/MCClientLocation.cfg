CONSTANTS
    p1 = p1
    p2 = p2
    p3 = p3
    BodySizes = {0, 2}
    Pages <- ThreePages
    Https <- HttpsPages
    Webs <- SmallWebs
    Start = p1
SPECIFICATION Spec
CHECK_DEADLOCK FALSE
INVARIANTS
    EndsInResponseOrError
