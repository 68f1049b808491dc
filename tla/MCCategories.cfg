SPECIFICATION CategoriesSpec
CONSTANTS
    c1 = c1
    c2 = c2
    c3 = c3
    c4 = c4
    n1 = n1
    n2 = n2
    i1 = i1
    i2 = i2
    r1 = r1
    r2 = r2
    Null = Null
    Cats <- FourCats
    Names <- TwoNames
    Images <- TwoImages
    Editors <- TwoRequests
SYMMETRY Symmetry
INVARIANTS TreeComplete FiledAsMoved
CHECK_DEADLOCK FALSE
