CONSTANTS
    x1 = x1
    x2 = x2
    NilValue = NilValue
    Values = {x1, x2}
    Nil = NilValue
    MaxNodes = 5
SPECIFICATION Spec
INVARIANT TypeOK
INVARIANT LinksAgree
PROPERTY ImplementsDeque
