CONSTANTS
    a = a
    b = b
    v1 = v1
    NoValue = NoValue
    Missing = Missing
    Name <- MC_Name
    Value <- MC_Value
    MaxDepth = 2
    MaxNodes = 3
    MaxVersion = 2
SPECIFICATION Spec
SYMMETRY MC_Symmetry
PROPERTY ImplementsNamespace
CHECK_DEADLOCK FALSE
