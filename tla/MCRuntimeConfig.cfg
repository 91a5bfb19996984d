SPECIFICATION FairSpec
CONSTANTS
    number = number
    string = string
    a = a
    b = b
    Nobody = Nobody
    Torn = Torn
    Tasks = {t1, t2}
    Fields <- TwoFields
    Cells <- CellsOfFields
    Values <- TwoValues
    Defaults <- AllA
PROPERTIES
    ImplementsRegisters
    CallsReturn
