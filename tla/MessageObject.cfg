SPECIFICATION Spec
CONSTANTS
    Messages = {m1, m2}
    Types <- MCTypes
    Cells = {p1, p2, p3}
    Shared = Shared
    Null = Null
    Numbers = {0, 1}
    Strings = {"", "a"}
    LeafOrder <- MCLeafOrder
    PhoneTypes = {1, 2}
    MaxPhones = 2
    MaxUnknown = 2
INVARIANTS AbsentIsDefault SoleOwner ByteSizeIsWireSize
PROPERTY ImplementsValue
SYMMETRY MCSymmetry
