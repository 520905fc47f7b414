\* The property is expected to fail.
SPECIFICATION Spec
CONSTANTS
    Intent = {i1, i2, i3, i4}
    Order <- Orders
    Worker = {w1}
    OrderOf <- OpenedFor
    Limit = 2
    i1 = i1
    i2 = i2
    i3 = i3
    i4 = i4
    o1 = o1
    o2 = o2
    o3 = o3
CHECK_DEADLOCK FALSE
PROPERTIES
    NeverThrows
