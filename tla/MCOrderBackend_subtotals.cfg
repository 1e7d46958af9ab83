CONSTANTS
    Users = {u1}  NoUser = NoUser
    Books = {b1, b2}  NoBook = NoBook
    OrderIds = {o1}  NoOrder = NoOrder
    Prices = {1, 2}  MaxQuantity = 1  MaxBoughtWith = 1
    Workers = {w1, w2}  SearchSize = 1
    Faults = {}
    Admins = {a1}  AdminOps = {"setBookPrice"}
    ClientOps = {"create", "editCart"}
SPECIFICATION Spec
INVARIANT TypeOK
INVARIANT SubtotalIsATotal
SYMMETRY ThreadAndBookSymmetry
