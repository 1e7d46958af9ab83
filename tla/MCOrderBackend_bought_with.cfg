CONSTANTS
    Users = {u1, u2}  NoUser = NoUser
    Books = {b1, b2}  NoBook = NoBook
    OrderIds = {o1, o2}  NoOrder = NoOrder
    Prices = {0}  MaxQuantity = 1  MaxBoughtWith = 1
    Workers = {w1}  SearchSize = 1
    Faults = {"fail"}
    Admins = {}  AdminOps = {"setBookPrice"}
    ClientOps = {"create", "addBook", "update"}
SPECIFICATION Spec
INVARIANT BoughtWithIsSupported
SYMMETRY ThreadAndBookSymmetry
