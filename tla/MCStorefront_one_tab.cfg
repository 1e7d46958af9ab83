CONSTANTS
    u1 = u1  u2 = u2  s1 = s1  s2 = s2  t1 = t1  t2 = t2
    Users = {u1}  NoUser = NoUser
    Books = {b1}  NoBook = NoBook
    OrderIds = {o1, o2}  NoOrder = NoOrder
    Prices = {1}  MaxQuantity = 1  MaxBoughtWith = 1
    Workers = {w1}  NoWorker = NoWorker  SearchSize = 10
    Faults = {"fail", "timeout"}
    Admins = {}  AdminOps = {"setShipped", "setBookPrice"}
    Sessions = {s1}  Tabs = {t1}
    SessionUser <- OneUser
    TabSession <- OneSession
    Kinds = {"addToCart", "payment", "authorize"}
SPECIFICATION Spec
INVARIANT TypeOK
INVARIANT PlacedWasPaidFor
PROPERTY OrdersFollowLifecycle
 
SYMMETRY WorkerSymmetry
