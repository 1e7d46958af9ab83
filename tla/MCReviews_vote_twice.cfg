CONSTANTS
    u1 = u1  u2 = u2  t1 = t1  t2 = t2
    Users = {u1, u2}  NoUser = NoUser
    Books = {b1}  NoBook = NoBook
    ReviewIds = {r1}  NoReview = NoReview
    Tabs = {t1, t2}
    TabUser <- OneTabEach
    Bought <- FirstBuys
    Workers = {w1, w2}  NoWorker = NoWorker
    SearchSize = 10
    LateOps = {}
    Failing = FALSE
SPECIFICATION Spec
PROPERTY VoteOnlyOnce
SYMMETRY ReviewSymmetry
