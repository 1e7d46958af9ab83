CONSTANTS
    n1 = n1  n2 = n2  s1 = s1
    UserIds = {i1, i2}  NoUser = NoUser
    Names = {n1, n2}  NoName = NoName
    Addresses = {a1, a2}  NoAddress = NoAddress
    MaxAddresses = 3
    Sessions = {s1, s2}
    SessionName <- OwnNames
    Shoppers = {s1}
SPECIFICATION Spec
INVARIANT TypeOK
INVARIANT AccountsStayApart
 
 
INVARIANT MainAddressExists
SYMMETRY AccountSymmetry
