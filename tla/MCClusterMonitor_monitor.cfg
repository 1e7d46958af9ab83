CONSTANTS
    NumHosts = 2
    Dashboards = {d1, d2}
    Handlers = {p1}
    Operators = {o1, o2}
    Monitor = Monitor
    MaxChanges = 3
SPECIFICATION Spec
INVARIANT TypeOK
 
 
