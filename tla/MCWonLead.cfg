CONSTANTS
    Calls = {r1, r2}
    Mixes <- MCMixes
SPECIFICATION Spec
INVARIANTS TypeOK OneCustomer AgreeAtRest
PROPERTIES RealMoneyStays WinLinks
CHECK_DEADLOCK FALSE
