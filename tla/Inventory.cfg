SPECIFICATION FairSpec
CONSTANTS
    o1 = o1
    o2 = o2
    o3 = o3
    s1 = s1
    s2 = s2
    Orders = {o1, o2, o3}
    Skus = {s1, s2}
    Warehouses = {1, 2}
    Items <- MCItems
    Stock <- MCStock
    MaxRetries = 1
INVARIANTS
    StockIsConserved
    AllOrNothing

    
