SPECIFICATION Spec
CONSTANTS
    r1 = r1
    r2 = r2
    p = p
    q = q
    Runs = {r1, r2}
    Setups <- BGPSetups
    MaxBrowsers = 1
    MaxAlloc = 5000
    Retries = 1
    Routes = {p, q}
INVARIANTS
    NewRouteFailsCheck
