SPECIFICATION FairSpec
CONSTANTS
    m1 = m1
    m2 = m2
    t1 = t1
    t2 = t2
    Orders = {m1, m2}
    Takers = {t1, t2}
    Nodes <- MCNodes
    NodeOf <- MCNodeOf
    Offers <- MCOffers
    Scenarios <- MCScenarios
    Volumes = {0, 1}
    Kept = {m1, m2, t1}
    Declined = {}
INVARIANTS TypeOK NeverOverReserved SwapsAgree AmountSwappedOnce StartedStaysReserved
PROPERTIES CancelledStartsNoSwap TakerOrdersEnd ReservationsResolve
\* When every order has ended there is nothing left to do.
CHECK_DEADLOCK FALSE
