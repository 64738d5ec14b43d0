SPECIFICATION FairSpec
CONSTANTS
    made = made
    converted = converted
    Orders = {made, converted}
    Converted = {converted}
    Volumes = {0, 1, 2}
    RaiseStep = 2
    Token = 2
    DegradedFor = 1
    TripForgotten = 4
    Scenarios <- MCScenarios
INVARIANTS TypeOK CancelledNotRelisted WatchedWhileOrders OwnBookIsTrue
PROPERTIES TripFalls OrdersListed OutboxDrains PeersLearn
