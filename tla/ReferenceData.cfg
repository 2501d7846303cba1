SPECIFICATION Spec
CONSTANTS
    ProductOf <- Products
    TopN = 2
    ExactBelow = 8
    Markets <- SomeMarkets
    Deliveries <- SomeDeliveries
    LastDay = 2
    MaxPushes = 2
    MaxStarts = 1
INVARIANTS TypeOK OneVersionOnly
PROPERTIES QuietStartMonitorsAll CutPushIsNoticed
CHECK_DEADLOCK FALSE
