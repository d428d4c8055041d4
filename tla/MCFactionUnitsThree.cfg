CONSTANTS
    UnitType <- Types
    Upgrade <- ThreeUpgrades
    Starting <- TwoCastles
    Orders <- OrdersThree
    Gold <- GoldThree
    Food <- FoodOf
    Store <- StoreOf
    MaxUnitCount <- LimitOf
    Needs <- NeedsThree
    InitGold = 4
    InitFood = 3
    MaxUnits = 2
    MaxQueue = 3
    MaxOrders = 4
    MaxHarvest = 1
    MaxHits = 0
SPECIFICATION Spec
INVARIANT LookupFindsType
CHECK_DEADLOCK FALSE
