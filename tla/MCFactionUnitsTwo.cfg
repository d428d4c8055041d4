CONSTANTS
    UnitType <- Types
    Upgrade <- TwoUpgrades
    Starting <- WorkerAndCastle
    Orders <- OrdersTwo
    Gold <- GoldTwo
    Food <- FoodOf
    Store <- StoreOf
    MaxUnitCount <- LimitOf
    Needs <- NeedsTwo
    InitGold = 4
    InitFood = 3
    MaxUnits = 4
    MaxQueue = 3
    MaxOrders = 4
    MaxHarvest = 1
    MaxHits = 1
SPECIFICATION FairSpec
INVARIANTS TypeOK StoreIsTheUnits UpgradeInHand CountWithinLimit
PROPERTIES FoodIsConserved ImplementsBook QueuesDrain
CHECK_DEADLOCK FALSE
