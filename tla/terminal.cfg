SPECIFICATION Spec
CONSTANTS
  None = none
  StationGrid = stationGrid
  PhoneGrid = phoneGrid
  MaxStarts = 2
  MaxConns = 2
  MaxEvents = 2
INVARIANTS ScreenIsFaithful OwnershipReachesView SessionTakesThePhoneGrid LiveMeansPainted
PROPERTIES HistoryArrives
CHECK_DEADLOCK FALSE
