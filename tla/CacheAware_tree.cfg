SPECIFICATION Spec
CONSTANTS
  LastWorker = 3
  BalanceAbs = 1
  MaxSize = 2
  Loads <- SomeLoads
  Texts <- SomeTexts
  ModelOf <- TwoModels
PROPERTY ImplementsCache
