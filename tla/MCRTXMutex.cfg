SPECIFICATION Spec
CONSTANTS
  idle = idle
  low = low
  normal1 = normal1
  normal2 = normal2
  high = high
  driver = driver
  can = can
  Tasks <- FiveTasks
  Idle = idle
  prio_base <- Priorities
  Mutexes <- TwoMutexes
  MaxLevel = 2
SYMMETRY Interchangeable
INVARIANTS TypeOK NoInversion PriorityReturned
PROPERTIES ReadyInTurn NoOvertaking ImplementsMutexService
