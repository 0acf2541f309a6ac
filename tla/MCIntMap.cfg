CONSTANTS
  Keys <- MCKeys
  Capacities <- MCCapacities
  MaxSize = 5
SPECIFICATION Spec
INVARIANTS TypeOK BucketsPartitioned
PROPERTIES ImplementsDictionary GrowthEnds
