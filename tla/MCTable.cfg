SPECIFICATION Spec
CONSTANTS
  k1 = k1
  k2 = k2
  k3 = k3
  nil = nil
  true = true
  Keys <- MCKeys
  Hash <- MCHash
  Values <- MCValues
  Nil = nil
  True = true
  NoKey = NoKey
  Absent = Absent
  Invalid = Invalid
  InitialCapacity = 2
  MaxCapacity = 8
INVARIANTS
  TypeOK
  CountExact
  ProbeTerminates
  ChainsUnbroken
  CacheSound
  GrowthKeepsEntries
PROPERTY DictSpec
