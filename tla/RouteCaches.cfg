SPECIFICATION Spec
CONSTANTS
  Problems <- ThreeAndFour
  NRoutes = 2
  MaxEjected = 1
INVARIANTS
  TypeOK PlacesExact CachesExact DeltasExact ExchangeBounded
PROPERTIES
  AppliesModification
