SPECIFICATION Spec
CONSTANTS
  m1 = m1
  m2 = m2
  Registries <- MCRegistries
  Names <- MCNames
  Addresses <- MCAddresses
  DefaultPort <- MCDefaultPort
  OtherDefault = ":8080"
  Models <- MCModels
  Loaded <- MCLoaded
  MaxEvents = 1
CHECK_DEADLOCK FALSE
INVARIANTS
  NamedServerUsed
