SPECIFICATION FairSpec
CONSTANTS
  Carousels <- AllCarousels
  BouquetFilters = {"no filter", "beta"}
  MaxChannels = 5
  ShortMax = 3
  MaxLost = 1
  ServiceOf <- Services4
  SdtCarousels <- SdtBeside
INVARIANTS
  KnownBouquetsLoaded
  AllBouquetsKnown
  NamedAtEnd
  AllServicesNamed
PROPERTIES
  EndIsFinal
  BatEnds
  SdtEnds
CHECK_DEADLOCK FALSE
