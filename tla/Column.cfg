SPECIFICATION Spec
CONSTANTS
  Decls = {"none", "integer", "date"}
  Kinds = {"null", "int", "intmin", "long", "longmin", "real", "date", "blob"}
  WithAltTypes = TRUE
  FetchSizes <- AllOrThree
  MinCapacity = 1
  MaxRows = 4
INVARIANTS
  TypeOK
  ValuesInPlace
  LossIsTold
  MappedOrNA
  ChainConverts
  TypeIsGuessed
  UniformIsExact
PROPERTIES
  TypeOnlyWidens
