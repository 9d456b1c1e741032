SPECIFICATION LayoutSpec
CONSTANTS
  Types <- MCTypes
  Structs <- MCStructs
  Classes <- MCClasses
  BodyTypes <- MCBodyTypes
  Programs <- MCPrograms
INVARIANTS
  RefusedIfCircular
  DefinedBeforeUse
  NamesDistinct
CHECK_DEADLOCK FALSE
