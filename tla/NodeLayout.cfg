SPECIFICATION Spec
CONSTANTS
  Cap <- MCCap
  TopByte = 3
  WordBits = 2
  HalfKeys = 2
  NodePrefixes <- MCPrefixes
  MaxPrefix = 3
  MaxWrites = 2
  Starts <- MCStarts
INVARIANTS
  LayoutSound
  NeverStaleChild
PROPERTIES
  ReadExact
  ImplementsNodeMap
