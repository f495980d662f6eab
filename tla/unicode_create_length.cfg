CONSTANTS
  Sources <- MC_Sources
  Pairs <- MC_Pairs
  U32Values <- MC_U32Values
  U64Values <- MC_U64Values
  Bases <- MC_Bases
SPECIFICATION Spec
INVARIANT CreateKeepsText
