SPECIFICATION Spec
CONSTANTS
  a = a
  b = b
  c = c
  Plugins = {a, b, c}
  Main = "openmw"
  Also <- AlsoBase
  Torn = Torn
  Given <- Configs
  Headers <- Graphs
  MaxCalls = 1
  Faults = {"dies"}
SYMMETRY Symmetry
INVARIANTS
  TypeOK
  MastersFirst
  OnlyCyclesRefused
  PreferenceKept
  RegisteredKept
PROPERTIES
  WrittenOrderLoads
