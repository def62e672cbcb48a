SPECIFICATION Spec
CONSTANTS
  OpenMW = OpenMW
  skyrim = skyrim
  plugin = plugin
  mesh = mesh
  Absent = Absent
  User = User
  NoManifest = NoManifest
  Garbled = Garbled
  NoCfg = NoCfg
  Idle = Idle
  Games = {OpenMW, skyrim}
  Mods = {m1}
  Files = {plugin}
  Plugins = {plugin}
  Faults = {"crossgame"}
SYMMETRY Names
INVARIANTS
  UserFilesKept
