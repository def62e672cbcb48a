SPECIFICATION Spec
CONSTANTS
  OpenMW = OpenMW
  skyrim = skyrim
  plugin = plugin
  mesh = mesh
  Absent = Absent
  User = User
  NoManifest = NoManifest
  Garbled = Garbled
  NoCfg = NoCfg
  Idle = Idle
  Games = {OpenMW, skyrim}
  Mods = {m1, m2}
  Files = {plugin, mesh}
  Plugins = {plugin}
  Faults = {"break", "busy", "shrink"}
SYMMETRY Names
CONSTRAINT OneGameOrOneFile
INVARIANTS
  TypeOK
  UserFilesKept
  UserLinesKept
  AccountedFor
  OwnershipInv
PROPERTIES
  ConfigBackedUp
