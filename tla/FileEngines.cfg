SPECIFICATION EnginesSpec
INVARIANTS
  CosaveMatches
  CleanedReadsBack
  OffsetsTrue
  VmadKept
  LegacyReadsBack
  RollShipsEnforced
  ClientMatchesLock
  CompiledOwn
  ClosureClosed
PROPERTIES
  ViewedOccurrenceHit
  CountFollows
  MasterListKept
SYMMETRY Symmetry
CHECK_DEADLOCK FALSE
CONSTANTS
  slot = slot  bak = bak  cln = cln  stemA = stemA  stemB = stemB
  lower = lower  upper = upper
  e1 = e1  e2 = e2  ref = ref  live = live  stub = stub  gone = gone  game = game
  Absent = Absent  Torn = Torn
  Saves = {slot, bak, cln}  Spellings = {lower, upper}  Stems = {stemA, stemB}
  Stem <- MCStem  Beside <- MCBeside  Heaps <- MCHeaps  Native = {game}
  SectionLen <- MCSectionLen  MaxSaves = 1  MaxCleans = 2
  x1 = x1  x2 = x2
  RecordKinds = {"QUST", "REFR"}  FragmentKinds = {"QUST"}  FieldSigs = {"DATA", "VMAD"}
  RecordFlags = {"compressed"}  Bodies = {x1, x2}  FieldLens = {1}
  Scripts = {"script"}  Fragments = {fragment}  Aliases = {alias}
  NoFragment = NoFragment  EmptyFragment = EmptyFragment  NoAliases = NoAliases  NoVmad = NoVmad
  MaxFields = 3  MaxInserted = 1
  LgRecords <- MCRecords  LgSigs = {"MODL", "XXXX"}  LgLens = {2, 3}  LgBodies = {0, 2}
  Donor <- MCDonor  MaxU16 = 2  OverrideLen = 2  PlaceLen = 2  MaxLgFields = 4  MaxLgInserts = 1
  fern = fern  fernUp = fernUp  moon = moon
  T3Names = {fern, fernUp, moon}  T3Fold <- MCT3Fold  T3Types = {"RACE", "INFO"}
  IdSubrec <- MCIdSubrec  T3Sigs = {"NAME", "INAM"}  T3Lens = {1}  T3Starts <- MCT3Starts
  T3Sizes = {1}  MaxT3Records = 3  MaxT3Subs = 3  MaxT3Calls = 2
  van = van  dirA = dirA  dirB = dirB  master = master  plug = plug  plugUp = plugUp
  asset = asset  script = script  doc = doc  c1 = c1  c2 = c2
  MlPaths = {master, plug, plugUp, asset, script, doc}  MlFold <- MCMlFold  MlWalk <- MCWalk
  MlContents = {c1, c2}  MlDirs = {van, dirA, dirB}  MlDisks <- MCDisks  MlSetups <- MCSetups
  KnownCrcs <- MCKnown  LuaPlugins = {script}  BundleDocs = {doc}  NoFile = NoFile  Doc = Doc
  MaxChanges = 1  MaxRolls = 2
  p1 = p1  p2 = p2  s1 = s1  s2 = s2  skse = skse  vanilla = vanilla
  PcProcs = {p1, p2}  PcScripts = {s1, s2}  PcDirs = {skse, vanilla}
  SkseDir = skse  VanillaDir = vanilla  NoPex = NoPex  NoCommand = NoCommand
  PcGiven <- MCGiven  PcStarts <- MCPcStarts  MaxVersion = 1  MaxCompiles = 2
  a1 = a1  a2 = a2  AsDirs = {a1, a2}  Dest = Dest  AsPaths <- MCAsPaths  AsContents <- MCAsContents
  PluginSubs <- MCPluginSubs  TexExts <- MCTexExts  AsSetups <- MCAsSetups  AsDisks <- MCAsDisks
  NoAsset = NoAsset  NotFound = NotFound  MaxAsChanges = 1  MaxResolves = 2
