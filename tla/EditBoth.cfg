SPECIFICATION Spec
CONSTANTS
  self = self
  game = game
  Names = {self, game}
  Self = self
  MaxObject = 4
  Given <- Patches
  MaxMasters = 2
  Engines = {"ops", "edit"}
  MaxBatch = 2
  Risks = {}
VIEW PluginView
INVARIANTS
  IdsUnique
  CountRight
  ChildrenBehindCell
PROPERTIES
  FreshIds
  OrderKept
  OwnChildrenGo
