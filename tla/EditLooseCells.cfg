SPECIFICATION Spec
CONSTANTS
  self = self
  game = game
  Names = {self, game}
  Self = self
  MaxObject = 4
  Given <- Patches
  MaxMasters = 2
  Engines = {"ops"}
  MaxBatch = 2
  Risks = {"loose cells"}
VIEW PluginView
PROPERTIES
  OwnChildrenGo
