SPECIFICATION Spec
CONSTANTS
  self = self
  game = game
  Names = {self, game}
  Self = self
  MaxObject = 4
  Given <- Patches
  MaxMasters = 2
  Engines = {"edit"}
  MaxBatch = 2
  Risks = {"miscount"}
VIEW PluginView
INVARIANTS
  CountRight
