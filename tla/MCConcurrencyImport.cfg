SPECIFICATION Spec
CONSTANTS
  fact = fact
  given = given
  holder = holder
  def = def
  module = module
  L = L
  Atoms = {def}
  Static = {}
  Branch = 2
  Width = 2
  Names = {L}
  Modules = {module}
  Defs <- MCDefs
  Added = {}
  Removed = {}
  HandleIn <- MCNone
  MaxEffects = 3
  MaxIds = 0
PROPERTY
  ImportTakesEffect
CHECK_DEADLOCK FALSE
