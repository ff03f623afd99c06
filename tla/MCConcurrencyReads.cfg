SPECIFICATION Spec
CONSTANTS
  fact = fact
  given = given
  holder = holder
  def = def
  module = module
  L = L
  Atoms = {holder}
  Static = {}
  Branch = 2
  Width = 2
  Names = {L}
  Modules = {}
  Defs <- MCNone
  Added = {holder}
  Removed = {}
  HandleIn <- MCHandleIn
  MaxEffects = 3
  MaxIds = 1
INVARIANT
  VersionIdentifiesReads
CHECK_DEADLOCK FALSE
