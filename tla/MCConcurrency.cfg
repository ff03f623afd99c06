SPECIFICATION Spec
CONSTANTS
  fact = fact
  given = given
  holder = holder
  def = def
  module = module
  L = L
  Atoms = {fact, given, def}
  Static = {given}
  Branch = 2
  Width = 2
  Names = {L}
  Modules = {module}
  Defs <- MCDefs
  Added = {fact}
  Removed = {fact, given}
  HandleIn <- MCNone
  MaxEffects = 3
  MaxIds = 2
INVARIANTS
  TypeOK
  HandlesNotReused
  VersionIdentifiesContent
  ImportedOnce
  LocksExact
PROPERTIES
  ParJoinsEffects
  SectionsServed
CHECK_DEADLOCK FALSE
