CONSTANTS
  Contexts = {c1, c2}
  NoContext = NoContext
  Settings <- NameOrSound
SPECIFICATION FairSpec
INVARIANTS TypeOK LookupOwned NothingLeft
PROPERTIES DeactivateEnds SoundFlows
