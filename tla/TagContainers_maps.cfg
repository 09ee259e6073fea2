\* Compounds and the root, with two names.
SPECIFICATION Spec
CONSTANTS
  Types <- CompoundTypes
  Keys <- TwoKeys
  RootKeys <- OneKey
  MaxTags = 2
  MaxKids = 0
INVARIANTS TypeOK
PROPERTIES KeepsPromises
CHECK_DEADLOCK FALSE
