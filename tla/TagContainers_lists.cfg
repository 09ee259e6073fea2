\* Two tags, bytes or lists, and lists of up to three children.
SPECIFICATION Spec
CONSTANTS
  Types <- ListTypes
  Keys <- NoKeys
  RootKeys <- NoKeys
  MaxTags = 2
  MaxKids = 3
INVARIANTS ListsHomogeneous
PROPERTIES KeepsPromises
CHECK_DEADLOCK FALSE
