\* GetFromRoot as the example relies on it.
SPECIFICATION Spec
CONSTANTS
  Types <- CompoundTypes
  Keys <- NoKeys
  RootKeys <- OneKey
  MaxTags = 2
  MaxKids = 2
PROPERTIES RootKeysHaveTags
CHECK_DEADLOCK FALSE
