SPECIFICATION FairSpec
CONSTANTS
  w1 = w1
  w2 = w2
  Workers = {w1, w2}
  Configs <- MCTwoConfigs
  Keys <- MCKeys
  KeyOf <- MCKeyOf
  Lifetimes = {5, 7}
  Margin = 6
  Timeout = 2
  MaxPanels = 1
INVARIANTS
  TypeOK
  CacheKeepsMargin
  OwnToken
  LiveWhenSent
PROPERTY
  BoundedTime
  CallsReturn
