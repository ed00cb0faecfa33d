\* Lines of at most eight bytes, cut at every byte.  A finished reader stops for good.
CONSTANTS
  Hosts <- MCHosts
  Texts <- MCTexts
  MaxLines = 3
SPECIFICATION FairSpec
CHECK_DEADLOCK FALSE
INVARIANTS TypeOK DamageNeedsSplit
PROPERTIES ImplementsChannel
