SPECIFICATION Spec
CONSTANTS
  Places <- MCPlaces
  Trees <- MCTrees
  Root <- Home
  Linkable <- MCLinkable
  LinkTarget <- MCLinkTarget
  Defaults <- MCDefaults
  ExcludeFiles <- MCExcludeFiles
  ResumePoints <- MCResumePoints
  MaxChanges = 2
INVARIANTS
  TypeOK
  VisitsInOrder
  NothingExcluded
  WalksFromResumePoint
  LinksNotFollowed
CHECK_DEADLOCK FALSE
