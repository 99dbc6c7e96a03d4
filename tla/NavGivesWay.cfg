SPECIFICATION Spec
CONSTANTS
  a = a
  b = b
  inner = inner
  Drawer = {a, b}
  TopLevel = TopLevel
  NoDrawer = NoDrawer
  Parent <- MCParent
  FirstOpen = {{}}
  Stubborn = {}
  Width <- OneWidth
  DragTo <- NoDrags
  MaxQueued = 1
  InnerWidth <- Desktop
CHECK_DEADLOCK FALSE
INVARIANT
  NavGivesWay
