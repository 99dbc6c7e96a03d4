SPECIFICATION Spec
CONSTANTS
  a = a
  b = b
  inner = inner
  Drawer = {a, b, inner}
  TopLevel = TopLevel
  NoDrawer = NoDrawer
  Parent <- MCParent
  FirstOpen = {{}, {a, b}}
  Stubborn = {b}
  Width <- Widths
  DragTo <- FirstDrags
  MaxQueued = 1
  InnerWidth <- Windows
CHECK_DEADLOCK FALSE
INVARIANTS
  TypeOK
  CountsTheDocked
  PageMakesRoom
  OneUnderEachParent
  CleanDocking
  ChoicesRemembered
  CursorGivenBack
