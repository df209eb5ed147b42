CONSTANTS
  Tabs = {t1, t2}
  Ends = {"successful"}
  Breaks = 1
  MaxPresses = 2
SPECIFICATION Spec
INVARIANTS PanelInv
PROPERTIES NoWayBack PanelSettles
CHECK_DEADLOCK FALSE
