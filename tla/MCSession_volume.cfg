SPECIFICATION SessionSpec
CONSTANTS
  Esp = "esp"
  Extras <- TwoExtras
  EntryLists <- DiscoveredLists
  Policies <- AllPolicies
  Devices <- MCDevices
  Menus <- MCMenus
  Heights = {256}
  Timeouts = {0, 50}
  Points <- MCPoints
  KeysUsed = {"up", "down", "left", "right", "enter", "f1", "f2", "f12", "0", "f3"}
  GuiFrame = 16
  TextFrame = 100
  Second = 40
  UWrap = 512
  MaxReports = 3
INVARIANT
  SourceVolumeRight
CHECK_DEADLOCK FALSE
