CONSTANTS
  Texts = {"", "none", "a", "b", "c", "long", "long...", "1", "2", "3", "4", "5", "7", "8", "x", "y", "z"}
  DefaultPriority = 3
  DefaultAddress = "work"
  Names <- MCNames
  Stem <- MCStem
  Slots = 4
  Kinds = {"event", "task", "memo", "contact"}
  DeskValues <- MCDeskValues
  PdaValues <- MCPdaValues
  MaxEdits = 3
SPECIFICATION Spec
INVARIANTS TypeOK PdaSurvives DesktopSurvives Settles CategoriesDistinct
CHECK_DEADLOCK FALSE
