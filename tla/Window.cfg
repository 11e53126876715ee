SPECIFICATION Spec
CONSTANTS
  CMD_BUFFER_SIZE = 3
  Width = 3
  Space = " "
  Upper <- MCUpper
  Odd = {"esc"}
  ColumnsOf <- MCColumnsOf
  Kinds = {"login", "game", "error"}
  Letters = {"a", "z", "esc"}
  Hints <- MCHints
  IsCommand <- MCIsCommand
  Heights <- MCHeights
  MaxHistory = 2
  MayBeWide = {2}
  MaxTyped <- MCMaxTyped
  MaxLines <- MCMaxLines
INVARIANTS TypeOK ScreenIsLine RowsShowContent NewestShown
PROPERTIES ImplementsEditor
CHECK_DEADLOCK FALSE
