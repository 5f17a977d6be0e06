SPECIFICATION PanelSpec
CONSTANTS
  Keys = {k1, k2}
  SessionEnds = TRUE
  MaxVersion = 2
  MaxSends = 2
  Nothing = Nothing
PROPERTIES NoNewAttempt
CHECK_DEADLOCK FALSE
