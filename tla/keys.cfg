SPECIFICATION Spec
CONSTANTS
  Letters = {q}
  Size = 4
  InitText <- OneSign
  None = None
INVARIANTS TypeOK TextEnds
PROPERTIES EditsAtCaret OneKeyPerContact NoEarlyRepeat PressTypes
