\* Two sentences may wait while one is parsed; with two more the slot being
\* parsed is overrun.
CONSTANTS
  Size = 3
  SlotSize = 5
  Chars = {"x", "y"}
  Texts <- MCTexts
  Damaged <- MCDamaged
  Fresh <- MCFresh
  Junk <- MCJunk
SPECIFICATION Spec
PROPERTIES
  HandledIsIntact
  FittingIsHandled
CHECK_DEADLOCK FALSE
