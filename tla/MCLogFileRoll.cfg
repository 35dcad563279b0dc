\* Roll sizes of three bytes, and three hours: what a roll does.
SPECIFICATION Spec
CONSTANTS
  RollMb = 3
  Mega = 1
  WordMod = 16
  LineSizes = {1, 2, 3}
  MaxHour = 2
  MaxBytes = 12
PROPERTY
  RollsToNextFile
\* The writer acts only when a line comes, and the bytes are bounded.
CHECK_DEADLOCK FALSE
