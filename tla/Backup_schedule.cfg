SPECIFICATION Spec
CONSTANTS
  Lists = {{"folder"}}
  Grills = {1}
  Keep = 1
  Day = 2
  MaxHour = 4
PROPERTY SlotIsServed
