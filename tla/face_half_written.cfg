CONSTANTS
  gateway = gateway
  speak = speak
  desk = desk
  text = text
  heard = heard
  Empty = Empty
  Torn = Torn
  None = None
  Fields = {text, heard}
  DeskFields = {text}
  Processes <- GatewaySpeech
  Pushers = {gateway}
  Speakers = {speak}
  Overwriters = {}
  MaxPushes = 3
SPECIFICATION Spec
CHECK_DEADLOCK FALSE
INVARIANT NeverHalfWritten
