CONSTANTS
  gateway = gateway
  speak = speak
  desk = desk
  text = text
  heard = heard
  Empty = Empty
  Torn = Torn
  None = None
  Fields = {text, heard}
  DeskFields = {text}
  Processes <- GatewaySpeechDesk
  Pushers = {gateway}
  Speakers = {speak}
  Overwriters = {desk}
  MaxPushes = 4
SPECIFICATION Spec
CHECK_DEADLOCK FALSE
INVARIANTS TypeOK UndisturbedIsReadable
PROPERTY LonePushMerges
