SPECIFICATION Spec
CONSTANTS
  h1 = h1  h2 = h2
  Messages <- MCMessages
  Handlers = {h1, h2}
  MaxMessages = 4
INVARIANT StopIsNotTalk
CHECK_DEADLOCK FALSE
