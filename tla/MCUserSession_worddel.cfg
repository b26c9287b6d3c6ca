SPECIFICATION Spec
CONSTANTS
  h1 = h1  h2 = h2
  Messages <- MCMessages
  Handlers = {h1, h2}
  MaxMessages = 4
PROPERTY CommandWaitsForData
CHECK_DEADLOCK FALSE
