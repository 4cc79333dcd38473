SPECIFICATION Spec
CONSTANTS
  Windows <- MCWindows
  Image <- MCImage
  Feed <- MCFeed
  HandlerCells = {16, 17}
  MaxEvents = 2
INVARIANT InterruptsTransparent
INVARIANT EchoInOrder
INVARIANT DecimalExact
CHECK_DEADLOCK FALSE
