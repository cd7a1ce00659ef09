CONSTANTS
  Keys = {none, a}
  NoKeys = none
  ConsumerKeys = {none}
  NoConsumer = none
  MouseButtons = {left}
  Axes = {x}
  Motions <- AnySteps
  Pads = {none}
  NeutralPad = none
  Sticks = {centre}
  CenteredStick = centre
  ScanWhileBusy = TRUE
  MergeWhileBusy = TRUE
  UsesVia = TRUE
  UsesJoystick = FALSE
  BusEvents <- AllEvents
SPECIFICATION Spec
INVARIANTS TypeOK MotionAccounted CompletionClearsOnlyDelivered
PROPERTY KeyboardInOrder
