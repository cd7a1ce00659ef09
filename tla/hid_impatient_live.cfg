CONSTANTS
  Keys = {none, a}
  NoKeys = none
  ConsumerKeys = {none}
  NoConsumer = none
  MouseButtons = {}
  Axes = {x}
  Motions <- NoMotion
  Pads = {none}
  NeutralPad = none
  Sticks = {centre}
  CenteredStick = centre
  ScanWhileBusy = TRUE
  MergeWhileBusy = TRUE
  UsesVia = FALSE
  UsesJoystick = FALSE
  BusEvents <- NoEvents
SPECIFICATION FairSpec
PROPERTY KeyboardConverges
