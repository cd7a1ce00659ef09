CONSTANTS
  Keys = {none, a}
  NoKeys = none
  ConsumerKeys = {none, volume}
  NoConsumer = none
  MouseButtons = {left}
  Axes = {x}
  Motions <- NoMotion
  Pads = {none}
  NeutralPad = none
  Sticks = {centre}
  CenteredStick = centre
  ScanWhileBusy = FALSE
  MergeWhileBusy = TRUE
  UsesVia = FALSE
  UsesJoystick = FALSE
  BusEvents <- NoEvents
SPECIFICATION FairSpec
PROPERTY ButtonsReleased
