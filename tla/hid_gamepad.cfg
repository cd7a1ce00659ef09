CONSTANTS
  Keys = {none, a}
  NoKeys = none
  ConsumerKeys = {none, volume}
  NoConsumer = none
  MouseButtons = {}
  Axes = {x}
  Motions <- NoMotion
  Pads = {none, up}
  NeutralPad = none
  Sticks = {centre, tilted}
  CenteredStick = centre
  ScanWhileBusy = TRUE
  MergeWhileBusy = TRUE
  UsesVia = TRUE
  UsesJoystick = TRUE
  BusEvents <- SuspendOnly
SPECIFICATION FairSpec
INVARIANTS PendingIsOnTheMove SilentPadIsNeutral
PROPERTIES GamepadConverges ConsumerInOrder GamepadInOrder
