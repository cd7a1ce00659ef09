CONSTANTS
  Keys = {none, a}
  NoKeys = none
  ConsumerKeys = {none, volume}
  NoConsumer = none
  MouseButtons = {left}
  Axes = {x}
  Motions <- NoMotion
  Pads = {none}
  NeutralPad = none
  Sticks = {centre}
  CenteredStick = centre
  ScanWhileBusy = FALSE
  MergeWhileBusy = FALSE
  UsesVia = FALSE
  UsesJoystick = FALSE
  BusEvents <- AllEvents
  MaxCommands = 2
  Leds <- TwoLeds
SPECIFICATION FairViaSpec
INVARIANTS ViaTypeOK LastCommandKept
PROPERTIES TakenInOrder OwnAnswer EveryCommandAnswered KeysArrive ConsumerKeysArrive
