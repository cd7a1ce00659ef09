CONSTANTS
  MAX_ADC_COUNT = 4
  Axes = {"x", "y", "z"}
  NoAxis = "none"
  AxisOf <- AxisOfChannel
  Offset <- Middle
  Gain <- Gains
  DriftMinus <- MinusThree
  Drift = 4
  Samples <- SomeSamples
  HatArguments <- SomeHats
SPECIFICATION Spec
INVARIANTS TypeOK DeflectionShown HatPoints
PROPERTY FurtherIsNeverLess
