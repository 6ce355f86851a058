CONSTANTS
  NrCpus = 2
  Sizes = {1, 3}
  MaxCount = 4
  ReadsMayFail = TRUE
SPECIFICATION Spec
PROPERTY SamplesNeverGoBack
