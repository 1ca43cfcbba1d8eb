SPECIFICATION Spec
CONSTANTS
  Formats = {"dvb", "freesat", "skyuk", "mhw1"}
  Inputs = {"device", "stdin", "file", "missing"}
  Frequencies = {1, 2}
  Types = {"OFDM", "QPSK"}
  TuningFiles <- SmallFiles
  Timeouts = {0}
  DefaultTimeout = 1
INVARIANTS
  StatusTellsClosed
  AlarmOnlyBeforeReading
  TunedMeansLocked
  GivesUpLate
CHECK_DEADLOCK FALSE
