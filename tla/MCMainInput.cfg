SPECIFICATION Spec
CONSTANTS
  Formats = {"dvb", "freesat"}
  Inputs = {"device", "stdin", "file"}
  Frequencies = {1, 2}
  Types = {"OFDM", "QPSK"}
  TuningFiles <- SmallFiles
  Timeouts = {0}
  DefaultTimeout = 1
INVARIANT
  ReadsItsInput
CHECK_DEADLOCK FALSE
