\* The local VAD behind the waveIn callback.
SPECIFICATION Spec
CHECK_DEADLOCK FALSE
CONSTANTS
  Devices = {"wavein"}
  Modes = {"local"}
  Short = 1
  MaxBlocks = 4
  MaxCaptures = 2
  MaxOthers = 0
  SmoothWindow = 1
  PadStartConfig = 1
  MinSpeech = 2
  MaxSpeech = 2
  MinSilence = 2
  ThresholdNum = 1
  ThresholdDen = 2
  PreSpeechKeep = 1
  TailSilentThreshold = 1
INVARIANTS
  NoSpeechIsSilence
