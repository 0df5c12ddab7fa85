\* The local VAD, the sessions with and without a trimmer, batch.
SPECIFICATION Spec
CHECK_DEADLOCK FALSE
CONSTANTS
  Devices = {"wasapi", "wavein"}
  Modes = {"trim", "plain", "local", "batch"}
  Short = 1
  MaxBlocks = 4
  MaxCaptures = 2
  MaxOthers = 1
  SmoothWindow = 1
  PadStartConfig = 1
  MinSpeech = 2
  MaxSpeech = 2
  MinSilence = 2
  ThresholdNum = 1
  ThresholdDen = 2
  PreSpeechKeep = 1
  TailSilentThreshold = 1
INVARIANTS
  CaptureIsComplete
  SessionHearsCapture
  VadHearsRecording
  SpeechIsKept
  VadIsThere
