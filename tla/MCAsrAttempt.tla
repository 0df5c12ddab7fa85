---------------------------- MODULE MCAsrAttempt ----------------------------
(***************************************************************************)
(* Small instances of AsrAttempt for TLC.                                  *)
(***************************************************************************)
EXTENDS AsrAttempt

Config(mode, fallback, llm, qwenFree) ==
  [mode |-> mode, fallback |-> fallback, llm |-> llm, qwenFree |-> qwenFree]

\* A streaming backend with refinement that falls back to Qwen Free, Qwen Free
\* as the primary with its own polish, and a batch backend with a fallback.
MixedConfigs ==
  {Config("stream", TRUE, TRUE, "fallback"),
   Config("stream", FALSE, TRUE, "primary"),
   Config("batch", TRUE, FALSE, "none")}

\* A batch backend that falls back to Qwen Free, with refinement.
BatchToQwenFree == {Config("batch", TRUE, TRUE, "fallback")}
=============================================================================
