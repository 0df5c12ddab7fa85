------------------------- MODULE MCRecordingControl -------------------------
(***************************************************************************)
(* A small instance of RecordingControl for TLC.                           *)
(***************************************************************************)
EXTENDS RecordingControl

BothHotkeys == {"capsLock", "other"}
CapsLockOnly == {"capsLock"}
=============================================================================
