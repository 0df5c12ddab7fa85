------------------------- MODULE MCBatchRecognition -------------------------
(***************************************************************************)
(* Plans of two recordings for TLC: each has what one kind of property is  *)
(* about, and every backend is in one of them.                             *)
(***************************************************************************)
EXTENDS BatchRecognition

Use(provider, fallback, mode) ==
  [provider |-> provider, fallback |-> fallback, mode |-> mode]

Plan(first, second, presses) ==
  [settings |-> <<first, second>>, tests |-> presses]

Baidu == Use("baidu", "none", "off")

FewPlans ==
  { Plan(Baidu, Baidu, 1),
    Plan(Use("mimo", "local", "failures"), Use("mai", "none", "all"), 0),
    Plan(Use("qwen_audio", "mimo", "failures"),
         Use("qwen", "none", "failures"), 0),
    Plan(Use("baidu", "doubao", "failures"), Use("doubao", "none", "off"), 0) }
=============================================================================
