--------------------------- MODULE MCSearchSession ---------------------------
(* One worker's session for TLC: of the settings that a search may leave alone, *)
(* one that is cleared and one that stays; of those that it may give in vain,   *)
(* one that only some requests give and one that all of them give.              *)
EXTENDS SearchSession, TLC

MCOptional == {"filters", "weights"}
MCSkippable == {"weights", "retries"}
==============================================================================
