----------------------------- MODULE MCCascade -----------------------------
(***************************************************************************)
(* Two questions, one of them forced or none, a budget of three ticks of   *)
(* which the first hop may use two.                                        *)
(***************************************************************************)
EXTENDS Cascade

MCQuestions == {"forced", "extra"}
MCForced == { {"forced"}, {} }
BatteryForced == { {"forced"} }
MCNewKeys == {"new", "none", "empty"}
OneQuestion == {"forced"}
TwoKeys == {"new", "none"}

=============================================================================
