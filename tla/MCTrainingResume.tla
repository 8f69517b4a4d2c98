--------------------------- MODULE MCTrainingResume ---------------------------
(* TrainingResume for TLC: eight batches, three updates of two, two left over. *)
EXTENDS TrainingResume

MCTargets == <<1, 2, 1, 1, 2, 1, 1, 1>>
===============================================================================
