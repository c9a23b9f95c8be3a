--------------------------- MODULE MCExperimentRun ---------------------------
(* Values of the options of a run for TLC: sequences cannot be written in a *)
(* configuration file.                                                     *)
EXTENDS ExperimentRun

MCEpisodeLists == {<<3, 1>>}
MCReplayLists == {<<1, 2>>}
=============================================================================
