--------------------------- MODULE MCStudyDisplay ---------------------------
(***************************************************************************)
(* An instance of StudyDisplay for TLC: both learning signs under a light  *)
(* whose red changes its length from cycle to cycle, with the real tenths  *)
(* of a second.  The bytes of the learned lengths wrap at 3 instead of 256,*)
(* so that a red of three seconds wraps.                                   *)
(***************************************************************************)
EXTENDS StudyDisplay

Changing ==
    [c \in {"R", "G", "Y"} |->
        CASE c = "R" -> {1, 3} [] c = "G" -> {2} [] c = "Y" -> {1}]

\* Power comes up in the last tenths of a phase, or in its last two seconds.
PartOfAPhase == {4, 15}

BothSigns == [motor : BOOLEAN, rled : {TRUE}]
=============================================================================
