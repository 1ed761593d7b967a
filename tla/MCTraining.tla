----------------------------- MODULE MCTraining -----------------------------
(***************************************************************************)
(* An int of four bits and a first checkpoint of 3: targets below it, two  *)
(* doublings, an odd one, the largest int, and counts that are refused.    *)
(***************************************************************************)
EXTENDS Training

Counts == {0, 2, 6, 7, 15, 16}
=============================================================================
