-------------------------- MODULE MCCompensation --------------------------
(* Instances of Compensation for TLC.                                      *)
EXTENDS Compensation, TLC

CONSTANTS k1, k2, auto, ann
=============================================================================
