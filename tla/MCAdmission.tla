---------------------------- MODULE MCAdmission ----------------------------
(* An instance of Admission for TLC.                                        *)
EXTENDS Admission, TLC

CONSTANTS c1, c2

Homes == [c \in {c1, c2} |-> "n1"]
============================================================================
