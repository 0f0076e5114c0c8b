------------------------- MODULE MCChannelValidator -------------------------
(* An instance of ChannelValidator for TLC: two channels in one namespace.  *)
EXTENDS ChannelValidator, TLC

CONSTANTS c1, c2

Homes == [c \in {c1, c2} |-> "n1"]
=============================================================================
