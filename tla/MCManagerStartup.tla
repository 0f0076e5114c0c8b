-------------------------- MODULE MCManagerStartup --------------------------
(* Instances of ManagerStartup for TLC.                                     *)
EXTENDS ManagerStartup, TLC

Custom == [min |-> 13, groups |-> <<"secp521r1", "brainpool">>]

SomeProfiles ==
    {[type |-> t, custom |-> Absent] : t \in {"nil", "Modern", "Custom"}}
    \cup {[type |-> "Custom", custom |-> Custom]}
=============================================================================
