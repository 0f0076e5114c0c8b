----------------------------- MODULE MCChannels -----------------------------
(* Instances of ChannelProperties for TLC.                                  *)
EXTENDS ChannelProperties, TLC

CONSTANTS c1, c2, n1, n2, a

OneHome == c1 :> n1 @@ c2 :> n1

Alone == c1 :> n1

(* Channels of one namespace are interchangeable.                           *)
Interchangeable == Permutations(Channels)

(* Specs of a channel of type Git without and with references.              *)
SpecOf(s, m) == [isNs |-> FALSE, pathOk |-> FALSE,
                 ref |-> [k \in Kinds |-> IF k = "Secret" THEN s ELSE m]]

Ref(name, ns) == [name |-> name, ns |-> ns]

NamespaceSpec == [SpecOf(NoRef, NoRef) EXCEPT !.isNs = TRUE]

GrantSpecs == {NamespaceSpec, SpecOf(Ref(a, n1), Ref(EmptyName, n1))}

(* Rules users write: those one of the specs calls for, and the other not. *)
SomeRules == {RulesFor(SpecOf(Ref(a, n1), NoRef))}

(* The reference names a namespace that is not the channel's.               *)
AwayOrNot == {SpecOf(NoRef, NoRef), SpecOf(Ref(a, n2), NoRef)}

SecretOrNot == {SpecOf(NoRef, NoRef), SpecOf(Ref(a, n1), NoRef)}

SecretAndMaybeConfigMap == {SpecOf(Ref(a, n1), NoRef),
                            SpecOf(Ref(a, n1), Ref(a, n1))}

SecretIn(ns) == [kind |-> "Secret", ns |-> ns, name |-> a]

ConfigMapIn(ns) == [kind |-> "ConfigMap", ns |-> ns, name |-> a]

SecretHere == {SecretIn(n1)}

SecretsHereAndAway == {SecretIn(n1), SecretIn(n2)}

BothHere == {SecretIn(n1), ConfigMapIn(n1)}
=============================================================================
