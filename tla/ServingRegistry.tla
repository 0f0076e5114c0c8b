-------------------------- MODULE ServingRegistry --------------------------
(* What the serving-channel annotation promises, with no API server, no     *)
(* controller and no failure in sight: every Secret and ConfigMap has a set *)
(* of channels that it serves, a channel enters or leaves one set at a time *)
(* without disturbing the other members, a set only ever holds channels of  *)
(* the object's own namespace, and a set is emptied at once only when the   *)
(* object itself is deleted or replaced by its owner.                       *)
CONSTANTS Channels,   \* keys (namespace/name) of the channels
          Objects,    \* the Secrets and ConfigMaps
          Home(_, _)  \* Home(o, c): object o and channel c share a namespace

VARIABLE serving      \* serving[o]: the channels the annotation of o lists

Init == serving = [o \in Objects |-> {}]

Enter(o, c) == /\ Home(o, c)
               /\ serving' = [serving EXCEPT ![o] = @ \cup {c}]

Leave(o, c) == serving' = [serving EXCEPT ![o] = @ \ {c}]

Reset(o) == serving' = [serving EXCEPT ![o] = {}]

Next == \E o \in Objects : \/ \E c \in Channels : Enter(o, c) \/ Leave(o, c)
                           \/ Reset(o)

Spec == Init /\ [][Next]_serving
=============================================================================
