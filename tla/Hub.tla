-------------------------------- MODULE Hub --------------------------------
(* The hub cluster as the channel controller sees it: the API server's      *)
(* resources (Channels, the Secrets and ConfigMaps they reference, the      *)
(* Roles and RoleBindings made for them, ManagedClusters, MultiClusterHubs) *)
(* and everybody but the controller who writes them, that is users, the     *)
(* registration of clusters, the hub operator and the garbage collector.    *)
(* The actions constrain the hub's variables only; ChannelController adds   *)
(* what they mean for the controller.                                       *)
EXTENDS Naturals

CONSTANTS
    Channels,      \* keys (namespace/name) of channels
    Namespaces,
    NsOf,          \* NsOf[c]: the namespace of channel c
    Names,         \* names of Secrets and ConfigMaps
    Specs,         \* the channel specs users write
    UserObjects,   \* the Secrets and ConfigMaps users write
    Clusters,      \* names of managed clusters
    Hubs,          \* namespaces a MultiClusterHub may be installed in
    UserRBAC,      \* channels whose Role and RoleBinding users write too
    UserRules,     \* the rules users write into a Role
    MaxUid,        \* bound: how many times a channel is created
    Absent,        \* no such object
    NoRef,         \* a nil SecretRef or ConfigMapRef
    EmptyName,     \* the name "" of a reference
    NoNs,          \* the namespace ""
    NoOwner,       \* no controller owner reference
    Foreign        \* a controller other than the channel of that name

Kinds == {"Secret", "ConfigMap"}

Refs == [name : Names \cup {EmptyName}, ns : Namespaces \cup {NoNs}]

(* Spec of a Channel: whether its type is Namespace, whether its pathname   *)
(* is its namespace, and its SecretRef and ConfigMapRef.                    *)
ChannelSpec == [isNs : BOOLEAN, pathOk : BOOLEAN,
                ref : [Kinds -> Refs \cup {NoRef}]]

Channel == [uid : Nat, spec : ChannelSpec]

Objects == [kind : Kinds, ns : Namespaces, name : Names]

(* A Secret or ConfigMap: its serving-channel label, its backup label and   *)
(* the keys in its serving-channel annotation ({} : no annotation; module   *)
(* ServingChannel relates the set to the string).                           *)
Object == [label : BOOLEAN, backup : BOOLEAN, serving : SUBSET Channels]

(* What users create: never annotated, but a copied manifest may carry the  *)
(* label.                                                                   *)
NewObjects == [label : BOOLEAN, backup : {FALSE}, serving : {{}}]

(* Rules of a Role: whether it lets clusters read channels, and which       *)
(* Secret and which ConfigMap.                                              *)
Rules == [channels : BOOLEAN, name : [Kinds -> Names \cup {NoRef}]]

(* The controller of a Role or RoleBinding: a channel of its name (by uid), *)
(* something else, or none.                                                 *)
Owners == Nat \cup {NoOwner, Foreign}

(* granted is history: the controller has written it since it was created.  *)
Role == [rules : Rules, owner : Owners, granted : BOOLEAN]

(* A RoleBinding: the clusters its subjects stand for, whether its roleRef  *)
(* is the channel's Role, its controller.                                   *)
Binding == [subjects : SUBSET Clusters, roleRef : BOOLEAN,
            owner : Owners, granted : BOOLEAN]

ASSUME ConstantsAssumption ==
    /\ NsOf \in [Channels -> Namespaces]
    /\ Specs \subseteq ChannelSpec
    /\ UserObjects \subseteq Objects
    /\ Hubs \subseteq Namespaces
    /\ UserRBAC \subseteq Channels
    /\ UserRules \subseteq Rules
    /\ MaxUid \in Nat

ASSUME SentinelsAssumption ==
    /\ Absent \notin Channels \cup Channel \cup Object \cup Role \cup Binding
    /\ NoRef \notin Refs \cup Names
    /\ EmptyName \notin Names
    /\ NoNs \notin Namespaces
    /\ NoOwner \notin Nat /\ Foreign \notin Nat /\ Foreign # NoOwner

VARIABLES
    chan,       \* chan[c]: the Channel resource
    nextUid,    \* uid of the next Channel resource
    obj,        \* obj[o]: the Secret or ConfigMap
    role,       \* role[c]: the Role named like channel c, in its namespace
    binding,    \* binding[c]: the RoleBinding of that name
    clusters,   \* the ManagedClusters
    clusterAPI, \* whether the ManagedCluster CRD is installed
    mch         \* namespaces that hold a MultiClusterHub

rbac == <<role, binding>>
fleet == <<clusters, clusterAPI, mch>>
hub == <<chan, nextUid, obj, rbac, fleet>>

HubInit ==
    /\ chan = [c \in Channels |-> Absent]
    /\ nextUid = 0
    /\ obj = [o \in Objects |-> Absent]
    /\ role = [c \in Channels |-> Absent]
    /\ binding = [c \in Channels |-> Absent]
    /\ clusters = {}
    /\ clusterAPI = FALSE
    /\ mch = {}

HubTypeOK ==
    /\ chan \in [Channels -> Channel \cup {Absent}]
    /\ nextUid \in Nat
    /\ obj \in [Objects -> Object \cup {Absent}]
    /\ role \in [Channels -> Role \cup {Absent}]
    /\ binding \in [Channels -> Binding \cup {Absent}]
    /\ clusters \in SUBSET Clusters
    /\ clusterAPI \in BOOLEAN
    /\ mch \in SUBSET Namespaces

----------------------------------------------------------------------------
(* Users create, update and delete Channels.                                *)
CreateChannel(c, s) ==
    /\ chan[c] = Absent /\ nextUid < MaxUid
    /\ chan' = [chan EXCEPT ![c] = [uid |-> nextUid, spec |-> s]]
    /\ nextUid' = nextUid + 1
    /\ UNCHANGED <<obj, rbac, fleet>>

UpdateChannel(c, s) ==
    /\ chan[c] # Absent /\ chan[c].spec # s
    /\ chan' = [chan EXCEPT ![c].spec = s]
    /\ UNCHANGED <<nextUid, obj, rbac, fleet>>

DeleteChannel(c) ==
    /\ chan[c] # Absent
    /\ chan' = [chan EXCEPT ![c] = Absent]
    /\ UNCHANGED <<nextUid, obj, rbac, fleet>>

WriteChannel(c) == \/ \E s \in Specs : CreateChannel(c, s) \/ UpdateChannel(c, s)
                   \/ DeleteChannel(c)

(* Secrets and ConfigMaps are created or replaced without the controller's  *)
(* annotation, deleted, or updated with its metadata kept.                  *)
WriteObject(o) ==
    /\ \/ \E x \in NewObjects : obj' = [obj EXCEPT ![o] = x]
       \/ obj[o] # Absent /\ obj' = [obj EXCEPT ![o] = Absent]
       \/ obj[o] # Absent /\ UNCHANGED obj
    /\ UNCHANGED <<chan, nextUid, rbac, fleet>>

(* Roles and RoleBindings are created, on their own or by another           *)
(* controller, edited with their owner kept, and deleted.                   *)
NotOurs == {NoOwner, Foreign}

EditRole(c) ==
    /\ \/ role' = [role EXCEPT ![c] = Absent]
       \/ /\ role[c] # Absent
          /\ \E r \in UserRules : role' = [role EXCEPT ![c].rules = r]
       \/ /\ role[c] = Absent
          /\ \E r \in UserRules, o \in NotOurs :
               role' = [role EXCEPT ![c] =
                          [rules |-> r, owner |-> o, granted |-> FALSE]]
    /\ UNCHANGED <<chan, nextUid, obj, binding, fleet>>

EditBinding(c) ==
    /\ \/ binding' = [binding EXCEPT ![c] = Absent]
       \/ /\ binding[c] # Absent
          /\ \E s \in SUBSET Clusters :
               binding' = [binding EXCEPT ![c].subjects = s]
       \/ /\ binding[c] = Absent
          /\ \E s \in SUBSET Clusters, own \in BOOLEAN, o \in NotOurs :
               binding' = [binding EXCEPT ![c] =
                             [subjects |-> s, roleRef |-> own, owner |-> o,
                              granted |-> FALSE]]
    /\ UNCHANGED <<chan, nextUid, obj, role, fleet>>

(* The ManagedCluster API is installed, clusters join and leave, a          *)
(* MultiClusterHub is installed or removed.                                 *)
ChangeFleet ==
    /\ \/ /\ Clusters # {} /\ ~clusterAPI
          /\ clusterAPI' = TRUE
          /\ UNCHANGED <<clusters, mch>>
       \/ /\ clusterAPI
          /\ \E cl \in Clusters :
               clusters' = IF cl \in clusters THEN clusters \ {cl}
                           ELSE clusters \cup {cl}
          /\ UNCHANGED <<clusterAPI, mch>>
       \/ /\ \E ns \in Hubs :
               mch' = IF ns \in mch THEN mch \ {ns} ELSE mch \cup {ns}
          /\ UNCHANGED <<clusters, clusterAPI>>
    /\ UNCHANGED <<chan, nextUid, obj, rbac>>

(* The garbage collector deletes a Role or RoleBinding whose controller is  *)
(* gone: no channel of that name, or one with another uid.  (What becomes   *)
(* of one with a foreign controller is up to those who edit it.)            *)
Orphaned(c, r) == /\ r # Absent
                  /\ r.owner \notin NotOurs
                  /\ chan[c] # Absent => chan[c].uid # r.owner

CollectRole(c) ==
    /\ Orphaned(c, role[c])
    /\ role' = [role EXCEPT ![c] = Absent]
    /\ UNCHANGED <<chan, nextUid, obj, binding, fleet>>

CollectBinding(c) ==
    /\ Orphaned(c, binding[c])
    /\ binding' = [binding EXCEPT ![c] = Absent]
    /\ UNCHANGED <<chan, nextUid, obj, role, fleet>>
=============================================================================
