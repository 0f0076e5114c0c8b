------------------------- MODULE ChannelProperties -------------------------
(* What the channel reconciler of module ChannelController has to do.       *)
EXTENDS ChannelController

(* Every variable has its type.                                             *)
TypeOK ==
    /\ HubTypeOK
    /\ queue \in SUBSET Channels
    /\ w \in Worker
    /\ quiet \in BOOLEAN

----------------------------------------------------------------------------
(* Safety.                                                                  *)

AtHome(o, c) == NsOf[c] = o.ns

Marks(o) == IF obj[o] = Absent THEN {} ELSE obj[o].serving

(* No object is ever annotated for a channel of another namespace, whatever *)
(* namespace the channel's reference names (handleReferencedObjects pins    *)
(* it) and whatever labelled objects the cluster-wide list of               *)
(* syncReferredObjAnnotationLabel returns.                                  *)
ServingAtHome == \A o \in Objects : \A c \in Marks(o) : AtHome(o, c)

(* An annotated object carries the serving-channel label, without which the *)
(* list of a later reconcile would not find it again, and the backup label. *)
ServingIsMarked ==
    \A o \in Objects : Marks(o) # {} => obj[o].label /\ obj[o].backup

(* The annotations behave like the abstract registry: however the reads and *)
(* writes of a reconcile interleave with other writers, fail, or are cut    *)
(* short by a restart, entries come and go one at a time, in their own      *)
(* namespace, and only who owns the object empties it.                      *)
Registry == INSTANCE ServingRegistry
              WITH serving <- [o \in Objects |-> Marks(o)], Home <- AtHome

RegistryImplemented == Registry!Spec

OwnEntryOnly ==
    \A o \in Objects : \A d \in Channels \ {w.key} :
        d \in Marks(o)' <=> d \in Marks(o)

(* A reconcile that writes back an object it read some calls before neither *)
(* loses nor revives the entry of any channel but its own                   *)
(* (syncReferredObjAnnotationLabel writes the whole objects it listed).     *)
KeepsOthersEntries == [][WorkerStep => OwnEntryOnly]_vars

SpecKept == \A c \in Channels :
    \/ chan'[c] = chan[c]
    \/ chan[c] # Absent /\ chan'[c] = [chan[c] EXCEPT !.spec.pathOk = TRUE]

(* The controller never undoes what a user did to a Channel: all it changes *)
(* in one is the pathname, and only in the very resource that is there      *)
(* (FixPathname writes the whole instance it read some steps before).       *)
KeepsUserSpec == [][WorkerStep => SpecKept]_vars

Advances(r, s) == r # Absent /\ s # Absent /\ r.owner # NoOwner
                     => \/ s.owner = r.owner
                        \/ /\ r.owner \in Nat /\ s.owner \in Nat
                           /\ r.owner < s.owner

OwnersKept == \A c \in Channels : /\ Advances(role[c], role'[c])
                                  /\ Advances(binding[c], binding'[c])

(* The controller of a Role or RoleBinding is replaced only by a later      *)
(* channel of the same name: one that something else controls is not taken  *)
(* over although setupRole and validateClusterRBAC write some calls after   *)
(* SetControllerReference looked, and a reconcile that goes on with an      *)
(* instance deleted since does not take a grant back from the successor.    *)
OwnersAdvance == [][OwnersKept]_vars

----------------------------------------------------------------------------
(* Liveness: what holds for good some time after users, failures and        *)
(* restarts have stopped.                                                   *)

InAcm(c) == mch = {NsOf[c]}

(* A Role or RoleBinding that is not as it should be and has a foreign      *)
(* controller, or a RoleBinding that somebody made for another Role, whose  *)
(* roleRef cannot be changed: every reconcile of the channel fails there.   *)
RoleBlocked(c) ==
    /\ ~InAcm(c) /\ role[c] # Absent
    /\ role[c].owner = Foreign /\ role[c].rules # RulesFor(chan[c].spec)

BindingBlocked(c) ==
    /\ clusterAPI /\ ~InAcm(c) /\ binding[c] # Absent
    /\ \/ ~binding[c].roleRef
       \/ binding[c].owner = Foreign /\ binding[c].subjects # clusters

Blocked(c) == RoleBlocked(c) \/ BindingBlocked(c)

Target(c, k) == [kind |-> k, ns |-> NsOf[c], name |-> chan[c].spec.ref[k].name]

Wants(c, k) == chan[c].spec.ref[k] # NoRef

Resolvable(c) ==
    \A k \in Kinds : Wants(c, k) =>
        Target(c, k) \in Objects /\ obj[Target(c, k)] # Absent

(* A channel has a Role with exactly the rules of its spec and a            *)
(* RoleBinding whose subjects are the clusters that are there, and one of   *)
(* type Namespace has the right pathname.                                   *)
AsSpecified(c) ==
    chan[c] # Absent =>
        /\ chan[c].spec.isNs => chan[c].spec.pathOk
        /\ ~InAcm(c) =>
             /\ ~RoleBlocked(c) =>
                  role[c] # Absent /\ role[c].rules = RulesFor(chan[c].spec)
             /\ clusterAPI /\ ~Blocked(c) =>
                  binding[c] # Absent /\ binding[c].subjects = clusters

GrantsAsSpecified == \A c \in Channels : AsSpecified(c)

(* Roles, RoleBindings and pathnames converge to what the Channels and the  *)
(* clusters call for, although no watch tells the controller of a cluster   *)
(* that joined or of a Role somebody edited.                                *)
GrantsConverge == <>quiet => <>[]GrantsAsSpecified

(* Every object a channel references, as far as all its references can be   *)
(* resolved, is annotated for the channel.                                  *)
ReferencesMarked ==
    \A c \in Channels : chan[c] # Absent /\ Resolvable(c) /\ ~Blocked(c)
       => \A k \in Kinds : Wants(c, k) => c \in Marks(Target(c, k))

(* The annotations converge to that, although a failing update of an object *)
(* is only logged.                                                          *)
MarksConverge == <>quiet => <>[]ReferencesMarked

NoMarkOfDeleted ==
    \A c \in Channels : chan[c] = Absent => \A o \in Objects : c \notin Marks(o)

(* As long as the controller does not restart, a deleted channel leaves no  *)
(* annotation behind, although nothing but the requeued key remembers it.   *)
DeletedForgotten == <>quiet => <>[]NoMarkOfDeleted

NoGrant(c) == role[c] = Absent /\ binding[c] = Absent

NothingGranted(c) == /\ role[c] # Absent => ~role[c].granted
                     /\ binding[c] # Absent => ~binding[c].granted

(* Nothing that the controller wrote outlives its channel, not even what it *)
(* wrote for an instance already deleted, in the time of a successor, or    *)
(* into a Role or RoleBinding that users made.  (One that users made as the *)
(* channel needs it is never written, gets no owner reference and stays.)   *)
OrphansCollected ==
    <>quiet => <>[](\A c \in Channels : chan[c] = Absent => NothingGranted(c))

(* A channel in the ACM namespace ends up without Role and RoleBinding,     *)
(* whatever was made for it before the MultiClusterHub was there; provided  *)
(* all its references can be resolved.                                      *)
AcmCleaned ==
    <>quiet => <>[](\A c \in Channels :
                       chan[c] # Absent /\ InAcm(c) /\ Resolvable(c) => NoGrant(c))

----------------------------------------------------------------------------
(* No way back.  Every channel is reconciled again a minute later, for      *)
(* ever, so what is right has to be left alone.                             *)

(* The grants of channel c are what its spec, the clusters and the ACM      *)
(* namespace call for, and none is waiting for the garbage collector.       *)
Settled(c) ==
    /\ ~Orphaned(c, role[c]) /\ ~Orphaned(c, binding[c])
    /\ AsSpecified(c)
    /\ chan[c] = Absent => NothingGranted(c)
    /\ chan[c] # Absent /\ InAcm(c) => NoGrant(c)

(* Grants that are settled, while the worker is at another channel, are     *)
(* settled for good: no later reconcile deletes, recreates or rewrites them *)
(* on its way, not even one that fails at a Role or RoleBinding it may not  *)
(* write.                                                                   *)
GrantsStay ==
    \A c \in Channels : [](quiet /\ w.key # c /\ Settled(c) => []Settled(c))

(* The annotation of object o lists channel c if and only if c references o.*)
MarkIsRight(c, o) ==
    c \in Marks(o) <=> /\ chan[c] # Absent
                       /\ Wants(c, o.kind) /\ Target(c, o.kind) = o

(* An entry that is right, while the worker is at another channel, is right *)
(* for good: no later reconcile drops and adds it again, and one that stops *)
(* half-way or runs into a conflict does not either.                        *)
MarksStay ==
    \A c \in Channels, o \in Objects :
       [](quiet /\ w.key # c /\ MarkIsRight(c, o) => []MarkIsRight(c, o))

----------------------------------------------------------------------------
(* What comments of the code say, without a proviso, and the code does not  *)
(* do.                                                                      *)

(* channel_types.go: "ServingChannel indicates the channel that the secrect *)
(* or configMap reference": an annotation lists only channels that do       *)
(* reference the object.                                                    *)
MarksMeanReferences ==
    <>quiet => <>[](\A c \in Channels : \A o \in Objects :
                       chan[c] # Absent /\ c \in Marks(o)
                          => Wants(c, o.kind) /\ Target(c, o.kind) = o)

(* cleanRoleFromAcmNS: "Clean up channel role/rolebinding if the channel is *)
(* located in the ACM system Namespace".                                    *)
AcmAlwaysCleaned ==
    <>quiet => <>[](\A c \in Channels : chan[c] # Absent /\ InAcm(c) => NoGrant(c))
=============================================================================
