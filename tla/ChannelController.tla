------------------------- MODULE ChannelController -------------------------
(* The channel reconciler (pkg/controller/channel/channel_controller.go)    *)
(* against the hub's API server.  One worker (MaxConcurrentReconciles is    *)
(* left at its default, 1) runs Reconcile for one channel key at a time;    *)
(* every call it makes to the API server is one step, and between two calls *)
(* the users of the hub, the garbage collector and a restart of the pod may *)
(* do anything.                                                             *)
(*                                                                          *)
(* The manager's client does not cache, so a read returns the current       *)
(* state.  An Update carries the resourceVersion of the copy that was read  *)
(* and is refused when the object was written since; instead of version     *)
(* numbers the model keeps, for the copies the worker holds, whether they   *)
(* are still the current version.                                           *)
EXTENDS Hub

CONSTANT MayRestart    \* whether the controller pod may restart

ASSUME RestartAssumption == MayRestart \in BOOLEAN

VARIABLES
    queue,      \* keys waiting in the work queue (or for their requeue timer)
    w,          \* the worker
    quiet       \* users, failures and restarts have stopped

vars == <<hub, queue, w, quiet>>

(* The worker's program counter names the API call it makes next.           *)
Calls == {"path", "mch", "role", "roleWrite", "clusters", "binding",
          "bindingWrite", "label", "labelWrite", "list", "sync",
          "roleClean", "roleDelete", "bindingClean", "bindingDelete"}

Worker == [pc : Calls \cup {"idle"},
           key : Channels \cup {Absent},
           inst : Channel \cup {Absent},        \* the instance it read
           acm : Namespaces \cup {NoNs},        \* mchNamespace
           kind : Kinds,                        \* srtGvk or cmGvk
           subjects : SUBSET Clusters,
           create : BOOLEAN,                    \* Create rather than Update
           current : BOOLEAN,                   \* nobody wrote since its read
           snap : [Objects -> Object \cup {Absent}],  \* copies still to write
           fresh : SUBSET Objects]              \* those nobody wrote since

Idle == [pc |-> "idle", key |-> Absent, inst |-> Absent, acm |-> NoNs,
         kind |-> "Secret", subjects |-> {}, create |-> FALSE,
         current |-> FALSE, snap |-> [o \in Objects |-> Absent],
         fresh |-> {}]

Init ==
    /\ HubInit
    /\ queue = {}
    /\ w = Idle
    /\ quiet = FALSE

----------------------------------------------------------------------------
(* Mutants: definitions below, with a bug the code could have had.          *)

OverwritesObjects(o) == TRUE          \* no resourceVersion in the update

OverwritesChannel == TRUE

StealsControl(owner) == TRUE          \* no check of the other controller

ForgetsOwner == NoOwner               \* no SetControllerReference

TrustsRefNamespace(k) == w.inst.spec.ref[k]

EmptyNameRules(s) ==                  \* ref.Name != "" forgotten
    [channels |-> TRUE,
     name |-> [k \in Kinds |->
                 IF s.ref[k] = NoRef THEN NoRef ELSE s.ref[k].name]]

NoBackup(old, marks) == [old EXCEPT !.serving = marks]

SecretsOnly(k) == {}                  \* ConfigMaps forgotten

NoCleanup(v) == Idle                  \* cleanRoleFromAcmNS forgotten

AlwaysCleans(v) == [v EXCEPT !.pc = "roleClean"]   \* in any namespace

Toggles(s, c, action) ==              \* an entry that is there is taken out
    IF action = "none" THEN s
    ELSE IF action = "remove" \/ c \in s THEN s \ {c} ELSE s \cup {c}

NoRequeue(v) == w' = v /\ queue' = queue

----------------------------------------------------------------------------
(* Helpers of the reconciler.                                               *)

(* The worker moves on to v; when v is Idle, Reconcile has returned.  Every *)
(* one of its return statements sets RequeueAfter or an error, so the key   *)
(* goes back to the queue whatever the outcome.                             *)
Goto(v) == /\ w' = v
           /\ queue' = IF v = Idle THEN queue \cup {w.key} ELSE queue

(* A reply to a write may be lost: the write took effect, the caller sees   *)
(* an error.                                                                *)
Replies == IF quiet THEN {TRUE} ELSE BOOLEAN

(* After a write took effect: go on with v, or return the error.            *)
GotoOrFail(v) == \E ok \in Replies : Goto(IF ok THEN v ELSE Idle)

(* The API server accepts an Update only of the current version ...         *)
UpdateAccepted == w.current

ObjectUpdateAccepted(o) == o \in w.fresh

(* ... and controllerutil.SetControllerReference refuses an object that has *)
(* another controller.  It tells controllers apart by group, kind and name, *)
(* so one left over from an earlier channel of the same name is adopted.    *)
MayControl(owner) == owner # Foreign

NewOwner == w.inst.uid

RulesFor(s) ==
    [channels |-> TRUE,
     name |-> [k \in Kinds |-> IF s.ref[k] = NoRef \/ s.ref[k].name = EmptyName
                               THEN NoRef ELSE s.ref[k].name]]

(* srtRef.Namespace = instance.GetNamespace(): in memory only.              *)
Pinned(k) == [w.inst.spec.ref[k] EXCEPT !.ns = NsOf[w.key]]

HasRef(k) == w.inst # Absent /\ w.inst.spec.ref[k] # NoRef

(* UpdateServingChannel on the set of keys that the annotation lists.       *)
UpdateServingChannel(s, c, action) ==
    CASE action = "add" -> s \cup {c}
      [] action = "remove" -> s \ {c}
      [] OTHER -> s

(* cleanRoleFromAcmNS returns at once outside the ACM namespace.            *)
AfterRefs(v) ==
    IF NsOf[w.key] = v.acm THEN [v EXCEPT !.pc = "roleClean"] ELSE Idle

(* Where worker state v goes with the references of kinds ks still to be    *)
(* handled: to the first of them (the Secret comes first), if any.          *)
AtRefs(v, ks) ==
    LET left == {k \in ks : HasRef(k)}
    IN  IF "Secret" \in left THEN [v EXCEPT !.pc = "label", !.kind = "Secret"]
        ELSE IF "ConfigMap" \in left
        THEN [v EXCEPT !.pc = "label", !.kind = "ConfigMap"]
        ELSE AfterRefs(v)

KindsAfter(k) == IF k = "Secret" THEN {"ConfigMap"} ELSE {}

----------------------------------------------------------------------------
(* Reconcile.                                                               *)

(* A key is taken from the queue and the instance is read.  Not found: the  *)
(* channel is removed from the annotations.  (A failing read only puts the  *)
(* key back: a stuttering step.)                                            *)
Start(c) ==
    /\ w.pc = "idle"
    /\ c \in queue
    /\ queue' = queue \ {c}
    /\ w' = [Idle EXCEPT
               !.key = c, !.inst = chan[c], !.current = TRUE,
               !.pc = IF chan[c] = Absent THEN "list"
                      ELSE IF chan[c].spec.isNs /\ ~chan[c].spec.pathOk
                           THEN "path" ELSE "mch"]
    /\ UNCHANGED <<hub, quiet>>

(* A call fails, and Reconcile returns its error.  (FindMultiClusterHubNS,  *)
(* the per-object updates and the reads of cleanRoleFromAcmNS treat errors  *)
(* differently: see there.)                                                 *)
CallFails ==
    /\ ~quiet
    /\ w.pc \in Calls \ {"mch", "sync", "roleClean", "bindingClean"}
    /\ Goto(Idle)
    /\ UNCHANGED <<hub, quiet>>

(* instance.Spec.Pathname = instance.GetNamespace(); Update; return.        *)
FixPathname ==
    /\ w.pc = "path"
    /\ IF UpdateAccepted
       THEN chan' = [chan EXCEPT ![w.key] =
                                   [w.inst EXCEPT !.spec.pathOk = TRUE]]
       ELSE UNCHANGED chan
    /\ Goto(Idle)
    /\ UNCHANGED <<nextUid, obj, rbac, fleet, quiet>>

(* mchNamespace is the namespace of the only MultiClusterHub; "" when there *)
(* is none, more than one, or the list fails.  validateClusterRBAC then     *)
(* skips a channel in that namespace.                                       *)
FindMultiClusterHubNS ==
    /\ w.pc = "mch"
    /\ \E ns \in Namespaces \cup {NoNs} :
          /\ \/ mch = {ns}
             \/ ns = NoNs /\ (~quiet \/ \A n \in mch : mch # {n})
          /\ LET v == [w EXCEPT !.acm = ns]
             IN  Goto(IF NsOf[w.key] = ns THEN AtRefs(v, Kinds)
                      ELSE [v EXCEPT !.pc = "role"])
    /\ UNCHANGED <<hub, quiet>>

(* setupRole: read the Role; create it when there is none, update it when   *)
(* its rules are not the wanted ones.                                       *)
GetRole ==
    /\ w.pc = "role"
    /\ LET r == role[w.key]
       IN  Goto(IF r = Absent
                THEN [w EXCEPT !.pc = "roleWrite", !.create = TRUE]
                ELSE IF r.rules = RulesFor(w.inst.spec)
                THEN [w EXCEPT !.pc = "clusters"]
                ELSE IF MayControl(r.owner)
                THEN [w EXCEPT !.pc = "roleWrite", !.create = FALSE,
                               !.current = TRUE]
                ELSE Idle)
    /\ UNCHANGED <<hub, quiet>>

WriteRole ==
    /\ w.pc = "roleWrite"
    /\ IF IF w.create THEN role[w.key] = Absent ELSE UpdateAccepted
       THEN /\ role' = [role EXCEPT ![w.key] =
                          [rules |-> RulesFor(w.inst.spec),
                           owner |-> NewOwner, granted |-> TRUE]]
            /\ GotoOrFail([w EXCEPT !.pc = "clusters"])
       ELSE UNCHANGED role /\ Goto(Idle)
    /\ UNCHANGED <<chan, nextUid, obj, binding, fleet, quiet>>

(* List the ManagedClusters; without their CRD the rest of the RBAC         *)
(* validation is skipped.                                                   *)
ListClusters ==
    /\ w.pc = "clusters"
    /\ Goto(IF clusterAPI
            THEN [w EXCEPT !.pc = "binding", !.subjects = clusters]
            ELSE AtRefs(w, Kinds))
    /\ UNCHANGED <<hub, quiet>>

GetRoleBinding ==
    /\ w.pc = "binding"
    /\ LET b == binding[w.key]
       IN  Goto(IF b = Absent
                THEN [w EXCEPT !.pc = "bindingWrite", !.create = TRUE]
                ELSE IF b.subjects = w.subjects /\ b.roleRef
                THEN AtRefs(w, Kinds)
                ELSE IF MayControl(b.owner)
                THEN [w EXCEPT !.pc = "bindingWrite", !.create = FALSE,
                               !.current = TRUE]
                ELSE Idle)
    /\ UNCHANGED <<hub, quiet>>

(* The API server refuses to change the roleRef of a RoleBinding.           *)
WriteRoleBinding ==
    /\ w.pc = "bindingWrite"
    /\ IF IF w.create THEN binding[w.key] = Absent
          ELSE UpdateAccepted /\ binding[w.key].roleRef
       THEN /\ binding' = [binding EXCEPT ![w.key] =
                             [subjects |-> w.subjects, roleRef |-> TRUE,
                              owner |-> NewOwner, granted |-> TRUE]]
            /\ GotoOrFail(AtRefs(w, Kinds))
       ELSE UNCHANGED binding /\ Goto(Idle)
    /\ UNCHANGED <<chan, nextUid, obj, role, fleet, quiet>>

----------------------------------------------------------------------------
(* handleReferencedObjects.                                                 *)

(* updatedReferencedObjectLabels: the referenced object is read (an empty   *)
(* name is an error, and so is an object that does not exist) and written   *)
(* back with the serving-channel label.                                     *)
GetReferencedObject ==
    /\ w.pc = "label"
    /\ LET o == [kind |-> w.kind, ns |-> Pinned(w.kind).ns,
                 name |-> Pinned(w.kind).name]
       IN  Goto(IF o \in Objects /\ obj[o] # Absent
                THEN [w EXCEPT !.pc = "labelWrite", !.snap[o] = obj[o],
                               !.fresh = {o}]
                ELSE Idle)
    /\ UNCHANGED <<hub, quiet>>

LabelReferencedObject ==
    /\ w.pc = "labelWrite"
    /\ \E o \in Objects :
          /\ w.snap[o] # Absent
          /\ IF ObjectUpdateAccepted(o)
             THEN /\ obj' = [obj EXCEPT ![o] =
                                          [w.snap[o] EXCEPT !.label = TRUE]]
                  /\ GotoOrFail([w EXCEPT !.pc = "list", !.snap[o] = Absent,
                                          !.fresh = {}])
             ELSE UNCHANGED obj /\ Goto(Idle)
    /\ UNCHANGED <<chan, nextUid, rbac, fleet, quiet>>

(* syncReferredObjAnnotationLabel: list the labelled objects of the kind,   *)
(* in all namespaces ...                                                    *)
ListLabelled ==
    /\ w.pc = "list"
    /\ LET S == {o \in Objects :
                   o.kind = w.kind /\ obj[o] # Absent /\ obj[o].label}
       IN  Goto([w EXCEPT !.pc = "sync", !.fresh = S,
                          !.snap = [o \in Objects |->
                                      IF o \in S THEN obj[o] ELSE Absent]])
    /\ UNCHANGED <<hub, quiet>>

(* What happens to the annotation of a listed object.                       *)
Action(o) ==
    IF HasRef(w.kind) /\ Pinned(w.kind).name # EmptyName
    THEN IF o.name = Pinned(w.kind).name /\ o.ns = Pinned(w.kind).ns
         THEN "add" ELSE "none"
    ELSE "remove"

Synced(old, marks) == [old EXCEPT !.backup = TRUE, !.serving = marks]

(* ... and write each back; a failing update is logged and passed over.     *)
SyncObject(o) ==
    /\ w.pc = "sync"
    /\ w.snap[o] # Absent
    /\ \/ /\ ObjectUpdateAccepted(o)
          /\ obj' = [obj EXCEPT ![o] =
                Synced(w.snap[o], UpdateServingChannel(w.snap[o].serving,
                                                       w.key, Action(o)))]
       \/ /\ ~quiet \/ ~ObjectUpdateAccepted(o)
          /\ UNCHANGED obj
    /\ Goto([w EXCEPT !.snap[o] = Absent, !.fresh = @ \ {o}])
    /\ UNCHANGED <<chan, nextUid, rbac, fleet, quiet>>

(* All listed objects are done.  For a deleted channel the ConfigMaps       *)
(* follow the Secrets; otherwise the next reference, if any, follows.       *)
SyncDone ==
    /\ w.pc = "sync"
    /\ \A o \in Objects : w.snap[o] = Absent
    /\ Goto(IF w.inst # Absent THEN AtRefs(w, KindsAfter(w.kind))
            ELSE IF "ConfigMap" \in KindsAfter(w.kind)
            THEN [w EXCEPT !.pc = "list", !.kind = "ConfigMap"]
            ELSE Idle)
    /\ UNCHANGED <<hub, quiet>>

----------------------------------------------------------------------------
(* cleanRoleFromAcmNS: the Role and then the RoleBinding are read; one that *)
(* cannot be read is left alone, one that is there is deleted by name.      *)

GetRoleToClean ==
    /\ w.pc = "roleClean"
    /\ \/ role[w.key] # Absent /\ Goto([w EXCEPT !.pc = "roleDelete"])
       \/ /\ role[w.key] = Absent \/ ~quiet
          /\ Goto([w EXCEPT !.pc = "bindingClean"])
    /\ UNCHANGED <<hub, quiet>>

DeleteRole ==
    /\ w.pc = "roleDelete"
    /\ IF role[w.key] = Absent
       THEN UNCHANGED role /\ Goto(Idle)
       ELSE /\ role' = [role EXCEPT ![w.key] = Absent]
            /\ GotoOrFail([w EXCEPT !.pc = "bindingClean"])
    /\ UNCHANGED <<chan, nextUid, obj, binding, fleet, quiet>>

GetBindingToClean ==
    /\ w.pc = "bindingClean"
    /\ \/ binding[w.key] # Absent /\ Goto([w EXCEPT !.pc = "bindingDelete"])
       \/ (binding[w.key] = Absent \/ ~quiet) /\ Goto(Idle)
    /\ UNCHANGED <<hub, quiet>>

DeleteRoleBinding ==
    /\ w.pc = "bindingDelete"
    /\ binding' = [binding EXCEPT ![w.key] = Absent]
    /\ Goto(Idle)
    /\ UNCHANGED <<chan, nextUid, obj, role, fleet, quiet>>

----------------------------------------------------------------------------
(* Everybody else.  A write by somebody else outdates the copy the worker   *)
(* holds of the same resource; the watch on Channels feeds the queue.       *)

Outdated(c, pc) == IF w.key = c /\ w.pc = pc
                   THEN [w EXCEPT !.current = FALSE] ELSE w

UserWritesChannel(c) ==
    /\ ~quiet
    /\ WriteChannel(c)
    /\ queue' = queue \cup {c}
    /\ w' = Outdated(c, "path")
    /\ UNCHANGED quiet

UserWritesObject(o) ==
    /\ ~quiet
    /\ WriteObject(o)
    /\ w' = [w EXCEPT !.fresh = @ \ {o}]
    /\ UNCHANGED <<queue, quiet>>

UserWritesRBAC(c) ==
    /\ ~quiet
    /\ \/ EditRole(c) /\ w' = Outdated(c, "roleWrite")
       \/ EditBinding(c) /\ w' = Outdated(c, "bindingWrite")
    /\ UNCHANGED <<queue, quiet>>

FleetChanges ==
    /\ ~quiet
    /\ ChangeFleet
    /\ UNCHANGED <<queue, w, quiet>>

RoleCollected(c) ==
    /\ CollectRole(c)
    /\ w' = Outdated(c, "roleWrite")
    /\ UNCHANGED <<queue, quiet>>

BindingCollected(c) ==
    /\ CollectBinding(c)
    /\ w' = Outdated(c, "bindingWrite")
    /\ UNCHANGED <<queue, quiet>>

(* The pod restarts (a crash, a lost leader lease, or DetectClusterRegistry *)
(* exiting once the cluster API is there): the worker and the queue are     *)
(* gone, and the new informer enqueues the channels that exist.             *)
Restart ==
    /\ MayRestart /\ ~quiet
    /\ w' = Idle
    /\ queue' = {c \in Channels : chan[c] # Absent}
    /\ UNCHANGED <<hub, quiet>>

(* From here on nothing but the controller and the garbage collector moves. *)
Stabilise ==
    /\ ~quiet
    /\ quiet' = TRUE
    /\ UNCHANGED <<hub, queue, w>>

----------------------------------------------------------------------------
WorkerStep ==
    \/ CallFails \/ FixPathname \/ FindMultiClusterHubNS
    \/ GetRole \/ WriteRole \/ ListClusters
    \/ GetRoleBinding \/ WriteRoleBinding
    \/ GetReferencedObject \/ LabelReferencedObject \/ ListLabelled
    \/ \E o \in Objects : SyncObject(o)
    \/ SyncDone
    \/ GetRoleToClean \/ DeleteRole \/ GetBindingToClean \/ DeleteRoleBinding

Collector == \E c \in Channels : RoleCollected(c) \/ BindingCollected(c)

Environment ==
    \/ \E c \in Channels : UserWritesChannel(c)
    \/ \E o \in UserObjects : UserWritesObject(o)
    \/ \E c \in UserRBAC : UserWritesRBAC(c)
    \/ FleetChanges
    \/ Restart
    \/ Stabilise

Next == \/ \E c \in Channels : Start(c)
        \/ WorkerStep
        \/ Collector
        \/ Environment

Spec == Init /\ [][Next]_vars

(* The goroutine of the worker runs, the work queue is first-in first-out   *)
(* and every timer of a requeued key fires (so no key is passed over for    *)
(* ever), and the garbage collector gets to every orphan.                   *)
Fairness ==
    /\ WF_vars(WorkerStep)
    /\ \A c \in Channels : /\ SF_vars(Start(c))
                           /\ WF_vars(RoleCollected(c))
                           /\ WF_vars(BindingCollected(c))

FairSpec == Spec /\ Fairness

=============================================================================
