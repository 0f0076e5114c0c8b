------------------------ MODULE ChannelGrantsProofs ------------------------
(* Proofs about what the controller writes over: a Channel keeps what its   *)
(* user wrote, a Role or RoleBinding keeps its controller or gets a later   *)
(* channel of its name, and grants that are as they should be are left      *)
(* alone.                                                                   *)
EXTENDS ChannelProofs

(* The copy the worker is about to write over, as long as nobody wrote it   *)
(* since: the instance is the stored Channel, and the Role or RoleBinding   *)
(* that passed SetControllerReference still would.                          *)
Ours(r) == r # Absent /\ MayControl(r.owner)

CopyInv ==
    /\ w.pc = "path" /\ w.current => chan[w.key] = w.inst
    /\ w.pc = "roleWrite" /\ ~w.create /\ w.current => Ours(role[w.key])
    /\ w.pc = "bindingWrite" /\ ~w.create /\ w.current => Ours(binding[w.key])

(* Uids grow: no Role or RoleBinding has a controller that is later than    *)
(* the channel of its name or than the instance the worker holds of it, and *)
(* the instance is no later than the stored channel.                        *)
Earlier(r, c) ==
    r # Absent /\ r.owner \in Nat =>
       /\ r.owner < nextUid
       /\ chan[c] # Absent => r.owner <= chan[c].uid
       /\ w.key = c /\ w.inst # Absent => r.owner <= w.inst.uid

UidInv ==
    /\ \A c \in Channels : /\ chan[c] # Absent => chan[c].uid < nextUid
                           /\ Earlier(role[c], c) /\ Earlier(binding[c], c)
    /\ w.inst # Absent => /\ w.key \in Channels /\ w.inst.uid < nextUid
                          /\ chan[w.key] # Absent
                                => w.inst.uid <= chan[w.key].uid

Elsewhere(v) == v.pc \notin {"path", "roleWrite", "bindingWrite"}

----------------------------------------------------------------------------
LEMMA CopyInit == Init => CopyInv
  BY DEF Init, Idle, CopyInv

LEMMA CopyElsewhere ==
  ASSUME Elsewhere(w') PROVE CopyInv'
  BY DEF Elsewhere, CopyInv

LEMMA ElsewhereIdle == Elsewhere(Idle)
  BY DEF Elsewhere, Idle

LEMMA ElsewhereAtRefs ==
  ASSUME NEW v \in Worker, NEW ks PROVE Elsewhere(AtRefs(v, ks))
  BY AtRefsType, ElsewhereIdle DEF Elsewhere

LEMMA GotoElsewhere ==
  ASSUME NEW v, Elsewhere(v), Goto(v) \/ GotoOrFail(v) PROVE Elsewhere(w')
  BY ElsewhereIdle DEF Goto, GotoOrFail

LEMMA SameGrants ==
  ASSUME role' = role, binding' = binding PROVE OwnersKept
  BY DEF OwnersKept, Advances

LEMMA SameChannels == ASSUME chan' = chan PROVE SpecKept
  BY DEF SpecKept

(* The worker's steps that write neither.                                   *)
LEMMA CopyReads ==
  ASSUME TypeInv, CopyInv,
         \/ CallFails \/ FindMultiClusterHubNS \/ GetRole \/ ListClusters
         \/ GetRoleBinding \/ GetReferencedObject \/ LabelReferencedObject
         \/ ListLabelled \/ (\E o \in Objects : SyncObject(o)) \/ SyncDone
         \/ GetRoleToClean \/ GetBindingToClean
  PROVE  CopyInv' /\ chan' = chan /\ role' = role /\ binding' = binding
  <1>0. w \in Worker
    BY DEF TypeInv, TypeOK
  <1>1. chan' = chan /\ role' = role /\ binding' = binding
    BY DEF CallFails, FindMultiClusterHubNS, GetRole, ListClusters,
           GetRoleBinding, GetReferencedObject, LabelReferencedObject,
           ListLabelled, SyncObject, SyncDone, GetRoleToClean,
           GetBindingToClean, hub, rbac
  <1> SUFFICES CopyInv'
    BY <1>1
  <1>2. CASE CallFails
    BY <1>2, ElsewhereIdle, GotoElsewhere, CopyElsewhere DEF CallFails
  <1>3. CASE FindMultiClusterHubNS
    <2>1. PICK ns \in Namespaces \cup {NoNs} :
            Goto(IF NsOf[w.key] = ns THEN AtRefs([w EXCEPT !.acm = ns], Kinds)
                 ELSE [[w EXCEPT !.acm = ns] EXCEPT !.pc = "role"])
      BY <1>3 DEF FindMultiClusterHubNS
    <2> DEFINE v == [w EXCEPT !.acm = ns]
               u == [v EXCEPT !.pc = "role"]
    <2>2. v \in Worker /\ Elsewhere(u)
      BY <1>0 DEF Worker, Elsewhere
    <2> HIDE DEF v, u
    <2>3. Goto(AtRefs(v, Kinds)) \/ Goto(u)
      BY <2>1 DEF v, u
    <2> QED BY <2>2, <2>3, ElsewhereAtRefs, GotoElsewhere, CopyElsewhere
  <1>4. CASE GetRole
    <2> DEFINE u1 == [w EXCEPT !.pc = "roleWrite", !.create = TRUE]
               u2 == [w EXCEPT !.pc = "clusters"]
               u3 == [w EXCEPT !.pc = "roleWrite", !.create = FALSE,
                               !.current = TRUE]
    <2>1. \/ w' = u1 \/ w' = u2 \/ w' = Idle
          \/ w' = u3 /\ role[w.key] # Absent /\ MayControl(role[w.key].owner)
      BY <1>4 DEF GetRole, Goto
    <2>2. CASE w' = u1
      BY <1>0, <2>2 DEF CopyInv, Worker
    <2>3. CASE w' = u2 \/ w' = Idle
      BY <1>0, <2>3 DEF CopyInv, Worker, Idle
    <2>4. CASE w' = u3 /\ role[w.key] # Absent /\ MayControl(role[w.key].owner)
      <3>1. w'.pc = "roleWrite" /\ w'.key = w.key /\ w'.inst = w.inst
        BY <1>0, <2>4 DEF Worker
      <3> QED BY <1>1, <2>4, <3>1 DEF CopyInv, Ours, MayControl
    <2> QED BY <2>1, <2>2, <2>3, <2>4
  <1>5. CASE ListClusters
    <2>1. Elsewhere([w EXCEPT !.pc = "binding", !.subjects = clusters])
      BY <1>0 DEF Worker, Elsewhere
    <2> QED BY <1>0, <1>5, <2>1, ElsewhereAtRefs, GotoElsewhere, CopyElsewhere
            DEF ListClusters
  <1>6. CASE GetRoleBinding
    <2> DEFINE u1 == [w EXCEPT !.pc = "bindingWrite", !.create = TRUE]
               u3 == [w EXCEPT !.pc = "bindingWrite", !.create = FALSE,
                               !.current = TRUE]
    <2>1. \/ w' = u1 \/ Goto(AtRefs(w, Kinds)) \/ Goto(Idle)
          \/ w' = u3 /\ binding[w.key] # Absent /\ MayControl(binding[w.key].owner)
      BY <1>6 DEF GetRoleBinding, Goto
    <2>2. CASE w' = u1
      BY <1>0, <2>2 DEF CopyInv, Worker
    <2>3. CASE Goto(AtRefs(w, Kinds)) \/ Goto(Idle)
      BY <1>0, <2>3, ElsewhereAtRefs, ElsewhereIdle, GotoElsewhere, CopyElsewhere
    <2>4. CASE w' = u3 /\ binding[w.key] # Absent /\ MayControl(binding[w.key].owner)
      <3>1. w'.pc = "bindingWrite" /\ w'.key = w.key /\ w'.inst = w.inst
        BY <1>0, <2>4 DEF Worker
      <3> QED BY <1>1, <2>4, <3>1 DEF CopyInv, Ours, MayControl
    <2> QED BY <2>1, <2>2, <2>3, <2>4
  <1>7. CASE GetReferencedObject
    <2>1. \A t : Elsewhere([w EXCEPT !.pc = "labelWrite", !.snap[t] = obj[t],
                                     !.fresh = {t}])
      BY <1>0 DEF Worker, Elsewhere
    <2>2. Elsewhere(w')
      BY <1>7, <2>1, ElsewhereIdle DEF GetReferencedObject, Goto
    <2> QED BY <2>2, CopyElsewhere
  <1>8. CASE LabelReferencedObject
    <2>1. \A t : Elsewhere([w EXCEPT !.pc = "list", !.snap[t] = Absent,
                                     !.fresh = {}])
      BY <1>0 DEF Worker, Elsewhere
    <2>2. Elsewhere(w')
      BY <1>8, <2>1, ElsewhereIdle DEF LabelReferencedObject, GotoOrFail, Goto
    <2> QED BY <2>2, CopyElsewhere
  <1>9. CASE ListLabelled
    <2>1. w'.pc = "sync"
      BY <1>0, <1>9 DEF ListLabelled, Goto, Worker
    <2> QED BY <2>1 DEF CopyInv
  <1>10. CASE \E o \in Objects : SyncObject(o)
    <2>1. w'.pc = "sync"
      BY <1>0, <1>10 DEF SyncObject, Goto, Worker
    <2> QED BY <2>1 DEF CopyInv
  <1>11. CASE SyncDone
    <2>1. Elsewhere([w EXCEPT !.pc = "list", !.kind = "ConfigMap"])
      BY <1>0 DEF Worker, Elsewhere
    <2> QED BY <1>0, <1>11, <2>1, ElsewhereAtRefs, ElsewhereIdle,
               GotoElsewhere, CopyElsewhere DEF SyncDone
  <1>12. CASE GetRoleToClean \/ GetBindingToClean
    <2> DEFINE u1 == [w EXCEPT !.pc = "roleDelete"]
               u2 == [w EXCEPT !.pc = "bindingClean"]
               u3 == [w EXCEPT !.pc = "bindingDelete"]
    <2>1. Elsewhere(u1) /\ Elsewhere(u2) /\ Elsewhere(u3)
      BY <1>0 DEF Worker, Elsewhere
    <2>2. Goto(u1) \/ Goto(u2) \/ Goto(u3) \/ Goto(Idle)
      BY <1>12 DEF GetRoleToClean, GetBindingToClean
    <2> HIDE DEF u1, u2, u3
    <2> QED BY <2>1, <2>2, ElsewhereIdle, GotoElsewhere, CopyElsewhere
  <1> QED
    BY <1>2, <1>3, <1>4, <1>5, <1>6, <1>7, <1>8, <1>9, <1>10, <1>11, <1>12

(* The worker's writes: each replaces a version it has read, and the one it *)
(* replaces is nobody's or that of a channel no later than the instance.    *)
LEMMA CopyWrites ==
  ASSUME TypeInv, CopyInv, UidInv,
         \/ FixPathname \/ WriteRole \/ WriteRoleBinding
         \/ DeleteRole \/ DeleteRoleBinding
  PROVE  CopyInv' /\ SpecKept /\ OwnersKept
  <1>0. w \in Worker /\ WorkerSound /\ HubTypeOK
    BY DEF TypeInv, TypeOK
  <1>1. CASE FixPathname
    <2>1. CopyInv'
      BY <1>1, ElsewhereIdle, GotoElsewhere, CopyElsewhere DEF FixPathname
    <2>2. w.key \in Channels /\ w.inst # Absent
      BY <1>0, <1>1 DEF FixPathname, WorkerSound
    <2>3. \/ chan' = chan
          \/ /\ chan[w.key] = w.inst
             /\ chan' = [chan EXCEPT ![w.key] = [chan[w.key] EXCEPT !.spec.pathOk = TRUE]]
      BY <1>1 DEF FixPathname, UpdateAccepted, CopyInv
    <2>4. SpecKept
      BY <1>0, <2>2, <2>3 DEF SpecKept, HubTypeOK
    <2> QED BY <1>1, <2>1, <2>4, SameGrants DEF FixPathname, rbac
  <1>2. CASE WriteRole
    <2> DEFINE u == [w EXCEPT !.pc = "clusters"]
               x == [rules |-> RulesFor(w.inst.spec), owner |-> NewOwner,
                     granted |-> TRUE]
    <2>1. Elsewhere(u)
      BY <1>0 DEF Worker, Elsewhere
    <2>2. CopyInv'
      BY <1>2, <2>1, ElsewhereIdle, GotoElsewhere, CopyElsewhere DEF WriteRole
    <2>3. w.key \in Channels /\ w.inst # Absent /\ w.inst.uid \in Nat
      BY <1>0, <1>2 DEF WriteRole, WorkerSound, Worker, Channel
    <2>4. \/ role' = role
          \/ /\ role[w.key] = Absent \/ Ours(role[w.key])
             /\ role' = [role EXCEPT ![w.key] = x]
      BY <1>2 DEF WriteRole, UpdateAccepted, CopyInv
    <2>5. x.owner = w.inst.uid
      BY DEF NewOwner
    <2> HIDE DEF x
    <2>6. \A c \in Channels : Advances(role[c], role'[c])
      <3>0. Ours(role[w.key]) => role[w.key].owner \in Nat \cup {NoOwner}
        BY <1>0, <2>3 DEF Ours, MayControl, HubTypeOK, Role, Owners
      <3>1. Ours(role[w.key]) => Advances(role[w.key], x)
        BY <2>3, <2>5, <3>0 DEF Ours, Advances, UidInv, Earlier
      <3> QED BY <1>0, <2>3, <2>4, <3>1 DEF Advances, HubTypeOK
    <2>7. chan' = chan /\ binding' = binding
      BY <1>2 DEF WriteRole
    <2> QED BY <2>2, <2>6, <2>7, SameChannels DEF OwnersKept, Advances
  <1>3. CASE WriteRoleBinding
    <2> DEFINE x == [subjects |-> w.subjects, roleRef |-> TRUE,
                     owner |-> NewOwner, granted |-> TRUE]
    <2>2. CopyInv'
      BY <1>0, <1>3, ElsewhereAtRefs, ElsewhereIdle, GotoElsewhere,
         CopyElsewhere DEF WriteRoleBinding
    <2>3. w.key \in Channels /\ w.inst # Absent /\ w.inst.uid \in Nat
      BY <1>0, <1>3 DEF WriteRoleBinding, WorkerSound, Worker, Channel
    <2>4. \/ binding' = binding
          \/ /\ binding[w.key] = Absent \/ Ours(binding[w.key])
             /\ binding' = [binding EXCEPT ![w.key] = x]
      BY <1>3 DEF WriteRoleBinding, UpdateAccepted, CopyInv
    <2>5. x.owner = w.inst.uid
      BY DEF NewOwner
    <2> HIDE DEF x
    <2>6. \A c \in Channels : Advances(binding[c], binding'[c])
      <3>0. Ours(binding[w.key]) => binding[w.key].owner \in Nat \cup {NoOwner}
        BY <1>0, <2>3 DEF Ours, MayControl, HubTypeOK, Binding, Owners
      <3>1. Ours(binding[w.key]) => Advances(binding[w.key], x)
        BY <2>3, <2>5, <3>0 DEF Ours, Advances, UidInv, Earlier
      <3> QED BY <1>0, <2>3, <2>4, <3>1 DEF Advances, HubTypeOK
    <2>7. chan' = chan /\ role' = role
      BY <1>3 DEF WriteRoleBinding
    <2> QED BY <2>2, <2>6, <2>7, SameChannels DEF OwnersKept, Advances
  <1>4. CASE DeleteRole
    <2>1. Elsewhere([w EXCEPT !.pc = "bindingClean"])
      BY <1>0 DEF Worker, Elsewhere
    <2>2. CopyInv'
      BY <1>4, <2>1, ElsewhereIdle, GotoElsewhere, CopyElsewhere DEF DeleteRole
    <2>3. \A c \in Channels : role'[c] \in {role[c], Absent}
      BY <1>0, <1>4 DEF DeleteRole, HubTypeOK
    <2> QED BY <1>4, <2>2, <2>3, SameChannels DEF DeleteRole, OwnersKept, Advances
  <1>5. CASE DeleteRoleBinding
    <2>2. CopyInv'
      BY <1>5, ElsewhereIdle, GotoElsewhere, CopyElsewhere DEF DeleteRoleBinding
    <2>3. \A c \in Channels : binding'[c] \in {binding[c], Absent}
      BY <1>0, <1>5 DEF DeleteRoleBinding, HubTypeOK
    <2> QED BY <1>5, <2>2, <2>3, SameChannels
            DEF DeleteRoleBinding, OwnersKept, Advances
  <1> QED BY <1>1, <1>2, <1>3, <1>4, <1>5

(* A write by somebody else to the resource the worker holds is noticed.    *)
LEMMA CopyOutdated ==
  ASSUME TypeInv, CopyInv, NEW c \in Channels,
         NEW p \in {"path", "roleWrite", "bindingWrite"}, w' = Outdated(c, p),
         \A d \in Channels \ {c} : /\ chan'[d] = chan[d] /\ role'[d] = role[d]
                                   /\ binding'[d] = binding[d],
         p # "path" => chan' = chan,
         p # "roleWrite" => role' = role,
         p # "bindingWrite" => binding' = binding
  PROVE  CopyInv'
  <1>0. w \in Worker /\ (w.pc # "idle" => w.key \in Channels)
    BY DEF TypeInv, TypeOK, WorkerSound
  <1>1. CASE w.key = c /\ w.pc = p
    <2>1. w'.pc = p /\ w'.current = FALSE
      BY <1>0, <1>1 DEF Outdated, Worker
    <2> QED BY <2>1 DEF CopyInv
  <1>2. CASE ~(w.key = c /\ w.pc = p)
    <2>1. w' = w
      BY <1>2 DEF Outdated
    <2> QED BY <1>0, <1>2, <2>1 DEF CopyInv, Ours, MayControl
  <1> QED BY <1>1, <1>2

(* Taking a key reads the instance, so it is the stored one.                *)
LEMMA CopyStart ==
  ASSUME TypeInv, NEW c \in Channels, Start(c)
  PROVE  CopyInv' /\ chan' = chan /\ role' = role /\ binding' = binding
  <1>1. Idle \in Worker
    BY IdleType
  <1>2. /\ w'.key = c /\ w'.inst = chan[c]
        /\ w'.pc \in {"list", "path", "mch"}
    BY <1>1 DEF Start, Worker
  <1>3. chan' = chan /\ role' = role /\ binding' = binding
    BY DEF Start, hub, rbac
  <1> QED BY <1>2, <1>3 DEF CopyInv

(* The garbage collector deletes Roles and RoleBindings.                    *)
LEMMA CopyCollector ==
  ASSUME TypeInv, CopyInv, Collector
  PROVE  CopyInv' /\ OwnersKept
  <1>0. HubTypeOK
    BY DEF TypeInv, TypeOK
  <1>1. PICK c \in Channels : RoleCollected(c) \/ BindingCollected(c)
    BY DEF Collector
  <1>2. CASE RoleCollected(c)
    <2>1. /\ chan' = chan /\ binding' = binding /\ w' = Outdated(c, "roleWrite")
          /\ role' = [role EXCEPT ![c] = Absent]
      BY <1>2 DEF RoleCollected, CollectRole
    <2>2. \A d \in Channels \ {c} : role'[d] = role[d]
      BY <1>0, <2>1 DEF HubTypeOK
    <2>3. CopyInv'
      BY <2>1, <2>2, CopyOutdated
    <2>4. \A d \in Channels : role'[d] \in {role[d], Absent}
      BY <1>0, <2>1 DEF HubTypeOK
    <2> QED BY <2>1, <2>3, <2>4 DEF OwnersKept, Advances
  <1>3. CASE BindingCollected(c)
    <2>1. /\ chan' = chan /\ role' = role /\ w' = Outdated(c, "bindingWrite")
          /\ binding' = [binding EXCEPT ![c] = Absent]
      BY <1>3 DEF BindingCollected, CollectBinding
    <2>2. \A d \in Channels \ {c} : binding'[d] = binding[d]
      BY <1>0, <2>1 DEF HubTypeOK
    <2>3. CopyInv'
      BY <2>1, <2>2, CopyOutdated
    <2>4. \A d \in Channels : binding'[d] \in {binding[d], Absent}
      BY <1>0, <2>1 DEF HubTypeOK
    <2> QED BY <2>1, <2>3, <2>4 DEF OwnersKept, Advances
  <1> QED BY <1>1, <1>2, <1>3

(* Users who edit a Role or RoleBinding keep its owner references.          *)
LEMMA CopyUserRBAC ==
  ASSUME TypeInv, CopyInv, NEW c \in UserRBAC, UserWritesRBAC(c)
  PROVE  CopyInv' /\ OwnersKept
  <1>0. HubTypeOK /\ c \in Channels
    BY ConstantsAssumption DEF TypeInv, TypeOK
  <1>1. CASE EditRole(c) /\ w' = Outdated(c, "roleWrite")
    <2>1. chan' = chan /\ binding' = binding
      BY <1>1 DEF EditRole
    <2>2. \/ role'[c] = Absent \/ role[c] = Absent
          \/ role[c] # Absent /\ role'[c].owner = role[c].owner
      BY <1>0, <1>1 DEF EditRole, HubTypeOK, Role
    <2>3. \A d \in Channels \ {c} : role'[d] = role[d]
      BY <1>0, <1>1 DEF EditRole, HubTypeOK
    <2>4. CopyInv'
      BY <1>0, <1>1, <2>1, <2>3, CopyOutdated
    <2>5. Advances(role[c], role'[c])
      BY <2>2 DEF Advances
    <2> QED BY <2>1, <2>3, <2>4, <2>5 DEF OwnersKept, Advances
  <1>2. CASE EditBinding(c) /\ w' = Outdated(c, "bindingWrite")
    <2>1. chan' = chan /\ role' = role
      BY <1>2 DEF EditBinding
    <2>2. \/ binding'[c] = Absent \/ binding[c] = Absent
          \/ binding[c] # Absent /\ binding'[c].owner = binding[c].owner
      BY <1>0, <1>2 DEF EditBinding, HubTypeOK, Binding
    <2>3. \A d \in Channels \ {c} : binding'[d] = binding[d]
      BY <1>0, <1>2 DEF EditBinding, HubTypeOK
    <2>4. CopyInv'
      BY <1>0, <1>2, <2>1, <2>3, CopyOutdated
    <2>5. Advances(binding[c], binding'[c])
      BY <2>2 DEF Advances
    <2> QED BY <2>1, <2>3, <2>4, <2>5 DEF OwnersKept, Advances
  <1> QED BY <1>1, <1>2 DEF UserWritesRBAC

LEMMA CopyUserChannel ==
  ASSUME TypeInv, CopyInv, NEW c \in Channels, UserWritesChannel(c)
  PROVE  CopyInv' /\ role' = role /\ binding' = binding
  <1>1. role' = role /\ binding' = binding /\ w' = Outdated(c, "path")
    BY DEF UserWritesChannel, WriteChannel, CreateChannel, UpdateChannel,
           DeleteChannel, rbac
  <1>2. \A d \in Channels \ {c} : chan'[d] = chan[d]
    BY DEF UserWritesChannel, WriteChannel, CreateChannel, UpdateChannel,
           DeleteChannel, TypeInv, TypeOK, HubTypeOK
  <1> QED BY <1>1, <1>2, CopyOutdated

(* Nobody else writes what the worker holds a copy of.                      *)
LEMMA CopyOthers ==
  ASSUME TypeInv, CopyInv,
         \/ \E o \in UserObjects : UserWritesObject(o)
         \/ FleetChanges \/ Restart \/ Stabilise
  PROVE  CopyInv' /\ role' = role /\ binding' = binding
  <1>1. chan' = chan /\ role' = role /\ binding' = binding
    BY DEF UserWritesObject, WriteObject, FleetChanges, ChangeFleet, Restart,
           Stabilise, hub, rbac
  <1>2. CASE Restart
    BY <1>1, <1>2, ElsewhereIdle, CopyElsewhere DEF Restart
  <1>3. CASE \E o \in UserObjects : UserWritesObject(o)
    <2>1. /\ w'.pc = w.pc /\ w'.key = w.key /\ w'.inst = w.inst
          /\ w'.create = w.create /\ w'.current = w.current
      BY <1>3 DEF UserWritesObject, TypeInv, TypeOK, Worker
    <2> QED BY <1>1, <2>1 DEF CopyInv, Ours, MayControl
  <1>4. CASE FleetChanges \/ Stabilise
    <2>1. w' = w
      BY <1>4 DEF FleetChanges, Stabilise
    <2> QED BY <1>1, <2>1 DEF CopyInv, Ours, MayControl
  <1> QED BY <1>1, <1>2, <1>3, <1>4

----------------------------------------------------------------------------
LEMMA CopyStep ==
  ASSUME TypeInv, CopyInv, UidInv, [Next]_vars
  PROVE  CopyInv' /\ (WorkerStep => SpecKept) /\ OwnersKept
  <1>1. CASE WorkerStep
    BY <1>1, CopyReads, CopyWrites, SameGrants, SameChannels DEF WorkerStep
  <1>2. CASE \E c \in Channels : Start(c)
    BY <1>2, CopyStart, SameGrants, SameChannels
  <1>3. CASE Collector /\ ~WorkerStep
    BY <1>3, CopyCollector
  <1>4. CASE Environment /\ ~WorkerStep
    BY <1>4, CopyUserChannel, CopyUserRBAC, CopyOthers, SameGrants
       DEF Environment
  <1>5. CASE UNCHANGED vars
    <2>1. chan' = chan /\ role' = role /\ binding' = binding /\ w' = w
      BY <1>5 DEF vars, hub, rbac
    <2> QED BY <2>1, SameGrants, SameChannels DEF CopyInv, Ours, MayControl
  <1> QED BY <1>1, <1>2, <1>3, <1>4, <1>5 DEF Next

----------------------------------------------------------------------------
(* What a step may do to the controller of a grant: leave it, remove it, or *)
(* set it to the instance in the worker's hands.                            *)
Passes(r, s, c) ==
    \/ s = Absent \/ s.owner \notin Nat
    \/ r # Absent /\ s.owner = r.owner
    \/ c = w.key /\ w.inst # Absent /\ s.owner = w.inst.uid

GrantsPass == \A c \in Channels : /\ Passes(role[c], role'[c], c)
                                  /\ Passes(binding[c], binding'[c], c)

SameGrantsPass(c) == role'[c] = role[c] /\ binding'[c] = binding[c]

LEMMA SamePass ==
  ASSUME NEW c, SameGrantsPass(c)
  PROVE  Passes(role[c], role'[c], c) /\ Passes(binding[c], binding'[c], c)
  BY DEF SameGrantsPass, Passes

LEMMA WorkerPasses == ASSUME TypeInv, WorkerStep PROVE GrantsPass
  <1>0. w \in Worker /\ WorkerSound /\ HubTypeOK
    BY DEF TypeInv, TypeOK
  <1>1. CASE role' = role /\ binding' = binding
    BY <1>1 DEF GrantsPass, Passes
  <1>2. CASE WriteRole
    <2>1. binding' = binding /\ w.key \in Channels /\ w.inst # Absent
      BY <1>0, <1>2 DEF WriteRole, WorkerSound
    <2>2. \/ role' = role
          \/ /\ role'[w.key].owner = w.inst.uid
             /\ \A c \in Channels \ {w.key} : role'[c] = role[c]
      BY <1>0, <1>2, <2>1 DEF WriteRole, HubTypeOK, NewOwner
    <2> QED BY <2>1, <2>2 DEF GrantsPass, Passes
  <1>3. CASE WriteRoleBinding
    <2>1. role' = role /\ w.key \in Channels /\ w.inst # Absent
      BY <1>0, <1>3 DEF WriteRoleBinding, WorkerSound
    <2>2. \/ binding' = binding
          \/ /\ binding'[w.key].owner = w.inst.uid
             /\ \A c \in Channels \ {w.key} : binding'[c] = binding[c]
      BY <1>0, <1>3, <2>1 DEF WriteRoleBinding, HubTypeOK, NewOwner
    <2> QED BY <2>1, <2>2 DEF GrantsPass, Passes
  <1>4. CASE DeleteRole \/ DeleteRoleBinding
    <2>1. \A c \in Channels : /\ role'[c] \in {role[c], Absent}
                              /\ binding'[c] \in {binding[c], Absent}
      BY <1>0, <1>4 DEF DeleteRole, DeleteRoleBinding, HubTypeOK
    <2> QED BY <2>1 DEF GrantsPass, Passes
  <1> QED BY <1>1, <1>2, <1>3, <1>4
          DEF WorkerStep, CallFails, FixPathname, FindMultiClusterHubNS,
              GetRole, ListClusters, GetRoleBinding, GetReferencedObject,
              LabelReferencedObject, ListLabelled, SyncObject, SyncDone,
              GetRoleToClean, GetBindingToClean, hub, rbac

(* Steps that create no channel and read none.                              *)
LEMMA UidKept ==
  ASSUME TypeInv, TypeInv', UidInv, GrantsPass, nextUid' = nextUid,
         \A c \in Channels : \/ chan'[c] = Absent
                             \/ chan[c] # Absent /\ chan'[c].uid = chan[c].uid,
         w'.inst = Absent \/ (w'.inst = w.inst /\ w'.key = w.key)
  PROVE  UidInv'
  <1>1. /\ \A c \in Channels : chan[c] # Absent => chan[c].uid \in Nat
        /\ w.inst # Absent => w.inst.uid \in Nat
        /\ nextUid \in Nat
    BY DEF TypeInv, TypeOK, HubTypeOK, Channel, Worker
  <1>2. ASSUME NEW c \in Channels
        PROVE  /\ (chan[c] # Absent => chan[c].uid < nextUid)'
               /\ Earlier(role[c], c)' /\ Earlier(binding[c], c)'
    <2>1. Earlier(role[c], c)'
      BY <1>1, <1>2 DEF UidInv, Earlier, GrantsPass, Passes
    <2>2. Earlier(binding[c], c)'
      BY <1>1, <1>2 DEF UidInv, Earlier, GrantsPass, Passes
    <2> QED BY <2>1, <2>2 DEF UidInv
  <1>3. (w.inst # Absent => /\ w.key \in Channels /\ w.inst.uid < nextUid
                            /\ chan[w.key] # Absent
                                  => w.inst.uid <= chan[w.key].uid)'
    BY <1>1 DEF UidInv
  <1> QED BY <1>2, <1>3 DEF UidInv

LEMMA UidInit == Init => UidInv
  BY DEF Init, HubInit, Idle, UidInv, Earlier

(* A new channel is later than everything.                                  *)
LEMMA UidUserChannel ==
  ASSUME TypeInv, TypeInv', UidInv, NEW c \in Channels, UserWritesChannel(c)
  PROVE  UidInv'
  <1>0. HubTypeOK /\ w \in Worker
    BY DEF TypeInv, TypeOK
  <1>1. role' = role /\ binding' = binding
    BY DEF UserWritesChannel, WriteChannel, CreateChannel, UpdateChannel,
           DeleteChannel, rbac
  <1>2. w'.inst = w.inst /\ w'.key = w.key
    BY <1>0 DEF UserWritesChannel, Outdated, Worker
  <1>3. CASE \E s \in Specs : CreateChannel(c, s)
    <2>1. /\ nextUid' = nextUid + 1 /\ chan'[c] # Absent
          /\ chan'[c].uid = nextUid
          /\ \A d \in Channels \ {c} : chan'[d] = chan[d]
      <3>1. PICK s \in Specs : CreateChannel(c, s)
        BY <1>3
      <3>2. [uid |-> nextUid, spec |-> s] # Absent
        BY <1>0, ConstantsAssumption, SentinelsAssumption
           DEF Channel, HubTypeOK
      <3> QED BY <1>0, <3>1, <3>2 DEF CreateChannel, HubTypeOK
    <2>2. /\ nextUid \in Nat /\ (w.inst # Absent => w.inst.uid \in Nat)
          /\ \A d \in Channels : chan[d] # Absent => chan[d].uid \in Nat
      BY <1>0 DEF HubTypeOK, Worker, Channel
    <2>3. ASSUME NEW d \in Channels
          PROVE  /\ (chan[d] # Absent => chan[d].uid < nextUid)'
                 /\ Earlier(role[d], d)' /\ Earlier(binding[d], d)'
      BY <1>1, <1>2, <2>1, <2>2 DEF UidInv, Earlier
    <2>4. (w.inst # Absent => /\ w.key \in Channels /\ w.inst.uid < nextUid
                              /\ chan[w.key] # Absent
                                    => w.inst.uid <= chan[w.key].uid)'
      BY <1>2, <2>1, <2>2 DEF UidInv
    <2> QED BY <2>3, <2>4 DEF UidInv
  <1>4. CASE DeleteChannel(c) \/ \E s \in Specs : UpdateChannel(c, s)
    <2>1. /\ nextUid' = nextUid
          /\ \A d \in Channels : \/ chan'[d] = Absent
                                 \/ /\ chan[d] # Absent
                                    /\ chan'[d].uid = chan[d].uid
      BY <1>0, <1>4 DEF DeleteChannel, UpdateChannel, HubTypeOK, Channel
    <2>2. GrantsPass
      BY <1>1 DEF GrantsPass, Passes
    <2> QED BY <1>2, <2>1, <2>2, UidKept
  <1> QED BY <1>3, <1>4 DEF UserWritesChannel, WriteChannel

(* The worker reads the stored channel.                                     *)
LEMMA UidStart ==
  ASSUME TypeInv, UidInv, NEW c \in Channels, Start(c) PROVE UidInv'
  <1>1. chan' = chan /\ role' = role /\ binding' = binding /\ nextUid' = nextUid
    BY DEF Start, hub, rbac
  <1>2. w'.key = c /\ w'.inst = chan[c]
    BY IdleType DEF Start, Worker
  <1>3. chan[c] # Absent => chan[c].uid \in Nat
    BY DEF TypeInv, TypeOK, HubTypeOK, Channel
  <1> QED BY <1>1, <1>2, <1>3 DEF UidInv, Earlier

LEMMA UidStep ==
  ASSUME TypeInv, TypeInv', CopyInv, UidInv, [Next]_vars PROVE UidInv'
  <1>0. HubTypeOK /\ w \in Worker
    BY DEF TypeInv, TypeOK
  <1>1. CASE WorkerStep
    <2>1. \A c \in Channels :
             \/ chan'[c] = Absent
             \/ chan[c] # Absent /\ chan'[c].uid = chan[c].uid
      <3>1. SpecKept
        BY <1>1, CopyStep
      <3> QED BY <1>0, <3>1 DEF SpecKept, HubTypeOK, Channel
    <2>2. nextUid' = nextUid
      BY <1>1 DEF WorkerStep, CallFails, FixPathname,
                  FindMultiClusterHubNS, GetRole, WriteRole, ListClusters,
                  GetRoleBinding, WriteRoleBinding, GetReferencedObject,
                  LabelReferencedObject, ListLabelled, SyncObject, SyncDone,
                  GetRoleToClean, DeleteRole, GetBindingToClean,
                  DeleteRoleBinding, hub
    <2>3. w'.inst = Absent \/ (w'.inst = w.inst /\ w'.key = w.key)
      BY <1>0, <1>1, WorkerKeeps DEF SameJob, Idle
    <2> QED BY <1>1, <2>1, <2>2, <2>3, WorkerPasses, UidKept
  <1>2. CASE Collector
    <2>1. PICK c \in Channels : RoleCollected(c) \/ BindingCollected(c)
      BY <1>2 DEF Collector
    <2>2. chan' = chan /\ nextUid' = nextUid /\ w'.inst = w.inst /\ w'.key = w.key
      BY <1>0, <2>1 DEF RoleCollected, BindingCollected, CollectRole,
                        CollectBinding, Outdated, Worker
    <2>3. \A d \in Channels : /\ role'[d] \in {role[d], Absent}
                              /\ binding'[d] \in {binding[d], Absent}
      BY <1>0, <2>1 DEF RoleCollected, BindingCollected, CollectRole,
                        CollectBinding, HubTypeOK
    <2>4. GrantsPass
      BY <2>3 DEF GrantsPass, Passes
    <2> QED BY <2>2, <2>4, UidKept
  <1>3. ASSUME NEW c \in UserRBAC, UserWritesRBAC(c) PROVE UidInv'
    <2>1. chan' = chan /\ nextUid' = nextUid /\ w'.inst = w.inst /\ w'.key = w.key
      BY <1>0, <1>3 DEF UserWritesRBAC, EditRole, EditBinding, Outdated, Worker
    <2>2. c \in Channels
      BY ConstantsAssumption
    <2>3. \A d \in Channels \ {c} : SameGrantsPass(d)
      BY <1>0, <1>3 DEF UserWritesRBAC, EditRole, EditBinding, HubTypeOK,
                        SameGrantsPass
    <2>4. NotOurs \cap Nat = {}
      BY SentinelsAssumption DEF NotOurs
    <2>5. Passes(role[c], role'[c], c)
      BY <1>0, <1>3, <2>2, <2>4
         DEF UserWritesRBAC, EditRole, EditBinding, HubTypeOK, Role, Passes
    <2>6. Passes(binding[c], binding'[c], c)
      BY <1>0, <1>3, <2>2, <2>4
         DEF UserWritesRBAC, EditRole, EditBinding, HubTypeOK, Binding, Passes
    <2>7. GrantsPass
      BY <2>3, <2>5, <2>6, SamePass DEF GrantsPass
    <2> QED BY <2>1, <2>7, UidKept
  <1>4. CASE \/ \E o \in UserObjects : UserWritesObject(o)
             \/ FleetChanges \/ Restart \/ Stabilise \/ UNCHANGED vars
    <2>1. UNCHANGED <<chan, nextUid, role, binding>>
      BY <1>4 DEF UserWritesObject, WriteObject, FleetChanges, ChangeFleet,
                  Restart, Stabilise, vars, hub, rbac
    <2>2. w'.inst = Absent \/ (w'.inst = w.inst /\ w'.key = w.key)
      BY <1>0, <1>4 DEF UserWritesObject, FleetChanges, Restart, Stabilise,
                        vars, Worker, Idle
    <2>3. GrantsPass
      BY <2>1 DEF GrantsPass, Passes
    <2> QED BY <2>1, <2>2, <2>3, UidKept
  <1> QED BY <1>1, <1>2, <1>3, <1>4, UidStart, UidUserChannel
          DEF Next, Environment

LEMMA CopyInvariance == Spec => [](TypeInv /\ CopyInv /\ UidInv)
  <1>1. TypeInv /\ CopyInv /\ UidInv /\ [Next]_vars => CopyInv'
    BY CopyStep
  <1>2. TypeInv /\ TypeInv' /\ CopyInv /\ UidInv /\ [Next]_vars => UidInv'
    BY UidStep
  <1> QED BY <1>1, <1>2, CopyInit, UidInit, TypeInvariance, PTL DEF Spec

(* The controller changes nothing of a Channel but its pathname, although   *)
(* FixPathname writes back an instance that was read before: the update is  *)
(* accepted only if that instance is still the stored one.                  *)
THEOREM UserSpecKept == Spec => KeepsUserSpec
  <1>1. TypeInv /\ CopyInv /\ UidInv /\ [Next]_vars
           => [WorkerStep => SpecKept]_vars
    BY CopyStep
  <1> QED BY <1>1, CopyInvariance, PTL DEF Spec, KeepsUserSpec

(* The controller of a Role or RoleBinding is only ever replaced by a later *)
(* channel of the same name.  SetControllerReference checks the copy the    *)
(* worker read, the update is refused when that copy is old, and the        *)
(* instance whose uid it writes is no earlier than the owner it replaces.   *)
THEOREM OwnersOnlyAdvance == Spec => OwnersAdvance
  <1>1. TypeInv /\ CopyInv /\ UidInv /\ [Next]_vars => [OwnersKept]_vars
    BY CopyStep
  <1> QED BY <1>1, CopyInvariance, PTL DEF Spec, OwnersAdvance
----------------------------------------------------------------------------
(* Settled grants stay.  While channel c is reconciled, the worker holds    *)
(* the stored instance and is only at calls that leave such grants alone;   *)
(* it comes to the write of a RoleBinding only to be refused.               *)
OnRefs == {"label", "labelWrite", "list", "sync"}

Harmless(v, c) ==
    /\ v.inst = chan[c]
    /\ chan[c] = Absent => v.pc \in {"list", "sync"}
    /\ chan[c] # Absent /\ InAcm(c) =>
          v.pc \in OnRefs \cup {"mch", "roleClean", "bindingClean"}
    /\ chan[c] # Absent /\ ~InAcm(c) =>
          /\ v.pc \in OnRefs \cup {"mch", "role", "clusters", "binding",
                                   "bindingWrite"}
          /\ v.pc # "mch" => v.acm # NsOf[c]
          /\ v.pc = "binding" => clusterAPI /\ v.subjects = clusters
          /\ v.pc \in {"clusters", "binding", "bindingWrite"} => ~RoleBlocked(c)
          /\ v.pc = "bindingWrite" => /\ binding[c] # Absent /\ ~v.create
                                      /\ ~binding[c].roleRef

SettledInv(c) == quiet /\ Settled(c) /\ (w.key = c => Harmless(w, c))

(* What the settledness of channel c depends on.                            *)
SameFor(c) == /\ chan'[c] = chan[c] /\ role'[c] = role[c]
              /\ binding'[c] = binding[c]
              /\ UNCHANGED <<clusters, clusterAPI, mch, quiet>>

LEMMA SettledSame ==
  ASSUME NEW c \in Channels, SettledInv(c), SameFor(c),
         w'.key # c \/ Harmless(w', c)
  PROVE  SettledInv(c)'
  <1>1. Settled(c)'
    BY DEF SettledInv, SameFor, Settled, Orphaned, AsSpecified, InAcm, Blocked,
           RoleBlocked, BindingBlocked, NothingGranted, NoGrant, RulesFor
  <1>2. Harmless(w', c) => Harmless(w, c)'
    BY DEF SameFor, Harmless, InAcm, RoleBlocked, RulesFor, OnRefs
  <1> QED BY <1>1, <1>2 DEF SettledInv, SameFor

(* A step of the worker to v, or back to the queue.                         *)
LEMMA SettledGoto ==
  ASSUME NEW c \in Channels, SettledInv(c), SameFor(c), NEW v,
         Goto(v) \/ GotoOrFail(v) \/ Goto(Idle),
         v = Idle \/ v.key # c \/ Harmless(v, c)
  PROVE  SettledInv(c)'
  <1>1. w' = v \/ w' = Idle
    BY DEF Goto, GotoOrFail
  <1> QED BY <1>1, IdleKey, SettledSame

(* After the references there is nothing left, but in the ACM namespace.    *)
LEMMA AtRefsAcm ==
  ASSUME NEW v \in Worker, NEW ks, AtRefs(v, ks) # Idle
  PROVE  /\ AtRefs(v, ks).acm = v.acm
         /\ AtRefs(v, ks).pc = "roleClean" => NsOf[w.key] = v.acm
  <1> DEFINE S == [v EXCEPT !.pc = "label", !.kind = "Secret"]
             M == [v EXCEPT !.pc = "label", !.kind = "ConfigMap"]
             R == [v EXCEPT !.pc = "roleClean"]
             A == AtRefs(v, ks)
  <1>1. A = S \/ A = M \/ (A = R /\ NsOf[w.key] = v.acm)
    BY Zenon DEF AtRefs, AfterRefs
  <1>2. /\ S.pc = "label" /\ S.acm = v.acm /\ M.pc = "label" /\ M.acm = v.acm
        /\ R.pc = "roleClean" /\ R.acm = v.acm
    BY DEF Worker
  <1> HIDE DEF S, M, R
  <1> QED BY <1>1, <1>2

LEMMA HarmlessAtRefs ==
  ASSUME NEW c \in Channels, w.key = c, NEW v \in Worker, NEW ks,
         v.inst = chan[c], chan[c] # Absent, InAcm(c) \/ v.acm # NsOf[c]
  PROVE  AtRefs(v, ks) = Idle \/ Harmless(AtRefs(v, ks), c)
  <1> DEFINE A == AtRefs(v, ks)
  <1>1. A = Idle \/ (A.pc \in {"label", "roleClean"} /\ A.inst = v.inst)
    BY AtRefsType
  <1>2. A = Idle \/ (A.acm = v.acm /\ (A.pc = "roleClean" => NsOf[c] = v.acm))
    BY AtRefsAcm
  <1> HIDE DEF A
  <1>3. A = Idle \/ Harmless(A, c)
    BY <1>1, <1>2 DEF Harmless, OnRefs
  <1> QED BY <1>3 DEF A

(* The reads and the writes of objects, for channel c itself.               *)
LEMMA SettledReads ==
  ASSUME NEW c \in Channels, TypeInv, SettledInv(c), w.key = c,
         \/ FindMultiClusterHubNS \/ GetRole \/ ListClusters \/ GetRoleBinding
         \/ GetReferencedObject \/ LabelReferencedObject \/ ListLabelled
         \/ (\E o \in Objects : SyncObject(o)) \/ SyncDone
         \/ GetRoleToClean \/ GetBindingToClean
  PROVE  SettledInv(c)'
  <1>0. /\ w \in Worker /\ Harmless(w, c) /\ Settled(c) /\ quiet /\ HubTypeOK
        /\ WorkerSound
    BY DEF SettledInv, TypeInv, TypeOK
  <1>1. SameFor(c)
    BY DEF SameFor, FindMultiClusterHubNS, GetRole, ListClusters,
           GetRoleBinding, GetReferencedObject, LabelReferencedObject,
           ListLabelled, SyncObject, SyncDone, GetRoleToClean,
           GetBindingToClean, hub, rbac, fleet
  <1>2. CASE FindMultiClusterHubNS
    <2>1. PICK ns \in Namespaces \cup {NoNs} :
            /\ mch = {ns} \/ (ns = NoNs /\ \A n \in mch : mch # {n})
            /\ Goto(IF NsOf[w.key] = ns THEN AtRefs([w EXCEPT !.acm = ns], Kinds)
                    ELSE [[w EXCEPT !.acm = ns] EXCEPT !.pc = "role"])
      BY <1>0, <1>2 DEF FindMultiClusterHubNS
    <2> DEFINE v == [w EXCEPT !.acm = ns]
               u == [v EXCEPT !.pc = "role"]
    <2>2. NsOf[c] \in Namespaces /\ NsOf[c] # NoNs
      BY ConstantsAssumption, SentinelsAssumption
    <2>3. InAcm(c) <=> NsOf[c] = ns
      BY <2>1, <2>2 DEF InAcm
    <2>4. chan[c] # Absent /\ w.inst = chan[c]
      BY <1>0, <1>2 DEF FindMultiClusterHubNS, Harmless
    <2>5. /\ v \in Worker /\ v.inst = chan[c] /\ v.acm = ns
          /\ u.pc = "role" /\ u.inst = chan[c] /\ u.acm = ns
      BY <1>0, <2>4 DEF Worker
    <2> HIDE DEF v, u
    <2>6. \/ InAcm(c) /\ Goto(AtRefs(v, Kinds))
          \/ ~InAcm(c) /\ Goto(u)
      BY <2>1, <2>3 DEF v, u
    <2>7. ~InAcm(c) => Harmless(u, c)
      BY <2>3, <2>4, <2>5 DEF Harmless
    <2>8. InAcm(c) => AtRefs(v, Kinds) = Idle \/ Harmless(AtRefs(v, Kinds), c)
      BY <2>4, <2>5, HarmlessAtRefs
    <2> QED BY <1>1, <2>6, <2>7, <2>8, SettledGoto
  <1>3. CASE GetRole
    <2>1. chan[c] # Absent /\ ~InAcm(c) /\ w.pc = "role"
      BY <1>0, <1>3 DEF GetRole, Harmless, OnRefs
    <2>2. /\ role[c] # Absent
          /\ ~RoleBlocked(c) => role[c].rules = RulesFor(w.inst.spec)
          /\ RoleBlocked(c) => /\ role[c].rules # RulesFor(w.inst.spec)
                               /\ ~MayControl(role[c].owner)
      BY <1>0, <2>1 DEF Settled, AsSpecified, Harmless, RoleBlocked, MayControl
    <2> DEFINE u == [w EXCEPT !.pc = "clusters"]
    <2>3. (~RoleBlocked(c) /\ Goto(u)) \/ Goto(Idle)
      BY <1>3, <2>2 DEF GetRole
    <2>4. u.pc = "clusters" /\ u.inst = w.inst /\ u.acm = w.acm
      BY <1>0 DEF Worker
    <2> HIDE DEF u
    <2>5. ~RoleBlocked(c) => Harmless(u, c)
      BY <1>0, <2>1, <2>4 DEF Harmless
    <2> QED BY <1>1, <2>3, <2>5, SettledGoto
  <1>4. CASE ListClusters
    <2>1. chan[c] # Absent /\ ~InAcm(c) /\ w.pc = "clusters" /\ w.acm # NsOf[c]
          /\ w.inst = chan[c] /\ ~RoleBlocked(c)
      BY <1>0, <1>4 DEF ListClusters, Harmless, OnRefs
    <2> DEFINE u == [w EXCEPT !.pc = "binding", !.subjects = clusters]
    <2>2. (clusterAPI /\ Goto(u)) \/ Goto(AtRefs(w, Kinds))
      BY <1>4 DEF ListClusters
    <2>3. /\ u.pc = "binding" /\ u.inst = w.inst /\ u.acm = w.acm
          /\ u.subjects = clusters
      BY <1>0 DEF Worker
    <2> HIDE DEF u
    <2>4. clusterAPI => Harmless(u, c)
      BY <2>1, <2>3 DEF Harmless
    <2>5. AtRefs(w, Kinds) = Idle \/ Harmless(AtRefs(w, Kinds), c)
      BY <1>0, <2>1, HarmlessAtRefs
    <2> QED BY <1>1, <2>2, <2>4, <2>5, SettledGoto
  <1>5. CASE GetRoleBinding
    <2>1. /\ chan[c] # Absent /\ ~InAcm(c) /\ w.pc = "binding"
          /\ w.acm # NsOf[c] /\ w.inst = chan[c]
          /\ clusterAPI /\ w.subjects = clusters /\ ~RoleBlocked(c)
      BY <1>0, <1>5 DEF GetRoleBinding, Harmless, OnRefs
    <2>2. /\ binding[c] # Absent
          /\ binding[c].roleRef => \/ binding[c].subjects = w.subjects
                                  \/ ~MayControl(binding[c].owner)
      BY <1>0, <2>1
         DEF Settled, AsSpecified, Blocked, BindingBlocked, MayControl
    <2> DEFINE u == [w EXCEPT !.pc = "bindingWrite", !.create = FALSE,
                              !.current = TRUE]
    <2>3. \/ ~binding[c].roleRef /\ Goto(u)
          \/ Goto(AtRefs(w, Kinds)) \/ Goto(Idle)
      BY <1>5, <2>2 DEF GetRoleBinding
    <2>4. /\ u.pc = "bindingWrite" /\ u.inst = w.inst /\ u.acm = w.acm
          /\ ~u.create
      BY <1>0 DEF Worker
    <2> HIDE DEF u
    <2>5. ~binding[c].roleRef => Harmless(u, c)
      BY <2>1, <2>2, <2>4 DEF Harmless
    <2>6. AtRefs(w, Kinds) = Idle \/ Harmless(AtRefs(w, Kinds), c)
      BY <1>0, <2>1, HarmlessAtRefs
    <2> QED BY <1>1, <2>3, <2>5, <2>6, SettledGoto
  <1>6. ASSUME NEW pc \in {"labelWrite", "list", "sync"}, NEW v,
               v.pc = pc, v.inst = w.inst, v.acm = w.acm,
               w.pc \in OnRefs, pc = "labelWrite" => w.pc = "label",
               Goto(v) \/ GotoOrFail(v) \/ Goto(Idle)
        PROVE  SettledInv(c)'
    <2>1. Harmless(v, c)
      BY <1>0, <1>6 DEF Harmless, OnRefs
    <2> QED BY <1>1, <1>6, <2>1, SettledGoto
  <1>7. CASE GetReferencedObject
    <2>1. PICK t : Goto([w EXCEPT !.pc = "labelWrite", !.snap[t] = obj[t],
                                  !.fresh = {t}]) \/ Goto(Idle)
      BY <1>7 DEF GetReferencedObject
    <2> DEFINE v == [w EXCEPT !.pc = "labelWrite", !.snap[t] = obj[t],
                              !.fresh = {t}]
    <2>2. v.pc = "labelWrite" /\ v.inst = w.inst /\ v.acm = w.acm
      BY <1>0 DEF Worker
    <2>3. w.pc = "label"
      BY <1>7 DEF GetReferencedObject
    <2> HIDE DEF v
    <2>4. Goto(v) \/ Goto(Idle)
      BY <2>1 DEF v
    <2> QED BY <1>6, <2>2, <2>3, <2>4 DEF OnRefs
  <1>8. CASE LabelReferencedObject
    <2>1. PICK t : GotoOrFail([w EXCEPT !.pc = "list", !.snap[t] = Absent,
                                        !.fresh = {}]) \/ Goto(Idle)
      BY <1>8 DEF LabelReferencedObject
    <2> DEFINE v == [w EXCEPT !.pc = "list", !.snap[t] = Absent, !.fresh = {}]
    <2>2. v.pc = "list" /\ v.inst = w.inst /\ v.acm = w.acm
      BY <1>0 DEF Worker
    <2>3. w.pc = "labelWrite"
      BY <1>8 DEF LabelReferencedObject
    <2> HIDE DEF v
    <2>4. GotoOrFail(v) \/ Goto(Idle)
      BY <2>1 DEF v
    <2> QED BY <1>6, <2>2, <2>3, <2>4 DEF OnRefs
  <1>9. CASE ListLabelled \/ \E o \in Objects : SyncObject(o)
    <2>1. /\ w'.pc = "sync" /\ w'.inst = w.inst /\ w'.acm = w.acm
          /\ w.pc \in {"list", "sync"} /\ w'.key = w.key
      BY <1>0, <1>9 DEF ListLabelled, SyncObject, Goto, Worker
    <2>2. Harmless(w', c)
      BY <1>0, <2>1 DEF Harmless, OnRefs
    <2> QED BY <1>1, <2>2, SettledSame
  <1>10. CASE SyncDone
    <2> DEFINE u == [w EXCEPT !.pc = "list", !.kind = "ConfigMap"]
    <2>1. \/ w.inst # Absent /\ Goto(AtRefs(w, KindsAfter(w.kind)))
          \/ Goto(u) \/ Goto(Idle)
      BY <1>10 DEF SyncDone
    <2>2. u.pc = "list" /\ u.inst = w.inst /\ u.acm = w.acm /\ w.pc = "sync"
      BY <1>0, <1>10 DEF SyncDone, Worker
    <2> HIDE DEF u
    <2>3. CASE w.inst # Absent /\ Goto(AtRefs(w, KindsAfter(w.kind)))
      <3>1. InAcm(c) \/ w.acm # NsOf[c]
        BY <1>0, <2>2, <2>3 DEF Harmless
      <3>2. AtRefs(w, KindsAfter(w.kind)) = Idle
            \/ Harmless(AtRefs(w, KindsAfter(w.kind)), c)
        BY <1>0, <2>3, <3>1, HarmlessAtRefs DEF Harmless
      <3> QED BY <1>1, <2>3, <3>2, SettledGoto
    <2>4. CASE Goto(u) \/ Goto(Idle)
      BY <1>6, <2>2, <2>4 DEF OnRefs
    <2> QED BY <2>1, <2>3, <2>4
  <1>11. CASE GetRoleToClean \/ GetBindingToClean
    <2>1. chan[c] # Absent /\ InAcm(c) /\ w.inst = chan[c]
      BY <1>0, <1>11 DEF GetRoleToClean, GetBindingToClean, Harmless, OnRefs
    <2>2. role[c] = Absent /\ binding[c] = Absent
      BY <1>0, <2>1 DEF Settled, NoGrant
    <2> DEFINE u == [w EXCEPT !.pc = "bindingClean"]
    <2>3. Goto(u) \/ Goto(Idle)
      BY <1>11, <2>2 DEF GetRoleToClean, GetBindingToClean
    <2>4. u.pc = "bindingClean" /\ u.inst = w.inst
      BY <1>0 DEF Worker
    <2> HIDE DEF u
    <2>5. Harmless(u, c)
      BY <2>1, <2>4 DEF Harmless, OnRefs
    <2> QED BY <1>1, <2>3, <2>5, SettledGoto
  <1> QED BY <1>2, <1>3, <1>4, <1>5, <1>7, <1>8, <1>9, <1>10, <1>11

(* Steps for channel c that could write a grant or the Channel: the only    *)
(* one that a harmless worker comes to is refused.                          *)
LEMMA SettledWrites ==
  ASSUME NEW c \in Channels, TypeInv, SettledInv(c), w.key = c,
         \/ CallFails \/ FixPathname \/ WriteRole \/ WriteRoleBinding
         \/ DeleteRole \/ DeleteRoleBinding
  PROVE  SettledInv(c)'
  <1>0. Harmless(w, c) /\ quiet
    BY DEF SettledInv
  <1>1. WriteRoleBinding /\ w.pc = "bindingWrite"
    BY <1>0 DEF Harmless, OnRefs, CallFails, FixPathname, WriteRole,
                WriteRoleBinding, DeleteRole, DeleteRoleBinding
  <1>2. ~w.create /\ ~binding[c].roleRef
    BY <1>0, <1>1 DEF Harmless, OnRefs
  <1>3. binding' = binding /\ Goto(Idle)
    BY <1>1, <1>2 DEF WriteRoleBinding
  <1>4. SameFor(c)
    BY <1>1, <1>3 DEF SameFor, WriteRoleBinding, fleet
  <1> QED BY <1>3, <1>4, SettledGoto

(* The worker is at another channel, and changes nothing of c.              *)
LEMMA SettledElsewhere ==
  ASSUME NEW c \in Channels, TypeInv, SettledInv(c), w.key # c, WorkerStep
  PROVE  SettledInv(c)'
  <1>0. w \in Worker /\ HubTypeOK
    BY DEF TypeInv, TypeOK
  <1>1. w'.key # c
    BY <1>0, WorkerKeeps, IdleKey DEF SameJob
  <1>2. SameFor(c)
    <2>1. CASE UNCHANGED <<chan, role, binding>>
      BY <2>1 DEF WorkerStep, SameFor, CallFails, FixPathname,
                  FindMultiClusterHubNS, GetRole, WriteRole, ListClusters,
                  GetRoleBinding, WriteRoleBinding, GetReferencedObject,
                  LabelReferencedObject, ListLabelled, SyncObject, SyncDone,
                  GetRoleToClean, DeleteRole, GetBindingToClean,
                  DeleteRoleBinding, hub, rbac, fleet
    <2>2. CASE \/ FixPathname \/ WriteRole \/ WriteRoleBinding
               \/ DeleteRole \/ DeleteRoleBinding
      BY <1>0, <2>2 DEF SameFor, HubTypeOK, FixPathname, WriteRole,
                  WriteRoleBinding, DeleteRole, DeleteRoleBinding, rbac, fleet
    <2> QED BY <2>1, <2>2
            DEF WorkerStep, CallFails, FindMultiClusterHubNS, GetRole,
                ListClusters, GetRoleBinding, GetReferencedObject,
                LabelReferencedObject, ListLabelled, SyncObject, SyncDone,
                GetRoleToClean, GetBindingToClean, hub, rbac
  <1> QED BY <1>1, <1>2, SettledSame

(* A reconcile of c begins with the stored instance, which has the right    *)
(* pathname.                                                                *)
LEMMA SettledStart ==
  ASSUME NEW c \in Channels, TypeInv, SettledInv(c),
         NEW d \in Channels, Start(d)
  PROVE  SettledInv(c)'
  <1>1. SameFor(c)
    BY DEF Start, SameFor, hub, rbac, fleet
  <1>2. /\ w'.key = d /\ w'.inst = chan[d]
        /\ w'.pc = IF chan[d] = Absent THEN "list"
                   ELSE IF chan[d].spec.isNs /\ ~chan[d].spec.pathOk
                        THEN "path" ELSE "mch"
    BY IdleType DEF Start, Worker
  <1>3. CASE d = c
    <2>1. chan[c] # Absent => w'.pc = "mch"
      BY <1>2, <1>3 DEF SettledInv, Settled, AsSpecified
    <2>2. Harmless(w', c)
      BY <1>2, <1>3, <2>1 DEF Harmless, OnRefs
    <2> QED BY <1>1, <2>2, SettledSame
  <1> QED BY <1>1, <1>2, <1>3, SettledSame

(* The garbage collector has nothing to collect of c.                       *)
LEMMA SettledCollector ==
  ASSUME NEW c \in Channels, TypeInv, SettledInv(c), Collector
  PROVE  SettledInv(c)'
  <1>0. w \in Worker /\ HubTypeOK
    BY DEF TypeInv, TypeOK
  <1>1. PICK d \in Channels : RoleCollected(d) \/ BindingCollected(d)
    BY DEF Collector
  <1>2. d # c
    BY <1>1 DEF RoleCollected, BindingCollected, CollectRole, CollectBinding,
                SettledInv, Settled
  <1>3. SameFor(c)
    BY <1>0, <1>1, <1>2 DEF RoleCollected, BindingCollected, CollectRole,
                CollectBinding, SameFor, HubTypeOK, fleet
  <1>4. w' = w \/ (w.key = d /\ w' = [w EXCEPT !.current = FALSE])
    BY <1>1 DEF RoleCollected, BindingCollected, Outdated
  <1>5. w'.key = w.key /\ (w.key = c => w' = w)
    BY <1>0, <1>2, <1>4 DEF Worker
  <1>6. w'.key # c \/ Harmless(w', c)
    BY <1>5 DEF SettledInv
  <1> QED BY <1>3, <1>6, SettledSame

LEMMA SettledStep ==
  ASSUME NEW c \in Channels, TypeInv, SettledInv(c), [Next]_vars
  PROVE  SettledInv(c)'
  <1>1. CASE WorkerStep
    BY <1>1, SettledElsewhere, SettledReads, SettledWrites DEF WorkerStep
  <1>2. CASE Environment
    BY <1>2 DEF SettledInv, Environment, UserWritesChannel, UserWritesObject,
                UserWritesRBAC, FleetChanges, Restart, Stabilise
  <1>3. CASE UNCHANGED vars
    <2>1. SameFor(c) /\ w' = w
      BY <1>3 DEF vars, hub, rbac, fleet, SameFor
    <2>2. w'.key # c \/ Harmless(w', c)
      BY <2>1 DEF SettledInv
    <2> QED BY <2>1, <2>2, SettledSame
  <1> QED BY <1>1, <1>2, <1>3, SettledStart, SettledCollector DEF Next

(* Once failures and users have stopped, what Reconcile has settled for a   *)
(* channel is never unsettled by a later one: not by validateClusterRBAC,   *)
(* not by cleanRoleFromAcmNS, not by the garbage collector.  With           *)
(* GrantsConverge this makes the grants of every channel a fixed point.     *)
THEOREM SettledForGood == Spec => GrantsStay
  <1>1. ASSUME NEW c \in Channels
        PROVE  Spec => [](quiet /\ w.key # c /\ Settled(c) => []Settled(c))
    <2>1. TypeInv /\ SettledInv(c) /\ [Next]_vars => SettledInv(c)'
      BY SettledStep
    <2>2. quiet /\ w.key # c /\ Settled(c) => SettledInv(c)
      BY DEF SettledInv
    <2>3. SettledInv(c) => Settled(c)
      BY DEF SettledInv
    <2> QED BY <2>1, <2>2, <2>3, TypeInvariance, PTL DEF Spec
  <1> QED BY <1>1 DEF GrantsStay
=============================================================================
