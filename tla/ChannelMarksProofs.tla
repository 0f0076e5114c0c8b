------------------------- MODULE ChannelMarksProofs -------------------------
(* Proofs about the serving-channel annotations: they stay in the namespace *)
(* of their object, come with their labels, implement ServingRegistry, and  *)
(* are left alone once they are right.                                      *)
EXTENDS ChannelProofs

(* What is true of an object and of every copy of it.                       *)
Good(x, o) == x # Absent => /\ \A c \in x.serving : AtHome(o, c)
                            /\ x.serving # {} => x.label /\ x.backup

(* A copy that nobody wrote since it was read is equal to its object: what  *)
(* the worker writes back is a change of the present state.  The copies of  *)
(* a listing carry the label they were selected by.                         *)
CopyOK(o) == /\ Good(w.snap[o], o)
             /\ o \in w.fresh /\ w.snap[o] # Absent => w.snap[o] = obj[o]
             /\ w.pc = "sync" /\ w.snap[o] # Absent => w.snap[o].label

MarksInv == \A o \in Objects : Good(obj[o], o) /\ CopyOK(o)

----------------------------------------------------------------------------
LEMMA MarksInit == Init => MarksInv
  BY DEF Init, HubInit, Idle, MarksInv, CopyOK, Good

(* Steps that leave the objects and the copies alone, or drop the copies.   *)
Untouched == /\ obj' = obj
             /\ \/ w' = Idle
                \/ /\ w'.snap = w.snap /\ w'.fresh = w.fresh
                   /\ w'.pc = "sync" => w.pc = "sync"

LEMMA MarksUntouched ==
  ASSUME MarksInv, Untouched PROVE MarksInv'
  <1>1. CASE w' = Idle
    BY <1>1 DEF MarksInv, CopyOK, Good, AtHome, Idle, Untouched
  <1>2. CASE /\ w'.snap = w.snap /\ w'.fresh = w.fresh
             /\ w'.pc = "sync" => w.pc = "sync"
    BY <1>2 DEF MarksInv, CopyOK, Good, AtHome, Untouched
  <1> QED BY <1>1, <1>2 DEF Untouched

LEMMA GotoUntouched ==
  ASSUME NEW v, Goto(v) \/ GotoOrFail(v), obj' = obj,
         \/ v = Idle
         \/ v.snap = w.snap /\ v.fresh = w.fresh /\ (v.pc = "sync" => w.pc = "sync")
  PROVE  Untouched
  BY DEF Goto, GotoOrFail, Untouched

LEMMA AtRefsUntouched ==
  ASSUME NEW v \in Worker, v.snap = w.snap, v.fresh = w.fresh, NEW ks,
         Goto(AtRefs(v, ks)) \/ GotoOrFail(AtRefs(v, ks)), obj' = obj
  PROVE  Untouched
  BY AtRefsType, GotoUntouched

LEMMA OutdatedUntouched ==
  ASSUME w \in Worker, obj' = obj, NEW c, NEW p, w' = Outdated(c, p)
  PROVE  Untouched
  BY DEF Outdated, Worker, Untouched

LEMMA WorkerUntouched ==
  ASSUME w \in Worker,
         \/ CallFails \/ FixPathname \/ FindMultiClusterHubNS
         \/ GetRole \/ WriteRole \/ ListClusters
         \/ GetRoleBinding \/ WriteRoleBinding \/ SyncDone
         \/ GetRoleToClean \/ DeleteRole \/ GetBindingToClean
         \/ DeleteRoleBinding
  PROVE  Untouched
  <1>0. obj' = obj
    BY DEF CallFails, FixPathname, FindMultiClusterHubNS, GetRole, WriteRole,
           ListClusters, GetRoleBinding, WriteRoleBinding, SyncDone,
           GetRoleToClean, DeleteRole, GetBindingToClean, DeleteRoleBinding, hub
  <1>1. CASE CallFails \/ FixPathname \/ DeleteRoleBinding
    BY <1>0, <1>1, GotoUntouched DEF CallFails, FixPathname, DeleteRoleBinding
  <1>2. CASE FindMultiClusterHubNS
    <2>1. PICK ns \in Namespaces \cup {NoNs} :
            Goto(IF NsOf[w.key] = ns THEN AtRefs([w EXCEPT !.acm = ns], Kinds)
                 ELSE [[w EXCEPT !.acm = ns] EXCEPT !.pc = "role"])
      BY <1>2 DEF FindMultiClusterHubNS
    <2> DEFINE v == [w EXCEPT !.acm = ns]
               u == [v EXCEPT !.pc = "role"]
    <2>2. v \in Worker /\ v.snap = w.snap /\ v.fresh = w.fresh
      BY DEF Worker
    <2>3. u.snap = w.snap /\ u.fresh = w.fresh /\ u.pc = "role"
      BY DEF Worker
    <2> HIDE DEF v, u
    <2>4. Goto(AtRefs(v, Kinds)) \/ Goto(u)
      BY <2>1 DEF v, u
    <2> QED BY <1>0, <2>2, <2>3, <2>4, AtRefsUntouched, GotoUntouched
  <1>3. CASE GetRole \/ WriteRole
    <2> DEFINE u1 == [w EXCEPT !.pc = "roleWrite", !.create = TRUE]
               u2 == [w EXCEPT !.pc = "clusters"]
               u3 == [w EXCEPT !.pc = "roleWrite", !.create = FALSE,
                               !.current = TRUE]
    <2>1. \A u \in {u1, u2, u3} :
            u.snap = w.snap /\ u.fresh = w.fresh /\ u.pc # "sync"
      BY DEF Worker
    <2>2. Goto(u1) \/ Goto(u2) \/ Goto(u3) \/ GotoOrFail(u2) \/ Goto(Idle)
      BY <1>3 DEF GetRole, WriteRole
    <2> HIDE DEF u1, u2, u3
    <2> QED BY <1>0, <2>1, <2>2, GotoUntouched
  <1>4. CASE ListClusters \/ GetRoleBinding \/ WriteRoleBinding
    <2> DEFINE u1 == [w EXCEPT !.pc = "binding", !.subjects = clusters]
               u2 == [w EXCEPT !.pc = "bindingWrite", !.create = TRUE]
               u3 == [w EXCEPT !.pc = "bindingWrite", !.create = FALSE,
                               !.current = TRUE]
               A == AtRefs(w, Kinds)
    <2>1. \A u \in {u1, u2, u3} :
            u.snap = w.snap /\ u.fresh = w.fresh /\ u.pc # "sync"
      BY DEF Worker
    <2>2. \/ Goto(u1) \/ Goto(u2) \/ Goto(u3) \/ Goto(Idle)
          \/ Goto(A) \/ GotoOrFail(A)
      BY <1>4 DEF ListClusters, GetRoleBinding, WriteRoleBinding
    <2> HIDE DEF u1, u2, u3
    <2> QED BY <1>0, <2>1, <2>2, GotoUntouched, AtRefsUntouched
  <1>5. CASE SyncDone
    <2> DEFINE u1 == [w EXCEPT !.pc = "list", !.kind = "ConfigMap"]
               A == AtRefs(w, KindsAfter(w.kind))
    <2>1. u1.snap = w.snap /\ u1.fresh = w.fresh /\ u1.pc = "list"
      BY DEF Worker
    <2>2. Goto(A) \/ Goto(u1) \/ Goto(Idle)
      BY <1>5 DEF SyncDone
    <2> HIDE DEF u1
    <2> QED BY <1>0, <2>1, <2>2, GotoUntouched, AtRefsUntouched
  <1>6. CASE GetRoleToClean \/ DeleteRole \/ GetBindingToClean
    <2> DEFINE u1 == [w EXCEPT !.pc = "roleDelete"]
               u2 == [w EXCEPT !.pc = "bindingClean"]
               u3 == [w EXCEPT !.pc = "bindingDelete"]
    <2>1. \A u \in {u1, u2, u3} :
            u.snap = w.snap /\ u.fresh = w.fresh /\ u.pc # "sync"
      BY DEF Worker
    <2>2. Goto(u1) \/ Goto(u2) \/ GotoOrFail(u2) \/ Goto(u3) \/ Goto(Idle)
      BY <1>6 DEF GetRoleToClean, DeleteRole, GetBindingToClean
    <2> HIDE DEF u1, u2, u3
    <2> QED BY <1>0, <2>1, <2>2, GotoUntouched
  <1> QED BY <1>1, <1>2, <1>3, <1>4, <1>5, <1>6

LEMMA StartUntouched ==
  ASSUME NEW c \in Channels, Start(c), MarksInv PROVE MarksInv'
  <1>1. /\ w'.snap = [o \in Objects |-> Absent] /\ w'.fresh = {} /\ obj' = obj
    BY DEF Start, Idle, hub
  <1> QED BY <1>1 DEF MarksInv, CopyOK, Good, AtHome

LEMMA OthersUntouched ==
  ASSUME w \in Worker,
         \/ Collector \/ Restart \/ Stabilise \/ FleetChanges
         \/ \E c \in Channels : UserWritesChannel(c)
         \/ \E c \in UserRBAC : UserWritesRBAC(c)
  PROVE  Untouched
  <1>1. CASE Collector
    BY <1>1, OutdatedUntouched
       DEF Collector, RoleCollected, BindingCollected, CollectRole, CollectBinding
  <1>2. CASE Restart
    BY <1>2 DEF Restart, Untouched, hub
  <1>3. CASE Stabilise \/ FleetChanges
    BY <1>3 DEF Stabilise, FleetChanges, ChangeFleet, Untouched, hub
  <1>4. CASE \E c \in Channels : UserWritesChannel(c)
    BY <1>4, OutdatedUntouched
       DEF UserWritesChannel, WriteChannel, CreateChannel, UpdateChannel,
           DeleteChannel
  <1>5. CASE \E c \in UserRBAC : UserWritesRBAC(c)
    BY <1>5, OutdatedUntouched DEF UserWritesRBAC, EditRole, EditBinding
  <1> QED BY <1>1, <1>2, <1>3, <1>4, <1>5

----------------------------------------------------------------------------
(* The steps that read or write objects.  Each comes with the step of the   *)
(* abstract registry that it implements.                                    *)

marks == [o \in Objects |-> Marks(o)]

RegistryStep == [Registry!Next]_marks

LEMMA SameObjectsSameMarks ==
  ASSUME obj' = obj PROVE RegistryStep
  BY DEF RegistryStep, marks, Marks

(* A write to object o that leaves its marks as they were.                  *)
LEMMA SameMarks ==
  ASSUME NEW o \in Objects, NEW x, TypeInv,
         obj' = [obj EXCEPT ![o] = x],
         x # Absent /\ x.serving = Marks(o)
  PROVE  RegistryStep
  <1>1. \A q \in Objects : Marks(q)' = Marks(q)
    BY DEF Marks, TypeInv, TypeOK, HubTypeOK
  <1>2. marks' = marks
    BY <1>1 DEF marks
  <1> QED BY <1>2 DEF RegistryStep

(* A write to object o, and the marks it leaves.                            *)
LEMMA NewMarks ==
  ASSUME NEW o \in Objects, NEW x, TypeInv,
         obj' = [obj EXCEPT ![o] = x]
  PROVE  marks' = [marks EXCEPT ![o] = IF x = Absent THEN {} ELSE x.serving]
  <1>1. \A q \in Objects : Marks(q)' = IF q = o THEN IF x = Absent THEN {} ELSE x.serving
                                       ELSE Marks(q)
    BY DEF Marks, TypeInv, TypeOK, HubTypeOK
  <1> QED BY <1>1 DEF marks

LEMMA GetReferencedObjectMarks ==
  ASSUME TypeInv, MarksInv, GetReferencedObject
  PROVE  MarksInv' /\ RegistryStep
  <1> DEFINE t == [kind |-> w.kind, ns |-> Pinned(w.kind).ns,
                   name |-> Pinned(w.kind).name]
             u == [w EXCEPT !.pc = "labelWrite", !.snap[t] = obj[t],
                            !.fresh = {t}]
  <1>1. obj' = obj /\ (Goto(u) \/ Goto(Idle))
    BY DEF GetReferencedObject, hub
  <1> HIDE DEF t
  <1>2. CASE w' = u
    <2>1. w \in Worker
      BY DEF TypeInv, TypeOK
    <2>2. /\ w'.fresh = {t} /\ w'.pc = "labelWrite"
          /\ \A o \in Objects : w'.snap[o] = IF o = t THEN obj[t] ELSE w.snap[o]
      BY <1>2, <2>1 DEF Worker
    <2>3. MarksInv'
      BY <1>1, <2>2 DEF MarksInv, CopyOK, Good, AtHome
    <2> QED BY <1>1, <2>3, SameObjectsSameMarks
  <1>3. CASE w' = Idle
    BY <1>1, <1>3, MarksUntouched, SameObjectsSameMarks DEF Untouched
  <1> QED BY <1>1, <1>2, <1>3 DEF Goto

LEMMA ListLabelledMarks ==
  ASSUME TypeInv, MarksInv, ListLabelled
  PROVE  MarksInv' /\ RegistryStep
  <1> DEFINE S == {o \in Objects :
                     o.kind = w.kind /\ obj[o] # Absent /\ obj[o].label}
  <1>1. w \in Worker /\ obj' = obj
    BY DEF TypeInv, TypeOK, ListLabelled, hub
  <1>2. w' = [w EXCEPT !.pc = "sync", !.fresh = S,
                       !.snap = [o \in Objects |->
                                   IF o \in S THEN obj[o] ELSE Absent]]
    BY DEF ListLabelled, Goto
  <1>3. \A o \in Objects : \/ w'.snap[o] = Absent
                           \/ w'.snap[o] = obj[o] /\ obj[o].label
    BY <1>1, <1>2 DEF Worker
  <1>4. MarksInv'
    BY <1>1, <1>3 DEF MarksInv, CopyOK, Good, AtHome
  <1> QED BY <1>1, <1>4, SameObjectsSameMarks

(* The label is set on the object as it is: its marks stay.                 *)
LEMMA LabelReferencedObjectMarks ==
  ASSUME TypeInv, MarksInv, LabelReferencedObject
  PROVE  MarksInv' /\ RegistryStep
  <1>1. PICK o \in Objects :
          /\ w.snap[o] # Absent
          /\ \/ /\ o \in w.fresh
                /\ obj' = [obj EXCEPT ![o] = [w.snap[o] EXCEPT !.label = TRUE]]
                /\ GotoOrFail([w EXCEPT !.pc = "list", !.snap[o] = Absent,
                                        !.fresh = {}])
             \/ obj' = obj /\ Goto(Idle)
    BY DEF LabelReferencedObject, ObjectUpdateAccepted
  <1> DEFINE u == [w EXCEPT !.pc = "list", !.snap[o] = Absent, !.fresh = {}]
             x == [w.snap[o] EXCEPT !.label = TRUE]
  <1>2. CASE obj' = obj /\ Goto(Idle)
    BY <1>2, MarksUntouched, SameObjectsSameMarks DEF Goto, Untouched
  <1>3. CASE o \in w.fresh /\ obj' = [obj EXCEPT ![o] = x] /\ GotoOrFail(u)
    <2>1. w \in Worker /\ w.snap[o] \in Object /\ obj \in [Objects -> Object \cup {Absent}]
      BY <1>1 DEF TypeInv, TypeOK, HubTypeOK, Worker
    <2>2. w.snap[o] = obj[o] /\ Good(obj[o], o)
      BY <1>1, <1>3 DEF MarksInv, CopyOK
    <2>3. /\ x \in Object /\ x.serving = obj[o].serving
          /\ x.label /\ x.backup = obj[o].backup
      BY <2>1, <2>2 DEF Object
    <2>4. x # Absent /\ Good(x, o)
      BY <1>1, <2>2, <2>3, SentinelsAssumption DEF Good
    <2> HIDE DEF x
    <2>5. \A q \in Objects : obj'[q] = IF q = o THEN x ELSE obj[q]
      BY <1>3, <2>1
    <2>6. \A q \in Objects : Good(obj'[q], q)
      BY <2>4, <2>5 DEF MarksInv
    <2>7. w' = u \/ w' = Idle
      BY <1>3 DEF GotoOrFail, Goto
    <2>8. /\ w'.fresh = {} /\ w'.pc # "sync"
          /\ \A q \in Objects : w'.snap[q] \in {Absent, w.snap[q]}
      <3>1. CASE w' = u
        BY <2>1, <3>1 DEF Worker
      <3>2. CASE w' = Idle
        BY <3>2 DEF Idle
      <3> QED BY <2>7, <3>1, <3>2
    <2>9. MarksInv'
      BY <2>6, <2>8 DEF MarksInv, CopyOK, Good, AtHome
    <2>10. x.serving = Marks(o)
      BY <1>1, <2>2, <2>3 DEF Marks
    <2> QED BY <1>3, <2>4, <2>9, <2>10, SameMarks
  <1> QED BY <1>1, <1>2, <1>3

(* A channel enters or leaves the marks of the object as it is.             *)
LEMMA SyncObjectMarks ==
  ASSUME TypeInv, MarksInv, NEW o \in Objects, SyncObject(o)
  PROVE  MarksInv' /\ RegistryStep
  <1> DEFINE m == UpdateServingChannel(w.snap[o].serving, w.key, Action(o))
             x == Synced(w.snap[o], m)
  <1>1. /\ w \in Worker /\ w.snap[o] \in Object /\ w.key \in Channels
        /\ w.pc = "sync" /\ w.snap[o] # Absent
        /\ obj \in [Objects -> Object \cup {Absent}]
    BY DEF TypeInv, TypeOK, HubTypeOK, WorkerSound, Worker, SyncObject
  <1>2. w' = [w EXCEPT !.snap[o] = Absent, !.fresh = @ \ {o}]
    BY DEF SyncObject, Goto
  <1>3. /\ w'.pc = "sync" /\ w'.fresh = w.fresh \ {o}
        /\ \A q \in Objects : w'.snap[q] = IF q = o THEN Absent ELSE w.snap[q]
    BY <1>1, <1>2 DEF Worker
  <1>4. CASE obj' = obj
    <2>1. MarksInv'
      BY <1>1, <1>3, <1>4 DEF MarksInv, CopyOK, Good, AtHome
    <2> QED BY <1>4, <2>1, SameObjectsSameMarks
  <1>5. CASE o \in w.fresh /\ obj' = [obj EXCEPT ![o] = x]
    <2>1. w.snap[o] = obj[o] /\ w.snap[o].label /\ Good(w.snap[o], o)
      BY <1>1, <1>5 DEF MarksInv, CopyOK
    <2>2. w.snap[o].serving = Marks(o) /\ Marks(o) \in SUBSET Channels
      BY <1>1, <2>1 DEF Marks, Object
    <2>3. \/ m = Marks(o)
          \/ m = Marks(o) \ {w.key}
          \/ m = Marks(o) \cup {w.key} /\ AtHome(o, w.key)
      <3>1. Action(o) = "add" => AtHome(o, w.key)
        <4>1. Action(o) = "add" =>
                o.ns = Pinned(w.kind).ns /\ w.inst # Absent
                /\ w.inst.spec.ref[w.kind] # NoRef
          BY DEF Action, HasRef
        <4>2. w.inst # Absent /\ w.inst.spec.ref[w.kind] # NoRef
                => w.inst.spec.ref[w.kind] \in Refs
          BY <1>1 DEF Worker, Channel, ChannelSpec
        <4>3. w.inst.spec.ref[w.kind] \in Refs => Pinned(w.kind).ns = NsOf[w.key]
          BY DEF Pinned, Refs
        <4> QED BY <4>1, <4>2, <4>3 DEF AtHome
      <3>2. Action(o) \in {"add", "none", "remove"}
        BY DEF Action
      <3> QED BY <2>2, <3>1, <3>2 DEF UpdateServingChannel
    <2>4. m \in SUBSET Channels
      BY <1>1, <2>2, <2>3
    <2> HIDE DEF m
    <2>5. x \in Object /\ x.label /\ x.backup /\ x.serving = m
      BY <1>1, <2>1, <2>4 DEF Synced, Object
    <2>6. x # Absent /\ Good(x, o)
      <3>1. \A c \in m : AtHome(o, c)
        BY <1>1, <2>1, <2>2, <2>3 DEF Good
      <3> QED BY <2>5, <3>1, SentinelsAssumption DEF Good
    <2> HIDE DEF x
    <2>7. \A q \in Objects : obj'[q] = IF q = o THEN x ELSE obj[q]
      BY <1>1, <1>5
    <2>8. MarksInv'
      BY <1>1, <1>3, <2>6, <2>7 DEF MarksInv, CopyOK, Good, AtHome
    <2>9. marks' = [marks EXCEPT ![o] = m]
      BY <1>5, <2>5, <2>6, NewMarks
    <2>10. marks[o] = Marks(o)
      BY DEF marks
    <2>11. RegistryStep
      <3>1. CASE m = Marks(o)
        BY <1>5, <2>5, <2>6, <3>1, SameMarks
      <3>2. CASE m = Marks(o) \ {w.key}
        <4>1. marks' = [marks EXCEPT ![o] = @ \ {w.key}]
          BY <2>9, <2>10, <3>2
        <4>2. Registry!Leave(o, w.key)
          BY <4>1 DEF Registry!Leave, marks
        <4> QED BY <1>1, <4>2 DEF Registry!Next, RegistryStep
      <3>3. CASE m = Marks(o) \cup {w.key} /\ AtHome(o, w.key)
        <4>1. marks' = [marks EXCEPT ![o] = @ \cup {w.key}]
          BY <2>9, <2>10, <3>3
        <4>2. Registry!Enter(o, w.key)
          BY <3>3, <4>1 DEF Registry!Enter, marks
        <4> QED BY <1>1, <4>2 DEF Registry!Next, RegistryStep
      <3> QED BY <2>3, <3>1, <3>2, <3>3
    <2> QED BY <2>8, <2>11
  <1> QED BY <1>4, <1>5 DEF SyncObject, ObjectUpdateAccepted

LEMMA UserWritesObjectMarks ==
  ASSUME TypeInv, MarksInv, NEW o \in Objects, UserWritesObject(o)
  PROVE  MarksInv' /\ RegistryStep
  <1>1. w \in Worker /\ obj \in [Objects -> Object \cup {Absent}]
    BY DEF TypeInv, TypeOK, HubTypeOK
  <1>2. w'.snap = w.snap /\ w'.fresh = w.fresh \ {o} /\ w'.pc = w.pc
    BY <1>1 DEF UserWritesObject, Worker
  <1>3. CASE obj' = obj
    <2>1. MarksInv'
      BY <1>1, <1>2, <1>3 DEF MarksInv, CopyOK, Good, AtHome
    <2> QED BY <1>3, <2>1, SameObjectsSameMarks
  <1>4. ASSUME NEW x \in NewObjects \cup {Absent}, obj' = [obj EXCEPT ![o] = x]
        PROVE  MarksInv' /\ RegistryStep
    <2>1. Good(x, o) /\ (IF x = Absent THEN {} ELSE x.serving) = {}
      BY DEF Good, NewObjects
    <2>2. \A q \in Objects : obj'[q] = IF q = o THEN x ELSE obj[q]
      BY <1>1, <1>4
    <2>3. MarksInv'
      BY <1>2, <2>1, <2>2 DEF MarksInv, CopyOK, Good, AtHome
    <2>4. marks' = [marks EXCEPT ![o] = {}]
      BY <1>4, <2>1, NewMarks
    <2>5. Registry!Reset(o)
      BY <2>4 DEF Registry!Reset, marks
    <2> QED BY <2>3, <2>5 DEF Registry!Next, RegistryStep
  <1> QED BY <1>3, <1>4 DEF UserWritesObject, WriteObject

----------------------------------------------------------------------------
LEMMA MarksStep ==
  TypeInv /\ MarksInv /\ [Next]_vars => MarksInv' /\ RegistryStep
  <1> SUFFICES ASSUME TypeInv, MarksInv, [Next]_vars
               PROVE  MarksInv' /\ RegistryStep
    OBVIOUS
  <1>0. w \in Worker /\ UserObjects \subseteq Objects
    BY ConstantsAssumption DEF TypeInv, TypeOK
  <1>U. ASSUME Untouched PROVE MarksInv' /\ RegistryStep
    BY <1>U, MarksUntouched, SameObjectsSameMarks DEF Untouched
  <1>1. CASE UNCHANGED vars
    BY <1>1, <1>U DEF vars, hub, Untouched
  <1>2. CASE \E c \in Channels : Start(c)
    <2>1. obj' = obj
      BY <1>2 DEF Start, hub
    <2> QED BY <1>2, <2>1, StartUntouched, SameObjectsSameMarks
  <1>3. CASE WorkerStep
    <2>1. CASE GetReferencedObject
      BY <2>1, GetReferencedObjectMarks
    <2>2. CASE LabelReferencedObject
      BY <2>2, LabelReferencedObjectMarks
    <2>3. CASE ListLabelled
      BY <2>3, ListLabelledMarks
    <2>4. CASE \E o \in Objects : SyncObject(o)
      BY <2>4, SyncObjectMarks
    <2> QED
      BY <1>0, <1>3, <1>U, <2>1, <2>2, <2>3, <2>4, WorkerUntouched DEF WorkerStep
  <1>4. CASE Collector \/ Environment
    <2>1. CASE \E o \in UserObjects : UserWritesObject(o)
      BY <1>0, <2>1, UserWritesObjectMarks
    <2> QED BY <1>0, <1>4, <1>U, <2>1, OthersUntouched DEF Environment
  <1> QED BY <1>1, <1>2, <1>3, <1>4 DEF Next

LEMMA MarksInvariance == Spec => []MarksInv
  <1>1. TypeInv /\ MarksInv /\ [Next]_vars => MarksInv'
    BY MarksStep
  <1> QED BY MarksInit, TypeInvariance, <1>1, PTL DEF Spec

(* No Secret or ConfigMap is ever annotated for a channel of another        *)
(* namespace: handleReferencedObjects and syncReferredObjAnnotationLabel,   *)
(* for any channels, references and interleavings.                          *)
THEOREM HomeCorrect == Spec => []ServingAtHome
  <1>1. MarksInv => ServingAtHome
    BY DEF MarksInv, Good, ServingAtHome, Marks
  <1> QED BY MarksInvariance, <1>1, PTL

(* An annotated object is labelled, so that the next listing finds it.      *)
THEOREM MarkedCorrect == Spec => []ServingIsMarked
  <1>1. MarksInv => ServingIsMarked
    BY DEF MarksInv, Good, ServingIsMarked, Marks
  <1> QED BY MarksInvariance, <1>1, PTL

(* The annotations implement the abstract registry, whatever interleavings, *)
(* lost replies and restarts there are.                                     *)
THEOREM RegistryCorrect == Spec => RegistryImplemented
  <1>1. Init => Registry!Init
    BY DEF Init, HubInit, Registry!Init, Marks
  <1>2. TypeInv /\ MarksInv /\ [Next]_vars => [Registry!Next]_marks
    BY MarksStep DEF RegistryStep
  <1> QED
    BY <1>1, <1>2, TypeInvariance, MarksInvariance, PTL
       DEF Spec, RegistryImplemented, Registry!Spec, marks

----------------------------------------------------------------------------
(* Only the entry of the reconciled channel changes; labelling changes none.*)
LEMMA LabelReferencedObjectEntries ==
  ASSUME TypeInv, MarksInv, LabelReferencedObject
  PROVE  \A q \in Objects : Marks(q)' = Marks(q)
  <1>1. PICK o \in Objects :
          /\ w.snap[o] # Absent
          /\ \/ /\ o \in w.fresh
                /\ obj' = [obj EXCEPT ![o] = [w.snap[o] EXCEPT !.label = TRUE]]
             \/ obj' = obj
    BY DEF LabelReferencedObject, ObjectUpdateAccepted
  <1> DEFINE x == [w.snap[o] EXCEPT !.label = TRUE]
  <1>2. CASE obj' = obj
    BY <1>2 DEF Marks
  <1>3. CASE o \in w.fresh /\ obj' = [obj EXCEPT ![o] = x]
    <2>1. w.snap[o] \in Object /\ obj \in [Objects -> Object \cup {Absent}]
      BY <1>1 DEF TypeInv, TypeOK, HubTypeOK, Worker
    <2>2. x \in Object /\ x.serving = obj[o].serving /\ obj[o] # Absent
      BY <1>1, <1>3, <2>1 DEF MarksInv, CopyOK, Object
    <2>3. x # Absent
      BY <2>2, SentinelsAssumption
    <2> HIDE DEF x
    <2> QED BY <1>3, <2>1, <2>2, <2>3 DEF Marks
  <1> QED BY <1>1, <1>2, <1>3

LEMMA SyncObjectEntries ==
  ASSUME TypeInv, MarksInv, NEW o \in Objects, SyncObject(o)
  PROVE  OwnEntryOnly
  <1> DEFINE m == UpdateServingChannel(w.snap[o].serving, w.key, Action(o))
             x == Synced(w.snap[o], m)
  <1>1. /\ w.snap[o] \in Object /\ w.key \in Channels /\ w.snap[o] # Absent
        /\ obj \in [Objects -> Object \cup {Absent}]
    BY DEF TypeInv, TypeOK, HubTypeOK, WorkerSound, Worker, SyncObject
  <1>2. CASE obj' = obj
    BY <1>2 DEF OwnEntryOnly, Marks
  <1>3. CASE o \in w.fresh /\ obj' = [obj EXCEPT ![o] = x]
    <2>1. w.snap[o] = obj[o]
      BY <1>1, <1>3 DEF MarksInv, CopyOK
    <2>2. /\ m \in SUBSET Channels
          /\ \A d \in Channels \ {w.key} : d \in m <=> d \in obj[o].serving
      BY <1>1, <2>1 DEF UpdateServingChannel, Object
    <2> HIDE DEF m
    <2>3. x \in Object /\ x.serving = m
      BY <1>1, <2>2 DEF Synced, Object
    <2>4. x # Absent
      BY <2>3, SentinelsAssumption
    <2> HIDE DEF x
    <2> QED BY <1>1, <1>3, <2>1, <2>2, <2>3, <2>4 DEF OwnEntryOnly, Marks
  <1> QED BY <1>2, <1>3 DEF SyncObject, ObjectUpdateAccepted

LEMMA OwnEntries ==
  ASSUME TypeInv, MarksInv, WorkerStep
  PROVE  OwnEntryOnly
  <1>0. w \in Worker
    BY DEF TypeInv, TypeOK
  <1>1. CASE \A q \in Objects : Marks(q)' = Marks(q)
    BY <1>1 DEF OwnEntryOnly
  <1>2. CASE obj' = obj
    BY <1>1, <1>2 DEF Marks
  <1>3. CASE GetReferencedObject \/ ListLabelled
    BY <1>2, <1>3 DEF GetReferencedObject, ListLabelled, hub
  <1>4. CASE LabelReferencedObject
    BY <1>1, <1>4, LabelReferencedObjectEntries
  <1>5. CASE \E o \in Objects : SyncObject(o)
    BY <1>5, SyncObjectEntries
  <1> QED
    BY <1>0, <1>2, <1>3, <1>4, <1>5, WorkerUntouched DEF WorkerStep, Untouched

(* A reconcile changes no entry but that of its own channel, although       *)
(* syncReferredObjAnnotationLabel writes whole objects that it listed       *)
(* earlier: a stale copy is refused, and a fresh one is the object itself.  *)
THEOREM EntriesKept == Spec => KeepsOthersEntries
  <1>1. TypeInv /\ MarksInv /\ [Next]_vars => [WorkerStep => OwnEntryOnly]_vars
    BY OwnEntries
  <1> QED
    BY <1>1, TypeInvariance, MarksInvariance, PTL DEF Spec, KeepsOthersEntries

----------------------------------------------------------------------------
(* Entries that are right stay.  While channel c is reconciled, the worker  *)
(* holds the stored instance, and its listing is of the kind it looks for.  *)
References(c, o) == chan[c] # Absent /\ Wants(c, o.kind) /\ Target(c, o.kind) = o

EntryInv(c, o) ==
    /\ quiet /\ MarkIsRight(c, o)
    /\ w.key = c => /\ w.inst = chan[c]
                    /\ w.pc = "sync" /\ w.snap[o] # Absent => o.kind = w.kind

(* What the worker does to an entry of its own channel makes it right.      *)
LEMMA ActionIsRight ==
  ASSUME TypeInv, NEW c \in Channels, NEW o \in Objects,
         w.key = c, w.inst = chan[c], o.kind = w.kind, NEW s \in SUBSET Channels,
         c \in s <=> References(c, o)
  PROVE  c \in UpdateServingChannel(s, w.key, Action(o)) <=> References(c, o)
  <1>0. /\ o.kind \in Kinds /\ o.ns \in Namespaces /\ o.name \in Names
        /\ o = [kind |-> o.kind, ns |-> o.ns, name |-> o.name]
        /\ chan[c] \in Channel \cup {Absent}
    BY DEF Objects, TypeInv, TypeOK, HubTypeOK
  <1>1. HasRef(w.kind) <=> chan[c] # Absent /\ Wants(c, o.kind)
    BY DEF HasRef, Wants
  <1>2. CASE ~HasRef(w.kind)
    <2>1. Action(o) = "remove" /\ ~References(c, o)
      BY <1>1, <1>2 DEF Action, References
    <2> QED BY <2>1 DEF UpdateServingChannel
  <1>3. CASE HasRef(w.kind)
    <2>1. chan[c] # Absent /\ chan[c].spec.ref[o.kind] \in Refs
      BY <1>0, <1>1, <1>3 DEF Wants, Channel, ChannelSpec
    <2>2. /\ Pinned(w.kind).ns = NsOf[c]
          /\ Pinned(w.kind).name = chan[c].spec.ref[o.kind].name
      BY <2>1 DEF Pinned, Refs
    <2>3. References(c, o) <=> o.name = Pinned(w.kind).name
                               /\ o.ns = Pinned(w.kind).ns
      <3>1. References(c, o) <=> Target(c, o.kind) = o
        BY <1>1, <1>3 DEF References
      <3> QED BY <1>0, <2>2, <3>1 DEF Target
    <2>4. CASE Pinned(w.kind).name = EmptyName
      <3>1. Action(o) = "remove" /\ ~References(c, o)
        BY <1>0, <2>3, <2>4, SentinelsAssumption DEF Action
      <3> QED BY <3>1 DEF UpdateServingChannel
    <2>5. CASE Pinned(w.kind).name # EmptyName
      <3>1. Action(o) = IF References(c, o) THEN "add" ELSE "none"
        BY <1>3, <2>3, <2>5 DEF Action
      <3> QED BY <3>1 DEF UpdateServingChannel
    <2> QED BY <2>4, <2>5
  <1> QED BY <1>2, <1>3

LEMMA SyncObjectIsRight ==
  ASSUME TypeInv, MarksInv, NEW c \in Channels, NEW o \in Objects,
         EntryInv(c, o), w.key = c, NEW q \in Objects, SyncObject(q)
  PROVE  c \in Marks(o)' <=> References(c, o)
  <1>0. /\ c \in Marks(o) <=> References(c, o)
        /\ obj \in [Objects -> Object \cup {Absent}]
    BY DEF EntryInv, MarkIsRight, References, TypeInv, TypeOK, HubTypeOK
  <1>1. CASE obj' = obj
    BY <1>0, <1>1 DEF Marks
  <1> DEFINE m == UpdateServingChannel(w.snap[q].serving, w.key, Action(q))
             x == Synced(w.snap[q], m)
  <1>2. CASE q \in w.fresh /\ obj' = [obj EXCEPT ![q] = x]
    <2>1. /\ w.snap[q] = obj[q] /\ w.snap[q] # Absent /\ w.pc = "sync"
          /\ obj[q] \in Object
      BY <1>0, <1>2 DEF MarksInv, CopyOK, SyncObject
    <2>2. CASE q # o
      BY <1>0, <1>2, <2>2 DEF Marks
    <2>3. CASE q = o
      <3>1. obj[o].serving = Marks(o) /\ Marks(o) \in SUBSET Channels
        BY <2>1, <2>3 DEF Marks, Object
      <3>2. c \in m <=> References(c, o)
        BY <1>0, <2>1, <2>3, <3>1, ActionIsRight DEF EntryInv
      <3>3. m \in SUBSET Channels
        BY <2>1, <2>3, <3>1 DEF UpdateServingChannel
      <3> HIDE DEF m
      <3>4. x \in Object /\ x.serving = m
        BY <2>1, <3>3 DEF Synced, Object
      <3>5. x # Absent
        BY <3>4, SentinelsAssumption
      <3> HIDE DEF x
      <3>6. obj'[o] = x
        BY <1>0, <1>2, <2>3
      <3> QED BY <3>2, <3>4, <3>5, <3>6 DEF Marks
    <2> QED BY <2>2, <2>3
  <1> QED BY <1>1, <1>2 DEF SyncObject, ObjectUpdateAccepted

(* The worker leaves the references of every channel alone.                 *)
LEMMA WorkerKeepsReferences ==
  ASSUME TypeInv, NEW c \in Channels, NEW o \in Objects, WorkerStep,
         w.key = c => w.inst = chan[c]
  PROVE  /\ References(c, o)' <=> References(c, o)
         /\ chan'[c] = chan[c] \/ w' = Idle
  <1>0. w \in Worker /\ WorkerSound /\ HubTypeOK
    BY DEF TypeInv, TypeOK
  <1>1. CASE chan'[c] = chan[c]
    BY <1>1 DEF References, Wants, Target
  <1>2. CASE ~FixPathname
    BY <1>1, <1>2 DEF WorkerStep, CallFails, FindMultiClusterHubNS, GetRole,
         WriteRole, ListClusters, GetRoleBinding, WriteRoleBinding,
         GetReferencedObject, LabelReferencedObject, ListLabelled, SyncObject,
         SyncDone, GetRoleToClean, DeleteRole, GetBindingToClean,
         DeleteRoleBinding, hub
  <1>3. CASE FixPathname /\ w.key # c
    BY <1>0, <1>1, <1>3 DEF FixPathname, HubTypeOK
  <1>4. CASE FixPathname /\ w.key = c
    <2>1. chan[c] \in Channel /\ chan[c] # Absent
      BY <1>0, <1>4 DEF FixPathname, WorkerSound, HubTypeOK
    <2>2. \/ chan'[c] = chan[c]
          \/ chan'[c] = [chan[c] EXCEPT !.spec.pathOk = TRUE]
      BY <1>0, <1>4 DEF FixPathname, HubTypeOK
    <2>3. chan'[c] \in Channel /\ chan'[c].spec.ref = chan[c].spec.ref
      BY <2>1, <2>2 DEF Channel, ChannelSpec
    <2>4. chan'[c] # Absent
      BY <2>3, SentinelsAssumption
    <2>5. w' = Idle
      BY <1>4 DEF FixPathname, Goto
    <2> QED BY <2>1, <2>3, <2>4, <2>5 DEF References, Wants, Target
  <1> QED BY <1>2, <1>3, <1>4

LEMMA EntryWorker ==
  ASSUME TypeInv, MarksInv, NEW c \in Channels, NEW o \in Objects,
         EntryInv(c, o), WorkerStep
  PROVE  EntryInv(c, o)'
  <1>0. /\ w \in Worker /\ quiet /\ (c \in Marks(o) <=> References(c, o))
        /\ w.key = c => w.inst = chan[c]
    BY DEF EntryInv, MarkIsRight, References, TypeInv, TypeOK
  <1>1. quiet' = quiet
    BY DEF WorkerStep, CallFails, FixPathname, FindMultiClusterHubNS, GetRole,
         WriteRole, ListClusters, GetRoleBinding, WriteRoleBinding,
         GetReferencedObject, LabelReferencedObject, ListLabelled, SyncObject,
         SyncDone, GetRoleToClean, DeleteRole, GetBindingToClean,
         DeleteRoleBinding
  <1>2. c \in Marks(o)' <=> References(c, o)
    <2>1. CASE w.key # c
      BY <1>0, <2>1, OwnEntries DEF OwnEntryOnly
    <2>2. CASE w.key = c /\ \E q \in Objects : SyncObject(q)
      BY <2>2, SyncObjectIsRight
    <2>3. CASE LabelReferencedObject
      BY <1>0, <2>3, LabelReferencedObjectEntries
    <2>4. CASE obj' = obj
      BY <1>0, <2>4 DEF Marks
    <2> QED BY <1>0, <2>1, <2>2, <2>3, <2>4, WorkerUntouched
            DEF WorkerStep, Untouched, GetReferencedObject, ListLabelled, hub
  <1>3. MarkIsRight(c, o)'
    BY <1>0, <1>2, WorkerKeepsReferences DEF MarkIsRight, References
  <1>4. w'.key = c => /\ w'.inst = chan'[c]
                      /\ w'.pc = "sync" /\ w'.snap[o] # Absent => o.kind = w'.kind
    <2>1. CASE w' = Idle
      BY <2>1, IdleKey
    <2>2. CASE SameJob(w')
      BY <1>0, <2>1, <2>2, WorkerKeepsReferences DEF SameJob
    <2>3. CASE ListLabelled
      <3>1. /\ w'.key = w.key /\ w'.inst = w.inst /\ w'.kind = w.kind
            /\ w'.snap[o] # Absent => o.kind = w.kind
        BY <1>0, <2>3 DEF ListLabelled, Goto, Worker, hub
      <3>2. chan' = chan
        BY <2>3 DEF ListLabelled, hub
      <3> QED BY <1>0, <3>1, <3>2
    <2>4. ASSUME NEW q \in Objects, SyncObject(q)
          PROVE  /\ w'.key = w.key /\ w'.inst = w.inst /\ w'.kind = w.kind
                 /\ w'.snap[o] # Absent => w.snap[o] # Absent
                 /\ w.pc = "sync" /\ chan' = chan
      BY <1>0, <2>4 DEF SyncObject, Goto, Worker
    <2>5. CASE \E q \in Objects : SyncObject(q)
      BY <2>4, <2>5 DEF EntryInv
    <2> QED BY <1>0, <2>1, <2>2, <2>3, <2>5, WorkerKeeps
  <1> QED BY <1>0, <1>1, <1>3, <1>4 DEF EntryInv

LEMMA EntryStep ==
  ASSUME TypeInv, MarksInv, NEW c \in Channels, NEW o \in Objects,
         EntryInv(c, o), [Next]_vars
  PROVE  EntryInv(c, o)'
  <1>0. w \in Worker
    BY DEF TypeInv, TypeOK
  <1>1. CASE WorkerStep
    BY <1>1, EntryWorker
  <1>2. CASE Environment
    BY <1>2 DEF EntryInv, Environment, UserWritesChannel, UserWritesObject,
                UserWritesRBAC, FleetChanges, Restart, Stabilise
  <1>3. CASE /\ UNCHANGED <<chan, obj, quiet>>
             /\ w'.key = w.key /\ w'.inst = w.inst /\ w'.pc = w.pc
             /\ w'.snap = w.snap /\ w'.kind = w.kind
    BY <1>3 DEF EntryInv, MarkIsRight, Marks, Wants, Target
  <1>4. CASE Collector
    <2>1. UNCHANGED <<chan, obj, quiet>>
          /\ (w' = w \/ w' = [w EXCEPT !.current = FALSE])
      BY <1>4 DEF Collector, RoleCollected, BindingCollected, CollectRole,
                  CollectBinding, Outdated
    <2> QED BY <1>0, <1>3, <2>1 DEF Worker
  <1>5. CASE UNCHANGED vars
    BY <1>3, <1>5 DEF vars, hub
  <1>6. ASSUME NEW d \in Channels, Start(d) PROVE EntryInv(c, o)'
    <2>1. UNCHANGED <<chan, obj, quiet>>
      BY <1>6 DEF Start, hub
    <2>2. w'.key = d /\ w'.inst = chan[d] /\ w'.pc # "sync"
      BY <1>6, IdleType DEF Start, Worker
    <2> QED BY <2>1, <2>2 DEF EntryInv, MarkIsRight, Marks, Wants, Target
  <1> QED BY <1>1, <1>2, <1>4, <1>5, <1>6 DEF Next

(* Once failures and users have stopped, an annotation that lists a channel *)
(* rightly, or rightly does not, does so for good: no later reconcile of    *)
(* this or of another channel takes the entry out and puts it back          *)
(* (syncReferredObjAnnotationLabel, UpdateServingChannel).                  *)
THEOREM RightForGood == Spec => MarksStay
  <1>1. ASSUME NEW c \in Channels, NEW o \in Objects
        PROVE  Spec => [](quiet /\ w.key # c /\ MarkIsRight(c, o)
                             => []MarkIsRight(c, o))
    <2>1. TypeInv /\ MarksInv /\ EntryInv(c, o) /\ [Next]_vars
             => EntryInv(c, o)'
      BY EntryStep
    <2>2. quiet /\ w.key # c /\ MarkIsRight(c, o) => EntryInv(c, o)
      BY DEF EntryInv
    <2>3. EntryInv(c, o) => MarkIsRight(c, o)
      BY DEF EntryInv
    <2> QED BY <2>1, <2>2, <2>3, TypeInvariance, MarksInvariance, PTL DEF Spec
  <1> QED BY <1>1 DEF MarksStay
=============================================================================
