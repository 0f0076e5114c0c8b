--------------------------- MODULE ChannelProofs ---------------------------
(* Proofs about the channel reconciler, for any number of channels, objects *)
(* and clusters.                                                            *)
EXTENDS ChannelProperties, TLAPS

USE DEF Kinds

(* What the type invariant needs to be inductive: a busy worker has a key,  *)
(* and past the first read it has an instance unless the channel was not    *)
(* found.                                                                   *)
WorkerSound ==
    /\ w.pc # "idle" => w.key \in Channels
    /\ w.pc \notin {"idle", "list", "sync"} => w.inst # Absent

TypeInv == TypeOK /\ WorkerSound

----------------------------------------------------------------------------
(* Facts about the operators.                                               *)

LEMMA IdleType == Idle \in Worker
  BY DEF Idle, Worker, Calls

LEMMA NewObjectType == NewObjects \subseteq Object
  BY DEF NewObjects, Object

(* Rules name only what the references of the spec name.                    *)
LEMMA RulesForType ==
  ASSUME NEW s \in ChannelSpec PROVE RulesFor(s) \in Rules
  <1> DEFINE r(k) == IF s.ref[k] = NoRef \/ s.ref[k].name = EmptyName
                     THEN NoRef ELSE s.ref[k].name
  <1>1. ASSUME NEW k \in Kinds PROVE r(k) \in Names \cup {NoRef}
    BY DEF ChannelSpec, Refs
  <1> QED BY <1>1 DEF RulesFor, Rules

(* A worker state that AtRefs returns is idle, or v at one of three calls.  *)
LEMMA AtRefsType ==
  ASSUME NEW v \in Worker, NEW ks
  PROVE  /\ AtRefs(v, ks) \in Worker
         /\ \/ AtRefs(v, ks) = Idle
            \/ /\ AtRefs(v, ks).pc \in {"label", "roleClean"}
               /\ AtRefs(v, ks).key = v.key
               /\ AtRefs(v, ks).inst = v.inst
               /\ AtRefs(v, ks).snap = v.snap
               /\ AtRefs(v, ks).fresh = v.fresh
  <1> DEFINE S == [v EXCEPT !.pc = "label", !.kind = "Secret"]
             M == [v EXCEPT !.pc = "label", !.kind = "ConfigMap"]
             R == [v EXCEPT !.pc = "roleClean"]
             A == AtRefs(v, ks)
  <1>1. A = S \/ A = M \/ A = R \/ A = Idle
    BY Zenon DEF AtRefs, AfterRefs
  <1>2. S \in Worker /\ S.pc = "label" /\ S.key = v.key /\ S.inst = v.inst
        /\ S.snap = v.snap /\ S.fresh = v.fresh
    BY DEF Worker, Calls
  <1>3. M \in Worker /\ M.pc = "label" /\ M.key = v.key /\ M.inst = v.inst
        /\ M.snap = v.snap /\ M.fresh = v.fresh
    BY DEF Worker, Calls
  <1>4. R \in Worker /\ R.pc = "roleClean" /\ R.key = v.key /\ R.inst = v.inst
        /\ R.snap = v.snap /\ R.fresh = v.fresh
    BY DEF Worker, Calls
  <1> HIDE DEF S, M, R
  <1> QED BY <1>1, <1>2, <1>3, <1>4, IdleType

LEMMA IdleKey == ASSUME NEW c \in Channels PROVE Idle.key # c
  BY SentinelsAssumption DEF Idle

(* A reconcile is of one channel and of one instance from its start to its  *)
(* end, and comes to the listed objects only by listing them.               *)
SameJob(v) == v.key = w.key /\ v.inst = w.inst /\ v.pc # "sync"

LEMMA WorkerKeeps ==
  ASSUME w \in Worker, WorkerStep
  PROVE  \/ w' = Idle \/ SameJob(w')
         \/ /\ w'.key = w.key /\ w'.inst = w.inst
            /\ ListLabelled \/ \E o \in Objects : SyncObject(o)
  <1>1. ASSUME NEW v, SameJob(v) \/ v = Idle,
               Goto(v) \/ GotoOrFail(v) \/ Goto(Idle)
        PROVE  SameJob(w') \/ w' = Idle
    BY <1>1 DEF Goto, GotoOrFail, SameJob
  <1>2. ASSUME NEW v \in Worker, v.key = w.key, v.inst = w.inst, NEW ks
        PROVE  SameJob(AtRefs(v, ks)) \/ AtRefs(v, ks) = Idle
    BY <1>2, AtRefsType DEF SameJob
  <1>3. CASE CallFails \/ FixPathname \/ DeleteRoleBinding
    BY <1>3 DEF CallFails, FixPathname, DeleteRoleBinding, Goto
  <1>4. CASE FindMultiClusterHubNS
    <2>1. PICK ns \in Namespaces \cup {NoNs} :
            Goto(IF NsOf[w.key] = ns THEN AtRefs([w EXCEPT !.acm = ns], Kinds)
                 ELSE [[w EXCEPT !.acm = ns] EXCEPT !.pc = "role"])
      BY <1>4 DEF FindMultiClusterHubNS
    <2> DEFINE v == [w EXCEPT !.acm = ns]
               u == [v EXCEPT !.pc = "role"]
    <2>2. v \in Worker /\ v.key = w.key /\ v.inst = w.inst /\ SameJob(u)
      BY DEF Worker, SameJob
    <2> HIDE DEF v, u
    <2>3. Goto(AtRefs(v, Kinds)) \/ Goto(u)
      BY <2>1 DEF v, u
    <2> QED BY <1>1, <1>2, <2>2, <2>3
  <1>5. CASE GetRole \/ WriteRole
    <2> DEFINE u1 == [w EXCEPT !.pc = "roleWrite", !.create = TRUE]
               u2 == [w EXCEPT !.pc = "clusters"]
               u3 == [w EXCEPT !.pc = "roleWrite", !.create = FALSE,
                               !.current = TRUE]
    <2>1. SameJob(u1) /\ SameJob(u2) /\ SameJob(u3)
      BY DEF Worker, SameJob
    <2>2. Goto(u1) \/ Goto(u2) \/ Goto(u3) \/ GotoOrFail(u2) \/ Goto(Idle)
      BY <1>5 DEF GetRole, WriteRole
    <2> HIDE DEF u1, u2, u3
    <2> QED BY <1>1, <2>1, <2>2
  <1>6. CASE ListClusters \/ GetRoleBinding \/ WriteRoleBinding
    <2> DEFINE u1 == [w EXCEPT !.pc = "binding", !.subjects = clusters]
               u2 == [w EXCEPT !.pc = "bindingWrite", !.create = TRUE]
               u3 == [w EXCEPT !.pc = "bindingWrite", !.create = FALSE,
                               !.current = TRUE]
               A == AtRefs(w, Kinds)
    <2>1. SameJob(u1) /\ SameJob(u2) /\ SameJob(u3)
      BY DEF Worker, SameJob
    <2>2. \/ Goto(u1) \/ Goto(u2) \/ Goto(u3) \/ Goto(Idle)
          \/ Goto(A) \/ GotoOrFail(A)
      BY <1>6 DEF ListClusters, GetRoleBinding, WriteRoleBinding
    <2>3. SameJob(A) \/ A = Idle
      BY <1>2
    <2> HIDE DEF u1, u2, u3, A
    <2> QED BY <1>1, <2>1, <2>2, <2>3
  <1>7. CASE GetReferencedObject \/ LabelReferencedObject
    <2> DEFINE u1(t) == [w EXCEPT !.pc = "labelWrite", !.snap[t] = obj[t],
                                  !.fresh = {t}]
               u2(t) == [w EXCEPT !.pc = "list", !.snap[t] = Absent,
                                  !.fresh = {}]
    <2>1. \A t : SameJob(u1(t)) /\ SameJob(u2(t))
      BY DEF Worker, SameJob
    <2>2. w' = Idle \/ \E t : w' = u1(t) \/ w' = u2(t)
      BY <1>7 DEF GetReferencedObject, LabelReferencedObject, GotoOrFail, Goto
    <2> HIDE DEF u1, u2
    <2> QED BY <2>1, <2>2
  <1>8. CASE ListLabelled \/ \E o \in Objects : SyncObject(o)
    BY <1>8 DEF ListLabelled, SyncObject, Goto, Worker
  <1>9. CASE SyncDone
    <2> DEFINE u == [w EXCEPT !.pc = "list", !.kind = "ConfigMap"]
               A == AtRefs(w, KindsAfter(w.kind))
    <2>1. SameJob(u)
      BY DEF Worker, SameJob
    <2>2. Goto(A) \/ Goto(u) \/ Goto(Idle)
      BY <1>9 DEF SyncDone
    <2>3. SameJob(A) \/ A = Idle
      BY <1>2
    <2> HIDE DEF u, A
    <2> QED BY <1>1, <2>1, <2>2, <2>3
  <1>10. CASE GetRoleToClean \/ DeleteRole \/ GetBindingToClean
    <2> DEFINE u1 == [w EXCEPT !.pc = "roleDelete"]
               u2 == [w EXCEPT !.pc = "bindingClean"]
               u3 == [w EXCEPT !.pc = "bindingDelete"]
    <2>1. SameJob(u1) /\ SameJob(u2) /\ SameJob(u3)
      BY DEF Worker, SameJob
    <2>2. Goto(u1) \/ Goto(u2) \/ GotoOrFail(u2) \/ Goto(u3) \/ Goto(Idle)
      BY <1>10 DEF GetRoleToClean, DeleteRole, GetBindingToClean
    <2> HIDE DEF u1, u2, u3
    <2> QED BY <1>1, <2>1, <2>2
  <1> QED BY <1>3, <1>4, <1>5, <1>6, <1>7, <1>8, <1>9, <1>10 DEF WorkerStep

----------------------------------------------------------------------------
(* Type correctness.                                                        *)

(* What a step to worker state v has to show about v.                       *)
Sound(v) == /\ v \in Worker
            /\ v.pc # "idle" => v.key \in Channels
            /\ v.pc \notin {"idle", "list", "sync"} => v.inst # Absent

LEMMA SoundIdle == Sound(Idle)
  BY IdleType DEF Sound, Idle

LEMMA GotoType ==
  ASSUME TypeInv, w.pc # "idle", NEW v, Sound(v), Goto(v)
  PROVE  w' \in Worker /\ WorkerSound' /\ queue' \in SUBSET Channels
  <1>1. w' \in Worker /\ WorkerSound'
    BY DEF Goto, Sound, WorkerSound
  <1>2. queue' = queue \/ queue' = queue \cup {w.key}
    BY DEF Goto
  <1>3. queue \in SUBSET Channels /\ w.key \in Channels
    BY DEF TypeInv, TypeOK, WorkerSound
  <1> QED BY <1>1, <1>2, <1>3

LEMMA GotoOrFailType ==
  ASSUME TypeInv, w.pc # "idle", NEW v, Sound(v), GotoOrFail(v)
  PROVE  w' \in Worker /\ WorkerSound' /\ queue' \in SUBSET Channels
  <1>1. Goto(v) \/ Goto(Idle)
    BY DEF GotoOrFail
  <1> QED BY <1>1, GotoType, SoundIdle

LEMMA SoundAtRefs ==
  ASSUME NEW v, Sound(v), v.pc # "idle", v.inst # Absent, NEW ks
  PROVE  Sound(AtRefs(v, ks))
  BY AtRefsType, SoundIdle DEF Sound

LEMMA TypeInit == Init => TypeInv
  <1> SUFFICES ASSUME Init PROVE TypeInv
    OBVIOUS
  <1>1. HubTypeOK
    BY DEF Init, HubInit, HubTypeOK
  <1>2. WorkerSound
    BY DEF Init, Idle, WorkerSound
  <1> QED BY <1>1, <1>2, IdleType DEF Init, TypeInv, TypeOK

(* Steps that leave the hub alone.                                          *)
LEMMA TypeReads ==
  ASSUME TypeInv,
         \/ CallFails \/ FindMultiClusterHubNS \/ GetRole \/ ListClusters
         \/ GetRoleBinding \/ GetReferencedObject \/ ListLabelled \/ SyncDone
         \/ GetRoleToClean \/ GetBindingToClean
  PROVE  TypeInv'
  <1> USE DEF TypeInv, TypeOK, WorkerSound
  <1>0. Sound(w)
    BY DEF Sound
  <1>H. HubTypeOK' /\ quiet' \in BOOLEAN
    BY DEF HubTypeOK, hub, rbac, fleet, CallFails, FindMultiClusterHubNS,
           GetRole, ListClusters, GetRoleBinding, GetReferencedObject,
           ListLabelled, SyncDone, GetRoleToClean, GetBindingToClean
  <1> SUFFICES w' \in Worker /\ WorkerSound' /\ queue' \in SUBSET Channels
    BY <1>H
  <1> HIDE DEF TypeInv, TypeOK, WorkerSound
  <1>1. CASE CallFails
    BY <1>1, GotoType, SoundIdle DEF CallFails, Calls
  <1>2. CASE FindMultiClusterHubNS
    <2>1. PICK ns \in Namespaces \cup {NoNs} :
            Goto(IF NsOf[w.key] = ns THEN AtRefs([w EXCEPT !.acm = ns], Kinds)
                 ELSE [[w EXCEPT !.acm = ns] EXCEPT !.pc = "role"])
      BY <1>2 DEF FindMultiClusterHubNS
    <2> DEFINE v == [w EXCEPT !.acm = ns]
               u == [v EXCEPT !.pc = "role"]
    <2>2. Sound(v) /\ v.pc = "mch" /\ v.inst # Absent
      BY <1>0, <1>2 DEF Sound, Worker, FindMultiClusterHubNS
    <2>3. Sound(u)
      BY <2>2 DEF Sound, Worker, Calls
    <2> HIDE DEF v, u
    <2>4. Goto(AtRefs(v, Kinds)) \/ Goto(u)
      BY <2>1 DEF v, u
    <2>5. w.pc # "idle"
      BY <1>2 DEF FindMultiClusterHubNS
    <2> QED BY <2>2, <2>3, <2>4, <2>5, SoundAtRefs, GotoType
  <1>3. CASE GetRole
    <2> DEFINE u1 == [w EXCEPT !.pc = "roleWrite", !.create = TRUE]
               u2 == [w EXCEPT !.pc = "clusters"]
               u3 == [w EXCEPT !.pc = "roleWrite", !.create = FALSE,
                               !.current = TRUE]
    <2>1. w.pc = "role" /\ w.inst # Absent
      BY <1>0, <1>3 DEF GetRole, Sound
    <2>2. Sound(u1) /\ Sound(u2) /\ Sound(u3)
      BY <1>0, <2>1 DEF Sound, Worker, Calls
    <2>3. Goto(u1) \/ Goto(u2) \/ Goto(u3) \/ Goto(Idle)
      BY <1>3 DEF GetRole
    <2> HIDE DEF u1, u2, u3
    <2> QED BY <2>1, <2>2, <2>3, SoundIdle, GotoType
  <1>4. CASE ListClusters
    <2> DEFINE u1 == [w EXCEPT !.pc = "binding", !.subjects = clusters]
    <2>1. w.pc = "clusters" /\ w.inst # Absent
      BY <1>0, <1>4 DEF ListClusters, Sound
    <2>2. Sound(u1)
      BY <1>0, <2>1 DEF Sound, Worker, Calls, TypeInv, TypeOK, HubTypeOK
    <2>3. Goto(u1) \/ Goto(AtRefs(w, Kinds))
      BY <1>4 DEF ListClusters
    <2> HIDE DEF u1
    <2> QED BY <1>0, <2>1, <2>2, <2>3, SoundAtRefs, GotoType
  <1>5. CASE GetRoleBinding
    <2> DEFINE u1 == [w EXCEPT !.pc = "bindingWrite", !.create = TRUE]
               u2 == [w EXCEPT !.pc = "bindingWrite", !.create = FALSE,
                               !.current = TRUE]
    <2>1. w.pc = "binding" /\ w.inst # Absent
      BY <1>0, <1>5 DEF GetRoleBinding, Sound
    <2>2. Sound(u1) /\ Sound(u2)
      BY <1>0, <2>1 DEF Sound, Worker, Calls
    <2>3. Goto(u1) \/ Goto(u2) \/ Goto(AtRefs(w, Kinds)) \/ Goto(Idle)
      BY <1>5 DEF GetRoleBinding
    <2> HIDE DEF u1, u2
    <2> QED BY <1>0, <2>1, <2>2, <2>3, SoundAtRefs, SoundIdle, GotoType
  <1>6. CASE GetReferencedObject
    <2> DEFINE t == [kind |-> w.kind, ns |-> Pinned(w.kind).ns,
                     name |-> Pinned(w.kind).name]
               u1 == [w EXCEPT !.pc = "labelWrite", !.snap[t] = obj[t],
                               !.fresh = {t}]
    <2>1. w.pc = "label" /\ w.inst # Absent
      BY <1>0, <1>6 DEF GetReferencedObject, Sound
    <2>2. (t \in Objects /\ Goto(u1)) \/ Goto(Idle)
      BY <1>6 DEF GetReferencedObject
    <2> HIDE DEF t
    <2>3. t \in Objects => Sound(u1)
      BY <1>0, <2>1 DEF Sound, Worker, Calls, TypeInv, TypeOK, HubTypeOK
    <2> HIDE DEF u1
    <2> QED BY <2>1, <2>2, <2>3, SoundIdle, GotoType
  <1>7. CASE ListLabelled
    <2> DEFINE S == {o \in Objects :
                       o.kind = w.kind /\ obj[o] # Absent /\ obj[o].label}
               snap == [o \in Objects |-> IF o \in S THEN obj[o] ELSE Absent]
               u1 == [w EXCEPT !.pc = "sync", !.fresh = S, !.snap = snap]
    <2>1. w.pc = "list"
      BY <1>7 DEF ListLabelled
    <2>2. Goto(u1)
      BY <1>7 DEF ListLabelled
    <2>3. S \subseteq Objects
      OBVIOUS
    <2> HIDE DEF S
    <2>4. snap \in [Objects -> Object \cup {Absent}]
      BY DEF TypeInv, TypeOK, HubTypeOK
    <2> HIDE DEF snap
    <2>5. Sound(u1)
      BY <1>0, <2>1, <2>3, <2>4 DEF Sound, Worker, Calls
    <2> HIDE DEF u1
    <2> QED BY <2>1, <2>2, <2>5, GotoType
  <1>8. CASE SyncDone
    <2> DEFINE u1 == [w EXCEPT !.pc = "list", !.kind = "ConfigMap"]
               A == AtRefs(w, KindsAfter(w.kind))
    <2>1. w.pc = "sync"
      BY <1>8 DEF SyncDone
    <2>2. Sound(u1)
      BY <1>0, <2>1 DEF Sound, Worker, Calls
    <2>3. (w.inst # Absent /\ Goto(A)) \/ Goto(u1) \/ Goto(Idle)
      BY <1>8 DEF SyncDone
    <2>4. w.inst # Absent => Sound(A)
      BY <1>0, <2>1, SoundAtRefs
    <2> HIDE DEF u1, A
    <2> QED BY <2>1, <2>2, <2>3, <2>4, SoundIdle, GotoType
  <1>9. CASE GetRoleToClean \/ GetBindingToClean
    <2> DEFINE u1 == [w EXCEPT !.pc = "roleDelete"]
               u2 == [w EXCEPT !.pc = "bindingClean"]
               u3 == [w EXCEPT !.pc = "bindingDelete"]
    <2>1. w.pc \in {"roleClean", "bindingClean"} /\ w.inst # Absent
      BY <1>0, <1>9 DEF GetRoleToClean, GetBindingToClean, Sound
    <2>2. Sound(u1) /\ Sound(u2) /\ Sound(u3)
      BY <1>0, <2>1 DEF Sound, Worker, Calls
    <2>3. Goto(u1) \/ Goto(u2) \/ Goto(u3) \/ Goto(Idle)
      BY <1>9 DEF GetRoleToClean, GetBindingToClean
    <2> HIDE DEF u1, u2, u3
    <2> QED BY <2>1, <2>2, <2>3, SoundIdle, GotoType
  <1> QED
    BY <1>1, <1>2, <1>3, <1>4, <1>5, <1>6, <1>7, <1>8, <1>9

(* The worker's writes.                                                     *)
LEMMA TypeWrites ==
  ASSUME TypeInv,
         \/ FixPathname \/ WriteRole \/ WriteRoleBinding
         \/ LabelReferencedObject \/ (\E o \in Objects : SyncObject(o))
         \/ DeleteRole \/ DeleteRoleBinding
  PROVE  TypeInv'
  <1>0. Sound(w) /\ quiet \in BOOLEAN /\ HubTypeOK
    BY DEF Sound, TypeInv, TypeOK, WorkerSound
  <1> SUFFICES /\ HubTypeOK' /\ quiet' \in BOOLEAN
               /\ w' \in Worker /\ WorkerSound' /\ queue' \in SUBSET Channels
    BY DEF TypeInv, TypeOK
  <1>1. CASE FixPathname
    <2> DEFINE v == [w.inst EXCEPT !.spec.pathOk = TRUE]
    <2>1. w.pc = "path" /\ w.inst # Absent
      BY <1>0, <1>1 DEF FixPathname, Sound
    <2>2. v \in Channel
      BY <1>0, <2>1 DEF Sound, Worker, Channel, ChannelSpec
    <2>3. chan' = chan \/ chan' = [chan EXCEPT ![w.key] = v]
      BY <1>1 DEF FixPathname
    <2> HIDE DEF v
    <2>4. HubTypeOK' /\ quiet' \in BOOLEAN
      BY <1>0, <1>1, <2>2, <2>3 DEF FixPathname, HubTypeOK, rbac, fleet
    <2>5. Goto(Idle)
      BY <1>1 DEF FixPathname
    <2> QED BY <2>1, <2>4, <2>5, SoundIdle, GotoType
  <1>2. CASE WriteRole
    <2> DEFINE v == [rules |-> RulesFor(w.inst.spec), owner |-> NewOwner,
                     granted |-> TRUE]
               u == [w EXCEPT !.pc = "clusters"]
    <2>1. w.pc = "roleWrite" /\ w.inst # Absent
      BY <1>0, <1>2 DEF WriteRole, Sound
    <2>2. w.inst \in Channel /\ w.inst.spec \in ChannelSpec /\ w.inst.uid \in Nat
      BY <1>0, <2>1 DEF Sound, Worker, Channel
    <2>3. v \in Role
      BY <2>2, RulesForType DEF Role, NewOwner, Owners
    <2>4. role' = role \/ role' = [role EXCEPT ![w.key] = v]
      BY <1>2 DEF WriteRole
    <2>5. GotoOrFail(u) \/ Goto(Idle)
      BY <1>2 DEF WriteRole
    <2>6. Sound(u)
      BY <1>0, <2>1 DEF Sound, Worker, Calls
    <2> HIDE DEF v, u
    <2>7. HubTypeOK' /\ quiet' \in BOOLEAN
      BY <1>0, <1>2, <2>3, <2>4 DEF WriteRole, HubTypeOK, fleet
    <2> QED BY <2>1, <2>5, <2>6, <2>7, SoundIdle, GotoType, GotoOrFailType
  <1>3. CASE WriteRoleBinding
    <2> DEFINE v == [subjects |-> w.subjects, roleRef |-> TRUE,
                     owner |-> NewOwner, granted |-> TRUE]
    <2>1. w.pc = "bindingWrite" /\ w.inst # Absent
      BY <1>0, <1>3 DEF WriteRoleBinding, Sound
    <2>2. w.inst.uid \in Nat /\ w.subjects \in SUBSET Clusters
      BY <1>0, <2>1 DEF Sound, Worker, Channel
    <2>3. v \in Binding
      BY <2>2 DEF Binding, NewOwner, Owners
    <2>4. binding' = binding \/ binding' = [binding EXCEPT ![w.key] = v]
      BY <1>3 DEF WriteRoleBinding
    <2>5. GotoOrFail(AtRefs(w, Kinds)) \/ Goto(Idle)
      BY <1>3 DEF WriteRoleBinding
    <2>6. Sound(AtRefs(w, Kinds))
      BY <1>0, <2>1, SoundAtRefs
    <2> HIDE DEF v
    <2>7. HubTypeOK' /\ quiet' \in BOOLEAN
      BY <1>0, <1>3, <2>3, <2>4 DEF WriteRoleBinding, HubTypeOK, fleet
    <2> QED BY <2>1, <2>5, <2>6, <2>7, SoundIdle, GotoType, GotoOrFailType
  <1>4. CASE LabelReferencedObject
    <2>1. PICK o \in Objects :
            /\ w.snap[o] # Absent
            /\ \/ /\ obj' = [obj EXCEPT ![o] = [w.snap[o] EXCEPT !.label = TRUE]]
                  /\ GotoOrFail([w EXCEPT !.pc = "list", !.snap[o] = Absent,
                                          !.fresh = {}])
               \/ UNCHANGED obj /\ Goto(Idle)
      BY <1>4 DEF LabelReferencedObject
    <2> DEFINE v == [w.snap[o] EXCEPT !.label = TRUE]
               u == [w EXCEPT !.pc = "list", !.snap[o] = Absent, !.fresh = {}]
    <2>2. w.pc = "labelWrite"
      BY <1>4 DEF LabelReferencedObject
    <2>3. v \in Object
      BY <1>0, <2>1 DEF Sound, Worker, Object
    <2>4. Sound(u)
      BY <1>0, <2>2 DEF Sound, Worker, Calls
    <2>5. GotoOrFail(u) \/ Goto(Idle)
      BY <2>1
    <2>6. obj' = obj \/ obj' = [obj EXCEPT ![o] = v]
      BY <2>1
    <2> HIDE DEF v, u
    <2>7. HubTypeOK' /\ quiet' \in BOOLEAN
      BY <1>0, <1>4, <2>3, <2>6 DEF LabelReferencedObject, HubTypeOK, rbac, fleet
    <2> QED BY <2>2, <2>4, <2>5, <2>7, SoundIdle, GotoType, GotoOrFailType
  <1>5. CASE \E o \in Objects : SyncObject(o)
    <2>1. PICK o \in Objects : SyncObject(o)
      BY <1>5
    <2> DEFINE m == UpdateServingChannel(w.snap[o].serving, w.key, Action(o))
               v == Synced(w.snap[o], m)
               u == [w EXCEPT !.snap[o] = Absent, !.fresh = @ \ {o}]
    <2>2. w.pc = "sync" /\ w.snap[o] # Absent /\ w.key \in Channels
      BY <1>0, <2>1 DEF SyncObject, Sound
    <2>3. w.snap[o] \in Object
      BY <1>0, <2>2 DEF Sound, Worker
    <2>4. m \in SUBSET Channels
      BY <2>2, <2>3 DEF UpdateServingChannel, Object
    <2>5. obj' = obj \/ obj' = [obj EXCEPT ![o] = v]
      BY <2>1 DEF SyncObject
    <2>6. Goto(u)
      BY <2>1 DEF SyncObject
    <2> HIDE DEF m
    <2>7. v \in Object
      BY <2>3, <2>4 DEF Synced, Object
    <2>8. Sound(u)
      BY <1>0, <2>2 DEF Sound, Worker, Calls
    <2> HIDE DEF v, u
    <2>9. HubTypeOK' /\ quiet' \in BOOLEAN
      BY <1>0, <2>1, <2>5, <2>7 DEF SyncObject, HubTypeOK, rbac, fleet
    <2> QED BY <2>2, <2>6, <2>8, <2>9, GotoType
  <1>6. CASE DeleteRole
    <2> DEFINE u == [w EXCEPT !.pc = "bindingClean"]
    <2>1. w.pc = "roleDelete" /\ w.inst # Absent
      BY <1>0, <1>6 DEF DeleteRole, Sound
    <2>2. Sound(u)
      BY <1>0, <2>1 DEF Sound, Worker, Calls
    <2>3. GotoOrFail(u) \/ Goto(Idle)
      BY <1>6 DEF DeleteRole
    <2> HIDE DEF u
    <2>4. role' = role \/ role' = [role EXCEPT ![w.key] = Absent]
      BY <1>6 DEF DeleteRole
    <2>5. HubTypeOK' /\ quiet' \in BOOLEAN
      BY <1>0, <1>6, <2>4 DEF DeleteRole, HubTypeOK, fleet
    <2> QED BY <2>1, <2>2, <2>3, <2>5, SoundIdle, GotoType, GotoOrFailType
  <1>7. CASE DeleteRoleBinding
    <2>1. w.pc = "bindingDelete" /\ Goto(Idle)
      BY <1>7 DEF DeleteRoleBinding
    <2>2. HubTypeOK' /\ quiet' \in BOOLEAN
      BY <1>0, <1>7 DEF DeleteRoleBinding, HubTypeOK, fleet
    <2> QED BY <2>1, <2>2, SoundIdle, GotoType
  <1> QED
    BY <1>1, <1>2, <1>3, <1>4, <1>5, <1>6, <1>7

(* A key is taken from the queue.                                           *)
LEMMA TypeStart ==
  ASSUME TypeInv, NEW c \in Channels, Start(c)
  PROVE  TypeInv'
  <1> DEFINE p == IF chan[c] = Absent THEN "list"
                  ELSE IF chan[c].spec.isNs /\ ~chan[c].spec.pathOk
                       THEN "path" ELSE "mch"
  <1>1. p \in Calls /\ (p # "list" => chan[c] # Absent)
    BY DEF Calls
  <1>2. w' = [Idle EXCEPT !.key = c, !.inst = chan[c], !.current = TRUE, !.pc = p]
    BY DEF Start
  <1> HIDE DEF p
  <1>3. chan[c] \in Channel \cup {Absent}
    BY DEF TypeInv, TypeOK, HubTypeOK
  <1>4. w' \in Worker /\ WorkerSound'
    BY <1>1, <1>2, <1>3, IdleType DEF Worker, WorkerSound
  <1>5. HubTypeOK' /\ quiet' \in BOOLEAN /\ queue' \in SUBSET Channels
    BY DEF Start, TypeInv, TypeOK, HubTypeOK, hub, rbac, fleet
  <1> QED BY <1>4, <1>5 DEF TypeInv, TypeOK

LEMMA OutdatedType ==
  ASSUME TypeInv, NEW c, NEW p, w' = Outdated(c, p)
  PROVE  w' \in Worker /\ WorkerSound'
  BY DEF TypeInv, TypeOK, WorkerSound, Outdated, Worker

(* Everybody but the controller.                                            *)
LEMMA TypeOthers ==
  ASSUME TypeInv, Collector \/ Environment
  PROVE  TypeInv'
  <1>0. /\ HubTypeOK /\ w \in Worker /\ WorkerSound
        /\ queue \in SUBSET Channels /\ quiet \in BOOLEAN
    BY DEF TypeInv, TypeOK
  <1> SUFFICES /\ HubTypeOK' /\ quiet' \in BOOLEAN
               /\ w' \in Worker /\ WorkerSound' /\ queue' \in SUBSET Channels
    BY DEF TypeInv, TypeOK
  <1>1. ASSUME NEW c \in Channels, RoleCollected(c) \/ BindingCollected(c)
        PROVE  TypeInv'
    <2>1. HubTypeOK' /\ quiet' \in BOOLEAN /\ queue' \in SUBSET Channels
      BY <1>0, <1>1 DEF RoleCollected, BindingCollected, CollectRole,
                        CollectBinding, HubTypeOK, rbac, fleet
    <2>2. w' \in Worker /\ WorkerSound'
      BY <1>1, OutdatedType DEF RoleCollected, BindingCollected
    <2> QED BY <2>1, <2>2 DEF TypeInv, TypeOK
  <1>2. ASSUME NEW c \in Channels, UserWritesChannel(c) PROVE TypeInv'
    <2>1. chan' \in [Channels -> Channel \cup {Absent}] /\ nextUid' \in Nat
      <3>1. ASSUME NEW s \in Specs, CreateChannel(c, s)
            PROVE  chan' \in [Channels -> Channel \cup {Absent}] /\ nextUid' \in Nat
        <4>1. [uid |-> nextUid, spec |-> s] \in Channel
          BY <1>0, ConstantsAssumption DEF Channel, HubTypeOK
        <4> QED BY <1>0, <3>1, <4>1 DEF CreateChannel, HubTypeOK
      <3>2. ASSUME NEW s \in Specs, UpdateChannel(c, s)
            PROVE  chan' \in [Channels -> Channel \cup {Absent}] /\ nextUid' \in Nat
        <4>1. [chan[c] EXCEPT !.spec = s] \in Channel
          BY <1>0, <3>2, ConstantsAssumption DEF UpdateChannel, Channel, HubTypeOK
        <4> QED BY <1>0, <3>2, <4>1 DEF UpdateChannel, HubTypeOK
      <3>3. CASE DeleteChannel(c)
        BY <1>0, <3>3 DEF DeleteChannel, HubTypeOK
      <3> QED BY <1>2, <3>1, <3>2, <3>3 DEF UserWritesChannel, WriteChannel
    <2>2. UNCHANGED <<obj, rbac, fleet>>
      BY <1>2 DEF UserWritesChannel, WriteChannel, CreateChannel,
                  UpdateChannel, DeleteChannel
    <2>3. HubTypeOK'
      BY <1>0, <2>1, <2>2 DEF HubTypeOK, rbac, fleet
    <2>4. w' \in Worker /\ WorkerSound'
      BY <1>2, OutdatedType DEF UserWritesChannel
    <2> QED BY <1>0, <1>2, <2>3, <2>4 DEF UserWritesChannel, TypeInv, TypeOK
  <1>3. ASSUME NEW o \in Objects, UserWritesObject(o) PROVE TypeInv'
    <2>1. HubTypeOK'
      BY <1>0, <1>3, NewObjectType
         DEF UserWritesObject, WriteObject, HubTypeOK, rbac, fleet
    <2>2. w' \in Worker /\ WorkerSound'
      BY <1>0, <1>3 DEF UserWritesObject, Worker, WorkerSound
    <2> QED BY <1>0, <1>3, <2>1, <2>2 DEF UserWritesObject, TypeInv, TypeOK
  <1>4. ASSUME NEW c \in Channels, UserWritesRBAC(c) PROVE TypeInv'
    <2>1. HubTypeOK'
      <3>1. CASE EditRole(c)
        <4>1. \A r \in UserRules, o \in NotOurs :
                [rules |-> r, owner |-> o, granted |-> FALSE] \in Role
          BY ConstantsAssumption DEF Role, NotOurs, Owners
        <4>2. role[c] # Absent =>
                \A r \in UserRules : [role[c] EXCEPT !.rules = r] \in Role
          BY <1>0, ConstantsAssumption DEF HubTypeOK, Role
        <4>3. role' \in [Channels -> Role \cup {Absent}]
          BY <1>0, <3>1, <4>1, <4>2 DEF EditRole, HubTypeOK
        <4> QED BY <1>0, <3>1, <4>3 DEF EditRole, HubTypeOK, fleet
      <3>2. CASE EditBinding(c)
        <4>1. \A s \in SUBSET Clusters, own \in BOOLEAN, o \in NotOurs :
                [subjects |-> s, roleRef |-> own, owner |-> o,
                 granted |-> FALSE] \in Binding
          BY DEF Binding, NotOurs, Owners
        <4>2. binding[c] # Absent =>
                \A s \in SUBSET Clusters :
                   [binding[c] EXCEPT !.subjects = s] \in Binding
          BY <1>0 DEF HubTypeOK, Binding
        <4>3. binding' \in [Channels -> Binding \cup {Absent}]
          BY <1>0, <3>2, <4>1, <4>2 DEF EditBinding, HubTypeOK
        <4> QED BY <1>0, <3>2, <4>3 DEF EditBinding, HubTypeOK, fleet
      <3> QED BY <1>4, <3>1, <3>2 DEF UserWritesRBAC
    <2>2. w' \in Worker /\ WorkerSound'
      BY <1>4, OutdatedType DEF UserWritesRBAC
    <2> QED BY <1>0, <1>4, <2>1, <2>2 DEF UserWritesRBAC, TypeInv, TypeOK
  <1>5. CASE FleetChanges
    <2>1. /\ clusters' \in SUBSET Clusters /\ clusterAPI' \in BOOLEAN
          /\ mch' \in SUBSET Namespaces
      BY <1>0, <1>5, ConstantsAssumption DEF FleetChanges, ChangeFleet, HubTypeOK
    <2>2. UNCHANGED <<chan, nextUid, obj, rbac, queue, w, quiet>>
      BY <1>5 DEF FleetChanges, ChangeFleet
    <2> QED BY <1>0, <2>1, <2>2 DEF HubTypeOK, WorkerSound, rbac
  <1>6. CASE Restart
    <2>1. HubTypeOK' /\ quiet' \in BOOLEAN /\ queue' \in SUBSET Channels
      BY <1>0, <1>6 DEF Restart, HubTypeOK, hub, rbac, fleet
    <2> QED BY <1>6, <2>1, IdleType DEF Restart, WorkerSound, Idle
  <1>7. CASE Stabilise
    BY <1>0, <1>7 DEF Stabilise, HubTypeOK, WorkerSound, hub, rbac, fleet
  <1>8. UserRBAC \subseteq Channels /\ UserObjects \subseteq Objects
    BY ConstantsAssumption
  <1> QED
    BY <1>1, <1>2, <1>3, <1>4, <1>5, <1>6, <1>7, <1>8
       DEF Collector, Environment, TypeInv, TypeOK

LEMMA TypeStep == TypeInv /\ [Next]_vars => TypeInv'
  <1> SUFFICES ASSUME TypeInv, [Next]_vars PROVE TypeInv'
    OBVIOUS
  <1>1. CASE UNCHANGED vars
    BY <1>1 DEF vars, hub, rbac, fleet, TypeInv, TypeOK, HubTypeOK, WorkerSound
  <1>2. CASE \E c \in Channels : Start(c)
    BY <1>2, TypeStart
  <1>3. CASE WorkerStep
    BY <1>3, TypeReads, TypeWrites DEF WorkerStep
  <1>4. CASE Collector \/ Environment
    BY <1>4, TypeOthers
  <1> QED BY <1>1, <1>2, <1>3, <1>4 DEF Next

LEMMA TypeInvariance == Spec => []TypeInv
  BY TypeInit, TypeStep, PTL DEF Spec

(* Every variable keeps its type: in particular a Role never names the      *)
(* empty reference "", and an annotation lists channel keys only.           *)
THEOREM TypeCorrect == Spec => []TypeOK
  <1>1. TypeInv => TypeOK
    BY DEF TypeInv
  <1> QED BY TypeInvariance, <1>1, PTL
=============================================================================
