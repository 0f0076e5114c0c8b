-------------------------- MODULE AdmissionProofs --------------------------
(* What the admission check keeps, whatever overlaps it, and behind a       *)
(* webhook that comes and goes.                                             *)
EXTENDS Admission, TLAPS

LEMMA IdleType ==
  ASSUME NEW c \in Channels
  PROVE  Idle(c) \in [phase : Phases, chan : Channels, type : Types,
                      vouched : BOOLEAN]
  BY DEF Idle, Phases, Types

LEMMA OutdatedType ==
  ASSUME TypeOK, NEW c \in Channels
  PROVE  Outdated(c) \in [Requests -> [phase : Phases, chan : Channels,
                                       type : Types, vouched : BOOLEAN]]
  BY DEF TypeOK, Outdated

LEMMA ValidatorTypeStep == TypeOK /\ [Next]_vars => TypeOK'
  <1> SUFFICES ASSUME TypeOK, [Next]_vars PROVE TypeOK'
    OBVIOUS
  <1>1. ASSUME NEW r \in Requests, NEW c \in Channels, NEW t \in Types,
               Submit(r, c, t)
        PROVE  TypeOK'
    BY <1>1 DEF Submit, TypeOK, Phases
  <1>2. ASSUME NEW r \in Requests, Handle(r) \/ ListFails(r) \/ Bypass(r)
        PROVE  TypeOK'
    <2>1. store' = store /\ loose' = loose
      BY <1>2 DEF Handle, ListFails, Bypass
    <2>2. CASE \E v \in BOOLEAN : Allowed(r, v)
      BY <2>1, <2>2 DEF Allowed, TypeOK, Phases
    <2>3. CASE Denied(r)
      BY <2>1, <2>3, IdleType DEF Denied, TypeOK
    <2> QED BY <1>2, <2>2, <2>3 DEF Handle, ListFails, Bypass
  <1>3. ASSUME NEW r \in Requests, Persist(r) PROVE TypeOK'
    <2>1. req[r].chan \in Channels /\ req[r].type \in Types
      BY DEF TypeOK
    <2>2. CASE Denied(r) /\ UNCHANGED <<store, loose>>
      BY <2>1, <2>2, IdleType DEF Denied, TypeOK
    <2>3. CASE /\ store' = [store EXCEPT ![req[r].chan] = req[r].type]
               /\ loose' \in {loose, loose \cup {req[r].chan}}
               /\ req' = [Outdated(req[r].chan) EXCEPT ![r] = Idle(req[r].chan)]
      BY <2>1, <2>3, IdleType, OutdatedType DEF TypeOK
    <2> QED BY <1>3, <2>2, <2>3 DEF Persist
  <1>4. ASSUME NEW c \in Channels, Delete(c) PROVE TypeOK'
    BY <1>4, OutdatedType DEF Delete, TypeOK
  <1>5. ASSUME NEW c \in Channels, NEW t \in Types, Retype(c, t) PROVE TypeOK'
    BY <1>5, OutdatedType DEF Retype, TypeOK
  <1>6. CASE UNCHANGED vars
    BY <1>6 DEF vars, TypeOK
  <1> QED BY <1>1, <1>2, <1>3, <1>4, <1>5, <1>6 DEF Next, Answer

LEMMA ValidatorTypeInit == Init => TypeOK
  BY IdleType DEF Init, TypeOK

----------------------------------------------------------------------------
(* Any number of requests.  PairsExplained is not inductive: it needs that  *)
(* a channel about to be stored on an up-to-date review is alone.           *)
VouchedAlone ==
    \A r \in Requests :
       /\ req[r].phase = "admitted" /\ req[r].type = "other" /\ req[r].vouched
       /\ store[req[r].chan] = Absent
       => \A d \in Channels : NsOf[d] = NsOf[req[r].chan] => store[d] # "other"

VouchedInv == TypeOK /\ PairsExplained /\ VouchedAlone

(* A write to a channel leaves no review of its namespace up to date.       *)
LEMMA OutdatedAlone ==
  ASSUME TypeOK, VouchedAlone, NEW c \in Channels, NEW r \in Requests,
         req' = Outdated(c) \/ req' = [Outdated(c) EXCEPT ![r] = Idle(c)],
         \A d \in Channels : d # c => store'[d] = store[d]
  PROVE  VouchedAlone'
  <1> SUFFICES ASSUME NEW s \in Requests,
                      req'[s].phase = "admitted", req'[s].type = "other",
                      req'[s].vouched, store'[req'[s].chan] = Absent,
                      NEW d \in Channels, NsOf[d] = NsOf[req'[s].chan]
               PROVE  store'[d] # "other"
    BY DEF VouchedAlone
  <1>1. req[s] \in [phase : Phases, chan : Channels, type : Types,
                    vouched : BOOLEAN]
    BY DEF TypeOK
  <1>2. req'[s] = Outdated(c)[s]
    <2>1. CASE req' = Outdated(c)
      BY <2>1
    <2>2. CASE req' = [Outdated(c) EXCEPT ![r] = Idle(c)]
      <3>1. Idle(c).phase # "admitted"
        BY DEF Idle
      <3>2. s # r
        BY <2>2, <3>1 DEF Outdated
      <3> QED BY <2>2, <3>2 DEF Outdated
    <2> QED BY <2>1, <2>2
  <1>3. NsOf[req[s].chan] # NsOf[c] /\ req'[s] = req[s]
    BY <1>1, <1>2 DEF Outdated
  <1>4. req[s].chan # c /\ d # c
    BY <1>3
  <1> QED BY <1>1, <1>3, <1>4 DEF VouchedAlone

LEMMA VouchedStep == VouchedInv /\ [Next]_vars => VouchedInv'
  <1> SUFFICES ASSUME VouchedInv, [Next]_vars
               PROVE  PairsExplained' /\ VouchedAlone'
    BY ValidatorTypeStep DEF VouchedInv
  <1>0. TypeOK /\ PairsExplained /\ VouchedAlone /\ TypeOK'
    BY ValidatorTypeStep DEF VouchedInv
  <1>1. ASSUME NEW r \in Requests, NEW c \in Channels, NEW t \in Types,
               Submit(r, c, t)
        PROVE  PairsExplained' /\ VouchedAlone'
    BY <1>0, <1>1 DEF Submit, PairsExplained, VouchedAlone, TypeOK
  <1>2. ASSUME NEW r \in Requests, Handle(r) \/ ListFails(r) \/ Bypass(r)
        PROVE  PairsExplained' /\ VouchedAlone'
    <2>1. store' = store /\ loose' = loose
      BY <1>2 DEF Handle, ListFails, Bypass
    <2>2. CASE Denied(r)
      BY <1>0, <2>1, <2>2 DEF Denied, Idle, PairsExplained, VouchedAlone, TypeOK
    <2>3. CASE Allowed(r, FALSE)
      BY <1>0, <2>1, <2>3 DEF Allowed, PairsExplained, VouchedAlone, TypeOK
    <2>4. CASE Allowed(r, TRUE) /\ (IsGit(r) \/ isGitOrSameKey(req[r].chan))
      <3>1. req[r].type = "other" /\ store[req[r].chan] = Absent
            => \A d \in Channels : NsOf[d] = NsOf[req[r].chan]
                                      => store[d] # "other"
        BY <2>4, ValidatorAssumption DEF IsGit, isGitOrSameKey, SameKey, NonGit
      <3> QED BY <1>0, <2>1, <2>4, <3>1
                 DEF Allowed, PairsExplained, VouchedAlone, TypeOK
    <2> QED BY <1>2, <2>2, <2>3, <2>4 DEF Handle, ListFails, Bypass
  <1>3. ASSUME NEW r \in Requests, Persist(r)
        PROVE  PairsExplained' /\ VouchedAlone'
    <2> DEFINE c == req[r].chan
    <2>1. c \in Channels /\ req[r].type \in Types /\ req[r].phase = "admitted"
      BY <1>0, <1>3 DEF TypeOK, Persist
    <2>2. CASE store[c] # Absent
      <3>1. Denied(r) /\ UNCHANGED <<store, loose>>
        BY <1>3, <2>2 DEF Persist
      <3> QED BY <1>0, <3>1 DEF Denied, Idle, PairsExplained, VouchedAlone, TypeOK
    <2>3. CASE store[c] = Absent
      <3>1. /\ store' = [store EXCEPT ![c] = req[r].type]
            /\ loose' = IF req[r].vouched THEN loose ELSE loose \cup {c}
            /\ req' = [Outdated(c) EXCEPT ![r] = Idle(c)]
        BY <1>3, <2>3 DEF Persist
      <3>2. \A d \in Channels : d # c => store'[d] = store[d]
        BY <1>0, <2>1, <3>1 DEF TypeOK
      <3>3. VouchedAlone'
        BY <1>0, <2>1, <3>1, <3>2, OutdatedAlone
      <3>4. PairsExplained'
        BY <1>0, <2>1, <2>3, <3>1, <3>2
           DEF TypeOK, PairsExplained, VouchedAlone, Types
      <3> QED BY <3>3, <3>4
    <2> QED BY <2>2, <2>3
  <1>4. ASSUME NEW c \in Channels, Delete(c) \/ \E t \in Types : Retype(c, t)
        PROVE  PairsExplained' /\ VouchedAlone'
    <2>1. \A d \in Channels : d # c => store'[d] = store[d]
      BY <1>0, <1>4 DEF Delete, Retype, TypeOK
    <2>2. req' = Outdated(c)
      BY <1>4 DEF Delete, Retype
    <2>3. VouchedAlone'
      <3>1. CASE Requests = {}
        BY <3>1 DEF VouchedAlone
      <3> QED BY <1>0, <2>1, <2>2, <3>1, OutdatedAlone
    <2>4. CASE Delete(c)
      <3>1. store'[c] # "other"
        BY <1>0, <2>4, ValidatorAssumption DEF Delete, TypeOK
      <3> QED BY <1>0, <2>1, <2>3, <2>4, <3>1 DEF Delete, PairsExplained
    <2>5. CASE \E t \in Types : Retype(c, t)
      BY <1>0, <2>1, <2>3, <2>5 DEF Retype, PairsExplained
    <2> QED BY <1>4, <2>4, <2>5
  <1>5. CASE UNCHANGED vars
    BY <1>0, <1>5 DEF vars, PairsExplained, VouchedAlone
  <1> QED BY <1>1, <1>2, <1>3, <1>4, <1>5 DEF Next, Answer

(* For any channels, namespaces and overlapping requests, webhook reachable *)
(* or not: of two channels of a namespace that are not Git channels, one    *)
(* came past ChannelValidator.Handle or behind its back.                    *)
THEOREM PairsAreExplained == Spec => []PairsExplained
  <1>1. Init => VouchedInv
    <2> SUFFICES ASSUME Init PROVE PairsExplained /\ VouchedAlone
      BY ValidatorTypeInit DEF VouchedInv
    <2>1. PairsExplained
      BY ValidatorAssumption DEF Init, PairsExplained
    <2>2. VouchedAlone
      BY DEF Init, Idle, VouchedAlone
    <2> QED BY <2>1, <2>2
  <1>2. VouchedInv => PairsExplained
    BY DEF VouchedInv
  <1> QED BY <1>1, <1>2, VouchedStep, PTL DEF Spec

----------------------------------------------------------------------------
(* The composition.                                                         *)

LEMMA AdmissionStep == [AdmissionNext]_all => [Next]_vars
  <1>1. ASSUME NEW r \in Requests, Review(r) PROVE Next
    BY <1>1 DEF Review, Next, Answer
  <1>2. UsersAct => Next
    BY DEF UsersAct, Next, Answer
  <1>3. UNCHANGED all => UNCHANGED vars
    BY DEF all
  <1> QED BY <1>1, <1>2, <1>3 DEF AdmissionNext

(* With the webhook as its set-up leaves it: two channels of a namespace    *)
(* that are not Git channels are never both vouched for by a review.        *)
THEOREM AdmittedPairsExplained == AdmissionSpec => []PairsExplained
  <1>1. AdmissionInit => Init
    BY DEF AdmissionInit
  <1>2. AdmissionSpec => Spec
    BY <1>1, AdmissionStep, PTL DEF AdmissionSpec, Spec
  <1> QED BY <1>2, PairsAreExplained, PTL
=============================================================================
