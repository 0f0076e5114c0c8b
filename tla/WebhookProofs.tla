--------------------------- MODULE WebhookProofs ---------------------------
(* Pods that set up the webhook at the same time agree on one CA, and       *)
(* nothing is missing when they have completed.                             *)
EXTENDS WebhookSetup, TLAPS

Early == {"down", "caGet", "caCreate"}

(* OneCA alone is not inductive: a pod that is past its CA relies on the    *)
(* secret being there, one that is not yet there holds no certificate, and  *)
(* only for an external API server is there more than the Service.          *)
Good(v) ==
    /\ v \in Pod
    /\ v.pc \in Early => v.cert = Absent
    /\ v.pc = "caCreate" => v.ca # Absent
    /\ v.pc \notin Early => ca # Absent /\ v.ca = ca /\ v.cert \in {Absent, ca}
    /\ ~External => v.x = "service"

CAInv == /\ TypeOK
         /\ cert # Absent => cert = ca
         /\ cfg # Absent => cfg = ca
         /\ \A p \in Pods : Good(pod[p])

LEMMA GoodDown == Good(Down)
  BY DEF Good, Down, Pod, Calls, Resources, Early

LEMMA CAInit == Init => CAInv
  <1> SUFFICES ASSUME Init PROVE CAInv
    OBVIOUS
  <1>1. \A p \in Pods : pod[p] = Down
    BY DEF Init
  <1>2. TypeOK
    BY GoodDown DEF Init, TypeOK, Good
  <1> QED BY <1>1, <1>2, GoodDown DEF Init, CAInv

(* A pod past its CA may go to any later call.                              *)
LEMMA GoodAt ==
  ASSUME CAInv, NEW p \in Pods, pod[p].pc \notin Early,
         NEW pc \in (Calls \cup {"done"}) \ Early
  PROVE  /\ Good(At(p, pc)) /\ At(p, pc).cert = pod[p].cert
         /\ At(p, pc).x = pod[p].x /\ At(p, pc).pc = pc
  BY DEF CAInv, Good, At, Pod

(* What is common to all steps that leave the CA secret alone.              *)
LEMMA KeepsCA ==
  ASSUME CAInv, ca' = ca, cert' \in {cert, ca}, cfg' \in {cfg, ca},
         old' \in BOOLEAN, quiet' \in BOOLEAN,
         res' \in [Resources -> IPs \cup {HostedIP, Absent}],
         pod' \in [Pods -> Pod], \A q \in Pods : Good(pod'[q])
  PROVE  CAInv'
  <1>1. \A q \in Pods : Good(pod[q])'
    BY DEF Good
  <1> QED BY <1>1 DEF CAInv, TypeOK

LEMMA StepPod ==
  ASSUME CAInv, NEW p \in Pods, NEW v, Good(v), Step(p, v)
  PROVE  pod' \in [Pods -> Pod] /\ \A q \in Pods : Good(pod'[q])
  <1>1. v \in Pod /\ pod \in [Pods -> Pod]
    BY DEF Good, CAInv, TypeOK
  <1> QED BY <1>1 DEF Step, CAInv

LEMMA DonePod ==
  ASSUME CAInv, NEW p \in Pods, NEW v, Good(v), Done(p, v)
  PROVE  pod' \in [Pods -> Pod] /\ \A q \in Pods : Good(pod'[q])
  <1>1. Step(p, v) \/ Step(p, Down)
    BY DEF Done
  <1> QED BY <1>1, StepPod, GoodDown

----------------------------------------------------------------------------
(* Boot, exits, and what follows the CA except the Services.                *)
LEMMA CAReads ==
  ASSUME CAInv, NEW p \in Pods,
         \/ CallFails(p) \/ Crash(p) \/ Boot(p) \/ GetCA(p) \/ GetCert(p)
         \/ GetOld(p) \/ GetConfig(p) \/ Probe(p)
  PROVE  CAInv'
  <1>0. TypeOK /\ Good(pod[p])
    BY DEF CAInv
  <1>1. UNCHANGED <<ca, cert, old, cfg, res, quiet>>
    BY DEF CallFails, Crash, Boot, GetCA, GetCert, GetOld, GetConfig, Probe
  <1> SUFFICES pod' \in [Pods -> Pod] /\ \A q \in Pods : Good(pod'[q])
    BY <1>0, <1>1, KeepsCA DEF TypeOK
  <1>2. CASE CallFails(p) \/ Crash(p)
    BY <1>2, StepPod, GoodDown DEF CallFails, Crash
  <1>3. CASE Boot(p)
    <2>1. Good(At(p, "caGet"))
      BY <1>0, <1>3 DEF Boot, Good, At, Pod, Calls, Early
    <2> QED BY <1>3, <2>1, StepPod DEF Boot
  <1>4. CASE GetCA(p)
    <2>1. CASE ca # Absent /\ Step(p, [At(p, "certGet") EXCEPT !.ca = ca])
      <3>1. Good([At(p, "certGet") EXCEPT !.ca = ca])
        BY <1>0, <1>4, <2>1 DEF GetCA, Good, At, Pod, Calls, Early, TypeOK
      <3> QED BY <2>1, <3>1, StepPod
    <2>2. ASSUME NEW new \in CAs, Step(p, [At(p, "caCreate") EXCEPT !.ca = new])
          PROVE  pod' \in [Pods -> Pod] /\ \A q \in Pods : Good(pod'[q])
      <3>1. Good([At(p, "caCreate") EXCEPT !.ca = new])
        BY <1>0, <1>4, SetupAssumption DEF GetCA, Good, At, Pod, Calls, Early
      <3> QED BY <2>2, <3>1, StepPod
    <2> QED BY <1>4, <2>1, <2>2 DEF GetCA
  <1>5. CASE GetCert(p)
    <2>1. cert # Absent => Good([At(p, "oldGet") EXCEPT !.cert = cert])
      BY <1>0, <1>5 DEF GetCert, CAInv, Good, At, Pod, Calls, Early, TypeOK
    <2>2. Good([At(p, "certCreate") EXCEPT !.cert = pod[p].ca])
      BY <1>0, <1>5 DEF GetCert, Good, At, Pod, Calls, Early
    <2> QED BY <1>5, <2>1, <2>2, StepPod DEF GetCert, GenerateSignedCert
  <1>6. CASE GetOld(p)
    <2>1. Good(At(p, "oldDelete")) /\ Good(At(p, "cfgGet"))
      BY <1>6, GoodAt DEF GetOld, Early, Calls
    <2> QED BY <1>6, <2>1, StepPod DEF GetOld
  <1>7. CASE GetConfig(p)
    <2>1. Good(At(p, "cfgCreate"))
      BY <1>7, GoodAt DEF GetConfig, Early, Calls
    <2>2. /\ Good([At(p, "cfgUpdate") EXCEPT !.current = TRUE])
          /\ Good([At(p, "probe") EXCEPT !.blind = TRUE])
      BY <1>0, <1>7 DEF GetConfig, Good, At, Pod, Calls, Early
    <2> QED BY <1>7, <2>1, <2>2, StepPod DEF GetConfig
  <1>8. CASE Probe(p)
    <2>1. Good(At(p, "remove")) /\ Good(At(p, "create"))
      BY <1>8, GoodAt DEF Probe, Early, Calls
    <2> QED BY <1>8, <2>1, StepPod DEF Probe, AfterGet
  <1> QED BY <1>2, <1>3, <1>4, <1>5, <1>6, <1>7, <1>8

(* The CA secret is created: nobody relied on one before.                   *)
LEMMA CACreate ==
  ASSUME CAInv, NEW p \in Pods, CreateCA(p)
  PROVE  CAInv'
  <1>0. TypeOK /\ Good(pod[p]) /\ pod[p].pc = "caCreate"
    BY DEF CAInv, CreateCA
  <1>1. CASE ca = Absent /\ ca' = pod[p].ca /\ Done(p, At(p, "certGet"))
    <2>1. cert = Absent /\ cfg = Absent /\ \A q \in Pods : pod[q].pc \in Early
      BY <1>1 DEF CAInv, Good
    <2>2. ca' # Absent /\ ca' \in CAs
      BY <1>0, <1>1 DEF Good, Pod
    <2>3. pod' \in [Pods -> Pod]
          /\ \A q \in Pods : pod'[q] \in {pod[q], Down, At(p, "certGet")}
      <3>1. At(p, "certGet") \in Pod /\ Down \in Pod /\ pod \in [Pods -> Pod]
        BY <1>0, GoodDown DEF At, Good, Pod, Calls, TypeOK
      <3> QED BY <1>1, <3>1 DEF Done, Step
    <2>4. /\ At(p, "certGet") \in Pod /\ At(p, "certGet").pc = "certGet"
          /\ At(p, "certGet").ca = ca' /\ At(p, "certGet").cert = Absent
          /\ At(p, "certGet").x = pod[p].x
      BY <1>0, <1>1 DEF At, Good, Pod, Calls, Early
    <2>5. ASSUME NEW q \in Pods PROVE Good(pod[q])'
      <3>1. CASE pod'[q] = pod[q]
        BY <2>1, <3>1 DEF CAInv, Good
      <3>2. CASE pod'[q] = Down
        BY <3>2, GoodDown DEF Good, Early, Down
      <3>3. CASE pod'[q] = At(p, "certGet")
        BY <1>0, <2>2, <2>4, <3>3 DEF Good, Early
      <3> QED BY <2>3, <3>1, <3>2, <3>3
    <2>6. UNCHANGED <<cert, old, cfg, res, quiet>>
      BY DEF CreateCA
    <2> QED BY <1>0, <2>1, <2>2, <2>3, <2>5, <2>6 DEF CAInv, TypeOK
  <1>2. CASE ca' = ca /\ Step(p, Down)
    BY <1>0, <1>2, StepPod, GoodDown, KeepsCA DEF CreateCA, TypeOK
  <1> QED BY <1>1, <1>2 DEF CreateCA, Creatable

(* The other writes before the Services.                                    *)
LEMMA CAWrites ==
  ASSUME CAInv, NEW p \in Pods,
         CreateCert(p) \/ DeleteOld(p) \/ WriteConfig(p)
  PROVE  CAInv'
  <1>0. TypeOK /\ Good(pod[p]) /\ pod[p].pc \notin Early
    BY DEF CAInv, CreateCert, DeleteOld, WriteConfig, Early
  <1>1. Good(At(p, "oldGet")) /\ Good(At(p, "cfgGet")) /\ Good(At(p, "probe"))
    BY <1>0, GoodAt DEF Early, Calls
  <1>2. CASE CreateCert(p)
    <2>1. cert' \in {cert, ca}
      BY <1>0, <1>2 DEF CreateCert, Creatable, Good
    <2>2. Done(p, At(p, "oldGet")) \/ Step(p, Down)
      BY <1>2 DEF CreateCert
    <2>3. pod' \in [Pods -> Pod] /\ \A q \in Pods : Good(pod'[q])
      BY <1>1, <2>2, DonePod, StepPod, GoodDown
    <2> QED BY <1>0, <1>2, <2>1, <2>3, KeepsCA DEF CreateCert, TypeOK
  <1>3. CASE DeleteOld(p)
    <2>1. Done(p, At(p, "cfgGet")) \/ Step(p, Down)
      BY <1>3 DEF DeleteOld
    <2>2. pod' \in [Pods -> Pod] /\ \A q \in Pods : Good(pod'[q])
      BY <1>1, <2>1, DonePod, StepPod, GoodDown
    <2> QED BY <1>0, <1>3, <2>2, KeepsCA DEF DeleteOld, TypeOK
  <1>4. CASE WriteConfig(p)
    <2>1. cfg' \in {cfg, ca}
      BY <1>0, <1>4 DEF WriteConfig, Send, Good
    <2>2. \/ Step(p, Down)
          \/ ConfigWritten(p, At(p, "probe")) \/ ConfigWritten(p, Down)
      BY <1>4 DEF WriteConfig
    <2>3. \A q \in Pods : Good([pod[q] EXCEPT !.current = FALSE])
      BY DEF CAInv, Good, Pod
    <2>4. ASSUME NEW v, Good(v), ConfigWritten(p, v)
          PROVE  pod' \in [Pods -> Pod] /\ \A q \in Pods : Good(pod'[q])
      <3>1. \A q \in Pods :
               pod'[q] = IF q = p THEN v ELSE [pod[q] EXCEPT !.current = FALSE]
        BY <2>4 DEF ConfigWritten
      <3>2. \A q \in Pods : Good(pod'[q])
        BY <2>3, <2>4, <3>1
      <3>3. \A q \in Pods : pod'[q] \in Pod
        BY <3>2 DEF Good
      <3> QED BY <2>4, <3>2, <3>3 DEF ConfigWritten
    <2>5. pod' \in [Pods -> Pod] /\ \A q \in Pods : Good(pod'[q])
      BY <1>1, <2>2, <2>4, StepPod, GoodDown
    <2> QED BY <1>0, <1>4, <2>1, <2>5, KeepsCA DEF WriteConfig, TypeOK
  <1> QED BY <1>2, <1>3, <1>4

(* The Services and the Endpoints.                                          *)
LEMMA CAServices ==
  ASSUME CAInv, NEW p \in Pods, Remove(p) \/ Create(p) \/ Redelete(p)
  PROVE  CAInv'
  <1>0. TypeOK /\ Good(pod[p]) /\ pod[p].pc \notin Early
    BY DEF CAInv, Remove, Create, Redelete, Early
  <1>1. UNCHANGED <<ca, cert, old, cfg, quiet>>
    BY DEF Remove, Create, Redelete
  <1>2. Good(At(p, "create")) /\ Good(At(p, "redelete")) /\ Good(At(p, "recreate"))
    BY <1>0, GoodAt DEF Early, Calls
  <1>3. CASE Remove(p) \/ Redelete(p)
    <2>1. res' \in [Resources -> IPs \cup {HostedIP, Absent}]
      BY <1>0, <1>3 DEF Remove, Redelete, TypeOK
    <2>2. \/ Step(p, Down) \/ Done(p, At(p, "create"))
          \/ Done(p, At(p, "recreate"))
      BY <1>3 DEF Remove, Redelete
    <2>3. pod' \in [Pods -> Pod] /\ \A q \in Pods : Good(pod'[q])
      BY <1>2, <2>2, DonePod, StepPod, GoodDown
    <2> QED BY <1>0, <1>1, <2>1, <2>3, KeepsCA DEF TypeOK
  <1>4. ASSUME NEW value \in Values(p), Done(p, AfterCreate(p, value)),
               res' = [res EXCEPT ![pod[p].x] = value]
        PROVE  CAInv'
    <2>1. pod[p].x \in {"service", "hostedService", "endpoints"}
          /\ pod[p].ip \in IPs \cup {Absent}
      BY <1>0 DEF Good, Pod, Resources
    <2>2. value \in IPs \cup {HostedIP, Absent}
          /\ (pod[p].x = "service" => value \in IPs)
      BY <2>1 DEF Values
    <2>3. res' \in [Resources -> IPs \cup {HostedIP, Absent}]
      BY <1>0, <1>4, <2>2 DEF TypeOK
    <2>4. Good(AfterCreate(p, value))
      <3>1. Good(At(p, "done")) /\ At(p, "done").pc = "done"
            /\ Good(At(p, "probe")) /\ At(p, "probe").pc = "probe"
        BY <1>0, GoodAt DEF Early, Calls
      <3>2. CASE ~External
        <4>1. value \in IPs
          BY <1>0, <2>2, <3>2 DEF Good
        <4>2. AfterCreate(p, value) = [At(p, "done") EXCEPT !.ip = value]
          BY <3>2 DEF AfterCreate
        <4> QED BY <3>1, <4>1, <4>2 DEF Good, Pod
      <3>3. CASE External /\ pod[p].x = "service"
        <4>1. AfterCreate(p, value) =
                [At(p, "probe") EXCEPT !.ip = value, !.x = "hostedService"]
          BY <3>3 DEF AfterCreate
        <4> QED BY <2>2, <3>1, <3>3, <4>1 DEF Good, Pod, Resources
      <3>4. CASE External /\ pod[p].x = "hostedService"
        <4>1. AfterCreate(p, value) = [At(p, "probe") EXCEPT !.x = "endpoints"]
          BY <3>4 DEF AfterCreate
        <4> QED BY <3>1, <3>4, <4>1 DEF Good, Pod, Resources
      <3>5. CASE External /\ pod[p].x = "endpoints"
        <4>1. AfterCreate(p, value) = At(p, "done")
          BY <3>5 DEF AfterCreate
        <4> QED BY <3>1, <4>1
      <3> QED BY <2>1, <3>2, <3>3, <3>4, <3>5, SetupAssumption
    <2>5. pod' \in [Pods -> Pod] /\ \A q \in Pods : Good(pod'[q])
      BY <1>4, <2>4, DonePod
    <2> QED BY <1>0, <1>1, <2>3, <2>5, KeepsCA DEF TypeOK
  <1>5. CASE Create(p)
    <2>1. CASE UNCHANGED res /\ (Step(p, At(p, "redelete")) \/ Step(p, Down))
      <3>1. pod' \in [Pods -> Pod] /\ \A q \in Pods : Good(pod'[q])
        BY <1>2, <2>1, StepPod, GoodDown
      <3> QED BY <1>0, <1>1, <2>1, <3>1, KeepsCA DEF TypeOK
    <2> QED BY <1>4, <1>5, <2>1 DEF Create
  <1> QED BY <1>3, <1>5

LEMMA CAStep ==
  ASSUME CAInv, [Next]_vars
  PROVE  CAInv'
  <1>1. CASE Stabilise \/ UNCHANGED vars
    <2>1. UNCHANGED <<ca, cert, old, cfg, res, pod>> /\ quiet' \in BOOLEAN
      BY <1>1 DEF Stabilise, vars, CAInv, TypeOK
    <2> QED BY <2>1, KeepsCA DEF CAInv, TypeOK
  <1> QED BY <1>1, CAReads, CACreate, CAWrites, CAServices
          DEF Next, SetupStep

(* For any number of pods: as long as nobody deletes the CA secret, the     *)
(* serving certificate and the webhook configuration belong to one CA,      *)
(* because GetCA's check and CreateCA's write may be apart but only one     *)
(* Create of the secret is accepted.                                        *)
THEOREM CertsAgree == Spec => []OneCA
  <1>1. CAInv => OneCA
    BY DEF CAInv, OneCA, Good, Early
  <1> QED BY <1>1, CAInit, CAStep, PTL DEF Spec
----------------------------------------------------------------------------
(* What the pods leave behind.  A pod is sure of what it went past: the     *)
(* certificate, the removal of the old configuration, the new one unless it *)
(* could not read it.                                                       *)
BeforeOld == Early \cup {"certGet", "certCreate"}
AtOld     == {"oldGet", "oldDelete"}
AtConfig  == {"cfgGet", "cfgCreate", "cfgUpdate"}

Sure(v, crt, o, conf) ==
    /\ v.pc = "certCreate" => v.cert # Absent
    /\ v.pc \notin BeforeOld => crt # Absent
    /\ v.pc \notin BeforeOld \cup AtOld => ~o
    /\ v.pc \notin BeforeOld \cup AtOld \cup AtConfig
          => conf # Absent \/ v.blind
    /\ v.x # "service" => External /\ v.ip # Absent
    /\ External /\ v.pc = "done" => v.x = "endpoints"

(* A pod that has not gone past x yet will see to it that x is there.       *)
Behind(v, x) == v.pc # "done" /\ (v.x \in {x, "service"} \/ x = "endpoints")

(* What one pod removed may be missing only while some pod is behind it.    *)
DoneInv ==
    /\ CAInv
    /\ \A p \in Pods : Sure(pod[p], cert, old, cfg)
    /\ \A x \in Wanted :
          res[x] # Absent \/ Pods = {} \/ \E p \in Pods : Behind(pod[p], x)

LEMMA DoneInit == Init => DoneInv
  <1> SUFFICES ASSUME Init PROVE DoneInv
    OBVIOUS
  <1>1. \A p \in Pods : pod[p] = Down
    BY DEF Init
  <1>2. \A p \in Pods : Sure(pod[p], cert, old, cfg)
    <2>1. Sure(Down, cert, old, cfg)
      BY DEF Sure, Down, BeforeOld, AtOld, AtConfig, Early
    <2> QED BY <1>1, <2>1
  <1>3. \A x \in Resources, p \in Pods : Behind(pod[p], x)
    <2>1. \A x \in Resources : Behind(Down, x)
      BY DEF Behind, Down
    <2> QED BY <1>1, <2>1
  <1> QED BY <1>2, <1>3, CAInit DEF DoneInv, Wanted, Resources

(* Nothing a pod may be sure of goes away, and only pod p moves.            *)
Monotone(p) ==
    /\ cert # Absent => cert' # Absent
    /\ ~old => ~old'
    /\ cfg # Absent => cfg' # Absent
    /\ \A q \in Pods \ {p} :
          /\ pod'[q].pc = pod[q].pc /\ pod'[q].cert = pod[q].cert
          /\ pod'[q].x = pod[q].x /\ pod'[q].ip = pod[q].ip
          /\ pod'[q].blind = pod[q].blind

(* A step of pod p that leaves nothing missing of what it went past.        *)
LEMMA KeepsDone ==
  ASSUME DoneInv, CAInv', NEW p \in Pods, Monotone(p), Sure(pod'[p], cert', old', cfg'),
         \A x \in Wanted : \/ res'[x] # Absent \/ Behind(pod[p], x)'
                           \/ res'[x] = res[x] /\ ~Behind(pod[p], x)
  PROVE  DoneInv'
  <1>1. \A q \in Pods : Sure(pod'[q], cert', old', cfg')
    <2> SUFFICES ASSUME NEW q \in Pods, q # p PROVE Sure(pod'[q], cert', old', cfg')
      OBVIOUS
    <2>1. Sure(pod[q], cert, old, cfg)
      BY DEF DoneInv
    <2> QED BY <2>1 DEF Sure, Monotone
  <1>2. ASSUME NEW x \in Wanted
        PROVE  res'[x] # Absent \/ \E q \in Pods : Behind(pod[q], x)'
    <2>1. CASE res'[x] # Absent \/ Behind(pod[p], x)'
      BY <2>1
    <2>2. CASE res'[x] = res[x] /\ ~Behind(pod[p], x)
      <3>1. res[x] # Absent \/ \E q \in Pods : Behind(pod[q], x)
        BY DEF DoneInv
      <3>2. \A q \in Pods \ {p} : Behind(pod[q], x) => Behind(pod[q], x)'
        BY DEF Monotone, Behind
      <3> QED BY <2>2, <3>1, <3>2
    <2> QED BY <1>2, <2>1, <2>2
  <1>3. Wanted' = Wanted
    BY DEF Wanted
  <1> QED BY <1>1, <1>2, <1>3 DEF DoneInv

(* A process that exits is behind everything.                               *)
LEMMA ExitKeepsDone ==
  ASSUME DoneInv, CAInv', NEW p \in Pods, Monotone(p), pod'[p] = Down
  PROVE  DoneInv'
  <1>1. Sure(pod'[p], cert', old', cfg')
    BY DEF Sure, Down, BeforeOld, AtOld, AtConfig, Early
  <1>2. \A x \in Wanted : Behind(pod[p], x)'
    BY DEF Behind, Down
  <1> QED BY <1>1, <1>2, KeepsDone

(* A process that goes on to another call for the same object.              *)
LEMMA CallKeepsDone ==
  ASSUME DoneInv, CAInv', NEW p \in Pods, Monotone(p), Sure(pod'[p], cert', old', cfg'),
         pod'[p].pc # "done", pod'[p].x = pod[p].x,
         \A x \in Resources : x # pod[p].x => res'[x] = res[x]
  PROVE  DoneInv'
  <1>1. ASSUME NEW x \in Wanted
        PROVE  \/ Behind(pod[p], x)'
               \/ res'[x] = res[x] /\ ~Behind(pod[p], x)
    <2>1. x \in Resources
      BY DEF Wanted, Resources
    <2> QED BY <2>1 DEF Behind
  <1> QED BY <1>1, KeepsDone

LEMMA SureDown ==
  ASSUME NEW crt, NEW o, NEW conf PROVE Sure(Down, crt, o, conf)
  BY DEF Sure, Down, BeforeOld, AtOld, AtConfig, Early

LEMMA AtFields ==
  ASSUME TypeOK, NEW p \in Pods, NEW pc \in Calls \cup {"done"}
  PROVE  /\ At(p, pc) \in Pod /\ At(p, pc).pc = pc
         /\ At(p, pc).ca = pod[p].ca /\ At(p, pc).cert = pod[p].cert
         /\ At(p, pc).x = pod[p].x /\ At(p, pc).ip = pod[p].ip
         /\ At(p, pc).blind = pod[p].blind
  BY DEF TypeOK, At, Pod

(* The calls up to the webhook configuration, and the reads.                *)
LEMMA SetupKeepsDone ==
  ASSUME DoneInv, CAInv', NEW p \in Pods,
         \/ Boot(p) \/ GetCA(p) \/ CreateCA(p) \/ GetCert(p) \/ CreateCert(p)
         \/ GetOld(p) \/ DeleteOld(p) \/ GetConfig(p) \/ Probe(p)
  PROVE  DoneInv'
  <1>0. /\ TypeOK /\ Good(pod[p]) /\ Sure(pod[p], cert, old, cfg)
        /\ pod[p] \in Pod /\ res' = res /\ cfg' = cfg
    BY DEF DoneInv, CAInv, Good, Boot, GetCA, CreateCA, GetCert, CreateCert,
           GetOld, DeleteOld, GetConfig, Probe
  <1>1. ASSUME NEW v, Step(p, v), cert # Absent => cert' # Absent, ~old => ~old',
               \/ v = Down
               \/ Sure(v, cert', old', cfg') /\ v.pc # "done" /\ v.x = pod[p].x
        PROVE  DoneInv'
    <2>1. pod'[p] = v /\ \A q \in Pods \ {p} : pod'[q] = pod[q]
      BY <1>0, <1>1 DEF Step, TypeOK
    <2>2. Monotone(p)
      BY <1>0, <1>1, <2>1 DEF Monotone
    <2> QED BY <1>0, <1>1, <2>1, <2>2, ExitKeepsDone, CallKeepsDone
  <1>2. ASSUME NEW v, Done(p, v), cert # Absent => cert' # Absent, ~old => ~old',
               Sure(v, cert', old', cfg'), v.pc # "done", v.x = pod[p].x
        PROVE  DoneInv'
    BY <1>1, <1>2 DEF Done
  <1>3. ASSUME NEW pc \in Calls
        PROVE  /\ At(p, pc) \in Pod /\ At(p, pc).pc = pc
               /\ At(p, pc).x = pod[p].x /\ At(p, pc).ip = pod[p].ip
               /\ At(p, pc).ca = pod[p].ca /\ At(p, pc).cert = pod[p].cert
               /\ At(p, pc).blind = pod[p].blind
    BY <1>0, AtFields
  <1> DEFINE S(pc) == Sure(At(p, pc), cert', old', cfg')
  <1>4. CASE Boot(p)
    <2>1. S("caGet") /\ UNCHANGED <<cert, old>>
      BY <1>0, <1>3, <1>4 DEF Boot, Sure, BeforeOld, AtOld, AtConfig, Early, Calls
    <2> QED BY <1>1, <1>3, <1>4, <2>1 DEF Boot, Calls
  <1>5. CASE GetCA(p)
    <2>0. UNCHANGED <<cert, old>>
      BY <1>5 DEF GetCA
    <2>1. PICK pc \in {"certGet", "caCreate"}, w \in CAs \cup {Absent} :
             Step(p, [At(p, pc) EXCEPT !.ca = w])
      BY <1>0, <1>5 DEF GetCA, TypeOK
    <2> DEFINE v == [At(p, pc) EXCEPT !.ca = w]
    <2>2. v.pc = pc /\ v.x = pod[p].x /\ v.ip = pod[p].ip
      BY <1>3 DEF Calls, Pod
    <2>3. Sure(v, cert', old', cfg')
      BY <1>0, <2>2 DEF Sure, BeforeOld, AtOld, AtConfig, Early
    <2> QED BY <1>1, <2>0, <2>1, <2>2, <2>3
  <1>6. CASE CreateCA(p)
    <2>0. UNCHANGED <<cert, old>>
      BY <1>6 DEF CreateCA
    <2>1. S("certGet")
      BY <1>0, <1>3 DEF Sure, BeforeOld, AtOld, AtConfig, Early, Calls
    <2> QED BY <1>1, <1>2, <1>3, <1>6, <2>0, <2>1 DEF CreateCA, Calls
  <1>7. CASE GetCert(p)
    <2>0. UNCHANGED <<cert, old>>
      BY <1>7 DEF GetCert
    <2> DEFINE u == [At(p, "oldGet") EXCEPT !.cert = cert]
               v == [At(p, "certCreate") EXCEPT !.cert = pod[p].ca]
    <2>1. /\ u.pc = "oldGet" /\ u.x = pod[p].x /\ u.ip = pod[p].ip
          /\ v.pc = "certCreate" /\ v.x = pod[p].x /\ v.ip = pod[p].ip
          /\ v.cert = pod[p].ca
      BY <1>3 DEF Calls, Pod
    <2>2. pod[p].ca # Absent
      BY <1>0, <1>7 DEF GetCert, Good, Early
    <2>3. cert # Absent => Sure(u, cert', old', cfg')
      BY <1>0, <2>0, <2>1 DEF Sure, BeforeOld, AtOld, AtConfig, Early
    <2>4. Sure(v, cert', old', cfg')
      BY <1>0, <2>1, <2>2 DEF Sure, BeforeOld, AtOld, AtConfig, Early
    <2>5. (cert # Absent /\ Step(p, u)) \/ Step(p, v)
      BY <1>7 DEF GetCert, GenerateSignedCert
    <2> QED BY <1>1, <2>0, <2>1, <2>3, <2>4, <2>5
  <1>8. CASE CreateCert(p)
    <2>1. old' = old /\ (cert # Absent => cert' # Absent)
      BY <1>8 DEF CreateCert, Creatable
    <2>2. CASE cert' = pod[p].cert /\ Done(p, At(p, "oldGet"))
      <3>1. cert' # Absent
        BY <1>0, <1>8, <2>2 DEF CreateCert, Sure
      <3>2. S("oldGet")
        BY <1>0, <1>3, <3>1 DEF Sure, BeforeOld, AtOld, AtConfig, Early, Calls
      <3> QED BY <1>2, <1>3, <2>1, <2>2, <3>2 DEF Calls
    <2>3. CASE Step(p, Down)
      BY <1>1, <2>1, <2>3
    <2> QED BY <1>8, <2>2, <2>3 DEF CreateCert
  <1>9. CASE GetOld(p)
    <2>0. UNCHANGED <<cert, old>>
      BY <1>9 DEF GetOld
    <2>1. S("oldDelete") /\ (~old => S("cfgGet"))
      BY <1>0, <1>3, <1>9, <2>0
         DEF GetOld, Sure, BeforeOld, AtOld, AtConfig, Early, Calls
    <2>2. Step(p, At(p, "oldDelete")) \/ (~old /\ Step(p, At(p, "cfgGet")))
      BY <1>9 DEF GetOld
    <2> QED BY <1>1, <1>3, <2>0, <2>1, <2>2 DEF Calls
  <1>10. CASE DeleteOld(p)
    <2>0. cert' = cert /\ old' = FALSE
      BY <1>10 DEF DeleteOld
    <2>1. S("cfgGet")
      BY <1>0, <1>3, <1>10, <2>0
         DEF DeleteOld, Sure, BeforeOld, AtOld, AtConfig, Early, Calls
    <2> QED BY <1>1, <1>2, <1>3, <1>10, <2>0, <2>1 DEF DeleteOld, Calls
  <1>11. CASE GetConfig(p)
    <2>0. UNCHANGED <<cert, old>>
      BY <1>11 DEF GetConfig
    <2>1. S("cfgCreate")
      BY <1>0, <1>3, <1>11, <2>0
         DEF GetConfig, Sure, BeforeOld, AtOld, AtConfig, Early, Calls
    <2> DEFINE v == [At(p, "cfgUpdate") EXCEPT !.current = TRUE]
               u == [At(p, "probe") EXCEPT !.blind = TRUE]
    <2>2. /\ v.pc = "cfgUpdate" /\ v.x = pod[p].x /\ v.ip = pod[p].ip
          /\ u.pc = "probe" /\ u.x = pod[p].x /\ u.ip = pod[p].ip /\ u.blind
      BY <1>3 DEF Calls, Pod
    <2>3. Sure(v, cert', old', cfg') /\ Sure(u, cert', old', cfg')
      BY <1>0, <1>11, <2>0, <2>2
         DEF GetConfig, Sure, BeforeOld, AtOld, AtConfig, Early
    <2>4. Step(p, At(p, "cfgCreate")) \/ Step(p, v) \/ Step(p, u)
      BY <1>11 DEF GetConfig
    <2> QED BY <1>1, <1>3, <2>0, <2>1, <2>2, <2>3, <2>4 DEF Calls
  <1>12. CASE Probe(p)
    <2>0. UNCHANGED <<cert, old>>
      BY <1>12 DEF Probe
    <2>1. S("remove") /\ S("create")
      BY <1>0, <1>3, <1>12, <2>0
         DEF Probe, Sure, BeforeOld, AtOld, AtConfig, Early, Calls
    <2>2. Step(p, At(p, "remove")) \/ Step(p, At(p, "create"))
      BY <1>12 DEF Probe, AfterGet
    <2> QED BY <1>1, <1>3, <2>0, <2>1, <2>2 DEF Calls
  <1> QED BY <1>4, <1>5, <1>6, <1>7, <1>8, <1>9, <1>10, <1>11, <1>12

(* The configuration is written with the CA, which is there.                *)
LEMMA ConfigKeepsDone ==
  ASSUME DoneInv, CAInv', NEW p \in Pods, WriteConfig(p)
  PROVE  DoneInv'
  <1>0. /\ TypeOK /\ Good(pod[p]) /\ Sure(pod[p], cert, old, cfg)
        /\ UNCHANGED <<ca, cert, old, res>> /\ \A q \in Pods : pod[q] \in Pod
    BY DEF DoneInv, CAInv, Good, WriteConfig
  <1>1. ASSUME NEW v, ConfigWritten(p, v), cfg' = pod[p].ca,
               v = Down \/ v = At(p, "probe")
        PROVE  DoneInv'
    <2>1. pod'[p] = v /\ \A q \in Pods \ {p} :
                            pod'[q] = [pod[q] EXCEPT !.current = FALSE]
      BY <1>1 DEF ConfigWritten
    <2>2. cfg' # Absent
      BY <1>0, <1>1 DEF WriteConfig, Good, Early
    <2>3. Monotone(p)
      BY <1>0, <2>1, <2>2 DEF Monotone, Pod
    <2>4. CASE v = Down
      BY <2>1, <2>3, <2>4, ExitKeepsDone
    <2>5. CASE v = At(p, "probe")
      <3>1. v.pc = "probe" /\ v.x = pod[p].x /\ v.ip = pod[p].ip
        BY <1>0, <2>5, AtFields DEF Calls
      <3>2. Sure(v, cert', old', cfg')
        BY <1>0, <2>2, <3>1
           DEF WriteConfig, Sure, BeforeOld, AtOld, AtConfig, Early
      <3> QED BY <1>0, <2>1, <2>3, <3>1, <3>2, CallKeepsDone
    <2> QED BY <1>1, <2>4, <2>5
  <1>2. CASE cfg' = cfg /\ Step(p, Down)
    <2>1. pod'[p] = Down /\ \A q \in Pods \ {p} : pod'[q] = pod[q]
      BY <1>0, <1>2 DEF Step, TypeOK
    <2>2. Monotone(p)
      BY <1>0, <1>2, <2>1 DEF Monotone
    <2> QED BY <2>1, <2>2, ExitKeepsDone
  <1> QED BY <1>1, <1>2 DEF WriteConfig, Send

(* An object is removed only by a pod that is still behind it, and a pod    *)
(* goes past it only by having created it.                                  *)
LEMMA ServicesKeepDone ==
  ASSUME DoneInv, CAInv', NEW p \in Pods, Remove(p) \/ Create(p) \/ Redelete(p)
  PROVE  DoneInv'
  <1>0. /\ TypeOK /\ Good(pod[p]) /\ Sure(pod[p], cert, old, cfg)
        /\ UNCHANGED <<ca, cert, old, cfg>> /\ pod[p] \in Pod
        /\ pod[p].pc \in {"remove", "create", "recreate", "redelete"}
        /\ pod[p].x \in {"service", "hostedService", "endpoints"}
    BY DEF DoneInv, CAInv, Good, Remove, Create, Redelete, Pod, Resources
  <1>1. ASSUME NEW v, Step(p, v)
        PROVE  pod'[p] = v /\ Monotone(p)
    <2>1. pod'[p] = v /\ \A q \in Pods \ {p} : pod'[q] = pod[q]
      BY <1>0, <1>1 DEF Step, TypeOK
    <2> QED BY <1>0, <2>1 DEF Monotone
  <1>2. CASE Step(p, Down)
    BY <1>1, <1>2, ExitKeepsDone
  <1>3. ASSUME NEW pc \in {"create", "redelete", "recreate"}, Step(p, At(p, pc)),
               \A x \in Resources : x # pod[p].x => res'[x] = res[x]
        PROVE  DoneInv'
    <2>1. At(p, pc).pc = pc /\ At(p, pc).x = pod[p].x
          /\ At(p, pc).ip = pod[p].ip /\ At(p, pc).blind = pod[p].blind
      BY <1>0, AtFields DEF Calls
    <2>2. Sure(At(p, pc), cert', old', cfg')
      BY <1>0, <2>1 DEF Sure, BeforeOld, AtOld, AtConfig, Early
    <2> QED BY <1>1, <1>3, <2>1, <2>2, CallKeepsDone
  <1>4. CASE Remove(p) \/ Redelete(p)
    <2>1. \A x \in Resources : x # pod[p].x => res'[x] = res[x]
      BY <1>0, <1>4 DEF Remove, Redelete, TypeOK
    <2>2. \/ Step(p, Down) \/ Step(p, At(p, "create"))
          \/ Step(p, At(p, "recreate"))
      BY <1>4 DEF Remove, Redelete, Done
    <2> QED BY <1>2, <1>3, <2>1, <2>2
  <1>5. ASSUME NEW value \in Values(p), Step(p, AfterCreate(p, value)),
               res' = [res EXCEPT ![pod[p].x] = value]
        PROVE  DoneInv'
    <2>1. value # Absent
      BY <1>0, SetupAssumption DEF Values, Sure
    <2>2. /\ res'[pod[p].x] # Absent
          /\ \A x \in Resources : x # pod[p].x => res'[x] = res[x]
      BY <1>0, <1>5, <2>1 DEF TypeOK, Resources
    <2> DEFINE v == AfterCreate(p, value)
    <2>3. pod'[p] = v /\ Monotone(p)
      BY <1>1, <1>5
    <2>4. ASSUME NEW pc \in {"probe", "done"}
          PROVE  /\ At(p, pc) \in Pod /\ At(p, pc).pc = pc
                 /\ At(p, pc).x = pod[p].x /\ At(p, pc).ip = pod[p].ip
                 /\ At(p, pc).blind = pod[p].blind
      BY <1>0, AtFields DEF Calls
    <2>5. /\ v.blind = pod[p].blind
          /\ \/ ~External /\ v.pc = "done" /\ v.x = "service"
             \/ /\ External /\ v.pc = "probe" /\ v.ip # Absent
                /\ <<pod[p].x, v.x>> \in {<<"service", "hostedService">>,
                                          <<"hostedService", "endpoints">>}
             \/ /\ External /\ v.pc = "done" /\ v.ip # Absent
                /\ pod[p].x = "endpoints" /\ v.x = "endpoints"
      <3>1. CASE ~External
        <4>1. v = [At(p, "done") EXCEPT !.ip = value] /\ pod[p].x = "service"
          BY <1>0, <3>1 DEF AfterCreate, Good
        <4> QED BY <2>4, <3>1, <4>1 DEF Pod
      <3>2. CASE External /\ pod[p].x = "service"
        <4>1. v = [At(p, "probe") EXCEPT !.ip = value, !.x = "hostedService"]
          BY <3>2 DEF AfterCreate
        <4> QED BY <2>1, <2>4, <3>2, <4>1 DEF Pod
      <3>3. CASE External /\ pod[p].x = "hostedService"
        <4>1. v = [At(p, "probe") EXCEPT !.x = "endpoints"]
          BY <3>3 DEF AfterCreate
        <4> QED BY <1>0, <2>4, <3>3, <4>1 DEF Pod, Sure
      <3>4. CASE External /\ pod[p].x = "endpoints"
        <4>1. v = At(p, "done")
          BY <3>4 DEF AfterCreate
        <4> QED BY <1>0, <2>4, <3>4, <4>1 DEF Sure
      <3> QED BY <1>0, <3>1, <3>2, <3>3, <3>4, SetupAssumption
    <2>6. Sure(v, cert', old', cfg')
      BY <1>0, <2>5 DEF Sure, BeforeOld, AtOld, AtConfig, Early
    <2>7. ASSUME NEW x \in Wanted
          PROVE  \/ res'[x] # Absent \/ Behind(v, x)
                 \/ res'[x] = res[x] /\ ~Behind(pod[p], x)
      <3>1. CASE ~External
        BY <1>0, <2>2, <2>7, <3>1 DEF Wanted, Good
      <3>2. CASE External
        <4>1. x \in {"service", "hostedService", "endpoints"}
          BY <2>7, <3>2 DEF Wanted, Resources
        <4> QED BY <2>2, <2>5, <3>2, <4>1 DEF Behind, Resources
      <3> QED BY <3>1, <3>2, SetupAssumption
    <2> QED BY <2>3, <2>6, <2>7, KeepsDone
  <1>6. CASE Create(p)
    <2>1. CASE res' = res /\ (Step(p, At(p, "redelete")) \/ Step(p, Down))
      BY <1>2, <1>3, <2>1
    <2> QED BY <1>2, <1>5, <1>6, <2>1 DEF Create, Done
  <1> QED BY <1>4, <1>6

LEMMA SetupStepKeepsDone ==
  ASSUME DoneInv, NEW p \in Pods, SetupStep(p)
  PROVE  DoneInv'
  <1>1. CAInv'
    BY CAReads, CACreate, CAWrites, CAServices DEF DoneInv, SetupStep
  <1> QED BY <1>1, SetupKeepsDone, ConfigKeepsDone, ServicesKeepDone
          DEF SetupStep

(* A process that exits, for whatever reason.                               *)
LEMMA ExitStepKeepsDone ==
  ASSUME DoneInv, NEW p \in Pods, Step(p, Down),
         UNCHANGED <<ca, cert, old, cfg, res, quiet>>
  PROVE  DoneInv'
  <1>0. CAInv /\ TypeOK
    BY DEF DoneInv, CAInv
  <1>1. CAInv'
    BY <1>0, StepPod, GoodDown, KeepsCA DEF TypeOK
  <1>2. pod'[p] = Down /\ \A q \in Pods \ {p} : pod'[q] = pod[q]
    BY <1>0 DEF Step, TypeOK
  <1>3. Monotone(p)
    BY <1>2 DEF Monotone
  <1> QED BY <1>1, <1>2, <1>3, ExitKeepsDone

LEMMA StabiliseKeepsDone ==
  ASSUME DoneInv, UNCHANGED <<ca, cert, old, cfg, res, pod>>,
         quiet' \in BOOLEAN
  PROVE  DoneInv'
  <1>1. CAInv'
    BY KeepsCA DEF DoneInv, CAInv, TypeOK
  <1> QED BY <1>1 DEF DoneInv, Sure, Behind, Wanted

LEMMA DoneIsComplete == DoneInv => CompletedIsComplete
  <1> SUFFICES ASSUME DoneInv, AllDone, Pods # {} PROVE CompletedIsComplete
    BY DEF CompletedIsComplete
  <1>1. CAInv /\ \A p \in Pods : pod[p].pc = "done" /\ Sure(pod[p], cert, old, cfg)
    BY DEF DoneInv, AllDone
  <1>2. cert # Absent /\ ~old
    BY <1>1 DEF Sure, BeforeOld, AtOld, Early
  <1>3. cfg = Absent => AllBlind
    BY <1>1 DEF Sure, BeforeOld, AtOld, AtConfig, Early, AllBlind
  <1>4. \A x \in Wanted : res[x] # Absent
    BY DEF DoneInv, Behind, AllDone
  <1> QED BY <1>1, <1>2, <1>3, <1>4 DEF CompletedIsComplete, CAInv, Trusted

(* However many pods set up the webhook at once, and wherever they fail,    *)
(* crash or remove each other's objects: when all have completed, the       *)
(* certificate, the configuration, the Services and the Endpoints are there *)
(* (WireUpWebhookSupplymentryResource, createOrRecreate), the configuration *)
(* unless none of them could read it.                                       *)
THEOREM RolloutComplete == Spec => []CompletedIsComplete
  <1>1. DoneInv /\ [Next]_vars => DoneInv'
    <2> SUFFICES ASSUME DoneInv, [Next]_vars PROVE DoneInv'
      OBVIOUS
    <2>1. CASE Stabilise \/ UNCHANGED vars
      <3>1. UNCHANGED <<ca, cert, old, cfg, res, pod>> /\ quiet' \in BOOLEAN
        BY <2>1 DEF Stabilise, vars, DoneInv, CAInv, TypeOK
      <3> QED BY <3>1, StabiliseKeepsDone
    <2>2. ASSUME NEW p \in Pods, CallFails(p) \/ Crash(p) PROVE DoneInv'
      BY <2>2, ExitStepKeepsDone DEF CallFails, Crash
    <2> QED BY <2>1, <2>2, SetupStepKeepsDone DEF Next
  <1> QED BY <1>1, DoneInit, DoneIsComplete, PTL DEF Spec
=============================================================================
