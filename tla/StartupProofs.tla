--------------------------- MODULE StartupProofs ---------------------------
(* What RunManager keeps across retries, exits and restarts: the TLS        *)
(* profile it serves with, and what the set-up leaves behind.               *)
EXTENDS ManagerStartup, WebhookProofs

(* The parts of TypeOK that the set-up of the webhook needs here.           *)
ShapeOK == /\ ca \in CAs \cup {Absent} /\ cert \in CAs \cup {Absent}
           /\ pod \in [Pods -> Pod]
           /\ res \in [Resources -> IPs \cup {HostedIP, Absent}]

LEMMA DownIsPod == Down \in Pod
  BY DEF Down, Pod, Calls, Resources

LEMMA AtIsPod ==
  ASSUME ShapeOK, NEW p \in Pods, NEW pc \in Calls \cup {"done"}
  PROVE  /\ At(p, pc) \in Pod /\ At(p, pc).pc = pc
         /\ At(p, pc).x = pod[p].x /\ At(p, pc).ip = pod[p].ip
  BY DEF ShapeOK, At, Pod

----------------------------------------------------------------------------
(* The Endpoints.  A pod that is past the Service holds the Service's       *)
(* cluster IP, and when it is done it has written that into the Endpoints.  *)
Follows(v, r) ==
    /\ v \in Pod
    /\ v.x # "service" => v.ip = r["service"]
    /\ v.pc = "done" => v.x = "endpoints" /\ r["endpoints"] = v.ip

EndpointsInv == ShapeOK /\ \A p \in Pods : Follows(pod[p], res)

LEMMA FollowsDown == ASSUME NEW r PROVE Follows(Down, r)
  BY DownIsPod DEF Follows, Down

(* A step to another call, or back to the start, that leaves the Services   *)
(* alone.                                                                   *)
LEMMA QuietStep ==
  ASSUME EndpointsInv, NEW p \in Pods, res' = res, NEW v, Step(p, v),
         ca' \in CAs \cup {Absent}, cert' \in CAs \cup {Absent},
         \/ v = Down
         \/ /\ v \in Pod /\ v.pc # "done"
            /\ v.x = pod[p].x /\ v.ip = pod[p].ip
  PROVE  EndpointsInv'
  <1>1. v \in Pod /\ Follows(v, res)
    BY FollowsDown, DownIsPod DEF EndpointsInv, Follows
  <1> QED BY <1>1 DEF EndpointsInv, ShapeOK, Step

LEMMA QuietDone ==
  ASSUME EndpointsInv, NEW p \in Pods, res' = res,
         ca' \in CAs \cup {Absent}, cert' \in CAs \cup {Absent},
         NEW pc \in Calls, Done(p, At(p, pc)) \/ Step(p, Down)
  PROVE  EndpointsInv'
  <1>1. Step(p, At(p, pc)) \/ Step(p, Down)
    BY DEF Done
  <1>2. /\ At(p, pc) \in Pod /\ At(p, pc).pc # "done"
        /\ At(p, pc).x = pod[p].x /\ At(p, pc).ip = pod[p].ip
    BY AtIsPod DEF EndpointsInv, Calls
  <1> QED BY <1>1, <1>2, QuietStep

(* Everything before the Services.                                          *)
LEMMA SetupKeepsEndpoints ==
  ASSUME EndpointsInv, NEW p \in Pods,
         \/ Boot(p) \/ GetCA(p) \/ CreateCA(p) \/ GetCert(p) \/ CreateCert(p)
         \/ GetOld(p) \/ DeleteOld(p) \/ GetConfig(p) \/ WriteConfig(p)
         \/ Probe(p)
  PROVE  EndpointsInv'
  <1>0. /\ ShapeOK /\ pod[p] \in Pod
        /\ ca \in CAs \cup {Absent} /\ cert \in CAs \cup {Absent}
    BY DEF EndpointsInv, ShapeOK
  <1>1. res' = res
    BY DEF Boot, GetCA, CreateCA, GetCert, CreateCert, GetOld, DeleteOld,
           GetConfig, WriteConfig, Probe
  <1>2. CASE Boot(p) \/ GetOld(p) \/ Probe(p)
    <2>1. /\ \E pc \in Calls : Step(p, At(p, pc))
          /\ ca' = ca /\ cert' = cert
      BY <1>2 DEF Boot, GetOld, Probe, AfterGet, Calls
    <2>2. PICK pc \in Calls : Step(p, At(p, pc))
      BY <2>1
    <2>3. /\ At(p, pc) \in Pod /\ At(p, pc).pc # "done"
          /\ At(p, pc).x = pod[p].x /\ At(p, pc).ip = pod[p].ip
      BY <1>0, AtIsPod DEF Calls
    <2> QED BY <1>0, <1>1, <2>1, <2>2, <2>3, QuietStep
  <1>3. CASE GetCA(p)
    <2>1. ca' = ca /\ cert' = cert
      BY <1>3 DEF GetCA
    <2>2. PICK pc \in {"certGet", "caCreate"}, w \in CAs \cup {Absent} :
             Step(p, [At(p, pc) EXCEPT !.ca = w])
      BY <1>0, <1>3 DEF GetCA
    <2>3. [At(p, pc) EXCEPT !.ca = w] \in Pod
          /\ [At(p, pc) EXCEPT !.ca = w].pc # "done"
          /\ [At(p, pc) EXCEPT !.ca = w].x = pod[p].x
          /\ [At(p, pc) EXCEPT !.ca = w].ip = pod[p].ip
      BY <1>0 DEF At, Pod, Calls
    <2> QED BY <1>0, <1>1, <2>1, <2>2, <2>3, QuietStep
  <1>4. CASE GetCert(p)
    <2>1. ca' = ca /\ cert' = cert
      BY <1>4 DEF GetCert
    <2>2. PICK pc \in {"oldGet", "certCreate"}, w \in CAs \cup {Absent} :
             Step(p, [At(p, pc) EXCEPT !.cert = w])
      <3>1. pod[p].ca \in CAs \cup {Absent}
        BY <1>0 DEF Pod
      <3> QED BY <1>0, <1>4, <3>1 DEF GetCert, GenerateSignedCert
    <2>3. [At(p, pc) EXCEPT !.cert = w] \in Pod
          /\ [At(p, pc) EXCEPT !.cert = w].pc # "done"
          /\ [At(p, pc) EXCEPT !.cert = w].x = pod[p].x
          /\ [At(p, pc) EXCEPT !.cert = w].ip = pod[p].ip
      BY <1>0 DEF At, Pod, Calls
    <2> QED BY <1>0, <1>1, <2>1, <2>2, <2>3, QuietStep
  <1>5. CASE CreateCA(p) \/ CreateCert(p) \/ DeleteOld(p)
    <2>1. ca' \in CAs \cup {Absent} /\ cert' \in CAs \cup {Absent}
      BY <1>0, <1>5 DEF CreateCA, CreateCert, DeleteOld, Pod
    <2>2. \E pc \in Calls : Done(p, At(p, pc)) \/ Step(p, Down)
      BY <1>5 DEF CreateCA, CreateCert, DeleteOld, Calls
    <2> QED BY <1>1, <2>1, <2>2, QuietDone
  <1>6. CASE GetConfig(p)
    <2>1. ca' = ca /\ cert' = cert
      BY <1>6 DEF GetConfig
    <2>2. CASE Step(p, At(p, "cfgCreate"))
      <3>1. /\ At(p, "cfgCreate") \in Pod /\ At(p, "cfgCreate").pc # "done"
            /\ At(p, "cfgCreate").x = pod[p].x
            /\ At(p, "cfgCreate").ip = pod[p].ip
        BY <1>0, AtIsPod DEF Calls
      <3> QED BY <1>0, <1>1, <2>1, <2>2, <3>1, QuietStep
    <2>3. CASE Step(p, [At(p, "cfgUpdate") EXCEPT !.current = TRUE])
      <3>1. [At(p, "cfgUpdate") EXCEPT !.current = TRUE] \in Pod
            /\ [At(p, "cfgUpdate") EXCEPT !.current = TRUE].pc # "done"
            /\ [At(p, "cfgUpdate") EXCEPT !.current = TRUE].x = pod[p].x
            /\ [At(p, "cfgUpdate") EXCEPT !.current = TRUE].ip = pod[p].ip
        BY <1>0 DEF At, Pod, Calls
      <3> QED BY <1>0, <1>1, <2>1, <2>3, <3>1, QuietStep
    <2>4. CASE Step(p, [At(p, "probe") EXCEPT !.blind = TRUE])
      <3>1. [At(p, "probe") EXCEPT !.blind = TRUE] \in Pod
            /\ [At(p, "probe") EXCEPT !.blind = TRUE].pc # "done"
            /\ [At(p, "probe") EXCEPT !.blind = TRUE].x = pod[p].x
            /\ [At(p, "probe") EXCEPT !.blind = TRUE].ip = pod[p].ip
        BY <1>0 DEF At, Pod, Calls
      <3> QED BY <1>0, <1>1, <2>1, <2>4, <3>1, QuietStep
    <2> QED BY <1>6, <2>2, <2>3, <2>4 DEF GetConfig
  <1>7. CASE WriteConfig(p)
    <2>1. ca' = ca /\ cert' = cert
      BY <1>7 DEF WriteConfig
    <2>2. \A q \in Pods : Follows([pod[q] EXCEPT !.current = FALSE], res)
      BY DEF EndpointsInv, Follows, Pod
    <2>3. ASSUME NEW v, Follows(v, res), ConfigWritten(p, v)
          PROVE  EndpointsInv'
      <3>1. \A q \in Pods :
               pod'[q] = IF q = p THEN v ELSE [pod[q] EXCEPT !.current = FALSE]
        BY <2>3 DEF ConfigWritten
      <3>2. \A q \in Pods : Follows(pod'[q], res)
        BY <2>2, <2>3, <3>1
      <3>3. pod' \in [Pods -> Pod]
        BY <2>3, <3>1, <3>2 DEF ConfigWritten, Follows
      <3> QED BY <1>0, <1>1, <2>1, <3>2, <3>3 DEF EndpointsInv, ShapeOK
    <2>4. Follows(At(p, "probe"), res)
      <3>1. /\ At(p, "probe") \in Pod /\ At(p, "probe").pc # "done"
            /\ At(p, "probe").x = pod[p].x /\ At(p, "probe").ip = pod[p].ip
        BY <1>0, AtIsPod DEF Calls
      <3> QED BY <3>1 DEF EndpointsInv, Follows
    <2>5. CASE Step(p, Down)
      BY <1>0, <1>1, <2>1, <2>5, QuietStep
    <2>6. ConfigWritten(p, At(p, "probe")) \/ ConfigWritten(p, Down)
          \/ Step(p, Down)
      BY <1>7 DEF WriteConfig
    <2> QED BY <2>3, <2>4, <2>5, <2>6, FollowsDown
  <1> QED BY <1>2, <1>3, <1>4, <1>5, <1>6, <1>7

(* One pod: nobody else replaces the Service.                               *)
Single == \E p : Pods = {p}

LEMMA ServicesKeepEndpoints ==
  ASSUME Single, External, EndpointsInv, NEW p \in Pods,
         Remove(p) \/ Create(p) \/ Redelete(p)
  PROVE  EndpointsInv'
  <1>0. /\ ShapeOK /\ pod[p] \in Pod /\ Follows(pod[p], res)
        /\ \A q \in Pods : q = p
        /\ pod[p].x \in {"service", "hostedService", "endpoints"}
    BY DEF EndpointsInv, ShapeOK, Single, Pod, Resources
  <1>1. ca' = ca /\ cert' = cert
    BY DEF Remove, Create, Redelete
  <1>2. ASSUME NEW v, Step(p, v), Follows(v, res'),
               res' \in [Resources -> IPs \cup {HostedIP, Absent}]
        PROVE  EndpointsInv'
    <2>1. pod' \in [Pods -> Pod] /\ pod'[p] = v
      BY <1>0, <1>2 DEF Step, Follows, ShapeOK
    <2> QED BY <1>0, <1>1, <1>2, <2>1 DEF EndpointsInv, ShapeOK
  <1>3. ASSUME NEW pc \in {"create", "recreate", "redelete"}
        PROVE  /\ At(p, pc) \in Pod /\ At(p, pc).pc # "done"
               /\ At(p, pc).x = pod[p].x /\ At(p, pc).ip = pod[p].ip
    BY <1>0, AtIsPod DEF Calls
  <1>4. CASE (Remove(p) \/ Redelete(p))
             /\ res' = [res EXCEPT ![pod[p].x] = Absent]
    <2>1. \/ Step(p, Down) \/ Step(p, At(p, "create"))
          \/ Step(p, At(p, "recreate"))
      BY <1>4 DEF Remove, Redelete, Done
    <2>2. /\ res' \in [Resources -> IPs \cup {HostedIP, Absent}]
          /\ pod[p].x # "service" => res'["service"] = res["service"]
      BY <1>0, <1>4 DEF ShapeOK, Resources
    <2>3. Follows(At(p, "create"), res') /\ Follows(At(p, "recreate"), res')
      BY <1>0, <1>3, <2>2 DEF Follows
    <2> QED BY <1>2, <2>1, <2>2, <2>3, FollowsDown
  <1>5. CASE UNCHANGED res /\ (Step(p, Down) \/ Step(p, At(p, "redelete")))
    BY <1>0, <1>1, <1>3, <1>5, QuietStep DEF ShapeOK
  <1>6. ASSUME NEW value \in Values(p), Done(p, AfterCreate(p, value)),
               res' = [res EXCEPT ![pod[p].x] = value]
        PROVE  EndpointsInv'
    <2>1. /\ value \in IPs \cup {HostedIP, Absent}
          /\ pod[p].x = "service" => value \in IPs
          /\ pod[p].x = "endpoints" => value = pod[p].ip
      BY <1>0 DEF Values, Pod
    <2>2. /\ res' \in [Resources -> IPs \cup {HostedIP, Absent}]
          /\ res'[pod[p].x] = value
          /\ pod[p].x # "service" => res'["service"] = res["service"]
      BY <1>0, <1>6, <2>1 DEF ShapeOK, Resources
    <2>3. Follows(AfterCreate(p, value), res')
      <3>1. /\ At(p, "probe") \in Pod /\ At(p, "probe").pc = "probe"
            /\ At(p, "probe").x = pod[p].x /\ At(p, "probe").ip = pod[p].ip
            /\ At(p, "done") \in Pod /\ At(p, "done").pc = "done"
            /\ At(p, "done").x = pod[p].x /\ At(p, "done").ip = pod[p].ip
        BY <1>0, AtIsPod DEF Calls
      <3>2. CASE pod[p].x = "service"
        <4>1. AfterCreate(p, value) =
                [At(p, "probe") EXCEPT !.ip = value, !.x = "hostedService"]
          BY <3>2 DEF AfterCreate
        <4> QED BY <2>1, <2>2, <3>1, <3>2, <4>1 DEF Follows, Pod, Resources
      <3>3. CASE pod[p].x = "hostedService"
        <4>1. AfterCreate(p, value) = [At(p, "probe") EXCEPT !.x = "endpoints"]
          BY <3>3 DEF AfterCreate
        <4> QED BY <1>0, <2>2, <3>1, <3>3, <4>1 DEF Follows, Pod, Resources
      <3>4. CASE pod[p].x = "endpoints"
        <4>1. AfterCreate(p, value) = At(p, "done")
          BY <3>4 DEF AfterCreate
        <4> QED BY <1>0, <2>1, <2>2, <3>1, <3>4, <4>1 DEF Follows
      <3> QED BY <1>0, <3>2, <3>3, <3>4
    <2>4. Step(p, AfterCreate(p, value)) \/ Step(p, Down)
      BY <1>6 DEF Done
    <2> QED BY <1>2, <2>2, <2>3, <2>4, FollowsDown
  <1>7. CASE Create(p)
    BY <1>5, <1>6, <1>7 DEF Create
  <1>8. CASE Remove(p) \/ Redelete(p)
    BY <1>4, <1>5, <1>8 DEF Remove, Redelete
  <1> QED BY <1>7, <1>8

LEMMA EndpointsInit == Init => EndpointsInv
  <1> SUFFICES ASSUME Init PROVE EndpointsInv
    OBVIOUS
  <1>1. \A p \in Pods : pod[p] = Down
    BY DEF Init
  <1>2. ShapeOK
    BY DownIsPod DEF Init, ShapeOK
  <1> QED BY <1>1, <1>2, FollowsDown DEF EndpointsInv

(* A process that exits, whatever it was at.                                *)
LEMMA ExitKeepsEndpoints ==
  ASSUME EndpointsInv, NEW p \in Pods, Step(p, Down),
         UNCHANGED <<ca, cert, res>>
  PROVE  EndpointsInv'
  <1>1. ca \in CAs \cup {Absent} /\ cert \in CAs \cup {Absent}
    BY DEF EndpointsInv, ShapeOK
  <1> QED BY <1>1, QuietStep

LEMMA EndpointsStep ==
  ASSUME Single, External, EndpointsInv, [StartupNext]_startupVars
  PROVE  EndpointsInv'
  <1>1. CASE UNCHANGED <<ca, cert, res, pod>>
    BY <1>1 DEF EndpointsInv, ShapeOK
  <1>2. ASSUME NEW p \in Pods, Step(p, Down), UNCHANGED <<ca, cert, res>>
        PROVE  EndpointsInv'
    BY <1>2, ExitKeepsEndpoints
  <1>3. ASSUME NEW p \in Pods, SetupStep(p) PROVE EndpointsInv'
    BY <1>3, SetupKeepsEndpoints, ServicesKeepEndpoints DEF SetupStep
  <1>4. ASSUME NEW p \in Pods, ProcStep(p) PROVE EndpointsInv'
    BY <1>1, <1>2, <1>3, <1>4
       DEF ProcStep, Attempt, AttemptEnds, GiveUp, NewManager,
           DetectClusterRegistry, SetUp, Exit, vars
  <1>5. ASSUME NEW p \in Pods, Tick(p) \/ RegistryFound(p) \/ Stops(p)
        PROVE  EndpointsInv'
    BY <1>1, <1>2, <1>5
       DEF Tick, RegistryFound, Stops, CallFails, Crash, Exit, vars
  <1>6. CASE ClusterAPIChanges \/ Stabilise \/ UNCHANGED startupVars
    BY <1>1, <1>6 DEF ClusterAPIChanges, Stabilise, startupVars, vars
  <1> QED BY <1>4, <1>5, <1>6 DEF StartupNext

(* A controller that is alone leaves Endpoints that lead to the Service,    *)
(* wherever earlier runs of it failed, were killed, or exited because the   *)
(* cluster API appeared (getOrCreateWebhookService, DetectClusterRegistry). *)
THEOREM EndpointsCorrect == Single /\ StartupSpec => []EndpointsFollowService
  <1>1. CASE Single /\ External
    <2>1. EndpointsInv /\ [StartupNext]_startupVars => EndpointsInv'
      BY <1>1, EndpointsStep
    <2>2. EndpointsInv => EndpointsFollowService
      BY <1>1 DEF EndpointsInv, Follows, EndpointsFollowService, AllDone, Single
    <2> QED BY <2>1, <2>2, EndpointsInit, PTL DEF StartupSpec, StartupInit
  <1>2. CASE ~External
    <2>1. EndpointsFollowService
      BY <1>2 DEF EndpointsFollowService
    <2> QED BY <2>1, PTL
  <1>3. CASE ~Single
    BY <1>3, PTL
  <1> QED BY <1>1, <1>2, <1>3

----------------------------------------------------------------------------
(* The set-up inside RunManager.  An exit because of the cluster API is no  *)
(* crash: it happens when failures have stopped, too, and after the set-up. *)
LEMMA StartupKeepsDone ==
  ASSUME DoneInv, [StartupNext]_startupVars
  PROVE  DoneInv'
  <1>0. quiet \in BOOLEAN
    BY DEF DoneInv, CAInv, TypeOK
  <1>1. CASE UNCHANGED vars
    BY <1>0, <1>1, StabiliseKeepsDone DEF vars
  <1>2. ASSUME NEW p \in Pods, Step(p, Down),
               UNCHANGED <<ca, cert, old, cfg, res, quiet>>
        PROVE  DoneInv'
    BY <1>2, ExitStepKeepsDone
  <1>3. ASSUME NEW p \in Pods, ProcStep(p) PROVE DoneInv'
    BY <1>1, <1>2, <1>3, SetupStepKeepsDone
       DEF ProcStep, Attempt, AttemptEnds, GiveUp, NewManager,
           DetectClusterRegistry, SetUp, Exit, vars
  <1>4. ASSUME NEW p \in Pods, Tick(p) \/ RegistryFound(p) \/ Stops(p)
        PROVE  DoneInv'
    BY <1>1, <1>2, <1>4
       DEF Tick, RegistryFound, Stops, CallFails, Crash, Exit, vars
  <1>5. CASE Stabilise
    BY <1>5, StabiliseKeepsDone DEF Stabilise
  <1>6. CASE ClusterAPIChanges \/ UNCHANGED startupVars
    BY <1>1, <1>6 DEF ClusterAPIChanges, startupVars, vars
  <1> QED BY <1>3, <1>4, <1>5, <1>6 DEF StartupNext

(* RunManager in any number of pods: processes that exit in the middle of   *)
(* the set-up because the cluster API appeared (DetectClusterRegistry) or   *)
(* because a call failed still agree on one CA, and nothing is missing when *)
(* all have completed.                                                      *)
THEOREM RestartsComplete == StartupSpec => [](OneCA /\ CompletedIsComplete)
  <1>1. StartupInit => DoneInv
    BY DoneInit DEF StartupInit
  <1>2. DoneInv => OneCA
    BY DEF DoneInv, CAInv, OneCA, Good, Early
  <1> QED BY <1>1, <1>2, StartupKeepsDone, DoneIsComplete, PTL DEF StartupSpec

----------------------------------------------------------------------------
(* The TLS profile.  ProfileHonoured is not inductive: the clock of the     *)
(* retries must not run on once something is cached.                        *)
Answers == {Absent, Default, Asked(profile)}

Honest(v) ==
    /\ v \in [stage : Stages, elapsed : 0 .. Window, due : BOOLEAN,
              busy : BOOLEAN, tls : Answers, polling : BOOLEAN]
    /\ v.stage \in {"client", "get"} => v.tls = Absent
    /\ v.busy => v.stage \in {"client", "get"}
    /\ v.tls # Absent => v.tls = Asked(profile)
                         \/ (v.tls = Default /\ v.elapsed = Window)

HonestInv == /\ DOMAIN proc = Pods /\ proc = [p \in Pods |-> proc[p]]
             /\ \A p \in Pods : Honest(proc[p])

LEMMA FreshIsHonest == Honest(Fresh)
  BY StartupAssumption DEF Honest, Fresh, Stages, Answers

LEMMA HonestStep ==
  ASSUME HonestInv, profile' = profile, NEW p \in Pods, NEW v, Honest(v),
         Proc(p, v) \/ proc' = proc
  PROVE  HonestInv'
  <1>1. /\ proc' = [q \in Pods |-> proc'[q]] /\ DOMAIN proc' = Pods
        /\ \A q \in Pods : Honest(proc'[q])
    BY DEF HonestInv, Proc
  <1>2. \A q \in Pods : Honest(proc[q])'
    BY <1>1 DEF Honest, Answers, Asked
  <1> QED BY <1>1, <1>2 DEF HonestInv

(* What the retries may cache.                                              *)
LEMMA CacheIsHonest ==
  ASSUME HonestInv, profile' = profile, NEW p \in Pods, NEW config,
         Cache(p, config),
         \/ config = Asked(profile)
         \/ config = Default /\ proc[p].elapsed = Window
  PROVE  HonestInv'
  <1> DEFINE v == [Goes(p, "manager") EXCEPT !.tls = config, !.busy = FALSE]
  <1>1. Honest(v)
    <2>1. Honest(proc[p]) /\ config \in Answers
      BY DEF HonestInv, Answers
    <2>2. /\ v \in [stage : Stages, elapsed : 0 .. Window, due : BOOLEAN,
                    busy : BOOLEAN, tls : Answers, polling : BOOLEAN]
          /\ v.stage = "manager" /\ v.tls = config /\ v.busy = FALSE
          /\ v.elapsed = proc[p].elapsed
      BY <2>1 DEF Honest, Goes, Stages
    <2> QED BY <2>2 DEF Honest
  <1>2. Proc(p, v)
    BY DEF Cache
  <1> QED BY <1>1, <1>2, HonestStep

(* A finished attempt.                                                      *)
LEMMA AttemptIsHonest ==
  ASSUME HonestInv, NEW p \in Pods, AttemptEnds(p)
  PROVE  HonestInv'
  <1>0. /\ Honest(proc[p]) /\ proc[p].stage \in {"client", "get"}
        /\ profile' = profile
    BY DEF HonestInv, Honest, AttemptEnds
  <1>1. PICK r \in Results(p) :
         \/ r = "ok" /\ proc[p].stage = "client"
            /\ Proc(p, [Fresh EXCEPT !.stage = "get"])
         \/ r = "ok" /\ proc[p].stage = "get"
            /\ Cache(p, profileSpecToTLSConfig(getEffectiveProfileSpec(profile)))
         \/ r # "ok" /\ isPermanentAPIServerError(r) /\ Cache(p, Default)
         \/ r # "ok" /\ ~isPermanentAPIServerError(r)
            /\ Proc(p, [proc[p] EXCEPT !.busy = FALSE])
    BY DEF AttemptEnds
  <1>2. CASE r = "ok" /\ proc[p].stage = "client"
    <2>1. Honest([Fresh EXCEPT !.stage = "get"])
      <3>1. Fresh.stage = "client"
        BY DEF Fresh
      <3> QED BY <3>1, FreshIsHonest DEF Honest, Stages
    <2> QED BY <1>0, <1>1, <1>2, <2>1, HonestStep
  <1>3. CASE r = "ok" /\ proc[p].stage = "get"
    <2>1. profile.type \notin Missing
      BY <1>3 DEF Results, Missing
    <2>2. profileSpecToTLSConfig(getEffectiveProfileSpec(profile))
             = Asked(profile)
      BY <2>1 DEF Asked
    <2> QED BY <1>0, <1>1, <1>3, <2>2, CacheIsHonest
  <1>4. CASE r # "ok" /\ isPermanentAPIServerError(r)
    <2>1. profile.type \in Missing
      BY <1>1, <1>4 DEF Results, isPermanentAPIServerError, Missing
    <2>2. Default = Asked(profile)
      BY <2>1 DEF Asked
    <2> QED BY <1>0, <1>1, <1>4, <2>2, CacheIsHonest
  <1>5. CASE r # "ok" /\ ~isPermanentAPIServerError(r)
    <2>1. Honest([proc[p] EXCEPT !.busy = FALSE])
      BY <1>0 DEF Honest
    <2> QED BY <1>0, <1>1, <1>5, <2>1, HonestStep
  <1> QED BY <1>1, <1>2, <1>3, <1>4, <1>5

LEMMA RetriesAreHonest ==
  ASSUME HonestInv, NEW p \in Pods, Attempt(p) \/ Tick(p) \/ GiveUp(p)
  PROVE  HonestInv'
  <1>0. /\ Honest(proc[p]) /\ proc[p].stage \in {"client", "get"}
        /\ profile' = profile
    BY DEF HonestInv, Attempt, Tick, GiveUp, Retrying
  <1>1. CASE Attempt(p)
    <2>1. Honest([proc[p] EXCEPT !.due = FALSE, !.busy = TRUE])
      BY <1>0 DEF Honest
    <2> QED BY <1>0, <1>1, <2>1, HonestStep DEF Attempt
  <1>2. CASE Tick(p)
    <2>1. proc[p].elapsed + 1 \in 0 .. Window
      BY <1>0, <1>2, StartupAssumption DEF Tick, Honest
    <2>2. Honest([proc[p] EXCEPT !.elapsed = @ + 1, !.due = TRUE])
      BY <1>0, <2>1 DEF Honest
    <2> QED BY <1>0, <1>2, <2>2, HonestStep DEF Tick
  <1>3. CASE GiveUp(p)
    BY <1>0, <1>3, CacheIsHonest DEF GiveUp, TimedOut
  <1> QED BY <1>1, <1>2, <1>3

(* The rest of RunManager carries the profile along, or starts again.       *)
LEMMA RestIsHonest ==
  ASSUME HonestInv, NEW p \in Pods,
         \/ NewManager(p) \/ DetectClusterRegistry(p) \/ RegistryFound(p)
         \/ SetUp(p) \/ Stops(p)
  PROVE  HonestInv'
  <1>0. Honest(proc[p]) /\ profile' = profile
    BY DEF HonestInv, NewManager, DetectClusterRegistry, RegistryFound, SetUp,
           Stops
  <1>1. ASSUME NEW stage \in {"detect", "attach", "up"}, NEW b \in BOOLEAN,
               proc[p].stage \notin {"client", "get"}
        PROVE  /\ Honest(Goes(p, stage))
               /\ Honest([Goes(p, stage) EXCEPT !.polling = b])
    BY <1>0, <1>1 DEF Honest, Goes, Stages
  <1>2. CASE NewManager(p)
    <2>1. Proc(p, Goes(p, "detect")) \/ Proc(p, Fresh)
      BY <1>2 DEF NewManager, Exit
    <2>2. Honest(Goes(p, "detect"))
      BY <1>1, <1>2 DEF NewManager
    <2> QED BY <1>0, <2>1, <2>2, HonestStep, FreshIsHonest
  <1>3. CASE DetectClusterRegistry(p)
    <2>1. PICK b \in BOOLEAN :
             Proc(p, [Goes(p, "attach") EXCEPT !.polling = b])
      BY <1>3 DEF DetectClusterRegistry, MustWatch
    <2>2. Honest([Goes(p, "attach") EXCEPT !.polling = b])
      BY <1>1, <1>3 DEF DetectClusterRegistry
    <2> QED BY <1>0, <2>1, <2>2, HonestStep
  <1>4. CASE RegistryFound(p) \/ Stops(p)
    BY <1>0, <1>4, HonestStep, FreshIsHonest DEF RegistryFound, Stops, Exit
  <1>5. CASE SetUp(p)
    <2>1. \/ proc[p].stage = "attach" /\ Proc(p, Goes(p, "up"))
          \/ Proc(p, Fresh) \/ proc' = proc
      BY <1>5 DEF SetUp, Restarted
    <2>2. proc[p].stage = "attach" => Honest(Goes(p, "up"))
      BY <1>1
    <2> QED BY <1>0, <2>1, <2>2, HonestStep, FreshIsHonest
  <1> QED BY <1>2, <1>3, <1>4, <1>5

LEMMA HonestNext ==
  ASSUME HonestInv, [StartupNext]_startupVars
  PROVE  HonestInv'
  <1>1. CASE UNCHANGED <<profile, proc>>
    BY <1>1 DEF HonestInv, Honest, Answers, Asked
  <1> QED BY <1>1, AttemptIsHonest, RetriesAreHonest, RestIsHonest
          DEF StartupNext, ProcStep, ClusterAPIChanges, startupVars

(* The configuration InitClusterTLSConfig caches is the one the cluster     *)
(* asks for, whatever transient errors retryAPIServerOp met; the default    *)
(* takes its place only when a whole window of attempts has failed.         *)
THEOREM ProfileCorrect == StartupSpec => []ProfileHonoured
  <1>1. StartupInit => HonestInv
    BY FreshIsHonest DEF StartupInit, HonestInv
  <1>2. HonestInv => ProfileHonoured
    BY DEF HonestInv, Honest, ProfileHonoured
  <1> QED BY <1>1, <1>2, HonestNext, PTL DEF StartupSpec
=============================================================================
