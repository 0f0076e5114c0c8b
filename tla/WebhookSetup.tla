---------------------------- MODULE WebhookSetup ----------------------------
(* How a controller pod sets up the validating webhook                      *)
(* (pkg/webhook/certificate.go, pkg/webhook/wireupwebhook.go and the end of *)
(* RunManager): Attach finds or makes the CA and the serving certificate,   *)
(* WireUpWebhookSupplymentryResource then writes the webhook configuration  *)
(* and replaces the Service and, for a hosted API server, the hosted        *)
(* Service and its Endpoints.  The set-up is not guarded by the leader      *)
(* lease, so during a rollout two pods run it at once; any error ends the   *)
(* process, and the kubelet starts it again from the beginning.             *)
CONSTANTS Pods,
          CAs,         \* identities of certificate authorities
          IPs,         \* cluster IPs of the in-cluster Service
          HostedIP,    \* the one of the hosted Service
          External,    \* isExternalAPIServer
          MayMisread,  \* reading the configuration may fail
          Absent

ASSUME SetupAssumption ==
    /\ External \in BOOLEAN /\ MayMisread \in BOOLEAN
    /\ Absent \notin CAs \cup IPs \cup {HostedIP}

VARIABLES
    ca,      \* the CA secret: a CA
    cert,    \* the secret of the serving certificate: the CA that signed it
    old,     \* whether the configuration of release 2.0 is there
    cfg,     \* the webhook configuration: the CA it trusts
    res,     \* res[x]: cluster IP of a Service, target of the Endpoints
    pod,     \* pod[p]: the set-up in pod p
    quiet    \* failures, crashes and administrators have stopped

vars == <<ca, cert, old, cfg, res, pod, quiet>>

Resources == {"service", "hostedService", "endpoints"}

Calls == {"caGet", "caCreate", "certGet", "certCreate", "oldGet", "oldDelete",
          "cfgGet", "cfgCreate", "cfgUpdate",
          "probe", "remove", "create", "redelete", "recreate"}

Pod == [pc : Calls \cup {"down", "done"},
        ca : CAs \cup {Absent},         \* caCert
        cert : CAs \cup {Absent},       \* signer of the certificate in certDir
        current : BOOLEAN,              \* nobody wrote cfg since it was read
        blind : BOOLEAN,                \* history: it went on without reading cfg
        x : Resources,                  \* what getOrCreateWebhookService is at
        ip : IPs \cup {Absent}]         \* serviceClusterIP

Down == [pc |-> "down", ca |-> Absent, cert |-> Absent, current |-> FALSE,
         blind |-> FALSE, x |-> "service", ip |-> Absent]

TypeOK ==
    /\ ca \in CAs \cup {Absent} /\ cert \in CAs \cup {Absent}
    /\ old \in BOOLEAN /\ quiet \in BOOLEAN
    /\ cfg \in CAs \cup {Absent}
    /\ res \in [Resources -> IPs \cup {HostedIP, Absent}]
    /\ pod \in [Pods -> Pod]

Init ==
    /\ ca = Absent /\ cert = Absent /\ cfg = Absent
    /\ old \in BOOLEAN
    /\ res = [x \in Resources |-> Absent]
    /\ pod = [p \in Pods |-> Down]
    /\ quiet = FALSE

----------------------------------------------------------------------------
(* Mutants.                                                                 *)

AcceptsSecond(stored) == TRUE                  \* AlreadyExists ignored

KeepsFound(p, found) ==                        \* Endpoints not replaced
    IF found /\ pod[p].x = "endpoints" THEN "done"
    ELSE IF found THEN "remove" ELSE "create"

ForgetsUpdate(p) == UNCHANGED cfg              \* the configuration not sent

----------------------------------------------------------------------------
Step(p, v) == pod' = [pod EXCEPT ![p] = v]

At(p, pc) == [pod[p] EXCEPT !.pc = pc]

(* A write was accepted; its reply may be lost, and the process exits.      *)
Done(p, v) == \E ok \in IF quiet THEN {TRUE} ELSE BOOLEAN :
                 Step(p, IF ok THEN v ELSE Down)

(* Create succeeds only when there is no object of that name.               *)
Creatable(stored) == stored = Absent

CallFails(p) ==
    /\ ~quiet
    /\ pod[p].pc \in Calls \ {"cfgGet", "probe"}
    /\ Step(p, Down)
    /\ UNCHANGED <<ca, cert, old, cfg, res, quiet>>

Boot(p) ==
    /\ pod[p].pc = "down"
    /\ Step(p, At(p, "caGet"))
    /\ UNCHANGED <<ca, cert, old, cfg, res, quiet>>

----------------------------------------------------------------------------
(* Attach: getSelfSignedCACert.                                             *)
InUse == {ca, cert, cfg} \cup UNION {{pod[p].ca, pod[p].cert} : p \in Pods}

GetCA(p) ==
    /\ pod[p].pc = "caGet"
    /\ IF ca # Absent THEN Step(p, [At(p, "certGet") EXCEPT !.ca = ca])
       ELSE \E new \in CAs \ InUse :
               Step(p, [At(p, "caCreate") EXCEPT !.ca = new])
    /\ UNCHANGED <<ca, cert, old, cfg, res, quiet>>

CreateCA(p) ==
    /\ pod[p].pc = "caCreate"
    /\ IF Creatable(ca) THEN ca' = pod[p].ca /\ Done(p, At(p, "certGet"))
                        ELSE UNCHANGED ca /\ Step(p, Down)
    /\ UNCHANGED <<cert, old, cfg, res, quiet>>

(* A certificate is known by the CA that signed it.                         *)
GenerateSignedCert(signer) == signer

(* getSignedCert, and the certificate goes to certDir.                      *)
GetCert(p) ==
    /\ pod[p].pc = "certGet"
    /\ Step(p, IF cert # Absent THEN [At(p, "oldGet") EXCEPT !.cert = cert]
               ELSE [At(p, "certCreate") EXCEPT
                       !.cert = GenerateSignedCert(pod[p].ca)])
    /\ UNCHANGED <<ca, cert, old, cfg, res, quiet>>

CreateCert(p) ==
    /\ pod[p].pc = "certCreate"
    /\ IF Creatable(cert) THEN cert' = pod[p].cert /\ Done(p, At(p, "oldGet"))
                          ELSE UNCHANGED cert /\ Step(p, Down)
    /\ UNCHANGED <<ca, old, cfg, res, quiet>>

----------------------------------------------------------------------------
(* DelPreValiationCfg20.                                                    *)
GetOld(p) ==
    /\ pod[p].pc = "oldGet"
    /\ Step(p, At(p, IF old THEN "oldDelete" ELSE "cfgGet"))
    /\ UNCHANGED <<ca, cert, old, cfg, res, quiet>>

DeleteOld(p) ==
    /\ pod[p].pc = "oldDelete"
    /\ old' = FALSE
    /\ IF old THEN Done(p, At(p, "cfgGet")) ELSE Step(p, Down)
    /\ UNCHANGED <<ca, cert, cfg, res, quiet>>

(* createOrUpdateValiationWebhook.  An error other than NotFound falls      *)
(* through to the Services.                                                 *)
GetConfig(p) ==
    /\ pod[p].pc = "cfgGet"
    /\ \/ cfg = Absent /\ Step(p, At(p, "cfgCreate"))
       \/ cfg # Absent /\ Step(p, [At(p, "cfgUpdate") EXCEPT !.current = TRUE])
       \/ MayMisread /\ ~quiet /\ Step(p, [At(p, "probe") EXCEPT !.blind = TRUE])
    /\ UNCHANGED <<ca, cert, old, cfg, res, quiet>>

Send(p) == cfg' = pod[p].ca

(* The writer goes on; copies of the configuration in other pods are stale. *)
ConfigWritten(p, v) ==
    pod' = [q \in Pods |-> IF q = p THEN v
                           ELSE [pod[q] EXCEPT !.current = FALSE]]

WriteConfig(p) ==
    /\ pod[p].pc \in {"cfgCreate", "cfgUpdate"}
    /\ IF IF pod[p].pc = "cfgCreate" THEN Creatable(cfg) ELSE pod[p].current
       THEN /\ Send(p)
            /\ \E ok \in IF quiet THEN {TRUE} ELSE BOOLEAN :
                  ConfigWritten(p, IF ok THEN At(p, "probe") ELSE Down)
       ELSE UNCHANGED cfg /\ Step(p, Down)
    /\ UNCHANGED <<ca, cert, old, res, quiet>>

----------------------------------------------------------------------------
(* getOrCreateWebhookService: the Service, then for an external API server  *)
(* the hosted Service and the Endpoints, each removed when it is found and  *)
(* created anew.  A failing read counts as not found.                       *)
AfterGet(p, found) == IF found THEN "remove" ELSE "create"

Probe(p) ==
    /\ pod[p].pc = "probe"
    /\ \E found \in {res[pod[p].x] # Absent} \cup (IF quiet THEN {} ELSE {FALSE}) :
          Step(p, At(p, AfterGet(p, found)))
    /\ UNCHANGED <<ca, cert, old, cfg, res, quiet>>

Remove(p) ==
    /\ pod[p].pc = "remove"
    /\ IF res[pod[p].x] = Absent THEN UNCHANGED res /\ Step(p, Down)
       ELSE /\ res' = [res EXCEPT ![pod[p].x] = Absent]
            /\ Done(p, At(p, "create"))
    /\ UNCHANGED <<ca, cert, old, cfg, quiet>>

Values(p) == CASE pod[p].x = "service" -> IPs
               [] pod[p].x = "hostedService" -> {HostedIP}
               [] pod[p].x = "endpoints" -> {pod[p].ip}

AfterCreate(p, value) ==
    CASE ~External -> [At(p, "done") EXCEPT !.ip = value]
      [] External /\ pod[p].x = "service" ->
            [At(p, "probe") EXCEPT !.ip = value, !.x = "hostedService"]
      [] External /\ pod[p].x = "hostedService" ->
            [At(p, "probe") EXCEPT !.x = "endpoints"]
      [] External /\ pod[p].x = "endpoints" -> At(p, "done")

(* createOrRecreate: on AlreadyExists delete (NotFound is fine) and create  *)
(* once more.                                                               *)
Create(p) ==
    /\ pod[p].pc \in {"create", "recreate"}
    /\ IF Creatable(res[pod[p].x])
       THEN \E value \in Values(p) :
               /\ res' = [res EXCEPT ![pod[p].x] = value]
               /\ Done(p, AfterCreate(p, value))
       ELSE /\ UNCHANGED res
            /\ Step(p, IF pod[p].pc = "create" THEN At(p, "redelete") ELSE Down)
    /\ UNCHANGED <<ca, cert, old, cfg, quiet>>

(* A mutant: createOrRecreate returns after the delete.                     *)
DeletesOnly(p) ==
    /\ pod[p].pc = "redelete"
    /\ res' = [res EXCEPT ![pod[p].x] = Absent]
    /\ Done(p, AfterCreate(p, pod[p].ip))
    /\ UNCHANGED <<ca, cert, old, cfg, quiet>>

Redelete(p) ==
    /\ pod[p].pc = "redelete"
    /\ res' = [res EXCEPT ![pod[p].x] = Absent]
    /\ Done(p, At(p, "recreate"))
    /\ UNCHANGED <<ca, cert, old, cfg, quiet>>

----------------------------------------------------------------------------
Crash(p) ==
    /\ ~quiet /\ pod[p].pc # "down"
    /\ Step(p, Down)
    /\ UNCHANGED <<ca, cert, old, cfg, res, quiet>>

Stabilise ==
    /\ ~quiet
    /\ quiet' = TRUE
    /\ UNCHANGED <<ca, cert, old, cfg, res, pod>>

SetupStep(p) ==
    \/ Boot(p) \/ GetCA(p) \/ CreateCA(p) \/ GetCert(p) \/ CreateCert(p)
    \/ GetOld(p) \/ DeleteOld(p) \/ GetConfig(p) \/ WriteConfig(p)
    \/ Probe(p) \/ Remove(p) \/ Create(p) \/ Redelete(p)

Next == \/ \E p \in Pods : SetupStep(p) \/ CallFails(p) \/ Crash(p)
        \/ Stabilise

Spec == Init /\ [][Next]_vars

(* An administrator deletes the CA secret.                                  *)
LoseCA ==
    /\ ~quiet /\ ca # Absent
    /\ ca' = Absent
    /\ UNCHANGED <<cert, old, cfg, res, pod, quiet>>

LossySpec == Init /\ [][Next \/ LoseCA]_vars

(* The set-up goroutine runs and the kubelet restarts a pod that exited.    *)
FairSpec == Spec /\ \A p \in Pods : WF_vars(SetupStep(p))

----------------------------------------------------------------------------
(* As long as the secrets are not deleted, the serving certificate is       *)
(* signed by the CA that the pods hand to the API server, whichever pod     *)
(* generated which of the two and wherever one of them crashed.             *)
OneCA ==
    /\ cert # Absent => cert = ca
    /\ cfg # Absent => cfg = ca
    /\ \A p \in Pods : pod[p].pc \notin {"down", "caGet", "caCreate"}
          => pod[p].ca = ca /\ pod[p].cert \in {Absent, ca}

AllDone == \A p \in Pods : pod[p].pc = "done"

(* createOrUpdateValiationWebhook drops a read error other than NotFound:   *)
(* pods that all met one may have left no configuration behind.             *)
AllBlind == \A p \in Pods : pod[p].blind

Trusted == cert # Absent /\ (cfg = cert \/ (cfg = Absent /\ AllBlind))

(* Every pod completes its set-up in the end, and then the API server       *)
(* trusts the CA of the certificate and the Service is there, with the      *)
(* exception of the dropped read error: when no pod could read the          *)
(* configuration there may be none.                                         *)
SetupCompletes ==
    <>quiet => <>[](AllDone /\ Trusted /\ ~old /\ res["service"] # Absent)

(* Whenever all pods have completed their set-up, nothing is missing that   *)
(* any of them removed or found: a pod that deletes a Service or Endpoints  *)
(* which another one has just created puts them back or begins again.  With *)
(* the same exception for the configuration.                                *)
Wanted == IF External THEN Resources ELSE {"service"}

CompletedIsComplete ==
    AllDone /\ Pods # {} =>
       /\ cert = ca /\ Trusted /\ ~old
       /\ \A x \in Wanted : res[x] # Absent

(* A pod that did its set-up alone leaves Endpoints that lead to the        *)
(* Service, wherever it crashed before.                                     *)
EndpointsFollowService ==
    External /\ AllDone => res["endpoints"] = res["service"]

(* A pod that completed its set-up has registered the webhook, as           *)
(* wireupwebhook_test.go expects.                                           *)
CompletedIsRegistered ==
    \A p \in Pods : pod[p].pc = "done" => cfg # Absent
=============================================================================
