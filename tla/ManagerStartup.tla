--------------------------- MODULE ManagerStartup ---------------------------
(* RunManager as a whole (cmd/manager/exec/manager.go): the cluster's TLS   *)
(* profile is read with bounded retries (pkg/utils/tlsconfig), the cluster  *)
(* API is looked for (pkg/utils/placement.go), and then the webhook is set  *)
(* up.  A process that did not find the cluster API goes on, watches for it *)
(* in the background and exits as soon as it is there, wherever the set-up  *)
(* is by then; the kubelet starts it again.                                 *)
EXTENDS WebhookSetup, Naturals, Sequences

CONSTANTS Window,       \* apiserverGetRetryTimeout, in retry intervals
          Profiles,     \* what the APIServer resource may say
          KnownGroups   \* the keys of curveIDByTLSGroup

(* A profile is its type and, for Custom, its spec.                         *)
TLSProfile(t) ==
    [min |-> CASE t = "Old" -> 10 [] t = "Modern" -> 13 [] OTHER -> 12,
     groups |-> <<"X25519", "secp256r1">>]

BuiltIn == {"Old", "Intermediate", "Modern"}

(* There is no such resource, or the cluster is not OpenShift.              *)
Missing == {"NotFound", "NoMatch"}

ASSUME StartupAssumption ==
    /\ Window \in Nat \ {0}
    /\ \A q \in Profiles : q.custom # Absent =>
          q.custom.min \in Nat /\ q.custom.groups \in Seq(STRING)

VARIABLES
    profile,  \* the APIServer resource "cluster": a profile, or none
    ready,    \* the cluster API is there: ManagedClusters can be listed
    proc      \* proc[p]: RunManager in pod p, up to the set-up of the webhook

startupVars == <<ca, cert, old, cfg, res, pod, quiet, profile, ready, proc>>

Stages == {"client", "get", "manager", "detect", "attach", "up"}

(* A process that has just started; an error in its own configuration ends  *)
(* it and starts it again.                                                  *)
Fresh == [stage |-> "client", elapsed |-> 0, due |-> TRUE, busy |-> FALSE,
          tls |-> Absent, polling |-> FALSE]

StartupInit ==
    /\ Init
    /\ profile \in Profiles \cup {[type |-> t, custom |-> Absent] : t \in Missing}
    /\ ready \in BOOLEAN
    /\ proc = [p \in Pods |-> Fresh]

----------------------------------------------------------------------------
(* Mutants.                                                                 *)

AnyError(err) == TRUE              \* a transient error ends the retries

NeverTimesOut(p) == FALSE          \* the time-out is not observed

KeepsWatching(found) == TRUE       \* the watch is started in any case

----------------------------------------------------------------------------
Proc(p, v) == proc' = [proc EXCEPT ![p] = v]

Goes(p, stage) == [proc[p] EXCEPT !.stage = stage]

(* os.Exit, from wherever the process is.                                   *)
Exit(p) == Step(p, Down) /\ Proc(p, Fresh)

(* getEffectiveProfileSpec.                                                 *)
getEffectiveProfileSpec(q) ==
    CASE q.type = "Custom" /\ q.custom # Absent -> q.custom
      [] q.type \in BuiltIn -> TLSProfile(q.type)
      [] OTHER -> TLSProfile("Intermediate")

(* Groups that crypto/tls does not have are left out; no curves at all      *)
(* leaves the choice to it.                                                 *)
tlsGroupsToCurveIDs(groups) == SelectSeq(groups, LAMBDA g : g \in KnownGroups)

profileSpecToTLSConfig(spec) ==
    [min |-> spec.min, curves |-> tlsGroupsToCurveIDs(spec.groups)]

Default == profileSpecToTLSConfig(TLSProfile("Intermediate"))

----------------------------------------------------------------------------
(* retryAPIServerOp, for the client and then for the Get: an attempt at     *)
(* once and one whenever the interval has passed, until the window is over. *)
Retrying(p) == proc[p].stage \in {"client", "get"}

isPermanentAPIServerError(err) == err \in Missing

Results(p) ==
    {IF proc[p].stage = "get" /\ profile.type \in Missing
     THEN profile.type ELSE "ok"} \cup (IF quiet THEN {} ELSE {"transient"})

(* InitClusterTLSConfig caches what was found, or the default.              *)
Cache(p, config) == Proc(p, [Goes(p, "manager") EXCEPT !.tls = config,
                                                       !.busy = FALSE])

Attempt(p) ==
    /\ Retrying(p) /\ proc[p].due /\ ~proc[p].busy
    /\ Proc(p, [proc[p] EXCEPT !.due = FALSE, !.busy = TRUE])
    /\ UNCHANGED <<vars, profile, ready>>

AttemptEnds(p) ==
    /\ proc[p].busy
    /\ \E r \in Results(p) :
         \/ r = "ok" /\ proc[p].stage = "client"
            /\ Proc(p, [Fresh EXCEPT !.stage = "get"])
         \/ r = "ok" /\ proc[p].stage = "get"
            /\ Cache(p, profileSpecToTLSConfig(getEffectiveProfileSpec(profile)))
         \/ r # "ok" /\ isPermanentAPIServerError(r) /\ Cache(p, Default)
         \/ r # "ok" /\ ~isPermanentAPIServerError(r)
            /\ Proc(p, [proc[p] EXCEPT !.busy = FALSE])
    /\ UNCHANGED <<vars, profile, ready>>

(* An interval passes.  The clock starts with the first attempt, which is   *)
(* always made; a tick during an attempt is kept.                           *)
Tick(p) ==
    /\ Retrying(p) /\ proc[p].elapsed < Window
    /\ proc[p].elapsed > 0 \/ ~proc[p].due
    /\ Proc(p, [proc[p] EXCEPT !.elapsed = @ + 1, !.due = TRUE])
    /\ UNCHANGED <<vars, profile, ready>>

TimedOut(p) == proc[p].elapsed = Window

GiveUp(p) ==
    /\ Retrying(p) /\ ~proc[p].busy /\ TimedOut(p)
    /\ Cache(p, Default)
    /\ UNCHANGED <<vars, profile, ready>>

----------------------------------------------------------------------------
(* ctrl.NewManager, schemes, clients and the controller; an error exits.    *)
NewManager(p) ==
    /\ proc[p].stage = "manager"
    /\ \/ Proc(p, Goes(p, "detect")) /\ UNCHANGED pod
       \/ ~quiet /\ Exit(p)
    /\ UNCHANGED <<ca, cert, old, cfg, res, quiet, profile, ready>>

(* DetectClusterRegistry: any error of the List counts as not ready.        *)
MustWatch(found) == ~found

DetectClusterRegistry(p) ==
    /\ proc[p].stage = "detect"
    /\ \E found \in {ready} \cup (IF quiet THEN {} ELSE {FALSE}) :
         Proc(p, [Goes(p, "attach") EXCEPT !.polling = MustWatch(found)])
    /\ UNCHANGED <<vars, profile, ready>>

(* One of the polls in the background finds the cluster API.                *)
RegistryFound(p) ==
    /\ proc[p].polling /\ ready
    /\ Exit(p)
    /\ UNCHANGED <<ca, cert, old, cfg, res, quiet, profile, ready>>

(* The set-up of the webhook, step by step; a process that exits in it      *)
(* begins again with everything.                                            *)
Restarted(p) ==
    IF pod'[p] = Down THEN Proc(p, Fresh) ELSE UNCHANGED proc

SetUp(p) ==
    /\ IF pod[p].pc = "down" THEN proc[p].stage = "attach" ELSE TRUE
    /\ SetupStep(p)
    /\ IF pod[p].pc = "down" THEN Proc(p, Goes(p, "up")) ELSE Restarted(p)
    /\ UNCHANGED <<profile, ready>>

Stops(p) ==
    /\ CallFails(p) \/ Crash(p)
    /\ Proc(p, Fresh)
    /\ UNCHANGED <<profile, ready>>

----------------------------------------------------------------------------
ClusterAPIChanges ==
    /\ ~quiet
    /\ ready' = ~ready
    /\ UNCHANGED <<vars, profile, proc>>

ProcStep(p) ==
    \/ Attempt(p) \/ AttemptEnds(p) \/ GiveUp(p) \/ NewManager(p)
    \/ DetectClusterRegistry(p) \/ SetUp(p)

StartupNext ==
    \/ \E p \in Pods : ProcStep(p) \/ Tick(p) \/ RegistryFound(p) \/ Stops(p)
    \/ ClusterAPIChanges
    \/ Stabilise /\ UNCHANGED <<profile, ready, proc>>

StartupSpec == StartupInit /\ [][StartupNext]_startupVars

(* The process runs, time passes, polls are repeated every ten seconds.     *)
FairStartup ==
    /\ StartupSpec
    /\ \A p \in Pods : /\ WF_startupVars(ProcStep(p))
                       /\ WF_startupVars(Tick(p))
                       /\ WF_startupVars(RegistryFound(p))

----------------------------------------------------------------------------
(* The webhook is served under the cluster's profile.  The default is used  *)
(* instead only after a whole window of failures of the API server, never   *)
(* because of a single one.                                                 *)
Asked(q) == IF q.type \in Missing THEN Default
            ELSE profileSpecToTLSConfig(getEffectiveProfileSpec(q))

ProfileHonoured ==
    \A p \in Pods : proc[p].tls # Absent =>
       \/ proc[p].tls = Asked(profile)
       \/ proc[p].tls = Default /\ proc[p].elapsed = Window

(* An API server that never answers does not keep the process from starting.*)
RetriesEnd == \A p \in Pods : Retrying(p) ~> ~Retrying(p)

(* When failures have stopped, the process comes to rest: it has set up the *)
(* webhook, it is not waiting for a cluster API that is there, and it does  *)
(* not exit any more.                                                       *)
ComesToRest ==
    <>quiet => <>[](AllDone /\ \A p \in Pods : ~(proc[p].polling /\ ready))
=============================================================================
