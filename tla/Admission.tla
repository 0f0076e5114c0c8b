----------------------------- MODULE Admission -----------------------------
(* The admission check together with the set-up of its webhook.  A review   *)
(* reaches ChannelValidator.Handle only while there is a configuration, the *)
(* Service, and a pod that serves with a certificate the configuration      *)
(* trusts; otherwise failure policy Ignore lets the request pass.           *)
EXTENDS ChannelValidator

CONSTANTS Pods, CAs, IPs, HostedIP, External, MayMisread

VARIABLES ca, cert, old, cfg, res, pod, quiet

Setup == INSTANCE WebhookSetup

setupVars == <<ca, cert, old, cfg, res, pod, quiet>>

all == <<vars, setupVars>>

(* mgr.Start follows Attach, which has put the certificate into certDir.    *)
Serves(p) ==
    /\ pod[p].pc \notin {"down", "caGet", "caCreate", "certGet", "certCreate"}
    /\ pod[p].cert = cfg

Registered == cfg # Absent /\ res["service"] # Absent

Reaches == Registered /\ \E p \in Pods : Serves(p)

(* Failing calls apart, the review finds a pod that answers.                *)
Dependable == quiet /\ Registered /\ \A p \in Pods : Serves(p)

AdmissionInit == Init /\ Setup!Init

Review(r) == /\ \/ Reaches /\ (Handle(r) \/ ListFails(r))
                \/ ~Dependable /\ Bypass(r)
             /\ UNCHANGED setupVars

UsersAct ==
    /\ \/ \E r \in Requests : \/ \E c \in Channels, t \in Types : Submit(r, c, t)
                              \/ Persist(r)
       \/ \E c \in Channels : Delete(c) \/ \E t \in Types : Retype(c, t)
    /\ UNCHANGED setupVars

AdmissionNext ==
    \/ \E r \in Requests : Review(r)
    \/ UsersAct
    \/ Setup!Next /\ UNCHANGED vars
    \/ Setup!LoseCA /\ UNCHANGED vars

(* As in WebhookSetup: the pods run and are restarted.                      *)
AdmissionSpec ==
    /\ AdmissionInit /\ [][AdmissionNext]_all
    /\ \A p \in Pods : WF_all(Setup!SetupStep(p) /\ UNCHANGED vars)

----------------------------------------------------------------------------
============================================================================
