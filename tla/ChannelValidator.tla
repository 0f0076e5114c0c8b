-------------------------- MODULE ChannelValidator --------------------------
(* The validating webhook for Channels (pkg/webhook/channel_validator.go):  *)
(* a namespace is to hold at most one channel that is not a Git channel.    *)
(* The webhook is called for CREATE only, decides from a List of its own,   *)
(* and the API server stores the channel some time later; many requests may *)
(* be between these steps at once, and nothing locks the namespace.         *)
CONSTANTS Channels,   \* names of channels with their namespaces
          NsOf,       \* NsOf[c]: the namespace of channel c
          Requests,   \* create requests the API server handles at a time
          MayBypass,  \* whether the webhook may be unreachable
          MayRetype,  \* whether users change the type of a stored channel
          Absent      \* no such channel

ASSUME ValidatorAssumption ==
    /\ MayBypass \in BOOLEAN /\ MayRetype \in BOOLEAN
    /\ Absent \notin {"git", "other"}

Types == {"git", "other"}   \* git: Git or GitHub, in any letter case

VARIABLES store,   \* store[c]: type of the stored channel
          req,     \* req[r]: the create request in slot r
          loose    \* channels no review vouches for: they were not reviewed,
                   \* or others were written between review and store, or
                   \* they were given their type by an update

vars == <<store, req, loose>>

Phases == {"idle", "review", "admitted"}

TypeOK ==
    /\ store \in [Channels -> Types \cup {Absent}]
    /\ req \in [Requests -> [phase : Phases, chan : Channels, type : Types,
                              vouched : BOOLEAN]]   \* reviewed, and nobody
                                       \* wrote to the namespace since
    /\ loose \subseteq Channels

Idle(c) == [phase |-> "idle", chan |-> c, type |-> "git", vouched |-> FALSE]

(* Nothing is stored; idle slots hold leftovers that nobody reads.          *)
Init ==
    /\ store = [c \in Channels |-> Absent]
    /\ \E c \in Channels :
         req = [r \in Requests |-> Idle(c)]
    /\ loose = {}

----------------------------------------------------------------------------
(* Mutants.                                                                 *)

AnyKey(c, first) == TRUE                \* only Git channels are told apart

----------------------------------------------------------------------------
NonGit(ns) == {c \in Channels : NsOf[c] = ns /\ store[c] = "other"}

Allowed(r, vouched) ==
    req' = [req EXCEPT ![r].phase = "admitted", ![r].vouched = vouched]

Denied(r) == req' = [req EXCEPT ![r] = Idle(@.chan)]

(* Channel c is written: reviews of its namespace are out of date.          *)
Outdated(c) == [s \in Requests |-> IF NsOf[req[s].chan] = NsOf[c]
                                   THEN [req[s] EXCEPT !.vouched = FALSE]
                                   ELSE req[s]]

IsGit(r) == req[r].type = "git"

(* isGitOrSameKey: Git channels are passed over, and the first other one    *)
(* decides: it must have the name of the request, which the API server will *)
(* then reject by itself.                                                   *)
SameKey(c, first) == first = c

isGitOrSameKey(c) ==
    \/ NonGit(NsOf[c]) = {}
    \/ \E first \in NonGit(NsOf[c]) : SameKey(c, first)

Submit(r, c, t) ==
    /\ req[r].phase = "idle"
    /\ req' = [req EXCEPT ![r] = [phase |-> "review", chan |-> c, type |-> t,
                                  vouched |-> FALSE]]
    /\ UNCHANGED <<store, loose>>

(* ChannelValidator.Handle; denied requests end here.  A failing List       *)
(* denies as well.  (The order of the list is the API server's; any channel *)
(* that is not a Git channel may come first.)                               *)
Handle(r) ==
    /\ req[r].phase = "review"
    /\ \/ /\ IsGit(r) \/ isGitOrSameKey(req[r].chan)
          /\ Allowed(r, TRUE)
       \/ /\ ~IsGit(r)
          /\ \E first \in NonGit(NsOf[req[r].chan]) :
                ~SameKey(req[r].chan, first)
          /\ Denied(r)
    /\ UNCHANGED <<store, loose>>

ListFails(r) ==
    /\ req[r].phase = "review" /\ ~IsGit(r)
    /\ Denied(r)
    /\ UNCHANGED <<store, loose>>

(* FailurePolicy Ignore: a webhook that cannot be reached is skipped.       *)
Bypass(r) ==
    /\ MayBypass
    /\ req[r].phase = "review"
    /\ Allowed(r, FALSE)
    /\ UNCHANGED <<store, loose>>

(* The API server stores the channel, or answers 409 when it exists.        *)
Persist(r) ==
    /\ req[r].phase = "admitted"
    /\ LET c == req[r].chan
       IN  IF store[c] = Absent
           THEN /\ store' = [store EXCEPT ![c] = req[r].type]
                /\ loose' = IF req[r].vouched THEN loose ELSE loose \cup {c}
                /\ req' = [Outdated(c) EXCEPT ![r] = Idle(c)]
           ELSE Denied(r) /\ UNCHANGED <<store, loose>>

Delete(c) ==
    /\ store[c] # Absent
    /\ store' = [store EXCEPT ![c] = Absent]
    /\ loose' = loose \ {c}
    /\ req' = Outdated(c)

(* Updates do not go through the webhook.                                   *)
Retype(c, t) ==
    /\ MayRetype
    /\ store[c] \notin {Absent, t}
    /\ store' = [store EXCEPT ![c] = t]
    /\ loose' = loose \cup {c}
    /\ req' = Outdated(c)

Answer(r) == Handle(r) \/ ListFails(r) \/ Bypass(r) \/ Persist(r)

Next ==
    \/ \E r \in Requests : \/ \E c \in Channels, t \in Types : Submit(r, c, t)
                           \/ Answer(r)
    \/ \E c \in Channels : \/ Delete(c)
                           \/ \E t \in Types : Retype(c, t)

Spec == Init /\ [][Next]_vars

----------------------------------------------------------------------------
(* What channel_validator_test.go expects ("should not create 2nd           *)
(* namespace channel"): no namespace ever holds two channels that are not   *)
(* Git channels.                                                            *)
OneNonGit ==
    \A c, d \in Channels :
       store[c] = "other" /\ store[d] = "other" /\ NsOf[c] = NsOf[d] => c = d

(* Two channels of a namespace that are not Git channels are never both     *)
(* vouched for by a review: one of them came in while the webhook was       *)
(* passed over, was changed by an update, or was stored after somebody      *)
(* wrote to the namespace behind its review.                                *)
PairsExplained ==
    \A c, d \in Channels :
       store[c] = "other" /\ store[d] = "other" /\ NsOf[c] = NsOf[d] /\ c # d
          => c \in loose \/ d \in loose
=============================================================================
