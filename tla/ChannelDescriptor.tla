------------------------- MODULE ChannelDescriptor -------------------------
(* The registry of object-store connections                                 *)
(* (pkg/utils/channel_descriptor.go and the connection of aws_client.go).   *)
(* ConnectWithResourceHost looks a description up, reads a Secret, gives a  *)
(* handler a client, tries the bucket and registers a new description.  The *)
(* lock covers the map alone, and a reconnect works on the very handler     *)
(* that the registered description has in use.                              *)
CONSTANTS
    Names,       \* names of channels, the keys of the registry
    Namespaces,
    Specs,       \* what channels may say: [endpoint, bucket, ref]
    Versions,    \* the channels, as they are when callers come with them
    Callers,     \* calls of ConnectWithResourceHost at a time
    Handlers,    \* ObjectStore objects
    Given,       \* those of them that callers pass in
    Endpoints,   \* what parseBucketAndEndpoint makes of a pathname
    AwsS3,       \* the endpoints that isAwsS3ObjectBucket tells from the rest
    Buckets,
    Regions,     \* regions in Secrets
    NoRegion,    \* no region was read
    Minio,       \* the region "minio"
    NoRef,       \* no SecretRef
    NoNs,        \* a SecretRef without a namespace
    NoSlash,     \* a pathname without "/"
    Absent

VARIABLES
    registry,   \* channelUnitRegistry
    client,     \* client[h]: the s3.Client of handler h
    secret,     \* secret[ns]: the region in the Secret of namespace ns
    call,       \* call[k]: a call of ConnectWithResourceHost
    settled     \* settled[n]: the last call for n that came to use a handler
                \* succeeded, and no other call for n overlapped it

vars == <<registry, client, secret, call, settled>>

Channel == [name : Names, ns : Namespaces, spec : Specs]

(* Credentials are known by the namespace of the Secret they are from.      *)
Connection == [region : Regions \cup {NoRegion, Minio}, url : Endpoints,
               user : Namespaces \cup {NoRef}]

Description == [chan : Channel, handler : Handlers]

Phases == {"secret", "init", "exists", "put"}

Call == [pc : Phases, chan : Channel, handler : Handlers,
         user : Namespaces \cup {NoRef}, region : Regions \cup {NoRegion},
         alone : BOOLEAN]   \* no other call for the name since it began

ASSUME DescriptorAssumption ==
    /\ Specs \subseteq [endpoint : Endpoints \cup {NoSlash}, bucket : Buckets,
                        ref : Namespaces \cup {NoRef, NoNs}]
    /\ Versions \subseteq Channel
    /\ AwsS3 \subseteq Endpoints /\ Given \subseteq Handlers
    /\ {NoRef, NoNs} \cap Namespaces = {} /\ NoRef # NoNs
    /\ NoSlash \notin Endpoints
    /\ Absent \notin Regions \cup Connection \cup Description \cup Call

TypeOK ==
    /\ registry \in [Names -> Description \cup {Absent}]
    /\ client \in [Handlers -> Connection \cup {Absent}]
    /\ secret \in [Namespaces -> Regions \cup {Absent}]
    /\ call \in [Callers -> Call \cup {Absent}]
    /\ settled \in [Names -> BOOLEAN]

(* CreateObjectStorageChannelDescriptor.                                    *)
Init ==
    /\ registry = [n \in Names |-> Absent]
    /\ client = [h \in Handlers |-> Absent]
    /\ secret = [ns \in Namespaces |-> Absent]
    /\ call = [k \in Callers |-> Absent]
    /\ settled = [n \in Names |-> FALSE]

Active(k) == call[k] # Absent

At(k, pc) == Active(k) /\ call[k].pc = pc

NameOf(k) == call[k].chan.name

CallsFor(name) == {k \in Callers : Active(k) /\ NameOf(k) = name}

InUse == {registry[n].handler : n \in {m \in Names : registry[m] # Absent}}
         \cup {call[k].handler : k \in {l \in Callers : Active(l)}}

----------------------------------------------------------------------------
(* Mutants.                                                                 *)

AnyRegion(endpoint, region, user) ==    \* the Secret's region for minio too
    [region |-> region, url |-> endpoint, user |-> user]

SharesOne(name) ==                      \* one handler for all channels
    IF InUse \ Given # {} THEN InUse \ Given ELSE Handlers \ (InUse \cup Given)

----------------------------------------------------------------------------
(* ConnectWithResourceHost picks the handler of the registered description, *)
(* or a new one, unless the caller passes one.                              *)
HandlerFor(name) ==
    IF registry[name] # Absent THEN {registry[name].handler}
    ELSE Handlers \ (InUse \cup Given)

ConnectWithResourceHost(k, c) ==
    /\ ~Active(k)
    /\ \E h \in HandlerFor(c.name) \cup Given :
         call' = [l \in Callers |->
            IF l = k
            THEN [pc |-> IF c.spec.ref = NoRef THEN "init" ELSE "secret",
                  chan |-> c, handler |-> h, user |-> NoRef,
                  region |-> NoRegion,
                  alone |-> CallsFor(c.name) = {}]
            ELSE IF l \in CallsFor(c.name)
            THEN [call[l] EXCEPT !.alone = FALSE] ELSE call[l]]
    /\ UNCHANGED <<registry, client, secret, settled>>

Step(k, v) == call' = [call EXCEPT ![k] = v]

(* The call is over; a handler that nobody refers to any more is garbage.   *)
Return(k) ==
    /\ Step(k, Absent)
    /\ LET used == InUse' \cup Given
       IN  client' = [h \in Handlers |-> IF h \in used THEN client[h]
                                         ELSE Absent]

(* The fields of a Secret, whichever of their names they go by.             *)
ParseSecretInfo(ns) == [user |-> ns, region |-> secret[ns]]

SecretNs(c) == IF c.spec.ref = NoNs THEN c.ns ELSE c.spec.ref

getCredentialFromKube(k) ==
    /\ At(k, "secret") /\ secret[SecretNs(call[k].chan)] # Absent
    /\ LET found == ParseSecretInfo(SecretNs(call[k].chan))
       IN  Step(k, [call[k] EXCEPT !.pc = "init", !.user = found.user,
                                   !.region = found.region])
    /\ UNCHANGED <<registry, client, secret, settled>>

(* InitObjectStoreConnection: servers that are not Amazon's are region      *)
(* "minio", for which the resolver returns the endpoint.                    *)
ClientFor(endpoint, region, user) ==
    [region |-> IF endpoint \in AwsS3 THEN region ELSE Minio,
     url |-> endpoint, user |-> user]

Server(conn) == IF conn.region = Minio THEN conn.url ELSE conn.region

(* The client is replaced in the handler.                                   *)
InitObjectStoreConnection(k) ==
    /\ At(k, "init") /\ call[k].chan.spec.endpoint # NoSlash
    /\ client' = [client EXCEPT ![call[k].handler] =
                    ClientFor(call[k].chan.spec.endpoint, call[k].region,
                              call[k].user)]
    /\ Step(k, [call[k] EXCEPT !.pc = "exists"])
    /\ settled' = [settled EXCEPT ![NameOf(k)] = FALSE]
    /\ UNCHANGED <<registry, secret>>

(* The bucket is there and may be used.                                     *)
Exists(k) ==
    /\ At(k, "exists")
    /\ Step(k, [call[k] EXCEPT !.pc = "put"])
    /\ UNCHANGED <<registry, client, secret, settled>>

(* Put of the map, under its lock.                                          *)
Put(k) ==
    /\ At(k, "put")
    /\ registry' = [registry EXCEPT ![NameOf(k)] =
                      [chan |-> call[k].chan, handler |-> call[k].handler]]
    /\ settled' = [settled EXCEPT ![NameOf(k)] = call[k].alone]
    /\ Return(k)
    /\ UNCHANGED secret

(* An error of the Secret's Get, NotFound or another, of LoadDefaultConfig  *)
(* or of HeadBucket; and the slice in parseBucketAndEndpoint panics on a    *)
(* pathname without "/", which ends the call as well.                       *)
Fails(k) ==
    /\ \E pc \in {"secret", "init", "exists"} : At(k, pc)
    /\ UNCHANGED <<registry, secret, settled>>
    /\ Return(k)

WriteSecret(ns, region) ==
    /\ secret[ns] # region
    /\ secret' = [secret EXCEPT ![ns] = region]
    /\ UNCHANGED <<registry, client, call, settled>>

CallStep(k) ==
    \/ \E c \in Versions : ConnectWithResourceHost(k, c)
    \/ getCredentialFromKube(k) \/ InitObjectStoreConnection(k)
    \/ Exists(k) \/ Put(k) \/ Fails(k)

Next ==
    \/ \E k \in Callers : CallStep(k)
    \/ \E ns \in Namespaces, r \in Regions \cup {Absent} : WriteSecret(ns, r)

Spec == Init /\ [][Next]_vars

----------------------------------------------------------------------------
(* The servers a channel's endpoint may stand for, and whose credentials    *)
(* its client is to have.                                                   *)
ServersOf(endpoint) ==
    IF endpoint \in AwsS3 THEN Regions \cup {NoRegion, endpoint} ELSE {endpoint}

UserFor(c) == IF c.spec.ref = NoRef THEN NoRef ELSE SecretNs(c)

LeadsHome(conn, c) ==
    /\ conn # Absent
    /\ Server(conn) \in ServersOf(c.spec.endpoint)
    /\ conn.user = UserFor(c)

(* Unless its last reconnect failed half-way or overlapped another one, the *)
(* registered description of a channel leads to the server the channel      *)
(* names, with the credentials the channel refers to, whatever the calls    *)
(* for other channels do.                                                   *)
SettledLeadsHome ==
    \A n \in Names : settled[n] /\ registry[n].handler \notin Given
       => LeadsHome(client[registry[n].handler], registry[n].chan)

(* Only a call for a name changes where its description leads, also when    *)
(* calls overlap and some of them fail.                                     *)
Isolated ==
    [][\A n \in Names :
         /\ registry[n] # Absent /\ registry'[n] = registry[n]
         /\ registry[n].handler \notin Given
         /\ client'[registry[n].handler] # client[registry[n].handler]
         => \E k \in Callers : At(k, "init") /\ NameOf(k) = n]_vars

=============================================================================
