-------------------------- MODULE DescriptorProofs --------------------------
(* Where the registered descriptions lead, for any number of overlapping    *)
(* calls.                                                                   *)
EXTENDS ChannelDescriptor, TLAPS

LEMMA DescriptorTypeInit == Init => TypeOK
  BY DEF Init, TypeOK

(* Return leaves clients of the right type.                                 *)
LEMMA ReturnType ==
  ASSUME TypeOK, NEW k \in Callers, Return(k)
  PROVE  /\ client' \in [Handlers -> Connection \cup {Absent}]
         /\ call' \in [Callers -> Call \cup {Absent}]
  BY DEF TypeOK, Return, Step

LEMMA ClientForType ==
  ASSUME NEW e \in Endpoints, NEW r \in Regions \cup {NoRegion},
         NEW u \in Namespaces \cup {NoRef}
  PROVE  ClientFor(e, r, u) \in Connection
  BY DEF ClientFor, Connection

LEMMA SecretNsType ==
  ASSUME NEW c \in Channel, c.spec.ref # NoRef
  PROVE  SecretNs(c) \in Namespaces
  BY DescriptorAssumption DEF SecretNs, Channel

(* A call that reads a Secret has a reference to it.                        *)
HasRef == \A k \in Callers : At(k, "secret") => call[k].chan.spec.ref # NoRef

LEMMA DescriptorTypeStep ==
  ASSUME TypeOK, HasRef, [Next]_vars
  PROVE  TypeOK' /\ HasRef'
  <1>1. ASSUME NEW k \in Callers, NEW c \in Channel,
               ConnectWithResourceHost(k, c)
        PROVE  TypeOK' /\ HasRef'
    <2>1. UNCHANGED <<registry, client, secret, settled>>
      BY <1>1 DEF ConnectWithResourceHost
    <2>2. PICK h \in HandlerFor(c.name) \cup Given :
         call' = [l \in Callers |->
            IF l = k
            THEN [pc |-> IF c.spec.ref = NoRef THEN "init" ELSE "secret",
                  chan |-> c, handler |-> h, user |-> NoRef,
                  region |-> NoRegion,
                  alone |-> CallsFor(c.name) = {}]
            ELSE IF l \in CallsFor(c.name)
            THEN [call[l] EXCEPT !.alone = FALSE] ELSE call[l]]
      BY <1>1 DEF ConnectWithResourceHost
    <2>3. h \in Handlers
      <3>1. c.name \in Names
        BY DEF Channel
      <3> QED BY <3>1, DescriptorAssumption DEF HandlerFor, TypeOK, Description
    <2>4. \A l \in Callers : l \in CallsFor(c.name) => call[l] \in Call
      BY DEF CallsFor, Active, TypeOK
    <2>5. (CallsFor(c.name) = {}) \in BOOLEAN
      OBVIOUS
    <2>6. ASSUME NEW l \in Callers PROVE call'[l] \in Call \cup {Absent}
      <3>1. CASE l = k
        BY <2>2, <2>3, <2>5, <3>1 DEF Call, Phases
      <3>2. CASE l # k /\ l \in CallsFor(c.name)
        BY <2>2, <2>4, <3>2 DEF Call
      <3>3. CASE l # k /\ l \notin CallsFor(c.name)
        BY <2>2, <3>3 DEF TypeOK
      <3> QED BY <3>1, <3>2, <3>3
    <2>7. TypeOK'
      BY <2>1, <2>2, <2>6 DEF TypeOK
    <2>8. ASSUME NEW l \in Callers, At(l, "secret")'
          PROVE  call'[l].chan.spec.ref # NoRef
      <3>1. CASE l = k
        BY <2>2, <2>8, <3>1 DEF At
      <3>2. CASE l # k /\ l \in CallsFor(c.name)
        BY <2>2, <2>4, <2>8, <3>2 DEF At, HasRef, Active, CallsFor, Call
      <3>3. CASE l # k /\ l \notin CallsFor(c.name)
        BY <2>2, <2>8, <3>3 DEF At, HasRef, Active
      <3> QED BY <3>1, <3>2, <3>3
    <2> QED BY <2>7, <2>8 DEF HasRef
  <1>2. ASSUME NEW k \in Callers, getCredentialFromKube(k)
        PROVE  TypeOK' /\ HasRef'
    <2>1. call[k] \in Call
      BY <1>2 DEF getCredentialFromKube, At, Active, TypeOK
    <2>2. SecretNs(call[k].chan) \in Namespaces
      BY <1>2, <2>1, SecretNsType DEF getCredentialFromKube, HasRef, Call
    <2>3. secret[SecretNs(call[k].chan)] \in Regions
      BY <1>2, <2>2 DEF getCredentialFromKube, TypeOK
    <2> QED BY <1>2, <2>1, <2>2, <2>3
               DEF getCredentialFromKube, ParseSecretInfo, Step, TypeOK, HasRef,
                   At, Active, Call, Phases
  <1>3. ASSUME NEW k \in Callers, InitObjectStoreConnection(k)
        PROVE  TypeOK' /\ HasRef'
    <2>1. call[k] \in Call
      BY <1>3 DEF InitObjectStoreConnection, At, Active, TypeOK
    <2>2. call[k].chan.spec.endpoint \in Endpoints
      BY <1>3, <2>1, DescriptorAssumption
         DEF InitObjectStoreConnection, Call, Channel
    <2>3. ClientFor(call[k].chan.spec.endpoint, call[k].region, call[k].user)
             \in Connection
      BY <2>1, <2>2, ClientForType DEF Call
    <2>4. NameOf(k) \in Names
      BY <2>1 DEF NameOf, Call, Channel
    <2> QED BY <1>3, <2>1, <2>3, <2>4
               DEF InitObjectStoreConnection, Step, TypeOK, HasRef, At, Active,
                   Call, Phases
  <1>4. ASSUME NEW k \in Callers, Exists(k) PROVE TypeOK' /\ HasRef'
    BY <1>4 DEF Exists, Step, At, Active, TypeOK, HasRef, Call, Phases
  <1>5. ASSUME NEW k \in Callers, Put(k) PROVE TypeOK' /\ HasRef'
    <2>1. call[k] \in Call
      BY <1>5 DEF Put, At, Active, TypeOK
    <2>2. [chan |-> call[k].chan, handler |-> call[k].handler] \in Description
      BY <2>1 DEF Call, Description
    <2>3. call[k].alone \in BOOLEAN
      BY <2>1 DEF Call
    <2>4. TypeOK'
      BY <1>5, <2>2, <2>3, ReturnType DEF Put, TypeOK
    <2>5. HasRef'
      BY <1>5 DEF Put, Return, Step, HasRef, At, Active, TypeOK
    <2> QED BY <2>4, <2>5
  <1>6. ASSUME NEW k \in Callers, Fails(k) PROVE TypeOK' /\ HasRef'
    <2>1. TypeOK'
      BY <1>6, ReturnType DEF Fails, TypeOK
    <2>2. HasRef'
      BY <1>6 DEF Fails, Return, Step, HasRef, At, Active, TypeOK
    <2> QED BY <2>1, <2>2
  <1>7. ASSUME NEW ns \in Namespaces, NEW r \in Regions \cup {Absent},
               WriteSecret(ns, r)
        PROVE  TypeOK' /\ HasRef'
    BY <1>7 DEF WriteSecret, TypeOK, HasRef, At, Active
  <1>8. CASE UNCHANGED vars
    BY <1>8 DEF vars, TypeOK, HasRef, At, Active
  <1> QED
    BY <1>1, <1>2, <1>3, <1>4, <1>5, <1>6, <1>7, <1>8, DescriptorAssumption
       DEF Next, CallStep

----------------------------------------------------------------------------
(* Handler h is in use for name n.                                          *)
Uses(h, n) == \/ registry[n] # Absent /\ registry[n].handler = h
              \/ \E k \in CallsFor(n) : call[k].handler = h

(* A handler that no caller passed in serves one name only.                 *)
Owned == \A h \in Handlers \ Given : \A n, m \in Names :
            Uses(h, n) /\ Uses(h, m) => n = m

AloneIsAlone == \A k, l \in Callers :
    Active(k) /\ call[k].alone /\ l \in CallsFor(NameOf(k)) => l = k

(* What a call has achieved so far.                                         *)
Aimed == \A k \in Callers : Active(k) =>
    /\ call[k].pc # "secret" => call[k].user = UserFor(call[k].chan)
    /\ /\ call[k].pc \in {"exists", "put"} /\ call[k].alone
       /\ call[k].handler \notin Given
       => LeadsHome(client[call[k].handler], call[k].chan)

SettledHome == \A n \in Names : settled[n] =>
    /\ registry[n] # Absent
    /\ registry[n].handler \notin Given
          => LeadsHome(client[registry[n].handler], registry[n].chan)

DescriptorInv == /\ TypeOK /\ HasRef
                 /\ Owned /\ AloneIsAlone /\ Aimed /\ SettledHome

LEMMA DescriptorInit == Init => DescriptorInv
  BY DescriptorTypeInit
     DEF Init, DescriptorInv, HasRef, Owned, AloneIsAlone, Aimed, SettledHome,
         Uses, CallsFor, Active, At

LEMMA UsedIsInUse ==
  ASSUME TypeOK, NEW h \in Handlers
  PROVE  h \in InUse <=> \E n \in Names : Uses(h, n)
  <1>1. \A k \in Callers : Active(k) => NameOf(k) \in Names
    BY DEF TypeOK, Active, NameOf, Call, Channel
  <1> QED BY <1>1 DEF InUse, Uses, CallsFor

(* A handler still in use after a call returned has its client.             *)
LEMMA ReturnKeepsClients ==
  ASSUME TypeOK', NEW k \in Callers, Return(k), NEW h \in Handlers,
         NEW n \in Names, Uses(h, n)'
  PROVE  client'[h] = client[h]
  <1>1. h \in InUse'
    <2>1. \A l \in Callers : Active(l)' => NameOf(l)' \in Names
      BY DEF TypeOK, Active, NameOf, Call, Channel
    <2> QED BY <2>1 DEF InUse, Uses, CallsFor
  <1> QED BY <1>1 DEF Return

(* A step of a call that keeps its channel and handler, or ends it, brings  *)
(* no handler into use, also when it registers its description.             *)
LEMMA CallGoesOn ==
  ASSUME TypeOK, AloneIsAlone, Owned, NEW k \in Callers, Active(k), NEW v,
         Step(k, v),
         \/ v = Absent
         \/ /\ v \in Call /\ v.chan = call[k].chan
            /\ v.handler = call[k].handler /\ v.alone = call[k].alone,
         \/ registry' = registry
         \/ registry' = [registry EXCEPT ![NameOf(k)] =
                           [chan |-> call[k].chan, handler |-> call[k].handler]]
  PROVE  /\ \A h \in Handlers, n \in Names : Uses(h, n)' => Uses(h, n)
         /\ AloneIsAlone' /\ Owned'
  <1>1. call[k] \in Call /\ NameOf(k) \in Names
    BY DEF Active, TypeOK, NameOf, Call, Channel
  <1>2. \A l \in Callers : Active(l)' =>
           /\ Active(l) /\ NameOf(l)' = NameOf(l)
           /\ call'[l].handler = call[l].handler
           /\ call'[l].alone = call[l].alone
    BY <1>1 DEF Step, Active, NameOf, TypeOK
  <1>3. ASSUME NEW h \in Handlers, NEW n \in Names, Uses(h, n)'
        PROVE  Uses(h, n)
    <2>1. CASE \E l \in CallsFor(n)' : call'[l].handler = h
      BY <1>2, <2>1 DEF Uses, CallsFor
    <2>2. CASE registry'[n] # Absent /\ registry'[n].handler = h
      <3>1. CASE registry'[n] = registry[n]
        BY <2>2, <3>1 DEF Uses
      <3>2. CASE registry'[n] # registry[n]
        <4>1. n = NameOf(k) /\ call[k].handler = h
          BY <1>1, <2>2, <3>2 DEF TypeOK
        <4> QED BY <4>1 DEF Uses, CallsFor
      <3> QED BY <3>1, <3>2
    <2> QED BY <1>3, <2>1, <2>2 DEF Uses
  <1>4. AloneIsAlone'
    BY <1>2 DEF AloneIsAlone, CallsFor
  <1>5. Owned'
    BY <1>3 DEF Owned
  <1> QED BY <1>3, <1>4, <1>5

(* The client that InitObjectStoreConnection makes leads to the channel's   *)
(* server.                                                                  *)
LEMMA ClientLeadsHome ==
  ASSUME NEW c \in Channel, c.spec.endpoint # NoSlash,
         NEW r \in Regions \cup {NoRegion}
  PROVE  LeadsHome(ClientFor(c.spec.endpoint, r, UserFor(c)), c)
  <1>1. c.spec.endpoint \in Endpoints
    BY DescriptorAssumption DEF Channel
  <1>2. UserFor(c) \in Namespaces \cup {NoRef}
    BY SecretNsType DEF UserFor
  <1>3. ClientFor(c.spec.endpoint, r, UserFor(c)) # Absent
    BY <1>1, <1>2, ClientForType, DescriptorAssumption
  <1> QED BY <1>1, <1>3 DEF LeadsHome, ClientFor, Server, ServersOf

----------------------------------------------------------------------------
LEMMA ConnectKeepsInv ==
  ASSUME DescriptorInv, NEW k \in Callers, NEW c \in Channel,
         ConnectWithResourceHost(k, c)
  PROVE  Owned' /\ AloneIsAlone' /\ Aimed' /\ SettledHome'
  <1>0. TypeOK /\ Owned /\ AloneIsAlone /\ Aimed /\ SettledHome
    BY DEF DescriptorInv
  <1>1. /\ UNCHANGED <<registry, client, secret, settled>>
        /\ ~Active(k) /\ c.name \in Names
    BY DEF ConnectWithResourceHost, Channel
  <1>2. PICK h \in HandlerFor(c.name) \cup Given :
         call' = [l \in Callers |->
            IF l = k
            THEN [pc |-> IF c.spec.ref = NoRef THEN "init" ELSE "secret",
                  chan |-> c, handler |-> h, user |-> NoRef,
                  region |-> NoRegion,
                  alone |-> CallsFor(c.name) = {}]
            ELSE IF l \in CallsFor(c.name)
            THEN [call[l] EXCEPT !.alone = FALSE] ELSE call[l]]
    BY DEF ConnectWithResourceHost
  <1>3. /\ call'[k].pc # "secret" => c.spec.ref = NoRef
        /\ call'[k].pc \notin {"exists", "put"}
        /\ call'[k].chan = c /\ call'[k].handler = h
        /\ call'[k].user = NoRef /\ call'[k].alone = (CallsFor(c.name) = {})
    BY <1>2
  <1>4. ASSUME NEW l \in Callers, l # k, Active(l)'
        PROVE  /\ Active(l) /\ call'[l].pc = call[l].pc
               /\ call'[l].chan = call[l].chan /\ call'[l].user = call[l].user
               /\ call'[l].handler = call[l].handler
               /\ call'[l].alone = (call[l].alone /\ l \notin CallsFor(c.name))
    <2>1. CASE l \in CallsFor(c.name)
      <3>1. call[l] \in Call /\ Active(l)
        BY <1>0, <2>1 DEF CallsFor, Active, TypeOK
      <3>2. call'[l] = [call[l] EXCEPT !.alone = FALSE]
        BY <1>2, <1>4, <2>1
      <3> QED BY <2>1, <3>1, <3>2 DEF Call
    <2>2. CASE l \notin CallsFor(c.name)
      <3>1. call'[l] = call[l]
        BY <1>2, <1>4, <2>2
      <3>2. Active(l) /\ call[l].alone \in BOOLEAN
        BY <1>0, <1>4, <3>1 DEF Active, TypeOK, Call
      <3> QED BY <2>2, <3>1, <3>2
    <2> QED BY <2>1, <2>2
  <1>5. \A g \in Handlers, n \in Names :
           Uses(g, n)' => Uses(g, n) \/ (g = h /\ n = c.name)
    BY <1>1, <1>3, <1>4 DEF Uses, CallsFor, NameOf
  <1>6. Owned'
    <2>1. h \notin Given => Uses(h, c.name) \/ \A n \in Names : ~Uses(h, n)
      <3>1. CASE registry[c.name] # Absent
        BY <1>2, <3>1 DEF HandlerFor, Uses
      <3>2. CASE registry[c.name] = Absent
        BY <1>0, <1>2, <3>2, UsedIsInUse DEF HandlerFor
      <3> QED BY <3>1, <3>2
    <2> QED BY <1>0, <1>1, <1>5, <2>1 DEF Owned
  <1>7. AloneIsAlone'
    <2> SUFFICES ASSUME NEW i \in Callers, NEW j \in Callers, Active(i)',
                        call'[i].alone, j \in CallsFor(NameOf(i))',
                        j # i
                 PROVE  FALSE
      BY DEF AloneIsAlone
    <2>0. Active(j)' /\ NameOf(j)' = NameOf(i)'
      BY DEF CallsFor
    <2>1. CASE i = k
      <3>1. Active(j) /\ call'[j].chan = call[j].chan
        BY <1>4, <2>0, <2>1
      <3>2. j \in CallsFor(c.name)
        BY <1>3, <2>0, <2>1, <3>1 DEF CallsFor, NameOf
      <3> QED BY <1>3, <2>1, <3>2
    <2>2. CASE j = k
      <3>1. /\ Active(i) /\ call'[i].chan = call[i].chan
            /\ call'[i].alone = (call[i].alone /\ i \notin CallsFor(c.name))
        BY <1>4, <2>2
      <3>2. i \in CallsFor(c.name)
        BY <1>3, <2>0, <2>2, <3>1 DEF CallsFor, NameOf
      <3> QED BY <3>1, <3>2
    <2>3. CASE i # k /\ j # k
      <3>1. /\ Active(i) /\ call'[i].chan = call[i].chan
            /\ call'[i].alone = (call[i].alone /\ i \notin CallsFor(c.name))
        BY <1>4, <2>3
      <3>2. Active(j) /\ call'[j].chan = call[j].chan
        BY <1>4, <2>0, <2>3
      <3>3. j \in CallsFor(NameOf(i))
        BY <2>0, <3>1, <3>2 DEF CallsFor, NameOf
      <3> QED BY <1>0, <3>1, <3>3 DEF AloneIsAlone
    <2> QED BY <2>1, <2>2, <2>3
  <1>8. Aimed'
    <2> SUFFICES ASSUME NEW l \in Callers, Active(l)'
                 PROVE  /\ call'[l].pc # "secret"
                              => call'[l].user = UserFor(call'[l].chan)
                        /\ /\ call'[l].pc \in {"exists", "put"}
                           /\ call'[l].alone /\ call'[l].handler \notin Given
                           => LeadsHome(client[call'[l].handler], call'[l].chan)
      BY <1>1 DEF Aimed, LeadsHome
    <2>1. CASE l = k
      BY <1>3, <2>1 DEF UserFor
    <2>2. CASE l # k
      BY <1>0, <1>4, <2>2 DEF Aimed
    <2> QED BY <2>1, <2>2
  <1>9. SettledHome'
    BY <1>0, <1>1 DEF SettledHome, LeadsHome
  <1> QED BY <1>6, <1>7, <1>8, <1>9

LEMMA InitKeepsInv ==
  ASSUME DescriptorInv, NEW k \in Callers, InitObjectStoreConnection(k)
  PROVE  Owned' /\ AloneIsAlone' /\ Aimed' /\ SettledHome'
  <1>0. TypeOK /\ Owned /\ AloneIsAlone /\ Aimed /\ SettledHome
    BY DEF DescriptorInv
  <1> DEFINE v == [call[k] EXCEPT !.pc = "exists"]
             h == call[k].handler
             new == ClientFor(call[k].chan.spec.endpoint, call[k].region,
                              call[k].user)
  <1>1. /\ Active(k) /\ call[k].pc = "init" /\ call[k].chan.spec.endpoint # NoSlash
        /\ client' = [client EXCEPT ![h] = new] /\ Step(k, v)
        /\ settled' = [settled EXCEPT ![NameOf(k)] = FALSE]
        /\ registry' = registry
    BY DEF InitObjectStoreConnection, At
  <1>2. call[k] \in Call /\ h \in Handlers /\ NameOf(k) \in Names
        /\ call[k].chan \in Channel
    BY <1>0, <1>1 DEF Active, TypeOK, Call, NameOf, Channel
  <1>3. v \in Call /\ v.chan = call[k].chan /\ v.handler = h
        /\ v.alone = call[k].alone /\ v.user = call[k].user
    BY <1>2 DEF Call, Phases
  <1>4. Owned' /\ AloneIsAlone'
    BY <1>0, <1>1, <1>3, CallGoesOn
  <1>5. call[k].user = UserFor(call[k].chan)
    BY <1>0, <1>1 DEF Aimed
  <1>6. LeadsHome(new, call[k].chan)
    BY <1>1, <1>2, <1>5, ClientLeadsHome DEF Call
  <1>7. \A n \in Names : h \notin Given /\ Uses(h, n) => n = NameOf(k)
    BY <1>0, <1>1, <1>2 DEF Owned, Uses, CallsFor
  <1>8. Aimed'
    <2> SUFFICES ASSUME NEW l \in Callers, Active(l)'
                 PROVE  /\ call'[l].pc # "secret"
                              => call'[l].user = UserFor(call'[l].chan)
                        /\ /\ call'[l].pc \in {"exists", "put"}
                           /\ call'[l].alone /\ call'[l].handler \notin Given
                           => LeadsHome(client'[call'[l].handler], call'[l].chan)
      BY DEF Aimed
    <2>1. CASE l = k
      <3>1. call'[l] = v /\ client'[h] = new
        BY <1>0, <1>1, <1>2, <2>1 DEF Step, TypeOK
      <3> QED BY <1>3, <1>5, <1>6, <3>1
    <2>2. CASE l # k
      <3>1. call'[l] = call[l] /\ Active(l) /\ call[l] \in Call
        BY <1>0, <1>1, <2>2 DEF Step, TypeOK, Active
      <3>2. call[l].alone /\ call[l].handler \notin Given => call[l].handler # h
        <4> SUFFICES ASSUME call[l].alone, h \notin Given, call[l].handler = h
                     PROVE  FALSE
          OBVIOUS
        <4>1. NameOf(l) = NameOf(k)
          BY <1>7, <3>1 DEF Uses, CallsFor, NameOf, Call, Channel
        <4> QED BY <1>0, <1>1, <2>2, <3>1, <4>1 DEF AloneIsAlone, CallsFor
      <3>3. call[l].handler # h => client'[call[l].handler] = client[call[l].handler]
        BY <1>0, <1>1, <3>1 DEF TypeOK, Call
      <3> QED BY <1>0, <3>1, <3>2, <3>3 DEF Aimed
    <2> QED BY <2>1, <2>2
  <1>9. SettledHome'
    <2> SUFFICES ASSUME NEW n \in Names, settled'[n]
                 PROVE  /\ registry[n] # Absent
                        /\ registry[n].handler \notin Given =>
                             LeadsHome(client'[registry[n].handler],
                                       registry[n].chan)
      BY <1>1 DEF SettledHome
    <2>1. n # NameOf(k) /\ settled[n]
      BY <1>0, <1>1 DEF TypeOK
    <2>2. registry[n] # Absent /\ registry[n].handler \in Handlers
      BY <1>0, <2>1 DEF SettledHome, TypeOK, Description
    <2>3. registry[n].handler \notin Given => registry[n].handler # h
      BY <1>7, <2>1, <2>2 DEF Uses
    <2> QED BY <1>0, <1>1, <2>1, <2>2, <2>3 DEF SettledHome, TypeOK
  <1> QED BY <1>4, <1>8, <1>9

LEMMA ReturnKeepsInv ==
  ASSUME DescriptorInv, TypeOK', NEW k \in Callers, Put(k) \/ Fails(k)
  PROVE  Owned' /\ AloneIsAlone' /\ Aimed' /\ SettledHome'
  <1>0. TypeOK /\ Owned /\ AloneIsAlone /\ Aimed /\ SettledHome
    BY DEF DescriptorInv
  <1>1. Active(k) /\ Return(k) /\ Step(k, Absent)
    BY DEF Put, Fails, At, Return
  <1>2. call[k] \in Call /\ NameOf(k) \in Names /\ call[k].handler \in Handlers
    BY <1>0, <1>1 DEF Active, TypeOK, Call, NameOf, Channel
  <1>3. \/ registry' = registry
        \/ registry' = [registry EXCEPT ![NameOf(k)] =
                          [chan |-> call[k].chan, handler |-> call[k].handler]]
    BY DEF Put, Fails
  <1>4. Owned' /\ AloneIsAlone'
    BY <1>0, <1>1, <1>3, CallGoesOn
  <1>5. \A l \in Callers : Active(l)' => call'[l] = call[l] /\ Active(l)
    BY <1>0, <1>1 DEF Step, Active, TypeOK
  <1>6. Aimed'
    <2> SUFFICES ASSUME NEW l \in Callers, Active(l)'
                 PROVE  /\ call[l].pc # "secret"
                              => call[l].user = UserFor(call[l].chan)
                        /\ /\ call[l].pc \in {"exists", "put"}
                           /\ call[l].alone /\ call[l].handler \notin Given
                           => LeadsHome(client'[call[l].handler], call[l].chan)
      BY <1>5 DEF Aimed
    <2>1. NameOf(l) \in Names /\ call[l].handler \in Handlers
      BY <1>0, <1>5 DEF Active, TypeOK, Call, NameOf, Channel
    <2>2. ASSUME NEW h \in Handlers, h = call[l].handler,
                 NEW n \in Names, n = NameOf(l)
          PROVE  client'[h] = client[h]
      <3>1. Uses(h, n)'
        BY <1>5, <2>2 DEF Uses, CallsFor, NameOf
      <3> QED BY <1>1, <3>1, ReturnKeepsClients
    <2>3. client'[call[l].handler] = client[call[l].handler]
      BY <2>1, <2>2
    <2> QED BY <1>0, <1>5, <2>3 DEF Aimed
  <1>7. ASSUME NEW n \in Names, registry'[n] # Absent
        PROVE  client'[registry'[n].handler] = client[registry'[n].handler]
    <2>1. registry'[n].handler \in Handlers
      BY <1>7 DEF TypeOK, Description
    <2>2. ASSUME NEW h \in Handlers, h = registry'[n].handler
          PROVE  client'[h] = client[h]
      <3>1. Uses(h, n)'
        BY <1>7, <2>2 DEF Uses
      <3> QED BY <1>1, <3>1, ReturnKeepsClients
    <2> QED BY <2>1, <2>2
  <1>8. SettledHome'
    <2> SUFFICES ASSUME NEW n \in Names, settled'[n]
                 PROVE  /\ registry'[n] # Absent
                        /\ registry'[n].handler \notin Given =>
                             LeadsHome(client[registry'[n].handler],
                                       registry'[n].chan)
      BY <1>7 DEF SettledHome
    <2>1. CASE n = NameOf(k) /\ Put(k)
      <3>1. registry'[n] = [chan |-> call[k].chan, handler |-> call[k].handler]
        BY <1>0, <2>1 DEF Put, TypeOK
      <3>2. registry'[n] # Absent
        BY <1>2, <3>1, DescriptorAssumption DEF Description, Call
      <3>3. call[k].alone /\ call[k].pc = "put"
        BY <1>0, <2>1 DEF Put, TypeOK, At
      <3> QED BY <1>0, <1>1, <3>1, <3>2, <3>3 DEF Aimed
    <2>2. CASE n # NameOf(k) \/ Fails(k)
      <3>1. registry'[n] = registry[n] /\ settled[n]
        BY <1>0, <1>2, <2>2 DEF Put, Fails, TypeOK
      <3> QED BY <1>0, <3>1 DEF SettledHome
    <2> QED BY <2>1, <2>2
  <1> QED BY <1>4, <1>6, <1>8

(* The steps that neither give a handler a client nor register anything.    *)
LEMMA QuietKeepsInv ==
  ASSUME DescriptorInv, NEW k \in Callers,
         getCredentialFromKube(k) \/ Exists(k)
  PROVE  Owned' /\ AloneIsAlone' /\ Aimed' /\ SettledHome'
  <1>0. /\ TypeOK /\ HasRef /\ Owned /\ AloneIsAlone /\ Aimed /\ SettledHome
    BY DEF DescriptorInv
  <1>1. /\ Active(k) /\ call[k] \in Call
        /\ UNCHANGED <<registry, client, settled>>
    BY <1>0 DEF getCredentialFromKube, Exists, At, Active, TypeOK
  <1>2. PICK v \in Call : /\ Step(k, v) /\ v.chan = call[k].chan
                          /\ v.handler = call[k].handler
                          /\ v.alone = call[k].alone
                          /\ v.pc # "secret" => v.user = UserFor(v.chan)
                          /\ v.pc \in {"exists", "put"}
                                => call[k].pc \in {"exists", "put"}
    <2>1. CASE getCredentialFromKube(k)
      <3> DEFINE ns == SecretNs(call[k].chan)
                 v == [call[k] EXCEPT !.pc = "init", !.user = ns,
                                      !.region = secret[ns]]
      <3>1. call[k].chan \in Channel /\ call[k].chan.spec.ref # NoRef
        BY <1>0, <1>1, <2>1 DEF getCredentialFromKube, HasRef, Call
      <3>2. ns \in Namespaces /\ ns = UserFor(call[k].chan)
        BY <3>1, SecretNsType DEF UserFor
      <3>3. secret[ns] \in Regions
        BY <1>0, <2>1, <3>2 DEF getCredentialFromKube, TypeOK
      <3>4. Step(k, v)
        BY <2>1 DEF getCredentialFromKube, ParseSecretInfo
      <3>5. /\ v \in Call /\ v.pc = "init" /\ v.chan = call[k].chan
            /\ v.handler = call[k].handler /\ v.alone = call[k].alone
            /\ v.user = ns
        BY <1>1, <3>2, <3>3 DEF Call, Phases
      <3> HIDE DEF v, ns
      <3> QED BY <3>2, <3>4, <3>5
    <2>2. CASE Exists(k)
      <3> DEFINE v == [call[k] EXCEPT !.pc = "put"]
      <3>1. Step(k, v) /\ call[k].pc = "exists"
        BY <2>2 DEF Exists, At
      <3>2. /\ v \in Call /\ v.chan = call[k].chan
            /\ v.handler = call[k].handler /\ v.alone = call[k].alone
            /\ v.user = call[k].user
        BY <1>1 DEF Call, Phases
      <3>3. call[k].user = UserFor(call[k].chan)
        BY <1>0, <1>1, <3>1 DEF Aimed
      <3> HIDE DEF v
      <3> QED BY <3>1, <3>2, <3>3
    <2> QED BY <2>1, <2>2
  <1>3. Owned' /\ AloneIsAlone'
    BY <1>0, <1>1, <1>2, CallGoesOn
  <1>4. Aimed'
    <2> SUFFICES ASSUME NEW l \in Callers, Active(l)'
                 PROVE  /\ call'[l].pc # "secret"
                              => call'[l].user = UserFor(call'[l].chan)
                        /\ /\ call'[l].pc \in {"exists", "put"}
                           /\ call'[l].alone /\ call'[l].handler \notin Given
                           => LeadsHome(client[call'[l].handler], call'[l].chan)
      BY <1>1 DEF Aimed, LeadsHome
    <2>1. CASE l = k
      <3>1. call'[l] = v
        BY <1>0, <1>2, <2>1 DEF Step, TypeOK
      <3> QED BY <1>0, <1>1, <1>2, <3>1 DEF Aimed
    <2>2. CASE l # k
      <3>1. call'[l] = call[l] /\ Active(l)
        BY <1>0, <1>2, <2>2 DEF Step, TypeOK, Active
      <3> QED BY <1>0, <3>1 DEF Aimed
    <2> QED BY <2>1, <2>2
  <1>5. SettledHome'
    BY <1>0, <1>1 DEF SettledHome, LeadsHome
  <1> QED BY <1>3, <1>4, <1>5

(* Nothing of it is about the Secrets.                                      *)
LEMMA ElsewhereKeepsInv ==
  ASSUME DescriptorInv, UNCHANGED <<registry, client, call, settled>>
  PROVE  Owned' /\ AloneIsAlone' /\ Aimed' /\ SettledHome'
  <1>1. \A n \in Names : CallsFor(n)' = CallsFor(n)
    BY DEF CallsFor, Active, NameOf
  <1>2. Owned'
    BY <1>1 DEF DescriptorInv, Owned, Uses
  <1>3. AloneIsAlone' /\ Aimed' /\ SettledHome'
    BY DEF DescriptorInv, AloneIsAlone, Aimed, SettledHome, LeadsHome, CallsFor,
           Active, NameOf
  <1> QED BY <1>2, <1>3

LEMMA DescriptorStep ==
  ASSUME DescriptorInv, [Next]_vars
  PROVE  DescriptorInv'
  <1>1. TypeOK' /\ HasRef'
    BY DescriptorTypeStep DEF DescriptorInv
  <1>2. ASSUME NEW k \in Callers, CallStep(k)
        PROVE  Owned' /\ AloneIsAlone' /\ Aimed' /\ SettledHome'
    BY <1>1, <1>2, ConnectKeepsInv, InitKeepsInv, ReturnKeepsInv, QuietKeepsInv,
       DescriptorAssumption DEF CallStep
  <1>3. ASSUME NEW ns \in Namespaces, NEW r \in Regions \cup {Absent},
               WriteSecret(ns, r)
        PROVE  Owned' /\ AloneIsAlone' /\ Aimed' /\ SettledHome'
    BY <1>3, ElsewhereKeepsInv DEF WriteSecret
  <1>4. ASSUME UNCHANGED vars
        PROVE  Owned' /\ AloneIsAlone' /\ Aimed' /\ SettledHome'
    BY <1>4, ElsewhereKeepsInv DEF vars
  <1>5. Owned' /\ AloneIsAlone' /\ Aimed' /\ SettledHome'
    BY <1>2, <1>3, <1>4 DEF Next
  <1> QED BY <1>1, <1>5 DEF DescriptorInv

(* A description whose last reconnect succeeded and met no other call for   *)
(* its name leads to the server and the credentials its channel names       *)
(* (ConnectWithResourceHost), for any number of calls, channels and         *)
(* handlers.                                                                *)
THEOREM SettledHomeCorrect == Spec => []SettledLeadsHome
  <1>1. DescriptorInv => SettledLeadsHome
    BY DEF DescriptorInv, SettledHome, SettledLeadsHome
  <1> QED BY <1>1, DescriptorInit, DescriptorStep, PTL DEF Spec

(* No call for another name changes the client a description has in use.    *)
LEMMA IsolatedStep ==
  ASSUME DescriptorInv, Next, NEW n \in Names,
         registry[n] # Absent, registry'[n] = registry[n],
         registry[n].handler \notin Given,
         client'[registry[n].handler] # client[registry[n].handler]
  PROVE  \E k \in Callers : At(k, "init") /\ NameOf(k) = n
  <1> DEFINE g == registry[n].handler
  <1>0. TypeOK /\ Owned /\ g \in Handlers
    BY DEF DescriptorInv, TypeOK, Description
  <1>1. TypeOK'
    BY DescriptorTypeStep DEF DescriptorInv
  <1>2. ASSUME NEW k \in Callers, InitObjectStoreConnection(k)
        PROVE  \E l \in Callers : At(l, "init") /\ NameOf(l) = n
    <2>1. At(k, "init") /\ call[k] \in Call
      BY <1>0, <1>2 DEF InitObjectStoreConnection, At, Active, TypeOK
    <2>2. call[k].handler = g
      BY <1>0, <1>2 DEF InitObjectStoreConnection, TypeOK
    <2>3. NameOf(k) \in Names /\ Uses(g, n) /\ Uses(g, NameOf(k))
      BY <2>1, <2>2 DEF Uses, CallsFor, NameOf, Call, Channel, At
    <2> QED BY <1>0, <2>1, <2>3 DEF Owned
  <1>3. ASSUME NEW k \in Callers, Put(k) \/ Fails(k) PROVE FALSE
    <2>1. Return(k)
      BY <1>3 DEF Put, Fails
    <2>2. ASSUME NEW h \in Handlers, h = g PROVE client'[h] = client[h]
      <3>1. Uses(h, n)'
        BY <2>2 DEF Uses
      <3> QED BY <1>1, <2>1, <3>1, ReturnKeepsClients
    <2> QED BY <1>0, <2>2
  <1>4. ASSUME NEW k \in Callers, NEW c \in Versions,
               ConnectWithResourceHost(k, c)
        PROVE  FALSE
    BY <1>4 DEF ConnectWithResourceHost
  <1>5. ASSUME NEW ns \in Namespaces, NEW r \in Regions \cup {Absent},
               WriteSecret(ns, r)
        PROVE  FALSE
    BY <1>5 DEF WriteSecret
  <1>6. ASSUME NEW k \in Callers, getCredentialFromKube(k) \/ Exists(k)
        PROVE  FALSE
    BY <1>6 DEF getCredentialFromKube, Exists
  <1> QED BY <1>2, <1>3, <1>4, <1>5, <1>6 DEF Next, CallStep

(* Where a description leads is changed by calls for its own name only,     *)
(* although handlers are shared between a description and its reconnects.   *)
THEOREM IsolationCorrect == Spec => Isolated
  <1>1. ASSUME DescriptorInv, [Next]_vars
        PROVE  [\A n \in Names :
                  /\ registry[n] # Absent /\ registry'[n] = registry[n]
                  /\ registry[n].handler \notin Given
                  /\ client'[registry[n].handler] # client[registry[n].handler]
                  => \E k \in Callers : At(k, "init") /\ NameOf(k) = n]_vars
    BY <1>1, IsolatedStep
  <1> QED BY <1>1, DescriptorInit, DescriptorStep, PTL DEF Spec, Isolated

=============================================================================
