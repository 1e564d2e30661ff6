------------------------------ MODULE ApiAccess ------------------------------
(***************************************************************************)
(* The keys of the HTTP API: the first key that a server writes when it    *)
(* starts (apps/api/src/auth.ts, app.ts), the check of a key on every      *)
(* request with its write-back of lastUsedAt, and the key routes of        *)
(* routes/identity.ts, over either storage driver.                         *)
(***************************************************************************)
EXTENDS Integers

CONSTANTS Server, ApiRequest, Key, MaxServerDeaths

ASSUME ApiAccessAssumption == MaxServerDeaths \in Nat

VARIABLES deployment,   \* the driver, and whether the first key comes from the environment
          server,       \* per server: how far its start is, and the key it writes
          tenant,       \* the rows of the tenant
          keys,         \* the key store
          held,         \* the keys somebody was told
          revokedKeys,  \* the keys whose revocation was answered
          request,      \* per request: what it read and what it is for
          serverDeaths

ApiAccessVars == <<deployment, server, tenant, keys, held, revokedKeys, request, serverDeaths>>

Role == {"admin", "viewer"}   \* the ranks that the key routes tell apart
NoKey == [role |-> "none", revoked |-> FALSE]
ApiKey == [role : Role, revoked : BOOLEAN]   \* one that has expired is refused, and no more
Issued == {k \in Key : keys[k] # NoKey}
NewKey == CHOOSE k \in Key \ Issued : TRUE   \* newKeyId: keys differ by their ids only

Resting == [at |-> "idle", key |-> CHOOSE k \in Key : TRUE,
            copy |-> NoKey, wants |-> "read", target |-> CHOOSE k \in Key : TRUE, found |-> NoKey]
Off == [at |-> "off", key |-> CHOOSE k \in Key : TRUE]

ApiAccessInit ==
  /\ deployment \in [driver : {"embedded", "postgres"}, fixed : BOOLEAN]
  /\ server = [s \in Server |-> Off] /\ tenant = {} /\ keys = [k \in Key |-> NoKey]
  /\ held = {} /\ revokedKeys = {} /\ request = [q \in ApiRequest |-> Resting] /\ serverDeaths = 0

-----------------------------------------------------------------------------
(* bootstrap(), one await at a time. *)

Starts(s, at) == server' = [server EXCEPT ![s].at = at]

\* The embedded store belongs to one process.
StartServer(s) ==
  /\ server[s].at = "off"
  /\ deployment.driver = "embedded" => \A o \in Server : server[o].at = "off"
  /\ Starts(s, IF "organization" \in tenant THEN "listing" ELSE "creating")
  /\ UNCHANGED <<deployment, tenant, keys, held, revokedKeys, request, serverDeaths>>

\* Defect: a tenant that exists is taken for one that has its key.
ListKeysOnce(s) ==
  /\ server[s].at = "listing" /\ Starts(s, "serving")
  /\ UNCHANGED <<deployment, tenant, keys, held, revokedKeys, request, serverDeaths>>

ListKeys(s) ==
  /\ server[s].at = "listing"
  /\ Starts(s, IF Issued = {} THEN "creating" ELSE "serving")
  /\ UNCHANGED <<deployment, tenant, keys, held, revokedKeys, request, serverDeaths>>

SaveTenant(s) ==
  /\ \/ server[s].at = "creating" /\ tenant' = tenant \union {"organization"} /\ Starts(s, "project")
     \/ server[s].at = "project" /\ tenant' = tenant \union {"project"} /\ Starts(s, "key")
  /\ UNCHANGED <<deployment, keys, held, revokedKeys, request, serverDeaths>>

\* A key of the environment is known already; its prefix is one and the same for
\* every server, and Postgres keeps prefixes unique: the second start fails.
SaveFirstKey(s) ==
  /\ server[s].at = "key"
  /\ \/ /\ deployment.fixed /\ Issued # {} /\ Starts(s, "off") /\ UNCHANGED <<keys, held>>
     \/ /\ deployment.fixed => Issued = {}
        /\ Issued # Key
        /\ keys' = [keys EXCEPT ![NewKey] = [NoKey EXCEPT !.role = "admin"]]
        /\ server' = [server EXCEPT ![s] = [at |-> "saved", key |-> NewKey]]
        /\ held' = IF deployment.fixed THEN held \union {NewKey} ELSE held
  /\ UNCHANGED <<deployment, tenant, revokedKeys, request, serverDeaths>>

\* The plaintext is returned, once, and printed by whoever started the server.
TellFirstKey(s) ==
  /\ server[s].at = "saved"
  /\ server' = [server EXCEPT ![s] = [Off EXCEPT !.at = "serving"]]
  /\ held' = held \union {server[s].key}
  /\ UNCHANGED <<deployment, tenant, keys, revokedKeys, request, serverDeaths>>

\* The requests that were on it are gone.
DieServing(s) ==
  /\ server[s].at # "off" /\ serverDeaths < MaxServerDeaths
  /\ serverDeaths' = serverDeaths + 1
  /\ server' = [server EXCEPT ![s] = Off]
  /\ \E its \in SUBSET ApiRequest :
       request' = [q \in ApiRequest |-> IF q \in its THEN Resting ELSE request[q]]
  /\ UNCHANGED <<deployment, tenant, keys, held, revokedKeys>>

-----------------------------------------------------------------------------
(* A request: authenticateKey, then the handler, one await at a time. *)

Goes(q, changed) == request' = [request EXCEPT ![q] = changed]

\* Defect: an optional column is written as null when the record lacks it.
WrittenAsNull(k, record) == record

\* apiKeys.save: the embedded log keeps the record as it is; Postgres gets
\* `undefined` for a date that the record lacks, which leaves the column.
Written(k, record) ==
  IF deployment.driver = "postgres" /\ keys[k].revoked THEN [record EXCEPT !.revoked = TRUE] ELSE record

\* getByPrefix and the checks of the record: anything else is a 401.
PresentKey(q, k) ==
  /\ request[q].at = "idle" /\ (\E s \in Server : server[s].at = "serving") /\ k \in held /\ ~keys[k].revoked
  /\ \E wants \in {"read", "create", "revoke"}, target \in Key :
       /\ IF wants = "revoke" THEN target \in Issued ELSE target = Resting.target
       /\ Goes(q, [Resting EXCEPT !.at = "known", !.key = k, !.copy = keys[k],
                                  !.wants = wants, !.target = target])
  /\ UNCHANGED <<deployment, server, tenant, keys, held, revokedKeys, serverDeaths>>

\* touch(): lastUsedAt goes into the record read before, unless it is less than
\* a minute old there; then requireRole.
Touch(q) ==
  LET key == request[q].key
      may == request[q].wants = "read" \/ request[q].copy.role = "admin"
  IN /\ request[q].at = "known"
     /\ keys' \in {keys, [keys EXCEPT ![key] = Written(key, request[q].copy)]}
     /\ Goes(q, IF ~may \/ request[q].wants = "read" THEN Resting
                ELSE [Resting EXCEPT !.at = request[q].wants, !.target = request[q].target])
     /\ UNCHANGED <<deployment, server, tenant, held, revokedKeys, serverDeaths>>

CreateKey(q) ==
  /\ request[q].at = "create" /\ Goes(q, Resting)
  /\ Issued # Key
  /\ \E role \in Role : keys' = [keys EXCEPT ![NewKey] = [NoKey EXCEPT !.role = role]]
  /\ held' = held \union {NewKey}
  /\ UNCHANGED <<deployment, server, tenant, revokedKeys, serverDeaths>>

ReadToRevoke(q) ==
  /\ request[q].at = "revoke"
  /\ Goes(q, [request[q] EXCEPT !.at = "revoking", !.found = keys[request[q].target]])
  /\ UNCHANGED <<deployment, server, tenant, keys, held, revokedKeys, serverDeaths>>

SaveRevoked(q) ==
  LET target == request[q].target
  IN /\ request[q].at = "revoking" /\ Goes(q, Resting)
     /\ keys' = [keys EXCEPT ![target] = Written(target, [request[q].found EXCEPT !.revoked = TRUE])]
     /\ revokedKeys' = revokedKeys \union {target}
     /\ UNCHANGED <<deployment, server, tenant, held, serverDeaths>>

RequestStep(q) ==
  \/ \E k \in Key : PresentKey(q, k)
  \/ Touch(q) \/ CreateKey(q) \/ ReadToRevoke(q) \/ SaveRevoked(q)

ApiAccessNext ==
  \/ \E s \in Server : \/ StartServer(s) \/ ListKeys(s) \/ SaveTenant(s) \/ SaveFirstKey(s)
                       \/ TellFirstKey(s) \/ DieServing(s)
  \/ \E q \in ApiRequest : RequestStep(q)

-----------------------------------------------------------------------------
ApiAccessTypeOK ==
  /\ keys \in [Key -> ApiKey \union {NoKey}] /\ held \subseteq Issued /\ revokedKeys \subseteq Issued
  /\ tenant \subseteq {"organization", "project"}

\* A key whose revocation was answered stays revoked, whatever the requests
\* that had read it before write back.  Postgres keeps it by leaving the column
\* of a date the record lacks.
RevocationStays == deployment.driver = "postgres" => \A k \in revokedKeys : keys[k].revoked

\* Violated.  apps/api/test/auth.test.ts:169: "rejects a revoked or expired
\* key".  The embedded driver keeps the record touch() had read before the
\* revocation, and the key is good again.
RevocationStaysAnywhere == \A k \in revokedKeys : keys[k].revoked

\* A server that serves has a key in its store: one that died between the
\* tenant and the key finds that out when it starts again.
ServingHasAKey == (\E s \in Server : server[s].at = "serving") => Issued # {}

\* Violated.  apps/api/src/auth.ts:109: "so a fresh install is not locked out".
\* A server that dies with the key saved and not told leaves a key nobody has.
ServingIsNotLockedOut ==
  (\E s \in Server : server[s].at = "serving") /\ (\A s \in Server : server[s].at # "saved") => held # {}
=============================================================================
