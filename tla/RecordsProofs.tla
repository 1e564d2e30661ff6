---------------------------- MODULE RecordsProofs ----------------------------
(***************************************************************************)
(* What is kept of a run, for every value of the constants: of each part   *)
(* an invariant that every step of its own keeps, and from those the       *)
(* questions that the run "records" asks.                                  *)
(***************************************************************************)
EXTENDS EvidenceProofs

-----------------------------------------------------------------------------
(* The parts side by side: a step of the records is a step of the part that  *)
(* moves, or leaves it alone.                                                *)

LEMMA OnlyItsPartMoves ==
  ASSUME [RecordsNext]_recordsVars
  PROVE  /\ part' = part
         /\ part = "log" => [DurableLogNext]_DurableLogVars
         /\ part = "events" => [EventHistoryNext]_EventHistoryVars
         /\ part = "drivers" => [StoreDriversNext]_StoreDriversVars
         /\ part = "checkpoints" => [CheckpointsNext]_CheckpointsVars
         /\ part = "snapshot" => [SnapshotNext]_SnapshotVars
         /\ part = "replay" => [ReplayNext]_ReplayVars
         /\ part = "registry" => [AgentRegistryNext]_AgentRegistryVars
         /\ part = "access" => [ApiAccessNext]_ApiAccessVars
         /\ part = "grading" => [GradingNext]_GradingVars
BY DEF recordsVars, RecordsNext, OthersRest, Rests, PathsMove, LogMoves, EventsMove, DriversMove,
       CheckpointsMove, SnapshotMoves, ReplayMoves, FilesMove, TraceMoves, ContextMoves, MemoryMoves,
       RegistryMoves, AccessMoves, FramesMove, GradingMoves

\* A part at rest stays as it was, so each part's own invariant is the records'.
LEMMA StoresRest ==
  ASSUME [RecordsNext]_recordsVars
  PROVE  /\ [DurableLogNext]_DurableLogVars /\ [EventHistoryNext]_EventHistoryVars
         /\ [StoreDriversNext]_StoreDriversVars
         /\ [CheckpointsNext]_CheckpointsVars /\ [SnapshotNext]_SnapshotVars
         /\ [ReplayNext]_ReplayVars /\ [AgentRegistryNext]_AgentRegistryVars
         /\ [ApiAccessNext]_ApiAccessVars /\ [GradingNext]_GradingVars
<1>1. CASE UNCHANGED recordsVars
  BY <1>1 DEF recordsVars
<1>2. CASE RecordsNext
  <2>1. OthersRest
    BY <1>2 DEF RecordsNext, PathsMove, LogMoves, EventsMove, DriversMove,
       CheckpointsMove, SnapshotMoves, ReplayMoves, FilesMove, TraceMoves, ContextMoves, MemoryMoves,
       RegistryMoves, AccessMoves, FramesMove, GradingMoves
  <2> QED BY <2>1, OnlyItsPartMoves DEF OthersRest, Rests
<1> QED BY <1>1, <1>2

-----------------------------------------------------------------------------
(* The keys of the HTTP API.  A write-back puts a whole record over a key, so  *)
(* what counts is which keys a request can still write to: ones that exist,    *)
(* with the record of a key that existed when it was read.                     *)

AnyKey == Key \cup {CHOOSE k \in Key : TRUE}
ServerRow == [at : {"off", "listing", "creating", "project", "key", "saved", "serving"}, key : AnyKey]
RequestRow == [at : {"idle", "known", "read", "create", "revoke", "revoking"}, key : AnyKey,
               copy : ApiKey \cup {NoKey}, wants : {"read", "create", "revoke"}, target : AnyKey,
               found : ApiKey \cup {NoKey}]

\* What a request has read is a key that is there.
HoldsKeys(req, there) ==
  /\ req.at = "known" => /\ req.key \in there /\ req.copy \in ApiKey
                         /\ req.wants = "revoke" => req.target \in there
  /\ req.at \in {"revoke", "revoking"} => req.target \in there
  /\ req.at = "revoking" => req.found \in ApiKey

ServesKeys(serves, there) ==
  /\ serves.at = "saved" => serves.key \in there
  /\ serves.at = "serving" => there # {}

AccessInv ==
  /\ keys \in [Key -> ApiKey \cup {NoKey}]
  /\ server \in [Server -> ServerRow] /\ request \in [ApiRequest -> RequestRow]
  /\ held \subseteq Issued /\ revokedKeys \subseteq Issued
  /\ \A s \in Server : ServesKeys(server[s], Issued)
  /\ \A q \in ApiRequest : HoldsKeys(request[q], Issued)
  /\ RevocationStays

\* A key that is there is one of the two roles' keys.
LEMMA IssuedAreKeys ==
  ASSUME keys \in [Key -> ApiKey \cup {NoKey}], NEW k
  PROVE  k \in Issued <=> (k \in Key /\ keys[k] \in ApiKey)
<1>1. NoKey \notin ApiKey
  BY DEF ApiKey, NoKey, Role
<1>2. ASSUME k \in Key PROVE keys[k] # NoKey <=> keys[k] \in ApiKey
  BY <1>1, <1>2
<1> QED BY <1>2 DEF Issued

\* Whatever record is written over a key: it is there, the others are as they
\* were, and under Postgres one that was revoked still is.
LEMMA WritingKeepsKeys ==
  ASSUME keys \in [Key -> ApiKey \cup {NoKey}], NEW k \in Key, NEW record \in ApiKey,
         keys' = [keys EXCEPT ![k] = record]
  PROVE  /\ keys' \in [Key -> ApiKey \cup {NoKey}]
         /\ Issued' = Issued \cup {k}
         /\ keys'[k] = record
         /\ \A o \in Key \ {k} : keys'[o] = keys[o]
<1>1. keys' \in [Key -> ApiKey \cup {NoKey}]
  OBVIOUS
<1>2. keys'[k] = record /\ \A o \in Key \ {k} : keys'[o] = keys[o]
  OBVIOUS
<1>3. record # NoKey
  BY DEF ApiKey, NoKey, Role
<1>4. \A o \in Key : o \in Issued' <=> o \in Issued \cup {k}
  BY <1>2, <1>3 DEF Issued
<1>5. Issued' \subseteq Key /\ Issued \subseteq Key
  BY DEF Issued
<1> QED BY <1>1, <1>2, <1>4, <1>5

LEMMA WrittenIsAKey ==
  ASSUME NEW k \in Key, NEW record \in ApiKey
  PROVE  /\ Written(k, record) \in ApiKey
         /\ record.revoked => Written(k, record).revoked
         /\ (deployment.driver = "postgres" /\ keys[k].revoked) => Written(k, record).revoked
BY DEF Written, ApiKey

LEMMA AccessStarts == ApiAccessInit => AccessInv
<1> SUFFICES ASSUME ApiAccessInit PROVE AccessInv
  OBVIOUS
<1>1. /\ keys = [k \in Key |-> NoKey] /\ server = [s \in Server |-> Off]
      /\ request = [q \in ApiRequest |-> Resting] /\ held = {} /\ revokedKeys = {}
  BY DEF ApiAccessInit
<1>2. Off \in ServerRow /\ Off.at = "off"
  BY DEF Off, ServerRow, AnyKey
<1>3. Resting \in RequestRow /\ Resting.at = "idle"
  BY DEF Resting, RequestRow, AnyKey
<1>4. \A s \in Server : ServesKeys(server[s], Issued)
  BY <1>1, <1>2 DEF ServesKeys
<1>5. \A q \in ApiRequest : HoldsKeys(request[q], Issued)
  BY <1>1, <1>3 DEF HoldsKeys
<1> QED BY <1>1, <1>2, <1>3, <1>4, <1>5 DEF AccessInv, RevocationStays

\* What a server or a request may do is enough for more keys than it was.
LEMMA MoreKeysDo ==
  ASSUME NEW there, NEW more, there \subseteq more
  PROVE  /\ \A serves : ServesKeys(serves, there) => ServesKeys(serves, more)
         /\ \A req : HoldsKeys(req, there) => HoldsKeys(req, more)
<1>1. ASSUME NEW serves, ServesKeys(serves, there) PROVE ServesKeys(serves, more)
  BY <1>1 DEF ServesKeys
<1>2. ASSUME NEW req, HoldsKeys(req, there) PROVE HoldsKeys(req, more)
  <2>1. (req.at = "known" => req.key \in more /\ req.copy \in ApiKey)
        /\ (req.at = "known" => (req.wants = "revoke" => req.target \in more))
    BY <1>2 DEF HoldsKeys
  <2>2. (req.at \in {"revoke", "revoking"} => req.target \in more)
        /\ (req.at = "revoking" => req.found \in ApiKey)
    BY <1>2 DEF HoldsKeys
  <2> QED BY <2>1, <2>2 DEF HoldsKeys
<1> QED BY <1>1, <1>2

\* One server has moved, and perhaps a key has been added.
LEMMA ServerMoves ==
  ASSUME AccessInv, NEW s \in Server, NEW now \in ServerRow, server' = [server EXCEPT ![s] = now],
         Issued \subseteq Issued', ServesKeys(now, Issued')
  PROVE  /\ server' \in [Server -> ServerRow]
         /\ \A o \in Server : ServesKeys(server'[o], Issued')
<1>1. server \in [Server -> ServerRow] /\ \A o \in Server : ServesKeys(server[o], Issued)
  BY DEF AccessInv
<1>2. \A o \in Server : ServesKeys(server[o], Issued')
  BY <1>1, MoreKeysDo
<1> QED BY <1>1, <1>2

LEMMA RequestMoves ==
  ASSUME AccessInv, NEW q \in ApiRequest, NEW now \in RequestRow, request' = [request EXCEPT ![q] = now],
         Issued \subseteq Issued', HoldsKeys(now, Issued')
  PROVE  /\ request' \in [ApiRequest -> RequestRow]
         /\ \A o \in ApiRequest : HoldsKeys(request'[o], Issued')
<1>1. request \in [ApiRequest -> RequestRow] /\ \A o \in ApiRequest : HoldsKeys(request[o], Issued)
  BY DEF AccessInv
<1>2. \A o \in ApiRequest : HoldsKeys(request[o], Issued')
  BY <1>1, MoreKeysDo
<1> QED BY <1>1, <1>2

LEMMA AccessSteps ==
  ASSUME AccessInv, ApiAccessNext
  PROVE  AccessInv'
<1>0. /\ keys \in [Key -> ApiKey \cup {NoKey}]
      /\ server \in [Server -> ServerRow] /\ request \in [ApiRequest -> RequestRow]
      /\ held \subseteq Issued /\ revokedKeys \subseteq Issued
      /\ RevocationStays /\ Issued \subseteq Key
      /\ \A s \in Server : ServesKeys(server[s], Issued)
      /\ \A q \in ApiRequest : HoldsKeys(request[q], Issued)
  BY DEF AccessInv, Issued
\* The steps of a server that add no key.
<1>1. ASSUME NEW s \in Server, NEW spot \in {"listing", "creating", "project", "key", "serving", "off"}, Starts(s, spot),
             spot = "serving" => Issued # {}, UNCHANGED <<deployment, keys, held, revokedKeys, request>>
      PROVE  AccessInv'
  <2> DEFINE now == [server[s] EXCEPT !.at = spot]
  <2>1. now \in ServerRow /\ now.at = spot
    BY <1>0 DEF ServerRow
  <2>2. server' = [server EXCEPT ![s] = now]
    BY <1>0, <1>1 DEF Starts, ServerRow
  <2>3. Issued' = Issued
    BY <1>1 DEF Issued
  <2>4. ServesKeys(now, Issued')
    BY <2>1, <2>3, <1>1 DEF ServesKeys
  <2> HIDE DEF now
  <2>5. server' \in [Server -> ServerRow] /\ \A o \in Server : ServesKeys(server'[o], Issued')
    BY <2>1, <2>2, <2>3, <2>4, ServerMoves
  <2>6. \A q \in ApiRequest : HoldsKeys(request'[q], Issued')
    BY <1>0, <1>1, <2>3
  <2> QED BY <1>0, <1>1, <2>3, <2>5, <2>6 DEF AccessInv, RevocationStays
<1>2. ASSUME NEW s \in Server, StartServer(s) \/ ListKeys(s) \/ SaveTenant(s)
      PROVE  AccessInv'
  <2>1. CASE StartServer(s)
    BY <2>1, <1>1 DEF StartServer
  <2>2. CASE ListKeys(s)
    BY <2>2, <1>1 DEF ListKeys
  <2>3. CASE SaveTenant(s)
    BY <2>3, <1>1 DEF SaveTenant
  <2> QED BY <1>2, <2>1, <2>2, <2>3
<1>3. ASSUME NEW s \in Server, SaveFirstKey(s)
      PROVE  AccessInv'
  <2>1. CASE keys' = keys /\ held' = held /\ Starts(s, "off")
    BY <2>1, <1>3, <1>1 DEF SaveFirstKey
  <2>2. CASE /\ Issued # Key
             /\ keys' = [keys EXCEPT ![NewKey] = [NoKey EXCEPT !.role = "admin"]]
             /\ server' = [server EXCEPT ![s] = [at |-> "saved", key |-> NewKey]]
             /\ held' = IF deployment.fixed THEN held \union {NewKey} ELSE held
    <3>1. NewKey \in Key \ Issued
      BY <1>0, <2>2 DEF NewKey
    <3>2. [NoKey EXCEPT !.role = "admin"] \in ApiKey
      BY DEF NoKey, ApiKey, Role
    <3>3. PICK k \in Key \ Issued : k = NewKey
      BY <3>1
    <3>4. /\ keys' \in [Key -> ApiKey \cup {NoKey}] /\ Issued' = Issued \cup {k}
          /\ \A o \in Key \ {k} : keys'[o] = keys[o]
      BY <1>0, <2>2, <3>2, <3>3, WritingKeepsKeys
    <3> DEFINE now == [at |-> "saved", key |-> k]
    <3>5. now \in ServerRow /\ now.at = "saved" /\ now.key = k
      BY <3>3 DEF ServerRow, AnyKey
    <3>6. ServesKeys(now, Issued')
      BY <3>4, <3>5 DEF ServesKeys
    <3>7. server' = [server EXCEPT ![s] = now]
      BY <2>2, <3>3
    <3> HIDE DEF now
    <3>8. server' \in [Server -> ServerRow] /\ \A o \in Server : ServesKeys(server'[o], Issued')
      BY <3>4, <3>5, <3>6, <3>7, ServerMoves
    <3>9. \A q \in ApiRequest : HoldsKeys(request'[q], Issued')
      BY <1>0, <1>3, <3>4, MoreKeysDo DEF SaveFirstKey
    <3>10. held' \subseteq Issued'
      BY <1>0, <2>2, <3>3, <3>4
    <3>11. revokedKeys' = revokedKeys /\ deployment' = deployment /\ request' = request
      BY <1>3 DEF SaveFirstKey
    <3>12. RevocationStays'
      BY <1>0, <3>3, <3>4, <3>11 DEF RevocationStays
    <3> QED BY <1>0, <3>4, <3>8, <3>9, <3>10, <3>11, <3>12 DEF AccessInv
  <2> QED BY <1>3, <2>1, <2>2 DEF SaveFirstKey
<1>4. ASSUME NEW s \in Server, TellFirstKey(s)
      PROVE  AccessInv'
  <2> DEFINE now == [Off EXCEPT !.at = "serving"]
  <2>1. now \in ServerRow /\ now.at = "serving"
    BY DEF Off, ServerRow, AnyKey
  <2>2. server[s].key \in Issued
    BY <1>0, <1>4 DEF TellFirstKey, ServesKeys
  <2>3. Issued' = Issued
    BY <1>4 DEF TellFirstKey, Issued
  <2>4. ServesKeys(now, Issued')
    BY <2>1, <2>2, <2>3 DEF ServesKeys
  <2>5. server' = [server EXCEPT ![s] = now]
    BY <1>4 DEF TellFirstKey
  <2> HIDE DEF now
  <2>6. server' \in [Server -> ServerRow] /\ \A o \in Server : ServesKeys(server'[o], Issued')
    BY <2>1, <2>3, <2>4, <2>5, ServerMoves
  <2>7. held' \subseteq Issued'
    BY <1>0, <1>4, <2>2, <2>3 DEF TellFirstKey
  <2> QED BY <1>0, <1>4, <2>3, <2>6, <2>7 DEF TellFirstKey, AccessInv, RevocationStays
<1>5. ASSUME NEW s \in Server, DieServing(s)
      PROVE  AccessInv'
  <2>1. Off \in ServerRow /\ Off.at = "off"
    BY DEF Off, ServerRow, AnyKey
  <2>2. Resting \in RequestRow /\ Resting.at = "idle"
    BY DEF Resting, RequestRow, AnyKey
  <2>3. Issued' = Issued
    BY <1>5 DEF DieServing, Issued
  <2>4. ServesKeys(Off, Issued') /\ HoldsKeys(Resting, Issued')
    BY <2>1, <2>2 DEF ServesKeys, HoldsKeys
  <2>5. server' \in [Server -> ServerRow] /\ \A o \in Server : ServesKeys(server'[o], Issued')
    BY <1>5, <2>1, <2>3, <2>4, ServerMoves DEF DieServing
  <2>6. PICK its \in SUBSET ApiRequest :
          request' = [q \in ApiRequest |-> IF q \in its THEN Resting ELSE request[q]]
    BY <1>5 DEF DieServing
  <2>7. request' \in [ApiRequest -> RequestRow] /\ \A q \in ApiRequest : HoldsKeys(request'[q], Issued')
    BY <1>0, <2>2, <2>3, <2>4, <2>6
  <2> QED BY <1>0, <1>5, <2>3, <2>5, <2>7 DEF DieServing, AccessInv, RevocationStays
\* The steps of a request that write no key.
<1>6. ASSUME NEW q \in ApiRequest, NEW now \in RequestRow, Goes(q, now), HoldsKeys(now, Issued),
             UNCHANGED <<deployment, server, keys, held, revokedKeys>>
      PROVE  AccessInv'
  <2>1. Issued' = Issued
    BY <1>6 DEF Issued
  <2>2. request' = [request EXCEPT ![q] = now]
    BY <1>6 DEF Goes
  <2>3. request' \in [ApiRequest -> RequestRow] /\ \A o \in ApiRequest : HoldsKeys(request'[o], Issued')
    BY <1>6, <2>1, <2>2, RequestMoves
  <2> QED BY <1>0, <1>6, <2>1, <2>3 DEF AccessInv, RevocationStays
<1>7. ASSUME NEW q \in ApiRequest, NEW k \in Key, PresentKey(q, k)
      PROVE  AccessInv'
  <2>1. PICK wants \in {"read", "create", "revoke"}, goal \in Key :
          /\ wants = "revoke" => goal \in Issued
          /\ Goes(q, [Resting EXCEPT !.at = "known", !.key = k, !.copy = keys[k],
                                     !.wants = wants, !.target = goal])
    BY <1>7 DEF PresentKey
  <2> DEFINE now == [Resting EXCEPT !.at = "known", !.key = k, !.copy = keys[k],
                                    !.wants = wants, !.target = goal]
  <2>2. k \in Issued /\ keys[k] \in ApiKey
    BY <1>0, <1>7, IssuedAreKeys DEF PresentKey
  <2>3. now \in RequestRow /\ now.at = "known" /\ now.key = k /\ now.copy = keys[k]
          /\ now.wants = wants /\ now.target = goal
    BY <2>2 DEF Resting, RequestRow, AnyKey
  <2>4. HoldsKeys(now, Issued)
    BY <2>1, <2>2, <2>3 DEF HoldsKeys
  <2>5. Goes(q, now)
    BY <2>1
  <2> HIDE DEF now
  <2> QED BY <1>6, <1>7, <2>3, <2>4, <2>5 DEF PresentKey
<1>8. ASSUME NEW q \in ApiRequest, ReadToRevoke(q)
      PROVE  AccessInv'
  <2> DEFINE now == [request[q] EXCEPT !.at = "revoking", !.found = keys[request[q].target]]
  <2>1. request[q].target \in Issued /\ keys[request[q].target] \in ApiKey
    BY <1>0, <1>8, IssuedAreKeys DEF ReadToRevoke, HoldsKeys
  <2>2. now \in RequestRow /\ now.at = "revoking" /\ now.target = request[q].target
          /\ now.found = keys[request[q].target]
    BY <1>0, <2>1 DEF RequestRow
  <2>3. HoldsKeys(now, Issued)
    BY <2>1, <2>2 DEF HoldsKeys
  <2>4. Goes(q, now)
    BY <1>8 DEF ReadToRevoke
  <2> HIDE DEF now
  <2> QED BY <1>6, <1>8, <2>2, <2>3, <2>4 DEF ReadToRevoke
\* The steps of a request that write a key.
<1>9. ASSUME NEW q \in ApiRequest, NEW now \in RequestRow, Goes(q, now),
             NEW k \in Key, NEW record \in ApiKey, keys' = [keys EXCEPT ![k] = record],
             HoldsKeys(now, Issued \cup {k}), held' \subseteq Issued \cup {k},
             revokedKeys' \subseteq Issued \cup {k}, UNCHANGED <<deployment, server>>,
             deployment.driver = "postgres" =>
               /\ k \in revokedKeys' => record.revoked
               /\ \A o \in revokedKeys' \ {k} : o \in revokedKeys
      PROVE  AccessInv'
  <2>1. /\ keys' \in [Key -> ApiKey \cup {NoKey}] /\ Issued' = Issued \cup {k}
        /\ keys'[k] = record /\ \A o \in Key \ {k} : keys'[o] = keys[o]
    BY <1>0, <1>9, WritingKeepsKeys
  <2>2. request' \in [ApiRequest -> RequestRow] /\ \A o \in ApiRequest : HoldsKeys(request'[o], Issued')
    BY <1>9, <2>1, RequestMoves DEF Goes
  <2>3. \A s \in Server : ServesKeys(server'[s], Issued')
    BY <1>0, <1>9, <2>1, MoreKeysDo
  <2>4. RevocationStays'
    BY <1>0, <1>9, <2>1 DEF RevocationStays
  <2> QED BY <1>0, <1>9, <2>1, <2>2, <2>3, <2>4 DEF AccessInv
<1>10. ASSUME NEW q \in ApiRequest, Touch(q)
       PROVE  AccessInv'
  <2>1. request[q].key \in Issued /\ request[q].copy \in ApiKey
        /\ (request[q].wants = "revoke" => request[q].target \in Issued)
    <3>1. HoldsKeys(request[q], Issued) /\ request[q].at = "known"
      BY <1>0, <1>10 DEF Touch
    <3> QED BY <3>1 DEF HoldsKeys
  <2>2. PICK k \in Issued, record \in ApiKey : k = request[q].key /\ record = Written(k, request[q].copy)
    BY <1>0, <2>1, WrittenIsAKey
  <2> DEFINE now == IF request[q].wants = "read" THEN Resting
                    ELSE [Resting EXCEPT !.at = request[q].wants, !.target = request[q].target]
  <2>3. Resting \in RequestRow /\ HoldsKeys(Resting, Issued)
    BY DEF Resting, RequestRow, AnyKey, HoldsKeys
  <2>4. now \in RequestRow /\ HoldsKeys(now, Issued)
    BY <1>0, <2>1, <2>3 DEF Resting, RequestRow, AnyKey, HoldsKeys
  <2>5. Goes(q, Resting) \/ Goes(q, now)
    BY <1>10 DEF Touch
  <2>6. PICK next \in {Resting, now} : Goes(q, next)
    BY <2>5
  <2>7. next \in RequestRow /\ HoldsKeys(next, Issued)
    BY <2>3, <2>4, <2>6
  <2> HIDE DEF now
  <2>8. CASE keys' = keys
    BY <2>6, <2>7, <2>8, <1>6, <1>10 DEF Touch
  <2>9. CASE keys' = [keys EXCEPT ![k] = record]
    <3>1. Issued \cup {k} = Issued /\ k \in Key
      BY <1>0, <2>2
    <3>2. (deployment.driver = "postgres" /\ k \in revokedKeys) => record.revoked
      BY <1>0, <2>1, <2>2, <3>1, WrittenIsAKey DEF RevocationStays
    <3>3. held' = held /\ revokedKeys' = revokedKeys /\ UNCHANGED <<deployment, server>>
      BY <1>10 DEF Touch
    <3> QED BY <1>0, <2>6, <2>7, <2>9, <3>1, <3>2, <3>3, <1>9
  <2>10. keys' = keys \/ keys' = [keys EXCEPT ![k] = record]
    BY <1>10, <2>2 DEF Touch
  <2> QED BY <2>8, <2>9, <2>10
<1>11. ASSUME NEW q \in ApiRequest, CreateKey(q)
       PROVE  AccessInv'
  <2>1. NewKey \in Key \ Issued
    BY <1>0, <1>11 DEF CreateKey, NewKey
  <2>2. PICK k \in Key \ Issued : k = NewKey
    BY <2>1
  <2>3. PICK role \in Role : keys' = [keys EXCEPT ![k] = [NoKey EXCEPT !.role = role]]
    BY <1>11, <2>2 DEF CreateKey
  <2>4. PICK record \in ApiKey : record = [NoKey EXCEPT !.role = role]
    BY <2>3 DEF NoKey, ApiKey
  <2>5. Resting \in RequestRow /\ HoldsKeys(Resting, Issued \cup {k})
    BY DEF Resting, RequestRow, AnyKey, HoldsKeys
  <2>6. Goes(q, Resting) /\ held' = held \union {k} /\ revokedKeys' = revokedKeys /\ UNCHANGED <<deployment, server>>
    BY <1>11, <2>2 DEF CreateKey
  <2>7. keys' = [keys EXCEPT ![k] = record]
    BY <2>3, <2>4
  <2> QED BY <1>0, <1>9, <2>2, <2>5, <2>6, <2>7
<1>12. ASSUME NEW q \in ApiRequest, SaveRevoked(q)
       PROVE  AccessInv'
  <2>1. request[q].target \in Issued /\ request[q].found \in ApiKey
    BY <1>0, <1>12 DEF SaveRevoked, HoldsKeys
  <2>2. [request[q].found EXCEPT !.revoked = TRUE] \in ApiKey /\ [request[q].found EXCEPT !.revoked = TRUE].revoked
    BY <2>1 DEF ApiKey
  <2>3. PICK k \in Issued, record \in ApiKey :
          /\ k = request[q].target
          /\ record = Written(k, [request[q].found EXCEPT !.revoked = TRUE]) /\ record.revoked
    BY <1>0, <2>1, <2>2, WrittenIsAKey
  <2>4. Resting \in RequestRow /\ HoldsKeys(Resting, Issued \cup {k})
    BY DEF Resting, RequestRow, AnyKey, HoldsKeys
  <2>5. /\ Goes(q, Resting) /\ keys' = [keys EXCEPT ![k] = record]
        /\ revokedKeys' = revokedKeys \union {k} /\ held' = held /\ UNCHANGED <<deployment, server>>
    BY <1>12, <2>3 DEF SaveRevoked
  <2> QED BY <1>0, <1>9, <2>3, <2>4, <2>5
<1> QED BY <1>2, <1>3, <1>4, <1>5, <1>7, <1>8, <1>10, <1>11, <1>12 DEF ApiAccessNext, RequestStep

\* A revocation that was answered holds under Postgres, whatever requests that
\* overlapped it write back, and a server that serves has a key in its store
\* (auth.ts: touch and bootstrap): for any servers, requests and keys.
THEOREM AccessIsKept == RecordsSpec => []AccessHolds
<1>1. RecordsInit => AccessInv
  BY AccessStarts DEF RecordsInit
<1>2. AccessInv /\ [RecordsNext]_recordsVars => AccessInv'
  <2> SUFFICES ASSUME AccessInv, [RecordsNext]_recordsVars PROVE AccessInv'
    OBVIOUS
  <2>1. ApiAccessNext \/ UNCHANGED ApiAccessVars
    BY StoresRest
  <2>2. CASE UNCHANGED ApiAccessVars
    BY <2>2 DEF AccessInv, ApiAccessVars, Issued, RevocationStays
  <2> QED BY <2>1, <2>2, AccessSteps
<1>3. AccessInv => AccessHolds
  <2> SUFFICES ASSUME AccessInv PROVE RevocationStays /\ ServingHasAKey
    BY DEF AccessHolds, Of
  <2> QED BY DEF AccessInv, ServesKeys, ServingHasAKey
<1> QED BY <1>1, <1>2, <1>3, PTL DEF RecordsSpec

-----------------------------------------------------------------------------
(* Agent definitions.  Written and parsed again, a definition loses the one    *)
(* value that the store leaves out, and nothing the second time.  So there is  *)
(* one set of definitions, of the author's and of the plain document, that all *)
(* memories, stored rows and executed runs draw from.                          *)

Kept == {Normalized(raw) : raw \in {document, PlainDocument}}

KeptText == {Serialize(d) : d \in Kept}

RawDocument == [memory : RawSection, tools : SUBSET ToolId, stated : SUBSET Stated,
                fallback : {NONE, "one", "list"}]

RegistryInv ==
  /\ document \in RawDocument
  /\ known \in [Process -> [Version -> Kept \cup {NONE}]]
  /\ writing \in [Process -> SUBSET Version]
  /\ \A p \in Process : \A v \in writing[p] : known[p][v] \in Kept
  /\ shelf \in [Version -> {NONE} \cup [raw : KeptText, at : {Cardinality(some) : some \in SUBSET Version}]]
  /\ loading \in [Process -> {NONE} \cup [version : Version, raw : KeptText]]
  /\ handed \in [Version -> SUBSET Kept]

\* A definition that is written and parsed again: the tools' families are
\* expanded, one value is left out, the rest is as it was.
LEMMA ReadingBack ==
  ASSUME NEW on \in BOOLEAN, NEW set \in BOOLEAN, NEW uses, NEW says, NEW falls \in BOOLEAN
  PROVE  Parse(Serialize([memory |-> [enabled |-> on, setting |-> set], tools |-> uses,
                          stated |-> says, fallback |-> falls]))
           = [memory |-> [enabled |-> on, setting |-> set], tools |-> ExpandToolFamilies(uses),
              stated |-> says \ {"allow_unisolated"}, fallback |-> falls]
<1> DEFINE definition == [memory |-> [enabled |-> on, setting |-> set], tools |-> uses,
                          stated |-> says, fallback |-> falls]
           stored == Serialize(definition)
<1>1. /\ stored.memory.form = "mapping" /\ stored.memory.setting = set
      /\ stored.memory.enabled = (IF on THEN "yes" ELSE "no")
      /\ stored.tools = uses /\ stored.stated = says \ {"allow_unisolated"}
      /\ stored.fallback = (IF falls THEN "list" ELSE NONE)
  BY DEF Serialize
<1> HIDE DEF stored
<1>2. (stored.memory.enabled # "no") = on
  <2>1. CASE on
    BY <1>1, <2>1
  <2>2. CASE ~on
    BY <1>1, <2>2
  <2> QED BY <2>1, <2>2
<1>3. (stored.memory.form = "mapping" /\ stored.memory.setting) = set
  <2>1. CASE set
    BY <1>1, <2>1
  <2>2. CASE ~set
    BY <1>1, <2>2
  <2> QED BY <2>1, <2>2
<1>4. (stored.fallback # NONE) = falls
  <2>1. CASE falls
    BY <1>1, <2>1, AgentRegistryAssumption
  <2>2. CASE ~falls
    BY <1>1, <2>2
  <2> QED BY <2>1, <2>2
<1>5. ToggleOf(stored.memory) = [enabled |-> on, setting |-> set]
  BY <1>2, <1>3 DEF ToggleOf
<1>6. Parse(stored) = [memory |-> [enabled |-> on, setting |-> set], tools |-> ExpandToolFamilies(uses),
                       stated |-> says \ {"allow_unisolated"}, fallback |-> falls]
  BY <1>1, <1>4, <1>5 DEF Parse
<1> QED BY <1>6 DEF stored

LEMMA ExpandedStays ==
  ASSUME NEW ids PROVE ExpandToolFamilies(ExpandToolFamilies(ids)) = ExpandToolFamilies(ids)
BY DEF ExpandToolFamilies

\* What is registered states what the document states, but for the one value,
\* and is what the store gives back.
LEMMA NormalizedIsReloadable ==
  ASSUME NEW raw \in RawDocument
  PROVE  /\ Normalized(raw) = [Parse(raw) EXCEPT !.stated = @ \ {"allow_unisolated"}]
         /\ Parse(Serialize(Normalized(raw))) = Normalized(raw)
<1>1. PICK on \in BOOLEAN, set \in BOOLEAN, falls \in BOOLEAN :
        /\ on = (raw.memory.enabled # "no")
        /\ set = (raw.memory.form = "mapping" /\ raw.memory.setting)
        /\ falls = (raw.fallback # NONE)
  BY DEF RawDocument, RawSection
<1>2. Parse(raw) = [memory |-> [enabled |-> on, setting |-> set], tools |-> ExpandToolFamilies(raw.tools),
                    stated |-> raw.stated, fallback |-> falls]
  BY <1>1 DEF Parse, ToggleOf
<1>3. Normalized(raw) = [memory |-> [enabled |-> on, setting |-> set], tools |-> ExpandToolFamilies(raw.tools),
                         stated |-> raw.stated \ {"allow_unisolated"}, fallback |-> falls]
  BY <1>2, ReadingBack, ExpandedStays DEF Normalized
<1>4. (raw.stated \ {"allow_unisolated"}) \ {"allow_unisolated"} = raw.stated \ {"allow_unisolated"}
  OBVIOUS
<1>5. Parse(Serialize(Normalized(raw))) = Normalized(raw)
  BY <1>3, <1>4, ReadingBack, ExpandedStays
<1>6. Normalized(raw) = [Parse(raw) EXCEPT !.stated = @ \ {"allow_unisolated"}]
  BY <1>2, <1>3
<1> QED BY <1>5, <1>6

LEMMA PlainIsADocument == PlainDocument \in RawDocument
BY DEF PlainDocument, RawDocument, Switch, RawSection

LEMMA KeptIsReloadable ==
  ASSUME document \in RawDocument, NEW d \in Kept
  PROVE  Parse(Serialize(d)) = d
BY NormalizedIsReloadable, PlainIsADocument DEF Kept

LEMMA RegistryStarts ==
  ASSUME NEW raw \in MCDocuments, AgentRegistryInit(raw)
  PROVE  RegistryInv
<1>1. raw \in RawDocument
  <2>1. CASE raw = PlainDocument
    BY <2>1, PlainIsADocument
  <2>2. CASE raw = OptionsToRaw(TRUE, Stated)
    BY <2>2 DEF OptionsToRaw, RawDocument, RawSection, Switch, ToolId
  <2>3. CASE raw = [PlainDocument EXCEPT !.tools = {"filesystem"}, !.fallback = "one"]
    BY <2>3 DEF PlainDocument, RawDocument, RawSection, Switch, ToolId
  <2>4. CASE raw = [PlainDocument EXCEPT !.memory = [form |-> "mapping", enabled |-> "unsaid", setting |-> TRUE]]
    BY <2>4 DEF PlainDocument, RawDocument, RawSection, Switch, ToolId
  <2>5. CASE raw = [PlainDocument EXCEPT !.memory = [form |-> "mapping", enabled |-> "no", setting |-> TRUE]]
    BY <2>5 DEF PlainDocument, RawDocument, RawSection, Switch, ToolId
  <2>6. CASE raw = [PlainDocument EXCEPT !.memory = [form |-> "boolean", enabled |-> "unsaid", setting |-> FALSE],
                                         !.tools = ToolId, !.fallback = "list"]
    BY <2>6 DEF PlainDocument, RawDocument, RawSection, Switch, ToolId
  <2> QED BY <2>1, <2>2, <2>3, <2>4, <2>5, <2>6 DEF MCDocuments
<1> QED BY <1>1 DEF AgentRegistryInit, RegistryInv

LEMMA RegistrySteps ==
  ASSUME RegistryInv, AgentRegistryNext
  PROVE  RegistryInv'
<1>0. /\ document \in RawDocument
      /\ known \in [Process -> [Version -> Kept \cup {NONE}]]
      /\ writing \in [Process -> SUBSET Version]
      /\ \A p \in Process : \A v \in writing[p] : known[p][v] \in Kept
      /\ shelf \in [Version -> {NONE} \cup [raw : KeptText, at : {Cardinality(some) : some \in SUBSET Version}]]
      /\ loading \in [Process -> {NONE} \cup [version : Version, raw : KeptText]]
      /\ handed \in [Version -> SUBSET Kept]
  BY DEF RegistryInv
<1>1. document' = document /\ Kept' = Kept /\ KeptText' = KeptText
  <2>1. document' = document
    BY DEF AgentRegistryNext, ReadLatest, EndLoad, RestartRegistry, Register, SaveDefinition, UseKnown, ReadShelf
  <2>2. Kept' = Kept
    BY <2>1 DEF Kept
  <2> QED BY <2>1, <2>2 DEF KeptText
<1>2. \A d \in Kept : Serialize(d) \in KeptText
  BY DEF KeptText
<1>3. ASSUME NEW p \in Process, ReadLatest(p) PROVE RegistryInv'
  <2>1. PICK v \in Version : shelf[v] # NONE /\ loading' = [loading EXCEPT ![p] = [version |-> v, raw |-> shelf[v].raw]]
    BY <1>3 DEF ReadLatest
  <2>2. [version |-> v, raw |-> shelf[v].raw] \in [version : Version, raw : KeptText]
    BY <1>0, <2>1
  <2>3. loading' \in [Process -> {NONE} \cup [version : Version, raw : KeptText]]
    BY <1>0, <2>1, <2>2
  <2> QED BY <1>0, <1>1, <1>3, <2>3 DEF ReadLatest, RegistryInv
<1>4. ASSUME NEW p \in Process, EndLoad(p) PROVE RegistryInv'
  <2>1. PICK v \in Version, d \in Kept : v = loading[p].version /\ loading[p].raw = Serialize(d)
    BY <1>0, <1>4 DEF EndLoad, KeptText
  <2>2. Parse(loading[p].raw) = d
    BY <1>0, <2>1, KeptIsReloadable
  <2>3. /\ known' = [known EXCEPT ![p][v] = d]
        /\ handed' = [handed EXCEPT ![v] = @ \cup {d}]
        /\ loading' = [loading EXCEPT ![p] = NONE]
        /\ writing' = writing /\ shelf' = shelf
    BY <1>4, <2>1, <2>2 DEF EndLoad
  <2>4. known' \in [Process -> [Version -> Kept \cup {NONE}]]
    BY <1>0, <2>3
  <2>5. handed' \in [Version -> SUBSET Kept]
    BY <1>0, <2>3
  <2>6. \A q \in Process : \A u \in writing'[q] : known'[q][u] \in Kept
    BY <1>0, <2>3
  <2>7. loading' \in [Process -> {NONE} \cup [version : Version, raw : KeptText]]
    BY <1>0, <2>3
  <2> QED BY <1>0, <1>1, <2>3, <2>4, <2>5, <2>6, <2>7 DEF RegistryInv
<1>5. ASSUME NEW p \in Process, RestartRegistry(p) PROVE RegistryInv'
  <2>1. /\ known' = [known EXCEPT ![p] = [v \in Version |-> NONE]]
        /\ writing' = [writing EXCEPT ![p] = {}] /\ loading' = [loading EXCEPT ![p] = NONE]
        /\ shelf' = shelf /\ handed' = handed
    BY <1>5 DEF RestartRegistry
  <2>2. known' \in [Process -> [Version -> Kept \cup {NONE}]]
    BY <1>0, <2>1
  <2>3. writing' \in [Process -> SUBSET Version]
    BY <1>0, <2>1
  <2>4. \A q \in Process : \A u \in writing'[q] : known'[q][u] \in Kept
    BY <1>0, <2>1
  <2>5. loading' \in [Process -> {NONE} \cup [version : Version, raw : KeptText]]
    BY <1>0, <2>1
  <2> QED BY <1>0, <1>1, <2>1, <2>2, <2>3, <2>4, <2>5 DEF RegistryInv
<1>6. ASSUME NEW p \in Process, NEW v \in Version, NEW raw \in {document, PlainDocument}, Register(p, v, raw)
      PROVE  RegistryInv'
  <2>1. Normalized(raw) \in Kept
    BY DEF Kept
  <2>2. PICK d \in Kept : d = Normalized(raw)
    BY <2>1
  <2>3. /\ known' = [known EXCEPT ![p][v] = d] /\ writing' = [writing EXCEPT ![p] = @ \cup {v}]
        /\ loading' = loading /\ shelf' = shelf /\ handed' = handed
    BY <1>6, <2>2 DEF Register
  <2>4. known' \in [Process -> [Version -> Kept \cup {NONE}]]
    BY <1>0, <2>3
  <2>5. writing' \in [Process -> SUBSET Version]
    BY <1>0, <2>3
  <2>6. \A q \in Process : \A u \in writing'[q] : known'[q][u] \in Kept
    BY <1>0, <2>3
  <2> QED BY <1>0, <1>1, <2>3, <2>4, <2>5, <2>6 DEF RegistryInv
<1>7. ASSUME NEW p \in Process, NEW v \in Version, SaveDefinition(p, v)
      PROVE  RegistryInv'
  <2> DEFINE row == [raw |-> Serialize(known[p][v]), at |-> WrittenAt]
  <2>1. row \in [raw : KeptText, at : {Cardinality(some) : some \in SUBSET Version}]
    BY <1>0, <1>2, <1>7 DEF SaveDefinition, WrittenAt
  <2>2. shelf' = [shelf EXCEPT ![v] = row] \/ shelf' = shelf
    BY <1>7 DEF SaveDefinition
  <2> HIDE DEF row
  <2>3. shelf' \in [Version -> {NONE} \cup [raw : KeptText, at : {Cardinality(some) : some \in SUBSET Version}]]
    BY <1>0, <2>1, <2>2
  <2>4. writing' = [writing EXCEPT ![p] = @ \ {v}] /\ known' = known /\ loading' = loading /\ handed' = handed
    BY <1>7 DEF SaveDefinition
  <2>5. writing' \in [Process -> SUBSET Version] /\ \A q \in Process : writing'[q] \subseteq writing[q]
    BY <1>0, <2>4
  <2> QED BY <1>0, <1>1, <2>3, <2>4, <2>5 DEF RegistryInv
<1>8. ASSUME NEW p \in Process, NEW v \in Version, UseKnown(p, v)
      PROVE  RegistryInv'
  <2>1. known[p][v] \in Kept
    BY <1>0, <1>8 DEF UseKnown
  <2>2. handed' \in [Version -> SUBSET Kept]
    BY <1>0, <1>8, <2>1 DEF UseKnown
  <2> QED BY <1>0, <1>1, <1>8, <2>2 DEF UseKnown, RegistryInv
<1>9. ASSUME NEW p \in Process, NEW v \in Version, ReadShelf(p, v)
      PROVE  RegistryInv'
  <2>1. [version |-> v, raw |-> shelf[v].raw] \in [version : Version, raw : KeptText]
    BY <1>0, <1>9 DEF ReadShelf
  <2>2. loading' \in [Process -> {NONE} \cup [version : Version, raw : KeptText]]
    BY <1>0, <1>9, <2>1 DEF ReadShelf
  <2> QED BY <1>0, <1>1, <1>9, <2>2 DEF ReadShelf, RegistryInv
<1> QED BY <1>3, <1>4, <1>5, <1>6, <1>7, <1>8, <1>9 DEF AgentRegistryNext

\* A definition is the author's, before and after the store: what a process
\* remembers is what it would read back, and what runs were executed with states
\* what was written, but for the value the store leaves out (registry.ts).
THEOREM DefinitionsStay == RecordsSpec => []DefinitionsAreKept
<1>1. RecordsInit => RegistryInv
  BY RegistryStarts DEF RecordsInit
<1>2. RegistryInv /\ [RecordsNext]_recordsVars => RegistryInv'
  <2> SUFFICES ASSUME RegistryInv, [RecordsNext]_recordsVars PROVE RegistryInv'
    OBVIOUS
  <2>1. AgentRegistryNext \/ UNCHANGED AgentRegistryVars
    BY StoresRest
  <2>2. CASE UNCHANGED AgentRegistryVars
    BY <2>2 DEF RegistryInv, AgentRegistryVars, Kept, KeptText
  <2> QED BY <2>1, <2>2, RegistrySteps
<1>3. RegistryInv => DefinitionsAreKept
  <2> SUFFICES ASSUME RegistryInv PROVE RememberedIsReloadable /\ RegisteredIsAsWritten
    BY DEF DefinitionsAreKept, Of
  <2>1. RememberedIsReloadable
    <3> SUFFICES ASSUME NEW p \in Process, NEW v \in Version, known[p][v] # NONE
                 PROVE  Parse(Serialize(known[p][v])) = known[p][v]
      BY DEF RememberedIsReloadable
    <3>1. known[p][v] \in Kept
      BY DEF RegistryInv
    <3> QED BY <3>1, KeptIsReloadable DEF RegistryInv
  <2>2. RegisteredIsAsWritten
    <3> SUFFICES ASSUME NEW v \in Version, NEW used \in handed[v]
                 PROVE  \E raw \in {document, PlainDocument} :
                          used = [Parse(raw) EXCEPT !.stated = @ \ {"allow_unisolated"}]
      BY DEF RegisteredIsAsWritten
    <3>1. used \in Kept
      BY DEF RegistryInv
    <3>2. PICK raw \in {document, PlainDocument} : used = Normalized(raw)
      BY <3>1 DEF Kept
    <3>3. raw \in RawDocument
      BY <3>2, PlainIsADocument DEF RegistryInv
    <3> QED BY <3>2, <3>3, NormalizedIsReloadable
  <2> QED BY <2>1, <2>2
<1> QED BY <1>1, <1>2, <1>3, PTL DEF RecordsSpec

-----------------------------------------------------------------------------
(* Checkpoints.  Two makers read what to delete and delete it later, while the *)
(* other one saves and deletes too.  Nothing is lost because of what stands    *)
(* above each doomed checkpoint: enough newer ones, and a labelled one if it   *)
(* is labelled itself.  A delete that takes one of those away leaves the ones  *)
(* that stand above it, and a checkpoint that is new is on nobody's list.      *)

NewerThan(set, c) == {d \in set : d.sequence > c.sequence \/ (d.sequence = c.sequence /\ d.id > c.id)}

KeptRow == [id : Nat, run : {"run", "other"}, sequence : Nat, progress : Nat, files : Nat, labelled : BOOLEAN]
MakerRow == [at : {"unused", "idle", "capturing", "saving", "pruning", "deleting"}, sequence : Nat,
             progress : Nat, files : Nat, labelled : BOOLEAN, doomed : SUBSET KeptRow]

StandsBelow(set, c) ==
  /\ Cardinality(NewerThan(set, c)) >= Retain
  /\ c.labelled => \E d \in NewerThan(set, c) : d.labelled

KeepsTypes ==
  /\ progress \in Nat /\ workspace \in Nat /\ madeTotal \in Nat
  /\ checkpoints \in SUBSET KeptRow /\ IsFiniteSet(checkpoints)
  /\ making \in [Maker -> MakerRow]
  /\ restoreCall \in [at : {"unused", "none", "restored", "refused", "done"}, from : KeptRow]

NumbersAreOwn ==
  /\ \A c \in Own : c.id <= madeTotal
  /\ \A c, d \in Own : c.id = d.id => c = d
  /\ \A m \in Maker : \A c \in making[m].doomed : c.id <= madeTotal

EnoughAreKept == Cardinality(Own) >= Retain \/ Cardinality(Own) >= madeTotal

PruneIsUnderWay ==
  \E m \in Maker : making[m].at = "pruning" \/ Cardinality(Own \ making[m].doomed) <= 2 * Retain

CheckpointsInv ==
  /\ KeepsTypes /\ NumbersAreOwn /\ EnoughAreKept /\ PruneIsUnderWay
  /\ \A m \in Maker : \A c \in making[m].doomed \cap Own : StandsBelow(Own, c)

\* Standing above is transitive, and a checkpoint does not stand above itself.
LEMMA AboveIsTransitive ==
  ASSUME NEW set \in SUBSET KeptRow, NEW x \in set, NEW c \in set, x \in NewerThan(set, c)
  PROVE  /\ NewerThan(set, x) \subseteq NewerThan(set, c)
         /\ x \notin NewerThan(set, x)
<1>1. x.sequence \in Nat /\ x.id \in Nat /\ c.sequence \in Nat /\ c.id \in Nat
  BY DEF KeptRow
<1>2. x.sequence > c.sequence \/ (x.sequence = c.sequence /\ x.id > c.id)
  BY DEF NewerThan
<1>3. ASSUME NEW d \in NewerThan(set, x) PROVE d \in NewerThan(set, c)
  <2>1. /\ d \in set /\ d.sequence \in Nat /\ d.id \in Nat
        /\ d.sequence > x.sequence \/ (d.sequence = x.sequence /\ d.id > x.id)
    BY <1>3 DEF NewerThan, KeptRow
  <2> QED BY <1>1, <1>2, <2>1 DEF NewerThan
<1>4. x \notin NewerThan(set, x)
  BY <1>1 DEF NewerThan
<1> QED BY <1>3, <1>4

\* Of some checkpoints with numbers of their own there is an oldest one.
LEMMA OldestOf ==
  ASSUME NEW some \in SUBSET KeptRow, some # {}, \A c, d \in some : c.id = d.id => c = d
  PROVE  \E c \in some : \A d \in some \ {c} : d \in NewerThan(some, c)
<1>1. \A c \in some : c.sequence \in Nat /\ c.id \in Nat
  BY DEF KeptRow
<1>2. PICK low \in {c.sequence : c \in some} : \A j \in {c.sequence : c \in some} : low <= j
  <2>1. {c.sequence : c \in some} \in SUBSET Nat /\ {c.sequence : c \in some} # {}
    BY <1>1
  <2> QED BY <2>1, LeastOf
<1> DEFINE lowest == {c \in some : c.sequence = low}
<1>3. PICK least \in {c.id : c \in lowest} : \A j \in {c.id : c \in lowest} : least <= j
  <2>1. {c.id : c \in lowest} \in SUBSET Nat /\ {c.id : c \in lowest} # {}
    BY <1>1, <1>2
  <2> QED BY <2>1, LeastOf
<1>4. PICK c \in lowest : c.id = least
  BY <1>3
<1>5. ASSUME NEW d \in some \ {c} PROVE d \in NewerThan(some, c)
  <2>1. c \in some /\ c.sequence = low /\ c.id = least /\ c.id \in Nat /\ low \in Nat
    BY <1>1, <1>4
  <2>2. d.sequence \in Nat /\ d.id \in Nat /\ low <= d.sequence
    BY <1>1, <1>2
  <2>3. d.id # c.id
    BY <2>1
  <2>4. CASE d.sequence = low
    <3>1. least <= d.id
      BY <1>3, <2>4
    <3> QED BY <2>1, <2>2, <2>3, <2>4, <3>1 DEF NewerThan
  <2>5. CASE d.sequence # low
    BY <2>1, <2>2, <2>5 DEF NewerThan
  <2> QED BY <2>4, <2>5
<1> QED BY <1>4, <1>5

\* The newest n of a set are at most n.
LEMMA NewestAreFew ==
  ASSUME NEW set \in SUBSET KeptRow, IsFiniteSet(set), NEW n \in Nat,
         \A c, d \in set : c.id = d.id => c = d
  PROVE  /\ IsFiniteSet(NewestOf(set, n))
         /\ Cardinality(NewestOf(set, n)) \in Nat /\ Cardinality(NewestOf(set, n)) <= n
<1> DEFINE newest == NewestOf(set, n)
<1>1. newest \subseteq set /\ IsFiniteSet(newest) /\ Cardinality(newest) \in Nat
  BY FS_Subset, FS_CardinalityType DEF NewestOf
<1>2. CASE newest = {}
  BY <1>1, <1>2, FS_EmptySet
<1>3. CASE newest # {}
  <2>1. PICK c \in newest : \A d \in newest \ {c} : d \in NewerThan(newest, c)
    BY <1>1, <1>3, OldestOf
  <2>2. newest \ {c} \subseteq NewerThan(set, c)
    BY <1>1, <2>1 DEF NewerThan
  <2>3. Cardinality(NewerThan(set, c)) < n
    BY <2>1 DEF NewestOf, NewerThan
  <2>4. NewerThan(set, c) \subseteq set
    BY DEF NewerThan
  <2>5. IsFiniteSet(NewerThan(set, c)) /\ Cardinality(NewerThan(set, c)) \in Nat
    BY <2>4, FS_Subset, FS_CardinalityType
  <2>6. Cardinality(newest \ {c}) <= Cardinality(NewerThan(set, c))
    BY <2>2, <2>5, FS_Subset
  <2>7. Cardinality(newest \ {c}) = Cardinality(newest) - 1
    BY <1>1, <2>1, FS_RemoveElement
  <2> HIDE DEF newest
  <2>8. Cardinality(newest) <= n
    BY <1>1, <2>3, <2>5, <2>6, <2>7
  <2> QED BY <1>1, <2>8 DEF newest
<1> QED BY <1>2, <1>3

\* What a prune keeps is the window and as many labelled ones.
LEMMA KeepIsFew ==
  ASSUME NEW set \in SUBSET KeptRow, IsFiniteSet(set), \A c, d \in set : c.id = d.id => c = d
  PROVE  /\ IsFiniteSet(Keep(set)) /\ Keep(set) \subseteq set
         /\ Cardinality(Keep(set)) <= 2 * Retain
<1> DEFINE window == NewestOf(set, Retain)
           beyond == {c \in set \ window : c.labelled}
           marked == NewestOf(beyond, Retain)
<1>1. Retain \in Nat
  BY CheckpointsAssumption
<1>2. beyond \subseteq set /\ IsFiniteSet(beyond)
  BY FS_Subset
<1>3. window \subseteq set /\ marked \subseteq set
  BY DEF NewestOf
<1>4. IsFiniteSet(window) /\ Cardinality(window) \in Nat /\ Cardinality(window) <= Retain
  BY <1>1, NewestAreFew
<1>5. IsFiniteSet(marked) /\ Cardinality(marked) \in Nat /\ Cardinality(marked) <= Retain
  <2> HIDE DEF beyond
  <2>1. beyond \in SUBSET KeptRow /\ \A c, d \in beyond : c.id = d.id => c = d
    BY <1>2
  <2> QED BY <1>1, <1>2, <2>1, NewestAreFew
<1>6. Keep(set) = window \cup marked
  BY DEF Keep
<1> HIDE DEF window, marked, beyond
<1>7. IsFiniteSet(window \cup marked) /\ Cardinality(window \cup marked) \in Nat
      /\ Cardinality(window \cup marked) <= Cardinality(window) + Cardinality(marked)
  <2>1. IsFiniteSet(window \cup marked) /\ IsFiniteSet(window \cap marked)
        /\ Cardinality(window \cup marked) = Cardinality(window) + Cardinality(marked) - Cardinality(window \cap marked)
    BY <1>4, <1>5, FS_Union, FS_Intersection
  <2>2. Cardinality(window \cap marked) \in Nat /\ Cardinality(window \cup marked) \in Nat
    BY <2>1, FS_CardinalityType
  <2> QED BY <1>4, <1>5, <2>1, <2>2
<1> QED BY <1>1, <1>3, <1>4, <1>5, <1>6, <1>7

\* What a prune does not keep stands below enough newer ones.
LEMMA DoomedStandBelow ==
  ASSUME KeepsTypes, NEW c \in Own \ Keep(Own)
  PROVE  StandsBelow(Own, c)
<1>1. IsFiniteSet(Own) /\ Retain \in Nat \ {0}
  BY FS_Subset, CheckpointsAssumption DEF KeepsTypes, Own
<1> DEFINE window == NewestOf(Own, Retain)
           beyond == {d \in Own \ window : d.labelled}
<1>2. c \in Own /\ c \notin window /\ c \notin NewestOf(beyond, Retain)
  BY DEF Keep
<1>3. ~(Cardinality(NewerThan(Own, c)) < Retain)
  BY <1>2 DEF NewestOf, NewerThan
<1>4. IsFiniteSet(NewerThan(Own, c)) /\ Cardinality(NewerThan(Own, c)) \in Nat
  <2>1. NewerThan(Own, c) \subseteq Own
    BY DEF NewerThan
  <2> QED BY <1>1, <2>1, FS_Subset, FS_CardinalityType
<1>5. ASSUME c.labelled PROVE \E d \in NewerThan(Own, c) : d.labelled
  <2>1. c \in beyond
    BY <1>2, <1>5
  <2>2. ~(Cardinality(NewerThan(beyond, c)) < Retain)
    <3> HIDE DEF beyond
    <3> QED BY <1>2, <2>1 DEF NewestOf, NewerThan
  <2>3. NewerThan(beyond, c) # {}
    <3> DEFINE above == NewerThan(beyond, c)
    <3>1. ~(Cardinality(above) < Retain)
      BY <2>2
    <3> HIDE DEF above
    <3>2. above # {}
      BY <1>1, <3>1, FS_EmptySet
    <3> QED BY <3>2 DEF above
  <2>4. PICK d \in NewerThan(beyond, c) : TRUE
    BY <2>3
  <2> QED BY <2>4 DEF NewerThan
<1> QED BY <1>1, <1>3, <1>4, <1>5 DEF StandsBelow

LEMMA AboveIsFinite ==
  ASSUME NEW set, IsFiniteSet(set), NEW c
  PROVE  /\ IsFiniteSet(NewerThan(set, c)) /\ Cardinality(NewerThan(set, c)) \in Nat
         /\ NewerThan(set, c) \subseteq set
<1>1. NewerThan(set, c) \subseteq set
  BY DEF NewerThan
<1> QED BY <1>1, FS_Subset, FS_CardinalityType

\* A checkpoint that is added takes none from above another.
LEMMA StandsAmongMore ==
  ASSUME NEW set, NEW more, set \subseteq more, IsFiniteSet(more), NEW c, StandsBelow(set, c)
  PROVE  StandsBelow(more, c)
<1>1. NewerThan(set, c) \subseteq NewerThan(more, c)
  BY DEF NewerThan
<1>2. IsFiniteSet(NewerThan(more, c)) /\ Cardinality(NewerThan(more, c)) \in Nat
  BY AboveIsFinite
<1>3. /\ Cardinality(NewerThan(set, c)) \in Nat
      /\ Cardinality(NewerThan(set, c)) <= Cardinality(NewerThan(more, c))
  BY <1>1, <1>2, FS_Subset, FS_CardinalityType
<1>4. Retain \in Nat
  BY CheckpointsAssumption
<1> QED BY <1>1, <1>2, <1>3, <1>4 DEF StandsBelow

\* One that has enough above it is deleted: it was not the newest, as many as
\* the policy keeps are left, and the others still have enough above them.
LEMMA StandsAfterDelete ==
  ASSUME NEW set \in SUBSET KeptRow, IsFiniteSet(set), NEW x \in set, StandsBelow(set, x)
  PROVE  /\ Cardinality(set \ {x}) >= Retain
         /\ \E d \in set \ {x} : d.sequence >= x.sequence
         /\ x.labelled => \E d \in set \ {x} : d.labelled
         /\ \A c \in set \ {x} : StandsBelow(set, c) => StandsBelow(set \ {x}, c)
<1>0. Retain \in Nat \ {0} /\ IsFiniteSet(set \ {x}) /\ Cardinality(set \ {x}) \in Nat
  BY CheckpointsAssumption, FS_Subset, FS_CardinalityType
<1>1. NewerThan(set, x) \subseteq set \ {x}
  BY DEF NewerThan, KeptRow
<1>2. IsFiniteSet(NewerThan(set, x)) /\ Cardinality(NewerThan(set, x)) \in Nat
  BY AboveIsFinite
<1>3. Cardinality(NewerThan(set, x)) >= Retain
  BY DEF StandsBelow
<1>4. Cardinality(NewerThan(set, x)) <= Cardinality(set \ {x})
  BY <1>0, <1>1, FS_Subset
<1>5. \E d \in set \ {x} : d.sequence >= x.sequence
  <2>1. NewerThan(set, x) # {}
    BY <1>0, <1>3, FS_EmptySet
  <2>2. PICK d \in NewerThan(set, x) : TRUE
    BY <2>1
  <2>3. d \in set \ {x} /\ d.sequence \in Nat /\ x.sequence \in Nat
    BY <1>1, <2>2 DEF KeptRow
  <2> QED BY <2>2, <2>3 DEF NewerThan
<1>6. x.labelled => \E d \in set \ {x} : d.labelled
  BY <1>1 DEF StandsBelow
<1>7. ASSUME NEW c \in set \ {x}, StandsBelow(set, c) PROVE StandsBelow(set \ {x}, c)
  <2>1. NewerThan(set \ {x}, c) = NewerThan(set, c) \ {x}
    BY DEF NewerThan
  <2>2. CASE x \notin NewerThan(set, c)
    <3>1. NewerThan(set \ {x}, c) = NewerThan(set, c)
      BY <2>1, <2>2
    <3> QED BY <3>1, <1>7 DEF StandsBelow
  <2>3. CASE x \in NewerThan(set, c)
    <3>1. NewerThan(set, x) \subseteq NewerThan(set \ {x}, c)
      BY <2>1, <2>3, AboveIsTransitive
    <3>2. IsFiniteSet(NewerThan(set \ {x}, c)) /\ Cardinality(NewerThan(set \ {x}, c)) \in Nat
      BY <1>0, AboveIsFinite
    <3>3. Cardinality(NewerThan(set \ {x}, c)) >= Retain
      <4>1. Cardinality(NewerThan(set, x)) <= Cardinality(NewerThan(set \ {x}, c))
        BY <3>1, <3>2, FS_Subset
      <4> QED BY <1>0, <1>2, <1>3, <3>2, <4>1
    <3>4. ASSUME c.labelled PROVE \E d \in NewerThan(set \ {x}, c) : d.labelled
      <4>1. PICK d \in NewerThan(set, c) : d.labelled
        BY <1>7, <3>4 DEF StandsBelow
      <4>2. CASE d # x
        BY <2>1, <4>1, <4>2
      <4>3. CASE d = x
        BY <3>1, <4>1, <4>3 DEF StandsBelow
      <4> QED BY <4>2, <4>3
    <3> QED BY <3>3, <3>4 DEF StandsBelow
  <2> QED BY <2>2, <2>3
<1> QED BY <1>0, <1>2, <1>3, <1>4, <1>5, <1>6, <1>7

\* The next one that a maker deletes is on its list.
LEMMA NextIsDoomed ==
  ASSUME NEW doomed \in SUBSET KeptRow, doomed # {}
  PROVE  (CHOOSE c \in doomed : \A d \in doomed : c.id <= d.id) \in doomed
<1>1. {c.id : c \in doomed} \in SUBSET Nat /\ {c.id : c \in doomed} # {}
  BY DEF KeptRow
<1>2. PICK least \in {c.id : c \in doomed} : \A j \in {c.id : c \in doomed} : least <= j
  BY <1>1, LeastOf
<1>3. \E c \in doomed : \A d \in doomed : c.id <= d.id
  BY <1>2
<1> QED BY <1>3

\* A step that saves and deletes nothing, starts no list of its own and leaves
\* no prune that was due.
LEMMA NothingIsKeptOrLost ==
  ASSUME CheckpointsInv, KeepsTypes', checkpoints' = checkpoints, madeTotal' = madeTotal,
         \A m \in Maker : /\ making'[m].doomed = making[m].doomed
                          /\ making[m].at = "pruning" => making'[m].at = "pruning"
  PROVE  CheckpointsInv'
<1>1. Own' = Own
  BY DEF Own
<1>2. PruneIsUnderWay'
  BY <1>1 DEF CheckpointsInv, PruneIsUnderWay
<1>3. NumbersAreOwn'
  BY <1>1 DEF CheckpointsInv, NumbersAreOwn
<1>4. EnoughAreKept'
  BY <1>1 DEF CheckpointsInv, EnoughAreKept
<1>5. \A m \in Maker : \A c \in making'[m].doomed \cap Own' : StandsBelow(Own', c)
  BY <1>1 DEF CheckpointsInv
<1> QED BY <1>2, <1>3, <1>4, <1>5 DEF CheckpointsInv

\* One maker has moved, with its list as it was.
LEMMA MakerMoves ==
  ASSUME CheckpointsInv, NEW m \in Maker, NEW now \in MakerRow, making' = [making EXCEPT ![m] = now],
         now.doomed = making[m].doomed, making[m].at # "pruning",
         UNCHANGED <<progress, workspace, checkpoints, madeTotal, restoreCall>>
  PROVE  CheckpointsInv'
<1>1. KeepsTypes'
  BY DEF CheckpointsInv, KeepsTypes
<1>2. \A o \in Maker : /\ making'[o].doomed = making[o].doomed
                       /\ making[o].at = "pruning" => making'[o].at = "pruning"
  BY DEF CheckpointsInv, KeepsTypes
<1> QED BY <1>1, <1>2, NothingIsKeptOrLost

\* Of one run's checkpoints no more are there than of all.
LEMMA OwnIsFinite ==
  ASSUME KeepsTypes
  PROVE  /\ Own \in SUBSET KeptRow /\ IsFiniteSet(Own) /\ Cardinality(Own) \in Nat
BY FS_Subset, FS_CardinalityType DEF KeepsTypes, Own

LEMMA CheckpointsStart ==
  ASSUME NEW second \in {"maker", "operator"}, CheckpointsInit(second)
  PROVE  CheckpointsInv
<1>1. KeepsTypes
  <2>1. NoCheckpoint \in KeptRow
    BY DEF NoCheckpoint, KeptRow
  <2>2. making \in [Maker -> MakerRow]
    <3>1. \A m \in Maker : [IdleMaker EXCEPT !.at = IF m = "manual" /\ second # "maker"
                                                     THEN "unused" ELSE "idle"] \in MakerRow
      BY DEF IdleMaker, MakerRow
    <3> QED BY <3>1 DEF CheckpointsInit
  <2>3. restoreCall \in [at : {"unused", "none", "restored", "refused", "done"}, from : KeptRow]
    BY <2>1 DEF CheckpointsInit
  <2>4. checkpoints = {NoCheckpoint} /\ IsFiniteSet(checkpoints)
    BY FS_Singleton DEF CheckpointsInit
  <2> QED BY <2>1, <2>2, <2>3, <2>4 DEF CheckpointsInit, KeepsTypes
<1>2. Own = {} /\ madeTotal = 0 /\ \A m \in Maker : making[m].doomed = {}
  BY DEF CheckpointsInit, Own, NoCheckpoint, IdleMaker
<1>3. Cardinality(Own) = 0 /\ Retain \in Nat
  BY <1>2, FS_EmptySet, CheckpointsAssumption
<1>4. PruneIsUnderWay
  <2>1. "session" \in Maker /\ Own \ making["session"].doomed = Own
    BY <1>2 DEF Maker
  <2> QED BY <1>3, <2>1 DEF PruneIsUnderWay
<1>5. NumbersAreOwn /\ EnoughAreKept
  BY <1>2, <1>3 DEF NumbersAreOwn, EnoughAreKept
<1> QED BY <1>1, <1>2, <1>4, <1>5 DEF CheckpointsInv

LEMMA SavingKeeps ==
  ASSUME CheckpointsInv, NEW m \in Maker, Save(m), madeTotal' = madeTotal + 1
  PROVE  CheckpointsInv' /\ Own \subseteq Own'
<1>0. /\ KeepsTypes /\ Own \in SUBSET KeptRow /\ IsFiniteSet(Own) /\ Cardinality(Own) \in Nat
      /\ madeTotal \in Nat /\ Retain \in Nat /\ making \in [Maker -> MakerRow] /\ making[m] \in MakerRow
  BY OwnIsFinite, CheckpointsAssumption DEF CheckpointsInv, KeepsTypes
<1> DEFINE saved == [id |-> madeTotal + 1, run |-> "run", sequence |-> making[m].sequence,
                     progress |-> making[m].progress, files |-> making[m].files,
                     labelled |-> making[m].labelled]
<1>1. saved \in KeptRow /\ saved.run = "run" /\ saved.id = madeTotal + 1
  BY <1>0 DEF KeptRow, MakerRow
<1>2. checkpoints' = checkpoints \cup {saved} /\ making' = [making EXCEPT ![m].at = "pruning"]
      /\ UNCHANGED <<progress, workspace, forkCall, restoreCall>>
  <2>1. madeTotal + 1 # madeTotal
    BY <1>0
  <2> QED BY <2>1 DEF Save
<1> HIDE DEF saved
<1>3. Own' = Own \cup {saved} /\ saved \notin Own
  <2>1. Own' = Own \cup {saved}
    BY <1>1, <1>2 DEF Own
  <2>2. \A c \in Own : c.id \in Nat /\ c.id <= madeTotal
    BY <1>0 DEF CheckpointsInv, NumbersAreOwn, KeptRow
  <2>3. saved \notin Own
    BY <1>0, <1>1, <2>2
  <2> QED BY <2>1, <2>3
<1>4. /\ making' \in [Maker -> MakerRow] /\ making'[m].at = "pruning"
      /\ \A o \in Maker : making'[o].doomed = making[o].doomed
  BY <1>0, <1>2 DEF MakerRow
<1>5. KeepsTypes'
  <2>1. IsFiniteSet(checkpoints')
    BY <1>0, <1>2, FS_AddElement DEF KeepsTypes
  <2> QED BY <1>0, <1>1, <1>2, <1>4, <2>1 DEF KeepsTypes
<1>6. NumbersAreOwn'
  <2>1. \A c \in Own : c.id \in Nat /\ c.id <= madeTotal
    BY <1>0 DEF CheckpointsInv, NumbersAreOwn, KeptRow
  <2>2. \A c \in Own' : c.id <= madeTotal'
    BY <1>0, <1>1, <1>3, <2>1
  <2>3. \A c, d \in Own' : c.id = d.id => c = d
    BY <1>0, <1>1, <1>3, <2>1 DEF CheckpointsInv, NumbersAreOwn
  <2>4. \A o \in Maker : \A c \in making'[o].doomed : c.id <= madeTotal'
    <3> SUFFICES ASSUME NEW o \in Maker, NEW c \in making[o].doomed PROVE c.id <= madeTotal + 1
      BY <1>4
    <3>1. c.id \in Nat /\ c.id <= madeTotal
      BY <1>0 DEF CheckpointsInv, NumbersAreOwn, MakerRow, KeptRow
    <3> QED BY <1>0, <3>1
  <2> QED BY <2>2, <2>3, <2>4 DEF NumbersAreOwn
<1>7. Cardinality(Own') = Cardinality(Own) + 1 /\ IsFiniteSet(Own')
  BY <1>0, <1>3, FS_AddElement
<1>8. EnoughAreKept'
  <2>1. Cardinality(Own) >= Retain \/ Cardinality(Own) >= madeTotal
    BY DEF CheckpointsInv, EnoughAreKept
  <2>2. Cardinality(Own') >= Retain \/ Cardinality(Own') >= madeTotal'
    BY <1>0, <1>7, <2>1
  <2> QED BY <2>2 DEF EnoughAreKept
<1>9. PruneIsUnderWay'
  BY <1>4 DEF PruneIsUnderWay
<1>10. ASSUME NEW o \in Maker, NEW c \in making'[o].doomed \cap Own' PROVE StandsBelow(Own', c)
  <2>1. c \in making[o].doomed /\ c \in Own'
    BY <1>4, <1>10
  <2>2. c.id \in Nat /\ c.id <= madeTotal
    BY <1>0, <2>1 DEF CheckpointsInv, NumbersAreOwn, MakerRow, KeptRow
  <2>3. c # saved
    BY <1>0, <1>1, <2>2
  <2>4. StandsBelow(Own, c)
    BY <1>3, <2>1, <2>3 DEF CheckpointsInv
  <2> QED BY <1>3, <1>7, <2>4, StandsAmongMore
<1> QED BY <1>3, <1>5, <1>6, <1>8, <1>9, <1>10 DEF CheckpointsInv

LEMMA PruneReadKeeps ==
  ASSUME CheckpointsInv, NEW m \in Maker, PruneRead(m)
  PROVE  CheckpointsInv' /\ Own' = Own
<1>0. /\ KeepsTypes /\ Own \in SUBSET KeptRow /\ IsFiniteSet(Own)
      /\ making \in [Maker -> MakerRow] /\ making[m] \in MakerRow
  BY OwnIsFinite DEF CheckpointsInv, KeepsTypes
<1>1. Own' = Own /\ madeTotal' = madeTotal
  BY DEF PruneRead, Own
<1> DEFINE list == Own \ Keep(Own)
<1>2. list \in SUBSET KeptRow /\ Keep(Own) \subseteq Own /\ Cardinality(Keep(Own)) <= 2 * Retain
  BY <1>0, KeepIsFew DEF CheckpointsInv, NumbersAreOwn
<1>3. \A c \in list : StandsBelow(Own, c)
  BY <1>0, DoomedStandBelow
<1>4. Own \ list = Keep(Own)
  BY <1>2
<1>5. making' = [making EXCEPT ![m].at = "deleting", ![m].doomed = list]
  BY DEF PruneRead
<1>6. \A c \in list : c \in Own
  OBVIOUS
<1> HIDE DEF list
<1>7. /\ making' \in [Maker -> MakerRow] /\ making'[m].doomed = list
      /\ \A o \in Maker \ {m} : making'[o] = making[o]
  BY <1>0, <1>2, <1>5 DEF MakerRow
<1>8. KeepsTypes'
  BY <1>0, <1>7 DEF KeepsTypes, PruneRead
<1>9. NumbersAreOwn'
  BY <1>1, <1>6, <1>7 DEF CheckpointsInv, NumbersAreOwn
<1>10. EnoughAreKept'
  BY <1>1 DEF CheckpointsInv, EnoughAreKept
<1>11. PruneIsUnderWay'
  BY <1>1, <1>2, <1>4, <1>7 DEF PruneIsUnderWay
<1>12. \A o \in Maker : \A c \in making'[o].doomed \cap Own' : StandsBelow(Own', c)
  BY <1>1, <1>3, <1>7 DEF CheckpointsInv
<1> QED BY <1>1, <1>8, <1>9, <1>10, <1>11, <1>12 DEF CheckpointsInv

\* A delete: of what is there it takes one with enough above it, or nothing.
LEMMA DeletingKeeps ==
  ASSUME CheckpointsInv, NEW m \in Maker, NEW x \in making[m].doomed, checkpoints' = checkpoints \ {x},
         making' = [making EXCEPT ![m].doomed = @ \ {x}],
         UNCHANGED <<progress, workspace, madeTotal, forkCall, restoreCall>>,
         making[m].at = "deleting"
  PROVE  /\ CheckpointsInv'
         /\ \A c \in Own \ Own' : \E d \in Own' : d.sequence >= c.sequence
         /\ \A c \in Own \ Own' : c.labelled => \E d \in Own' : d.labelled
<1>0. /\ KeepsTypes /\ Own \in SUBSET KeptRow /\ IsFiniteSet(Own) /\ Cardinality(Own) \in Nat
      /\ madeTotal \in Nat /\ Retain \in Nat /\ making \in [Maker -> MakerRow] /\ making[m] \in MakerRow
  BY OwnIsFinite, CheckpointsAssumption DEF CheckpointsInv, KeepsTypes
<1>1. Own' = Own \ {x}
  BY DEF Own
<1>2. /\ making' \in [Maker -> MakerRow] /\ making'[m].doomed = making[m].doomed \ {x}
      /\ making'[m].at = "deleting" /\ \A o \in Maker \ {m} : making'[o] = making[o]
  BY <1>0 DEF MakerRow
<1>3. \A o \in Maker : making'[o].doomed \subseteq making[o].doomed
  BY <1>2
<1>4. KeepsTypes'
  <2>1. IsFiniteSet(checkpoints') /\ checkpoints' \in SUBSET KeptRow
    BY <1>0, FS_RemoveElement DEF KeepsTypes
  <2> QED BY <1>0, <1>2, <2>1 DEF KeepsTypes
<1>5. NumbersAreOwn'
  BY <1>1, <1>3 DEF CheckpointsInv, NumbersAreOwn
<1>6. PruneIsUnderWay'
  <2>1. PICK o \in Maker : making[o].at = "pruning" \/ Cardinality(Own \ making[o].doomed) <= 2 * Retain
    BY DEF CheckpointsInv, PruneIsUnderWay
  <2>2. CASE making[o].at = "pruning"
    <3>1. o # m
      BY <2>2
    <3> QED BY <1>2, <2>2, <3>1 DEF PruneIsUnderWay
  <2>3. CASE Cardinality(Own \ making[o].doomed) <= 2 * Retain
    <3>1. Own' \ making'[o].doomed \subseteq Own \ making[o].doomed
      BY <1>1, <1>2
    <3>2. IsFiniteSet(Own \ making[o].doomed) /\ Cardinality(Own \ making[o].doomed) \in Nat
      BY <1>0, FS_Subset, FS_CardinalityType
    <3>3. /\ Cardinality(Own' \ making'[o].doomed) <= Cardinality(Own \ making[o].doomed)
          /\ Cardinality(Own' \ making'[o].doomed) \in Nat
      BY <3>1, <3>2, FS_Subset, FS_CardinalityType
    <3>4. Cardinality(Own' \ making'[o].doomed) <= 2 * Retain
      BY <1>0, <2>3, <3>2, <3>3
    <3> QED BY <3>4 DEF PruneIsUnderWay
  <2> QED BY <2>1, <2>2, <2>3
<1>7. CASE x \notin Own
  <2>1. Own' = Own
    BY <1>1, <1>7
  <2>2. EnoughAreKept'
    BY <2>1 DEF CheckpointsInv, EnoughAreKept
  <2>3. \A o \in Maker : \A c \in making'[o].doomed \cap Own' : StandsBelow(Own', c)
    BY <1>3, <2>1 DEF CheckpointsInv
  <2> QED BY <1>4, <1>5, <1>6, <2>1, <2>2, <2>3 DEF CheckpointsInv
<1>8. CASE x \in Own
  <2>1. StandsBelow(Own, x)
    BY <1>8 DEF CheckpointsInv
  <2>2. /\ Cardinality(Own \ {x}) >= Retain
        /\ \E d \in Own \ {x} : d.sequence >= x.sequence
        /\ x.labelled => \E d \in Own \ {x} : d.labelled
        /\ \A c \in Own \ {x} : StandsBelow(Own, c) => StandsBelow(Own \ {x}, c)
    BY <1>0, <1>8, <2>1, StandsAfterDelete
  <2>3. EnoughAreKept'
    BY <1>1, <2>2 DEF EnoughAreKept
  <2>4. \A o \in Maker : \A c \in making'[o].doomed \cap Own' : StandsBelow(Own', c)
    BY <1>1, <1>3, <2>2 DEF CheckpointsInv
  <2>5. \A c \in Own \ Own' : c = x
    BY <1>1
  <2> QED BY <1>1, <1>4, <1>5, <1>6, <2>2, <2>3, <2>4, <2>5 DEF CheckpointsInv
<1> QED BY <1>7, <1>8

\* Of some there is a newest one, which is where the next number comes from.
LEMMA NewestOfAll ==
  ASSUME NEW set \in SUBSET KeptRow, IsFiniteSet(set), set # {}, \A c, d \in set : c.id = d.id => c = d
  PROVE  \E c \in set : \A d \in set \ {c} : c \in NewerThan(set, d)
<1>1. \A c \in set : IsFiniteSet(NewerThan(set, c)) /\ Cardinality(NewerThan(set, c)) \in Nat
  BY AboveIsFinite
<1>2. PICK least \in {Cardinality(NewerThan(set, c)) : c \in set} :
        \A j \in {Cardinality(NewerThan(set, c)) : c \in set} : least <= j
  <2>1. {Cardinality(NewerThan(set, c)) : c \in set} \in SUBSET Nat
        /\ {Cardinality(NewerThan(set, c)) : c \in set} # {}
    BY <1>1
  <2> QED BY <2>1, LeastOf
<1>3. PICK c \in set : Cardinality(NewerThan(set, c)) = least
  BY <1>2
<1>4. ASSUME NEW d \in NewerThan(set, c) PROVE FALSE
  <2>1. d \in set
    BY <1>4 DEF NewerThan
  <2>2. NewerThan(set, d) \subseteq NewerThan(set, c) /\ d \notin NewerThan(set, d)
    BY <2>1, AboveIsTransitive
  <2>3. /\ Cardinality(NewerThan(set, d)) <= Cardinality(NewerThan(set, c))
        /\ Cardinality(NewerThan(set, d)) # Cardinality(NewerThan(set, c))
    BY <1>1, <1>3, <2>1, <2>2, FS_Subset
  <2>4. least <= Cardinality(NewerThan(set, d))
    BY <1>2, <2>1
  <2> QED BY <1>1, <1>3, <2>1, <2>3, <2>4
<1>5. ASSUME NEW d \in set \ {c} PROVE c \in NewerThan(set, d)
  <2>1. /\ c.sequence \in Nat /\ c.id \in Nat /\ d.sequence \in Nat /\ d.id \in Nat /\ c.id # d.id
    BY DEF KeptRow
  <2>2. d \notin NewerThan(set, c)
    BY <1>4
  <2> QED BY <2>1, <2>2 DEF NewerThan
<1> QED BY <1>5

LEMMA RecordsKeepTheirFields ==
  ASSUME NEW A, NEW S, NEW P, NEW F, NEW L, NEW D,
         NEW row \in [at : A, sequence : S, progress : P, files : F, labelled : L, doomed : D],
         NEW a \in A, NEW number \in S, NEW reached \in P, NEW captured \in F, NEW l \in L
  PROVE  /\ [row EXCEPT !.at = a, !.labelled = l, !.sequence = number, !.progress = reached]
              \in [at : A, sequence : S, progress : P, files : F, labelled : L, doomed : D]
         /\ [row EXCEPT !.at = a, !.labelled = l, !.sequence = number, !.progress = reached].doomed = row.doomed
         /\ [row EXCEPT !.at = a, !.files = captured]
              \in [at : A, sequence : S, progress : P, files : F, labelled : L, doomed : D]
         /\ [row EXCEPT !.at = a, !.files = captured].doomed = row.doomed
OBVIOUS

LEMMA BegunFields ==
  ASSUME NEW row \in MakerRow, NEW number \in Nat, NEW reached \in Nat, NEW l \in BOOLEAN, NEW now,
         now = [row EXCEPT !.at = "capturing", !.labelled = l, !.sequence = number, !.progress = reached]
  PROVE  now \in MakerRow /\ now.doomed = row.doomed
<1> DEFINE stages == {"unused", "idle", "capturing", "saving", "pruning", "deleting"}
<1>1. "capturing" \in stages /\ "saving" \in stages
  OBVIOUS
<1>2. MakerRow = [at : stages, sequence : Nat, progress : Nat, files : Nat, labelled : BOOLEAN,
                  doomed : SUBSET KeptRow]
  BY DEF MakerRow
<1> HIDE DEF stages
<1> QED BY <1>1, <1>2, RecordsKeepTheirFields

LEMMA CapturedFields ==
  ASSUME NEW row \in MakerRow, NEW captured \in Nat
  PROVE  /\ [row EXCEPT !.at = "saving", !.files = captured] \in MakerRow
         /\ [row EXCEPT !.at = "saving", !.files = captured].doomed = row.doomed
<1>0. row.sequence \in Nat /\ row.progress \in Nat /\ row.labelled \in BOOLEAN
  BY DEF MakerRow
<1> DEFINE stages == {"unused", "idle", "capturing", "saving", "pruning", "deleting"}
<1>1. "capturing" \in stages /\ "saving" \in stages
  OBVIOUS
<1>2. MakerRow = [at : stages, sequence : Nat, progress : Nat, files : Nat, labelled : BOOLEAN,
                  doomed : SUBSET KeptRow]
  BY DEF MakerRow
<1> HIDE DEF stages
<1> QED BY <1>0, <1>1, <1>2, RecordsKeepTheirFields

\* What every step of the checkpoints does to the table.
LEMMA CheckpointsStep ==
  ASSUME CheckpointsInv, CheckpointsNext
  PROVE  /\ CheckpointsInv'
         /\ \A c \in Own \ Own' : \E d \in Own' : d.sequence >= c.sequence
         /\ \A c \in Own \ Own' : c.labelled => \E d \in Own' : d.labelled
<1>0. KeepsTypes /\ making \in [Maker -> MakerRow] /\ \A m \in Maker : making[m] \in MakerRow
  BY DEF CheckpointsInv, KeepsTypes
<1>1. ASSUME CheckpointsInv', Own \subseteq Own'
      PROVE  /\ CheckpointsInv'
             /\ \A c \in Own \ Own' : \E d \in Own' : d.sequence >= c.sequence
             /\ \A c \in Own \ Own' : c.labelled => \E d \in Own' : d.labelled
  BY <1>1
<1>2. ASSUME checkpoints' = checkpoints PROVE Own \subseteq Own'
  BY <1>2 DEF Own
<1>3. ASSUME KeepsTypes', checkpoints' = checkpoints, madeTotal' = madeTotal, making' = making
      PROVE  CheckpointsInv'
  BY <1>3, NothingIsKeptOrLost
<1>4. CASE WorkOn
  <2>1. KeepsTypes'
    BY <1>0, <1>4 DEF WorkOn, KeepsTypes
  <2> QED BY <1>1, <1>2, <1>3, <1>4, <2>1 DEF WorkOn
<1>5. CASE BeginFork \/ CopyWorkspace
  <2>1. UNCHANGED <<progress, workspace, checkpoints, madeTotal, making, restoreCall>>
    BY <1>5 DEF BeginFork, CopyWorkspace
  <2>2. KeepsTypes'
    BY <1>0, <2>1 DEF KeepsTypes
  <2> QED BY <1>1, <1>2, <1>3, <2>1, <2>2
<1>6. CASE RestoreFiles
  <2>1. PICK c \in checkpoints :
          /\ restoreCall' = [at |-> IF c.run = "run" THEN "restored" ELSE "refused", from |-> c]
          /\ workspace' = IF c.run = "run" /\ c.files # 0 THEN c.files ELSE workspace
    BY <1>6 DEF RestoreFiles
  <2>2. c \in KeptRow /\ c.files \in Nat
    BY <1>0, <2>1 DEF KeepsTypes, KeptRow
  <2>3. restoreCall' \in [at : {"unused", "none", "restored", "refused", "done"}, from : KeptRow]
    BY <2>1, <2>2
  <2>4. workspace' \in Nat
    BY <1>0, <2>1, <2>2 DEF KeepsTypes
  <2>5. KeepsTypes'
    BY <1>0, <1>6, <2>3, <2>4 DEF RestoreFiles, KeepsTypes
  <2> QED BY <1>1, <1>2, <1>3, <1>6, <2>5 DEF RestoreFiles
<1>7. CASE RestoreState
  <2>1. restoreCall.from \in KeptRow /\ restoreCall.from.progress \in Nat
    BY <1>0 DEF KeepsTypes, KeptRow
  <2>2. restoreCall' \in [at : {"unused", "none", "restored", "refused", "done"}, from : KeptRow]
    BY <1>0, <1>7 DEF KeepsTypes, RestoreState
  <2>3. KeepsTypes'
    BY <1>0, <1>7, <2>1, <2>2 DEF RestoreState, KeepsTypes
  <2> QED BY <1>1, <1>2, <1>3, <1>7, <2>3 DEF RestoreState
<1>8. ASSUME NEW m \in Maker, BeginCheckpoint(m)
      PROVE  CheckpointsInv' /\ Own \subseteq Own'
  <2>0. LatestSequence \in Nat
    <3>1. CASE Own = {}
      BY <3>1 DEF LatestSequence
    <3>2. CASE Own # {}
      <4>1. PICK c \in Own : \A d \in Own \ {c} : c \in NewerThan(Own, d)
        BY <1>0, <3>2, OwnIsFinite, NewestOfAll DEF CheckpointsInv, NumbersAreOwn
      <4>2. \A d \in Own : d.sequence \in Nat /\ d.id \in Nat
        BY <1>0, OwnIsFinite DEF KeptRow
      <4>3. \A d \in Own : d.sequence < c.sequence \/ (d.sequence = c.sequence /\ d.id <= c.id)
        BY <4>1, <4>2 DEF NewerThan
      <4>4. Newest(Own) \in Own
        BY <4>3 DEF Newest
      <4> QED BY <3>2, <4>2, <4>4 DEF LatestSequence
    <3> QED BY <3>1, <3>2
  <2>1. PICK number \in Nat : number = LatestSequence + 1
    BY <2>0
  <2>2. PICK labelled \in BOOLEAN :
          making' = [making EXCEPT ![m] = [@ EXCEPT !.at = "capturing", !.labelled = labelled,
                                           !.sequence = number, !.progress = progress]]
    BY <1>8, <2>1 DEF BeginCheckpoint
  <2> DEFINE now == [making[m] EXCEPT !.at = "capturing", !.labelled = labelled,
                                      !.sequence = number, !.progress = progress]
  <2>3. now \in MakerRow /\ now.doomed = making[m].doomed
    <3>1. making[m] \in MakerRow /\ progress \in Nat
      BY <1>0 DEF KeepsTypes
    <3>2. now = [making[m] EXCEPT !.at = "capturing", !.labelled = labelled,
                                  !.sequence = number, !.progress = progress]
      OBVIOUS
    <3> HIDE DEF now
    <3>3. PICK reached \in Nat, row \in MakerRow : reached = progress /\ row = making[m]
      BY <3>1
    <3>4. now = [row EXCEPT !.at = "capturing", !.labelled = labelled,
                            !.sequence = number, !.progress = reached]
      BY <3>2, <3>3
    <3>5. \A r \in MakerRow : \A n \in Nat, p \in Nat, l \in BOOLEAN :
            now = [r EXCEPT !.at = "capturing", !.labelled = l, !.sequence = n, !.progress = p]
              => now \in MakerRow /\ now.doomed = r.doomed
      BY BegunFields
    <3>6. now \in MakerRow /\ now.doomed = row.doomed
      BY <3>4, <3>5, Zenon
    <3> QED BY <3>3, <3>6
  <2>4. making' = [making EXCEPT ![m] = now]
    BY <2>2
  <2> HIDE DEF now
  <2>5. CheckpointsInv'
    BY <1>8, <2>3, <2>4, MakerMoves DEF BeginCheckpoint
  <2> QED BY <1>2, <1>8, <2>5 DEF BeginCheckpoint
<1>9. ASSUME NEW m \in Maker, Capture(m)
      PROVE  CheckpointsInv' /\ Own \subseteq Own'
  <2>1. PICK captured \in {workspace, 0} : making' = [making EXCEPT ![m].at = "saving", ![m].files = captured]
    BY <1>9 DEF Capture
  <2> DEFINE now == [making[m] EXCEPT !.at = "saving", !.files = captured]
  <2>2. now \in MakerRow /\ now.doomed = making[m].doomed
    <3>1. making[m] \in MakerRow /\ captured \in Nat
      BY <1>0, <2>1 DEF KeepsTypes
    <3> QED BY <3>1, CapturedFields
  <2>3. making' = [making EXCEPT ![m] = now]
    BY <1>0, <2>1
  <2> HIDE DEF now
  <2>4. CheckpointsInv'
    BY <1>9, <2>2, <2>3, MakerMoves DEF Capture
  <2> QED BY <1>2, <1>9, <2>4 DEF Capture
<1>10. \A m \in Maker : /\ [IdleMaker EXCEPT !.doomed = making[m].doomed] \in MakerRow
                        /\ [IdleMaker EXCEPT !.doomed = making[m].doomed].doomed = making[m].doomed
  BY <1>0 DEF MakerRow, IdleMaker
<1>11. ASSUME NEW m \in Maker, Save(m)
       PROVE  CheckpointsInv' /\ Own \subseteq Own'
  <2>1. CASE madeTotal' = madeTotal + 1
    BY <1>11, <2>1, SavingKeeps
  <2>2. CASE /\ making' = [making EXCEPT ![m] = [IdleMaker EXCEPT !.doomed = making[m].doomed]]
             /\ UNCHANGED <<madeTotal, checkpoints>>
    <3> DEFINE now == [IdleMaker EXCEPT !.doomed = making[m].doomed]
    <3>1. now \in MakerRow /\ now.doomed = making[m].doomed
      BY <1>10
    <3>2. making' = [making EXCEPT ![m] = now]
      BY <2>2
    <3> HIDE DEF now
    <3>3. CheckpointsInv'
      BY <1>11, <2>2, <3>1, <3>2, MakerMoves DEF Save
    <3> QED BY <1>2, <2>2, <3>3
  <2> QED BY <1>11, <2>1, <2>2 DEF Save
<1>12. ASSUME NEW m \in Maker, PruneDelete(m)
       PROVE  /\ CheckpointsInv'
              /\ \A c \in Own \ Own' : \E d \in Own' : d.sequence >= c.sequence
              /\ \A c \in Own \ Own' : c.labelled => \E d \in Own' : d.labelled
  <2> DEFINE doomed == making[m].doomed
             next == CHOOSE c \in doomed : \A d \in doomed : c.id <= d.id
             now == [IdleMaker EXCEPT !.doomed = making[m].doomed]
  <2>1. now \in MakerRow /\ now.doomed = making[m].doomed
    BY <1>10
  <2>2. making[m].at = "deleting" /\ UNCHANGED <<progress, workspace, madeTotal, forkCall, restoreCall>>
    BY <1>12 DEF PruneDelete
  <2>3. CASE doomed = {} /\ making' = [making EXCEPT ![m] = IdleMaker] /\ checkpoints' = checkpoints
    <3>1. IdleMaker = now
      BY <2>3 DEF IdleMaker
    <3>2. making' = [making EXCEPT ![m] = now]
      BY <2>3, <3>1
    <3> HIDE DEF now, doomed, next
    <3>3. CheckpointsInv'
      BY <2>1, <2>2, <2>3, <3>2, MakerMoves
    <3> QED BY <1>1, <1>2, <2>3, <3>3
  <2>4. CASE doomed # {} /\ checkpoints' = checkpoints \ {next} /\ making' = [making EXCEPT ![m].doomed = @ \ {next}]
    <3>1. doomed \in SUBSET KeptRow
      BY <1>0 DEF MakerRow
    <3>2. next \in doomed
      <4> HIDE DEF doomed
      <4> QED BY <2>4, <3>1, NextIsDoomed
    <3>3. PICK x \in making[m].doomed : x = next
      BY <3>2
    <3>4. checkpoints' = checkpoints \ {x} /\ making' = [making EXCEPT ![m].doomed = @ \ {x}]
      BY <2>4, <3>3
    <3> HIDE DEF now, doomed, next
    <3> QED BY <2>2, <3>3, <3>4, DeletingKeeps
  <2>5. CASE making' = [making EXCEPT ![m] = now] /\ checkpoints' = checkpoints
    <3> HIDE DEF now, doomed, next
    <3>1. CheckpointsInv'
      BY <2>1, <2>2, <2>5, MakerMoves
    <3> QED BY <1>1, <1>2, <2>5, <3>1
  <2> QED BY <1>12, <2>3, <2>4, <2>5 DEF PruneDelete
<1>13. ASSUME NEW m \in Maker, PruneRead(m)
       PROVE  CheckpointsInv' /\ Own \subseteq Own'
  BY <1>13, PruneReadKeeps
<1> QED BY <1>1, <1>4, <1>5, <1>6, <1>7, <1>8, <1>9, <1>11, <1>12, <1>13 DEF CheckpointsNext

LEMMA RetentionFollows ==
  ASSUME CheckpointsInv
  PROVE  RetentionHolds
<1>1. KeepsTypes /\ Cardinality(Own) \in Nat /\ madeTotal \in Nat /\ Retain \in Nat
  BY OwnIsFinite, CheckpointsAssumption DEF CheckpointsInv, KeepsTypes
<1>2. Cardinality(Own) >= Min({Retain, madeTotal})
  <2>1. Min({Retain, madeTotal}) \in {Retain, madeTotal}
        /\ \A y \in {Retain, madeTotal} : Min({Retain, madeTotal}) <= y
    <3>1. \E x \in {Retain, madeTotal} : \A y \in {Retain, madeTotal} : x <= y
      BY <1>1
    <3> QED BY <3>1 DEF Min
  <2>2. Min({Retain, madeTotal}) \in Nat /\ Min({Retain, madeTotal}) <= Retain
        /\ Min({Retain, madeTotal}) <= madeTotal
    BY <1>1, <2>1
  <2>3. PICK floor \in Nat : floor = Min({Retain, madeTotal})
    BY <2>2
  <2> QED BY <1>1, <2>2, <2>3 DEF CheckpointsInv, EnoughAreKept
<1>3. ASSUME \A m \in Maker : making[m].at \in {"idle", "unused"} /\ making[m].doomed = {}
      PROVE  Cardinality(Own) <= 2 * Retain
  <2>1. PICK m \in Maker : making[m].at = "pruning" \/ Cardinality(Own \ making[m].doomed) <= 2 * Retain
    BY DEF CheckpointsInv, PruneIsUnderWay
  <2>2. Own \ making[m].doomed = Own /\ making[m].at # "pruning"
    BY <1>3
  <2> QED BY <2>1, <2>2
<1> QED BY <1>2, <1>3 DEF RetentionHolds

\* However two makers of checkpoints and their pruning interleave (manager.ts),
\* as many are there as the policy retains and no more than twice as many when
\* they are done; no delete takes the newest, nor the last labelled one: for any
\* policy and any number of checkpoints.
THEOREM CheckpointsStay == RecordsSpec => CheckpointsAreKept
<1>1. RecordsInit => CheckpointsInv
  BY CheckpointsStart DEF RecordsInit
<1>2. ASSUME CheckpointsInv, [RecordsNext]_recordsVars
      PROVE  /\ CheckpointsInv'
             /\ [\A c \in Own \ Own' : \E d \in Own' : d.sequence >= c.sequence]_CheckpointsVars
             /\ [\A c \in Own \ Own' : c.labelled => \E d \in Own' : d.labelled]_CheckpointsVars
  <2>1. CheckpointsNext \/ UNCHANGED CheckpointsVars
    BY <1>2, StoresRest
  <2>2. CASE UNCHANGED CheckpointsVars
    <3>1. KeepsTypes'
      BY <1>2, <2>2 DEF CheckpointsInv, KeepsTypes, CheckpointsVars
    <3>2. CheckpointsInv'
      BY <1>2, <2>2, <3>1, NothingIsKeptOrLost DEF CheckpointsVars
    <3> QED BY <2>2, <3>2
  <2> QED BY <1>2, <2>1, <2>2, CheckpointsStep
<1>3. CheckpointsInv => RetentionHolds
  BY RetentionFollows
<1> HIDE DEF CheckpointsInv
<1>4. RecordsSpec => []CheckpointsInv
  BY <1>1, <1>2, PTL DEF RecordsSpec
<1>5. RecordsSpec => []RetentionHolds
  BY <1>3, <1>4, PTL
<1>6. RecordsSpec => NewestIsNeverPruned
  BY <1>2, <1>4, PTL DEF RecordsSpec, NewestIsNeverPruned
<1>7. RecordsSpec => MilestoneOutlivesWindow
  BY <1>2, <1>4, PTL DEF RecordsSpec, MilestoneOutlivesWindow
<1> QED BY <1>5, <1>6, <1>7 DEF CheckpointsAreKept

-----------------------------------------------------------------------------
(* Snapshots of a workspace.  A blob that is there stays there, so what a walk *)
(* has found, and what a saved manifest names, can be read again; a file that  *)
(* a restore is past is what the manifest says, or its blob was torn.          *)

Found == Content \cup {ABSENT, TORN}
WalkRow == [does : {"nothing", "capture", "restore", "failed"}, left : SUBSET File, found : [File -> Found]]

\* Every content that these files name has a blob, torn or whole.
HaveBlobs(named) == \A f \in File : named[f] \in Content => blobs[named[f]] # "absent"

\* A restore is past the files that are not left.
IsPast(left) ==
  \A f \in File : IF f \in left THEN manifest[f] # ABSENT
                  ELSE manifest[f] \in Content => tree[f] = manifest[f] \/ manifest[f] \in tornBlobs

SnapshotInv ==
  /\ tree \in [File -> Found] /\ manifest \in [File -> Found]
  /\ blobs \in [Content -> {"absent", "torn", "whole"}]
  /\ walk \in WalkRow
  /\ \A c \in Content : blobs[c] = "torn" => c \in tornBlobs
  /\ HaveBlobs(manifest)
  /\ walk.does = "capture" => HaveBlobs(walk.found)
  /\ walk.does = "restore" => IsPast(walk.left)
  /\ SnapshotIsComplete

LEMMA WalkFields ==
  ASSUME NEW L, NEW F, NEW D, NEW w \in [does : D, left : L, found : F], NEW d \in D, NEW l \in L, NEW n \in F
  PROVE  /\ [w EXCEPT !.does = d, !.left = l] \in [does : D, left : L, found : F]
         /\ [w EXCEPT !.does = d, !.left = l].does = d /\ [w EXCEPT !.does = d, !.left = l].left = l
         /\ [w EXCEPT !.does = d, !.left = l].found = w.found
         /\ [w EXCEPT !.left = l] \in [does : D, left : L, found : F]
         /\ [w EXCEPT !.left = l].does = w.does /\ [w EXCEPT !.left = l].left = l
OBVIOUS

LEMMA NoWalkIsAWalk ==
  NoWalk \in WalkRow /\ NoWalk.does = "nothing" /\ \A f \in File : NoWalk.found[f] \notin Content
BY SnapshotAssumption DEF NoWalk, WalkRow, Found

LEMMA SnapshotStarts == SnapshotInit => SnapshotInv
BY NoWalkIsAWalk, SnapshotAssumption
   DEF SnapshotInit, SnapshotInv, HaveBlobs, Found, SnapshotIsComplete

LEMMA SnapshotSteps ==
  ASSUME SnapshotInv, SnapshotNext
  PROVE  SnapshotInv'
<1>0. /\ tree \in [File -> Found] /\ manifest \in [File -> Found]
      /\ blobs \in [Content -> {"absent", "torn", "whole"}]
      /\ walk \in WalkRow /\ walk.left \in SUBSET File /\ walk.found \in [File -> Found]
      /\ \A c \in Content : blobs[c] = "torn" => c \in tornBlobs
      /\ HaveBlobs(manifest) /\ SnapshotIsComplete
      /\ walk.does = "capture" => HaveBlobs(walk.found)
      /\ walk.does = "restore" => IsPast(walk.left)
  BY DEF SnapshotInv, WalkRow
<1>1. ABSENT \notin Content /\ TORN # ABSENT
  BY SnapshotAssumption
<1>2. /\ NoWalk \in WalkRow /\ NoWalk.does = "nothing"
      /\ \A f \in File : NoWalk.found[f] \notin Content
  BY NoWalkIsAWalk
<1>3. CASE ChangeFile
  <2>1. tree' \in [File -> Found]
    BY <1>0, <1>3 DEF ChangeFile, Found
  <2>2. walk' = walk /\ walk.does = "nothing"
    BY <1>3 DEF ChangeFile
  <2> QED BY <1>0, <1>3, <2>1, <2>2 DEF ChangeFile, SnapshotInv, HaveBlobs, SnapshotIsComplete
<1>4. ASSUME NEW d \in {"capture", "restore"}, NEW l \in SUBSET File,
             walk' = [NoWalk EXCEPT !.does = d, !.left = l],
             d = "restore" => l = {f \in File : manifest[f] # ABSENT},
             UNCHANGED <<tree, blobs, manifest, tornBlobs>>
      PROVE  SnapshotInv'
  <2>1. walk' \in WalkRow /\ walk'.does = d /\ walk'.left = l /\ walk'.found = NoWalk.found
    BY <1>2, <1>4, WalkFields DEF WalkRow
  <2>2. (walk.does = "restore" => IsPast(walk.left))'
    <3>1. ASSUME d = "restore", NEW f \in File, f \notin l PROVE manifest[f] \notin Content
      BY <1>1, <1>4, <3>1
    <3> QED BY <1>4, <2>1, <3>1 DEF IsPast
  <2>3. HaveBlobs(walk.found)'
    BY <1>2, <2>1 DEF HaveBlobs
  <2>4. HaveBlobs(manifest)'
    BY <1>0, <1>4 DEF HaveBlobs
  <2>5. walk'.does # "failed"
    BY <2>1
  <2> QED BY <1>0, <1>4, <2>1, <2>2, <2>3, <2>4, <2>5 DEF SnapshotInv, SnapshotIsComplete
<1>5. CASE BeginCapture
  BY <1>4, <1>5 DEF BeginCapture
<1>6. CASE BeginRestore
  BY <1>4, <1>6 DEF BeginRestore
\* A walk that is over leaves the rest as it is.
<1>7. ASSUME walk' = NoWalk, manifest' \in [File -> Found], HaveBlobs(manifest)', UNCHANGED <<tree, blobs, tornBlobs>>
      PROVE  SnapshotInv'
  BY <1>0, <1>2, <1>7 DEF SnapshotInv, SnapshotIsComplete
<1>8. CASE SaveManifest
  <2>1. HaveBlobs(manifest)'
    BY <1>0, <1>8 DEF SaveManifest, HaveBlobs
  <2> QED BY <1>0, <1>7, <1>8, <2>1 DEF SaveManifest
<1>9. CASE EndRestore
  <2>1. HaveBlobs(manifest)'
    BY <1>0, <1>9 DEF EndRestore, HaveBlobs
  <2> QED BY <1>0, <1>7, <1>9, <2>1 DEF EndRestore
<1>10. CASE CaptureFile
  <2>1. PICK f \in walk.left :
          /\ walk' = [walk EXCEPT !.left = @ \ {f}, !.found[f] = tree[f]]
          /\ blobs' = IF tree[f] \in Content /\ blobs[tree[f]] = "absent"
                      THEN [blobs EXCEPT ![tree[f]] = "whole"] ELSE blobs
    BY <1>10 DEF CaptureFile
  <2>2. f \in File /\ tree[f] \in Found
    BY <1>0, <2>1
  <2>3. blobs' \in [Content -> {"absent", "torn", "whole"}]
    BY <1>0, <2>1
  <2>4. \A c \in Content : (blobs'[c] = "torn" => c \in tornBlobs) /\ (blobs[c] # "absent" => blobs'[c] # "absent")
    BY <1>0, <2>1
  <2>5. tree[f] \in Content => blobs'[tree[f]] # "absent"
    BY <1>0, <2>1
  <2>6. walk' \in WalkRow /\ walk'.does = "capture" /\ walk'.found = [walk.found EXCEPT ![f] = tree[f]]
    BY <1>0, <1>10, <2>1, <2>2 DEF WalkRow, CaptureFile
  <2>7. HaveBlobs(manifest)'
    BY <1>0, <1>10, <2>4 DEF CaptureFile, HaveBlobs
  <2>8. HaveBlobs(walk.found)
    BY <1>0, <1>10 DEF CaptureFile
  <2>9. HaveBlobs(walk.found)'
    BY <1>0, <2>2, <2>4, <2>5, <2>6, <2>8 DEF HaveBlobs
  <2> QED BY <1>0, <1>10, <2>3, <2>4, <2>6, <2>7, <2>9 DEF CaptureFile, SnapshotInv, SnapshotIsComplete
<1>11. CASE RestoreFile
  <2>1. PICK f \in walk.left :
          IF tree[f] # manifest[f] /\ Blob(manifest[f]) = ABSENT
          THEN walk' = [NoWalk EXCEPT !.does = "failed"] /\ UNCHANGED tree
          ELSE /\ tree' = IF tree[f] = manifest[f] THEN tree
                          ELSE [tree EXCEPT ![f] = Blob(manifest[f])]
               /\ walk' = [walk EXCEPT !.left = @ \ {f}]
    BY <1>11 DEF RestoreFile
  <2>2. f \in File /\ manifest[f] \in Found /\ manifest[f] # ABSENT /\ IsPast(walk.left)
    BY <1>0, <1>11, <2>1 DEF RestoreFile, IsPast
  <2>3. /\ Blob(manifest[f]) \in Found /\ Blob(manifest[f]) # ABSENT
        /\ manifest[f] \in Content => Blob(manifest[f]) = manifest[f] \/ manifest[f] \in tornBlobs
    BY <1>0, <1>1, <2>2 DEF Blob, Found, HaveBlobs
  <2>4. /\ tree' = IF tree[f] = manifest[f] THEN tree ELSE [tree EXCEPT ![f] = Blob(manifest[f])]
        /\ walk' = [walk EXCEPT !.left = @ \ {f}]
    BY <2>1, <2>3
  <2>5. walk' \in WalkRow /\ walk'.does = "restore" /\ walk'.left = walk.left \ {f}
    <3>1. walk.left \ {f} \in SUBSET File
      BY <1>0
    <3>2. walk' = [walk EXCEPT !.left = walk.left \ {f}] /\ walk.does = "restore"
      BY <1>11, <2>4 DEF RestoreFile
    <3> QED BY <1>0, <1>2, <3>1, <3>2, WalkFields DEF WalkRow
  <2>6. tree' \in [File -> Found] /\ \A o \in File \ {f} : tree'[o] = tree[o]
    BY <1>0, <2>3, <2>4
  <2>7. manifest[f] \in Content => tree'[f] = manifest[f] \/ manifest[f] \in tornBlobs
    BY <1>0, <2>2, <2>3, <2>4
  <2>8. UNCHANGED <<blobs, manifest, tornBlobs>>
    BY <1>11 DEF RestoreFile
  <2>9. IsPast(walk.left)'
    BY <2>2, <2>5, <2>6, <2>7, <2>8 DEF IsPast
  <2>10. HaveBlobs(manifest)'
    BY <1>0, <2>8 DEF HaveBlobs
  <2> QED BY <1>0, <2>5, <2>6, <2>8, <2>9, <2>10 DEF SnapshotInv, SnapshotIsComplete
<1>12. CASE DieWalking
  <2>1. walk' = NoWalk /\ tree' = tree /\ manifest' = manifest
    BY <1>12 DEF DieWalking
  <2>2. CASE walk.does = "restore"
    <3>1. blobs' = blobs /\ tornBlobs' = tornBlobs
      BY <1>12, <2>2 DEF DieWalking
    <3>2. HaveBlobs(manifest)'
      BY <1>0, <2>1, <3>1 DEF HaveBlobs
    <3> QED BY <1>0, <1>7, <2>1, <3>1, <3>2
  <2>3. CASE walk.does # "restore"
    <3>1. PICK half \in {{}} \cup {{tree[f]} : f \in walk.left} :
            /\ \A c \in half : c \in Content /\ blobs[c] = "absent"
            /\ blobs' = [c \in Content |-> IF c \in half THEN "torn" ELSE blobs[c]]
            /\ tornBlobs' = tornBlobs \cup half
      BY <1>12, <2>3 DEF DieWalking
    <3>2. blobs' \in [Content -> {"absent", "torn", "whole"}]
      BY <1>0, <3>1
    <3>3. \A c \in Content : (blobs'[c] = "torn" => c \in tornBlobs')
                             /\ (blobs[c] # "absent" => blobs'[c] # "absent")
      BY <1>0, <3>1
    <3>4. HaveBlobs(manifest)'
      BY <1>0, <2>1, <3>3 DEF HaveBlobs
    <3> QED BY <1>0, <1>2, <2>1, <3>2, <3>3, <3>4 DEF SnapshotInv, SnapshotIsComplete
  <2> QED BY <2>2, <2>3
<1> QED BY <1>3, <1>5, <1>6, <1>8, <1>9, <1>10, <1>11, <1>12 DEF SnapshotNext

LEMMA SnapshotIsGood ==
  ASSUME SnapshotInv
  PROVE  RestoreIsExact /\ SnapshotIsComplete
BY DEF SnapshotInv, RestoreIsExact, IsPast, Found

-----------------------------------------------------------------------------
(* The JSON-lines files.  A line that was cut short may be the next one's      *)
(* grave, so nothing is counted on that only such a line holds; with it left   *)
(* out, each record that is lost was paid for by a tear, and one more tear is  *)
(* still to be paid for while a line stands cut.  Memory holds at least what   *)
(* the file does.                                                              *)

KnownRecord == [id : Id, version : Nat]
KnownLine == [record : KnownRecord, parses : BOOLEAN]

OnLine(i) == i \in DOMAIN file /\ file[i].parses
OnDisk == {file[i].record : i \in {i \in DOMAIN file : file[i].parses}}
SafeOnDisk == {file[i].record : i \in {i \in DOMAIN file : file[i].parses /\ ~(cut /\ i = Len(file))}}
LostForGood == {r \in acked : ~Survives(r, SafeOnDisk)}

LogTypes ==
  /\ keyed \in BOOLEAN /\ cut \in BOOLEAN
  /\ file \in Seq(KnownLine) /\ (cut => file # <<>>)
  /\ index \in SUBSET KnownRecord /\ IsFiniteSet(index)
  /\ acked \in SUBSET KnownRecord /\ IsFiniteSet(acked)
  /\ process \in {"up", "renaming", "down"}
  /\ written \in Nat /\ tears \in Nat

InOrderOfWriting ==
  /\ \A i \in DOMAIN file : file[i].record.version <= written
  /\ \A i, j \in DOMAIN file : i < j => file[i].record.version < file[j].record.version
  /\ \A x \in index : x.version <= written
  /\ \A x, y \in index : x.version = y.version => x = y
  /\ \A x \in acked : x.version <= written

MemoryHoldsTheFile ==
  /\ process = "up" => \A x \in OnDisk : Survives(x, index)
  /\ process = "renaming" =>
       /\ keyed
       /\ \A x \in OnDisk : (\E y \in index : y.id = x.id) => Survives(x, index)
       /\ \A x \in acked : \E y \in index : y.id = x.id

TearsPayForLosses == Cardinality(LostForGood) + (IF cut THEN 1 ELSE 0) <= tears

LogInv == LogTypes /\ InOrderOfWriting /\ MemoryHoldsTheFile /\ TearsPayForLosses

\* As many records as there are in some set, in the order of their versions.
LEMMA CompactedIsTheIndex ==
  ASSUME NEW records \in SUBSET KnownRecord, IsFiniteSet(records),
         \A x, y \in records : x.version = y.version => x = y
  PROVE  /\ Compacted(records) \in Seq(KnownLine)
         /\ \A i \in DOMAIN Compacted(records) :
              Compacted(records)[i].parses /\ Compacted(records)[i].record \in records
         /\ \A r \in records : \E i \in DOMAIN Compacted(records) : Compacted(records)[i].record = r
         /\ \A i, j \in DOMAIN Compacted(records) :
              i < j => Compacted(records)[i].record.version < Compacted(records)[j].record.version
<1> DEFINE before(r) == {x \in records : x.version <= r.version}
           rank(r) == Cardinality(before(r))
           size == Cardinality(records)
           nth(n) == CHOOSE r \in records : Cardinality(before(r)) = n
           ranks == [r \in records |-> rank(r)]
<1>1. \A r \in records : r.version \in Nat
  BY DEF KnownRecord
<1>2. size \in Nat
  BY FS_CardinalityType
<1>3. ASSUME NEW r \in records PROVE IsFiniteSet(before(r)) /\ rank(r) \in 1..size /\ rank(r) \in Nat
  <2>1. before(r) \in SUBSET records /\ r \in before(r)
    BY <1>1
  <2> HIDE DEF before
  <2>2. IsFiniteSet(before(r)) /\ rank(r) \in Nat /\ rank(r) <= size
    BY <2>1, FS_Subset, FS_CardinalityType
  <2>3. rank(r) # 0
    BY <2>1, <2>2, FS_EmptySet
  <2> QED BY <1>2, <2>2, <2>3
<1>4. ASSUME NEW r \in records, NEW s \in records, r.version < s.version PROVE rank(r) < rank(s)
  <2>1. before(r) \subseteq before(s) /\ s \in before(s) /\ s \notin before(r)
    BY <1>1, <1>4
  <2>2. IsFiniteSet(before(s)) /\ rank(r) \in Nat /\ rank(s) \in Nat
    BY <1>3
  <2> HIDE DEF before
  <2>3. rank(r) <= rank(s) /\ rank(r) # rank(s)
    BY <2>1, <2>2, FS_Subset
  <2> QED BY <2>2, <2>3
<1>5. ASSUME NEW r \in records, NEW s \in records, rank(r) = rank(s) PROVE r = s
  <2>1. rank(r) \in Nat /\ rank(s) \in Nat
    BY <1>3
  <2> HIDE DEF rank
  <2>2. ~(r.version < s.version) /\ ~(s.version < r.version)
    BY <1>4, <1>5, <2>1
  <2>3. r.version = s.version
    BY <1>1, <2>2
  <2> QED BY <2>3
<1>6. \A n \in 1..size : \E r \in records : rank(r) = n
  <2> HIDE DEF rank, size
  <2>1. ranks \in Injection(records, 1..size)
    BY <1>3, <1>5 DEF Injection, IsInjective
  <2>2. IsFiniteSet(1..size) /\ Cardinality(1..size) = size
    BY <1>2, FS_Interval
  <2>3. ranks \in Surjection(records, 1..size)
    <3> HIDE DEF ranks
    <3>1. Cardinality(records) = Cardinality(1..size)
      BY <2>2 DEF size
    <3> QED BY <2>1, <2>2, <3>1, FS_Injection
  <2> QED BY <2>3 DEF Surjection
<1>7. \A n \in 1..size : nth(n) \in records /\ rank(nth(n)) = n
  BY <1>6
<1>8. \A r \in records : nth(rank(r)) = r
  <2> HIDE DEF nth, rank
  <2> QED BY <1>3, <1>5, <1>7
<1>9. Compacted(records) = [n \in 1..size |-> [record |-> nth(n), parses |-> TRUE]]
  BY DEF Compacted
<1> HIDE DEF nth, rank, size
<1>10. Compacted(records) \in Seq(KnownLine) /\ DOMAIN Compacted(records) = 1..size
  <2>1. \A n \in 1..size : [record |-> nth(n), parses |-> TRUE] \in KnownLine
    BY <1>7 DEF KnownLine
  <2>2. Compacted(records) \in [1..size -> KnownLine]
    BY <1>9, <2>1
  <2> QED BY <1>2, <2>2, IsASeq
<1>11. \A i \in 1..size : Compacted(records)[i].parses /\ Compacted(records)[i].record = nth(i)
  BY <1>9
<1>12. ASSUME NEW i \in 1..size, NEW j \in 1..size, i < j PROVE nth(i).version < nth(j).version
  <2>1. nth(i) \in records /\ nth(j) \in records /\ rank(nth(i)) = i /\ rank(nth(j)) = j
    BY <1>7
  <2>2. ~(nth(j).version < nth(i).version)
    BY <1>2, <1>4, <1>12, <2>1
  <2>3. nth(i) # nth(j)
    BY <1>2, <1>12, <2>1
  <2>4. nth(i).version # nth(j).version
    BY <2>1, <2>3
  <2> QED BY <1>1, <2>1, <2>2, <2>4
<1>13. \A r \in records : \E i \in 1..size : Compacted(records)[i].record = r
  <2> SUFFICES ASSUME NEW r \in records PROVE \E i \in 1..size : Compacted(records)[i].record = r
    OBVIOUS
  <2>1. rank(r) \in 1..size /\ nth(rank(r)) = r
    BY <1>3, <1>8
  <2> QED BY <1>11, <2>1
<1>14. \A i, j \in 1..size : i < j => Compacted(records)[i].record.version < Compacted(records)[j].record.version
  BY <1>11, <1>12
<1> QED BY <1>7, <1>10, <1>11, <1>13, <1>14

\* A record that stands in for one that stands in for another one does so too.
LEMMA SurvivesThrough ==
  ASSUME NEW r \in KnownRecord, NEW some \in SUBSET KnownRecord, NEW more \in SUBSET KnownRecord,
         Survives(r, some), \A x \in some : x.id = r.id => Survives(x, more)
  PROVE  Survives(r, more)
<1>1. PICK x \in some : x.id = r.id /\ (x = r \/ (keyed /\ x.version > r.version))
  BY DEF Survives
<1>2. PICK y \in more : y.id = x.id /\ (y = x \/ (keyed /\ y.version > x.version))
  BY <1>1 DEF Survives
<1>3. r.version \in Nat /\ x.version \in Nat /\ y.version \in Nat
  BY <1>1, <1>2 DEF KnownRecord
<1>4. y = r \/ (keyed /\ y.version > r.version)
  BY <1>1, <1>2, <1>3
<1> QED BY <1>1, <1>2, <1>4 DEF Survives

LEMMA SurvivesItself ==
  ASSUME NEW some, NEW r \in some
  PROVE  Survives(r, some)
BY DEF Survives

\* What the file holds.
LEMMA DiskTypes ==
  ASSUME LogTypes
  PROVE  /\ OnDisk \in SUBSET KnownRecord /\ SafeOnDisk \subseteq OnDisk
         /\ Load \subseteq OnDisk /\ IsFiniteSet(Load)
         /\ \A i \in DOMAIN file : file[i] \in KnownLine /\ file[i].record \in KnownRecord
         /\ DOMAIN file = 1..Len(file) /\ Len(file) \in Nat
<1>1. file \in Seq(KnownLine) /\ DOMAIN file = 1..Len(file) /\ Len(file) \in Nat
  BY LenProperties DEF LogTypes
<1>2. \A i \in DOMAIN file : file[i] \in KnownLine /\ file[i].record \in KnownRecord
  <2>1. file \in [1..Len(file) -> KnownLine]
    BY LenProperties DEF LogTypes
  <2> QED BY <1>1, <2>1 DEF KnownLine
<1>3. OnDisk \in SUBSET KnownRecord /\ SafeOnDisk \subseteq OnDisk
  BY <1>2 DEF OnDisk, SafeOnDisk
<1>4. Load \subseteq OnDisk
  BY DEF Load, OnDisk
<1>5. IsFiniteSet(Load)
  <2> DEFINE whole == {i \in DOMAIN file : file[i].parses}
             of == [i \in whole |-> file[i].record]
  <2>1. whole \subseteq 1..Len(file) /\ IsFiniteSet(1..Len(file))
    BY <1>1, FS_Interval
  <2>2. OnDisk = {file[i].record : i \in whole}
    BY DEF OnDisk
  <2> HIDE DEF whole
  <2>3. IsFiniteSet(whole)
    BY <2>1, FS_Subset
  <2>4. of \in Surjection(whole, OnDisk)
    BY <2>2 DEF Surjection
  <2> HIDE DEF of
  <2>5. IsFiniteSet(OnDisk)
    BY <2>3, <2>4, FS_Surjection
  <2> QED BY <1>4, <2>5, FS_Subset
<1> QED BY <1>1, <1>2, <1>3, <1>4, <1>5

\* What a process that starts makes of the file stands in for all that it holds.
LEMMA LoadHoldsTheFile ==
  ASSUME LogTypes, InOrderOfWriting, NEW x \in OnDisk
  PROVE  Survives(x, Load)
<1>1. DOMAIN file = 1..Len(file) /\ Len(file) \in Nat
      /\ \A k \in DOMAIN file : file[k].record \in KnownRecord
  BY DiskTypes
<1>2. PICK i \in 1..Len(file) : file[i].parses /\ file[i].record = x
  BY <1>1 DEF OnDisk
<1>3. CASE ~keyed
  <2>1. x \in Load
    BY <1>1, <1>2, <1>3 DEF Load
  <2> QED BY <2>1, SurvivesItself
<1>4. CASE keyed
  <2> DEFINE later == {j \in i..Len(file) : file[j].parses /\ file[j].record.id = x.id}
             fromEnd == {Len(file) - j : j \in later}
  <2>1. fromEnd \in SUBSET Nat /\ fromEnd # {}
    BY <1>1, <1>2
  <2>2. PICK least \in fromEnd : \A k \in fromEnd : least <= k
    BY <2>1, LeastOf
  <2>3. PICK j \in later : least = Len(file) - j
    BY <2>2
  <2>4. \A k \in later : k <= j
    <3> SUFFICES ASSUME NEW k \in later PROVE k <= j
      OBVIOUS
    <3>1. Len(file) - j <= Len(file) - k
      BY <2>2, <2>3
    <3> QED BY <1>1, <2>3, <3>1
  <2>5. j \in 1..Len(file) /\ i <= j /\ file[j].parses /\ file[j].record.id = x.id
    BY <1>1, <1>2, <2>3
  <2>6. \A k \in (j + 1)..Len(file) : file[k].parses => file[k].record.id # file[j].record.id
    <3> SUFFICES ASSUME NEW k \in (j + 1)..Len(file), file[k].parses, file[k].record.id = x.id PROVE FALSE
      BY <2>5
    <3>1. k \in later
      BY <1>1, <2>5
    <3> QED BY <1>1, <2>4, <2>5, <3>1
  <2>7. file[j].record \in Load
    BY <1>1, <1>4, <2>5, <2>6 DEF Load
  <2>8. file[j].record = x \/ file[j].record.version > x.version
    <3>1. i = j \/ i < j
      BY <1>1, <2>5
    <3>2. ASSUME i < j PROVE file[i].record.version < file[j].record.version
      BY <1>1, <2>5, <3>2 DEF InOrderOfWriting
    <3>3. file[j].record.version \in Nat /\ x.version \in Nat
      BY <1>1, <1>2, <2>5 DEF KnownRecord
    <3> QED BY <1>2, <3>1, <3>2, <3>3
  <2> QED BY <1>4, <2>5, <2>7, <2>8 DEF Survives
<1> QED BY <1>3, <1>4

\* Bytes that are appended make a line of their own, or spoil the one that was
\* cut short: whatever was safe is safe.
LEMMA AppendedLine ==
  ASSUME LogTypes, InOrderOfWriting, NEW r \in KnownRecord, r.version = written + 1, NEW p \in BOOLEAN,
         file' = Appended(r, p), cut' \in BOOLEAN, cut' \/ p, written' = written + 1
  PROVE  /\ file' \in Seq(KnownLine) /\ file' # <<>>
         /\ OnDisk' \subseteq OnDisk \cup {r} /\ SafeOnDisk \subseteq SafeOnDisk'
         /\ (~cut /\ ~cut') => r \in SafeOnDisk'
         /\ \A i \in DOMAIN file' : file'[i].record.version <= written'
         /\ \A i, j \in DOMAIN file' : i < j => file'[i].record.version < file'[j].record.version
<1>1. /\ DOMAIN file = 1..Len(file) /\ Len(file) \in Nat /\ file \in Seq(KnownLine)
      /\ \A i \in DOMAIN file : file[i] \in KnownLine /\ file[i].record \in KnownRecord
      /\ written \in Nat
  BY DiskTypes DEF LogTypes
<1>2. \A i \in DOMAIN file : file[i].record.version \in Nat /\ file[i].record.version <= written
  BY <1>1 DEF KnownRecord, InOrderOfWriting
<1>3. \A i, j \in DOMAIN file : i < j => file[i].record.version < file[j].record.version
  BY DEF InOrderOfWriting
<1>4. CASE cut
  <2>1. file' = [file EXCEPT ![Len(file)].parses = FALSE] /\ Len(file) \in DOMAIN file
    BY <1>1, <1>4 DEF Appended, LogTypes
  <2>2. [file[Len(file)] EXCEPT !.parses = FALSE] \in KnownLine
    BY <1>1, <2>1 DEF KnownLine
  <2>3. file' \in Seq(KnownLine) /\ Len(file') = Len(file)
    BY <1>1, <2>1, <2>2, ExceptSeq
  <2>4. /\ DOMAIN file' = DOMAIN file
        /\ \A i \in DOMAIN file : /\ file'[i].record = file[i].record
                                  /\ file'[i].parses => file[i].parses /\ i # Len(file)
                                  /\ i # Len(file) => file'[i] = file[i]
    BY <1>1, <2>1 DEF KnownLine
  <2>5. file' # <<>>
    BY <2>1, <2>4
  <2>6. OnDisk' \subseteq OnDisk
    BY <2>4 DEF OnDisk
  <2>7. SafeOnDisk \subseteq SafeOnDisk'
    <3> SUFFICES ASSUME NEW x \in SafeOnDisk PROVE x \in SafeOnDisk'
      OBVIOUS
    <3>1. PICK i \in DOMAIN file : file[i].parses /\ i # Len(file) /\ x = file[i].record
      BY <1>4 DEF SafeOnDisk
    <3>2. i \in DOMAIN file' /\ file'[i].parses /\ i # Len(file') /\ x = file'[i].record
      BY <2>3, <2>4, <3>1
    <3> QED BY <3>2 DEF SafeOnDisk
  <2>8. /\ \A i \in DOMAIN file' : file'[i].record.version <= written'
        /\ \A i, j \in DOMAIN file' : i < j => file'[i].record.version < file'[j].record.version
    BY <1>1, <1>2, <1>3, <2>4
  <2> QED BY <1>4, <2>3, <2>5, <2>6, <2>7, <2>8
<1>5. CASE ~cut
  <2> DEFINE line == [record |-> r, parses |-> p]
  <2>1. file' = Append(file, line) /\ line \in KnownLine /\ line.record = r /\ line.parses = p
    BY <1>5 DEF Appended, KnownLine
  <2> HIDE DEF line
  <2>2. /\ file' \in Seq(KnownLine) /\ Len(file') = Len(file) + 1 /\ file' # <<>>
        /\ DOMAIN file' = 1..(Len(file) + 1)
        /\ \A i \in 1..Len(file) : file'[i] = file[i]
        /\ file'[Len(file) + 1] = line
    BY <1>1, <2>1, AppendProperties, LenProperties
  <2>3. \A i \in DOMAIN file' : i \in DOMAIN file \/ i = Len(file) + 1
    BY <1>1, <2>2
  <2>4. OnDisk' \subseteq OnDisk \cup {r}
    <3> SUFFICES ASSUME NEW i \in DOMAIN file', file'[i].parses PROVE file'[i].record \in OnDisk \cup {r}
      BY DEF OnDisk
    <3>1. CASE i \in DOMAIN file
      BY <1>1, <2>2, <3>1 DEF OnDisk
    <3>2. CASE i = Len(file) + 1
      BY <2>1, <2>2, <3>2
    <3> QED BY <2>3, <3>1, <3>2
  <2>5. SafeOnDisk \subseteq SafeOnDisk'
    <3> SUFFICES ASSUME NEW x \in SafeOnDisk PROVE x \in SafeOnDisk'
      OBVIOUS
    <3>1. PICK i \in DOMAIN file : file[i].parses /\ x = file[i].record
      BY DEF SafeOnDisk
    <3>2. i \in DOMAIN file' /\ file'[i].parses /\ i # Len(file') /\ x = file'[i].record
      BY <1>1, <2>2, <3>1
    <3> QED BY <3>2 DEF SafeOnDisk
  <2>6. ~cut' => r \in SafeOnDisk'
    <3> SUFFICES ASSUME ~cut' PROVE r \in SafeOnDisk'
      OBVIOUS
    <3>1. Len(file) + 1 \in DOMAIN file' /\ file'[Len(file) + 1].parses /\ file'[Len(file) + 1].record = r
      BY <1>1, <2>1, <2>2
    <3> QED BY <3>1 DEF SafeOnDisk
  <2>7. \A i \in DOMAIN file' : file'[i].record.version <= written'
    BY <1>1, <1>2, <2>1, <2>2, <2>3
  <2>8. ASSUME NEW i \in DOMAIN file', NEW j \in DOMAIN file', i < j
        PROVE  file'[i].record.version < file'[j].record.version
    <3>1. i \in DOMAIN file /\ file'[i] = file[i]
      BY <1>1, <2>2, <2>8
    <3>2. CASE j \in DOMAIN file
      BY <1>1, <1>3, <2>2, <2>8, <3>1, <3>2
    <3>3. CASE j = Len(file) + 1
      BY <1>1, <1>2, <2>1, <2>2, <3>1, <3>3
    <3> QED BY <2>3, <3>2, <3>3
  <2> QED BY <2>2, <2>4, <2>5, <2>6, <2>7, <2>8
<1> QED BY <1>4, <1>5

\* What is put into memory is there, and what it held still is, or something newer.
LEMMA PutHolds ==
  ASSUME keyed \in BOOLEAN, NEW records \in SUBSET KnownRecord, IsFiniteSet(records), written \in Nat,
         \A x \in records : x.version <= written, NEW r \in KnownRecord, r.version = written + 1
  PROVE  /\ Put(records, r) \in SUBSET KnownRecord /\ IsFiniteSet(Put(records, r)) /\ r \in Put(records, r)
         /\ Put(records, r) \subseteq records \cup {r}
         /\ \A x \in Put(records, r) : x.version <= written + 1
         /\ \A x \in records : Survives(x, Put(records, r))
<1>1. Put(records, r) \subseteq records \cup {r} /\ r \in Put(records, r)
  BY DEF Put
<1>2. IsFiniteSet(records \cup {r})
  BY FS_AddElement
<1>3. IsFiniteSet(Put(records, r))
  BY <1>1, <1>2, FS_Subset
<1>4. \A x \in records \cup {r} : x.version \in Nat /\ x.version <= written + 1
  BY DEF KnownRecord
<1>5. ASSUME NEW x \in records PROVE Survives(x, Put(records, r))
  <2>1. CASE keyed /\ x.id = r.id
    <3>1. x.version \in Nat /\ x.version <= written
      BY DEF KnownRecord
    <3> QED BY <1>1, <2>1, <3>1 DEF Survives
  <2>2. CASE ~(keyed /\ x.id = r.id)
    BY <2>2 DEF Put, Survives
  <2> QED BY <2>1, <2>2
<1> QED BY <1>1, <1>3, <1>4, <1>5

LEMMA FreshIsKnown ==
  ASSUME written \in Nat, NEW id \in Id
  PROVE  FreshRecord(id) \in KnownRecord /\ FreshRecord(id).version = written + 1
BY DEF FreshRecord, KnownRecord

LEMMA LossesAreFinite ==
  ASSUME LogTypes
  PROVE  IsFiniteSet(LostForGood) /\ Cardinality(LostForGood) \in Nat
<1>1. LostForGood \subseteq acked /\ IsFiniteSet(acked)
  BY DEF LostForGood, LogTypes
<1> QED BY <1>1, FS_Subset, FS_CardinalityType

\* Nothing more is lost and no line is cut that was not paid for.
LEMMA NoMoreIsLost ==
  ASSUME LogInv, LostForGood' \subseteq LostForGood, cut' \in BOOLEAN, tears' \in Nat,
         (tears' = tears /\ (cut' => cut)) \/ tears' = tears + 1
  PROVE  TearsPayForLosses'
<1>1. /\ IsFiniteSet(LostForGood) /\ Cardinality(LostForGood) \in Nat /\ tears \in Nat
      /\ Cardinality(LostForGood) + (IF cut THEN 1 ELSE 0) <= tears
  BY LossesAreFinite DEF LogInv, LogTypes, TearsPayForLosses
<1>2. Cardinality(LostForGood') \in Nat /\ Cardinality(LostForGood') <= Cardinality(LostForGood)
  BY <1>1, FS_Subset, FS_CardinalityType
<1>3. PICK few \in Nat, more \in Nat : few = Cardinality(LostForGood') /\ more = Cardinality(LostForGood)
  BY <1>1, <1>2
<1>4. few + (IF cut' THEN 1 ELSE 0) <= tears'
  <2>1. few <= more /\ more + (IF cut THEN 1 ELSE 0) <= tears /\ tears \in Nat
    BY <1>1, <1>2, <1>3
  <2>2. CASE cut' /\ cut
    BY <2>1, <2>2
  <2>3. CASE cut' /\ ~cut
    BY <2>1, <2>3
  <2>4. CASE ~cut' /\ cut
    BY <2>1, <2>4
  <2>5. CASE ~cut' /\ ~cut
    BY <2>1, <2>5
  <2> QED BY <2>2, <2>3, <2>4, <2>5
<1> QED BY <1>3, <1>4 DEF TearsPayForLosses

LEMMA MemoryFollows ==
  ASSUME LogInv, process = "up", NEW r \in KnownRecord, r.version = written + 1,
         OnDisk' \subseteq OnDisk \cup {r}, index' = Put(index, r), keyed' = keyed, written' = written + 1
  PROVE  /\ index' \in SUBSET KnownRecord /\ IsFiniteSet(index')
         /\ \A x \in index' : x.version <= written'
         /\ \A x, y \in index' : x.version = y.version => x = y
         /\ \A x \in OnDisk' : Survives(x, index)'
<1>1. /\ index \in SUBSET KnownRecord /\ IsFiniteSet(index) /\ written \in Nat /\ keyed \in BOOLEAN
      /\ \A x \in index : x.version <= written
      /\ \A x, y \in index : x.version = y.version => x = y
      /\ OnDisk \in SUBSET KnownRecord /\ \A x \in OnDisk : Survives(x, index)
  BY DiskTypes DEF LogInv, LogTypes, InOrderOfWriting, MemoryHoldsTheFile
<1>2. /\ index' \in SUBSET KnownRecord /\ IsFiniteSet(index') /\ r \in index'
      /\ index' \subseteq index \cup {r}
      /\ \A x \in index' : x.version <= written + 1
      /\ \A x \in index : Survives(x, index')
  BY <1>1, PutHolds
<1>3. \A x, y \in index' : x.version = y.version => x = y
  <2>1. \A x \in index : x.version # r.version
    <3> SUFFICES ASSUME NEW x \in index PROVE x.version # written + 1
      OBVIOUS
    <3>1. x.version \in Nat /\ x.version <= written
      BY <1>1 DEF KnownRecord
    <3> QED BY <1>1, <3>1
  <2> QED BY <1>1, <1>2, <2>1
<1>4. ASSUME NEW x \in OnDisk' PROVE Survives(x, index)'
  <2>1. CASE x = r
    BY <1>2, <2>1 DEF Survives
  <2>2. CASE x # r
    <3>1. x \in OnDisk /\ x \in KnownRecord /\ Survives(x, index)
      BY <1>1, <2>2
    <3>2. Survives(x, index')
      BY <1>1, <1>2, <3>1, SurvivesThrough
    <3> QED BY <3>2 DEF Survives
  <2> QED BY <2>1, <2>2
<1> QED BY <1>2, <1>3, <1>4

LEMMA LogWrites ==
  ASSUME LogInv, NEW id \in Id, WriteRecord(id)
  PROVE  LogInv'
<1>0. /\ LogTypes /\ InOrderOfWriting /\ keyed \in BOOLEAN /\ cut \in BOOLEAN /\ written \in Nat /\ tears \in Nat
      /\ acked \in SUBSET KnownRecord /\ IsFiniteSet(acked) /\ \A x \in acked : x.version <= written
      /\ SafeOnDisk \in SUBSET KnownRecord
  BY DiskTypes DEF LogInv, LogTypes, InOrderOfWriting
<1>1. PICK r \in KnownRecord : r = FreshRecord(id) /\ r.version = written + 1
  BY <1>0, FreshIsKnown
<1>2. /\ process = "up" /\ process' = "up" /\ keyed' = keyed /\ tears' = tears /\ written' = written + 1
      /\ index' = Put(index, r) /\ acked' = Put(acked, r) /\ file' = Appended(r, TRUE) /\ cut' = FALSE
  BY <1>1 DEF WriteRecord
<1>3. /\ file' \in Seq(KnownLine) /\ file' # <<>>
      /\ OnDisk' \subseteq OnDisk \cup {r} /\ SafeOnDisk \subseteq SafeOnDisk'
      /\ ~cut => r \in SafeOnDisk'
      /\ \A i \in DOMAIN file' : file'[i].record.version <= written'
      /\ \A i, j \in DOMAIN file' : i < j => file'[i].record.version < file'[j].record.version
  BY <1>0, <1>1, <1>2, AppendedLine
<1>4. /\ index' \in SUBSET KnownRecord /\ IsFiniteSet(index')
      /\ \A x \in index' : x.version <= written'
      /\ \A x, y \in index' : x.version = y.version => x = y
      /\ \A x \in OnDisk' : Survives(x, index)'
  BY <1>1, <1>2, <1>3, MemoryFollows
<1>5. /\ acked' \in SUBSET KnownRecord /\ IsFiniteSet(acked') /\ \A x \in acked' : x.version <= written'
      /\ acked' \subseteq acked \cup {r}
  BY <1>0, <1>1, <1>2, PutHolds
<1>6. LostForGood' \subseteq LostForGood \cup (IF cut THEN {r} ELSE {})
  <2> SUFFICES ASSUME NEW x \in LostForGood' PROVE x \in LostForGood \/ (cut /\ x = r)
    OBVIOUS
  <2>1. x \in acked' /\ ~Survives(x, SafeOnDisk)'
    BY DEF LostForGood
  <2>2. CASE x = r
    BY <1>3, <2>1, <2>2 DEF Survives
  <2>3. CASE x # r
    <3>1. x \in acked
      BY <1>5, <2>1, <2>3
    <3>2. ~Survives(x, SafeOnDisk)
      BY <1>2, <1>3, <2>1 DEF Survives
    <3> QED BY <3>1, <3>2 DEF LostForGood
  <2> QED BY <2>2, <2>3
<1>7. TearsPayForLosses'
  <2>1. CASE ~cut
    BY <1>0, <1>2, <1>6, <2>1, NoMoreIsLost
  <2>2. CASE cut
    <3>1. /\ IsFiniteSet(LostForGood) /\ Cardinality(LostForGood) \in Nat
          /\ Cardinality(LostForGood) + 1 <= tears
      BY <1>0, <2>2, LossesAreFinite DEF LogInv, TearsPayForLosses
    <3>a. PICK lost : lost = LostForGood
      OBVIOUS
    <3>b. IsFiniteSet(lost) /\ Cardinality(lost) \in Nat
      BY <3>1, <3>a
    <3>c. /\ IsFiniteSet(lost \cup {r})
          /\ Cardinality(lost \cup {r}) = IF r \in lost THEN Cardinality(lost) ELSE Cardinality(lost) + 1
      BY <3>b, FS_AddElement
    <3>d. Cardinality(lost \cup {r}) \in Nat /\ Cardinality(lost \cup {r}) <= Cardinality(lost) + 1
      BY <3>b, <3>c
    <3>2. /\ IsFiniteSet(LostForGood \cup {r}) /\ Cardinality(LostForGood \cup {r}) \in Nat
          /\ Cardinality(LostForGood \cup {r}) <= Cardinality(LostForGood) + 1
      BY <3>a, <3>c, <3>d
    <3>3. LostForGood' \subseteq LostForGood \cup {r}
      BY <1>6, <2>2
    <3>4. /\ Cardinality(LostForGood') <= Cardinality(LostForGood \cup {r})
          /\ Cardinality(LostForGood') \in Nat
      BY <3>2, <3>3, FS_Subset, FS_CardinalityType
    <3>5. Cardinality(LostForGood') + 0 <= tears'
      BY <1>0, <1>2, <3>1, <3>2, <3>4
    <3> QED BY <1>2, <3>5 DEF TearsPayForLosses
  <2> QED BY <2>1, <2>2
<1>8. LogTypes'
  <2>1. written' \in Nat /\ process' \in {"up", "renaming", "down"} /\ cut' = FALSE /\ keyed' \in BOOLEAN /\ tears' \in Nat
    BY <1>0, <1>2
  <2>2. file' \in Seq(KnownLine) /\ index' \in SUBSET KnownRecord /\ IsFiniteSet(index')
        /\ acked' \in SUBSET KnownRecord /\ IsFiniteSet(acked')
    BY <1>3, <1>4, <1>5
  <2> QED BY <2>1, <2>2, Zenon DEF LogTypes
<1>9. InOrderOfWriting'
  BY <1>3, <1>4, <1>5 DEF InOrderOfWriting
<1>10. MemoryHoldsTheFile'
  BY <1>2, <1>4 DEF MemoryHoldsTheFile
<1> QED BY <1>7, <1>8, <1>9, <1>10 DEF LogInv

LEMMA LogTears ==
  ASSUME LogInv, NEW id \in Id, WriteCutShort(id)
  PROVE  LogInv'
<1>0. /\ LogTypes /\ InOrderOfWriting /\ keyed \in BOOLEAN /\ cut \in BOOLEAN /\ written \in Nat /\ tears \in Nat
      /\ acked \in SUBSET KnownRecord /\ IsFiniteSet(acked) /\ \A x \in acked : x.version <= written
      /\ \A x \in acked : x.version \in Nat
  BY DEF LogInv, LogTypes, InOrderOfWriting, KnownRecord
<1>1. PICK r \in KnownRecord : r = FreshRecord(id) /\ r.version = written + 1
  BY <1>0, FreshIsKnown
<1>2. /\ process = "up" /\ keyed' = keyed /\ tears' = tears + 1 /\ written' = written + 1
      /\ acked' = acked /\ cut' = TRUE
      /\ (process' = "down" /\ index' = {}) \/ (process' = "up" /\ index' = Put(index, r))
  BY <1>1 DEF WriteCutShort
<1>3. PICK p \in BOOLEAN : file' = Appended(r, p)
  BY <1>1 DEF WriteCutShort
<1>4. /\ file' \in Seq(KnownLine) /\ file' # <<>>
      /\ OnDisk' \subseteq OnDisk \cup {r} /\ SafeOnDisk \subseteq SafeOnDisk'
      /\ \A i \in DOMAIN file' : file'[i].record.version <= written'
      /\ \A i, j \in DOMAIN file' : i < j => file'[i].record.version < file'[j].record.version
  BY <1>0, <1>1, <1>2, <1>3, AppendedLine
<1>5. LostForGood' \subseteq LostForGood
  BY <1>2, <1>4 DEF LostForGood, Survives
<1>6. TearsPayForLosses'
  BY <1>0, <1>2, <1>5, NoMoreIsLost
<1>7. \A x \in acked' : x.version <= written'
  BY <1>0, <1>2
<1>8. CASE process' = "down" /\ index' = {}
  <2>1. LogTypes'
    BY <1>0, <1>2, <1>4, <1>8, FS_EmptySet DEF LogTypes
  <2>2. InOrderOfWriting'
    BY <1>4, <1>7, <1>8 DEF InOrderOfWriting
  <2>3. MemoryHoldsTheFile'
    BY <1>8 DEF MemoryHoldsTheFile
  <2> QED BY <1>6, <2>1, <2>2, <2>3 DEF LogInv
<1>9. CASE process' = "up" /\ index' = Put(index, r)
  <2>1. /\ index' \in SUBSET KnownRecord /\ IsFiniteSet(index')
        /\ \A x \in index' : x.version <= written'
        /\ \A x, y \in index' : x.version = y.version => x = y
        /\ \A x \in OnDisk' : Survives(x, index)'
    BY <1>1, <1>2, <1>4, <1>9, MemoryFollows
  <2>2. LogTypes'
    BY <1>0, <1>2, <1>4, <1>9, <2>1 DEF LogTypes
  <2>3. InOrderOfWriting'
    BY <1>4, <1>7, <2>1 DEF InOrderOfWriting
  <2>4. MemoryHoldsTheFile'
    BY <1>9, <2>1 DEF MemoryHoldsTheFile
  <2> QED BY <1>6, <2>2, <2>3, <2>4 DEF LogInv
<1> QED BY <1>2, <1>8, <1>9

\* A file that stays as it is holds what it held.
LEMMA FileStays ==
  ASSUME file' = file, cut' = cut, keyed' = keyed
  PROVE  OnDisk' = OnDisk /\ SafeOnDisk' = SafeOnDisk /\ Load' = Load
         /\ \A r : Survives(r, SafeOnDisk)' <=> Survives(r, SafeOnDisk)
BY DEF OnDisk, SafeOnDisk, Load, Survives

LEMMA LogRewrites ==
  ASSUME LogInv, NEW records \in SUBSET index, Rewrite(records),
         \A x \in index : (\E y \in records : y.id = x.id) => x \in records
  PROVE  LogInv'
<1>0. /\ LogTypes /\ InOrderOfWriting
      /\ index \in SUBSET KnownRecord /\ IsFiniteSet(index) /\ acked \in SUBSET KnownRecord /\ IsFiniteSet(acked)
      /\ cut \in BOOLEAN /\ tears \in Nat
  BY DEF LogInv, LogTypes
<1>1. /\ keyed /\ keyed' = keyed /\ process = "up" /\ process' = "renaming" /\ index' = records
      /\ acked' = {r \in acked : \E x \in records : x.id = r.id}
      /\ UNCHANGED <<file, cut, written, tears>>
  BY DEF Rewrite
<1>2. /\ OnDisk' = OnDisk /\ SafeOnDisk' = SafeOnDisk
      /\ \A r : Survives(r, SafeOnDisk)' <=> Survives(r, SafeOnDisk)
  BY <1>1, FileStays
<1>3. LostForGood' \subseteq LostForGood
  BY <1>1, <1>2 DEF LostForGood
<1>4. TearsPayForLosses'
  BY <1>0, <1>1, <1>3, NoMoreIsLost
<1>5. IsFiniteSet(index') /\ IsFiniteSet(acked') /\ acked' \subseteq acked
  BY <1>0, <1>1, FS_Subset
<1>6. LogTypes'
  BY <1>0, <1>1, <1>5 DEF LogTypes
<1>7. InOrderOfWriting'
  BY <1>0, <1>1, <1>5 DEF InOrderOfWriting
<1>8. ASSUME NEW x \in OnDisk, NEW y \in records, y.id = x.id PROVE Survives(x, index)'
  <2>1. PICK z \in index : z.id = x.id /\ (z = x \/ (keyed /\ z.version > x.version))
    BY <1>1 DEF LogInv, MemoryHoldsTheFile, Survives
  <2>2. z \in records
    BY <1>8, <2>1
  <2> QED BY <1>1, <2>1, <2>2 DEF Survives
<1>9. MemoryHoldsTheFile'
  BY <1>1, <1>2, <1>8 DEF MemoryHoldsTheFile
<1> QED BY <1>4, <1>6, <1>7, <1>9 DEF LogInv

LEMMA LogRenames ==
  ASSUME LogInv, Rename
  PROVE  LogInv'
<1>0. /\ LogTypes /\ InOrderOfWriting /\ keyed
      /\ index \in SUBSET KnownRecord /\ IsFiniteSet(index) /\ acked \in SUBSET KnownRecord
      /\ cut \in BOOLEAN /\ tears \in Nat /\ written \in Nat
      /\ \A x, y \in index : x.version = y.version => x = y
  BY DEF LogInv, LogTypes, InOrderOfWriting, Rename, MemoryHoldsTheFile
<1>1. /\ process = "renaming" /\ process' = "up" /\ file' = Compacted(index) /\ cut' = FALSE
      /\ UNCHANGED <<keyed, index, written, acked, tears>>
  BY DEF Rename
<1>2. /\ file' \in Seq(KnownLine)
      /\ \A i \in DOMAIN file' : file'[i].parses /\ file'[i].record \in index
      /\ \A r \in index : \E i \in DOMAIN file' : file'[i].record = r
      /\ \A i, j \in DOMAIN file' : i < j => file'[i].record.version < file'[j].record.version
  BY <1>0, <1>1, CompactedIsTheIndex
<1>3. OnDisk' = index /\ SafeOnDisk' = index
  BY <1>1, <1>2 DEF OnDisk, SafeOnDisk
<1>4. ASSUME NEW x \in acked, Survives(x, SafeOnDisk) PROVE Survives(x, SafeOnDisk)'
  <2>1. \E y \in index : y.id = x.id
    BY <1>1 DEF LogInv, MemoryHoldsTheFile
  <2>2. \A z \in SafeOnDisk : z.id = x.id => Survives(z, index)
    BY <1>0, <1>1, <2>1, DiskTypes DEF LogInv, MemoryHoldsTheFile
  <2>3. SafeOnDisk \in SUBSET KnownRecord /\ x \in KnownRecord
    BY <1>0, DiskTypes
  <2>4. Survives(x, index)
    BY <1>0, <1>4, <2>2, <2>3, SurvivesThrough
  <2> QED BY <1>1, <1>3, <2>4 DEF Survives
<1>5. LostForGood' \subseteq LostForGood
  BY <1>1, <1>4 DEF LostForGood
<1>6. TearsPayForLosses'
  BY <1>0, <1>1, <1>5, NoMoreIsLost
<1>7. LogTypes'
  BY <1>0, <1>1, <1>2 DEF LogTypes
<1>8. InOrderOfWriting'
  BY <1>0, <1>1, <1>2 DEF InOrderOfWriting
<1>9. MemoryHoldsTheFile'
  BY <1>1, <1>3 DEF MemoryHoldsTheFile, Survives
<1> QED BY <1>6, <1>7, <1>8, <1>9 DEF LogInv

LEMMA LogDiesOrReopens ==
  ASSUME LogInv, Die \/ Reopen
  PROVE  LogInv'
<1>0. LogTypes /\ InOrderOfWriting /\ cut \in BOOLEAN /\ tears \in Nat
  BY DEF LogInv, LogTypes
<1>1. /\ UNCHANGED <<keyed, file, cut, written, acked, tears>>
      /\ (process' = "down" /\ index' = {}) \/ (process' = "up" /\ index' = Load)
  BY DEF Die, Reopen
<1>2. /\ OnDisk' = OnDisk /\ SafeOnDisk' = SafeOnDisk
      /\ \A r : Survives(r, SafeOnDisk)' <=> Survives(r, SafeOnDisk)
  BY <1>1, FileStays
<1>3. LostForGood' \subseteq LostForGood
  BY <1>1, <1>2 DEF LostForGood
<1>4. TearsPayForLosses'
  BY <1>0, <1>1, <1>3, NoMoreIsLost
<1>5. CASE process' = "down" /\ index' = {}
  <2>1. LogTypes'
    BY <1>0, <1>1, <1>5, FS_EmptySet DEF LogTypes
  <2>2. InOrderOfWriting'
    BY <1>0, <1>1, <1>5 DEF InOrderOfWriting
  <2>3. MemoryHoldsTheFile'
    BY <1>5 DEF MemoryHoldsTheFile
  <2> QED BY <1>4, <2>1, <2>2, <2>3 DEF LogInv
<1>6. CASE process' = "up" /\ index' = Load
  <2>1. Load \in SUBSET KnownRecord /\ IsFiniteSet(Load)
    BY <1>0, DiskTypes
  <2>2. LogTypes'
    BY <1>0, <1>1, <1>6, <2>1 DEF LogTypes
  <2>3. \A x \in Load : \E i \in DOMAIN file : x = file[i].record
    BY DEF Load
  <2>4. /\ \A x \in Load : x.version <= written
        /\ \A x, y \in Load : x.version = y.version => x = y
    <3>1. DOMAIN file = 1..Len(file) /\ Len(file) \in Nat /\ \A i \in DOMAIN file : file[i].record.version \in Nat
      BY <1>0, DiskTypes DEF KnownRecord
    <3>2. \A i, j \in DOMAIN file : file[i].record.version = file[j].record.version => i = j
      <4> SUFFICES ASSUME NEW i \in DOMAIN file, NEW j \in DOMAIN file,
                          file[i].record.version = file[j].record.version, i # j
                   PROVE  FALSE
        OBVIOUS
      <4>1. i < j \/ j < i
        BY <3>1
      <4> QED BY <1>0, <3>1, <4>1 DEF InOrderOfWriting
    <3> QED BY <1>0, <2>3, <3>2 DEF InOrderOfWriting
  <2>5. InOrderOfWriting'
    BY <1>0, <1>1, <1>6, <2>4 DEF InOrderOfWriting
  <2>6. \A x \in OnDisk : Survives(x, Load)
    BY <1>0, LoadHoldsTheFile
  <2>7. MemoryHoldsTheFile'
    BY <1>1, <1>2, <1>6, <2>6 DEF MemoryHoldsTheFile, Survives
  <2> QED BY <1>4, <2>2, <2>5, <2>7 DEF LogInv
<1> QED BY <1>1, <1>5, <1>6
LEMMA LogStarts ==
  ASSUME NEW kind \in BOOLEAN, DurableLogInit(kind)
  PROVE  LogInv
<1>1. keyed \in BOOLEAN /\ file = <<>> /\ cut = FALSE /\ index = {} /\ process = "up"
      /\ written = 0 /\ acked = {} /\ tears = 0
  BY DEF DurableLogInit
<1>2. DOMAIN file = {} /\ file \in Seq(KnownLine)
  BY <1>1, EmptySeq
<1>3. OnDisk = {} /\ LostForGood = {}
  BY <1>1, <1>2 DEF OnDisk, LostForGood
<1>4. LogTypes
  BY <1>1, <1>2, FS_EmptySet DEF LogTypes
<1>5. InOrderOfWriting /\ MemoryHoldsTheFile
  BY <1>1, <1>2, <1>3 DEF InOrderOfWriting, MemoryHoldsTheFile
<1>6. TearsPayForLosses
  BY <1>1, <1>3, FS_EmptySet DEF TearsPayForLosses
<1> QED BY <1>4, <1>5, <1>6 DEF LogInv

LEMMA LogSteps ==
  ASSUME LogInv, DurableLogNext
  PROVE  LogInv'
<1>1. ASSUME NEW id \in Id, Delete(id) PROVE LogInv'
  <2> DEFINE spared == {r \in index : r.id # id}
  <2>1. spared \in SUBSET index /\ Rewrite(spared)
    BY <1>1 DEF Delete
  <2>2. \A x \in index : (\E y \in spared : y.id = x.id) => x \in spared
    OBVIOUS
  <2> HIDE DEF spared
  <2> QED BY <2>1, <2>2, LogRewrites
<1>2. ASSUME Compact PROVE LogInv'
  <2>1. index \in SUBSET index /\ Rewrite(index)
    BY <1>2 DEF Compact
  <2> QED BY <2>1, LogRewrites
<1> QED BY <1>1, <1>2, LogWrites, LogTears, LogRenames, LogDiesOrReopens DEF DurableLogNext

LEMMA LogIsGood ==
  ASSUME LogInv
  PROVE  ATearCostsOneRecord /\ ReadersSeeTheFile
<1> DEFINE lostNow == {r \in acked : ~Survives(r, Load)}
<1>0. /\ LogTypes /\ InOrderOfWriting /\ cut \in BOOLEAN /\ tears \in Nat /\ acked \in SUBSET KnownRecord
      /\ SafeOnDisk \subseteq OnDisk /\ OnDisk \in SUBSET KnownRecord /\ Load \subseteq OnDisk
  BY DiskTypes DEF LogInv, LogTypes
<1>1. lostNow \subseteq LostForGood
  <2> SUFFICES ASSUME NEW r \in acked, Survives(r, SafeOnDisk) PROVE Survives(r, Load)
    BY DEF LostForGood
  <2>1. SafeOnDisk \in SUBSET KnownRecord /\ Load \in SUBSET KnownRecord /\ r \in KnownRecord
    BY <1>0
  <2>2. \A x \in SafeOnDisk : x.id = r.id => Survives(x, Load)
    BY <1>0, LoadHoldsTheFile
  <2> QED BY <2>1, <2>2, SurvivesThrough
<1>2. /\ IsFiniteSet(LostForGood) /\ Cardinality(LostForGood) \in Nat
      /\ Cardinality(LostForGood) <= tears
  BY <1>0, LossesAreFinite DEF LogInv, TearsPayForLosses
<1>3. Cardinality(lostNow) \in Nat /\ Cardinality(lostNow) <= Cardinality(LostForGood)
  <2> HIDE DEF lostNow
  <2> QED BY <1>1, <1>2, FS_Subset, FS_CardinalityType
<1>4. ATearCostsOneRecord
  <2>1. Cardinality(lostNow) <= tears
    <3> HIDE DEF lostNow
    <3>1. PICK few \in Nat, more \in Nat : few = Cardinality(lostNow) /\ more = Cardinality(LostForGood)
      BY <1>2, <1>3
    <3> QED BY <1>0, <1>2, <1>3, <3>1
  <2> QED BY <2>1 DEF ATearCostsOneRecord
<1>5. ReadersSeeTheFile
  BY <1>0 DEF LogInv, MemoryHoldsTheFile, ReadersSeeTheFile
<1> QED BY <1>4, <1>5

LEMMA LogRests ==
  ASSUME LogInv, UNCHANGED DurableLogVars
  PROVE  LogInv'
<1>1. UNCHANGED <<keyed, file, cut, index, process, written, acked, tears>>
  BY DEF DurableLogVars
<1>2. LogTypes' /\ InOrderOfWriting'
  BY <1>1 DEF LogInv, LogTypes, InOrderOfWriting
<1>3. MemoryHoldsTheFile'
  BY <1>1 DEF LogInv, MemoryHoldsTheFile, OnDisk, Survives
<1>4. TearsPayForLosses'
  BY <1>1 DEF LogInv, TearsPayForLosses, LostForGood, SafeOnDisk, Survives
<1> QED BY <1>2, <1>3, <1>4 DEF LogInv

\* What the files under the store promise of a death, whenever it comes
\* (jsonl.ts, workspace snapshots): a write cut short costs at most one record
\* that was acknowledged, a process that lives sees all that the file gives, a
\* snapshot that was saved holds every blob it names, and a restore of it that
\* ended without a torn blob is exact.
THEOREM FilesSurvive == RecordsSpec => []FilesSurviveDeaths
<1> DEFINE Inv == LogInv /\ SnapshotInv
<1>1. RecordsInit => Inv
  <2> SUFFICES ASSUME RecordsInit PROVE Inv
    OBVIOUS
  <2>1. PICK kind \in BOOLEAN : DurableLogInit(kind)
    BY DEF RecordsInit
  <2>2. SnapshotInit
    BY DEF RecordsInit
  <2> QED BY <2>1, <2>2, LogStarts, SnapshotStarts
<1>2. Inv /\ [RecordsNext]_recordsVars => Inv'
  <2> SUFFICES ASSUME LogInv, SnapshotInv, [RecordsNext]_recordsVars PROVE LogInv' /\ SnapshotInv'
    OBVIOUS
  <2>1. LogInv'
    <3>1. DurableLogNext \/ UNCHANGED DurableLogVars
      BY StoresRest
    <3> QED BY <3>1, LogSteps, LogRests
  <2>2. SnapshotInv'
    <3>1. SnapshotNext \/ UNCHANGED SnapshotVars
      BY StoresRest
    <3>2. CASE UNCHANGED SnapshotVars
      BY <3>2 DEF SnapshotInv, SnapshotVars, HaveBlobs, IsPast, SnapshotIsComplete, Found, WalkRow
    <3> QED BY <3>1, <3>2, SnapshotSteps
  <2> QED BY <2>1, <2>2
<1>3. Inv => FilesSurviveDeaths
  BY LogIsGood, SnapshotIsGood DEF FilesSurviveDeaths, Of
<1> HIDE DEF Inv
<1> QED BY <1>1, <1>2, <1>3, PTL DEF RecordsSpec
-----------------------------------------------------------------------------
(* The event log and those who follow it.  The stores refuse a number that is  *)
(* taken, so the numbers are those from 1 on and a page is a stretch of them.  *)
(* What an emitter holds is at most the next number; what a reader has seen    *)
(* ends at the cursor of its stream, and the page in hand goes on from there.  *)

\* A sequence that counts on from a number.
CountsOn(s, from) == s \in Seq(Nat) /\ \A k \in 1..Len(s) : s[k] = from + k

LEMMA StretchSize ==
  ASSUME NEW from \in Nat, NEW to \in Nat, from <= to
  PROVE  IsFiniteSet((from + 1)..to) /\ Cardinality((from + 1)..to) = to - from
<1>1. PICK first \in Int, last \in Int : first = from + 1 /\ last = to
  OBVIOUS
<1>2. IsFiniteSet(first..last) /\ Cardinality(first..last) = IF first > last THEN 0 ELSE last - first + 1
  BY FS_Interval
<1>3. (IF first > last THEN 0 ELSE last - first + 1) = to - from
  BY <1>1
<1> QED BY <1>1, <1>2, <1>3

\* A page is the stretch of numbers after its cursor.
LEMMA PageCountsOn ==
  ASSUME CountsOn(events, 0), NEW c \in Nat, NEW limit \in Nat, c <= Len(events)
  PROVE  CountsOn(PageAfter(c, limit), c) /\ c + Len(PageAfter(c, limit)) <= Len(events)
<1> DEFINE newer == {i \in DOMAIN events : events[i] > c}
           nth(k) == CHOOSE i \in newer : Cardinality({j \in newer : j <= i}) = k
           size == IF Cardinality(newer) <= limit THEN Cardinality(newer) ELSE limit
<1>1. Len(events) \in Nat /\ DOMAIN events = 1..Len(events) /\ \A i \in 1..Len(events) : events[i] = i
  BY LenProperties DEF CountsOn
<1>2. newer = (c + 1)..Len(events)
  BY <1>1
<1>3. IsFiniteSet(newer) /\ Cardinality(newer) = Len(events) - c
  <2> HIDE DEF newer
  <2> QED BY <1>1, <1>2, StretchSize
<1>4. \A i \in newer : Cardinality({j \in newer : j <= i}) = i - c
  <2> SUFFICES ASSUME NEW i \in newer PROVE Cardinality({j \in newer : j <= i}) = i - c
    OBVIOUS
  <2>1. {j \in newer : j <= i} = (c + 1)..i /\ i \in Nat /\ c <= i
    BY <1>1, <1>2
  <2> HIDE DEF newer
  <2> QED BY <2>1, StretchSize
<1> HIDE DEF newer
<1>5. size \in Nat /\ size <= Len(events) - c
  BY <1>1, <1>3
<1>6. \A k \in 1..size : nth(k) = c + k /\ c + k \in 1..Len(events)
  <2> SUFFICES ASSUME NEW k \in 1..size PROVE nth(k) = c + k /\ c + k \in 1..Len(events)
    OBVIOUS
  <2> HIDE DEF size
  <2>1. c + k \in newer /\ c + k \in 1..Len(events)
    BY <1>1, <1>2, <1>5
  <2>2. \E i \in newer : Cardinality({j \in newer : j <= i}) = k
    BY <1>4, <2>1
  <2>3. nth(k) \in newer /\ Cardinality({j \in newer : j <= nth(k)}) = k
    BY <2>2
  <2> HIDE DEF nth
  <2>4. nth(k) - c = k
    BY <1>4, <2>3
  <2> QED BY <1>2, <2>1, <2>3, <2>4
<1>7. PageAfter(c, limit) = [k \in 1..size |-> events[nth(k)]]
  BY DEF PageAfter, newer
<1> HIDE DEF nth, size
<1>8. PageAfter(c, limit) = [k \in 1..size |-> c + k]
  BY <1>1, <1>6, <1>7
<1>9. [k \in 1..size |-> c + k] \in Seq(Nat) /\ Len([k \in 1..size |-> c + k]) = size
  <2>1. [k \in 1..size |-> c + k] \in [1..size -> Nat]
    BY <1>5
  <2> QED BY <1>5, <2>1, SeqDef, LenProperties
<1> QED BY <1>1, <1>5, <1>8, <1>9 DEF CountsOn
EmitterRow == [at : {"idle", "numbered", "refused"}, number : Nat, left : Int]
ReaderRow == [kind : {"follower", "dashboard"}, at : {"away", "loading", "loaded", "following", "ended"},
              seen : Seq(Nat), left : Int]
StreamRow == [at : {"off", "list", "send"}, cursor : Nat, page : Seq(Nat), idle : BOOLEAN]

NumbersAreTaken ==
  /\ CountsOn(events, 0)
  /\ emitter \in [Emitter -> EmitterRow]
  /\ \A e \in Emitter : emitter[e].at = "numbered" => emitter[e].number <= Len(events) + 1

CursorIsWhatWasSeen ==
  /\ reader \in ReaderRow /\ stream \in StreamRow
  /\ CountsOn(reader.seen, 0) /\ Len(reader.seen) <= Len(events)
  /\ reader.at = "loading" => reader.seen = <<>>
  /\ reader.at # "following" => stream.at = "off"
  /\ stream.at # "off" => stream.cursor = Len(reader.seen)
  /\ CountsOn(stream.page, stream.cursor) /\ stream.cursor + Len(stream.page) <= Len(events)

EventsInv == NumbersAreTaken /\ CursorIsWhatWasSeen

\* What a step does to the feed that the reader was promised.
StoredOne == Len(events') = Len(events) + 1 /\ UNCHANGED reader
SawMore ==
  /\ \E n \in (Len(reader.seen) + 1)..Len(events) : reader'.seen = [i \in 1..n |-> i]
  /\ UNCHANGED events
SawNothing == UNCHANGED <<events, reader.seen>>
BeganAgain == reader'.seen = <<>> /\ UNCHANGED events

LEMMA CountingIs ==
  ASSUME NEW s, NEW from \in Nat, CountsOn(s, from)
  PROVE  s \in Seq(Nat) /\ Len(s) \in Nat /\ s = [k \in 1..Len(s) |-> from + k]
<1>1. s \in Seq(Nat) /\ Len(s) \in Nat /\ s \in [1..Len(s) -> Nat] /\ \A k \in 1..Len(s) : s[k] = from + k
  BY LenProperties DEF CountsOn
<1> QED BY <1>1

LEMMA CountingShrinks ==
  ASSUME NEW s, NEW from \in Nat, CountsOn(s, from), s # <<>>
  PROVE  /\ Len(s) \in Nat /\ Len(s) > 0 /\ Head(s) = from + 1 /\ Head(s) \in Nat
         /\ CountsOn(Tail(s), from + 1) /\ Tail(s) \in Seq(Nat) /\ Len(Tail(s)) = Len(s) - 1
<1>1. s \in Seq(Nat) /\ Len(s) \in Nat /\ \A k \in 1..Len(s) : s[k] = from + k
  BY LenProperties DEF CountsOn
<1>2. Len(s) > 0
  BY <1>1, EmptySeq
<1>3. /\ Tail(s) \in Seq(Nat) /\ Len(Tail(s)) = Len(s) - 1
      /\ \A k \in 1..Len(Tail(s)) : Tail(s)[k] = s[k + 1]
  BY <1>1, HeadTailProperties
<1>4. Head(s) = s[1]
  BY <1>1, <1>2
<1>5. \A k \in 1..(Len(s) - 1) : s[k + 1] = (from + 1) + k
  BY <1>1
<1> QED BY <1>1, <1>2, <1>3, <1>4, <1>5 DEF CountsOn

LEMMA CountingGrows ==
  ASSUME NEW s, NEW from \in Nat, CountsOn(s, from), NEW next, next = from + Len(s) + 1
  PROVE  /\ CountsOn(Append(s, next), from) /\ Append(s, next) \in Seq(Nat)
         /\ Append(s, next) = [k \in 1..(Len(s) + 1) |-> from + k]
         /\ Len(Append(s, next)) = Len(s) + 1
<1>1. s \in Seq(Nat) /\ Len(s) \in Nat /\ \A k \in 1..Len(s) : s[k] = from + k
  BY LenProperties DEF CountsOn
<1> DEFINE longer == Append(s, next)
<1>3. next \in Nat
  BY <1>1
<1>4. /\ longer \in Seq(Nat) /\ Len(longer) = Len(s) + 1
      /\ \A k \in 1..Len(s) : longer[k] = s[k]
      /\ longer[Len(s) + 1] = next
  BY <1>1, <1>3, AppendProperties
<1> HIDE DEF longer
<1>5. \A k \in 1..(Len(s) + 1) : longer[k] = from + k
  <2> SUFFICES ASSUME NEW k \in 1..(Len(s) + 1) PROVE longer[k] = from + k
    OBVIOUS
  <2>1. CASE k \in 1..Len(s)
    BY <1>1, <1>4, <2>1
  <2>2. CASE k = Len(s) + 1
    <3>1. next = from + (Len(s) + 1)
      BY <1>1
    <3> QED BY <1>4, <2>2, <3>1
  <2> QED BY <1>1, <2>1, <2>2
<1>6. longer = [k \in 1..(Len(s) + 1) |-> from + k]
  <2>1. longer \in [1..Len(longer) -> Nat]
    BY <1>4, LenProperties
  <2> QED BY <1>4, <1>5, <2>1
<1>7. CountsOn(longer, from)
  BY <1>4, <1>5 DEF CountsOn
<1> QED BY <1>4, <1>6, <1>7 DEF longer

LEMMA NothingCountsOn ==
  ASSUME NEW from
  PROVE  CountsOn(<<>>, from) /\ Len(<<>>) = 0
BY EmptySeq DEF CountsOn

LEMMA EventsStart ==
  ASSUME NEW kind \in {"follower", "dashboard"}, EventHistoryInit(kind)
  PROVE  EventsInv /\ events = <<>> /\ reader.seen = <<>>
<1>1. NumbersAreTaken
  BY EventHistoryAssumption, NothingCountsOn DEF EventHistoryInit, NumbersAreTaken, EmitterRow
<1>2. CursorIsWhatWasSeen
  BY EventHistoryAssumption, NothingCountsOn, EmptySeq
     DEF EventHistoryInit, CursorIsWhatWasSeen, ReaderRow, StreamRow, NoStream
<1> QED BY <1>1, <1>2 DEF EventsInv, EventHistoryInit
\* An emitter keeps the number it read while others append, and loses with it.
LEMMA EmittersKeepNumbers ==
  ASSUME NumbersAreTaken, EmitStep
  PROVE  /\ NumbersAreTaken' /\ UNCHANGED <<reader, stream>>
         /\ UNCHANGED events \/ Len(events') = Len(events) + 1
<1>0. /\ events \in Seq(Nat) /\ Len(events) \in Nat /\ emitter \in [Emitter -> EmitterRow]
      /\ \A e \in Emitter : emitter[e].at = "numbered" => emitter[e].number <= Len(events) + 1
      /\ "session" \in Emitter /\ Bystander \subseteq Emitter
  BY CountingIs DEF NumbersAreTaken, Emitter
<1>1. LastNumber = Len(events)
  <2>1. CASE events = <<>>
    BY <2>1, EmptySeq DEF LastNumber
  <2>2. CASE events # <<>>
    BY <1>0, <2>2, CountingShrinks DEF LastNumber, Last, NumbersAreTaken, CountsOn
  <2> QED BY <2>1, <2>2
<1>2. ASSUME NEW e \in Emitter, ReadNumber(e)
      PROVE  NumbersAreTaken' /\ UNCHANGED <<reader, stream, events>>
  <2>0. PICK n \in Nat : n = Len(events) + 1
    BY <1>0
  <2>1. /\ emitter' = [emitter EXCEPT ![e].at = "numbered", ![e].number = n]
        /\ UNCHANGED <<events, reader, stream>>
    BY <1>1, <1>2, <2>0 DEF ReadNumber
  <2>2. emitter' \in [Emitter -> EmitterRow]
    BY <1>0, <2>1 DEF EmitterRow
  <2>3. \A f \in Emitter : emitter'[f].at = "numbered" => emitter'[f].number <= Len(events) + 1
    BY <1>0, <2>0, <2>1 DEF EmitterRow
  <2> QED BY <2>1, <2>2, <2>3 DEF NumbersAreTaken, CountsOn
<1>3. ASSUME NEW e \in Emitter, AppendEvent(e)
      PROVE  NumbersAreTaken' /\ UNCHANGED <<reader, stream>> /\ Len(events') = Len(events) + 1
  <2>1. /\ emitter[e].at = "numbered" /\ ~(emitter[e].number <= Len(events))
        /\ events' = Append(events, emitter[e].number)
        /\ emitter' = [emitter EXCEPT ![e].at = "idle", ![e].left = @ - 1]
        /\ UNCHANGED <<reader, stream>>
    BY <1>1, <1>3 DEF AppendEvent, Taken
  <2>2. emitter[e].number \in Nat
    BY <1>0 DEF EmitterRow
  <2>3. emitter[e].number = 0 + Len(events) + 1
    BY <1>0, <2>1, <2>2
  <2>4. CountsOn(events', 0) /\ Len(events') = Len(events) + 1
    <3>1. CountsOn(events, 0)
      BY DEF NumbersAreTaken
    <3> HIDE DEF NumbersAreTaken
    <3>2. PICK next : next = emitter[e].number
      OBVIOUS
    <3>3. next = 0 + Len(events) + 1 /\ 0 \in Nat
      BY <2>3, <3>2
    <3>4. CountsOn(Append(events, next), 0) /\ Len(Append(events, next)) = Len(events) + 1
      BY <3>1, <3>3, CountingGrows
    <3> QED BY <2>1, <3>2, <3>4
  <2>5. emitter' \in [Emitter -> EmitterRow]
    BY <1>0, <2>1 DEF EmitterRow
  <2>6. \A f \in Emitter : emitter'[f].at = "numbered" => emitter[f].at = "numbered" /\ emitter'[f].number = emitter[f].number
    BY <1>0, <2>1 DEF EmitterRow
  <2>7. \A f \in Emitter : emitter'[f].at = "numbered" => emitter'[f].number <= Len(events') + 1
    <3> SUFFICES ASSUME NEW f \in Emitter, emitter'[f].at = "numbered"
                 PROVE  emitter'[f].number <= Len(events') + 1
      OBVIOUS
    <3>1. emitter[f].number \in Nat /\ emitter[f].number <= Len(events) + 1 /\ emitter'[f].number = emitter[f].number
      BY <1>0, <2>6 DEF EmitterRow
    <3> QED BY <1>0, <2>4, <3>1
  <2> QED BY <2>1, <2>4, <2>5, <2>7 DEF NumbersAreTaken, CountsOn
<1>4. ASSUME NEW e \in Emitter, BystanderRefused(e)
      PROVE  NumbersAreTaken' /\ UNCHANGED <<reader, stream, events>>
  <2>1. /\ emitter' = [emitter EXCEPT ![e].at = "refused"] /\ UNCHANGED <<events, reader, stream>>
    BY <1>4 DEF BystanderRefused
  <2>2. emitter' \in [Emitter -> EmitterRow]
    BY <1>0, <2>1 DEF EmitterRow
  <2>3. \A f \in Emitter : emitter'[f].at = "numbered" => emitter'[f].number <= Len(events) + 1
    BY <1>0, <2>1 DEF EmitterRow
  <2> QED BY <2>1, <2>2, <2>3 DEF NumbersAreTaken, CountsOn
<1>5. ASSUME SessionRefused \/ EndRow \/ SaidAll
      PROVE  NumbersAreTaken' /\ UNCHANGED <<reader, stream, events>>
  <2>1. CASE SessionRefused
    <3> DEFINE n == IF contained THEN 0 ELSE 1
    <3>1. n \in Int /\ emitter' = [emitter EXCEPT !["session"].at = "idle", !["session"].left = n]
      BY <2>1 DEF SessionRefused
    <3> HIDE DEF n
    <3>2. UNCHANGED <<events, reader, stream>>
      BY <2>1 DEF SessionRefused
    <3>3. emitter' \in [Emitter -> EmitterRow]
      BY <1>0, <3>1 DEF EmitterRow
    <3>4. \A f \in Emitter : emitter'[f].at = "numbered" => emitter'[f].number <= Len(events) + 1
      BY <1>0, <3>1 DEF EmitterRow
    <3> QED BY <3>2, <3>3, <3>4 DEF NumbersAreTaken, CountsOn
  <2>2. CASE EndRow
    <3>1. emitter' = [emitter EXCEPT !["session"].left = LastWords] /\ LastWords \in Int
      BY <2>2 DEF EndRow, LastWords
    <3>2. UNCHANGED <<events, reader, stream>>
      BY <2>2 DEF EndRow
    <3>3. emitter' \in [Emitter -> EmitterRow]
      BY <1>0, <3>1 DEF EmitterRow
    <3>4. \A f \in Emitter : emitter'[f].at = "numbered" => emitter'[f].number <= Len(events) + 1
      BY <1>0, <3>1 DEF EmitterRow
    <3> QED BY <3>2, <3>3, <3>4 DEF NumbersAreTaken, CountsOn
  <2>3. CASE SaidAll
    BY <2>3 DEF SaidAll, NumbersAreTaken, CountsOn
  <2> QED BY <1>5, <2>1, <2>2, <2>3
<1> QED BY <1>2, <1>3, <1>4, <1>5 DEF EmitStep

\* More events disturb no reader.
LEMMA ReadersWait ==
  ASSUME EventsInv, UNCHANGED <<reader, stream>>, events' = events \/ Len(events') = Len(events) + 1
  PROVE  CursorIsWhatWasSeen'
<1>1. /\ Len(events) \in Nat /\ Len(reader.seen) \in Nat /\ Len(reader.seen) <= Len(events)
      /\ stream.cursor \in Nat /\ Len(stream.page) \in Nat
      /\ stream.cursor + Len(stream.page) <= Len(events)
  BY CountingIs DEF EventsInv, NumbersAreTaken, CursorIsWhatWasSeen, StreamRow
<1>2. Len(events') \in Nat /\ Len(events) <= Len(events')
  BY <1>1
<1>3. Len(reader.seen) <= Len(events') /\ stream.cursor + Len(stream.page) <= Len(events')
  BY <1>1, <1>2
<1> QED BY <1>3 DEF EventsInv, CursorIsWhatWasSeen, CountsOn
\* The rows of the reader and of the stream, after what a step does to them.
LEMMA ReaderFields ==
  ASSUME NEW K, NEW A, NEW S, NEW L, NEW r \in [kind : K, at : A, seen : S, left : L],
         NEW a \in A, NEW s \in S, NEW l \in L
  PROVE  /\ [r EXCEPT !.at = a] \in [kind : K, at : A, seen : S, left : L]
         /\ [r EXCEPT !.at = a].at = a /\ [r EXCEPT !.at = a].seen = r.seen
         /\ [r EXCEPT !.seen = s] \in [kind : K, at : A, seen : S, left : L]
         /\ [r EXCEPT !.seen = s].seen = s /\ [r EXCEPT !.seen = s].at = r.at
         /\ [r EXCEPT !.at = a, !.left = l] \in [kind : K, at : A, seen : S, left : L]
         /\ [r EXCEPT !.at = a, !.left = l].at = a /\ [r EXCEPT !.at = a, !.left = l].seen = r.seen
         /\ [r EXCEPT !.at = a, !.seen = s] \in [kind : K, at : A, seen : S, left : L]
         /\ [r EXCEPT !.at = a, !.seen = s].at = a /\ [r EXCEPT !.at = a, !.seen = s].seen = s
         /\ [r EXCEPT !.at = a, !.seen = s, !.left = l] \in [kind : K, at : A, seen : S, left : L]
         /\ [r EXCEPT !.at = a, !.seen = s, !.left = l].at = a
         /\ [r EXCEPT !.at = a, !.seen = s, !.left = l].seen = s
OBVIOUS

LEMMA StreamFields ==
  ASSUME NEW A, NEW C, NEW P, NEW I, NEW r \in [at : A, cursor : C, page : P, idle : I],
         NEW a \in A, NEW c \in C, NEW p \in P, NEW i \in I
  PROVE  /\ [r EXCEPT !.at = a] \in [at : A, cursor : C, page : P, idle : I]
         /\ [r EXCEPT !.at = a].at = a /\ [r EXCEPT !.at = a].cursor = r.cursor
         /\ [r EXCEPT !.at = a].page = r.page
         /\ [r EXCEPT !.cursor = c, !.page = p] \in [at : A, cursor : C, page : P, idle : I]
         /\ [r EXCEPT !.cursor = c, !.page = p].at = r.at
         /\ [r EXCEPT !.cursor = c, !.page = p].cursor = c /\ [r EXCEPT !.cursor = c, !.page = p].page = p
         /\ [r EXCEPT !.at = a, !.page = p, !.idle = i] \in [at : A, cursor : C, page : P, idle : I]
         /\ [r EXCEPT !.at = a, !.page = p, !.idle = i].at = a
         /\ [r EXCEPT !.at = a, !.page = p, !.idle = i].cursor = r.cursor
         /\ [r EXCEPT !.at = a, !.page = p, !.idle = i].page = p
OBVIOUS

\* A stream that begins, and none at all.
LEMMA StreamsBegin ==
  ASSUME NEW c \in Nat
  PROVE  /\ Connected(c) \in StreamRow /\ Connected(c).at = "list" /\ Connected(c).cursor = c
         /\ Connected(c).page = <<>>
         /\ NoStream \in StreamRow /\ NoStream.at = "off" /\ NoStream.cursor = 0 /\ NoStream.page = <<>>
BY EmptySeq DEF Connected, NoStream, StreamRow

\* Pages go on from the cursor, so each event is seen once and in its turn.
LEMMA ReadersFollow ==
  ASSUME EventsInv, StreamStep \/ Connect \/ Refresh \/ LoadPage \/ FollowAfterPage \/ LoseConnection
  PROVE  /\ CursorIsWhatWasSeen' /\ UNCHANGED <<events, emitter>>
         /\ SawMore \/ SawNothing \/ BeganAgain
<1>0. /\ reader \in ReaderRow /\ stream \in StreamRow
      /\ CountsOn(reader.seen, 0) /\ Len(reader.seen) <= Len(events)
      /\ reader.at = "loading" => reader.seen = <<>>
      /\ reader.at # "following" => stream.at = "off"
      /\ stream.at # "off" => stream.cursor = Len(reader.seen)
      /\ CountsOn(stream.page, stream.cursor) /\ stream.cursor + Len(stream.page) <= Len(events)
      /\ CountsOn(events, 0)
  BY DEF EventsInv, CursorIsWhatWasSeen, NumbersAreTaken
<1>1. /\ stream.cursor \in Nat /\ Len(events) \in Nat /\ Len(reader.seen) \in Nat /\ Len(stream.page) \in Nat
      /\ reader.seen \in Seq(Nat) /\ stream.page \in Seq(Nat) /\ reader.left \in Int
  BY <1>0, CountingIs DEF StreamRow, ReaderRow
<1>2. PageSize \in Nat /\ ReplayLimit \in Nat
  BY EventHistoryAssumption
<1>3. LastSeen = Len(reader.seen)
  <2>1. CASE reader.seen = <<>>
    BY <2>1, EmptySeq DEF LastSeen
  <2>2. CASE reader.seen # <<>>
    <3>1. Len(reader.seen) > 0
      BY <1>0, <2>2, CountingShrinks
    <3> QED BY <1>0, <1>1, <2>2, <3>1 DEF LastSeen, Last, CountsOn
  <2> QED BY <2>1, <2>2
<1>4. ASSUME ListPage
      PROVE  CursorIsWhatWasSeen' /\ UNCHANGED <<events, emitter>> /\ SawNothing
  <2>1. PICK p, i : p = PageAfter(stream.cursor, PageSize) /\ i = (PageAfter(stream.cursor, PageSize) = <<>>)
    OBVIOUS
  <2>2. /\ stream.at = "list" /\ stream' = [stream EXCEPT !.at = "send", !.page = p, !.idle = i]
        /\ UNCHANGED <<events, emitter, reader>>
    BY <1>4, <2>1 DEF ListPage
  <2>3. CountsOn(p, stream.cursor) /\ stream.cursor + Len(p) <= Len(events)
    BY <1>0, <1>1, <1>2, <2>1, <2>2, PageCountsOn
  <2>4. p \in Seq(Nat) /\ i \in BOOLEAN
    BY <2>1, <2>3 DEF CountsOn
  <2>5. stream' \in StreamRow /\ stream'.at = "send" /\ stream'.cursor = stream.cursor /\ stream'.page = p
    BY <1>0, <2>2, <2>4, StreamFields DEF StreamRow
  <2> QED BY <1>0, <2>2, <2>3, <2>5 DEF CursorIsWhatWasSeen, SawNothing, CountsOn
<1>5. ASSUME SendEvent
      PROVE  CursorIsWhatWasSeen' /\ UNCHANGED <<events, emitter>> /\ SawMore
  <2>1. /\ stream.at = "send" /\ stream.page # <<>>
        /\ stream' = [stream EXCEPT !.cursor = Head(stream.page), !.page = Tail(stream.page)]
        /\ reader' = [reader EXCEPT !.seen = Append(@, Head(stream.page))]
        /\ UNCHANGED <<events, emitter>>
    BY <1>5 DEF SendEvent
  <2>2. PICK n \in Nat : n = Len(reader.seen)
    BY <1>1
  <2>a. stream.cursor = n
    BY <1>0, <2>1, <2>2
  <2>b. PICK h, t : h = Head(stream.page) /\ t = Tail(stream.page)
    OBVIOUS
  <2>c. CountsOn(stream.page, n)
    BY <1>0, <2>a
  <2>3. /\ Len(stream.page) > 0 /\ h = n + 1 /\ CountsOn(t, n + 1) /\ t \in Seq(Nat)
        /\ Len(t) = Len(stream.page) - 1
    BY <2>1, <2>b, <2>c, CountingShrinks
  <2>4. n + 1 = 0 + Len(reader.seen) + 1
    BY <1>1, <2>2
  <2> DEFINE longer == Append(reader.seen, n + 1)
  <2>5. /\ CountsOn(longer, 0) /\ longer = [k \in 1..(n + 1) |-> 0 + k] /\ Len(longer) = n + 1
        /\ longer \in Seq(Nat)
    <3>1. PICK next : next = n + 1
      OBVIOUS
    <3>2. next = 0 + Len(reader.seen) + 1 /\ 0 \in Nat /\ CountsOn(reader.seen, 0)
      BY <1>0, <2>4, <3>1
    <3>3. /\ CountsOn(Append(reader.seen, next), 0) /\ Append(reader.seen, next) \in Seq(Nat)
          /\ Append(reader.seen, next) = [k \in 1..(Len(reader.seen) + 1) |-> 0 + k]
          /\ Len(Append(reader.seen, next)) = Len(reader.seen) + 1
      BY <3>2, CountingGrows
    <3> QED BY <2>2, <3>1, <3>3
  <2>6. reader' = [reader EXCEPT !.seen = longer]
    BY <2>1, <2>3, <2>b
  <2> HIDE DEF longer
  <2>7. reader' \in ReaderRow /\ reader'.seen = longer /\ reader'.at = reader.at
    BY <1>0, <2>5, <2>6, ReaderFields DEF ReaderRow
  <2>8. h \in Nat /\ stream' = [stream EXCEPT !.cursor = h, !.page = t]
    <3>1. h \in Nat
      BY <2>3
    <3> QED BY <2>1, <2>b, <3>1
  <2>9. stream' \in StreamRow /\ stream'.at = stream.at /\ stream'.cursor = n + 1 /\ stream'.page = t
    <3>1. stream' \in StreamRow /\ stream'.at = stream.at /\ stream'.cursor = h /\ stream'.page = t
      BY <1>0, <2>3, <2>8, StreamFields DEF StreamRow
    <3> QED BY <2>3, <3>1
  <2>10. n + 1 <= Len(events) /\ (n + 1) + Len(t) <= Len(events)
    <3>1. PICK m \in Nat, all \in Nat : m = Len(stream.page) /\ all = Len(events)
      BY <1>1
    <3>2. n + m <= all /\ m > 0 /\ Len(t) = m - 1
      BY <1>0, <2>3, <2>a, <3>1
    <3>3. n + 1 <= all /\ (n + 1) + (m - 1) <= all
      BY <3>2
    <3> QED BY <3>1, <3>2, <3>3
  <2>11. longer = [k \in 1..(n + 1) |-> k] /\ n + 1 \in (Len(reader.seen) + 1)..Len(events)
    BY <1>1, <2>2, <2>5, <2>10
  <2>12. SawMore
    BY <2>1, <2>7, <2>11 DEF SawMore
  <2>13. CountsOn(reader.seen, 0)'
    BY <2>5, <2>7 DEF CountsOn
  <2>14. CountsOn(stream.page, stream.cursor)'
    BY <2>3, <2>9 DEF CountsOn
  <2>15. reader'.at # "loading" /\ reader'.at = "following"
    BY <1>0, <2>1, <2>7
  <2> QED BY <2>1, <2>5, <2>7, <2>9, <2>10, <2>12, <2>13, <2>14, <2>15 DEF CursorIsWhatWasSeen
<1>6. ASSUME LookAtRun
      PROVE  CursorIsWhatWasSeen' /\ UNCHANGED <<events, emitter>> /\ SawNothing
  <2>0. stream.at = "send" /\ UNCHANGED <<events, emitter>> /\ reader.at = "following" /\ stream.page = <<>>
    BY <1>0, <1>6 DEF LookAtRun
  <2>1. CASE stream' = NoStream /\ reader' = [reader EXCEPT !.at = "ended"]
    <3>1. reader' \in ReaderRow /\ reader'.at = "ended" /\ reader'.seen = reader.seen
      BY <1>0, <1>1, <2>1, ReaderFields DEF ReaderRow
    <3>2. stream' \in StreamRow /\ stream'.at = "off" /\ stream'.cursor = 0 /\ stream'.page = <<>>
      BY <2>1, StreamsBegin
    <3> QED BY <1>0, <1>1, <2>0, <3>1, <3>2, NothingCountsOn DEF CursorIsWhatWasSeen, SawNothing, CountsOn
  <2>2. CASE stream' = [stream EXCEPT !.at = "list"] /\ UNCHANGED reader
    <3>1. stream' \in StreamRow /\ stream'.at = "list" /\ stream'.cursor = stream.cursor /\ stream'.page = stream.page
      BY <1>0, <1>1, <2>2, StreamFields DEF StreamRow
    <3> QED BY <1>0, <2>0, <2>2, <3>1 DEF CursorIsWhatWasSeen, SawNothing, CountsOn
  <2> QED BY <1>6, <2>1, <2>2 DEF LookAtRun
<1>7. ASSUME Connect
      PROVE  CursorIsWhatWasSeen' /\ UNCHANGED <<events, emitter>> /\ SawNothing
  <2>1. /\ reader.at = "away" /\ stream' = Connected(Len(reader.seen)) /\ UNCHANGED <<events, emitter>>
        /\ reader' = [reader EXCEPT !.at = "following", !.left = @ - 1]
    BY <1>3, <1>7 DEF Connect
  <2>2. reader.left - 1 \in Int
    BY <1>1
  <2>3. reader' \in ReaderRow /\ reader'.at = "following" /\ reader'.seen = reader.seen
    BY <1>0, <1>1, <2>1, <2>2, ReaderFields DEF ReaderRow
  <2>4. stream' \in StreamRow /\ stream'.at = "list" /\ stream'.cursor = Len(reader.seen) /\ stream'.page = <<>>
    BY <1>1, <2>1, StreamsBegin
  <2> QED BY <1>0, <1>1, <2>1, <2>3, <2>4, NothingCountsOn DEF CursorIsWhatWasSeen, SawNothing, CountsOn
<1>8. ASSUME Refresh
      PROVE  CursorIsWhatWasSeen' /\ UNCHANGED <<events, emitter>> /\ BeganAgain
  <2>1. /\ stream' = NoStream /\ UNCHANGED <<events, emitter>>
        /\ reader' = [reader EXCEPT !.at = "loading", !.seen = <<>>, !.left = @ - 1]
    BY <1>8 DEF Refresh
  <2>2. reader.left - 1 \in Int /\ <<>> \in Seq(Nat)
    BY <1>1, EmptySeq
  <2>3. reader' \in ReaderRow /\ reader'.at = "loading" /\ reader'.seen = <<>>
    BY <1>0, <1>1, <2>1, <2>2, ReaderFields DEF ReaderRow
  <2>4. stream' \in StreamRow /\ stream'.at = "off" /\ stream'.cursor = 0 /\ stream'.page = <<>>
    BY <2>1, StreamsBegin
  <2> QED BY <1>0, <1>1, <2>1, <2>3, <2>4, NothingCountsOn DEF CursorIsWhatWasSeen, BeganAgain, CountsOn
<1>9. ASSUME LoadPage
      PROVE  CursorIsWhatWasSeen' /\ UNCHANGED <<events, emitter>> /\ (SawMore \/ SawNothing)
  <2>1. PICK p : p = PageAfter(0, ReplayLimit)
    OBVIOUS
  <2>2. /\ reader.at = "loading" /\ UNCHANGED <<events, emitter, stream>>
        /\ reader' = [reader EXCEPT !.at = "loaded", !.seen = p]
    BY <1>9, <2>1 DEF LoadPage
  <2>3. CountsOn(p, 0) /\ 0 + Len(p) <= Len(events) /\ 0 \in Nat
    BY <1>0, <1>1, <1>2, <2>1, PageCountsOn
  <2>4. p \in Seq(Nat) /\ Len(p) \in Nat /\ p = [k \in 1..Len(p) |-> 0 + k]
    BY <2>3, CountingIs
  <2>5. reader' \in ReaderRow /\ reader'.at = "loaded" /\ reader'.seen = p
    BY <1>0, <1>1, <2>2, <2>4, ReaderFields DEF ReaderRow
  <2>6. reader.seen = <<>> /\ Len(reader.seen) = 0
    BY <1>0, <2>2, EmptySeq
  <2>7. SawMore \/ SawNothing
    <3>1. CASE p = <<>>
      BY <2>2, <2>5, <2>6, <3>1 DEF SawNothing
    <3>2. CASE p # <<>>
      <4>1. Len(p) > 0
        BY <2>3, <3>2, CountingShrinks
      <4>2. p = [k \in 1..Len(p) |-> k] /\ Len(p) \in 1..Len(events) /\ Len(reader.seen) + 1 = 1
        BY <1>1, <2>3, <2>4, <2>6, <4>1
      <4>3. \E m \in (Len(reader.seen) + 1)..Len(events) : reader'.seen = [k \in 1..m |-> k]
        BY <2>5, <4>2
      <4> QED BY <2>2, <4>3 DEF SawMore
    <3> QED BY <3>1, <3>2
  <2>9. CursorIsWhatWasSeen'
    BY <1>0, <1>1, <2>2, <2>3, <2>4, <2>5 DEF CursorIsWhatWasSeen, CountsOn
  <2> QED BY <2>2, <2>7, <2>9
<1>10. ASSUME FollowAfterPage
       PROVE  CursorIsWhatWasSeen' /\ UNCHANGED <<events, emitter>> /\ SawNothing
  <2>0. reader.at = "loaded" /\ UNCHANGED <<events, emitter>>
    BY <1>10 DEF FollowAfterPage
  <2>1. CASE reader' = [reader EXCEPT !.at = "ended"] /\ UNCHANGED stream
    <3>1. reader' \in ReaderRow /\ reader'.at = "ended" /\ reader'.seen = reader.seen
      BY <1>0, <1>1, <2>1, ReaderFields DEF ReaderRow
    <3> QED BY <1>0, <2>0, <2>1, <3>1 DEF CursorIsWhatWasSeen, SawNothing, CountsOn
  <2>2. CASE reader' = [reader EXCEPT !.at = "following"] /\ stream' = Connected(LastSeen)
    <3>1. reader' \in ReaderRow /\ reader'.at = "following" /\ reader'.seen = reader.seen
      BY <1>0, <1>1, <2>2, ReaderFields DEF ReaderRow
    <3>2. stream' \in StreamRow /\ stream'.at = "list" /\ stream'.cursor = Len(reader.seen) /\ stream'.page = <<>>
      BY <1>1, <1>3, <2>2, StreamsBegin
    <3> QED BY <1>0, <1>1, <2>0, <3>1, <3>2, NothingCountsOn DEF CursorIsWhatWasSeen, SawNothing, CountsOn
  <2> QED BY <1>10, <2>1, <2>2 DEF FollowAfterPage
<1>11. ASSUME LoseConnection
       PROVE  CursorIsWhatWasSeen' /\ UNCHANGED <<events, emitter>> /\ SawNothing
  <2>1. reader' = [reader EXCEPT !.at = "away"] /\ stream' = NoStream /\ UNCHANGED <<events, emitter>>
    BY <1>11 DEF LoseConnection
  <2>2. reader' \in ReaderRow /\ reader'.at = "away" /\ reader'.seen = reader.seen
    BY <1>0, <1>1, <2>1, ReaderFields DEF ReaderRow
  <2>3. stream' \in StreamRow /\ stream'.at = "off" /\ stream'.cursor = 0 /\ stream'.page = <<>>
    BY <2>1, StreamsBegin
  <2> QED BY <1>0, <1>1, <2>1, <2>2, <2>3, NothingCountsOn DEF CursorIsWhatWasSeen, SawNothing, CountsOn
<1> QED BY <1>4, <1>5, <1>6, <1>7, <1>8, <1>9, <1>10, <1>11 DEF StreamStep
LEMMA EventsStep ==
  ASSUME EventsInv, EventHistoryNext
  PROVE  /\ EventsInv'
         /\ StoredOne \/ SawMore \/ SawNothing \/ BeganAgain
<1>1. CASE EmitStep
  <2>1. NumbersAreTaken' /\ UNCHANGED <<reader, stream>> /\ (UNCHANGED events \/ Len(events') = Len(events) + 1)
    BY <1>1, EmittersKeepNumbers DEF EventsInv
  <2>2. CursorIsWhatWasSeen'
    BY <2>1, ReadersWait
  <2> QED BY <2>1, <2>2 DEF EventsInv, StoredOne, SawNothing
<1>2. CASE StreamStep \/ Connect \/ Refresh \/ LoadPage \/ FollowAfterPage \/ LoseConnection
  <2>1. CursorIsWhatWasSeen' /\ UNCHANGED <<events, emitter>> /\ (SawMore \/ SawNothing \/ BeganAgain)
    BY <1>2, ReadersFollow
  <2>2. NumbersAreTaken'
    BY <2>1 DEF EventsInv, NumbersAreTaken, CountsOn
  <2> QED BY <2>1, <2>2 DEF EventsInv
<1> QED BY <1>1, <1>2 DEF EventHistoryNext

\* The event log with its stream implements the feed (events.ts, stream.ts): what
\* a reader has seen is the run's events in the order of their numbers, each once
\* and none left out, whatever number two emitters hold and however often the
\* reader reconnects or starts over.
THEOREM HistoryIsAFeed == RecordsSpec => ReadersSeeTheHistory
<1>1. RecordsInit => EventsInv /\ Feed!FeedInit
  <2> SUFFICES ASSUME RecordsInit PROVE EventsInv /\ Feed!FeedInit
    OBVIOUS
  <2>1. PICK kind \in {"follower", "dashboard"} : EventHistoryInit(kind)
    BY DEF RecordsInit
  <2>2. EventsInv /\ events = <<>> /\ reader.seen = <<>>
    BY <2>1, EventsStart
  <2> QED BY <2>2, EmptySeq DEF Feed!FeedInit
<1>2. EventsInv /\ [RecordsNext]_recordsVars
        => EventsInv' /\ [Feed!Produce \/ Feed!Deliver \/ Feed!StartOver]_<<Len(events), reader.seen>>
  <2> SUFFICES ASSUME EventsInv, [RecordsNext]_recordsVars
               PROVE  EventsInv' /\ [Feed!Produce \/ Feed!Deliver \/ Feed!StartOver]_<<Len(events), reader.seen>>
    OBVIOUS
  <2>1. EventHistoryNext \/ UNCHANGED EventHistoryVars
    BY StoresRest
  <2>2. CASE UNCHANGED EventHistoryVars
    <3>1. EventsInv'
      BY <2>2 DEF EventHistoryVars, EventsInv, NumbersAreTaken, CursorIsWhatWasSeen, CountsOn
    <3> QED BY <2>2, <3>1 DEF EventHistoryVars
  <2>3. CASE EventHistoryNext
    <3>1. EventsInv' /\ (StoredOne \/ SawMore \/ SawNothing \/ BeganAgain)
      BY <2>3, EventsStep
    <3>2. CASE StoredOne
      BY <3>1, <3>2 DEF StoredOne, Feed!Produce
    <3>3. CASE SawMore
      BY <3>1, <3>3 DEF SawMore, Feed!Deliver
    <3>4. CASE SawNothing
      BY <3>1, <3>4 DEF SawNothing
    <3>5. CASE BeganAgain
      BY <3>1, <3>5 DEF BeganAgain, Feed!StartOver
    <3> QED BY <3>1, <3>2, <3>3, <3>4, <3>5
  <2> QED BY <2>1, <2>2, <2>3
<1> QED BY <1>1, <1>2, PTL DEF RecordsSpec, ReadersSeeTheHistory, Feed!FeedSpec
-----------------------------------------------------------------------------
(* Replays.  The journal only grows, so the outcomes that were read stay where *)
(* they are among those that are recorded: what was reported and what is left  *)
(* are, one after the other, the first of them.                                *)

ReportedEntry == [key : ReplayKey, status : Reported]
ReplayRow == [at : {"none", "running", "done"}, mode : {"trace", "deterministic", "simulate"}, limit : Nat,
              left : Seq(JournalEntry), report : Seq(ReportedEntry)]

HasOutcome(key) ==
  \E j \in DOMAIN journal : journal[j].key = key /\ journal[j].status \in {"succeeded", "failed"}

\* What was reported and what is left to replay, set against the outcomes.
ToldInOrder(told, todo, outcomes) ==
  /\ Len(told) + Len(todo) <= Len(outcomes)
  /\ \A i \in 1..Len(told) : told[i].key = outcomes[i].key
  /\ \A i \in 1..Len(todo) : todo[i] = outcomes[Len(told) + i]

ExecutedAreKnown == \A i \in DOMAIN executed : HasOutcome(executed[i])

ExecutedAreListed == \A i \in DOMAIN executed : callOf[executed[i]].tool \in READ_ONLY_TOOLS

ReplayInv ==
  /\ journal \in Seq(JournalEntry) /\ callOf \in [ReplayKey -> RecordedCalls]
  /\ replay \in ReplayRow /\ executed \in Seq(ReplayKey)
  /\ ToldInOrder(replay.report, replay.left, RecordedOutcomes(journal))
  /\ replay.at = "none" => changed = {} /\ executed = <<>>
  /\ replay.mode = "simulate" => "workspace" \notin changed /\ ExecutedAreListed
  /\ ExecutedAreKnown

\* The outcomes of a journal are entries of it.
LEMMA OutcomesAreEntries ==
  ASSUME NEW entries \in Seq(JournalEntry)
  PROVE  /\ RecordedOutcomes(entries) \in Seq(JournalEntry)
         /\ Len(RecordedOutcomes(entries)) \in Nat
         /\ \A k \in 1..Len(RecordedOutcomes(entries)) :
              \E i \in DOMAIN entries : /\ entries[i] = RecordedOutcomes(entries)[k]
                                        /\ entries[i].status \in {"succeeded", "failed"}
<1> DEFINE ended == {i \in DOMAIN entries : entries[i].status \in {"succeeded", "failed"}}
           nth(k) == CHOOSE i \in ended : Cardinality({j \in ended : j <= i}) = k
           size == Cardinality(ended)
<1>1. DOMAIN entries = 1..Len(entries) /\ Len(entries) \in Nat /\ \A i \in DOMAIN entries : entries[i] \in JournalEntry
  BY LenProperties, ElementOfSeq
<1>2. ended \in SUBSET Nat /\ IsFiniteSet(ended)
  <2>1. ended \subseteq 1..Len(entries) /\ IsFiniteSet(1..Len(entries))
    BY <1>1, FS_Interval
  <2> HIDE DEF ended
  <2>2. IsFiniteSet(ended)
    BY <2>1, FS_Subset
  <2>3. ended \in SUBSET Nat
    BY <1>1, <2>1
  <2> QED BY <2>2, <2>3
<1>3. size \in Nat
  <2> HIDE DEF ended
  <2> QED BY <1>2, FS_CardinalityType
<1>4. \A k \in 1..size : nth(k) \in ended
  <2> HIDE DEF ended
  <2>1. \A k \in 1..size : \E i \in ended : Cardinality({j \in ended : j <= i}) = k
    BY <1>2, PlacesAreCounted
  <2> QED BY <2>1
<1>5. RecordedOutcomes(entries) = [k \in 1..size |-> entries[nth(k)]]
  BY DEF RecordedOutcomes
<1>6. \A i \in ended : i \in DOMAIN entries /\ entries[i].status \in {"succeeded", "failed"}
  OBVIOUS
<1> HIDE DEF ended, nth, size
<1>7. RecordedOutcomes(entries) \in [1..size -> JournalEntry]
  BY <1>1, <1>4, <1>5, <1>6
<1>8. RecordedOutcomes(entries) \in Seq(JournalEntry) /\ Len(RecordedOutcomes(entries)) = size
  BY <1>3, <1>7, SeqDef, LenProperties
<1>9. \A k \in 1..size : RecordedOutcomes(entries)[k] = entries[nth(k)]
  BY <1>5
<1> QED BY <1>3, <1>4, <1>6, <1>8, <1>9

\* One more entry leaves the outcomes before it where they are.
LEMMA OutcomesStay ==
  ASSUME NEW entries \in Seq(JournalEntry), NEW entry \in JournalEntry
  PROVE  /\ Len(RecordedOutcomes(entries)) <= Len(RecordedOutcomes(Append(entries, entry)))
         /\ \A k \in 1..Len(RecordedOutcomes(entries)) :
              RecordedOutcomes(Append(entries, entry))[k] = RecordedOutcomes(entries)[k]
<1> DEFINE grown == Append(entries, entry)
           ended == {i \in DOMAIN entries : entries[i].status \in {"succeeded", "failed"}}
           nth(k) == CHOOSE i \in ended : Cardinality({j \in ended : j <= i}) = k
           endedNow == {i \in DOMAIN grown : grown[i].status \in {"succeeded", "failed"}}
           nthNow(k) == CHOOSE i \in endedNow : Cardinality({j \in endedNow : j <= i}) = k
<1>1. DOMAIN entries = 1..Len(entries) /\ Len(entries) \in Nat
  BY LenProperties
<1>2. /\ grown \in Seq(JournalEntry) /\ Len(grown) = Len(entries) + 1 /\ DOMAIN grown = 1..(Len(entries) + 1)
      /\ \A i \in 1..Len(entries) : grown[i] = entries[i]
  BY <1>1, AppendProperties, LenProperties
<1>3. RecordedOutcomes(entries) = [k \in 1..Cardinality(ended) |-> entries[nth(k)]]
      /\ RecordedOutcomes(grown) = [k \in 1..Cardinality(endedNow) |-> grown[nthNow(k)]]
  BY DEF RecordedOutcomes
<1> HIDE DEF grown
<1>4. ended \subseteq 1..Len(entries) /\ endedNow \subseteq 1..(Len(entries) + 1)
  BY <1>1, <1>2
<1>5. ended \subseteq endedNow /\ \A i \in endedNow : i \in ended \/ i = Len(entries) + 1
  BY <1>1, <1>2
<1> HIDE DEF ended, endedNow
<1>6. /\ ended \in SUBSET Nat /\ IsFiniteSet(ended) /\ Cardinality(ended) \in Nat
      /\ endedNow \in SUBSET Nat /\ IsFiniteSet(endedNow) /\ Cardinality(endedNow) \in Nat
      /\ Cardinality(ended) <= Cardinality(endedNow)
  <2>1. IsFiniteSet(1..(Len(entries) + 1)) /\ endedNow \in SUBSET Nat
    BY <1>1, <1>4, FS_Interval
  <2> QED BY <1>4, <1>5, <2>1, FS_Subset, FS_CardinalityType
<1>7. \A i \in ended : {j \in endedNow : j <= i} = {j \in ended : j <= i}
  <2>1. \A i \in ended : ~(Len(entries) + 1 <= i)
    BY <1>1, <1>4
  <2> QED BY <1>5, <2>1
<1>8. ASSUME NEW k \in 1..Cardinality(ended)
      PROVE  k \in 1..Cardinality(endedNow) /\ nth(k) \in ended /\ nthNow(k) = nth(k)
  <2>1. k \in 1..Cardinality(endedNow)
    BY <1>6
  <2>2. nth(k) \in ended /\ Cardinality({j \in ended : j <= nth(k)}) = k
    <3>1. \E i \in ended : Cardinality({j \in ended : j <= i}) = k
      BY <1>6, PlacesAreCounted
    <3> QED BY <3>1
  <2>3. nthNow(k) \in endedNow /\ Cardinality({j \in endedNow : j <= nthNow(k)}) = k
    <3>1. \E i \in endedNow : Cardinality({j \in endedNow : j <= i}) = k
      BY <1>6, <2>1, PlacesAreCounted
    <3> QED BY <3>1
  <2> HIDE DEF nth, nthNow
  <2>4. nth(k) \in endedNow /\ Cardinality({j \in endedNow : j <= nth(k)}) = k
    BY <1>5, <1>7, <2>2
  <2>5. nthNow(k) = nth(k)
    <3>1. \A i, m \in endedNow :
            Cardinality({j \in endedNow : j <= i}) = Cardinality({j \in endedNow : j <= m}) => i = m
      BY <1>6, PlacesAreCounted
    <3> QED BY <2>3, <2>4, <3>1, Zenon
  <2> QED BY <2>1, <2>2, <2>5
<1> HIDE DEF nth, nthNow
<1>9. /\ Len(RecordedOutcomes(entries)) = Cardinality(ended)
      /\ Len(RecordedOutcomes(grown)) = Cardinality(endedNow)
  <2>1. /\ RecordedOutcomes(entries) \in Seq(JournalEntry) /\ RecordedOutcomes(grown) \in Seq(JournalEntry)
        /\ DOMAIN RecordedOutcomes(entries) = 1..Cardinality(ended)
        /\ DOMAIN RecordedOutcomes(grown) = 1..Cardinality(endedNow)
    BY <1>2, <1>3, OutcomesAreEntries
  <2>2. /\ Len(RecordedOutcomes(entries)) \in Nat /\ Len(RecordedOutcomes(grown)) \in Nat
        /\ 1..Len(RecordedOutcomes(entries)) = 1..Cardinality(ended)
        /\ 1..Len(RecordedOutcomes(grown)) = 1..Cardinality(endedNow)
    BY <2>1, LenProperties
  <2>3. \A m, n \in Nat : 1..m = 1..n => m = n
    OBVIOUS
  <2> QED BY <1>6, <2>2, <2>3
<1>10. \A k \in 1..Cardinality(ended) : RecordedOutcomes(grown)[k] = RecordedOutcomes(entries)[k]
  <2> SUFFICES ASSUME NEW k \in 1..Cardinality(ended)
               PROVE  RecordedOutcomes(grown)[k] = RecordedOutcomes(entries)[k]
    OBVIOUS
  <2>1. RecordedOutcomes(grown)[k] = grown[nth(k)] /\ RecordedOutcomes(entries)[k] = entries[nth(k)]
    BY <1>3, <1>8
  <2> QED BY <1>2, <1>4, <1>8, <2>1
<1> QED BY <1>6, <1>9, <1>10 DEF grown
LEMMA JournalGrows ==
  ASSUME ReplayInv, NEW entry \in JournalEntry, journal' = Append(journal, entry),
         UNCHANGED <<callOf, replay, changed, executed>>
  PROVE  ReplayInv'
<1>1. /\ journal \in Seq(JournalEntry) /\ journal' \in Seq(JournalEntry)
      /\ DOMAIN journal = 1..Len(journal) /\ DOMAIN journal' = 1..(Len(journal) + 1) /\ Len(journal) \in Nat
      /\ \A i \in 1..Len(journal) : journal'[i] = journal[i]
  BY AppendProperties, LenProperties DEF ReplayInv
<1>2. \A key : HasOutcome(key) => HasOutcome(key)'
  <2> SUFFICES ASSUME NEW key, HasOutcome(key) PROVE HasOutcome(key)'
    OBVIOUS
  <2>1. PICK j \in DOMAIN journal : journal[j].key = key /\ journal[j].status \in {"succeeded", "failed"}
    BY DEF HasOutcome
  <2>2. j \in DOMAIN journal' /\ journal'[j] = journal[j]
    BY <1>1
  <2> QED BY <2>1, <2>2 DEF HasOutcome
<1>a. ExecutedAreKnown'
  BY <1>2 DEF ReplayInv, ExecutedAreKnown
<1>3. PICK told, todo, ofRun, now : /\ told = replay.report /\ todo = replay.left
                                    /\ ofRun = RecordedOutcomes(journal) /\ now = RecordedOutcomes(journal')
  OBVIOUS
<1>4. /\ Len(ofRun) \in Nat /\ Len(now) \in Nat /\ Len(ofRun) <= Len(now)
      /\ \A k \in 1..Len(ofRun) : now[k] = ofRun[k]
  BY <1>1, <1>3, OutcomesAreEntries, OutcomesStay
<1>5. /\ Len(told) \in Nat /\ Len(todo) \in Nat /\ Len(told) + Len(todo) <= Len(ofRun)
      /\ \A i \in 1..Len(told) : told[i].key = ofRun[i].key
      /\ \A i \in 1..Len(todo) : todo[i] = ofRun[Len(told) + i]
  BY <1>3, LenProperties DEF ReplayInv, ReplayRow, ToldInOrder
<1>6. ToldInOrder(told, todo, now)
  <2>1. Len(told) + Len(todo) <= Len(now)
    BY <1>4, <1>5
  <2>2. \A i \in 1..Len(told) : i \in 1..Len(ofRun)
    BY <1>4, <1>5
  <2>3. \A i \in 1..Len(todo) : Len(told) + i \in 1..Len(ofRun)
    BY <1>4, <1>5
  <2> QED BY <1>4, <1>5, <2>1, <2>2, <2>3 DEF ToldInOrder
<1>7. ToldInOrder(replay.report, replay.left, RecordedOutcomes(journal))'
  BY <1>3, <1>6
<1>8. replay.mode = "simulate" => ExecutedAreListed'
  BY DEF ReplayInv, ExecutedAreListed
<1> QED BY <1>1, <1>a, <1>7, <1>8 DEF ReplayInv

\* The first that is left is told next.
LEMMA OneMoreIsTold ==
  ASSUME ReplayInv, replay.left # <<>>, NEW outcome \in Reported,
         replay' = Report(Head(replay.left), outcome), UNCHANGED <<journal, callOf>>
  PROVE  /\ replay' \in ReplayRow /\ replay'.at = replay.at /\ replay'.mode = replay.mode
         /\ ToldInOrder(replay.report, replay.left, RecordedOutcomes(journal))'
         /\ Head(replay.left) \in JournalEntry /\ HasOutcome(Head(replay.left).key)
<1>1. PICK told, todo, ofRun, first, rest :
         /\ told = replay.report /\ todo = replay.left /\ ofRun = RecordedOutcomes(journal)
         /\ first = Head(replay.left) /\ rest = Tail(replay.left)
  OBVIOUS
<1>2. /\ told \in Seq(ReportedEntry) /\ Len(told) \in Nat /\ todo \in Seq(JournalEntry) /\ Len(todo) \in Nat
      /\ replay \in ReplayRow /\ ofRun \in Seq(JournalEntry) /\ Len(ofRun) \in Nat /\ todo # <<>>
  BY <1>1, LenProperties, OutcomesAreEntries DEF ReplayInv, ReplayRow
<1>3. /\ Len(told) + Len(todo) <= Len(ofRun)
      /\ \A i \in 1..Len(told) : told[i].key = ofRun[i].key
      /\ \A i \in 1..Len(todo) : todo[i] = ofRun[Len(told) + i]
  BY <1>1 DEF ReplayInv, ToldInOrder
<1>4. /\ Len(todo) > 0 /\ first = todo[1] /\ first \in JournalEntry
      /\ rest \in Seq(JournalEntry) /\ Len(rest) = Len(todo) - 1
      /\ \A i \in 1..Len(rest) : rest[i] = todo[i + 1]
  <2>1. Len(todo) > 0
    BY <1>2, EmptySeq
  <2> QED BY <1>1, <1>2, <2>1, HeadTailProperties
<1>5. first = ofRun[Len(told) + 1] /\ Len(told) + 1 \in 1..Len(ofRun)
  BY <1>2, <1>3, <1>4
<1>6. PICK line : line = [key |-> first.key, status |-> outcome]
  OBVIOUS
<1>7. line \in ReportedEntry /\ line.key = first.key
  BY <1>4, <1>6 DEF ReportedEntry, JournalEntry
<1>8. PICK longer : longer = Append(told, line)
  OBVIOUS
<1>9. /\ longer \in Seq(ReportedEntry) /\ Len(longer) = Len(told) + 1
      /\ \A i \in 1..Len(told) : longer[i] = told[i]
      /\ longer[Len(told) + 1] = line
  BY <1>2, <1>7, <1>8, AppendProperties
<1>10. replay' = [replay EXCEPT !.left = rest, !.report = longer]
  BY <1>1, <1>6, <1>8 DEF Report
<1>11. /\ replay' \in ReplayRow /\ replay'.at = replay.at /\ replay'.mode = replay.mode
       /\ replay'.left = rest /\ replay'.report = longer
  BY <1>2, <1>4, <1>9, <1>10 DEF ReplayRow
<1>12. ToldInOrder(longer, rest, ofRun)
  <2>1. Len(longer) + Len(rest) <= Len(ofRun)
    BY <1>2, <1>3, <1>4, <1>9
  <2>2. ASSUME NEW i \in 1..Len(longer) PROVE longer[i].key = ofRun[i].key
    <3>1. i \in 1..Len(told) \/ i = Len(told) + 1
      BY <1>2, <1>9
    <3> QED BY <1>3, <1>5, <1>7, <1>9, <3>1
  <2>3. ASSUME NEW i \in 1..Len(rest) PROVE rest[i] = ofRun[Len(longer) + i]
    <3>1. i + 1 \in 1..Len(todo) /\ Len(told) + (i + 1) = Len(longer) + i
      BY <1>2, <1>4, <1>9
    <3> QED BY <1>3, <1>4, <3>1
  <2> QED BY <2>1, <2>2, <2>3 DEF ToldInOrder
<1>13. RecordedOutcomes(journal)' = ofRun
  BY <1>1
<1>14. HasOutcome(first.key)
  <2>1. journal \in Seq(JournalEntry)
    BY DEF ReplayInv
  <2>2. \E i \in DOMAIN journal : journal[i] = ofRun[Len(told) + 1] /\ journal[i].status \in {"succeeded", "failed"}
    BY <1>1, <1>5, <2>1, OutcomesAreEntries
  <2> QED BY <1>5, <2>2 DEF HasOutcome
<1> QED BY <1>1, <1>4, <1>11, <1>12, <1>13, <1>14
LEMMA ReplayBegins ==
  ASSUME ReplayInv, BeginReplay
  PROVE  ReplayInv'
<1>a. PICK outcomes : outcomes = RecordedOutcomes(journal)
  OBVIOUS
<1>1. PICK m \in {"trace", "deterministic", "simulate"}, most \in 0..1 :
        /\ outcomes = RecordedOutcomes(journal)
        /\ replay' = [at |-> IF m = "trace" THEN "done" ELSE "running", mode |-> m,
                      limit |-> most, report |-> <<>>,
                      left |-> IF m = "trace" THEN <<>>
                               ELSE Limited(outcomes, IF Len(outcomes) = 0 THEN 0 ELSE most)]
  BY <1>a DEF BeginReplay
<1>2. /\ replay.at = "none" /\ UNCHANGED <<journal, callOf, changed, executed>>
      /\ journal \in Seq(JournalEntry) /\ changed = {} /\ executed = <<>>
  BY DEF BeginReplay, ReplayInv
<1>3. outcomes \in Seq(JournalEntry) /\ Len(outcomes) \in Nat /\ DOMAIN outcomes = 1..Len(outcomes)
  BY <1>1, <1>2, OutcomesAreEntries, LenProperties
<1>4. PICK todo : todo = replay'.left
  OBVIOUS
<1>5. todo \in Seq(JournalEntry) /\ Len(todo) \in Nat /\ Len(todo) <= Len(outcomes)
      /\ \A i \in 1..Len(todo) : todo[i] = outcomes[i]
  <2>1. CASE todo = <<>>
    BY <1>3, <2>1, EmptySeq
  <2>2. CASE todo = outcomes
    BY <1>3, <2>2
  <2>3. CASE todo = SubSeq(outcomes, 1, 1) /\ Len(outcomes) # 0
    <3>1. \A i \in 1..1 : outcomes[i] \in JournalEntry
      BY <1>3, <2>3, ElementOfSeq
    <3>2. todo \in Seq(JournalEntry) /\ Len(todo) = 1 /\ \A i \in 1..1 : todo[i] = outcomes[1 + i - 1]
      BY <2>3, <3>1, SubSeqProperties
    <3> QED BY <1>3, <2>3, <3>2
  <2>4. todo = <<>> \/ todo = Limited(outcomes, IF Len(outcomes) = 0 THEN 0 ELSE most)
    BY <1>1, <1>4
  <2>5. most = 0 \/ most = 1
    BY <1>1
  <2> QED BY <2>1, <2>2, <2>3, <2>4, <2>5 DEF Limited
<1>6. replay' \in ReplayRow /\ replay'.report = <<>> /\ replay'.mode = m /\ replay'.at # "none"
  <2>1. replay' = [at |-> IF m = "trace" THEN "done" ELSE "running", mode |-> m, limit |-> most,
                   report |-> <<>>, left |-> todo]
    BY <1>1, <1>4
  <2>2. <<>> \in Seq(ReportedEntry) /\ most \in Nat
    BY <1>1, EmptySeq
  <2> QED BY <1>5, <2>1, <2>2 DEF ReplayRow
<1>7. ToldInOrder(<<>>, todo, outcomes)
  <2>1. Len(<<>>) = 0
    BY EmptySeq
  <2>2. \A i \in 1..Len(todo) : Len(<<>>) + i = i
    BY <2>1
  <2>3. Len(<<>>) + Len(todo) <= Len(outcomes) /\ 1..Len(<<>>) = {}
    BY <1>5, <2>1
  <2> QED BY <1>5, <2>2, <2>3 DEF ToldInOrder
<1>8. ToldInOrder(replay.report, replay.left, RecordedOutcomes(journal))'
  BY <1>1, <1>2, <1>4, <1>6, <1>7
<1>9. ExecutedAreKnown'
  BY <1>2 DEF ReplayInv, ExecutedAreKnown, HasOutcome
<1>10. ExecutedAreListed' /\ "workspace" \notin changed'
  <2>1. DOMAIN executed' = {} /\ changed' = {}
    BY <1>2, EmptySeq
  <2> QED BY <2>1 DEF ExecutedAreListed
<1>11. journal' \in Seq(JournalEntry) /\ callOf' \in [ReplayKey -> RecordedCalls] /\ executed' \in Seq(ReplayKey)
  BY <1>2 DEF ReplayInv
<1> QED BY <1>6, <1>8, <1>9, <1>10, <1>11 DEF ReplayInv

LEMMA ReplayStarts == ReplayInit => ReplayInv
<1> SUFFICES ASSUME ReplayInit PROVE ReplayInv
  OBVIOUS
<1>1. /\ journal = <<>> /\ callOf \in [ReplayKey -> RecordedCalls] /\ changed = {} /\ executed = <<>>
      /\ replay = [at |-> "none", mode |-> "deterministic", limit |-> 0, left |-> <<>>, report |-> <<>>]
  BY DEF ReplayInit
<1>2. journal \in Seq(JournalEntry) /\ executed \in Seq(ReplayKey) /\ <<>> \in Seq(ReportedEntry)
      /\ <<>> \in Seq(JournalEntry) /\ Len(<<>>) = 0 /\ DOMAIN executed = {}
  BY <1>1, EmptySeq
<1>3. replay \in ReplayRow /\ replay.left = <<>> /\ replay.report = <<>> /\ replay.at = "none"
      /\ replay.mode = "deterministic"
  BY <1>1, <1>2 DEF ReplayRow
<1>4. ToldInOrder(<<>>, <<>>, RecordedOutcomes(journal))
  <2>1. Len(RecordedOutcomes(journal)) \in Nat
    BY <1>2, OutcomesAreEntries
  <2> QED BY <1>2, <2>1 DEF ToldInOrder
<1> QED BY <1>1, <1>2, <1>3, <1>4 DEF ReplayInv, ExecutedAreKnown

LEMMA ReplaySteps ==
  ASSUME ReplayInv, ReplayNext
  PROVE  ReplayInv'
<1>0. /\ journal \in Seq(JournalEntry) /\ callOf \in [ReplayKey -> RecordedCalls] /\ replay \in ReplayRow
      /\ executed \in Seq(ReplayKey) /\ ExecutedAreKnown
  BY DEF ReplayInv
<1>1. ASSUME NEW key \in ReplayKey, RecordIntent(key) PROVE ReplayInv'
  <2>1. PICK entry : entry = [key |-> key, status |-> "executing"]
    OBVIOUS
  <2>2. entry \in JournalEntry
    BY <2>1 DEF JournalEntry
  <2>3. journal' = Append(journal, entry) /\ UNCHANGED <<callOf, replay, changed, executed>>
    BY <1>1, <2>1 DEF RecordIntent
  <2> QED BY <2>2, <2>3, JournalGrows
<1>2. CASE RecordOutcome
  <2>1. PICK result \in {"succeeded", "failed"} :
          journal' = Append(journal, [key |-> Last(journal).key, status |-> result])
    BY <1>2 DEF RecordOutcome
  <2>2. PICK entry : entry = [key |-> Last(journal).key, status |-> result]
    OBVIOUS
  <2>3. Last(journal) \in JournalEntry
    <3>1. Len(journal) \in 1..Len(journal)
      BY <1>0, <1>2, EmptySeq DEF RecordOutcome
    <3> QED BY <1>0, <3>1, ElementOfSeq DEF Last
  <2>4. entry \in JournalEntry
    BY <2>2, <2>3 DEF JournalEntry
  <2>5. journal' = Append(journal, entry) /\ UNCHANGED <<callOf, replay, changed, executed>>
    BY <1>2, <2>1, <2>2 DEF RecordOutcome
  <2> QED BY <2>4, <2>5, JournalGrows
<1>3. CASE SkipEntry
  <2>1. /\ replay.at = "running" /\ replay.left # <<>> /\ replay' = Report(Head(replay.left), "skipped")
        /\ UNCHANGED <<journal, callOf, changed, executed>> /\ "skipped" \in Reported
    BY <1>3 DEF SkipEntry, Reported
  <2>2. /\ replay' \in ReplayRow /\ replay'.at = replay.at /\ replay'.mode = replay.mode
        /\ ToldInOrder(replay.report, replay.left, RecordedOutcomes(journal))'
    BY <2>1, OneMoreIsTold
  <2>3. ExecutedAreKnown'
    BY <1>0, <2>1 DEF ExecutedAreKnown, HasOutcome
  <2>4. replay'.mode = "simulate" => "workspace" \notin changed' /\ ExecutedAreListed'
    BY <2>1, <2>2 DEF ReplayInv, ExecutedAreListed
  <2>5. replay'.at = "running" /\ UNCHANGED <<journal, callOf, changed, executed>>
    BY <2>1, <2>2
  <2> QED BY <1>0, <2>2, <2>3, <2>4, <2>5 DEF ReplayInv
<1>4. CASE ExecuteEntry
  <2>1. PICK entry : entry = Head(replay.left)
    OBVIOUS
  <2>2. /\ replay.at = "running" /\ replay.left # <<>> /\ ~Skips(entry) /\ UNCHANGED <<journal, callOf>>
        /\ \E outcome \in Reported : replay' = Report(entry, outcome)
    BY <1>4, <2>1 DEF ExecuteEntry, Reported
  <2>3. /\ replay' \in ReplayRow /\ replay'.at = replay.at /\ replay'.mode = replay.mode
        /\ ToldInOrder(replay.report, replay.left, RecordedOutcomes(journal))'
        /\ entry \in JournalEntry /\ HasOutcome(entry.key)
    BY <2>1, <2>2, OneMoreIsTold
  <2>5. entry.key \in ReplayKey
    BY <2>3 DEF JournalEntry
  <2>6. executed' = executed \/ executed' = Append(executed, entry.key)
    BY <1>4, <2>1 DEF ExecuteEntry
  <2>7. executed' \in Seq(ReplayKey) /\ ExecutedAreKnown'
    <3>1. CASE executed' = executed
      BY <1>0, <2>2, <3>1 DEF ExecutedAreKnown, HasOutcome
    <3>2. CASE executed' = Append(executed, entry.key)
      <4>1. /\ executed' \in Seq(ReplayKey) /\ DOMAIN executed' = 1..(Len(executed) + 1)
            /\ DOMAIN executed = 1..Len(executed) /\ Len(executed) \in Nat
            /\ \A i \in 1..Len(executed) : executed'[i] = executed[i]
            /\ executed'[Len(executed) + 1] = entry.key
        BY <1>0, <2>5, <3>2, AppendProperties, LenProperties
      <4>2. ASSUME NEW i \in DOMAIN executed'
            PROVE  \E j \in DOMAIN journal' : /\ journal'[j].key = executed'[i]
                                              /\ journal'[j].status \in {"succeeded", "failed"}
        <5>1. PICK k : k = executed'[i]
          OBVIOUS
        <5>2. HasOutcome(k)
          <6>1. i \in 1..Len(executed) \/ i = Len(executed) + 1
            BY <4>1
          <6> QED BY <1>0, <2>3, <4>1, <5>1, <6>1 DEF ExecutedAreKnown
        <5> QED BY <2>2, <5>1, <5>2 DEF HasOutcome
      <4> QED BY <4>1, <4>2 DEF ExecutedAreKnown, HasOutcome
    <3> QED BY <2>6, <3>1, <3>2
  <2>8. replay.mode = "simulate" => "workspace" \notin changed' /\ ExecutedAreListed'
    <3> SUFFICES ASSUME replay.mode = "simulate"
                 PROVE  "workspace" \notin changed' /\ ExecutedAreListed'
      OBVIOUS
    <3>1. /\ "workspace" \notin changed /\ callOf[entry.key] \in RecordedCalls
          /\ callOf[entry.key].tool \in READ_ONLY_TOOLS
      BY <1>0, <2>2, <2>5 DEF ReplayInv, Skips
    <3>2. ExecutedAreListed
      BY DEF ReplayInv
    <3>3. "workspace" \notin callOf[entry.key].changes
      BY <3>1 DEF RecordedCalls, READ_ONLY_TOOLS
    <3>4. "workspace" \notin changed'
      BY <1>4, <2>1, <3>1, <3>3 DEF ExecuteEntry
    <3>5. CASE executed' = executed
      BY <2>2, <3>2, <3>4, <3>5 DEF ExecutedAreListed
    <3>6. CASE executed' = Append(executed, entry.key)
      <4>1. /\ DOMAIN executed' = 1..(Len(executed) + 1)
            /\ DOMAIN executed = 1..Len(executed) /\ Len(executed) \in Nat
            /\ \A i \in 1..Len(executed) : executed'[i] = executed[i]
            /\ executed'[Len(executed) + 1] = entry.key
        BY <1>0, <2>5, <3>6, AppendProperties, LenProperties
      <4>2. \A i \in DOMAIN executed' : executed'[i] = entry.key \/ (i \in DOMAIN executed /\ executed'[i] = executed[i])
        BY <4>1
      <4>3. \A i \in DOMAIN executed' : callOf[executed'[i]].tool \in READ_ONLY_TOOLS
        BY <3>1, <3>2, <4>2 DEF ExecutedAreListed
      <4> QED BY <2>2, <3>4, <4>3 DEF ExecutedAreListed
    <3> QED BY <2>6, <3>4, <3>5, <3>6
  <2>9. replay'.at = "running" /\ callOf' = callOf /\ journal' = journal
        /\ (replay'.mode = "simulate" => "workspace" \notin changed' /\ ExecutedAreListed')
    BY <2>2, <2>3, <2>8
  <2> QED BY <1>0, <2>3, <2>7, <2>9 DEF ReplayInv
<1>5. CASE FinishReplay
  <2>1. /\ replay.at = "running" /\ replay' = [replay EXCEPT !.at = "done"]
        /\ UNCHANGED <<journal, callOf, changed, executed>>
    BY <1>5 DEF FinishReplay
  <2>2. /\ replay' \in ReplayRow /\ replay'.at = "done" /\ replay'.mode = replay.mode
        /\ replay'.left = replay.left /\ replay'.report = replay.report
    BY <1>0, <2>1 DEF ReplayRow
  <2>3. ExecutedAreKnown'
    BY <1>0, <2>1 DEF ExecutedAreKnown, HasOutcome
  <2>4. ToldInOrder(replay.report, replay.left, RecordedOutcomes(journal))'
    BY <2>1, <2>2 DEF ReplayInv
  <2>5. replay'.mode = "simulate" => "workspace" \notin changed' /\ ExecutedAreListed'
    BY <2>1, <2>2 DEF ReplayInv, ExecutedAreListed
  <2>6. UNCHANGED <<journal, callOf, changed, executed>>
    BY <2>1
  <2> QED BY <1>0, <2>2, <2>3, <2>4, <2>5, <2>6 DEF ReplayInv
<1> QED BY <1>1, <1>2, <1>3, <1>4, <1>5, ReplayBegins DEF ReplayNext

LEMMA ReplayIsGood ==
  ASSUME ReplayInv
  PROVE  ReplayOnlyWhatIsKnown /\ ReplayAccountsForAll
<1>1. ReplayOnlyWhatIsKnown
  <2>1. \A i \in DOMAIN executed : HasOutcome(executed[i])
    BY DEF ReplayInv, ExecutedAreKnown
  <2>2. ASSUME NEW key, HasOutcome(key) PROVE StatusesOf(key) \cap {"succeeded", "failed"} # {}
    BY <2>2 DEF HasOutcome, StatusesOf
  <2>3. replay.mode = "simulate" =>
          "workspace" \notin changed /\ \A i \in DOMAIN executed : callOf[executed[i]].tool \in READ_ONLY_TOOLS
    BY DEF ReplayInv, ExecutedAreListed
  <2> QED BY <2>1, <2>2, <2>3 DEF ReplayOnlyWhatIsKnown
<1>2. ReplayAccountsForAll
  <2>1. PICK told, ofRun : told = replay.report /\ ofRun = RecordedOutcomes(journal)
    OBVIOUS
  <2>2. /\ told \in Seq(ReportedEntry) /\ Len(told) \in Nat /\ DOMAIN told = 1..Len(told)
        /\ ofRun \in Seq(JournalEntry) /\ Len(ofRun) \in Nat /\ DOMAIN ofRun = 1..Len(ofRun)
        /\ Len(told) <= Len(ofRun)
        /\ \A i \in 1..Len(told) : told[i].key = ofRun[i].key
    <3>1. told \in Seq(ReportedEntry) /\ replay.left \in Seq(JournalEntry) /\ journal \in Seq(JournalEntry)
      BY <2>1 DEF ReplayInv, ReplayRow
    <3>2. /\ Len(told) \in Nat /\ DOMAIN told = 1..Len(told) /\ Len(replay.left) \in Nat
          /\ ofRun \in Seq(JournalEntry) /\ Len(ofRun) \in Nat /\ DOMAIN ofRun = 1..Len(ofRun)
      BY <2>1, <3>1, LenProperties, OutcomesAreEntries
    <3>3. Len(told) + Len(replay.left) <= Len(ofRun) /\ \A i \in 1..Len(told) : told[i].key = ofRun[i].key
      BY <2>1 DEF ReplayInv, ToldInOrder
    <3> QED BY <3>1, <3>2, <3>3
  <2>3. PICK some, all : /\ some = [i \in DOMAIN told |-> told[i].key]
                         /\ all = [i \in DOMAIN ofRun |-> ofRun[i].key]
    OBVIOUS
  <2>4. /\ some \in Seq(ReplayKey) /\ Len(some) = Len(told) /\ all \in Seq(ReplayKey) /\ Len(all) = Len(ofRun)
        /\ \A i \in 1..Len(told) : some[i] = all[i] /\ some[i] \in ReplayKey /\ all[i] \in ReplayKey
    <3>1. \A i \in 1..Len(told) : told[i].key \in ReplayKey
      <4>1. \A i \in 1..Len(told) : told[i] \in ReportedEntry
        BY <2>2, ElementOfSeq
      <4> QED BY <4>1 DEF ReportedEntry
    <3>2. \A i \in 1..Len(ofRun) : ofRun[i].key \in ReplayKey
      <4>1. \A i \in 1..Len(ofRun) : ofRun[i] \in JournalEntry
        BY <2>2, ElementOfSeq
      <4> QED BY <4>1 DEF JournalEntry
    <3>3. some \in [1..Len(told) -> ReplayKey] /\ all \in [1..Len(ofRun) -> ReplayKey]
      BY <2>2, <2>3, <3>1, <3>2
    <3>4. some \in Seq(ReplayKey) /\ all \in Seq(ReplayKey)
      <4>1. \A n \in Nat : \A f \in [1..n -> ReplayKey] : f \in Seq(ReplayKey)
        BY SeqDef
      <4> QED BY <2>2, <3>3, <4>1
    <3>5. Len(some) = Len(told) /\ Len(all) = Len(ofRun)
      BY <2>2, <3>3, <3>4, LenProperties
    <3>6. \A i \in 1..Len(told) : i \in 1..Len(ofRun)
      BY <2>2
    <3> QED BY <2>2, <2>3, <3>1, <3>2, <3>4, <3>5, <3>6
  <2>5. PICK n \in Nat : n = Len(told)
    BY <2>2
  <2>6. /\ SubSeq(some, 1, n) \in Seq(ReplayKey) /\ Len(SubSeq(some, 1, n)) = IF 1 <= n THEN n - 1 + 1 ELSE 0
        /\ \A i \in 1..(n - 1 + 1) : SubSeq(some, 1, n)[i] = some[1 + i - 1]
    BY <2>4, <2>5, SubSeqProperties
  <2>7. /\ SubSeq(all, 1, n) \in Seq(ReplayKey) /\ Len(SubSeq(all, 1, n)) = IF 1 <= n THEN n - 1 + 1 ELSE 0
        /\ \A i \in 1..(n - 1 + 1) : SubSeq(all, 1, n)[i] = all[1 + i - 1]
    BY <2>4, <2>5, SubSeqProperties
  <2>8. Len(SubSeq(some, 1, n)) = n /\ Len(SubSeq(all, 1, n)) = n
        /\ \A i \in 1..n : SubSeq(some, 1, n)[i] = some[i] /\ SubSeq(all, 1, n)[i] = all[i]
    BY <2>6, <2>7
  <2>9. SubSeq(some, 1, n) = SubSeq(all, 1, n)
    BY <2>4, <2>5, <2>6, <2>7, <2>8, SeqEqual
  <2>10. IsPrefix(some, all)
    BY <2>2, <2>4, <2>5, <2>9 DEF IsPrefix
  <2> QED BY <2>1, <2>3, <2>10 DEF ReplayAccountsForAll
<1> QED BY <1>1, <1>2

\* A replay of a journal that still grows (replay.ts): only an action whose
\* outcome was recorded is executed again, a simulation executes only what is listed
\* as read-only and so leaves the workspace alone, and the report tells the outcomes
\* it read, each once and in their order.
THEOREM ReplaysTell == RecordsSpec => []ReplayTellsAll
<1>1. RecordsInit => ReplayInv
  BY ReplayStarts DEF RecordsInit
<1>2. ReplayInv /\ [RecordsNext]_recordsVars => ReplayInv'
  <2> SUFFICES ASSUME ReplayInv, [RecordsNext]_recordsVars PROVE ReplayInv'
    OBVIOUS
  <2>1. ReplayNext \/ UNCHANGED ReplayVars
    BY StoresRest
  <2>2. CASE UNCHANGED ReplayVars
    BY <2>2 DEF ReplayInv, ReplayVars, ExecutedAreKnown, ExecutedAreListed, HasOutcome
  <2> QED BY <2>1, <2>2, ReplaySteps
<1>3. ReplayInv => ReplayTellsAll
  BY ReplayIsGood DEF ReplayTellsAll, Of
<1> QED BY <1>1, <1>2, <1>3, PTL DEF RecordsSpec

-----------------------------------------------------------------------------
(* The two drivers.  As long as neither has refused a call and none that both  *)
(* took has set them apart, the rows of the log are those of the table, each   *)
(* id once; and then every read has one answer or, where the query leaves the  *)
(* order open, one that it allows.                                             *)

Increasing == \A i, j \in DOMAIN kept : i < j => kept[i].slot < kept[j].slot
OneOfEach == \A one, other \in table : one.slot = other.slot => one = other

\* The table is the log, row by row.
Mirrored ==
  /\ table = {ToRow(collection, kept[i]) : i \in DOMAIN kept}
  /\ \A i, j \in DOMAIN kept : kept[i].id = kept[j].id => i = j
  /\ collection \in Timed => \A i, j \in DOMAIN kept : i < j => kept[i].slot <= kept[j].slot
  /\ collection \in SlotIsUnique => \A i, j \in DOMAIN kept : kept[i].slot = kept[j].slot => i = j

DriversInv ==
  /\ collection \in Collections /\ kept \in Seq(Rows)
  /\ refusedBy = {} /\ apart = {} => Mirrored
  /\ collection = "events" => Increasing /\ OneOfEach

LEMMA DriversStart ==
  ASSUME NEW name \in Collections, StoreDriversInit(name)
  PROVE  DriversInv
<1>1. /\ collection = name /\ kept = << >> /\ table = {} /\ DOMAIN << >> = {} /\ << >> \in Seq(Rows)
  BY DEF StoreDriversInit
<1>2. Mirrored /\ Increasing /\ OneOfEach
  BY <1>1 DEF Mirrored, Increasing, OneOfEach
<1> QED BY <1>1, <1>2 DEF DriversInv

\* How rows that already have a copy are saved: where the log would keep both, the
\* table refuses the second.
LEMMA SavesAgree ==
  ASSUME NEW c \in DOMAIN Embedded
  PROVE  /\ Embedded[c]["save"] \in {"put", "update", "append", "increasing"}
         /\ c \notin WrittenOnce /\ Embedded[c]["save"] \in {"append", "increasing"} => Postgres[c]["save"] = "create"
BY DEF Embedded, EmbeddedRuns, EmbeddedEvents, EmbeddedSteps, EmbeddedCheckpoints, EmbeddedIdentity, EmbeddedStates,
   EmbeddedApprovals, EmbeddedRecords, EmbeddedAgents, EmbeddedPolicies, EmbeddedWebhooks, EmbeddedDeliveries,
   EmbeddedMemory, Postgres, PostgresRuns, PostgresEvents, PostgresSteps, PostgresCheckpoints, PostgresStates,
   PostgresMemory, PostgresApprovals, PostgresArtifacts, PostgresUsage, PostgresFailures, PostgresRecords,
   PostgresAgents, PostgresIdentity, PostgresWebhooks, PostgresDeliveries, PostgresPolicies, Drive, WrittenOnce

\* In which order rows are read: the same, or one that the query leaves open, or by a
\* time that is also the order of the log.
LEMMA OrdersAgree ==
  ASSUME NEW c \in DOMAIN Embedded, NEW n \in DOMAIN Embedded[c].reads
  PROVE  /\ Embedded[c].reads[n] \in {"ascending", "descending", "log"}
         /\ \/ Postgres[c].reads[n] \in {"any", Embedded[c].reads[n]}
            \/ Postgres[c].reads[n] = "ascending" /\ Embedded[c].reads[n] = "log" /\ c \in Timed
<1> DEFINE own == Embedded[c].reads
           other == Postgres[c].reads
<1>1. /\ own \in {<<"ascending">>, <<"descending">>, <<"log">>, <<"ascending", "descending">>,
                   <<"descending", "ascending">>, <<"ascending", "log">>}
      /\ \/ other = own
         \/ own = <<"log">> /\ other = <<"any">>
         \/ c \in Timed /\ own = <<"log">> /\ other = <<"ascending">>
         \/ c \in Timed /\ own = <<"ascending", "log">> /\ other = <<"ascending", "ascending">>
  <2>1. CASE c = "runs"
    BY <2>1 DEF Embedded, EmbeddedRuns, Postgres, PostgresRuns, Drive, Timed
  <2>2. CASE c = "events"
    BY <2>2 DEF Embedded, EmbeddedEvents, Postgres, PostgresEvents, Drive, Timed
  <2>3. CASE c = "steps"
    BY <2>3 DEF Embedded, EmbeddedSteps, Postgres, PostgresSteps, Drive, Timed
  <2>4. CASE c = "checkpoints"
    BY <2>4 DEF Embedded, EmbeddedCheckpoints, Postgres, PostgresCheckpoints, Drive, Timed
  <2>5. CASE c = "identity"
    BY <2>5 DEF Embedded, EmbeddedIdentity, Postgres, PostgresIdentity, Drive, Timed
  <2>6. CASE c = "states"
    BY <2>6 DEF Embedded, EmbeddedStates, Postgres, PostgresStates, Drive, Timed
  <2>7. CASE c = "approvals"
    BY <2>7 DEF Embedded, EmbeddedApprovals, Postgres, PostgresApprovals, Drive, Timed
  <2>8. CASE c = "agents"
    BY <2>8 DEF Embedded, EmbeddedAgents, Postgres, PostgresAgents, Drive, Timed
  <2>9. CASE c = "policies"
    BY <2>9 DEF Embedded, EmbeddedPolicies, Postgres, PostgresPolicies, Drive, Timed
  <2>10. CASE c = "webhooks"
    BY <2>10 DEF Embedded, EmbeddedWebhooks, Postgres, PostgresWebhooks, Drive, Timed
  <2>11. CASE c = "deliveries"
    BY <2>11 DEF Embedded, EmbeddedDeliveries, Postgres, PostgresDeliveries, Drive, Timed
  <2>12. CASE c = "memory"
    BY <2>12 DEF Embedded, EmbeddedMemory, Postgres, PostgresMemory, Drive, Timed
  <2>13. CASE c = "artifacts"
    BY <2>13 DEF Embedded, EmbeddedRecords, Postgres, PostgresArtifacts, Drive, Timed
  <2>14. CASE c = "failures"
    BY <2>14 DEF Embedded, EmbeddedRecords, Postgres, PostgresFailures, Drive, Timed
  <2>15. CASE c = "usage"
    BY <2>15 DEF Embedded, EmbeddedRecords, Postgres, PostgresUsage, Drive, Timed
  <2>16. CASE c = "recoveries"
    BY <2>16 DEF Embedded, EmbeddedRecords, Postgres, PostgresRecords, Drive, Timed
  <2>17. CASE c = "invocations"
    BY <2>17 DEF Embedded, EmbeddedRecords, Postgres, PostgresRecords, Drive, Timed
  <2>18. CASE c = "policyDecisions"
    BY <2>18 DEF Embedded, EmbeddedRecords, Postgres, PostgresRecords, Drive, Timed
  <2>19. c \in {"runs", "events", "steps", "checkpoints", "identity", "states", "approvals", "agents", "policies", "webhooks", "deliveries", "memory", "artifacts", "failures", "usage", "recoveries", "invocations", "policyDecisions"}
    BY DEF Embedded
  <2> HIDE DEF own, other
  <2> QED BY <2>1, <2>2, <2>3, <2>4, <2>5, <2>6, <2>7, <2>8, <2>9, <2>10, <2>11, <2>12, <2>13, <2>14, <2>15, <2>16, <2>17, <2>18, <2>19
<1> HIDE DEF own, other
<1>2. n \in DOMAIN own
  BY DEF own
<1>3. /\ own[n] \in {"ascending", "descending", "log"}
      /\ other[n] \in {"any", own[n]} \/ (other[n] = "ascending" /\ own[n] = "log" /\ c \in Timed)
  <2>1. n \in {1, 2}
    BY <1>1, <1>2
  <2> QED BY <1>1, <1>2, <2>1
<1> QED BY <1>3 DEF own, other

LEMMA StoredAsHeld ==
  ASSUME Mirrored, NEW id
  PROVE  Stored(id) = {ToRow(collection, kept[i]) : i \in Held(id)}
BY DEF Mirrored, Stored, Held, ToRow

\* What sets the drivers apart did not happen in this call.
LEMMA SetsNothingApart ==
  ASSUME NEW row, SetsApart(row) = {}
  PROVE  /\ collection \notin AlwaysWritten /\ row.optional = "absent" =>
              \A i \in Held(row.id) : kept[i].optional = "absent"
         /\ \A i \in Held(row.id) : kept[i].slot = row.slot
         /\ collection = "agents" => \A i \in DOMAIN kept \ Held(row.id) : kept[i].optional = row.optional
<1>1. "cleared" \notin SetsApart(row) /\ "retimed" \notin SetsApart(row) /\ "renamed" \notin SetsApart(row)
  OBVIOUS
<1>2. /\ "cleared" \in {"cleared", "retimed", "renamed"} /\ "retimed" \in {"cleared", "retimed", "renamed"}
      /\ "renamed" \in {"cleared", "retimed", "renamed"}
      /\ "retimed" # "cleared" /\ "renamed" # "cleared" /\ "renamed" # "retimed"
  OBVIOUS
<1> QED BY <1>1, <1>2 DEF SetsApart

\* The other versions of an agent have the name that is saved with this one.
LEMMA NamesStay ==
  ASSUME Mirrored, NEW row, SetsApart(row) = {}, collection = "agents", row.optional # "absent"
  PROVE  {[other EXCEPT !.optional = row.optional] : other \in table \ Stored(row.id)} = table \ Stored(row.id)
<1>1. ASSUME NEW other \in table \ Stored(row.id)
      PROVE  [other EXCEPT !.optional = row.optional] = other
  <2>1. PICK i \in DOMAIN kept : other = ToRow(collection, kept[i])
    BY <1>1 DEF Mirrored
  <2>2. i \notin Held(row.id)
    BY <1>1, <2>1 DEF Held, Stored, ToRow
  <2>3. kept[i].optional = row.optional
    BY <2>2, SetsNothingApart
  <2> QED BY <2>1, <2>3 DEF ToRow
<1> QED BY <1>1

\* A row that is new to both.
LEMMA CreateMirrors ==
  ASSUME DriversInv, AskCreate
  PROVE  DriversInv'
<1>0. /\ collection \in Collections /\ kept \in Seq(Rows)
      /\ refusedBy = {} /\ apart = {} => Mirrored
      /\ collection = "events" => Increasing /\ OneOfEach
  BY DEF DriversInv
<1>1. PICK row \in Rows :
        /\ Held(row.id) = {} /\ Stored(row.id) = {}
        /\ collection = "agents" => row.optional # "absent"
        /\ collection \in Timed => \A i \in DOMAIN kept : kept[i].slot <= row.slot
        /\ Ask("create", row)
  BY DEF AskCreate
<1> DEFINE takes == EmbeddedTakes(Embedded[collection]["create"], row)
           stores == PostgresTakes(Postgres[collection]["create"], row)
<1>2. /\ kept' = IF takes THEN EmbeddedAfter(Embedded[collection]["create"], row) ELSE kept
      /\ table' = IF stores THEN PostgresAfter(row) ELSE table
      /\ refusedBy' = {} => refusedBy = {} /\ takes /\ stores
      /\ apart' = {} => apart = {} /\ SetsApart(row) = {}
      /\ collection' = collection
  BY <1>1 DEF Ask
<1>3. kept' = IF takes THEN Append(kept, row) ELSE kept
  BY <1>1, <1>2 DEF EmbeddedAfter
<1>4. collection # "agents" \/ (Mirrored /\ SetsApart(row) = {}) =>
        table' = IF stores THEN table \cup {ToRow(collection, row)} ELSE table
  <2> SUFFICES ASSUME collection # "agents" \/ (Mirrored /\ SetsApart(row) = {})
               PROVE  PostgresAfter(row) = table \cup {ToRow(collection, row)}
    BY <1>2
  <2>1. table \ Stored(row.id) = table
    BY <1>1
  <2>2. CASE collection = "agents"
    <3>1. {[other EXCEPT !.optional = row.optional] : other \in table \ Stored(row.id)} = table
      BY <1>1, <2>1, <2>2, NamesStay
    <3> HIDE DEF ToRow
    <3> QED BY <1>1, <2>2, <3>1 DEF PostgresAfter
  <2>3. CASE collection # "agents"
    <3> HIDE DEF ToRow
    <3> QED BY <1>1, <2>1, <2>3 DEF PostgresAfter
  <2> QED BY <2>2, <2>3
<1>5. takes /\ collection = "events" => \A i \in DOMAIN kept : kept[i].slot < row.slot
  <2>1. Embedded["events"]["create"] = "increasing"
    BY DEF Embedded, EmbeddedEvents, Drive
  <2> QED BY <2>1 DEF EmbeddedTakes
<1>6. stores /\ collection \in SlotIsUnique => \A other \in table : other.slot # row.slot
  BY <1>1 DEF PostgresTakes, Stored
<1> HIDE DEF takes, stores
<1>a. PICK n \in Nat : n = Len(kept) /\ DOMAIN kept = 1..n
  BY <1>0, LenProperties
<1>b. PICK more : more = Append(kept, row)
  OBVIOUS
<1>7. /\ DOMAIN kept = 1..n /\ more = Append(kept, row)
      /\ more \in Seq(Rows) /\ DOMAIN more = 1..n + 1 /\ more[n + 1] = row /\ \A i \in 1..n : more[i] = kept[i]
  BY <1>0, <1>a, <1>b, OneMore
<1>8. \A i \in 1..n + 1 : i = n + 1 \/ i \in 1..n
  OBVIOUS
<1>9. \A i \in 1..n : kept[i].id # row.id
  BY <1>1, <1>7 DEF Held
<1>10. \A i, j \in 1..n + 1 : i < j => i \in 1..n /\ (j \in 1..n \/ j = n + 1)
  OBVIOUS
<1>11. ASSUME refusedBy' = {}, apart' = {} PROVE Mirrored'
  <2>1. /\ Mirrored /\ kept' = more /\ table' = table \cup {ToRow(collection, row)} /\ takes /\ stores
        /\ collection' = collection
    BY <1>0, <1>2, <1>3, <1>4, <1>7, <1>11
  <2>2. table' = {ToRow(collection, more[i]) : i \in 1..n + 1}
    <3>1. table = {ToRow(collection, kept[i]) : i \in 1..n}
      BY <1>7, <2>1 DEF Mirrored
    <3>2. \A i \in 1..n : i \in 1..n + 1 /\ n + 1 \in 1..n + 1
      OBVIOUS
    <3>3. n + 1 \in 1..n + 1
      OBVIOUS
    <3> HIDE DEF ToRow
    <3> QED BY <1>7, <1>8, <2>1, <3>1, <3>2, <3>3
  <2>3. \A i, j \in 1..n + 1 : more[i].id = more[j].id => i = j
    BY <1>7, <1>8, <1>9, <2>1 DEF Mirrored
  <2>4. collection \in Timed => \A i, j \in 1..n + 1 : i < j => more[i].slot <= more[j].slot
    BY <1>1, <1>7, <1>10, <2>1 DEF Mirrored
  <2>5. collection \in SlotIsUnique => \A i, j \in 1..n + 1 : more[i].slot = more[j].slot => i = j
    <3>1. collection \in SlotIsUnique => \A i \in 1..n : kept[i].slot # row.slot
      <4>1. \A i \in 1..n : ToRow(collection, kept[i]) \in table /\ ToRow(collection, kept[i]).slot = kept[i].slot
        <5>1. \A i \in 1..n : ToRow(collection, kept[i]).slot = kept[i].slot
          BY DEF ToRow
        <5> HIDE DEF ToRow
        <5> QED BY <1>7, <2>1, <5>1 DEF Mirrored
      <4> HIDE DEF ToRow
      <4> QED BY <1>6, <2>1, <4>1
    <3>2. collection \in SlotIsUnique => \A i, j \in 1..n : kept[i].slot = kept[j].slot => i = j
      BY <1>7, <2>1 DEF Mirrored
    <3>3. /\ more[n + 1].slot = row.slot
          /\ \A i \in 1..n : more[i].slot = kept[i].slot
      BY <1>7
    <3> QED BY <1>8, <3>1, <3>2, <3>3
  <2> QED BY <1>7, <2>1, <2>2, <2>3, <2>4, <2>5 DEF Mirrored
<1>12. ASSUME collection' = "events" PROVE Increasing' /\ OneOfEach'
  <2>1. Increasing /\ OneOfEach /\ collection = "events" /\ collection \in SlotIsUnique /\ collection # "agents"
    BY <1>0, <1>2, <1>12 DEF SlotIsUnique
  <2>2. Increasing'
    <3>1. CASE takes
      BY <1>3, <1>5, <1>7, <1>10, <2>1, <3>1 DEF Increasing
    <3>2. CASE ~takes
      BY <1>3, <2>1, <3>2 DEF Increasing
    <3> QED BY <3>1, <3>2
  <2>3. OneOfEach'
    <3>1. CASE stores
      BY <1>4, <1>6, <2>1, <3>1 DEF OneOfEach, ToRow
    <3>2. CASE ~stores
      BY <1>4, <2>1, <3>2 DEF OneOfEach
    <3> QED BY <3>1, <3>2
  <2> QED BY <2>2, <2>3
<1>13. kept' \in Seq(Rows)
  BY <1>0, <1>3, <1>7
<1> QED BY <1>0, <1>2, <1>11, <1>12, <1>13 DEF DriversInv

\* A row that both have is replaced where it stands, or refused by the table.
LEMMA SaveMirrors ==
  ASSUME DriversInv, AskSave
  PROVE  DriversInv'
<1>0. /\ collection \in Collections /\ kept \in Seq(Rows) /\ collection \in DOMAIN Embedded
      /\ refusedBy = {} /\ apart = {} => Mirrored
  BY StoreDriversAssumption DEF DriversInv
<1>1. PICK row \in Rows :
        /\ Held(row.id) # {} /\ (collection = "agents" => row.optional # "absent")
        /\ Ask("save", row)
  BY DEF AskSave
<1>a. collection \notin WrittenOnce /\ collection # "events"
  BY DEF AskSave, WrittenOnce
<1> DEFINE way == Embedded[collection]["save"]
           takes == EmbeddedTakes(way, row)
           stores == PostgresTakes(Postgres[collection]["save"], row)
<1>2. /\ kept' = IF takes THEN EmbeddedAfter(way, row) ELSE kept
      /\ table' = IF stores THEN PostgresAfter(row) ELSE table
      /\ refusedBy' = {} => refusedBy = {} /\ takes /\ stores
      /\ apart' = {} => apart = {} /\ SetsApart(row) = {}
      /\ collection' = collection
  BY <1>1 DEF Ask
<1>3. stores /\ way \in {"append", "increasing"} => Stored(row.id) = {}
  BY <1>0, <1>a, SavesAgree DEF PostgresTakes
<1> HIDE DEF takes, stores, way
<1>4. PICK n \in Nat : n = Len(kept) /\ DOMAIN kept = 1..n
  BY <1>0, LenProperties
<1>5. PICK place : place = CHOOSE i \in Held(row.id) : TRUE
  OBVIOUS
<1>6. place \in Held(row.id) /\ place \in 1..n /\ kept[place].id = row.id
  <2>1. place \in Held(row.id)
    BY <1>1, <1>5
  <2> QED BY <1>1, <1>4, <2>1 DEF Held
<1>7. PICK replaced : replaced = [kept EXCEPT ![place] = row]
  OBVIOUS
<1>8. replaced \in Seq(Rows) /\ DOMAIN replaced = 1..n /\ replaced[place] = row /\ \A i \in 1..n : i # place => replaced[i] = kept[i]
  <2>1. replaced \in Seq(Rows)
    BY <1>0, <1>4, <1>6, <1>7, ExceptSeq
  <2> QED BY <1>4, <1>6, <1>7, <2>1
<1>9. EmbeddedAfter(way, row) = IF way \in {"append", "increasing"} THEN Append(kept, row) ELSE replaced
  BY <1>1, <1>5, <1>7 DEF EmbeddedAfter
<1>10. kept' \in Seq(Rows)
  BY <1>0, <1>2, <1>8, <1>9, OneMore
<1>11. ASSUME refusedBy' = {}, apart' = {} PROVE Mirrored'
  <2>1. Mirrored /\ takes /\ stores /\ collection' = collection
    BY <1>0, <1>2, <1>11
  <2>2. Held(row.id) = {place} /\ Stored(row.id) = {ToRow(collection, kept[place])}
    <3>1. Held(row.id) = {place}
      BY <1>4, <1>6, <2>1 DEF Mirrored, Held
    <3> QED BY <2>1, <3>1, StoredAsHeld
  <2>a. kept[place].slot = row.slot
    BY <1>2, <1>6, <1>11, SetsNothingApart
  <2>3. kept' = replaced
    BY <1>2, <1>3, <1>9, <2>1, <2>2
  <2>4. table' = (table \ {ToRow(collection, kept[place])}) \cup {ToRow(collection, row)}
    <3>1. (CHOOSE old \in Stored(row.id) : TRUE) = ToRow(collection, kept[place])
      BY <2>2
    <3>2. collection \notin AlwaysWritten /\ row.optional = "absent" => kept[place].optional = "absent"
      BY <1>2, <1>6, <1>11, SetsNothingApart
    <3>3. collection \notin AlwaysWritten /\ row.optional = "absent" =>
            [ToRow(collection, row) EXCEPT !.optional = ToRow(collection, kept[place]).optional] = ToRow(collection, row)
      BY <3>2 DEF ToRow
    <3>a. [ToRow(collection, row) EXCEPT !.slot = ToRow(collection, kept[place]).slot] = ToRow(collection, row)
      BY <2>a DEF ToRow
    <3>b. collection = "agents" =>
            {[other EXCEPT !.optional = row.optional] : other \in table \ Stored(row.id)} = table \ Stored(row.id)
      BY <1>1, <1>2, <1>11, <2>1, NamesStay
    <3>4. PostgresAfter(row) = (table \ {ToRow(collection, kept[place])}) \cup {ToRow(collection, row)}
      <4> HIDE DEF ToRow
      <4>1. CASE collection = "agents"
        BY <2>2, <3>1, <3>a, <3>b, <4>1, Zenon DEF PostgresAfter
      <4>2. CASE collection # "agents"
        BY <2>2, <3>1, <3>3, <4>2, Zenon DEF PostgresAfter
      <4> QED BY <4>1, <4>2
    <3> QED BY <1>2, <2>1, <3>4
  <2>5. \A i \in 1..n : replaced[i].id = kept[i].id /\ replaced[i].slot = kept[i].slot
    BY <1>6, <1>8, <2>a
  <2>6. table' = {ToRow(collection, replaced[i]) : i \in 1..n}
    <3>1. table = {ToRow(collection, kept[i]) : i \in 1..n}
      BY <1>4, <2>1 DEF Mirrored
    <3>2. \A i \in 1..n : i # place => ToRow(collection, kept[i]) # ToRow(collection, kept[place])
      BY <1>4, <1>6, <2>1 DEF Mirrored, ToRow
    <3>3. ASSUME NEW x \in table' PROVE x \in {ToRow(collection, replaced[i]) : i \in 1..n}
      <4>1. CASE x = ToRow(collection, row)
        BY <1>6, <1>8, <4>1
      <4>2. CASE x \in table /\ x # ToRow(collection, kept[place])
        <5>1. PICK i \in 1..n : x = ToRow(collection, kept[i])
          BY <3>1, <4>2
        <5>2. i # place /\ replaced[i] = kept[i]
          BY <1>8, <4>2, <5>1
        <5> QED BY <5>1, <5>2
      <4> QED BY <2>4, <3>3, <4>1, <4>2
    <3>4. ASSUME NEW i \in 1..n PROVE ToRow(collection, replaced[i]) \in table'
      <4>1. CASE i = place
        BY <1>8, <2>4, <4>1
      <4>2. CASE i # place
        <5>1. ToRow(collection, kept[i]) \in table /\ ToRow(collection, kept[i]) # ToRow(collection, kept[place]) /\ replaced[i] = kept[i]
          BY <1>8, <3>1, <3>2, <4>2
        <5> QED BY <2>4, <5>1
      <4> QED BY <4>1, <4>2
    <3> QED BY <3>3, <3>4
  <2> QED BY <1>4, <1>8, <2>1, <2>3, <2>5, <2>6 DEF Mirrored
<1> QED BY <1>0, <1>2, <1>a, <1>10, <1>11 DEF DriversInv

\* What is deleted goes from both.
LEMMA DeleteMirrors ==
  ASSUME DriversInv, AskDelete
  PROVE  DriversInv'
<1>0. /\ collection \in Collections /\ kept \in Seq(Rows)
      /\ refusedBy = {} /\ apart = {} => Mirrored
  BY DEF DriversInv
<1>1. PICK id \in RowId :
        /\ kept' = LinesWithout(id) /\ table' = table \ Stored(id)
        /\ refusedBy' = {} => refusedBy = {}
  BY DEF AskDelete
<1>2. collection' = collection /\ apart' = apart /\ collection # "events"
  BY DEF AskDelete, Removable, DeleteWantsARow
<1>3. PICK n \in Nat : n = Len(kept) /\ DOMAIN kept = 1..n
  BY <1>0, LenProperties
<1>4. PICK others, left : others = DOMAIN kept \ Held(id) /\ left = ElementsAt(kept, others)
  OBVIOUS
<1>5. others \in SUBSET (1..Len(kept)) /\ \A i \in 1..n : i \in others <=> kept[i].id # id
  BY <1>3, <1>4 DEF Held
<1>6. kept' = left
  BY <1>1, <1>4 DEF LinesWithout, ElementsAt
<1>7. PICK m : m = Cardinality(others)
  OBVIOUS
<1>8. /\ m \in Nat /\ left \in Seq(Rows) /\ Len(left) = m
      /\ \E placeOf : InTurn(kept, others, placeOf)
  BY <1>0, <1>4, <1>5, <1>7, ElementsInOrder
<1>a. PICK placeOf : InTurn(kept, others, placeOf)
  BY <1>8
<1>9. /\ placeOf \in [1..m -> others] /\ \A i \in 1..m : left[i] = kept[placeOf[i]]
      /\ \A i \in others : \E j \in 1..m : placeOf[j] = i
      /\ \A i, j \in 1..m : i < j => placeOf[i] < placeOf[j]
  BY <1>4, <1>7, <1>a DEF InTurn
<1>10. DOMAIN left = 1..m /\ \A i \in 1..m : placeOf[i] \in 1..n
  BY <1>3, <1>5, <1>8, <1>9, LenProperties
<1>11. ASSUME refusedBy' = {}, apart' = {} PROVE Mirrored'
  <2>1. Mirrored
    BY <1>0, <1>1, <1>2, <1>11
  <2>2. table' = {ToRow(collection, left[i]) : i \in 1..m}
    <3>1. table = {ToRow(collection, kept[i]) : i \in 1..n}
      BY <1>3, <2>1 DEF Mirrored
    <3>2. \A i \in 1..n : ToRow(collection, kept[i]).id = kept[i].id
      BY DEF ToRow
    <3>3. table' = {ToRow(collection, kept[i]) : i \in others}
      <4> HIDE DEF ToRow
      <4>1. table' = {row \in table : row.id # id}
        BY <1>1 DEF Stored
      <4> QED BY <1>3, <1>5, <3>1, <3>2, <4>1
    <3> HIDE DEF ToRow
    <3> QED BY <1>9, <3>3
  <2>3. \A i, j \in 1..m : left[i].id = left[j].id => i = j
    <3> SUFFICES ASSUME NEW i \in 1..m, NEW j \in 1..m, left[i].id = left[j].id PROVE i = j
      OBVIOUS
    <3>1. placeOf[i] = placeOf[j]
      BY <1>3, <1>9, <1>10, <2>1 DEF Mirrored
    <3>2. ~(i < j) /\ ~(j < i)
      BY <1>9, <1>10, <3>1
    <3> QED BY <1>8, <3>2
  <2>4. collection \in Timed => \A i, j \in 1..m : i < j => left[i].slot <= left[j].slot
    BY <1>3, <1>9, <1>10, <2>1 DEF Mirrored
  <2>5. collection \in SlotIsUnique => \A i, j \in 1..m : left[i].slot = left[j].slot => i = j
    <3> SUFFICES ASSUME collection \in SlotIsUnique, NEW i \in 1..m, NEW j \in 1..m, left[i].slot = left[j].slot
                 PROVE  i = j
      OBVIOUS
    <3>1. placeOf[i] = placeOf[j]
      BY <1>3, <1>9, <1>10, <2>1 DEF Mirrored
    <3>2. ~(i < j) /\ ~(j < i)
      BY <1>9, <1>10, <3>1
    <3> QED BY <1>8, <3>2
  <2> QED BY <1>2, <1>6, <1>10, <2>2, <2>3, <2>4, <2>5 DEF Mirrored
<1> QED BY <1>0, <1>2, <1>6, <1>8, <1>11 DEF DriversInv

\* A search counts on one side only.
LEMMA SearchSetsApart ==
  ASSUME DriversInv, AskSearch
  PROVE  DriversInv'
<1>1. PICK found : kept' = [i \in DOMAIN kept |-> IF i \in found THEN [kept[i] EXCEPT !.optional = "set"] ELSE kept[i]]
  BY DEF AskSearch
<1>2. collection' = collection /\ collection \in Collections /\ collection # "events" /\ apart' # {}
  BY DEF AskSearch, DriversInv
<1>3. PICK n \in Nat : n = Len(kept) /\ DOMAIN kept = 1..n
  BY LenProperties DEF DriversInv
<1>4. kept' \in Seq(Rows)
  <2>1. \A i \in 1..n : kept[i] \in Rows
    BY <1>3, ElementOfSeq DEF DriversInv
  <2>2. \A i \in 1..n : [kept[i] EXCEPT !.optional = "set"] \in Rows
    BY <2>1 DEF Rows
  <2>3. kept' \in [1..n -> Rows]
    BY <1>1, <1>3, <2>1, <2>2
  <2> QED BY <2>3, SeqDef
<1> QED BY <1>2, <1>4 DEF DriversInv

LEMMA DriversStep ==
  ASSUME DriversInv, StoreDriversNext
  PROVE  DriversInv'
BY CreateMirrors, SaveMirrors, DeleteMirrors, SearchSetsApart DEF StoreDriversNext

\* What the table gives back of the rows is what the log holds of them.
LEMMA RowsComeBack ==
  ASSUME kept \in Seq(Rows), Mirrored, ~NotGivenBack
  PROVE  /\ \A i \in DOMAIN kept : FromRow(collection, ToRow(collection, kept[i])) = kept[i]
         /\ {FromRow(collection, columns) : columns \in table} = {kept[i] : i \in DOMAIN kept}
         /\ IsFiniteSet({kept[i] : i \in DOMAIN kept})
         /\ Cardinality({kept[i] : i \in DOMAIN kept}) = Len(kept)
<1>1. PICK n \in Nat : n = Len(kept) /\ DOMAIN kept = 1..n
  BY LenProperties
<1>2. \A i \in 1..n : kept[i] \in Rows
  BY <1>1, ElementOfSeq
<1>3. \A i \in 1..n : FromRow(collection, ToRow(collection, kept[i])) = kept[i]
  <2> SUFFICES ASSUME NEW i \in 1..n PROVE FromRow(collection, ToRow(collection, kept[i])) = kept[i]
    OBVIOUS
  <2>1. PICK row \in Rows : row = kept[i]
    BY <1>2
  <2>2. /\ collection \in BlankIsDropped => row.optional # "blank"
        /\ collection \in NullIsSpread \cup {"memory"} => row.optional # "absent"
    BY <1>1, <2>1 DEF NotGivenBack
  <2>3. FromRow(collection, ToRow(collection, row)) = row
    BY <2>2 DEF FromRow, ToRow, Rows
  <2> QED BY <2>1, <2>3
<1>4. {FromRow(collection, columns) : columns \in table} = {kept[i] : i \in 1..n}
  <2>1. table = {ToRow(collection, kept[i]) : i \in 1..n}
    BY <1>1 DEF Mirrored
  <2> HIDE DEF FromRow, ToRow
  <2> QED BY <1>3, <2>1
<1> DEFINE rows == {kept[i] : i \in 1..n}
           give == [i \in 1..n |-> kept[i]]
<1>5. give \in Bijection(1..n, rows)
  <2>1. \A i, j \in 1..n : kept[i] = kept[j] => i = j
    BY <1>1 DEF Mirrored
  <2> QED BY <2>1 DEF Bijection, Injection, Surjection, IsInjective
<1>6. IsFiniteSet(rows) /\ Cardinality(rows) = n
  <2>1. ExistsBijection(1..n, rows)
    BY <1>5 DEF ExistsBijection
  <2>2. IsFiniteSet(1..n) /\ Cardinality(1..n) = n
    BY SoManyNumbers
  <2> HIDE DEF rows
  <2> QED BY <2>1, <2>2, FS_Bijection
<1> QED BY <1>1, <1>3, <1>4, <1>6

\* A read of the log takes its places one by one, each before the next.
Comes(order, i, j) == Before(order, kept[i], kept[j]) \/ (~Before(order, kept[j], kept[i]) /\ i < j)
ReadBy(order, placeOf) ==
  /\ placeOf \in [DOMAIN kept -> DOMAIN kept]
  /\ EmbeddedRead(order) = [n \in DOMAIN kept |-> kept[placeOf[n]]]
  /\ \A m, n \in DOMAIN kept : m < n => Comes(order, placeOf[m], placeOf[n])

LEMMA ReadsInOrder ==
  ASSUME kept \in Seq(Rows), NEW order
  PROVE  \E placeOf : ReadBy(order, placeOf)
<1>1. PICK n \in Nat : n = Len(kept) /\ DOMAIN kept = 1..n
  BY LenProperties
<1>2. \A i \in 1..n : kept[i].slot \in Nat
  <2>1. \A i \in 1..n : kept[i] \in Rows
    BY <1>1, ElementOfSeq
  <2> QED BY <2>1 DEF Rows, Slot
<1>3. PICK slots : slots = [i \in 1..n |-> kept[i].slot]
  OBVIOUS
<1>4. \A i \in 1..n : slots[i] \in Nat
  BY <1>2, <1>3
<1>5. \A i, j \in 1..n : Comes(order, i, j) <=>
        \/ order = "ascending" /\ (slots[i] < slots[j] \/ (slots[i] = slots[j] /\ i < j))
        \/ order = "descending" /\ (slots[i] > slots[j] \/ (slots[i] = slots[j] /\ i < j))
        \/ order \notin {"ascending", "descending"} /\ i < j
  BY <1>3, <1>4 DEF Comes, Before
<1> DEFINE rel == {p \in (1..n) \X (1..n) : Comes(order, p[1], p[2])}
           rank(i) == Cardinality({j \in DOMAIN kept : Comes(order, j, i)})
           nth(m) == CHOOSE i \in DOMAIN kept : rank(i) = m - 1
           placeOf == [m \in DOMAIN kept |-> nth(m)]
<1>6. \A i, j \in 1..n : <<i, j>> \in rel <=> Comes(order, i, j)
  OBVIOUS
<1> HIDE DEF rel
<1>7. /\ \A i \in 1..n : ~Comes(order, i, i)
      /\ \A i, j, k \in 1..n : Comes(order, i, j) /\ Comes(order, j, k) => Comes(order, i, k)
      /\ \A i, j \in 1..n : i # j => Comes(order, i, j) \/ Comes(order, j, i)
  BY <1>4, <1>5, SMTT(30)
<1>8. Ranked(1..n, rel)
  <2>1. /\ \A i \in 1..n : <<i, i>> \notin rel
        /\ \A i, j, k \in 1..n : <<i, j>> \in rel /\ <<j, k>> \in rel => <<i, k>> \in rel
        /\ \A i, j \in 1..n : i # j => <<i, j>> \in rel \/ <<j, i>> \in rel
    BY <1>6, <1>7
  <2>2. IsFiniteSet(1..n)
    BY SoManyNumbers
  <2> QED BY <2>1, <2>2, RanksAreTaken
<1>9. \A i \in 1..n : rank(i) = RankIn(1..n, rel, i)
  <2> SUFFICES ASSUME NEW i \in 1..n PROVE rank(i) = RankIn(1..n, rel, i)
    OBVIOUS
  <2>1. {j \in DOMAIN kept : Comes(order, j, i)} = {j \in 1..n : <<j, i>> \in rel}
    BY <1>1, <1>6
  <2> QED BY <2>1 DEF RankIn
<1>10. EmbeddedRead(order) = [m \in DOMAIN kept |-> kept[placeOf[m]]]
  <2>1. EmbeddedRead(order) = [m \in DOMAIN kept |-> kept[nth(m)]]
    BY DEF EmbeddedRead, Comes
  <2> HIDE DEF nth
  <2> QED BY <2>1
<1> HIDE DEF rank
<1>11. /\ \A i \in 1..n : rank(i) \in 0..n - 1
       /\ \A i, k \in 1..n : <<i, k>> \in rel => rank(i) < rank(k)
       /\ \A m \in 0..n - 1 : \E i \in 1..n : rank(i) = m
  <2>1. Cardinality(1..n) = n
    BY SoManyNumbers
  <2> QED BY <1>8, <1>9, <2>1, SMTT(30) DEF Ranked
<1>12. \A m \in 1..n : nth(m) \in 1..n /\ rank(nth(m)) = m - 1
  <2> SUFFICES ASSUME NEW m \in 1..n PROVE nth(m) \in 1..n /\ rank(nth(m)) = m - 1
    OBVIOUS
  <2>1. m - 1 \in 0..n - 1
    OBVIOUS
  <2>2. \E i \in DOMAIN kept : rank(i) = m - 1
    BY <1>1, <1>11, <2>1
  <2> QED BY <1>1, <2>2
<1> HIDE DEF nth
<1>13. ASSUME NEW m \in 1..n, NEW k \in 1..n, m < k PROVE Comes(order, nth(m), nth(k))
  <2>1. nth(m) \in 1..n /\ nth(k) \in 1..n /\ rank(nth(m)) = m - 1 /\ rank(nth(k)) = k - 1
    BY <1>12
  <2>2. nth(m) # nth(k) /\ ~(rank(nth(k)) < rank(nth(m)))
    BY <1>13, <2>1
  <2>3. ~Comes(order, nth(k), nth(m))
    BY <1>6, <1>11, <2>1, <2>2
  <2> QED BY <1>7, <2>1, <2>2, <2>3
<1>14. placeOf \in [DOMAIN kept -> DOMAIN kept] /\ \A m \in 1..n : placeOf[m] = nth(m)
  BY <1>1, <1>12
<1> HIDE DEF placeOf
<1>15. ReadBy(order, placeOf)
  BY <1>1, <1>10, <1>13, <1>14 DEF ReadBy
<1> QED BY <1>15

\* An order that the query states and the log keeps to.
LEMMA ReadsAgree ==
  ASSUME kept \in Seq(Rows), Mirrored, ~NotGivenBack, NEW order, NEW stated,
         \/ stated \in {"any", order}
         \/ stated = "ascending" /\ order = "log" /\ collection \in Timed
  PROVE  EmbeddedRead(order) \in PostgresReads(stated)
<1>1. PICK n \in Nat : n = Len(kept) /\ DOMAIN kept = 1..n
  BY LenProperties
<1>2. \A i \in 1..n : kept[i].slot \in Nat
  <2>1. \A i \in 1..n : kept[i] \in Rows
    BY <1>1, ElementOfSeq
  <2> QED BY <2>1 DEF Rows, Slot
<1>3. PICK rows : rows = {kept[i] : i \in 1..n}
  OBVIOUS
<1>4. rows = {FromRow(collection, columns) : columns \in table} /\ Cardinality(rows) = n
  BY <1>1, <1>3, RowsComeBack
<1>a. PICK placeOf : ReadBy(order, placeOf)
  BY ReadsInOrder
<1>5. /\ placeOf \in [1..n -> 1..n] /\ EmbeddedRead(order) = [m \in 1..n |-> kept[placeOf[m]]]
      /\ \A m, k \in 1..n : m < k => Comes(order, placeOf[m], placeOf[k])
  BY <1>1, <1>a DEF ReadBy
<1>6. PICK answer : answer = [m \in 1..n |-> kept[placeOf[m]]]
  OBVIOUS
<1>7. answer \in [1..n -> rows] /\ DOMAIN answer = 1..n /\ \A m \in 1..n : answer[m] = kept[placeOf[m]]
  BY <1>3, <1>5, <1>6
<1>8. \A i \in 1..n : ~Comes(order, i, i)
  BY <1>2 DEF Comes, Before
<1>9. \A m, k \in 1..n : m # k => answer[m] # answer[k]
  <2> SUFFICES ASSUME NEW m \in 1..n, NEW k \in 1..n, m # k PROVE answer[m] # answer[k]
    OBVIOUS
  <2>1. placeOf[m] # placeOf[k]
    <3>1. m < k \/ k < m
      OBVIOUS
    <3> QED BY <1>5, <1>8, <3>1
  <2>2. kept[placeOf[m]].id # kept[placeOf[k]].id
    BY <1>1, <1>5, <2>1 DEF Mirrored
  <2> QED BY <1>7, <2>2
<1>10. answer \in SetToSeqs(rows)
  BY <1>4, <1>7, <1>9 DEF SetToSeqs
<1>11. \A m, k \in 1..n : m < k => ~Before(stated, answer[k], answer[m])
  <2> SUFFICES ASSUME NEW m \in 1..n, NEW k \in 1..n, m < k PROVE ~Before(stated, answer[k], answer[m])
    OBVIOUS
  <2>1. PICK i \in 1..n, j \in 1..n : i = placeOf[m] /\ j = placeOf[k]
    BY <1>5
  <2>2. answer[m] = kept[i] /\ answer[k] = kept[j] /\ Comes(order, i, j)
    BY <1>5, <1>7, <2>1
  <2>a. PICK a \in Nat, b \in Nat : a = kept[i].slot /\ b = kept[j].slot
    BY <1>2
  <2>b. answer[m].slot = a /\ answer[k].slot = b
    BY <2>2, <2>a
  <2>3. CASE stated = "any"
    BY <2>3 DEF Before
  <2>4. CASE stated = order
    BY <2>2, <2>4, <2>a, <2>b DEF Comes, Before
  <2>5. CASE stated = "ascending" /\ order = "log" /\ collection \in Timed
    <3>1. i < j
      BY <2>2, <2>5 DEF Comes, Before
    <3>2. kept[i].slot <= kept[j].slot
      BY <1>1, <2>5, <3>1 DEF Mirrored
    <3> QED BY <2>2, <2>5, <2>a, <2>b, <3>2 DEF Before
  <2> QED BY <2>3, <2>4, <2>5
<1> QED BY <1>4, <1>5, <1>6, <1>7, <1>10, <1>11 DEF PostgresReads

\* A name that is unique is found by both or by neither.
LEMMA NamesAgree ==
  ASSUME kept \in Seq(Rows), Mirrored, ~NotGivenBack, collection = "identity", NEW slot
  PROVE  /\ EmbeddedNamed(slot) = PostgresNamed(slot)
         /\ SpelledAsKept(slot) => EmbeddedByEmail(slot) = EmbeddedNamed(slot)
<1>1. PICK n \in Nat : n = Len(kept) /\ DOMAIN kept = 1..n
  BY LenProperties
<1>2. \A i, j \in 1..n : kept[i].slot = kept[j].slot => i = j
  BY <1>1 DEF Mirrored, SlotIsUnique
<1>3. EmbeddedNamed(slot) = {kept[i] : i \in {i \in 1..n : kept[i].slot = slot}}
  <2>1. \A i \in 1..n : kept[i].slot = slot => \A j \in 1..i - 1 : kept[j].slot # slot
    <3> SUFFICES ASSUME NEW i \in 1..n, kept[i].slot = slot, NEW j \in 1..i - 1, kept[j].slot = slot PROVE FALSE
      OBVIOUS
    <3>1. j \in 1..n /\ i # j
      OBVIOUS
    <3> QED BY <1>2, <3>1
  <2> QED BY <1>1, <2>1 DEF EmbeddedNamed
<1>4. PostgresNamed(slot) = {kept[i] : i \in {i \in 1..n : kept[i].slot = slot}}
  <2>1. \A i \in 1..n : FromRow(collection, ToRow(collection, kept[i])) = kept[i] /\ ToRow(collection, kept[i]).slot = kept[i].slot
    BY <1>1, RowsComeBack DEF ToRow
  <2>2. table = {ToRow(collection, kept[i]) : i \in 1..n}
    BY <1>1 DEF Mirrored
  <2> HIDE DEF FromRow, ToRow
  <2> QED BY <2>1, <2>2 DEF PostgresNamed
<1>5. ASSUME SpelledAsKept(slot) PROVE EmbeddedByEmail(slot) = EmbeddedNamed(slot)
  <2>1. \A i \in 1..n : Lower(kept[i].slot) = Lower(slot) <=> kept[i].slot = slot
    BY <1>1, <1>5 DEF SpelledAsKept
  <2>2. \A i \in 1..n : \A j \in 1..i - 1 : j \in 1..n
    OBVIOUS
  <2> HIDE DEF Lower
  <2> QED BY <1>1, <2>1, <2>2 DEF EmbeddedByEmail, EmbeddedNamed
<1> QED BY <1>3, <1>4, <1>5

LEMMA DriversAnswer ==
  ASSUME DriversInv
  PROVE  NothingElseSetsApart /\ EventsAreNumbered
<1>1. kept \in Seq(Rows) /\ collection \in DOMAIN Embedded
  BY StoreDriversAssumption DEF DriversInv
<1>2. ASSUME refusedBy = {}, apart = {}, ~NotGivenBack PROVE SameAnswers
  <2>1. Mirrored
    BY <1>2 DEF DriversInv
  <2>2. ASSUME NEW n \in DOMAIN Embedded[collection].reads
        PROVE  EmbeddedRead(Embedded[collection].reads[n]) \in PostgresReads(Postgres[collection].reads[n])
    BY <1>1, <1>2, <2>1, OrdersAgree, ReadsAgree
  <2>3. collection = "identity" =>
          \A slot \in Slot : /\ EmbeddedNamed(slot) = PostgresNamed(slot)
                             /\ SpelledAsKept(slot) => EmbeddedByEmail(slot) = PostgresNamed(slot)
    BY <1>1, <1>2, <2>1, NamesAgree
  <2> QED BY <2>2, <2>3 DEF SameAnswers
<1>3. EventsAreNumbered
  BY DEF DriversInv, Increasing, OneOfEach, EventsAreNumbered
<1> QED BY <1>2, <1>3 DEF NothingElseSetsApart

\* The two drivers of the store agree (persistence embedded-store.ts, prisma-store.ts)
\* until one of them refuses what the other took, or one of the listed differences is
\* met: an optional value cleared, a version of an agent registered again later or under
\* another name, a memory searched, a blank or absent value that Postgres gives back
\* otherwise, an email asked for in another spelling. Every other read of every
\* collection has the same answer or one that the query allows; and a run's events keep
\* their numbers under either: for any number of calls, in any order.
THEOREM DriversStay == RecordsSpec => []DriversAgree
<1>1. RecordsInit => DriversInv
  BY DriversStart DEF RecordsInit
<1>2. DriversInv /\ [RecordsNext]_recordsVars => DriversInv'
  <2> SUFFICES ASSUME DriversInv, [RecordsNext]_recordsVars PROVE DriversInv'
    OBVIOUS
  <2>1. StoreDriversNext \/ UNCHANGED StoreDriversVars
    BY StoresRest
  <2>2. CASE UNCHANGED StoreDriversVars
    BY <2>2 DEF StoreDriversVars, DriversInv, Mirrored, Increasing, OneOfEach
  <2> QED BY <2>1, <2>2, DriversStep
<1>3. DriversInv => DriversAgree
  BY DriversAnswer DEF DriversAgree, Of
<1> QED BY <1>1, <1>2, <1>3, PTL DEF RecordsSpec
==============================================================================
