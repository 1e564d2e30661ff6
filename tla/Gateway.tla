------------------------------- MODULE Gateway -------------------------------
(***************************************************************************)
(* The edge gateway: the request handler of apps/gateway/src/server.ts     *)
(* with its limit of requests in flight, and the streaming proxy of        *)
(* proxy.ts, whose exchange is ended by whichever of the upstream's        *)
(* answer, its error, the timer and the client's leaving comes first.      *)
(***************************************************************************)
EXTENDS Integers, FiniteSets

CONSTANTS Client, MaxInFlight

ASSUME GatewayAssumption == IsFiniteSet(Client) /\ MaxInFlight \in Nat \ {0}

VARIABLES inFlight,   \* the handler's counter
          exchange    \* per client: its request, the response and the upstream's

GatewayVars == <<inFlight, exchange>>

\* `at`: none, waiting for the first byte, streaming, drained (piped into a
\* response nobody reads), over.  `uploaded` is request.complete.
Exchange == [at : {"none", "waiting", "streaming", "drained", "over"}, uploaded : BOOLEAN,
             client : {"absent", "present", "gone"}, upstream : {"idle", "working", "stopped"},
             status : {0, 200, 404, 499, 502, 503, 504}]

NoExchange == [at |-> "none", uploaded |-> FALSE, client |-> "absent", upstream |-> "idle",
               status |-> 0]

GatewayInit == inFlight = 0 /\ exchange = [c \in Client |-> NoExchange]

\* Defect: the slot is given back by every event that ends the exchange.
FinishUnguarded(c, changed) ==
  /\ exchange' = [exchange EXCEPT ![c] = changed]
  /\ inFlight' = inFlight - 1

\* finish: the first call settles the exchange, which gives the slot back.
Finish(c, changed) ==
  /\ exchange' = [exchange EXCEPT ![c] = changed]
  /\ inFlight' = IF exchange[c].at = "over" THEN inFlight ELSE inFlight - 1

\* Defect: one request too many is admitted.
ArriveUnchecked(c) ==
  /\ exchange[c].client = "absent"
  /\ \E uploaded \in BOOLEAN :
       /\ exchange' = [exchange EXCEPT ![c] = [NoExchange EXCEPT !.at = "waiting", !.client = "present",
                                                  !.uploaded = uploaded, !.upstream = "working"]]
       /\ inFlight' = inFlight + 1

\* handler: no route, no capacity, or proxied.
Arrive(c) ==
  /\ exchange[c].client = "absent"
  /\ \E routed, uploaded \in BOOLEAN :
       IF routed /\ inFlight < MaxInFlight
       THEN /\ exchange' = [exchange EXCEPT ![c] = [NoExchange EXCEPT !.at = "waiting",
                               !.client = "present", !.uploaded = uploaded, !.upstream = "working"]]
            /\ inFlight' = inFlight + 1
       ELSE /\ exchange' = [exchange EXCEPT ![c] = [NoExchange EXCEPT !.at = "over",
                               !.client = "present", !.status = IF routed THEN 503 ELSE 404]]
            /\ UNCHANGED inFlight

CompleteUpload(c) ==
  /\ exchange[c].at \in {"waiting", "streaming"} /\ ~exchange[c].uploaded
  /\ exchange[c].client = "present"
  /\ exchange' = [exchange EXCEPT ![c].uploaded = TRUE]
  /\ UNCHANGED inFlight

\* The upstream's head.  When the client is gone already its `close` is past:
\* an empty body ends, any other is piped into a response that never drains.
UpstreamAnswers(c) ==
  /\ exchange[c].at = "waiting" /\ exchange[c].upstream = "working"
  /\ \/ /\ exchange[c].client = "present"
        /\ exchange' = [exchange EXCEPT ![c].at = "streaming", ![c].status = 200]
        /\ UNCHANGED inFlight
     \/ /\ exchange[c].client = "gone"
        /\ exchange' = [exchange EXCEPT ![c].at = "drained", ![c].status = 200]
        /\ UNCHANGED inFlight
     \/ /\ exchange[c].client = "gone"
        /\ Finish(c, [exchange[c] EXCEPT !.at = "over", !.status = 200, !.upstream = "stopped"])

\* 'end' or 'error' of the upstream's body.
UpstreamEnds(c) ==
  /\ exchange[c].at = "streaming"
  /\ Finish(c, [exchange[c] EXCEPT !.at = "over", !.upstream = "stopped"])

\* 'error' before an answer: fail(502).
UpstreamFails(c) ==
  /\ exchange[c].at = "waiting" /\ exchange[c].upstream = "working"
  /\ Finish(c, [exchange[c] EXCEPT !.at = "over", !.upstream = "stopped", !.status = 502])

\* Defect: the timer runs only while the client is still sending.
TimeOutUpload(c) ==
  /\ exchange[c].at = "waiting" /\ ~exchange[c].uploaded
  /\ Finish(c, [exchange[c] EXCEPT !.at = "over", !.upstream = "stopped", !.status = 504])

\* The time-to-first-byte clock: the request is destroyed and fails with 504.
TimeOut(c) ==
  /\ exchange[c].at = "waiting"
  /\ Finish(c, [exchange[c] EXCEPT !.at = "over", !.upstream = "stopped", !.status = 504])

\* abandon() looks at request.complete first; a stream's own close handler
\* destroys the upstream's body in any case, and fires after a finished one too.
ClientLeaves(c) ==
  /\ exchange[c].client = "present"
  /\ CASE exchange[c].at = "waiting" /\ ~exchange[c].uploaded
            -> Finish(c, [exchange[c] EXCEPT !.at = "over", !.upstream = "stopped",
                                             !.client = "gone", !.status = 499])
       [] exchange[c].at = "streaming"
            -> Finish(c, [exchange[c] EXCEPT !.at = "over", !.upstream = "stopped", !.client = "gone"])
       [] exchange[c].at = "over" /\ exchange[c].status \notin {404, 503}
            -> Finish(c, [exchange[c] EXCEPT !.client = "gone"])
       [] OTHER -> /\ exchange' = [exchange EXCEPT ![c].client = "gone"]
                   /\ UNCHANGED inFlight

\* What is left of an ended exchange is forgotten, and the client may come again.
ComeAgain(c) ==
  /\ exchange[c].at = "over" /\ exchange[c].client = "gone"
  /\ exchange' = [exchange EXCEPT ![c] = NoExchange]
  /\ UNCHANGED inFlight

GatewayNext ==
  \E c \in Client :
    \/ Arrive(c) \/ CompleteUpload(c) \/ UpstreamAnswers(c) \/ UpstreamEnds(c)
    \/ UpstreamFails(c) \/ TimeOut(c) \/ ClientLeaves(c) \/ ComeAgain(c)

\* Timers fire.
GatewayFairness == \A c \in Client : WF_GatewayVars(TimeOut(c))

-----------------------------------------------------------------------------
GatewayTypeOK == inFlight \in 0..Cardinality(Client) /\ exchange \in [Client -> Exchange]

\* The gateway never has more upstream requests going than its limit, whatever
\* ends first and whoever walks away: a slot is free only when its upstream
\* request is done with.
UpstreamLoadIsBounded ==
  Cardinality({c \in Client : exchange[c].upstream = "working"}) <= MaxInFlight

\* Every slot that is taken is some exchange's that is not over, and is counted
\* once, although several events may end one exchange.
SlotsAreOwned ==
  inFlight = Cardinality({c \in Client : exchange[c].at \in {"waiting", "streaming", "drained"}})

\* No client waits for the first byte for ever.
FirstByteOrError ==
  \A c \in Client : exchange[c].at = "waiting" ~> exchange[c].at # "waiting"

\* apps/gateway/src/proxy.ts:207: "A client that walks away must not keep the
\* upstream working."  Violated: once its upload is complete, nothing is stopped.
WalkingAwayStopsTheUpstream ==
  \A c \in Client : exchange[c].client = "gone" => exchange[c].upstream # "working"
=============================================================================
