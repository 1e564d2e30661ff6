------------------------------ MODULE Webhooks ------------------------------
(***************************************************************************)
(* WebhookDispatcher of apps/api/src/webhooks.ts: every event published on *)
(* the process's bus becomes a delivery of its own, which lists the active *)
(* subscriptions and posts to one after the other, with retries, and       *)
(* records each outcome.  close() unsubscribes and waits for what is in    *)
(* flight.                                                                 *)
(***************************************************************************)
EXTENDS Naturals, FiniteSets

CONSTANTS Subscription,
          MaxPublished,   \* bound: events
          MaxPosts        \* maxAttempts of a delivery

\* Some subscription there was; all of them may have been deactivated.
ASSUME WebhooksAssumption ==
  MaxPublished \in Nat /\ MaxPosts \in Nat \ {0} /\ Subscription # {}

VARIABLES hooks,       \* the active subscriptions in the store
          dispatcher,  \* "on", "closing", "closed", "dead"
          published,   \* events so far; delivery n is for event n
          delivery,    \* per event: where it is, who is left, whom it is posting to
          received,    \* history: per subscription and event, how often it arrived
          records,     \* the delivery log
          storeFailed  \* history: events whose delivery a failing store write ended

WebhooksVars == <<hooks, dispatcher, published, delivery, received, records, storeFailed>>

Delivery == [at : {"none", "listing", "next", "posting", "recording", "finished"},
             asked : SUBSET Subscription, left : SUBSET Subscription,
             to : Subscription, attempt : 0..MaxPosts, ok : BOOLEAN]

NoDelivery == [at |-> "none", asked |-> {}, left |-> {},
               to |-> CHOOSE s \in Subscription : TRUE, attempt |-> 0, ok |-> FALSE]

WebhooksInit ==
  /\ hooks = Subscription /\ dispatcher = "on" /\ published = 0
  /\ delivery = [n \in 1..MaxPublished |-> NoDelivery]
  /\ received = [s \in Subscription |-> [n \in 1..MaxPublished |-> 0]]
  /\ records = {} /\ storeFailed = {}

InFlight == {n \in 1..published : delivery[n].at # "finished"}
Dispatching == dispatcher \in {"on", "closing"}

\* The listener of start(): it runs in the publisher's step.
Publish ==
  /\ published < MaxPublished /\ dispatcher # "dead"
  /\ published' = published + 1
  /\ delivery' = [delivery EXCEPT ![published + 1].at = IF dispatcher = "on" THEN "listing"
                                                        ELSE "finished"]
  /\ UNCHANGED <<hooks, dispatcher, received, records, storeFailed>>

\* handle: the subscriptions as they are now.
ListSubscriptions(n) ==
  /\ Dispatching /\ delivery[n].at = "listing"
  /\ delivery' = [delivery EXCEPT ![n].at = "next", ![n].asked = hooks, ![n].left = hooks]
  /\ UNCHANGED <<hooks, dispatcher, published, received, records, storeFailed>>

NextSubscription(n) ==
  /\ Dispatching /\ delivery[n].at = "next"
  /\ \/ /\ delivery[n].left = {}
        /\ delivery' = [delivery EXCEPT ![n].at = "finished"]
     \/ \E s \in delivery[n].left :
          delivery' = [delivery EXCEPT ![n].at = "posting", ![n].left = @ \ {s}, ![n].to = s,
                                       ![n].attempt = 0, ![n].ok = FALSE]
  /\ UNCHANGED <<hooks, dispatcher, published, received, records, storeFailed>>

\* Defect: a timeout counts as delivered.
PostOptimistic(n) ==
  /\ Dispatching /\ delivery[n].at = "posting"
  /\ \E arrives, answered \in BOOLEAN :
       /\ delivery' = [delivery EXCEPT ![n].attempt = @ + 1, ![n].ok = TRUE,
                                       ![n].at = "recording"]
       /\ received' = [received EXCEPT ![delivery[n].to][n] = @ + (IF arrives THEN 1 ELSE 0)]
  /\ UNCHANGED <<hooks, dispatcher, published, records, storeFailed>>

\* Defect: attempts are counted from zero, one more than there are.
PostOnceMore(n) ==
  /\ Dispatching /\ delivery[n].at = "posting"
  /\ \E arrives, answered \in BOOLEAN :
       /\ answered => arrives
       /\ delivery' = [delivery EXCEPT ![n].attempt = IF @ = MaxPosts THEN @ ELSE @ + 1,
                                       ![n].ok = answered,
                                       ![n].at = IF answered \/ delivery[n].attempt = MaxPosts
                                                 THEN "recording" ELSE "posting"]
       /\ received' = [received EXCEPT ![delivery[n].to][n] = @ + (IF arrives THEN 1 ELSE 0)]
  /\ UNCHANGED <<hooks, dispatcher, published, records, storeFailed>>

\* post: the endpoint may get the request or not, and its answer may be 2xx in
\* time or anything else.  Only the first ends the attempts early.
Post(n) ==
  /\ Dispatching /\ delivery[n].at = "posting"
  /\ \E arrives, answered \in BOOLEAN :
       /\ answered => arrives
       /\ delivery' = [delivery EXCEPT ![n].attempt = @ + 1, ![n].ok = answered,
                                       ![n].at = IF answered \/ delivery[n].attempt + 1 = MaxPosts
                                                 THEN "recording" ELSE "posting"]
       /\ received' = [received EXCEPT ![delivery[n].to][n] = @ + (IF arrives THEN 1 ELSE 0)]
  /\ UNCHANGED <<hooks, dispatcher, published, records, storeFailed>>

\* recordDelivery, which may throw: handle() is left, with the subscriptions
\* that were still to come.
RecordDelivery(n) ==
  /\ Dispatching /\ delivery[n].at = "recording"
  /\ \/ /\ records' = records \cup {[to |-> delivery[n].to, event |-> n, ok |-> delivery[n].ok,
                                     attempts |-> delivery[n].attempt]}
        /\ delivery' = [delivery EXCEPT ![n].at = "next"]
        /\ UNCHANGED storeFailed
     \/ /\ storeFailed' = storeFailed \cup {n}
        /\ delivery' = [delivery EXCEPT ![n].at = "finished"]
        /\ UNCHANGED records
  /\ UNCHANGED <<hooks, dispatcher, published, received>>

\* DELETE /api/webhooks/:id keeps the row, inactive.
Deactivate(s) ==
  /\ s \in hooks
  /\ hooks' = hooks \ {s}
  /\ UNCHANGED <<dispatcher, published, delivery, received, records, storeFailed>>

BeginClose ==
  /\ dispatcher = "on"
  /\ dispatcher' = "closing"
  /\ UNCHANGED <<hooks, published, delivery, received, records, storeFailed>>

\* Defect: close does not drain.
CloseAtOnce ==
  /\ dispatcher = "closing"
  /\ dispatcher' = "closed"
  /\ UNCHANGED <<hooks, published, delivery, received, records, storeFailed>>

\* drain() has come to its end.
Drained ==
  /\ dispatcher = "closing" /\ InFlight = {}
  /\ dispatcher' = "closed"
  /\ UNCHANGED <<hooks, published, delivery, received, records, storeFailed>>

\* The API process dies: nothing resumes a delivery.
KillDispatcher ==
  /\ Dispatching
  /\ dispatcher' = "dead"
  /\ UNCHANGED <<hooks, published, delivery, received, records, storeFailed>>

DeliveryStep(n) ==
  ListSubscriptions(n) \/ NextSubscription(n) \/ Post(n) \/ RecordDelivery(n)

WebhooksNext ==
  \/ Publish \/ BeginClose \/ Drained \/ KillDispatcher
  \/ \E n \in 1..MaxPublished : DeliveryStep(n)
  \/ \E s \in Subscription : Deactivate(s)

WebhooksFairness ==
  /\ \A n \in 1..MaxPublished : WF_WebhooksVars(DeliveryStep(n))
  /\ WF_WebhooksVars(Drained)

-----------------------------------------------------------------------------

WebhooksTypeOK ==
  /\ hooks \subseteq Subscription /\ dispatcher \in {"on", "closing", "closed", "dead"}
  /\ published \in 0..MaxPublished
  /\ delivery \in [1..MaxPublished -> Delivery]
  /\ received \in [Subscription -> [1..MaxPublished -> 0..MaxPosts]]
  /\ records \subseteq [to : Subscription, event : 1..MaxPublished, ok : BOOLEAN, attempts : 1..MaxPosts]
  /\ storeFailed \subseteq 1..MaxPublished

\* The delivery log tells the truth about the endpoint: what it calls delivered
\* arrived, and what it calls failed was tried as often as configured and no
\* more, whatever was lost on the way and whoever was deactivated meanwhile.
LogTellsTheTruth ==
  \A r \in records :
    /\ r.ok => received[r.to][r.event] > 0
    /\ ~r.ok => r.attempts = MaxPosts
    /\ received[r.to][r.event] <= r.attempts

\* When close() has returned, every event published before it has one outcome
\* for every subscription it was meant for, except where the store failed.
ClosedIsSettled ==
  dispatcher = "closed" =>
    \A n \in (1..published) \ storeFailed : \A s \in delivery[n].asked :
      Cardinality({r \in records : r.to = s /\ r.event = n}) = 1

\* close() returns, whatever the endpoints do, unless the process dies.
CloseReturns == dispatcher = "closing" ~> dispatcher \in {"closed", "dead"}
=============================================================================
