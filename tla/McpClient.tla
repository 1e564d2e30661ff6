----------------------------- MODULE McpClient -----------------------------
(***************************************************************************)
(* The MCP side of an AgentOS. The JSON-RPC client of one server           *)
(* (mcp/src/jsonrpc.ts), over a transport that loses, delays and repeats   *)
(* messages, fails and closes (transports/*.ts), with the tool that races  *)
(* a call against the run's abort signal (tool.ts). And the manager that   *)
(* connects the configured servers (manager.ts). They share no variable:   *)
(* to the manager a call is a step that may fail.                          *)
(***************************************************************************)
EXTENDS FiniteSets, Integers, Sequences

(* The calls of one client.                                                  *)
CONSTANTS MaxCalls,     \* bound: calls of the client and requests of the server
          MaxRepeats    \* bound: further copies of an answer

ASSUME McpCallsAssumption == MaxCalls \in Nat \ {0} /\ MaxRepeats \in Nat

VARIABLES rpc,      \* id -> what the client holds of the call: its state, the answer it got
          sent,     \* the ids whose request the server has received
          inbound,  \* messages to the client: the id answered and which copy it is
          asks,     \* the server's own requests: waiting, handled or answered
          link,     \* "up", "down" (the process or socket is gone), "closed" (close())
          run       \* the run's abort signal, and what the tool told its caller

McpCallsVars == <<rpc, sent, inbound, asks, link, run>>

CallIds == DOMAIN rpc
Pending == {id \in CallIds : rpc[id].state \in {"sending", "pending"}}

McpCallsInit ==
  /\ rpc = <<>> /\ sent = {} /\ inbound = {}
  /\ asks = [waiting |-> 0, handling |-> 0, answered |-> 0, lost |-> 0]
  /\ link = "up"
  /\ run = [aborted |-> FALSE, told |-> <<>>]

AskedOf(requests) == requests.waiting + requests.handling + requests.answered + requests.lost
Traffic == Len(rpc) + AskedOf(asks)

Settle(id, state, got) == [rpc EXCEPT ![id] = [state |-> state, got |-> got]]
FailAll(state) == [id \in CallIds |-> IF id \in Pending THEN [state |-> state, got |-> 0] ELSE rpc[id]]

\* callWithAbort: the call is made first and the signal looked at afterwards.
CallTool ==
  /\ link # "closed" /\ Traffic < MaxCalls
  /\ rpc' = Append(rpc, [state |-> "sending", got |-> 0])
  /\ run' = [run EXCEPT !.told = Append(@, IF run.aborted THEN "not_invoked" ELSE "waiting")]
  /\ UNCHANGED <<sent, inbound, asks, link>>

\* The transport takes the message, or throws: the waiter is then rejected, if
\* it is still there.
SendCall(id) ==
  /\ rpc[id].state = "sending" /\ link = "up"
  /\ rpc' = Settle(id, "pending", 0)
  /\ sent' = sent \cup {id}
  /\ UNCHANGED <<inbound, asks, link, run>>

SendFails(id) ==
  /\ rpc[id].state = "sending"
  /\ rpc' = Settle(id, "rejected", 0)
  /\ UNCHANGED <<sent, inbound, asks, link, run>>

\* Defect: the watchdog only runs while the message is being sent.
TimeOutWhileSending(id) ==
  /\ rpc[id].state = "sending"
  /\ rpc' = Settle(id, "timed_out", 0)
  /\ UNCHANGED <<sent, inbound, asks, link, run>>

\* The per-call watchdog; the server is not told.
TimeOutCall(id) ==
  /\ id \in Pending
  /\ rpc' = Settle(id, "timed_out", 0)
  /\ UNCHANGED <<sent, inbound, asks, link, run>>

\* The server: it answers in any order, late, more than once, or never.
ServerAnswers(id) ==
  /\ id \in sent /\ link = "up"
  /\ \E copy \in 0..MaxRepeats : inbound' = inbound \cup {[id |-> id, copy |-> copy]}
  /\ inbound' # inbound
  /\ UNCHANGED <<rpc, sent, asks, link, run>>

ServerAsks ==
  /\ link = "up" /\ Traffic < MaxCalls
  /\ asks' = [asks EXCEPT !.waiting = @ + 1]
  /\ UNCHANGED <<rpc, sent, inbound, link, run>>

\* Defect: an answer goes to the oldest waiter.
DeliverToOldest(message) ==
  /\ message \in inbound /\ inbound' = inbound \ {message}
  /\ rpc' = IF Pending = {} THEN rpc
            ELSE Settle(CHOOSE id \in Pending : \A other \in Pending : id <= other, "resolved", message.id)
  /\ UNCHANGED <<sent, asks, link, run>>

\* handleMessage: an answer nobody waits for is dropped.
Deliver(message) ==
  /\ message \in inbound /\ inbound' = inbound \ {message}
  /\ \/ rpc' = IF message.id \in Pending THEN Settle(message.id, "resolved", message.id) ELSE rpc
     \/ rpc' = IF message.id \in Pending THEN Settle(message.id, "rejected", message.id) ELSE rpc
  /\ UNCHANGED <<sent, asks, link, run>>

\* Defect: without a handler the request is let go.
AnswerOnlyWhenHandled ==
  /\ asks.waiting > 0
  /\ \/ asks' = [asks EXCEPT !.waiting = @ - 1, !.handling = @ + 1]
     \/ asks' = [asks EXCEPT !.waiting = @ - 1]
  /\ UNCHANGED <<rpc, sent, inbound, link, run>>

\* answerServerRequest: no handler, and the request is refused at once; else it
\* is handed over.
AnswerServerRequest ==
  /\ asks.waiting > 0
  /\ \/ asks' = [asks EXCEPT !.waiting = @ - 1, !.handling = @ + 1]
     \/ asks' = [asks EXCEPT !.waiting = @ - 1,
                             !.answered = @ + IF link = "up" THEN 1 ELSE 0,
                             !.lost = @ + IF link = "up" THEN 0 ELSE 1]
  /\ UNCHANGED <<rpc, sent, inbound, link, run>>

\* The handler answers, declines (undefined) or throws: each is an answer.
HandlerEnds ==
  /\ asks.handling > 0
  /\ asks' = [asks EXCEPT !.handling = @ - 1,
                          !.answered = @ + IF link = "up" THEN 1 ELSE 0,
                          !.lost = @ + IF link = "up" THEN 0 ELSE 1]
  /\ UNCHANGED <<rpc, sent, inbound, link, run>>

\* The child exits, the stream breaks, a frame is not JSON: every waiter fails.
\* An error leaves the connection in place, an exit does not.
TransportFails ==
  /\ link = "up"
  /\ link' \in {"up", "down"} /\ rpc' = FailAll("rejected")
  /\ link' = "up" => Pending # {}
  /\ UNCHANGED <<sent, inbound, asks, run>>

CloseClient ==
  /\ link # "closed" /\ link' = "closed"
  /\ rpc' = FailAll("rejected")
  /\ UNCHANGED <<sent, inbound, asks, run>>

\* The signal is raised while calls wait: their callers are told at once.
AbortRun ==
  /\ ~run.aborted
  /\ run' = [aborted |-> TRUE,
             told |-> [id \in CallIds |-> IF id \in Pending /\ run.told[id] = "waiting"
                                          THEN "aborted" ELSE run.told[id]]]
  /\ UNCHANGED <<rpc, sent, inbound, asks, link>>

\* The tool hands the settled call to its caller.
TellCaller(id) ==
  /\ id \notin Pending /\ run.told[id] = "waiting"
  /\ run' = [run EXCEPT !.told[id] = rpc[id].state]
  /\ UNCHANGED <<rpc, sent, inbound, asks, link>>

McpCallsNext ==
  \/ CallTool \/ ServerAsks \/ AnswerServerRequest \/ HandlerEnds
  \/ TransportFails \/ CloseClient \/ AbortRun
  \/ \E id \in CallIds : SendCall(id) \/ SendFails(id) \/ TimeOutCall(id) \/ ServerAnswers(id) \/ TellCaller(id)
  \/ \E message \in inbound : Deliver(message)

\* Timers fire, promises continue and a handler returns; the server owes nothing.
McpCallsFairness ==
  /\ \A id \in 1..MaxCalls :
       WF_McpCallsVars(id \in CallIds /\ TimeOutCall(id)) /\ WF_McpCallsVars(id \in CallIds /\ TellCaller(id))
  /\ WF_McpCallsVars(AnswerServerRequest) /\ WF_McpCallsVars(HandlerEnds)

-----------------------------------------------------------------------------
CallStates == {"sending", "pending", "resolved", "rejected", "timed_out"}
McpCallsTypeOK ==
  /\ Len(rpc) <= MaxCalls /\ Len(run.told) = Len(rpc)
  /\ \A id \in CallIds : rpc[id].state \in CallStates /\ rpc[id].got \in 0..MaxCalls
  /\ \A id \in CallIds : run.told[id] \in CallStates \cup {"waiting", "aborted", "not_invoked"}
  /\ sent \subseteq CallIds /\ link \in {"up", "down", "closed"}
  /\ \A message \in inbound : message.id \in sent /\ message.copy \in 0..MaxRepeats

\* Whatever is late, repeated or out of order, a caller that is answered got the
\* answer to its own call.
AnswerIsItsOwn == \A id \in CallIds : rpc[id].state = "resolved" => rpc[id].got = id

\* Every call comes back to its caller, from a server that never answers too.
EveryCallReturns ==
  \A id \in 1..MaxCalls : (id \in CallIds) ~> (id \in CallIds /\ run.told[id] # "waiting")

\* A request of the server is answered, or the link was gone when it was.
ServerIsNotLeftWaiting ==
  \A n \in 1..MaxCalls : (AskedOf(asks) >= n) ~> (asks.answered + asks.lost >= n)

\* Violated. A caller is told that the run "was cancelled before the MCP tool was
\* invoked" (tool.ts:150) of a call that the server has received.
NotInvokedIsTrue == \A id \in CallIds : run.told[id] = "not_invoked" => id \notin sent

-----------------------------------------------------------------------------
(***************************************************************************)
(* The servers of a deployment (mcp/src/manager.ts): connected at once     *)
(* when AgentOS is created (sdk/src/agentos.ts), each discovered page by   *)
(* page, reconnected by an embedder, and closed. A call to a server may    *)
(* fail at any point.                                                      *)
(***************************************************************************)
CONSTANTS McpServer,       \* configured servers
          MaxConnections   \* bound: connections made per server

ASSUME McpServersAssumption == MaxConnections \in Nat \ {0}

VARIABLES manager,      \* strict, what start() has come to, closed
          connection,   \* server -> [at, page, number, live, listed, discovered, error]
          offered       \* server -> the number of the connection its registered tools use, or 0

McpServersVars == <<manager, connection, offered>>

\* The page asked for is odd or even: a listing may have any number of them.
Fresh == [at |-> "idle", page |-> 1, number |-> 0, live |-> {}, listed |-> FALSE, discovered |-> FALSE, error |-> FALSE]

McpServersInit(strict, enabled) ==
  /\ manager = [strict |-> strict, enabled |-> enabled, start |-> "none", closed |-> FALSE]
  /\ connection = [s \in McpServer |-> Fresh]
  /\ offered = [s \in McpServer |-> 0]

Settled(s) == connection[s].at \in {"ready", "failed"}
Connecting(s) == connection[s].at \in {"opening", "handshake", "tools", "others"}

\* The current client is not closed: its requests are not refused.
Alive(s) == connection[s].number \in connection[s].live

\* AgentOS.create: every enabled server at once.
StartServers ==
  /\ manager.start = "none"
  /\ manager' = [manager EXCEPT !.start = "running"]
  /\ connection' = [s \in McpServer |-> IF s \in manager.enabled
                                        THEN [Fresh EXCEPT !.at = "opening"]
                                        ELSE [Fresh EXCEPT !.at = "ready"]]
  /\ UNCHANGED offered

\* The transport is built and started; state.client is the new client.
OpenConnection(s) ==
  /\ connection[s].at = "opening"
  /\ connection' = [connection EXCEPT ![s].at = "handshake", ![s].number = @ + 1,
                                      ![s].live = @ \cup {connection[s].number + 1}]
  /\ UNCHANGED <<manager, offered>>

Handshake(s) ==
  /\ connection[s].at = "handshake" /\ Alive(s)
  /\ connection' = [connection EXCEPT ![s].at = "tools"]
  /\ UNCHANGED <<manager, offered>>

\* listTools: a page that names a nextCursor is followed by another, without a bound
\* on how many.
NextPage(s) ==
  /\ connection[s].at = "tools" /\ Alive(s)
  /\ connection' = [connection EXCEPT ![s].page = 1 - @]
  /\ UNCHANGED <<manager, offered>>

\* ... up to one that names none. discover: the tools are kept before resources and
\* prompts are asked for.
ListTools(s) ==
  /\ connection[s].at = "tools" /\ Alive(s)
  /\ connection' = [connection EXCEPT ![s].at = "others", ![s].page = 1, ![s].listed = TRUE]
  /\ UNCHANGED <<manager, offered>>

ListOthers(s) ==
  /\ connection[s].at = "others" /\ Alive(s)
  /\ connection' = [connection EXCEPT ![s].at = "ready", ![s].discovered = TRUE, ![s].error = FALSE]
  /\ UNCHANGED <<manager, offered>>

\* Defect: what an earlier connection listed is left in place.
KeepTools(s) ==
  /\ Connecting(s)
  /\ connection' = [connection EXCEPT ![s].at = "failed", ![s].page = 1, ![s].error = TRUE]
  /\ UNCHANGED <<manager, offered>>

\* connect's catch: the failed client is neither closed nor let go.
ConnectFails(s) ==
  /\ Connecting(s)
  /\ connection' = [connection EXCEPT ![s].at = "failed", ![s].page = 1, ![s].error = TRUE,
                                      ![s].listed = FALSE, ![s].discovered = FALSE]
  /\ UNCHANGED <<manager, offered>>

\* Defect: a start gives up at the first server that fails.
StartFailsAtOnce ==
  /\ manager.start = "running" /\ \E s \in McpServer : connection[s].at = "failed"
  /\ manager' = [manager EXCEPT !.start = "rejected"]
  /\ UNCHANGED <<connection, offered>>

\* Promise.all: strict rejects with the first failure, while the others go on.
StartRejects ==
  /\ manager.strict /\ manager.start = "running"
  /\ \E s \in McpServer : connection[s].at = "failed"
  /\ manager' = [manager EXCEPT !.start = "rejected"]
  /\ UNCHANGED <<connection, offered>>

\* tools(): of the servers that have a client and are discovered.
Offering(s) == s \in manager.enabled /\ connection[s].number > 0 /\ connection[s].discovered
               /\ connection[s].listed

\* registerInto, and the report that mcpReport() answers with.
StartResolves ==
  /\ manager.start = "running" /\ \A s \in McpServer : Settled(s)
  /\ manager.strict => \A s \in McpServer : connection[s].at = "ready"
  /\ manager' = [manager EXCEPT !.start = "resolved"]
  /\ offered' = [s \in McpServer |-> IF Offering(s) THEN connection[s].number ELSE offered[s]]
  /\ UNCHANGED connection

\* An embedder reconnects a server whose connection died.
Reconnect(s) ==
  /\ manager.start = "resolved" /\ s \in manager.enabled /\ Settled(s) /\ ~manager.closed
  /\ connection[s].number < MaxConnections
  /\ connection' = [connection EXCEPT ![s].at = "opening", ![s].live = @ \ {connection[s].number}]
  /\ UNCHANGED <<manager, offered>>

\* AgentOS.close: each server's current client; one that is still connecting goes on.
CloseServers ==
  /\ manager.start = "resolved" /\ ~manager.closed
  /\ manager' = [manager EXCEPT !.closed = TRUE]
  /\ connection' = [s \in McpServer |->
       [connection[s] EXCEPT !.live = @ \ {connection[s].number}, !.listed = FALSE, !.discovered = FALSE]]
  /\ UNCHANGED offered

ConnectionStep(s) ==
  OpenConnection(s) \/ Handshake(s) \/ NextPage(s) \/ ListTools(s) \/ ListOthers(s) \/ ConnectFails(s)

McpServersNext ==
  \/ StartServers \/ StartRejects \/ StartResolves \/ CloseServers
  \/ \E s \in McpServer : ConnectionStep(s) \/ Reconnect(s)

\* Every call of a connection ends (EveryCallReturns); a listing is as many calls as
\* the server has pages, and nothing says that it ends.
McpServersFairness ==
  /\ WF_McpServersVars(StartServers) /\ WF_McpServersVars(StartRejects) /\ WF_McpServersVars(StartResolves)
  /\ \A s \in McpServer : WF_McpServersVars(ConnectionStep(s))

-----------------------------------------------------------------------------
McpServersTypeOK ==
  /\ manager.start \in {"none", "running", "resolved", "rejected"} /\ manager.enabled \subseteq McpServer
  /\ \A s \in McpServer : connection[s].number \in 0..MaxConnections /\ connection[s].live \subseteq 1..MaxConnections
  /\ offered \in [McpServer -> 0..MaxConnections]

\* What a server that is settled offers was listed over its current connection: one
\* that failed leaves no tool of an earlier one behind. While a server reconnects, its
\* old tools are offered over the new client (manager.ts:160, 198).
OffersAreCurrent ==
  \A s \in McpServer : Offering(s) /\ Settled(s) => connection[s].at = "ready" /\ ~connection[s].error

\* No server names a next page for ever.
ListingsEnd == \A s \in McpServer : []<>(connection[s].at # "tools")

\* One broken server never takes down the others: unless start is strict, every
\* deployment comes up - as long as the servers' listings end.
BrokenServersAreIsolated == ListingsEnd => (~manager.strict ~> (manager.start = "resolved"))

\* Violated. manager.ts:51-52, "One broken server never takes down the others unless
\* `strict` is set; its tools simply never appear.": start() waits for every server
\* (manager.ts:86), and one that answers each page with a cursor keeps it waiting.
OneServerHoldsNobodyUp == ~manager.strict ~> (manager.start = "resolved")

\* Violated. Nothing is left open by a creation that was refused: the connections
\* that succeeded, and those still being made, have no owner.
RefusedStartLeavesNothingOpen ==
  manager.start = "rejected" /\ (\A s \in McpServer : ~Connecting(s)) =>
    \A s \in McpServer : connection[s].live = {}

\* Violated. Nothing is open once the deployment is closed.
ClosedLeavesNothingOpen ==
  manager.closed /\ (\A s \in McpServer : ~Connecting(s)) => \A s \in McpServer : connection[s].live = {}
=============================================================================
