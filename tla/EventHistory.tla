---------------------------- MODULE EventHistory ----------------------------
(***************************************************************************)
(* The event log of a run: who appends to it                               *)
(* (packages/runtime/src/events.ts), the server-sent stream that follows   *)
(* it (apps/api/src/routes/stream.ts) and the two kinds of readers, one    *)
(* that reconnects with Last-Event-ID and the dashboard's useRunStream.    *)
(*                                                                         *)
(* An event's number is read before the event is appended, so that two     *)
(* emitters may hold the same one; the store refuses the second.           *)
(*                                                                         *)
(* The second part is the text of that stream, cut anywhere on its way.    *)
(* The two share no variable.                                              *)
(***************************************************************************)
EXTENDS Integers, FiniteSets, Sequences, SequencesExt

CONSTANTS Bystander,      \* emitters besides the session: API calls, the gateway's fail-over
          WorkEvents,     \* bound: events of a run before its end
          PageSize,       \* events the stream reads at a time (500)
          ReplayLimit,    \* events the dashboard loads at a time (500)
          MaxConnections  \* bound: connections of the reader

ASSUME EventHistoryAssumption ==
  /\ "session" \notin Bystander
  /\ WorkEvents \in Nat /\ MaxConnections \in Nat
  /\ PageSize \in Nat \ {0} /\ ReplayLimit \in Nat \ {0}

VARIABLES events,    \* the numbers of the stored events, in the order of storing
          emitter,   \* of every emitter: where in emit it is, its number, what it has to say
          stage,     \* the session: "working", "ending" (its row is terminal), "over"
          contained, \* the session is in containFailure
          rowOver,   \* the row has a terminal status
          reader,    \* the client: where it is, what it has seen, connections left
          stream     \* the server's loop: where it is, its cursor, the page in hand

EventHistoryVars == <<events, emitter, stage, contained, rowOver, reader, stream>>

Emitter == {"session"} \cup Bystander
LastWords == 2     \* state.transitioned and run.completed / run.failed

NoStream == [at |-> "off", cursor |-> 0, page |-> <<>>, idle |-> FALSE]

EventHistoryInit(kind) ==
  /\ events = <<>>
  /\ emitter = [e \in Emitter |-> [at |-> "idle", number |-> 0,
                                   left |-> IF e = "session" THEN WorkEvents ELSE 1]]
  /\ stage = "working" /\ contained = FALSE /\ rowOver = FALSE
  /\ reader = [kind |-> kind, at |-> "away", seen |-> <<>>, left |-> MaxConnections]
  /\ stream = NoStream

-----------------------------------------------------------------------------
(* EventWriter.emit: nextSequence, then append.                            *)

LastNumber == IF events = <<>> THEN 0 ELSE Last(events)

ReadNumber(e) ==
  /\ emitter[e].at = "idle" /\ emitter[e].left > 0
  /\ emitter' = [emitter EXCEPT ![e].at = "numbered", ![e].number = LastNumber + 1]
  /\ UNCHANGED <<events, stage, contained, rowOver, reader, stream>>

\* Both stores refuse a number that is taken, one by its counter, the other by
\* the unique index on run and sequence.
Taken(n) == n <= LastNumber

\* Defect: the append does not look at what was appended meanwhile.
AppendUnchecked(e) ==
  /\ emitter[e].at = "numbered"
  /\ events' = Append(events, emitter[e].number)
  /\ emitter' = [emitter EXCEPT ![e].at = "idle", ![e].left = @ - 1]
  /\ UNCHANGED <<stage, contained, rowOver, reader, stream>>

AppendEvent(e) ==
  /\ emitter[e].at = "numbered" /\ ~Taken(emitter[e].number)
  /\ events' = Append(events, emitter[e].number)
  /\ emitter' = [emitter EXCEPT ![e].at = "idle", ![e].left = @ - 1]
  /\ UNCHANGED <<stage, contained, rowOver, reader, stream>>

\* A refused bystander: a call that answers with an error, or the rejection of
\* the gateway's event, which nobody awaits.
BystanderRefused(e) ==
  /\ e \in Bystander
  /\ emitter[e].at = "numbered" /\ Taken(emitter[e].number)
  /\ emitter' = [emitter EXCEPT ![e].at = "refused"]
  /\ UNCHANGED <<events, stage, contained, rowOver, reader, stream>>

\* A refused session: the error goes to containFailure, which has run.error to
\* emit; refused there as well, it goes out of run() and nothing ends the row.
SessionRefused ==
  /\ emitter["session"].at = "numbered" /\ Taken(emitter["session"].number)
  /\ emitter' = [emitter EXCEPT !["session"].at = "idle",
                                !["session"].left = IF contained THEN 0 ELSE 1]
  /\ stage' = IF contained THEN "over" ELSE "working"
  /\ contained' = TRUE
  /\ UNCHANGED <<events, rowOver, reader, stream>>

\* complete, finishWith: the row first, then the last words.
EndRow ==
  /\ stage = "working"
  /\ emitter["session"].at = "idle" /\ emitter["session"].left = 0
  /\ rowOver' = TRUE
  /\ stage' = "ending"
  /\ emitter' = [emitter EXCEPT !["session"].left = LastWords]
  /\ UNCHANGED <<events, contained, reader, stream>>

SaidAll ==
  /\ stage = "ending"
  /\ emitter["session"].at = "idle" /\ emitter["session"].left = 0
  /\ stage' = "over"
  /\ UNCHANGED <<events, emitter, contained, rowOver, reader, stream>>

-----------------------------------------------------------------------------
(* The stream: list a page, send it, look at the run, sleep, again.        *)

\* events.list: what was stored after the cursor, the first of it up to a limit.
PageAfter(cursor, limit) ==
  LET newer == {i \in DOMAIN events : events[i] > cursor}
      nth(k) == CHOOSE i \in newer : Cardinality({j \in newer : j <= i}) = k
      size == IF Cardinality(newer) <= limit THEN Cardinality(newer) ELSE limit
  IN  [k \in 1..size |-> events[nth(k)]]

\* Defect: the page starts at the cursor, not after it.
ListFromCursor ==
  /\ stream.at = "list"
  /\ stream' = [stream EXCEPT !.at = "send", !.page = PageAfter(stream.cursor - 1, PageSize),
                              !.idle = PageAfter(stream.cursor - 1, PageSize) = <<>>]
  /\ UNCHANGED <<events, emitter, stage, contained, rowOver, reader>>

ListPage ==
  /\ stream.at = "list"
  /\ stream' = [stream EXCEPT !.at = "send", !.page = PageAfter(stream.cursor, PageSize),
                              !.idle = PageAfter(stream.cursor, PageSize) = <<>>]
  /\ UNCHANGED <<events, emitter, stage, contained, rowOver, reader>>

SendEvent ==
  /\ stream.at = "send" /\ stream.page # <<>>
  /\ stream' = [stream EXCEPT !.cursor = Head(stream.page), !.page = Tail(stream.page)]
  /\ reader' = [reader EXCEPT !.seen = Append(@, Head(stream.page))]
  /\ UNCHANGED <<events, emitter, stage, contained, rowOver>>

\* An empty page and a run that is over end the stream.
LookAtRun ==
  /\ stream.at = "send" /\ stream.page = <<>>
  /\ IF stream.idle /\ rowOver
     THEN /\ stream' = NoStream
          /\ reader' = [reader EXCEPT !.at = "ended"]
     ELSE /\ stream' = [stream EXCEPT !.at = "list"]
          /\ UNCHANGED reader
  /\ UNCHANGED <<events, emitter, stage, contained, rowOver>>

Connected(cursor) == [NoStream EXCEPT !.at = "list", !.cursor = cursor]
LastSeen == IF reader.seen = <<>> THEN 0 ELSE Last(reader.seen)

\* Defect: the client comes back without saying where it was.
ReconnectFromStart ==
  /\ reader.kind = "follower" /\ reader.at = "away" /\ reader.left > 0
  /\ reader' = [reader EXCEPT !.at = "following", !.left = @ - 1]
  /\ stream' = Connected(0)
  /\ UNCHANGED <<events, emitter, stage, contained, rowOver>>

\* A client of the API, the first time or with Last-Event-ID.
Connect ==
  /\ reader.kind = "follower" /\ reader.at = "away" /\ reader.left > 0
  /\ reader' = [reader EXCEPT !.at = "following", !.left = @ - 1]
  /\ stream' = Connected(LastSeen)
  /\ UNCHANGED <<events, emitter, stage, contained, rowOver>>

\* useRunStream: a page of what is stored, a look at the run, then the stream.
Refresh ==
  /\ reader.kind = "dashboard" /\ reader.at \notin {"loading", "loaded"} /\ reader.left > 0
  /\ reader' = [reader EXCEPT !.at = "loading", !.seen = <<>>, !.left = @ - 1]
  /\ stream' = NoStream
  /\ UNCHANGED <<events, emitter, stage, contained, rowOver>>

LoadPage ==
  /\ reader.at = "loading"
  /\ reader' = [reader EXCEPT !.at = "loaded", !.seen = PageAfter(0, ReplayLimit)]
  /\ UNCHANGED <<events, emitter, stage, contained, rowOver, stream>>

FollowAfterPage ==
  /\ reader.at = "loaded"
  /\ IF rowOver
     THEN /\ reader' = [reader EXCEPT !.at = "ended"]
          /\ UNCHANGED stream
     ELSE /\ reader' = [reader EXCEPT !.at = "following"]
          /\ stream' = Connected(LastSeen)
  /\ UNCHANGED <<events, emitter, stage, contained, rowOver>>

\* The connection is lost.  The dashboard does not reconnect by itself: it keeps
\* what it has until its user refreshes.
LoseConnection ==
  /\ reader.at = "following"
  /\ reader' = [reader EXCEPT !.at = "away"]
  /\ stream' = NoStream
  /\ UNCHANGED <<events, emitter, stage, contained, rowOver>>

-----------------------------------------------------------------------------

EmitStep ==
  \/ \E e \in Emitter : ReadNumber(e) \/ AppendEvent(e) \/ BystanderRefused(e)
  \/ SessionRefused \/ EndRow \/ SaidAll

StreamStep == ListPage \/ SendEvent \/ LookAtRun

EventHistoryNext ==
  EmitStep \/ StreamStep \/ Connect \/ Refresh \/ LoadPage \/ FollowAfterPage \/ LoseConnection

EventHistoryFairness == WF_EventHistoryVars(EmitStep) /\ WF_EventHistoryVars(StreamStep)

EventHistoryTypeOK ==
  /\ events \in Seq(Nat)
  /\ emitter \in [Emitter -> [at : {"idle", "numbered", "refused"}, number : Nat, left : Nat]]
  /\ stage \in {"working", "ending", "over"} /\ contained \in BOOLEAN /\ rowOver \in BOOLEAN
  /\ reader \in [kind : {"follower", "dashboard"}, left : 0..MaxConnections, seen : Seq(Nat),
                 at : {"away", "loading", "loaded", "following", "ended"}]
  /\ stream \in [at : {"off", "list", "send"}, cursor : Nat, page : Seq(Nat), idle : BOOLEAN]

\* A reader sees the events in order, each once and none left out, over any
\* number of connections and however the emitters race.
Feed == INSTANCE EventFeed WITH produced <- Len(events), delivered <- reader.seen

ReadersSeeTheHistory == Feed!FeedSpec

\* A connection that stays up shows every event that is stored while it is open,
\* or the stream has ended.
FollowersCatchUp ==
  \A n \in 1..(WorkEvents + LastWords + Cardinality(Bystander)) :
    (reader.at = "following" /\ Len(events) >= n)
      ~> (Len(reader.seen) >= n \/ reader.at # "following")

\* A view that says it is complete is: "every event the run emits" (docs/api.md:71).
\* Violated: the run's row is terminal before its last events are stored,
\* and the page was read before the row.
EndedViewIsComplete ==
  (reader.at = "ended" /\ stage = "over") => Len(reader.seen) = Len(events)

-----------------------------------------------------------------------------
(***************************************************************************)
(* The frames of an event stream: how the server writes them (apps/api/src *)
(* /routes/stream.ts), how a connection cuts the text wherever it likes,   *)
(* and how the dashboard puts it together again and hands on what it can   *)
(* read (apps/dashboard/src/lib/sse.ts, stream.ts).  A piece stands for    *)
(* the text that must not be cut to be understood: a field with its value, *)
(* the two halves of a line of data, the end of a line.                    *)
(***************************************************************************)
CONSTANT MaxFrames      \* bound: events and heartbeats a connection carries
ASSUME SseFramesAssumption == MaxFrames \in Nat

VARIABLES
  wire,                 \* what the server wrote, how much of it came, what became of it
  browser               \* readSseStream's buffer, what it parsed, what followRun handed on

SseVars == <<wire, browser>>

-----------------------------------------------------------------------------
(* The server's text.  Event 0 is stream.end.                                *)

NewLine == <<"newline", 0>>
Data(n) == << <<"data", n>>, <<"rest", n>> >>
EventFrame(n) == << <<"id", n>>, NewLine >> \o << <<"event", n>>, NewLine >> \o Data(n) \o <<NewLine, NewLine>>
EndFrame == << <<"event", 0>>, NewLine >> \o Data(0) \o <<NewLine, NewLine>>
KeepAlive == << <<"comment", 0>>, NewLine, NewLine >>

-----------------------------------------------------------------------------
(* parseSseChunk: a fold over the pieces.                                    *)

Unnamed == -1
NoBlock == [event |-> Unnamed, data |-> << >>]
ParseStart == [messages |-> << >>, current |-> NoBlock, line |-> << >>, block |-> << >>]

\* An empty line dispatches what was gathered if there is data in it.
Flush(p) ==
  [ParseStart EXCEPT !.messages =
     IF p.current.data = << >> THEN p.messages ELSE Append(p.messages, p.current)]

\* A line that is complete is a comment, data, or a field of the block.
EndLine(p) ==
  CASE p.line[1][1] = "data" -> [p EXCEPT !.current.data = @ \o p.line, !.line = << >>]
    [] p.line[1][1] = "event" -> [p EXCEPT !.current.event = p.line[1][2], !.line = << >>]
    [] OTHER -> [p EXCEPT !.line = << >>]

ParsePiece(p, piece) ==
  LET read == [p EXCEPT !.block = Append(@, piece)]
  IN IF piece # NewLine THEN [read EXCEPT !.line = Append(@, piece)]
     ELSE IF p.line = << >> THEN Flush(p) ELSE EndLine(read)

\* What is returned to the caller besides the messages is the text from the last
\* empty line on, not from the last line.
ParseSseChunk(buffer) ==
  LET p == FoldLeft(ParsePiece, ParseStart, buffer)
  IN [messages |-> p.messages, rest |-> p.block]

-----------------------------------------------------------------------------
SseInit ==
  /\ wire = [text |-> << >>, came |-> 0, events |-> 0, frames |-> 0, open |-> TRUE]
  /\ browser = [buffer |-> << >>, parsed |-> << >>, handed |-> << >>, ended |-> FALSE, at |-> "reading"]

\* send, the heartbeat and the last frame; each is several writes, and a server
\* that dies between them is a connection that is cut.
WriteFrame ==
  /\ wire.open /\ wire.frames < MaxFrames
  /\ \/ wire' = [wire EXCEPT !.text = @ \o EventFrame(wire.events + 1), !.events = @ + 1, !.frames = @ + 1]
     \/ wire' = [wire EXCEPT !.text = @ \o KeepAlive, !.frames = @ + 1]
     \/ wire' = [wire EXCEPT !.text = @ \o EndFrame, !.open = FALSE]
  /\ UNCHANGED browser

\* followRun hands on an event that it can parse, and tells of the end.
HandOn(handed, m) == IF m.event > 0 /\ m.data = Data(m.event) THEN Append(handed, m.event) ELSE handed
Readable(messages) == FoldLeft(HandOn, << >>, messages)
TellsEnd(messages) == \E i \in DOMAIN messages : messages[i].event = 0

Hand(r, messages) ==
  [r EXCEPT !.parsed = @ \o messages, !.handed = @ \o Readable(messages),
            !.ended = @ \/ TellsEnd(messages)]

\* A read of the body returns whatever has come since the last one.
ReadChunk ==
  /\ browser.at = "reading"
  /\ \E n \in (wire.came + 1)..Len(wire.text) :
       LET result == ParseSseChunk(browser.buffer \o SubSeq(wire.text, wire.came + 1, n))
       IN /\ wire' = [wire EXCEPT !.came = n]
          /\ browser' = [Hand(browser, result.messages) EXCEPT !.buffer = result.rest]

\* The body ends: after the last frame, or because a connection was closed in the
\* middle of one.  What is left in the buffer is parsed as if it were complete.
BodyEnds ==
  /\ browser.at = "reading"
  /\ browser' = [Hand(browser, ParseSseChunk(browser.buffer \o <<NewLine, NewLine>>).messages)
                  EXCEPT !.at = "done"]
  /\ UNCHANGED wire

\* A read that fails, or a caller that has left: nothing more is parsed.
ReadFails == browser.at = "reading" /\ browser' = [browser EXCEPT !.at = "failed"] /\ UNCHANGED wire

SseNext == WriteFrame \/ ReadChunk \/ BodyEnds \/ ReadFails

-----------------------------------------------------------------------------
SseTypeOK ==
  /\ wire.came \in 0..Len(wire.text) /\ wire.events \in 0..MaxFrames /\ wire.frames \in 0..MaxFrames
  /\ wire.open \in BOOLEAN /\ browser.ended \in BOOLEAN
  /\ browser.at \in {"reading", "done", "failed"}
  /\ browser.handed \in Seq(1..MaxFrames)

Came == SubSeq(wire.text, 1, wire.came)

\* Wherever the text is cut into chunks, what has been parsed and what is kept
\* for the next chunk are what the whole of it gives: nothing is parsed twice and
\* no half of a frame is lost between two reads (sse.ts:28-83).
ChunksDoNotMatter ==
  browser.at = "reading" =>
    LET whole == ParseSseChunk(Came) IN browser.parsed = whole.messages /\ browser.buffer = whole.rest

\* What reaches the dashboard is the beginning of what the server sent, in order
\* and whole: a stream that ends in the middle of a frame gives its last event if
\* all of its data came and nothing of it otherwise (sse.ts:108, stream.ts:50).
HandedIsWhatCame ==
  /\ browser.handed = [i \in 1..Len(browser.handed) |-> i]
  /\ browser.at = "done" =>
       Len(browser.handed) = Cardinality({i \in DOMAIN Came : Came[i][1] = "rest" /\ Came[i][2] > 0})
  /\ browser.ended => Len(browser.handed) = wire.events
=============================================================================
