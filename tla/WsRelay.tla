------------------------------ MODULE WsRelay ------------------------------
(* The relay of requests to providers that are connected over a websocket.   *)
(* A session has a reader, a heartbeat and a map of pending requests; the    *)
(* reader, the heartbeat, Manager.Stop and a request's context all close     *)
(* channels of that map, without a lock around lookup and use.               *)
(*                                                                           *)
(* The service sets no ProviderFactory: a session's provider is its own      *)
(* random name, so that a session stands for its provider and none is ever   *)
(* replaced by a later connection.                                           *)
EXTENDS Naturals, Sequences, FiniteSets

CONSTANTS
    Sessions,    \* connections that may be made
    Requests,    \* calls of NonStream and Stream; a request is its message id
    BufferSize,  \* capacity of a request's channel
    MaxChunks,   \* bound: chunks of a response
    NoRequest, NoSession

ASSUME RelayAssumption ==
    /\ BufferSize \in Nat \ {0} /\ MaxChunks \in Nat
    /\ NoRequest \notin Requests /\ NoSession \notin Sessions

VARIABLES
    conn,        \* the websocket of a session
    handler,     \* where handleWebsocket stands
    reader,      \* run and dispatch: stage, request and message at hand
    clean,       \* the one execution of cleanup: stage, keys it must visit,
                 \* keys visited, request at hand
    registered,  \* Manager.sessions
    listed,      \* credentials announced by the callbacks and not withdrawn
    pending,     \* session.pending
    req,         \* the goroutine of a request, and its channel
    cancelled,   \* requests whose context is done
    client,      \* what the provider has said to a request
    stopping,    \* Manager.Stop: stage and sessions still to clean up
    crashed      \* a goroutine that nobody recovers has panicked

sessVars == <<conn, handler, registered, listed>>
vars     == <<sessVars, reader, clean, pending, req, cancelled, client,
              stopping, crashed>>

Messages == {"http_response", "stream_start", "stream_chunk", "stream_end",
             "error"}
Terminal == {"http_response", "stream_end", "error"}

Unsent == [pc |-> "new", mode |-> "none", sess |-> NoSession, buf |-> <<>>,
           open |-> TRUE, watched |-> FALSE, streaming |-> FALSE, body |-> 0,
           lost |-> FALSE]

Calls == [pc : {"new", "store", "load", "check", "write", "undo", "wait",
                "ok", "failed"},
          mode : {"none", "NonStream", "Stream"},
          sess : Sessions \cup {NoSession},
          buf : Seq(Messages), open : BOOLEAN, watched : BOOLEAN,
          streaming : BOOLEAN, body : Nat, lost : BOOLEAN]

Readers == [pc : {"none", "read", "send", "finish", "gone"},
            r : Requests \cup {NoRequest}, m : Messages]

Cleanups == [pc : {"no", "range", "send", "reset", "close", "unregister",
                   "notify", "done"},
             must : SUBSET Requests, seen : SUBSET Requests,
             r : Requests \cup {NoRequest}]

TypeOK ==
    /\ conn \in [Sessions -> {"none", "open", "broken", "closed"}]
    /\ handler \in [Sessions -> {"none", "register", "announce", "returned"}]
    /\ reader \in [Sessions -> Readers] /\ clean \in [Sessions -> Cleanups]
    /\ registered \in SUBSET Sessions /\ listed \in SUBSET Sessions
    /\ pending \in [Sessions -> SUBSET Requests]
    /\ req \in [Requests -> Calls]
    /\ cancelled \in SUBSET Requests
    /\ client \in [Requests -> [said : {"unasked", "nothing", "some", "all",
                                        "error", "twice"},
                                chunks : Nat]]
    /\ stopping \in [pc : {"no", "stopping", "stopped"}, left : SUBSET Sessions]
    /\ crashed \in BOOLEAN

Init ==
    /\ conn = [s \in Sessions |-> "none"]
    /\ handler = [s \in Sessions |-> "none"]
    /\ reader = [s \in Sessions |->
                   [pc |-> "none", r |-> NoRequest, m |-> "error"]]
    /\ clean = [s \in Sessions |->
                  [pc |-> "no", must |-> {}, seen |-> {}, r |-> NoRequest]]
    /\ registered = {} /\ listed = {}
    /\ pending = [s \in Sessions |-> {}]
    /\ req = [r \in Requests |-> Unsent]
    /\ cancelled = {}
    /\ client = [r \in Requests |-> [said |-> "unasked", chunks |-> 0]]
    /\ stopping = [pc |-> "no", left |-> {}]
    /\ crashed = FALSE

-----------------------------------------------------------------------------
(* handleWebsocket: newSession starts the heartbeat before the session is   *)
(* registered, and the reader starts last.                                  *)

Connect(s) ==
    /\ handler[s] = "none"
    /\ handler' = [handler EXCEPT ![s] = "register"]
    /\ conn' = [conn EXCEPT ![s] = "open"]
    /\ UNCHANGED <<registered, listed, reader, clean, pending, req, cancelled,
                   client, stopping, crashed>>

Register(s) ==
    /\ handler[s] = "register"
    /\ handler' = [handler EXCEPT ![s] = "announce"]
    /\ registered' = registered \cup {s}
    /\ UNCHANGED <<conn, listed, reader, clean, pending, req, cancelled,
                   client, stopping, crashed>>

(* onConnected, then the goroutine of run.                                  *)
Announce(s) ==
    /\ handler[s] = "announce"
    /\ handler' = [handler EXCEPT ![s] = "returned"]
    /\ listed' = listed \cup {s}
    /\ reader' = [reader EXCEPT ![s].pc = "read"]
    /\ UNCHANGED <<conn, registered, clean, pending, req, cancelled, client,
                   stopping, crashed>>

(* External: the peer goes away, or stops answering until the read deadline. *)
PeerGone(s) ==
    /\ conn[s] = "open"
    /\ conn' = [conn EXCEPT ![s] = "broken"]
    /\ UNCHANGED <<handler, registered, listed, reader, clean, pending, req,
                   cancelled, client, stopping, crashed>>

-----------------------------------------------------------------------------
(* session.cleanup runs once; later callers only wait for it, and do nothing *)
(* that matters here afterwards.                                            *)

Closed(s) == clean[s].pc # "no"

(* The channel closed is closed before Range starts.                        *)
BeginCleanup(s) ==
    clean' = IF Closed(s) THEN clean
             ELSE [clean EXCEPT ![s] = [@ EXCEPT !.pc = "range",
                                                 !.must = pending[s]]]

HeartbeatFails(s) ==
    /\ conn[s] = "broken" /\ ~Closed(s)
    /\ BeginCleanup(s)
    /\ UNCHANGED <<sessVars, reader, pending, req, cancelled, client, stopping,
                   crashed>>

(* A send that does not wait for room.                                      *)
Offered(q, m) ==
    IF Len(q.buf) < BufferSize THEN [q EXCEPT !.buf = Append(@, m)]
    ELSE [q EXCEPT !.lost = TRUE]

(* Range over the sync.Map: every key that is there all the time is visited, *)
(* a key stored meanwhile may be. The value is looked up in one step and     *)
(* used in the next.                                                        *)
RangeVisit(s, r) ==
    /\ clean[s].pc = "range"
    /\ r \in pending[s] \ clean[s].seen
    /\ clean' = [clean EXCEPT ![s].pc = "send", ![s].r = r,
                              ![s].seen = @ \cup {r}]
    /\ UNCHANGED <<sessVars, reader, pending, req, cancelled, client, stopping,
                   crashed>>

(* Mutant: the channel is closed without the message that says why.         *)
RangeSendSilent(s) ==
    LET r == clean[s].r IN
    /\ clean[s].pc = "send"
    /\ req' = [req EXCEPT ![r].open = FALSE]
    /\ clean' = [clean EXCEPT ![s].pc = "range", ![s].r = NoRequest]
    /\ UNCHANGED <<sessVars, reader, pending, cancelled, client, stopping,
                   crashed>>

(* Mutant: the message is offered and the channel left open.                *)
RangeSendOnly(s) ==
    LET r == clean[s].r IN
    /\ clean[s].pc = "send"
    /\ req' = [req EXCEPT ![r] = Offered(@, "error")]
    /\ clean' = [clean EXCEPT ![s].pc = "range", ![s].r = NoRequest]
    /\ UNCHANGED <<sessVars, reader, pending, cancelled, client, stopping,
                   crashed>>

(* A send on a closed channel panics.                                       *)
RangeSend(s) ==
    LET r == clean[s].r IN
    /\ clean[s].pc = "send"
    /\ IF req[r].open
       THEN /\ req' = [req EXCEPT ![r] = [Offered(@, "error") EXCEPT
                                            !.open = FALSE]]
            /\ clean' = [clean EXCEPT ![s].pc = "range", ![s].r = NoRequest]
            /\ UNCHANGED crashed
       ELSE crashed' = TRUE /\ UNCHANGED <<req, clean>>
    /\ UNCHANGED <<sessVars, reader, pending, cancelled, client, stopping>>

RangeEnds(s) ==
    /\ clean[s].pc = "range"
    /\ clean[s].must \cap pending[s] \subseteq clean[s].seen
    /\ clean' = [clean EXCEPT ![s].pc = "reset", ![s].must = {},
                              ![s].seen = {}]
    /\ UNCHANGED <<sessVars, reader, pending, req, cancelled, client, stopping,
                   crashed>>

(* s.pending = sync.Map{}                                                   *)
ResetPending(s) ==
    /\ clean[s].pc = "reset"
    /\ pending' = [pending EXCEPT ![s] = {}]
    /\ clean' = [clean EXCEPT ![s].pc = "close"]
    /\ UNCHANGED <<sessVars, reader, req, cancelled, client, stopping, crashed>>

CloseConn(s) ==
    /\ clean[s].pc = "close"
    /\ conn' = [conn EXCEPT ![s] = "closed"]
    /\ clean' = [clean EXCEPT ![s].pc = "unregister"]
    /\ UNCHANGED <<handler, registered, listed, reader, pending, req, cancelled,
                   client, stopping, crashed>>

(* handleSessionClosed                                                      *)
Unregister(s) ==
    /\ clean[s].pc = "unregister"
    /\ registered' = registered \ {s}
    /\ clean' = [clean EXCEPT ![s].pc = "notify"]
    /\ UNCHANGED <<conn, handler, listed, reader, pending, req, cancelled,
                   client, stopping, crashed>>

Notify(s) ==
    /\ clean[s].pc = "notify"
    /\ listed' = listed \ {s}
    /\ clean' = [clean EXCEPT ![s].pc = "done"]
    /\ UNCHANGED <<conn, handler, registered, reader, pending, req, cancelled,
                   client, stopping, crashed>>

Cleanup(s) ==
    \/ \E r \in Requests : RangeVisit(s, r)
    \/ RangeSend(s) \/ RangeEnds(s) \/ ResetPending(s)
    \/ CloseConn(s) \/ Unregister(s) \/ Notify(s)

-----------------------------------------------------------------------------
(* Manager.Stop: on shutdown, and when authentication is switched on.       *)

Stop ==
    /\ stopping.pc = "no"
    /\ stopping' = [pc |-> "stopping", left |-> registered]
    /\ registered' = {}
    /\ UNCHANGED <<conn, handler, listed, reader, clean, pending, req,
                   cancelled, client, crashed>>

StopCleans(s) ==
    /\ stopping.pc = "stopping" /\ s \in stopping.left /\ ~Closed(s)
    /\ BeginCleanup(s)
    /\ UNCHANGED <<sessVars, reader, pending, req, cancelled, client, stopping,
                   crashed>>

StopGoesOn(s) ==
    /\ stopping.pc = "stopping" /\ s \in stopping.left
    /\ clean[s].pc = "done"
    /\ stopping' = [stopping EXCEPT !.left = @ \ {s}]
    /\ UNCHANGED <<sessVars, reader, clean, pending, req, cancelled, client,
                   crashed>>

StopReturns ==
    /\ stopping.pc = "stopping" /\ stopping.left = {}
    /\ stopping' = [stopping EXCEPT !.pc = "stopped"]
    /\ UNCHANGED <<sessVars, reader, clean, pending, req, cancelled, client,
                   crashed>>

-----------------------------------------------------------------------------
(* Manager.Send and session.request.                                        *)

Goto(r, pc) == req' = [req EXCEPT ![r].pc = pc]

UnchangedByRequest ==
    UNCHANGED <<sessVars, reader, clean, stopping, cancelled, crashed>>

(* The executor has a credential that was listed; the session may be gone.  *)
Send(r, s, mode) ==
    /\ req[r].pc = "new" /\ handler[s] = "returned"
    /\ req' = [req EXCEPT ![r].mode = mode, ![r].sess = s,
                 ![r].pc = IF s \in registered THEN "store" ELSE "failed"]
    /\ UNCHANGED <<pending, client>> /\ UnchangedByRequest

(* LoadOrStore; ids are random and never collide.                           *)
Store(r) ==
    /\ req[r].pc = "store"
    /\ pending' = [pending EXCEPT ![req[r].sess] = @ \cup {r}]
    /\ Goto(r, "load")
    /\ UNCHANGED client /\ UnchangedByRequest

(* Load, and the type assertion: if cleanup has put an empty map in between, *)
(* it panics in the goroutine of the HTTP request, which the server recovers. *)
Load(r) ==
    /\ req[r].pc = "load"
    /\ Goto(r, IF r \in pending[req[r].sess] THEN "check" ELSE "failed")
    /\ UNCHANGED <<pending, client>> /\ UnchangedByRequest

(* Mutant: send relies on the write alone.                                  *)
CheckClosedNever(r) ==
    /\ req[r].pc = "check"
    /\ Goto(r, "write")
    /\ UNCHANGED <<pending, client>> /\ UnchangedByRequest

(* send looks at closed once, before the write.                             *)
CheckClosed(r) ==
    /\ req[r].pc = "check"
    /\ Goto(r, IF Closed(req[r].sess) THEN "undo" ELSE "write")
    /\ UNCHANGED <<pending, client>> /\ UnchangedByRequest

(* The write reaches the provider, and the goroutine that watches the        *)
(* context starts.                                                          *)
Write(r) ==
    /\ req[r].pc = "write" /\ conn[req[r].sess] # "closed"
    /\ req' = [req EXCEPT ![r].pc = "wait", ![r].watched = TRUE]
    /\ client' = [client EXCEPT ![r].said = "nothing"]
    /\ UNCHANGED pending /\ UnchangedByRequest

WriteFails(r) ==
    /\ req[r].pc = "write" /\ conn[req[r].sess] # "open"
    /\ Goto(r, "undo")
    /\ UNCHANGED <<pending, client>> /\ UnchangedByRequest

(* Mutant: the channel is closed and the request stays in the map.          *)
RemovedNot(r, q) ==
    LET s == req[r].sess IN
    /\ pending' = pending
    /\ req' = [req EXCEPT ![r] = [q EXCEPT
                 !.open = @ /\ r \notin pending[s]]]

(* LoadAndDelete and close, by whoever still finds the request in the map.  *)
Removed(r, q) ==
    LET s == req[r].sess IN
    /\ pending' = [pending EXCEPT ![s] = @ \ {r}]
    /\ req' = [req EXCEPT ![r] = [q EXCEPT
                 !.open = @ /\ r \notin pending[s]]]

Undo(r) ==
    /\ req[r].pc = "undo"
    /\ Removed(r, [req[r] EXCEPT !.pc = "failed"])
    /\ UNCHANGED client /\ UnchangedByRequest

(* The context of the caller ends: it hangs up, or has its answer.          *)
Cancel(r) ==
    /\ req[r].pc \in {"wait", "ok", "failed"} /\ r \notin cancelled
    /\ cancelled' = cancelled \cup {r}
    /\ UNCHANGED <<sessVars, reader, clean, pending, req, client, stopping,
                   crashed>>

(* The watching goroutine: whichever of its cases is ready.                 *)
WatchCancelled(r) ==
    /\ req[r].watched /\ r \in cancelled
    /\ Removed(r, [req[r] EXCEPT !.watched = FALSE])
    /\ UNCHANGED client /\ UnchangedByRequest

WatchClosed(r) ==
    /\ req[r].watched /\ Closed(req[r].sess)
    /\ req' = [req EXCEPT ![r].watched = FALSE]
    /\ UNCHANGED <<pending, client>> /\ UnchangedByRequest

-----------------------------------------------------------------------------
(* session.run and dispatch.                                                *)

(* External: what a provider that has said c may say next with m. It may      *)
(* repeat a final message.                                                  *)
Says(c, m) ==
    CASE m = "http_response" /\ c.said = "nothing" ->
           {[c EXCEPT !.said = "all"]}
      [] m = "stream_start" /\ c.said = "nothing" ->
           {[c EXCEPT !.said = "some"]}
      [] m = "stream_chunk" /\ c.said \in {"nothing", "some"}
                            /\ c.chunks < MaxChunks ->
           {[said |-> "some", chunks |-> c.chunks + 1]}
      [] m = "stream_end" /\ c.said \in {"nothing", "some"} ->
           {[c EXCEPT !.said = "all"]}
      [] m = "stream_end" /\ c.said = "all" -> {[c EXCEPT !.said = "twice"]}
      [] m = "error" /\ c.said \in {"nothing", "some"} ->
           {[c EXCEPT !.said = "error"]}
      [] OTHER -> {}

(* A message for an id that is not pending is dropped.                      *)
ReadMessage(s, r, m) ==
    /\ reader[s].pc = "read" /\ conn[s] = "open" /\ req[r].sess = s
    /\ \E c \in Says(client[r], m) : client' = [client EXCEPT ![r] = c]
    /\ reader' = IF r \in pending[s]
                 THEN [reader EXCEPT ![s] = [pc |-> "send", r |-> r, m |-> m]]
                 ELSE reader
    /\ UNCHANGED <<sessVars, clean, pending, req, cancelled, stopping, crashed>>

(* A send on a closed channel panics.                                       *)
DispatchSend(s) ==
    LET r == reader[s].r IN
    /\ reader[s].pc = "send"
    /\ IF req[r].open
       THEN /\ req' = [req EXCEPT ![r] = Offered(@, reader[s].m)]
            /\ reader' = [reader EXCEPT ![s].pc =
                 IF reader[s].m \in Terminal THEN "finish" ELSE "read"]
            /\ UNCHANGED crashed
       ELSE crashed' = TRUE /\ UNCHANGED <<req, reader>>
    /\ UNCHANGED <<sessVars, clean, pending, cancelled, client, stopping>>

DispatchFinish(s) ==
    LET r == reader[s].r IN
    /\ reader[s].pc = "finish"
    /\ Removed(r, req[r])
    /\ reader' = [reader EXCEPT ![s].pc = "read"]
    /\ UNCHANGED <<sessVars, clean, cancelled, client, stopping, crashed>>

ReadFails(s) ==
    /\ reader[s].pc = "read" /\ conn[s] \in {"broken", "closed"}
    /\ reader' = [reader EXCEPT ![s].pc = "gone"]
    /\ BeginCleanup(s)
    /\ UNCHANGED <<sessVars, pending, req, cancelled, client, stopping, crashed>>

-----------------------------------------------------------------------------
(* The loops of NonStream and Stream over the response channel.             *)

(* What a goroutine becomes with a message; ok and failed are its returns.  *)
Received(q, m) ==
    CASE m \in {"http_response", "stream_end"} -> [q EXCEPT !.pc = "ok"]
      [] m = "error" -> [q EXCEPT !.pc = "failed"]
      [] m = "stream_start" -> [q EXCEPT !.streaming = TRUE, !.body = 0]
      [] m = "stream_chunk" -> [q EXCEPT !.streaming = TRUE, !.body = @ + 1]

Receive(r) ==
    /\ req[r].pc = "wait" /\ req[r].buf # <<>>
    /\ req' = [req EXCEPT ![r] =
                 Received([req[r] EXCEPT !.buf = Tail(@)], Head(req[r].buf))]
    /\ UNCHANGED <<pending, client>> /\ UnchangedByRequest

(* The channel is closed: NonStream returns what it has of a streamed         *)
(* response, Stream reports an error.                                       *)
ReceiveClosed(r) ==
    /\ req[r].pc = "wait" /\ req[r].buf = <<>> /\ ~req[r].open
    /\ Goto(r, IF req[r].mode = "NonStream" /\ req[r].streaming
               THEN "ok" ELSE "failed")
    /\ UNCHANGED <<pending, client>> /\ UnchangedByRequest

ReceiveCancelled(r) ==
    /\ req[r].pc = "wait" /\ r \in cancelled
    /\ Goto(r, "failed")
    /\ UNCHANGED <<pending, client>> /\ UnchangedByRequest

-----------------------------------------------------------------------------
(* The steps that a request's own goroutine and its watcher take.           *)
Requesting(r) ==
    \/ Store(r) \/ Load(r) \/ CheckClosed(r) \/ Write(r) \/ WriteFails(r)
    \/ Undo(r)
    \/ Receive(r) \/ ReceiveClosed(r) \/ ReceiveCancelled(r)

Reading(s) == DispatchSend(s) \/ DispatchFinish(s) \/ ReadFails(s)

Next ==
    /\ ~crashed
    /\ \/ \E s \in Sessions :
             \/ Connect(s) \/ Register(s) \/ Announce(s) \/ PeerGone(s)
             \/ HeartbeatFails(s) \/ Cleanup(s) \/ Reading(s)
             \/ StopCleans(s) \/ StopGoesOn(s)
             \/ \E r \in Requests, m \in Messages : ReadMessage(s, r, m)
             \/ \E r \in Requests, mode \in {"NonStream", "Stream"} :
                  Send(r, s, mode)
       \/ Stop \/ StopReturns
       \/ \E r \in Requests :
             Requesting(r) \/ Cancel(r) \/ WatchCancelled(r) \/ WatchClosed(r)

Spec == Init /\ [][Next]_vars

(* Goroutines go on and calls on the connection return: reads and writes     *)
(* have deadlines. What clients, providers and operators do is not assumed.  *)
LiveSpec ==
    /\ Spec
    /\ \A s \in Sessions :
         /\ WF_vars(~crashed /\ Reading(s))
         /\ WF_vars(~crashed /\ (HeartbeatFails(s) \/ Cleanup(s)))
    /\ \A r \in Requests : WF_vars(~crashed /\ Requesting(r))

-----------------------------------------------------------------------------
(* Properties.                                                              *)

(* Once cleanup has been through the map, no request waits on a channel that  *)
(* nobody will close: a request stored too late for Range finds the session   *)
(* closed before it writes.                                                 *)
NoRequestStranded ==
    \A r \in Requests :
       /\ req[r].pc = "wait"
       /\ clean[req[r].sess].pc \in {"reset", "close", "unregister", "notify",
                                     "done"}
       => ~req[r].open

(* A caller that is still there gets a response as if complete only if it is: *)
(* a session that ends in the middle of a streamed response makes it fail.    *)
(* The code gives this up when the channel is full and a message is dropped.  *)
ResponseIntact ==
    \A r \in Requests :
       req[r].pc = "ok" /\ ~req[r].lost /\ r \notin cancelled
       => client[r].said \in {"all", "twice"} /\ req[r].body = client[r].chunks

(* The process goes down by a send on a closed channel only if a context      *)
(* ended or the session was being closed: the answers to a request, repeated  *)
(* final messages included, never suffice.                                  *)
CrashNeedsAnotherCloser ==
    crashed => cancelled # {} \/ \E s \in Sessions : Closed(s)

(* When the connection of a waiting request breaks or is closed, or its       *)
(* caller hangs up, the request ends, unless the process goes down.          *)
RequestsEnd ==
    \A r \in Requests :
       (/\ req[r].pc = "wait"
        /\ conn[req[r].sess] # "open" \/ r \in cancelled)
       ~> (req[r].pc \in {"ok", "failed"} \/ crashed)

-----------------------------------------------------------------------------
(* What the safety properties need besides themselves. Together with TypeOK  *)
(* these parts are inductive.                                               *)

Past == {"reset", "close", "unregister", "notify", "done"}

(* An entry of the map belongs to a request of the session; its channel is    *)
(* open until cleanup starts, because removal and close go together. A        *)
(* request that is on its way is in the map, or its channel is closed, or     *)
(* cleanup has emptied the map.                                             *)
InMap(r) ==
    /\ \A s \in Sessions : r \in pending[s] =>
          /\ req[r].sess = s /\ req[r].pc \notin {"new", "store"}
          /\ clean[s].pc = "no" => req[r].open
    /\ req[r].pc # "new" => req[r].sess \in Sessions
    /\ req[r].pc \in {"new", "store"} => req[r].open
    /\ /\ req[r].pc \in {"load", "check", "write", "undo", "wait"}
       /\ req[r].open
       /\ clean[req[r].sess].pc \in {"no", "range", "send", "reset"}
       => r \in pending[req[r].sess]

PendingInv == \A r \in Requests : InMap(r)

(* Range must still visit what send found in an open session, and has been    *)
(* through all of it when it ends.                                          *)
RangeInv ==
    /\ \A s \in Sessions :
          /\ clean[s].pc = "no" => clean[s].seen = {}
          /\ clean[s].pc = "send" =>
                /\ clean[s].r \in Requests
                /\ req[clean[s].r].sess = s
                /\ req[clean[s].r].pc \notin {"new", "store"}
    /\ \A r \in Requests :
          req[r].pc \in {"write", "wait"} /\ req[r].open =>
             LET c == clean[req[r].sess] IN
             /\ c.pc \in {"range", "send"} =>
                   r \in c.must /\ (r \in c.seen => c.pc = "send" /\ c.r = r)
             /\ c.pc \notin Past

(* The reader works for requests that were written, and one that it has       *)
(* found in the map stays there unless a context or the session ends.       *)
ReaderInv ==
    /\ \A r \in Requests :
          req[r].pc \in {"wait", "ok", "failed"} \/ client[r].said = "unasked"
    /\ \A s \in Sessions : handler[s] # "returned" => reader[s].pc = "none"
    /\ \A s \in Sessions : reader[s].pc \in {"send", "finish"} =>
          /\ reader[s].r \in Requests
          /\ req[reader[s].r].sess = s
          /\ client[reader[s].r].said \notin {"unasked", "nothing"}
          /\ reader[s].pc = "send" /\ cancelled = {} /\ ~Closed(s)
             => reader[s].r \in pending[s]
    /\ \A r \in Requests :
          req[r].watched => req[r].pc \in {"wait", "ok", "failed"}

(* The reader has a message of r that is not in the channel yet.            *)
InTransit(r, m) ==
    /\ req[r].sess \in Sessions
    /\ reader[req[r].sess].pc = "send"
    /\ reader[req[r].sess].r = r /\ reader[req[r].sess].m = m

Finishing(r) ==
    /\ req[r].sess \in Sessions
    /\ reader[req[r].sess].pc = "finish" /\ reader[req[r].sess].r = r

ChunksIn(b) == Cardinality({i \in 1..Len(b) : b[i] = "stream_chunk"})

HasTerminal(b) == \E i \in 1..Len(b) : b[i] \in Terminal

(* Before the write nothing but the message of cleanup is in the channel.   *)
Fresh(r) ==
    LET q == req[r] IN
    /\ q.body = 0 /\ client[r].chunks = 0
    /\ \A i \in 1..Len(q.buf) : q.buf[i] = "error"
    /\ q.open <=> q.buf = <<>>

(* What a waiting caller will have read when the channel is empty is what the *)
(* provider has said, until a final message or that of cleanup cuts it off.  *)
Flowing(r) ==
    LET q == req[r]  c == client[r] IN
    /\ \A i, j \in 1..Len(q.buf) :
          i < j /\ q.buf[i] \in Terminal => q.buf[j] = "error"
    /\ \A i \in 1..Len(q.buf) :
          q.buf[i] \in {"http_response", "stream_end"} =>
             c.said \in {"all", "twice"} /\ q.body + ChunksIn(q.buf) = c.chunks
    /\ \A i \in 1..Len(q.buf) : q.buf[i] = "stream_start" => i = 1 /\ q.body = 0
    /\ q.open => (HasTerminal(q.buf) <=> Finishing(r))
    /\ ~HasTerminal(q.buf) =>
          /\ q.open
          /\ q.body + ChunksIn(q.buf)
                + (IF InTransit(r, "stream_chunk") THEN 1 ELSE 0) = c.chunks
    /\ \A m \in Messages : InTransit(r, m) =>
          /\ m \in {"http_response", "stream_end"} => c.said \in {"all", "twice"}
          /\ m = "stream_start" /\ q.open => q.buf = <<>> /\ q.body = 0
    /\ c.said = "nothing" => q.body = 0 /\ c.chunks = 0
                             /\ \A i \in 1..Len(q.buf) : q.buf[i] = "error"

Intact(r) ==
    ~req[r].lost /\ r \notin cancelled =>
       /\ req[r].pc \in {"new", "store", "load", "check", "write"} => Fresh(r)
       /\ req[r].pc = "wait" => Flowing(r)
       /\ req[r].pc = "ok" => /\ client[r].said \in {"all", "twice"}
                              /\ req[r].body = client[r].chunks

FlowInv == \A r \in Requests : Intact(r)

IndInv ==
    /\ TypeOK /\ PendingInv /\ RangeInv /\ ReaderInv /\ FlowInv
    /\ CrashNeedsAnotherCloser

=============================================================================
