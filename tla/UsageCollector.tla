--------------------------- MODULE UsageCollector ---------------------------
(* The collector in front of the proxy's usage queue: each Start makes a new *)
(* run, which subscribes, polls over HTTP or pops over RESP, and stores what *)
(* it gets before it tells the probe service. An old run is cancelled and    *)
(* not waited for.                                                           *)
EXTENDS UsageQueue

CONSTANTS
    Modes,       \* collector modes that may be configured
    Malformed,   \* records whose payload NormalizeRaw refuses
    BatchSize

(* The connections of UsageQueue are those of the runs, in the order of    *)
(* their starts.                                                           *)
ASSUME CollectorAssumption ==
    /\ Modes \subseteq {"subscribe", "auto", "http", "resp"}
    /\ Malformed \subseteq Records
    /\ BatchSize \in Nat \ {0}
    /\ IsFiniteSet(Conns) /\ Conns = 1..Cardinality(Conns)

VARIABLES
    run,        \* the goroutines of run, one per Start
    started,    \* number of Starts
    current,    \* the run whose cancel function the manager holds, or 0
    cancelled,  \* runs whose context is cancelled
    linked,     \* subscriptions whose connection the collector still has
    rows,       \* payloads with a row in usage_events
    dead,       \* payloads with a row in dead_letter_events
    probed      \* payloads handed to the probe service

runVars == <<run, started, current, cancelled, linked>>
dbVars  == <<rows, dead, probed>>
vars    == <<proxyVars, runVars, dbVars>>

Stages == {"off", "dial", "sub", "poll", "respdial", "resp", "process",
           "insert", "sink", "done"}
NotStarted == [pc |-> "off", mode |-> "auto", subscribed |-> FALSE,
               held |-> {}, back |-> "off"]

Runs == [pc : Stages, mode : Modes \cup {"auto"}, subscribed : BOOLEAN,
         held : SUBSET Payloads, back : Stages]

CollectorTypeOK ==
    /\ run \in [Conns -> Runs]
    /\ started \in 0..Cardinality(Conns) /\ current \in 0..started
    /\ cancelled \subseteq 1..started
    /\ linked \subseteq Conns
    /\ rows \cup dead \cup probed \subseteq Payloads

TypeOK == QueueTypeOK /\ CollectorTypeOK

Init ==
    /\ QueueInit
    /\ run = [c \in Conns |-> NotStarted]
    /\ started = 0 /\ current = 0 /\ cancelled = {} /\ linked = {}
    /\ rows = {} /\ dead = {} /\ probed = {}

-----------------------------------------------------------------------------
(* Manager.Start and Stop.                                                 *)

Cancel == IF current = 0 THEN cancelled ELSE cancelled \cup {current}

FirstStage(mode) ==
    CASE mode \in {"subscribe", "auto"} -> "dial"
      [] mode = "http" -> "poll"
      [] mode = "resp" -> "respdial"

Start(mode) ==
    /\ started < Cardinality(Conns)
    /\ started' = started + 1
    /\ current' = started + 1
    /\ cancelled' = Cancel
    /\ run' = [run EXCEPT ![started + 1] =
                  [NotStarted EXCEPT !.pc = FirstStage(mode), !.mode = mode]]
    /\ UNCHANGED <<proxyVars, linked, dbVars>>

Stop ==
    /\ current # 0
    /\ current' = 0
    /\ cancelled' = Cancel
    /\ UNCHANGED <<proxyVars, run, started, linked, dbVars>>

Goto(c, stage) == run' = [run EXCEPT ![c].pc = stage]

(* Mutant: the loop around a subscription does not look at the context.    *)
CancelledUnlessDial(c) ==
    /\ run[c].pc \in {"sub", "poll", "respdial", "resp"}
    /\ c \in cancelled
    /\ Goto(c, "done")
    /\ linked' = linked \ {c}
    /\ UNCHANGED <<proxyVars, started, current, cancelled, dbVars>>

(* The checks of ctx.Err() at the head of the loops. A subscription that   *)
(* is left closes its connection.                                          *)
Cancelled(c) ==
    /\ run[c].pc \in {"dial", "sub", "poll", "respdial", "resp"}
    /\ c \in cancelled
    /\ Goto(c, "done")
    /\ linked' = linked \ {c}
    /\ UNCHANGED <<proxyVars, started, current, cancelled, dbVars>>

-----------------------------------------------------------------------------
(* runSubscribe.                                                           *)

(* Dial, Auth and Subscribe succeed. The server's previous end of this     *)
(* run's connection has gone by then.                                      *)
Subscribe(c) ==
    /\ run[c].pc = "dial"
    /\ c \notin cancelled
    /\ enabled /\ ~homeMode
    /\ subs[c] = NoSub
    /\ subs' = [subs EXCEPT ![c] = [open |-> TRUE, buf |-> <<Control>>]]
    /\ linked' = linked \cup {c}
    /\ run' = [run EXCEPT ![c].pc = "sub", ![c].subscribed = TRUE]
    /\ UNCHANGED <<mgrVars, enabled, items, fwdVars, envVars, events, lost,
                   started, current, cancelled, dbVars>>

(* Mutant: every failed attempt of an automatic run falls back.            *)
AfterFailedDialAlways(c) == IF run[c].mode = "auto" THEN "poll" ELSE "dial"

(* Where a failed attempt leads: only the first probing of an automatic    *)
(* run falls back to polling.                                              *)
AfterFailedDial(c) ==
    IF run[c].mode = "auto" /\ ~run[c].subscribed THEN "poll" ELSE "dial"

(* One of the three fails, for a reason of the network or because the      *)
(* server does not serve the channel; it may have subscribed us already.   *)
DialFails(c, zombie) ==
    /\ run[c].pc = "dial"
    /\ c \notin cancelled
    /\ IF enabled /\ ~homeMode THEN Event ELSE ~zombie /\ UNCHANGED events
    /\ zombie => subs[c] = NoSub
    /\ subs' = IF zombie THEN [subs EXCEPT ![c].open = TRUE] ELSE subs
    /\ Goto(c, AfterFailedDial(c))
    /\ UNCHANGED <<mgrVars, enabled, items, fwdVars, envVars, lost, started,
                   current, cancelled, linked, dbVars>>

(* consumeSubscribe reads a message.                                       *)
ReadMessage(c) ==
    /\ run[c].pc = "sub"
    /\ c \notin cancelled
    /\ subs[c].buf # <<>>
    /\ subs' = [subs EXCEPT ![c].buf = Tail(@)]
    /\ run' = [run EXCEPT ![c].pc = "process", ![c].held = {Head(subs[c].buf)},
                          ![c].back = "sub"]
    /\ UNCHANGED <<mgrVars, enabled, items, fwdVars, envVars, events, lost,
                   started, current, cancelled, linked, dbVars>>

(* The server has closed the channel and everything in it was read, or the *)
(* connection breaks.                                                      *)
ReadFails(c) ==
    /\ run[c].pc = "sub"
    /\ c \notin cancelled
    /\ IF subs[c] = NoSub THEN UNCHANGED events ELSE Event
    /\ linked' = linked \ {c}
    /\ Goto(c, "dial")
    /\ UNCHANGED <<mgrVars, queueVars, fwdVars, envVars, lost, started, current,
                   cancelled, dbVars>>

(* streamRedisSubscription notices that its peer has gone, unsubscribes and*)
(* drops what the channel still holds.                                     *)
ServerNotices(c) ==
    /\ subs[c] # NoSub
    /\ c \notin linked
    /\ subs' = [subs EXCEPT ![c] = NoSub]
    /\ lost' = lost \cup RecordsIn(subs[c].buf)
    /\ UNCHANGED <<mgrVars, enabled, items, fwdVars, envVars, events, runVars,
                   dbVars>>

-----------------------------------------------------------------------------
(* runHTTP and runRESP.                                                    *)

(* A pop; with nothing left in the window it only prunes.                  *)
Pop(c) ==
    /\ run[c].pc \in {"poll", "resp"}
    /\ c \notin cancelled
    /\ run[c].pc = "resp" => ~homeMode
    /\ enabled /\ items # <<>>
    /\ items' = AfterPop(BatchSize)
    /\ lost' = lost \cup Pruned
    /\ run' = IF Popped(BatchSize) = <<>> THEN run
              ELSE [run EXCEPT ![c].pc = "process", ![c].back = run[c].pc,
                               ![c].held = Range(Popped(BatchSize))]
    /\ UNCHANGED <<mgrVars, enabled, subs, fwdVars, envVars, events, started,
                   current, cancelled, linked, dbVars>>

(* The request or its answer is lost. A cancelled run gives up a request   *)
(* that may be answered already. RESP dials again.                         *)
PopFails(c, answered) ==
    /\ run[c].pc \in {"poll", "resp"}
    /\ IF c \in cancelled THEN answered /\ UNCHANGED events ELSE Event
    /\ items' = IF answered THEN AfterPop(BatchSize) ELSE items
    /\ lost' = IF answered THEN lost \cup PruneLoss \cup RecordsIn(Popped(BatchSize))
               ELSE lost
    /\ Goto(c, IF run[c].pc = "resp" THEN "respdial" ELSE "poll")
    /\ UNCHANGED <<mgrVars, enabled, subs, fwdVars, envVars, started, current,
                   cancelled, linked, dbVars>>

(* The server does not know the HTTP queue: an automatic run turns to RESP.*)
Unsupported(c) ==
    /\ run[c].pc = "poll"
    /\ run[c].mode = "auto"
    /\ c \notin cancelled
    /\ Event
    /\ Goto(c, "respdial")
    /\ UNCHANGED <<mgrVars, queueVars, fwdVars, envVars, lost, started, current,
                   cancelled, linked, dbVars>>

DialRESP(c) ==
    /\ run[c].pc = "respdial"
    /\ c \notin cancelled
    /\ enabled /\ ~homeMode
    /\ Goto(c, "resp")
    /\ UNCHANGED <<proxyVars, started, current, cancelled, linked, dbVars>>

-----------------------------------------------------------------------------
(* processItems and IngestUsageEvents.                                     *)

Bad(c) == run[c].held \cap Malformed

(* NormalizeRaw refuses some payloads, which become dead letters; an error *)
(* of that insert is ignored.                                              *)
Normalize(c, saved) ==
    /\ run[c].pc = "process"
    /\ saved \subseteq Bad(c)
    /\ IF saved = Bad(c) THEN UNCHANGED events
       ELSE IF c \in cancelled THEN saved = {} /\ UNCHANGED events
       ELSE Event
    /\ dead' = dead \cup saved
    /\ lost' = lost \cup (Bad(c) \ saved)
    /\ LET good == run[c].held \ Malformed
       IN  run' = [run EXCEPT ![c].held = good,
                              ![c].pc = IF good = {} THEN run[c].back
                                        ELSE "insert"]
    /\ UNCHANGED <<mgrVars, queueVars, fwdVars, envVars, started, current,
                   cancelled, linked, rows, probed>>

(* InsertEvents, one transaction that ignores hashes it has. A notice has  *)
(* no timestamp of its own and gets a row for each time it is read.        *)
InsertEvents(c) ==
    /\ run[c].pc = "insert"
    /\ c \notin cancelled
    /\ rows' = rows \cup run[c].held
    /\ Goto(c, "sink")
    /\ UNCHANGED <<proxyVars, started, current, cancelled, linked, dead, probed>>

(* The transaction fails, as it must with a cancelled context: the error   *)
(* ends the consumer, which connects or polls again; the events are gone.  *)
InsertFails(c) ==
    /\ run[c].pc = "insert"
    /\ IF c \in cancelled THEN UNCHANGED events ELSE Event
    /\ lost' = lost \cup ((run[c].held \cap Records) \ rows)
    /\ run' = [run EXCEPT ![c].held = {},
                          ![c].pc = CASE run[c].back = "sub"  -> "dial"
                                      [] run[c].back = "poll" -> "poll"
                                      [] run[c].back = "resp" -> "respdial"]
    /\ linked' = linked \ {c}
    /\ UNCHANGED <<mgrVars, queueVars, fwdVars, envVars, started, current,
                   cancelled, dbVars>>

ProcessUsageEvents(c) ==
    /\ run[c].pc = "sink"
    /\ probed' = probed \cup run[c].held
    /\ run' = [run EXCEPT ![c].pc = run[c].back, ![c].held = {}]
    /\ UNCHANGED <<proxyVars, started, current, cancelled, linked, rows, dead>>

-----------------------------------------------------------------------------
Running(c) ==
    \/ Cancelled(c)
    \/ Subscribe(c) \/ ReadMessage(c) \/ ReadFails(c)
    \/ \E b \in BOOLEAN : DialFails(c, b) \/ PopFails(c, b)
    \/ Pop(c) \/ Unsupported(c) \/ DialRESP(c)
    \/ \E saved \in SUBSET Malformed : Normalize(c, saved)
    \/ InsertEvents(c) \/ InsertFails(c) \/ ProcessUsageEvents(c)

(* A step of the proxy, which knows nothing of the collector.              *)
Proxy(step) == step /\ UNCHANGED <<runVars, dbVars>>

Next ==
    \/ \E r \in Records : Proxy(Publish(r))
    \/ Proxy(StopManager)
    \/ Proxy(Take) \/ Proxy(Offer) \/ Proxy(AppendItem)
    \/ Proxy(SetEnabled) \/ Proxy(NotifyUsageRefresh) \/ Proxy(Tick)
    \/ Proxy(FwdPop) \/ Proxy(FwdPush) \/ Proxy(FwdRequeue) \/ Proxy(FwdAppend)
    \/ \E received \in BOOLEAN : Proxy(FwdPushFails(received))
    \/ \E mode \in Modes : Start(mode)
    \/ Stop
    \/ \E c \in Conns : Running(c) \/ ServerNotices(c)

Spec == Init /\ [][Next]_vars

(* The goroutines of the runs go on. Nothing is assumed of the proxy.      *)
LiveSpec ==
    /\ Spec
    /\ \A c \in Conns : WF_vars(Running(c))

-----------------------------------------------------------------------------
(* Where a record is, between Publish and its row.                         *)
Somewhere(r) ==
    \/ r \in RecordsIn(mqueue) \cup {disp.rec} \cup Recs(items)
    \/ r \in RecordsIn(fwd.items) \cup home
    \/ r \in rows \cup dead
    \/ \E c \in Conns : r \in RecordsIn(subs[c].buf) \cup run[c].held

(* A record is given up only by the steps that accept it (a queue switched *)
(* off, retention, a full or abandoned channel, a lost answer, a failed or *)
(* cancelled insert); a fault that costs one record costs no other one.    *)
NothingVanishes == \A r \in published \ lost : Somewhere(r)

(* Once subscribed, an automatic run keeps to subscribing: it never takes  *)
(* records from the queue, which other consumers may be waiting for.       *)
SubscriberNeverPolls ==
    [][\A c \in Conns : run[c].subscribed => run'[c].pc \notin {"poll", "resp"}]_vars

(* A run that Start or Stop cancelled comes to its end.                    *)
CancelledRunEnds ==
    \A c \in Conns : (c \in cancelled) ~> (run[c].pc = "done")

-----------------------------------------------------------------------------
(* What the properties need besides themselves. Together with TypeOK these   *)
(* parts are inductive.                                                     *)

(* The dispatcher and the forwarder have something in hand exactly while they *)
(* work.                                                                    *)
HandsInv ==
    /\ disp.pc = "wait" <=> disp.rec = NoRecord
    /\ fwd.pc = "idle" <=> fwd.items = <<>>

(* Runs that are not started are blank. A run has events in hand only from    *)
(* the answer to the sink, and they have their rows when the sink gets them. *)
RunInv ==
    \A c \in Conns :
       /\ c > started => run[c] = NotStarted
       /\ run[c].held # {} => run[c].pc \in {"process", "insert", "sink"}
       /\ run[c].pc = "sink" => run[c].held \subseteq rows

(* A run that has subscribed is on the way around its subscription.         *)
SubscriberInv ==
    \A c \in Conns :
       /\ run[c].pc \in {"process", "insert", "sink"} =>
             run[c].back \in {"sub", "poll", "resp"}
       /\ run[c].subscribed =>
             /\ run[c].pc \in {"dial", "sub", "process", "insert", "sink", "done"}
             /\ run[c].pc \in {"process", "insert", "sink"} =>
                   run[c].back = "sub"

IndInv ==
    TypeOK /\ HandsInv /\ RunInv /\ SubscriberInv /\ NothingVanishes

=============================================================================
