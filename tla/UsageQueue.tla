----------------------------- MODULE UsageQueue -----------------------------
(* The proxy's side of usage reporting: the dispatcher of usage.Manager, the *)
(* queue plugin with its retention and its subscribers, and the forwarder    *)
(* that serves the same queue to Home.                                       *)
EXTENDS Naturals, Sequences, FiniteSets, Functions

CONSTANTS
    Records,        \* usage records, one per request attempt
    Control,        \* the payload of a refresh notice
    NoRecord,
    Conns,          \* connections that may subscribe
    BufferCap,      \* usageSubscriberBuffer
    Retention,      \* retentionSeconds
    ForwardBatch,   \* records the forwarder pops at once
    MaxEvents       \* reloads, notices, seconds and failures that happen

ASSUME QueueAssumption ==
    /\ Control \notin Records
    /\ NoRecord \notin Records \cup {Control}
    /\ BufferCap \in Nat \ {0} /\ ForwardBatch \in Nat \ {0}
    /\ Retention \in Nat /\ MaxEvents \in Nat

Payloads == Records \cup {Control}

VARIABLES
    published,  \* records given to Publish
    mqueue,     \* Manager.queue
    closed,     \* Manager.closed
    disp,       \* the dispatcher: the record in hand and where it stands
    enabled,    \* redisqueue.enabled
    items,      \* queue.items from head on, with the time of each
    subs,       \* queue.subscribers: open or not, and what is in the channel
    homeMode,   \* Home serves the usage records
    fwd,        \* the forwarder: its popped items and whether it puts them back
    home,       \* records Home received
    now,
    events,     \* reloads, notices, seconds and failures so far
    lost        \* history: records given up at a place that accepts it

mgrVars   == <<published, mqueue, closed, disp>>
queueVars == <<enabled, items, subs>>
fwdVars   == <<fwd, home>>
envVars   == <<homeMode, now>>
proxyVars == <<mgrVars, queueVars, fwdVars, envVars, events, lost>>

Waiting == [pc |-> "wait", rec |-> NoRecord]
NoSub   == [open |-> FALSE, buf |-> <<>>]

QueueTypeOK ==
    /\ published \subseteq Records /\ home \subseteq Records
    /\ lost \subseteq Records
    /\ mqueue \in Seq(Records)
    /\ closed \in BOOLEAN /\ enabled \in BOOLEAN /\ homeMode \in BOOLEAN
    /\ disp \in [pc : {"wait", "offer", "append"}, rec : Records \cup {NoRecord}]
    /\ items \in Seq([rec : Records, at : 0..MaxEvents])
    /\ subs \in [Conns -> [open : BOOLEAN, buf : Seq(Payloads)]]
    /\ \A c \in Conns : Len(subs[c].buf) <= BufferCap
    /\ fwd \in [pc : {"idle", "push", "requeue", "append"}, items : Seq(Records)]
    /\ now \in 0..events /\ events \in 0..MaxEvents

QueueInit ==
    /\ published = {} /\ mqueue = <<>> /\ closed = FALSE /\ disp = Waiting
    /\ enabled = TRUE /\ items = <<>>
    /\ subs = [c \in Conns |-> NoSub]
    /\ homeMode \in BOOLEAN
    /\ fwd = [pc |-> "idle", items |-> <<>>] /\ home = {}
    /\ now = 0 /\ events = 0 /\ lost = {}

(* What happens to the queue from outside is bounded, all in one.          *)
Event == events < MaxEvents /\ events' = events + 1

-----------------------------------------------------------------------------
(* Helpers on the queue.                                                   *)

Recs(q) == {q[i].rec : i \in DOMAIN q}
RecordsIn(s) == Range(s) \cap Records

(* pruneLocked: the items at the head that are older than the window go.   *)
Expired(q) == {i \in DOMAIN q : \A j \in 1..i : q[j].at + Retention < now}
Fresh(q) == SubSeq(q, Cardinality(Expired(q)) + 1, Len(q))

(* enqueue prunes and appends.                                             *)
Enqueued(r) == Append(Fresh(items), [rec |-> r, at |-> now])
Pruned == Recs(items) \ Recs(Fresh(items))

Open == {c \in Conns : subs[c].open}
Full(c) == Len(subs[c].buf) >= BufferCap

(* publishToSubscribers: every open channel gets the payload; one without  *)
(* room is closed and removed, with what it still holds to be read.        *)
Offered(p) ==
    [c \in Conns |->
        IF ~subs[c].open THEN subs[c]
        ELSE IF Full(c) THEN [subs[c] EXCEPT !.open = FALSE]
        ELSE [subs[c] EXCEPT !.buf = Append(@, p)]]

(* No open channel had room for the payload: nobody will see it.           *)
NobodyHasRoom == \A c \in Open : Full(c)

-----------------------------------------------------------------------------
(* usage.Manager.                                                          *)

(* A request has ended. A record published after Stop is dropped.          *)
Publish(r) ==
    /\ r \notin published
    /\ published' = published \cup {r}
    /\ mqueue' = IF closed THEN mqueue ELSE Append(mqueue, r)
    /\ lost' = IF closed THEN lost \cup {r} ELSE lost
    /\ UNCHANGED <<closed, disp, queueVars, fwdVars, envVars, events>>

(* Stop lets the dispatcher drain what is queued.                          *)
StopManager ==
    /\ ~closed
    /\ closed' = TRUE
    /\ UNCHANGED <<published, mqueue, disp, queueVars, fwdVars, envVars, events,
                   lost>>

(* run takes the oldest record, closed or not; dispatch hands it to the    *)
(* queue plugin, which looks whether the queue is enabled.                 *)
Take ==
    /\ disp.pc = "wait"
    /\ mqueue # <<>>
    /\ disp' = IF enabled THEN [pc |-> "offer", rec |-> Head(mqueue)] ELSE Waiting
    /\ mqueue' = Tail(mqueue)
    /\ lost' = IF enabled THEN lost ELSE lost \cup {Head(mqueue)}
    /\ UNCHANGED <<published, closed, queueVars, fwdVars, envVars, events>>

(* Enqueue looks again, then serves the subscribers. With none the record *)
(* is appended, but under a second acquisition of the lock.                *)
Offer ==
    /\ disp.pc = "offer"
    /\ subs' = IF enabled THEN Offered(disp.rec) ELSE subs
    /\ disp' = IF enabled /\ Open = {} THEN [disp EXCEPT !.pc = "append"]
               ELSE Waiting
    /\ lost' = IF ~enabled \/ (Open # {} /\ NobodyHasRoom)
               THEN lost \cup {disp.rec} ELSE lost
    /\ UNCHANGED <<published, mqueue, closed, enabled, items, fwdVars, envVars,
                   events>>

AppendItem ==
    /\ disp.pc = "append"
    /\ items' = Enqueued(disp.rec)
    /\ lost' = lost \cup Pruned
    /\ disp' = Waiting
    /\ UNCHANGED <<published, mqueue, closed, enabled, subs, fwdVars, envVars,
                   events>>

-----------------------------------------------------------------------------
(* The queue's switch and its notices.                                     *)

(* A reload of the configuration; off means clear: the items go and every  *)
(* subscriber's channel is closed.                                         *)
SetEnabled ==
    /\ Event
    /\ enabled' = ~enabled
    /\ items' = IF enabled THEN <<>> ELSE items
    /\ lost' = IF enabled THEN lost \cup Recs(items) ELSE lost
    /\ subs' = IF enabled THEN [c \in Conns |-> [subs[c] EXCEPT !.open = FALSE]]
               ELSE subs
    /\ UNCHANGED <<mgrVars, fwdVars, homeMode, now>>

(* The watcher announces changed credentials to the subscribers.           *)
NotifyUsageRefresh ==
    /\ Event
    /\ Open # {}
    /\ subs' = Offered(Control)
    /\ UNCHANGED <<mgrVars, enabled, items, fwdVars, homeMode, now, lost>>

Tick ==
    /\ Event
    /\ now' = now + 1
    /\ UNCHANGED <<mgrVars, queueVars, fwdVars, homeMode, lost>>

(* PopOldest, for n records: what is handed over and what stays.           *)
Popped(n) ==
    IF enabled THEN [i \in 1..(IF n < Len(Fresh(items)) THEN n ELSE Len(Fresh(items)))
                        |-> Fresh(items)[i].rec]
    ELSE <<>>
AfterPop(n) ==
    IF ~enabled THEN items
    ELSE SubSeq(Fresh(items), Len(Popped(n)) + 1, Len(Fresh(items)))
PruneLoss == IF enabled THEN Pruned ELSE {}

-----------------------------------------------------------------------------
(* startHomeUsageForwarder.                                                *)

FwdPop ==
    /\ homeMode
    /\ fwd.pc = "idle"
    /\ enabled /\ items # <<>>
    /\ fwd' = IF Popped(ForwardBatch) = <<>> THEN fwd
              ELSE [pc |-> "push", items |-> Popped(ForwardBatch)]
    /\ items' = AfterPop(ForwardBatch)
    /\ lost' = lost \cup Pruned
    /\ UNCHANGED <<mgrVars, enabled, subs, home, envVars, events>>

FwdPush ==
    /\ fwd.pc = "push"
    /\ home' = home \cup {Head(fwd.items)}
    /\ fwd' = [pc |-> IF Len(fwd.items) = 1 THEN "idle" ELSE "push",
               items |-> Tail(fwd.items)]
    /\ UNCHANGED <<mgrVars, queueVars, envVars, events, lost>>

(* Mutant: the record whose push failed is not put back.                   *)
FwdPushFailsSkipping(received) ==
    /\ fwd.pc = "push"
    /\ Event
    /\ home' = IF received THEN home \cup {Head(fwd.items)} ELSE home
    /\ fwd' = [pc |-> IF Len(fwd.items) = 1 THEN "idle" ELSE "requeue",
               items |-> Tail(fwd.items)]
    /\ UNCHANGED <<mgrVars, queueVars, envVars, lost>>

(* LPushUsage fails, before or after Home received the record: this one    *)
(* and the rest go back into the queue.                                    *)
FwdPushFails(received) ==
    /\ fwd.pc = "push"
    /\ Event
    /\ home' = IF received THEN home \cup {Head(fwd.items)} ELSE home
    /\ fwd' = [fwd EXCEPT !.pc = "requeue"]
    /\ UNCHANGED <<mgrVars, queueVars, envVars, lost>>

FwdRest == [pc |-> IF Len(fwd.items) = 1 THEN "idle" ELSE "requeue",
            items |-> Tail(fwd.items)]

(* Enqueue again, for each of them: enabled, subscribers, append.          *)
FwdRequeue ==
    /\ fwd.pc = "requeue"
    /\ subs' = IF enabled THEN Offered(Head(fwd.items)) ELSE subs
    /\ fwd' = IF enabled /\ Open = {} THEN [fwd EXCEPT !.pc = "append"] ELSE FwdRest
    /\ lost' = IF ~enabled \/ (Open # {} /\ NobodyHasRoom)
               THEN lost \cup {Head(fwd.items)} ELSE lost
    /\ UNCHANGED <<mgrVars, enabled, items, home, envVars, events>>

FwdAppend ==
    /\ fwd.pc = "append"
    /\ items' = Enqueued(Head(fwd.items))
    /\ lost' = lost \cup Pruned
    /\ fwd' = FwdRest
    /\ UNCHANGED <<mgrVars, enabled, subs, home, envVars, events>>

-----------------------------------------------------------------------------
Dispatcher == Take \/ Offer \/ AppendItem

Forwarder ==
    \/ FwdPop \/ FwdPush \/ FwdRequeue \/ FwdAppend
    \/ \E received \in BOOLEAN : FwdPushFails(received)

=============================================================================
