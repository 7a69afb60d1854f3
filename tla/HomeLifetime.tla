---------------------------- MODULE HomeLifetime ----------------------------
(* The supervisor of the connection to Home: a chain of client lifetimes,    *)
(* each with a configuration worker that publishes it for dispatches, a      *)
(* registry of executions and a release flusher that outlive a lifetime when *)
(* Home lets the next one take the membership over, and are drained and      *)
(* replaced when that is not safe.                                           *)
(*                                                                           *)
(* The registry and the flusher appear with what ExecutionRegistry and       *)
(* ReleaseAccounting promise: Drain and WaitPending return when nothing is   *)
(* left, or time out; a marked release is sent until it is answered.         *)
EXTENDS Naturals, FiniteSets

CONSTANTS
    Requests,   \* requests that need a credential of Home
    MaxLives,   \* bound: client lifetimes
    MaxFaults,  \* bound: failures of the connection and of Home
    Nobody

ASSUME LifetimeAssumption ==
    MaxLives \in Nat \ {0} /\ MaxFaults \in Nat /\ Nobody \notin Nat

Lives == 1..MaxLives

VARIABLES
    sup,        \* where runHomeSubscriber stands
    life,       \* the client of this lifetime
    regno,      \* the registry (and flusher) at hand
    shut,       \* Drain has been called on it
    sink,       \* the registry hands its releases to the flusher
    releasing,  \* the flusher's Run is at work for this lifetime
    ended,      \* lifetimeCancel has been called
    refused,    \* how Home refused the subscription
    failed,     \* the supervisor gave up and cancelled the service
    orderly,    \* the last Drain and Flush succeeded
    fenced,     \* clients whose dispatches are fenced
    ambiguous,  \* clients with a dispatch of unknown outcome
    beating,    \* clients with heartbeatOK
    eligible,   \* recoveryState: the membership may be taken over
    legacy,     \* the chain of clients uses the legacy protocol
    held,       \* at Home: requests that occupy a slot of this instance
    known,      \* Home has a membership of this instance
    faults,     \* failures so far
    cancelled,  \* homeCtx
    worker,     \* where the configuration worker stands
    bundle,     \* HomeDispatchBundle, or Nobody
    req,        \* pickViaHome, with the bundle it loaded
    marked      \* the flusher's releases that Home has not answered

supVars    == <<sup, life, regno, shut, sink, releasing, ended, refused,
                failed, orderly>>
clientVars == <<fenced, ambiguous, beating, eligible, legacy>>
homeVars   == <<held, known, faults>>
vars       == <<supVars, clientVars, homeVars, cancelled, worker, bundle, req,
                marked>>

SupStages == {"start", "get", "subscribe", "probe", "serve", "join", "detach",
              "close", "settle", "judge", "unsafe", "next", "drain", "flush",
              "last", "lastDrain", "done"}
ReqStages == {"idle", "begin", "fence", "rpop", "install", "abort", "end",
              "running", "gone"}

(* The types of the variables, those of the flags first. A client that is      *)
(* fenced does not beat.                                                    *)
FlagsOK ==
    /\ shut \in BOOLEAN /\ sink \in BOOLEAN /\ releasing \in BOOLEAN
    /\ ended \in BOOLEAN /\ failed \in BOOLEAN /\ orderly \in BOOLEAN
    /\ eligible \in BOOLEAN /\ legacy \in BOOLEAN /\ known \in BOOLEAN
    /\ cancelled \in BOOLEAN

TypeOK ==
    /\ sup \in SupStages /\ life \in Lives /\ regno \in Nat \ {0}
    /\ FlagsOK
    /\ refused \in {"no", "takeover", "protocol"}
    /\ fenced \subseteq Lives /\ ambiguous \subseteq fenced
    /\ beating \subseteq Lives \ fenced
    /\ held \subseteq Requests /\ faults \in 0..MaxFaults
    /\ worker \in {"off", "wait", "stage", "publish", "store", "serve", "done",
                  "closing"}
    /\ bundle \in [life : Lives, reg : Nat] \cup {Nobody}
    /\ req \in [Requests -> [pc : ReqStages, life : Lives, reg : Nat]]
    /\ marked \subseteq Requests

Init ==
    /\ sup = "start" /\ life = 1 /\ regno = 1 /\ shut = FALSE /\ sink = TRUE
    /\ releasing = FALSE /\ ended = FALSE /\ refused = "no"
    /\ failed = FALSE /\ orderly = FALSE
    /\ fenced = {} /\ ambiguous = {} /\ beating = {}
    /\ eligible = FALSE /\ legacy = FALSE
    /\ held = {} /\ known = FALSE /\ faults = 0
    /\ cancelled = FALSE /\ worker = "off" /\ bundle = Nobody
    /\ req = [r \in Requests |-> [pc |-> "idle", life |-> 1, reg |-> 1]]
    /\ marked = {}

Pending == {r \in Requests : req[r].pc \in {"fence", "rpop", "install",
                                            "abort", "end"}}
Running == {r \in Requests : req[r].pc = "running"}
IsShut(k) == k < regno \/ shut

Fault == faults < MaxFaults /\ faults' = faults + 1

-----------------------------------------------------------------------------
(* RunConfigSubscriberLifetime, in the supervisor's goroutine.              *)

(* The head of the loop: a client for this lifetime, the flusher's Run and   *)
(* the configuration worker.                                                *)
StartLifetime ==
    /\ sup = "start" /\ ~cancelled
    /\ sup' = "get" /\ releasing' = TRUE /\ ended' = FALSE /\ refused' = "no"
    /\ worker' = "wait"
    /\ UNCHANGED <<life, regno, shut, sink, failed, orderly, clientVars,
                   homeVars, cancelled, bundle, req, marked>>

(* homeCtx is done before a lifetime starts: the loop is left.              *)
LeaveLoop ==
    /\ sup = "start" /\ cancelled
    /\ sup' = "last"
    /\ UNCHANGED <<life, regno, shut, sink, releasing, ended, refused, failed,
                   orderly, clientVars, homeVars, cancelled, worker, bundle,
                   req, marked>>

GetConfig ==
    /\ sup = "get"
    /\ sup' = "subscribe"
    /\ UNCHANGED <<life, regno, shut, sink, releasing, ended, refused, failed,
                   orderly, clientVars, homeVars, cancelled, worker, bundle,
                   req, marked>>

(* The lifetime ends with an error; lifetimeCancel follows.                 *)
EndLifetime(why) ==
    /\ sup' = "join" /\ ended' = TRUE /\ refused' = why
    /\ beating' = beating \ {life}
    /\ UNCHANGED <<life, regno, shut, sink, releasing, failed, orderly>>

Takeover == eligible /\ ~legacy

(* External: Home commits a subscription. Without takeover it starts the      *)
(* instance from zero.                                                      *)
HomeCommits ==
    /\ known' = TRUE
    /\ held' = IF Takeover THEN held ELSE {}

(* Home has committed and the acknowledgement arrives.                       *)
Subscribe ==
    /\ sup = "subscribe" /\ (Takeover => known)
    /\ HomeCommits
    /\ sup' = "probe"
    /\ eligible' = TRUE
    /\ UNCHANGED <<life, regno, shut, sink, releasing, ended, refused, failed,
                   orderly, fenced, ambiguous, beating, legacy, faults,
                   cancelled, worker, bundle, req, marked>>

(* A failure before the acknowledgement; Home may have committed.           *)
SubscribeFails ==
    /\ sup \in {"get", "subscribe"}
    /\ Fault \/ (cancelled /\ UNCHANGED faults)
    /\ \/ UNCHANGED <<held, known>>
       \/ sup = "subscribe" /\ (Takeover => known) /\ HomeCommits
    /\ EndLifetime("no")
    /\ UNCHANGED <<fenced, ambiguous, eligible, legacy, cancelled, worker,
                   bundle, req, marked>>

(* Home does not know the membership any more.                              *)
TakeoverRefused ==
    /\ sup = "subscribe" /\ Takeover /\ ~known
    /\ EndLifetime("takeover")
    /\ UNCHANGED <<fenced, ambiguous, eligible, legacy, homeVars, cancelled,
                   worker, bundle, req, marked>>

(* A Home of an older version does not accept the instance's identity.      *)
ProtocolRefused ==
    /\ sup = "subscribe" /\ ~legacy /\ Fault
    /\ EndLifetime("protocol")
    /\ UNCHANGED <<fenced, ambiguous, eligible, legacy, held, known, cancelled,
                   worker, bundle, req, marked>>

(* rebuildCommandPoolAndProbe, heartbeatOK and onReady.                     *)
Probe ==
    /\ sup = "probe"
    /\ sup' = "serve" /\ eligible' = FALSE
    /\ beating' = beating \cup {life}
    /\ worker' = IF worker = "wait" THEN "stage" ELSE worker
    /\ UNCHANGED <<life, regno, shut, sink, releasing, ended, refused, failed,
                   orderly, fenced, ambiguous, legacy, homeVars, cancelled,
                   bundle, req, marked>>

ProbeFails ==
    /\ sup = "probe"
    /\ Fault \/ (cancelled /\ UNCHANGED faults)
    /\ EndLifetime("no")
    /\ UNCHANGED <<fenced, ambiguous, eligible, legacy, held, known, cancelled,
                   worker, bundle, req, marked>>

(* Mutant: the membership is marked for takeover only after an expired       *)
(* context.                                                                 *)
ConnectionLostUnmarked ==
    /\ sup = "serve"
    /\ Fault \/ ((cancelled \/ life \in fenced) /\ UNCHANGED faults)
    /\ eligible' = (eligible \/ (cancelled /\ life \in beating))
    /\ EndLifetime("no")
    /\ UNCHANGED <<fenced, ambiguous, legacy, held, known, cancelled, worker,
                   bundle, req, marked>>

(* The subscription is lost, or closed with the client by                    *)
(* AbortAmbiguousDispatch, or its context ends.                             *)
ConnectionLost ==
    /\ sup = "serve"
    /\ Fault \/ ((cancelled \/ life \in fenced) /\ UNCHANGED faults)
    /\ eligible' = (eligible \/ (~cancelled /\ life \in beating))
    /\ EndLifetime("no")
    /\ UNCHANGED <<fenced, ambiguous, legacy, held, known, cancelled, worker,
                   bundle, req, marked>>

(* External: while this instance is not connected, Home gives its membership *)
(* up.                                                                      *)
HomeForgets ==
    /\ sup \notin {"probe", "serve"} /\ known /\ Fault
    /\ known' = FALSE /\ held' = {}
    /\ UNCHANGED <<supVars, clientVars, cancelled, worker, bundle, req, marked>>

-----------------------------------------------------------------------------
(* runHomeConfigWorker. A configuration is staged, committed and applied;     *)
(* the first one of a lifetime publishes it.                                *)

LifetimeDone == ended \/ cancelled

WorkerStages ==
    /\ worker = "stage" /\ ~LifetimeDone
    /\ worker' = "publish"
    /\ UNCHANGED <<supVars, clientVars, homeVars, cancelled, bundle, req, marked>>

(* publish looks at both contexts, and stores the bundle afterwards.        *)
PublishCheck ==
    /\ worker = "publish" /\ ~LifetimeDone
    /\ worker' = "store"
    /\ UNCHANGED <<supVars, clientVars, homeVars, cancelled, bundle, req, marked>>

PublishHomeDispatch ==
    /\ worker = "store"
    /\ bundle' = [life |-> life, reg |-> regno]
    /\ worker' = "serve"
    /\ UNCHANGED <<supVars, clientVars, homeVars, cancelled, req, marked>>

(* Mutant: a worker that waits for ready does not look at the context.      *)
WorkerEndsIfReady ==
    /\ worker \in {"stage", "publish", "serve"} /\ LifetimeDone
    /\ worker' = IF worker = "stage" THEN "done" ELSE "closing"
    /\ UNCHANGED <<supVars, clientVars, homeVars, cancelled, bundle, req, marked>>

(* The worker returns; what closes the client may stay behind.              *)
WorkerEnds ==
    /\ worker \in {"wait", "stage", "publish", "serve"} /\ LifetimeDone
    /\ worker' = IF worker \in {"wait", "stage"} THEN "done" ELSE "closing"
    /\ UNCHANGED <<supVars, clientVars, homeVars, cancelled, bundle, req, marked>>

(* closeHomeClientOnCancellation, beside a finalization. Nobody waits for it, *)
(* and its select may take the context although stop is closed as well.      *)
CloseOnCancellation ==
    /\ worker \in {"publish", "store", "serve", "closing"} /\ LifetimeDone
    /\ fenced' = fenced \cup {life} /\ beating' = beating \ {life}
    /\ UNCHANGED <<supVars, ambiguous, eligible, legacy, homeVars, cancelled,
                   worker, bundle, req, marked>>

(* commitHomeConfig or applyConfigRuntime returns false in a lifetime that goes *)
(* on: the configuration is invalid, a later commit overtakes it, or a server  *)
(* does not stop in time. The worker returns, and nothing restarts it; what is *)
(* published by then stays so.                                              *)
ConfigRefused ==
    /\ worker \in {"stage", "serve"} /\ ~LifetimeDone
    /\ worker' = IF worker = "stage" THEN "done" ELSE "closing"
    /\ UNCHANGED <<supVars, clientVars, homeVars, cancelled, bundle, req, marked>>

Working == WorkerStages \/ PublishCheck \/ PublishHomeDispatch \/ WorkerEnds

-----------------------------------------------------------------------------
(* runHomeSubscriber after the lifetime.                                    *)

Advance(stage) ==
    /\ sup' = stage
    /\ UNCHANGED <<life, regno, ended, refused>>

(* Mutant: the worker is not waited for.                                    *)
JoinNobody ==
    /\ sup = "join"
    /\ Advance("detach")
    /\ UNCHANGED <<shut, sink, releasing, failed, orderly, clientVars, homeVars,
                   cancelled, worker, bundle, req, marked>>

Join ==
    /\ sup = "join" /\ worker \in {"done", "closing"}
    /\ Advance("detach")
    /\ UNCHANGED <<shut, sink, releasing, failed, orderly, clientVars, homeVars,
                   cancelled, worker, bundle, req, marked>>

(* detachHomeSubscriberLifetime, and the choice between retry and the end.  *)
Detach ==
    /\ sup = "detach"
    /\ bundle' = IF bundle = [life |-> life, reg |-> regno] THEN Nobody
                 ELSE bundle
    /\ Advance(IF cancelled THEN "drain" ELSE "close")
    /\ shut' = (shut \/ cancelled)
    /\ UNCHANGED <<sink, releasing, failed, orderly, clientVars, homeVars,
                   cancelled, worker, req, marked>>

(* The release loop is stopped and the client closed.                       *)
CloseClient ==
    /\ sup = "close"
    /\ releasing' = FALSE
    /\ fenced' = fenced \cup {life} /\ beating' = beating \ {life}
    /\ Advance("settle")
    /\ UNCHANGED <<shut, sink, failed, orderly, ambiguous, eligible, legacy,
                   homeVars, cancelled, worker, bundle, req, marked>>

(* Mutant: pending dispatches are not waited for.                           *)
SettleNobody ==
    /\ sup = "settle"
    /\ Advance("judge")
    /\ UNCHANGED <<shut, sink, releasing, failed, orderly, clientVars, homeVars,
                   cancelled, worker, bundle, req, marked>>

(* WaitPending                                                              *)
Settle ==
    /\ sup = "settle" /\ Pending = {}
    /\ Advance("judge")
    /\ UNCHANGED <<shut, sink, releasing, failed, orderly, clientVars, homeVars,
                   cancelled, worker, bundle, req, marked>>

(* A bounded wait has timed out: the service is cancelled.                  *)
GiveUp ==
    /\ sup \in {"settle", "unsafe", "drain", "flush"}
    /\ Advance("last")
    /\ failed' = TRUE /\ cancelled' = TRUE
    /\ releasing' = FALSE
    /\ fenced' = fenced \cup {life} /\ beating' = beating \ {life}
    /\ UNCHANGED <<shut, sink, orderly, ambiguous, eligible, legacy, homeVars,
                   worker, bundle, req, marked>>

(* Mutant: a refused takeover is retried like a lost connection.            *)
UnsafeIfAmbiguous ==
    life \in ambiguous \/ refused = "protocol" \/ legacy

Unsafe ==
    life \in ambiguous \/ refused # "no" \/ legacy

(* The decision whether the executions survive the lifetime.                *)
Judge ==
    /\ sup = "judge"
    /\ legacy' = (legacy \/ refused = "protocol")
    /\ eligible' = (eligible /\ refused # "protocol")
    /\ IF Unsafe
       THEN Advance("unsafe") /\ sink' = FALSE /\ shut' = TRUE
       ELSE Advance("next") /\ UNCHANGED <<sink, shut>>
    /\ UNCHANGED <<releasing, failed, orderly, fenced, ambiguous, beating,
                   homeVars, cancelled, worker, bundle, req, marked>>

(* Mutant: the old registry is left to itself.                              *)
ReplaceUndrained ==
    /\ sup = "unsafe"
    /\ sup' = "next" /\ regno' = regno + 1
    /\ shut' = FALSE /\ sink' = TRUE /\ marked' = {}
    /\ eligible' = FALSE
    /\ UNCHANGED <<life, releasing, ended, refused, failed, orderly, fenced,
                   ambiguous, beating, legacy, homeVars, cancelled, worker,
                   bundle, req>>

(* Drain has returned; SuppressTakeover, a new registry and a new flusher.  *)
Replace ==
    /\ sup = "unsafe" /\ Pending = {} /\ Running = {}
    /\ sup' = "next" /\ regno' = regno + 1
    /\ shut' = FALSE /\ sink' = TRUE /\ marked' = {}
    /\ eligible' = FALSE
    /\ UNCHANGED <<life, releasing, ended, refused, failed, orderly, fenced,
                   ambiguous, beating, legacy, homeVars, cancelled, worker,
                   bundle, req>>

(* The wait before a retry, and NewLifetime. Closing the old client again     *)
(* would change nothing.                                                    *)
NextLifetime ==
    /\ sup = "next" /\ life < MaxLives
    /\ sup' = "start" /\ life' = life + 1
    /\ worker' = "done"
    /\ UNCHANGED <<regno, shut, sink, releasing, ended, refused, failed,
                   orderly, clientVars, homeVars, cancelled, bundle, req,
                   marked>>

(* The end without a retry: Drain, Flush, then the release loop and the       *)
(* client.                                                                  *)
Drained ==
    /\ sup = "drain" /\ Pending = {} /\ Running = {}
    /\ Advance("flush")
    /\ UNCHANGED <<shut, sink, releasing, failed, orderly, clientVars, homeVars,
                   cancelled, worker, bundle, req, marked>>

(* Mutant: Flush is not waited for.                                         *)
FlushedAtOnce ==
    /\ sup = "flush"
    /\ Advance("last")
    /\ orderly' = TRUE /\ releasing' = FALSE
    /\ fenced' = fenced \cup {life} /\ beating' = beating \ {life}
    /\ UNCHANGED <<shut, sink, failed, ambiguous, eligible, legacy, homeVars,
                   cancelled, worker, bundle, req, marked>>

Flushed ==
    /\ sup = "flush" /\ marked = {}
    /\ Advance("last")
    /\ orderly' = TRUE /\ releasing' = FALSE
    /\ fenced' = fenced \cup {life} /\ beating' = beating \ {life}
    /\ UNCHANGED <<shut, sink, failed, ambiguous, eligible, legacy, homeVars,
                   cancelled, worker, bundle, req, marked>>

(* The deferred SetReleaseSink(nil) and Drain, on every way out.            *)
Return ==
    /\ sup = "last"
    /\ Advance("lastDrain")
    /\ shut' = TRUE /\ sink' = FALSE
    /\ UNCHANGED <<releasing, failed, orderly, clientVars, homeVars, cancelled,
                   worker, bundle, req, marked>>

(* It returns or times out, and the supervisor is done.                     *)
LastDrain ==
    /\ sup = "lastDrain"
    /\ Advance("done")
    /\ \/ Pending = {} /\ Running = {} /\ UNCHANGED <<failed, cancelled>>
       \/ failed' = TRUE /\ cancelled' = TRUE
    /\ UNCHANGED <<shut, sink, releasing, orderly, clientVars, homeVars, worker,
                   bundle, req, marked>>

(* Shutdown, or the end of the context of Run.                              *)
Shutdown ==
    /\ ~cancelled
    /\ cancelled' = TRUE
    /\ UNCHANGED <<supVars, clientVars, homeVars, worker, bundle, req, marked>>

Subscribing ==
    \/ StartLifetime \/ LeaveLoop \/ GetConfig \/ Subscribe \/ SubscribeFails
    \/ TakeoverRefused \/ ProtocolRefused \/ Probe \/ ProbeFails
    \/ ConnectionLost

Supervising ==
    \/ Join \/ Detach \/ CloseClient \/ Settle \/ GiveUp \/ Judge \/ Replace
    \/ NextLifetime \/ Drained \/ Flushed \/ Return \/ LastDrain

-----------------------------------------------------------------------------
(* pickViaHome, and the execution it leads to.                              *)

Goto(r, pc) == req' = [req EXCEPT ![r].pc = pc]

UnchangedByRequest == UNCHANGED <<supVars, cancelled, worker, bundle>>

(* The bundle is loaded and its heartbeat looked at.                        *)
Pick(r) ==
    /\ req[r].pc = "idle" /\ bundle # Nobody
    /\ bundle.life \in beating
    /\ req' = [req EXCEPT ![r] = [pc |-> "begin", life |-> bundle.life,
                                  reg |-> bundle.reg]]
    /\ UNCHANGED <<clientVars, homeVars, marked>> /\ UnchangedByRequest

BeginDispatch(r) ==
    /\ req[r].pc = "begin"
    /\ Goto(r, IF IsShut(req[r].reg) THEN "gone" ELSE "fence")
    /\ UNCHANGED <<clientVars, homeVars, marked>> /\ UnchangedByRequest

(* The last look at dispatchFenced in RPopAuth.                             *)
CheckFence(r) ==
    /\ req[r].pc = "fence"
    /\ Goto(r, IF req[r].life \in fenced THEN "end" ELSE "rpop")
    /\ UNCHANGED <<clientVars, homeVars, marked>> /\ UnchangedByRequest

(* At Home: the slots after a dispatch that it has granted.                 *)
WithSlot(r) == IF known THEN held \cup {r} ELSE held

(* Home grants a credential and the answer arrives.                         *)
Granted(r) ==
    /\ req[r].pc = "rpop"
    /\ held' = WithSlot(r)
    /\ Goto(r, "install")
    /\ UNCHANGED <<clientVars, known, faults, marked>> /\ UnchangedByRequest

(* Home answers that it has none, or with an error, or the ping before the    *)
(* request fails.                                                           *)
NotFound(r) ==
    /\ req[r].pc = "rpop"
    /\ Goto(r, "end")
    /\ UNCHANGED <<clientVars, homeVars, marked>> /\ UnchangedByRequest

(* The answer is lost, or the caller hangs up before it arrives: Home may or *)
(* may not have granted a credential.                                       *)
Unanswered(r) ==
    /\ req[r].pc = "rpop"
    /\ held' \in {held, WithSlot(r)}
    /\ Goto(r, "abort")
    /\ UNCHANGED <<clientVars, known, faults, marked>> /\ UnchangedByRequest

(* installHomeConcurrencyScope                                              *)
Install(r) ==
    /\ req[r].pc = "install"
    /\ Goto(r, IF IsShut(req[r].reg) THEN "abort" ELSE "running")
    /\ UNCHANGED <<clientVars, homeVars, marked>> /\ UnchangedByRequest

(* AbortAmbiguousDispatch, before the dispatch is taken off the registry.   *)
AbortAmbiguousDispatch(r) ==
    /\ req[r].pc = "abort"
    /\ ambiguous' = ambiguous \cup {req[r].life}
    /\ fenced' = fenced \cup {req[r].life}
    /\ beating' = beating \ {req[r].life}
    /\ Goto(r, "end")
    /\ UNCHANGED <<eligible, legacy, homeVars, marked>> /\ UnchangedByRequest

EndPending(r) ==
    /\ req[r].pc = "end"
    /\ Goto(r, "gone")
    /\ UNCHANGED <<clientVars, homeVars, marked>> /\ UnchangedByRequest

(* The execution ends, by itself or cancelled by Drain.                     *)
EndWithRelease(r) ==
    /\ req[r].pc = "running"
    /\ marked' = IF sink THEN marked \cup {r} ELSE marked
    /\ Goto(r, "gone")
    /\ UNCHANGED <<clientVars, homeVars>> /\ UnchangedByRequest

(* The flusher sends a release over this lifetime's client; the answer can    *)
(* be lost.                                                                 *)
PushConcurrencyRelease(r) ==
    /\ releasing /\ r \in marked /\ life \notin fenced /\ ~eligible
    /\ held' = held \ {r}
    /\ \/ marked' = marked \ {r} /\ UNCHANGED faults
       \/ Fault /\ UNCHANGED marked
    /\ UNCHANGED <<clientVars, known, req>> /\ UnchangedByRequest

Dispatching(r) ==
    \/ BeginDispatch(r) \/ CheckFence(r)
    \/ Granted(r) \/ NotFound(r) \/ Unanswered(r)
    \/ Install(r) \/ AbortAmbiguousDispatch(r) \/ EndPending(r)

-----------------------------------------------------------------------------
Next ==
    \/ Subscribing \/ Supervising \/ Working \/ CloseOnCancellation
    \/ ConfigRefused \/ HomeForgets \/ Shutdown
    \/ \E r \in Requests :
          Pick(r) \/ Dispatching(r) \/ EndWithRelease(r)
          \/ PushConcurrencyRelease(r)

Spec == Init /\ [][Next]_vars

(* The goroutines of the supervisor, the worker and the requests go on: calls *)
(* of the client have timeouts, and so have the waits of the supervisor.      *)
(* Nothing is assumed of the length of an execution.                        *)
LiveSpec ==
    /\ Spec
    /\ WF_vars(Subscribing) /\ WF_vars(Supervising) /\ WF_vars(Working)
    /\ \A r \in Requests : WF_vars(Dispatching(r))

-----------------------------------------------------------------------------
(* Properties.                                                              *)

Accounted(r) ==
    \/ req[r].pc \in {"rpop", "install", "abort", "running"}
       /\ req[r].reg = regno
    \/ r \in marked

(* While a lifetime serves, Home has a slot for every execution: when its     *)
(* counts start from zero, no execution of an earlier lifetime is left.      *)
ExecutionsAreCounted ==
    sup = "serve" => Running \subseteq held

(* While a lifetime serves without an ambiguous dispatch, every slot that     *)
(* Home holds will be given back: it belongs to a dispatch or an execution of *)
(* the registry at hand, or its release is marked.                          *)
NoSlotLeaks ==
    sup = "serve" /\ life \notin ambiguous => \A r \in held : Accounted(r)

(* No execution outlives the supervision of its registry, unless the service *)
(* was cancelled because a Drain has timed out.                             *)
NoOrphans ==
    \A r \in Running : failed \/ (req[r].reg = regno /\ sup # "done")

(* What dispatches find published is the lifetime at hand, with a registry    *)
(* that accepts them; until the lifetime ends, only an ambiguous dispatch can *)
(* have fenced its client.                                                  *)
PublishedIsCurrent ==
    bundle # Nobody =>
       /\ bundle = [life |-> life, reg |-> regno] /\ ~shut
       /\ life \in fenced => life \in ambiguous \/ LifetimeDone

(* After an orderly end Home holds no slot of the registry that was drained,  *)
(* except one granted by an ambiguous dispatch.                             *)
OrderlyEndReleasesAll ==
    orderly => \A r \in held : req[r].reg < regno \/ req[r].life \in ambiguous

(* A connected lifetime whose worker has returned before it published.      *)
Unapplied == sup = "serve" /\ worker = "done"

(* A lost lifetime is replaced: again and again one is published, unless the  *)
(* service is told to stop or the lifetime that is connected could not apply  *)
(* its first configuration; that one is replaced when its connection is lost. *)
Reconnects == []<>(bundle # Nobody \/ cancelled \/ Unapplied)

(* Shutdown ends the supervisor, wherever it stands.                        *)
ShutdownEnds == cancelled ~> (sup = "done")

-----------------------------------------------------------------------------
(* What the safety properties need besides themselves. Together with TypeOK  *)
(* these parts are inductive.                                               *)

Connecting == {"start", "get", "subscribe", "probe"}

(* A request that has loaded a bundle has the client of this lifetime, or one *)
(* that is fenced; a new client is not fenced, and no request has it before   *)
(* it is published.                                                         *)
LifeInv ==
    /\ fenced \subseteq 1..life
    /\ \A r \in Requests :
          /\ req[r].life <= life /\ req[r].reg <= regno
          /\ req[r].pc # "idle" =>
                (sup \notin Connecting /\ req[r].life = life)
                \/ req[r].life \in fenced
    /\ sup \in {"settle", "judge", "unsafe", "next"} => life \in fenced
    /\ sup \in Connecting =>
          \A r \in Requests : req[r].pc # "idle" => req[r].life < life
    /\ sup \in Connecting => life \notin fenced

(* A dispatch that may reach Home and an execution belong to this lifetime    *)
(* and this registry; from the settling to the next publication there is no   *)
(* such dispatch.                                                           *)
DispatchInv ==
    /\ \A r \in Requests :
          /\ r \in Pending \cup Running => req[r].reg = regno
          /\ req[r].pc \in {"rpop", "install", "abort"} =>
                /\ req[r].life = life
                /\ sup \notin Connecting \cup {"judge", "unsafe", "next"}
    /\ sup = "flush" \/ orderly => Pending = {} /\ Running = {}

(* The worker ends with its lifetime, and its publication does not outlive it.*)
WorkerInv ==
    /\ sup = "start" => worker \in {"off", "done"}
    /\ sup \in {"get", "subscribe", "probe"} => worker \in {"wait", "done"}
    /\ sup \notin Connecting \cup {"serve", "join"}
          => worker \in {"off", "done", "closing"}
    /\ sup \in {"get", "subscribe", "probe", "serve"} => ~ended
    /\ bundle # Nobody =>
          /\ bundle = [life |-> life, reg |-> regno]
          /\ sup \in {"serve", "join", "detach"}
          /\ worker \in {"serve", "closing"}
    /\ sup \in {"serve", "join", "detach"} /\ life \in fenced
          => life \in ambiguous \/ LifetimeDone

(* The registry at hand accepts work until it is drained, and its releases    *)
(* are marked as long as they will be sent.                                 *)
ShutInv ==
    /\ shut => sup \in {"unsafe", "drain", "flush", "last", "lastDrain", "done"}
    /\ sup \in {"drain", "flush", "lastDrain", "done"} \/ orderly => shut
    /\ ~sink => sup \in {"unsafe", "last", "lastDrain", "done"}
    /\ orderly => sup \in {"last", "lastDrain", "done"}

Live == {r \in Requests : req[r].pc \in {"install", "running"}}

(* Whether the next lifetime will ask for a takeover, start from zero with    *)
(* nothing left running, or be preceded by a drain.                         *)
Prepared ==
    \/ eligible \/ life \in ambiguous \/ refused # "no" \/ legacy
    \/ /\ Running = {} /\ worker \in {"wait", "done"} /\ bundle = Nobody
       /\ \A r \in Requests : req[r].pc # "idle" => req[r].life \in fenced
       /\ \A r \in Requests : req[r].pc \notin {"rpop", "install", "abort"}

(* A membership that Home knows has a slot for every execution.             *)
CountInv ==
    /\ known => Live \subseteq held
    /\ sup \in {"probe", "serve"} => known
    /\ sup = "probe" => eligible
    /\ sup = "serve" => life \in beating \/ life \in ambiguous \/ cancelled
    /\ sup \in {"next", "start", "get", "subscribe"} => Takeover \/ Running = {}
    /\ sup \in {"join", "detach"} => cancelled \/ Prepared
    /\ sup \in {"close", "settle", "judge"} => Prepared

(* A slot is that of a request that was granted one. It is accounted for if   *)
(* the membership may be taken over, and in any case it is marked or in use   *)
(* unless it is of an earlier registry or an ambiguous lifetime.            *)
SlotInv ==
    /\ \A r \in marked : req[r].pc = "gone"
    /\ \A r \in held : req[r].pc \in {"install", "abort", "end", "running", "gone"}
    /\ \A r \in held :
          \/ req[r].reg < regno \/ req[r].life \in ambiguous
          \/ r \in marked \/ ~sink \/ req[r].pc \in {"install", "abort", "running"}
    /\ sup = "probe" => \A r \in held : Accounted(r)
    /\ sup \in {"next", "start", "get", "subscribe"} /\ Takeover
          => \A r \in held : Accounted(r)
    /\ sup \in {"serve", "join", "detach", "close", "settle", "judge"}
          => \/ \A r \in held : Accounted(r)
             \/ life \in ambiguous
             \/ sup # "serve" /\ ~Takeover

IndInv ==
    /\ TypeOK /\ LifeInv /\ DispatchInv /\ WorkerInv /\ ShutInv /\ CountInv
    /\ SlotInv /\ NoOrphans /\ OrderlyEndReleasesAll

=============================================================================
