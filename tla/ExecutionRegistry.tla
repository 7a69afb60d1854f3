------------------------- MODULE ExecutionRegistry -------------------------
(***************************************************************************)
(* The registry of Home-dispatched executions of one subscriber lifetime   *)
(* (sdk/cliproxy/executionregistry).  A request thread reserves a dispatch *)
(* (BeginDispatch), installs it as a scope when Home answers (Install),    *)
(* binds the resource the execution uses (Bind) and ends the scope         *)
(* (EndWithRelease).  Drain and Close run beside it, the snapshot          *)
(* publisher freezes the scopes, and a sink hears of every release.        *)
(*                                                                         *)
(* The lifecycle state is an atomic that Drain and Close change without    *)
(* the mutex r.mu, so the critical sections that read it and then write    *)
(* (BeginDispatch, Install, Bind) are two steps, the first of which takes  *)
(* the mutex; the critical sections that only touch data under r.mu are    *)
(* one step that needs the mutex to be free.                               *)
(***************************************************************************)
EXTENDS Integers

CONSTANTS
    Groups,        \* release groups: a credential and a model
    Unaccounted,   \* the spec of a scope Home does not account
    Drainers,      \* threads that may call Drain
    MaxDispatch,   \* bound on r.next
    MaxBarrier,    \* bound on the observation barriers Home announces
    MaxRevision    \* bound on r.snapshotRevision

ASSUME RegistryAssumption ==
    /\ Unaccounted \notin Groups
    /\ MaxDispatch \in Nat
    /\ MaxBarrier \in Nat
    /\ MaxRevision \in Nat

Token == 1..MaxDispatch      \* a dispatch keeps its id when it becomes a scope
Free == 0                    \* r.mu is not held

VARIABLES
    state,        \* r.state
    mu,           \* holder of r.mu across a check-then-write section, or Free
    next,         \* r.next
    pending,      \* keys of r.pending
    scopes,       \* keys of r.scopes
    pc,           \* where the thread that owns a dispatch stands
    spec,         \* scope.spec: its release group, or Unaccounted
    res,          \* the bound resource: closeFn, closeDone and the closing goroutine
    releaseSeq,   \* r.releaseSequences
    rel,          \* sequence number that EndWithRelease drew for a scope
    live,         \* the sink EndWithRelease read is the one now installed
    sink,         \* r.releaseSink is not nil
    replay,       \* sequences SetReleaseSink still has to hand to the sink
    handed,       \* what the installed sink has been called with
    drain,        \* where each caller of Drain stands
    drainSet,     \* scopes Drain copied and has not yet asked to close
    closer,       \* where Close stands
    closeSet,     \* scopes Close copied and has not yet seen closed
    waiter,       \* where the caller of WaitPending stands
    observedBarrier, pendingBarrierSequence, publishedBarrier,
    snapshotRevision,
    frozen,       \* the last Freeze: its barrier and its executions
    observedAt    \* history: r.next when each barrier was observed

ownerVars   == <<pc, spec, res>>
releaseVars == <<releaseSeq, rel, live, sink, replay, handed>>
drainVars   == <<drain, drainSet>>
closeVars   == <<closer, closeSet>>
barrierVars == <<observedBarrier, pendingBarrierSequence, publishedBarrier,
                 snapshotRevision, frozen, observedAt>>
vars == <<state, mu, next, pending, scopes, ownerVars, releaseVars,
          drainVars, closeVars, waiter, barrierVars>>

Phases == {"idle", "beginning", "pending", "installing", "installed", "binding",
           "running", "ending", "closeWait", "marked", "sunk", "ended"}
Resource == {"none", "bound", "closing", "closed"}

Sequence == Nat \ {0}       \* what a sink may be called with

(* Every variable has its type; in particular a sink is never called with  *)
(* the sequence 0 that markReleasedLocked returns for an unaccounted scope *)
(* and that a group has before its first release.                          *)
TypeOK ==
    /\ state \in {"accepting", "draining", "closed"}
    /\ mu \in Token \cup {Free}
    /\ next \in 0..MaxDispatch
    /\ pending \in SUBSET Token
    /\ scopes \in SUBSET Token
    /\ pc \in [Token -> Phases]
    /\ spec \in [Token -> Groups \cup {Unaccounted}]
    /\ res \in [Token -> Resource]
    /\ releaseSeq \in [Groups -> Nat]
    /\ rel \in [Token -> Nat]
    /\ live \in [Token -> BOOLEAN]
    /\ sink \in BOOLEAN
    /\ replay \in SUBSET (Groups \X Sequence)
    /\ handed \in SUBSET (Groups \X Sequence)
    /\ drain \in [Drainers -> {"idle", "switched", "closing", "checking",
                               "sleeping", "woken", "ok"}]
    /\ drainSet \in [Drainers -> SUBSET Token]
    /\ closer \in {"idle", "started", "switched", "closing", "done"}
    /\ closeSet \in SUBSET Token
    /\ waiter \in {"idle", "sleeping", "woken"}
    /\ observedBarrier \in 0..MaxBarrier
    /\ pendingBarrierSequence \in 0..MaxDispatch
    /\ publishedBarrier \in 0..MaxBarrier
    /\ snapshotRevision \in 0..MaxRevision
    /\ frozen \in [barrier : 0..MaxBarrier, executions : SUBSET Token]
    /\ observedAt \in [0..MaxBarrier -> 0..MaxDispatch]

Init ==
    /\ state = "accepting"
    /\ mu = Free
    /\ next = 0
    /\ pending = {}
    /\ scopes = {}
    /\ pc = [t \in Token |-> "idle"]
    /\ spec = [t \in Token |-> Unaccounted]
    /\ res = [t \in Token |-> "none"]
    /\ releaseSeq = [g \in Groups |-> 0]
    /\ rel = [t \in Token |-> 0]
    /\ live = [t \in Token |-> FALSE]
    /\ sink = FALSE
    /\ replay = {}
    /\ handed = {}
    /\ drain = [d \in Drainers |-> "idle"]
    /\ drainSet = [d \in Drainers |-> {}]
    /\ closer = "idle"
    /\ closeSet = {}
    /\ waiter = "idle"
    /\ observedBarrier = 0
    /\ pendingBarrierSequence = 0
    /\ publishedBarrier = 0
    /\ snapshotRevision = 0
    /\ frozen = [barrier |-> 0, executions |-> {}]
    /\ observedAt = [b \in 0..MaxBarrier |-> 0]

-----------------------------------------------------------------------------
(* Mutant: a send to one sleeper in place of the close that wakes them all. *)
signalOne ==
    IF waiter = "sleeping"
    THEN waiter' = "woken" /\ UNCHANGED drain
    ELSE /\ drain' = [d \in Drainers |-> IF drain[d] = "sleeping" THEN "woken"
                                                               ELSE drain[d]]
         /\ UNCHANGED waiter

(* signalLocked closes r.changed: every thread asleep on it wakes.         *)
signalLocked ==
    /\ drain' = [d \in Drainers |-> IF drain[d] = "sleeping" THEN "woken"
                                                            ELSE drain[d]]
    /\ waiter' = IF waiter = "sleeping" THEN "woken" ELSE waiter

(* BeginDispatch, up to its second look at the state.  The id the token    *)
(* will get is next + 1, because r.mu is held until it is drawn.  A        *)
(* refused BeginDispatch changes nothing.                                  *)
BeginDispatch(t) ==
    /\ t = next + 1
    /\ state = "accepting"
    /\ mu = Free
    /\ mu' = t
    /\ pc' = [pc EXCEPT ![t] = "beginning"]
    /\ UNCHANGED <<state, next, pending, scopes, spec, res, releaseVars,
                   drainVars, closeVars, waiter, barrierVars>>

BeginDispatchInsert(t) ==
    /\ pc[t] = "beginning"
    /\ next' = t
    /\ pending' = pending \cup {t}
    /\ mu' = Free
    /\ pc' = [pc EXCEPT ![t] = "pending"]
    /\ UNCHANGED <<state, scopes, spec, res, releaseVars, drainVars,
                   closeVars, waiter, barrierVars>>

(* PendingDispatch.End: Home answered with an error, or with nothing.      *)
PendingEnd(t) ==
    /\ pc[t] = "pending"
    /\ mu = Free
    /\ pending' = pending \ {t}
    /\ signalLocked
    /\ pc' = [pc EXCEPT ![t] = "ended"]
    /\ UNCHANGED <<state, mu, next, scopes, spec, res, releaseVars, drainSet,
                   closeVars, barrierVars>>

(* Install, refused: the reservation is dropped all the same.              *)
InstallRefused(t) ==
    /\ pc[t] = "pending"
    /\ mu = Free
    /\ state # "accepting"
    /\ pending' = pending \ {t}
    /\ signalLocked
    /\ pc' = [pc EXCEPT ![t] = "ended"]
    /\ UNCHANGED <<state, mu, next, scopes, spec, res, releaseVars, drainSet,
                   closeVars, barrierVars>>

Install(t) ==
    /\ pc[t] = "pending"
    /\ mu = Free
    /\ state = "accepting"
    /\ mu' = t
    /\ pc' = [pc EXCEPT ![t] = "installing"]
    /\ UNCHANGED <<state, next, pending, scopes, spec, res, releaseVars,
                   drainVars, closeVars, waiter, barrierVars>>

InstallCommit(t, g) ==
    /\ pc[t] = "installing"
    /\ pending' = pending \ {t}
    /\ scopes' = scopes \cup {t}
    /\ spec' = [spec EXCEPT ![t] = g]
    /\ signalLocked
    /\ mu' = Free
    /\ pc' = [pc EXCEPT ![t] = "installed"]
    /\ UNCHANGED <<state, next, res, releaseVars, drainSet, closeVars,
                   barrierVars>>

(* Bind, refused: newHomeDispatchSelection closes the resource itself and  *)
(* ends the scope, which never owned it.                                   *)
BindRefused(t) ==
    /\ pc[t] = "installed"
    /\ mu = Free
    /\ state # "accepting"
    /\ pc' = [pc EXCEPT ![t] = "running"]
    /\ UNCHANGED <<state, mu, next, pending, scopes, spec, res, releaseVars,
                   drainVars, closeVars, waiter, barrierVars>>

(* Mutant: Bind does not look at the lifecycle state.                      *)
BindUnchecked(t) ==
    /\ pc[t] = "installed"
    /\ mu = Free
    /\ mu' = t
    /\ pc' = [pc EXCEPT ![t] = "binding"]
    /\ UNCHANGED <<state, next, pending, scopes, spec, res, releaseVars,
                   drainVars, closeVars, waiter, barrierVars>>

Bind(t) ==
    /\ pc[t] = "installed"
    /\ mu = Free
    /\ state = "accepting"
    /\ mu' = t
    /\ pc' = [pc EXCEPT ![t] = "binding"]
    /\ UNCHANGED <<state, next, pending, scopes, spec, res, releaseVars,
                   drainVars, closeVars, waiter, barrierVars>>

BindCommit(t) ==
    /\ pc[t] = "binding"
    /\ res' = [res EXCEPT ![t] = "bound"]
    /\ mu' = Free
    /\ pc' = [pc EXCEPT ![t] = "running"]
    /\ UNCHANGED <<state, next, pending, scopes, spec, releaseVars, drainVars,
                   closeVars, waiter, barrierVars>>

-----------------------------------------------------------------------------
(* startBoundResourceClose: the first caller to find a bound resource      *)
(* starts the goroutine that closes it; any other finds closeDone.         *)
startBoundResourceClose(t) ==
    res' = [res EXCEPT ![t] = IF @ = "bound" THEN "closing" ELSE @]

(* Mutant: a wait on the nil channel of a scope that has no resource.      *)
BoundResourceClosedNil(t) == res[t] = "closed"

(* A scope whose resource, if it has one, has finished closing.            *)
BoundResourceClosed(t) == res[t] \in {"none", "closed"}

(* closeFn returned: the closing goroutine closes closeDone.               *)
closeResource(t) ==
    /\ res[t] = "closing"
    /\ res' = [res EXCEPT ![t] = "closed"]
    /\ UNCHANGED <<state, mu, next, pending, scopes, pc, spec, releaseVars,
                   drainVars, closeVars, waiter, barrierVars>>

(* EndWithRelease, first section: the scope stops being active.  A request *)
(* that fails its local checks ends the scope before it binds anything.    *)
EndWithRelease(t) ==
    /\ pc[t] \in {"installed", "running"}
    /\ mu = Free
    /\ pc' = [pc EXCEPT ![t] = "ending"]
    /\ UNCHANGED <<state, mu, next, pending, scopes, spec, res, releaseVars,
                   drainVars, closeVars, waiter, barrierVars>>

(* waitForBoundResourceClose, its first half.                              *)
EndClose(t) ==
    /\ pc[t] = "ending"
    /\ startBoundResourceClose(t)
    /\ pc' = [pc EXCEPT ![t] = "closeWait"]
    /\ UNCHANGED <<state, mu, next, pending, scopes, spec, releaseVars,
                   drainVars, closeVars, waiter, barrierVars>>

(* closeDone is closed: markReleasedLocked draws the cumulative sequence   *)
(* of the scope's group and reads the sink.                                *)
markReleasedLocked(t) ==
    /\ pc[t] = "closeWait"
    /\ BoundResourceClosed(t)
    /\ mu = Free
    /\ IF spec[t] \in Groups
       THEN /\ releaseSeq' = [releaseSeq EXCEPT ![spec[t]] = @ + 1]
            /\ rel' = [rel EXCEPT ![t] = releaseSeq[spec[t]] + 1]
            /\ live' = [live EXCEPT ![t] = sink]
       ELSE UNCHANGED <<releaseSeq, rel, live>>
    /\ pc' = [pc EXCEPT ![t] = "marked"]
    /\ UNCHANGED <<state, mu, next, pending, scopes, spec, res, sink, replay,
                   handed, drainVars, closeVars, waiter, barrierVars>>

(* The sink is called with no lock held, so two scopes of one group may    *)
(* reach it in either order.                                               *)
EndSink(t) ==
    /\ pc[t] = "marked"
    /\ handed' = IF live[t] THEN handed \cup {<<spec[t], rel[t]>>} ELSE handed
    /\ pc' = [pc EXCEPT ![t] = "sunk"]
    /\ UNCHANGED <<state, mu, next, pending, scopes, spec, res, releaseSeq, rel,
                   live, sink, replay, drainVars, closeVars, waiter, barrierVars>>

EndDelete(t) ==
    /\ pc[t] = "sunk"
    /\ mu = Free
    /\ scopes' = scopes \ {t}
    /\ signalLocked
    /\ pc' = [pc EXCEPT ![t] = "ended"]
    /\ UNCHANGED <<state, mu, next, pending, spec, res, releaseVars, drainSet,
                   closeVars, barrierVars>>

-----------------------------------------------------------------------------
(* Mutant: a new sink hears only of the releases still to come.            *)
SetReleaseSinkNoReplay(on) ==
    /\ mu = Free
    /\ sink' = on
    /\ live' = [t \in Token |-> FALSE]
    /\ handed' = {}
    /\ replay' = {}
    /\ UNCHANGED <<state, mu, next, pending, scopes, ownerVars, releaseSeq, rel,
                   drainVars, closeVars, waiter, barrierVars>>

(* SetReleaseSink: the sink is replaced and the sequences it must hear     *)
(* again are copied under r.mu; they are replayed after the unlock.        *)
SetReleaseSink(on) ==
    /\ mu = Free
    /\ sink' = on
    /\ live' = [t \in Token |-> FALSE]
    /\ handed' = {}
    /\ replay' = IF on THEN {<<g, releaseSeq[g]>> :
                                g \in {h \in Groups : releaseSeq[h] > 0}}
                       ELSE {}
    /\ UNCHANGED <<state, mu, next, pending, scopes, ownerVars, releaseSeq, rel,
                   drainVars, closeVars, waiter, barrierVars>>

ReplaySink(g, n) ==
    /\ <<g, n>> \in replay
    /\ replay' = replay \ {<<g, n>>}
    /\ handed' = handed \cup {<<g, n>>}
    /\ UNCHANGED <<state, mu, next, pending, scopes, ownerVars, releaseSeq, rel,
                   live, sink, drainVars, closeVars, waiter, barrierVars>>

-----------------------------------------------------------------------------
(* Drain: the compare-and-swap, made without r.mu.                         *)
Drain(d) ==
    /\ drain[d] = "idle"
    /\ state # "closed"
    /\ state' = "draining"
    /\ drain' = [drain EXCEPT ![d] = "switched"]
    /\ UNCHANGED <<mu, next, pending, scopes, ownerVars, releaseVars, drainSet,
                   closeVars, waiter, barrierVars>>

(* Mutant: Drain copies the scopes without the mutex.                      *)
DrainCopyUnlocked(d) ==
    /\ drain[d] = "switched"
    /\ drainSet' = [drainSet EXCEPT ![d] = scopes]
    /\ drain' = [drain EXCEPT ![d] = "closing"]
    /\ UNCHANGED <<state, mu, next, pending, scopes, ownerVars, releaseVars,
                   closeVars, waiter, barrierVars>>

(* Drain copies the scopes under r.mu ...                                  *)
DrainCopy(d) ==
    /\ drain[d] = "switched"
    /\ mu = Free
    /\ drainSet' = [drainSet EXCEPT ![d] = scopes]
    /\ drain' = [drain EXCEPT ![d] = "closing"]
    /\ UNCHANGED <<state, mu, next, pending, scopes, ownerVars, releaseVars,
                   closeVars, waiter, barrierVars>>

(* ... starts to close the resource of each, without waiting ...           *)
DrainClose(d, t) ==
    /\ drain[d] = "closing"
    /\ t \in drainSet[d]
    /\ startBoundResourceClose(t)
    /\ drainSet' = [drainSet EXCEPT ![d] = @ \ {t}]
    /\ UNCHANGED <<state, mu, next, pending, scopes, pc, spec, releaseVars,
                   drain, closeVars, waiter, barrierVars>>

DrainClosed(d) ==
    /\ drain[d] = "closing"
    /\ drainSet[d] = {}
    /\ drain' = [drain EXCEPT ![d] = "checking"]
    /\ UNCHANGED <<state, mu, next, pending, scopes, ownerVars, releaseVars,
                   drainSet, closeVars, waiter, barrierVars>>

(* ... and sleeps on r.changed until nothing is left.                      *)
DrainCheck(d) ==
    /\ drain[d] \in {"checking", "woken"}
    /\ mu = Free
    /\ IF pending = {} /\ scopes = {}
       THEN /\ state' = "closed"
            /\ drain' = [drain EXCEPT ![d] = "ok"]
       ELSE /\ drain' = [drain EXCEPT ![d] = "sleeping"]
            /\ UNCHANGED state
    /\ UNCHANGED <<mu, next, pending, scopes, ownerVars, releaseVars, drainSet,
                   closeVars, waiter, barrierVars>>

(* The context of the caller ends first; the caller may drain again.       *)
DrainTimeout(d) ==
    /\ drain[d] \in {"sleeping", "woken"}
    /\ drain' = [drain EXCEPT ![d] = "idle"]
    /\ UNCHANGED <<state, mu, next, pending, scopes, ownerVars, releaseVars,
                   drainSet, closeVars, waiter, barrierVars>>

(* WaitPending sleeps on the same channel, for the reservations only.  It  *)
(* returns without an error when it finds none left.                       *)
WaitPending ==
    /\ waiter \in {"idle", "woken"}
    /\ mu = Free
    /\ waiter' = IF pending = {} THEN "idle" ELSE "sleeping"
    /\ UNCHANGED <<state, mu, next, pending, scopes, ownerVars, releaseVars,
                   drainVars, closeVars, barrierVars>>

WaitPendingTimeout ==
    /\ waiter \in {"sleeping", "woken"}
    /\ waiter' = "idle"
    /\ UNCHANGED <<state, mu, next, pending, scopes, ownerVars, releaseVars,
                   drainVars, closeVars, barrierVars>>

(* Close: the check under closeMu that lets one caller through.            *)
Close ==
    /\ closer = "idle"
    /\ state # "closed"
    /\ closer' = "started"
    /\ UNCHANGED <<state, mu, next, pending, scopes, ownerVars, releaseVars,
                   drainVars, closeSet, waiter, barrierVars>>

CloseSwitch ==
    /\ closer = "started"
    /\ state' = "closed"
    /\ closer' = "switched"
    /\ UNCHANGED <<mu, next, pending, scopes, ownerVars, releaseVars, drainVars,
                   closeSet, waiter, barrierVars>>

(* Mutant: Close copies the scopes without the mutex.                      *)
CloseCopyUnlocked ==
    /\ closer = "switched"
    /\ closeSet' = scopes
    /\ closer' = "closing"
    /\ UNCHANGED <<state, mu, next, pending, scopes, ownerVars, releaseVars,
                   drainVars, waiter, barrierVars>>

CloseCopy ==
    /\ closer = "switched"
    /\ mu = Free
    /\ closeSet' = scopes
    /\ closer' = "closing"
    /\ UNCHANGED <<state, mu, next, pending, scopes, ownerVars, releaseVars,
                   drainVars, waiter, barrierVars>>

(* waitForBoundResourceClose for one copied scope: start, then wait.       *)
CloseStart(t) ==
    /\ closer = "closing"
    /\ t \in closeSet
    /\ res[t] = "bound"
    /\ startBoundResourceClose(t)
    /\ UNCHANGED <<state, mu, next, pending, scopes, pc, spec, releaseVars,
                   drainVars, closeVars, waiter, barrierVars>>

CloseWaited(t) ==
    /\ closer = "closing"
    /\ t \in closeSet
    /\ BoundResourceClosed(t)
    /\ closeSet' = closeSet \ {t}
    /\ UNCHANGED <<state, mu, next, pending, scopes, ownerVars, releaseVars,
                   drainVars, closer, waiter, barrierVars>>

CloseDone ==
    /\ closer = "closing"
    /\ closeSet = {}
    /\ closer' = "done"
    /\ UNCHANGED <<state, mu, next, pending, scopes, ownerVars, releaseVars,
                   drainVars, closeSet, waiter, barrierVars>>

-----------------------------------------------------------------------------
(* Mutant: the sequence of the first barrier is kept for the later ones.   *)
ObserveBarrierOnce(b) ==
    /\ mu = Free
    /\ b > observedBarrier
    /\ observedBarrier' = b
    /\ pendingBarrierSequence' = IF observedBarrier = 0 THEN next
                                                        ELSE pendingBarrierSequence
    /\ observedAt' = [observedAt EXCEPT ![b] = next]
    /\ UNCHANGED <<state, mu, next, pending, scopes, ownerVars, releaseVars,
                   drainVars, closeVars, waiter, publishedBarrier,
                   snapshotRevision, frozen>>

(* ObserveBarrier: Home's configuration names a new observation barrier.   *)
(* An old revision changes nothing.                                        *)
ObserveBarrier(b) ==
    /\ mu = Free
    /\ b > observedBarrier
    /\ observedBarrier' = b
    /\ pendingBarrierSequence' = next
    /\ observedAt' = [observedAt EXCEPT ![b] = next]
    /\ UNCHANGED <<state, mu, next, pending, scopes, ownerVars, releaseVars,
                   drainVars, closeVars, waiter, publishedBarrier,
                   snapshotRevision, frozen>>

(* Mutant: the dispatch drawn just before the barrier does not block it.   *)
PublishableBarrierEarly ==
    IF /\ observedBarrier > publishedBarrier
       /\ \A p \in pending : p >= pendingBarrierSequence
    THEN observedBarrier
    ELSE publishedBarrier

(* The barrier a snapshot taken now may carry.                             *)
PublishableBarrier ==
    IF /\ observedBarrier > publishedBarrier
       /\ \A p \in pending : p > pendingBarrierSequence
    THEN observedBarrier
    ELSE publishedBarrier

FreezeInFlight ==
    /\ mu = Free
    /\ snapshotRevision < MaxRevision
    /\ publishedBarrier' = PublishableBarrier
    /\ snapshotRevision' = snapshotRevision + 1
    /\ frozen' = [barrier |-> PublishableBarrier, executions |-> scopes]
    /\ UNCHANGED <<state, mu, next, pending, scopes, ownerVars, releaseVars,
                   drainVars, closeVars, waiter, observedBarrier,
                   pendingBarrierSequence, observedAt>>

-----------------------------------------------------------------------------
Owner(t) ==
    \/ BeginDispatch(t) \/ BeginDispatchInsert(t)
    \/ PendingEnd(t) \/ InstallRefused(t) \/ Install(t)
    \/ \E g \in Groups \cup {Unaccounted} : InstallCommit(t, g)
    \/ BindRefused(t) \/ Bind(t) \/ BindCommit(t)
    \/ EndWithRelease(t) \/ EndClose(t) \/ markReleasedLocked(t)
    \/ EndSink(t) \/ EndDelete(t)

DrainStep(d) ==
    \/ DrainCopy(d) \/ DrainClosed(d) \/ DrainCheck(d)
    \/ \E t \in Token : DrainClose(d, t)

CloseStep ==
    \/ CloseSwitch \/ CloseCopy \/ CloseDone
    \/ \E t \in Token : CloseStart(t) \/ CloseWaited(t)

Next ==
    \/ \E t \in Token : Owner(t) \/ closeResource(t)
    \/ \E on \in BOOLEAN : SetReleaseSink(on)
    \/ \E r \in replay : ReplaySink(r[1], r[2])
    \/ \E d \in Drainers : Drain(d) \/ DrainStep(d) \/ DrainTimeout(d)
    \/ WaitPending \/ WaitPendingTimeout
    \/ Close \/ CloseStep
    \/ \E b \in 1..MaxBarrier : ObserveBarrier(b)
    \/ FreezeInFlight

Spec == Init /\ [][Next]_vars

(* What the code's scheduling guarantees: a goroutine inside the registry  *)
(* goes on, the mutex is granted to a thread that waits for it, closeFn    *)
(* (which only cancels contexts and closes connections) returns, Home's    *)
(* answer to a dispatch arrives or its context ends, and the owner of a    *)
(* scope ends it once its resource is closed.  Nothing says that an        *)
(* execution whose resource is open ends, that new dispatches come, that a *)
(* context ends, or that anyone drains or closes.                          *)
OwnerCompletes(t) ==
    \/ BeginDispatchInsert(t)
    \/ PendingEnd(t) \/ InstallRefused(t) \/ Install(t)
    \/ \E g \in Groups \cup {Unaccounted} : InstallCommit(t, g)
    \/ BindRefused(t) \/ Bind(t) \/ BindCommit(t)
    \/ res[t] # "bound" /\ EndWithRelease(t)
    \/ EndClose(t) \/ markReleasedLocked(t) \/ EndSink(t) \/ EndDelete(t)

Fairness ==
    /\ \A t \in Token : SF_vars(OwnerCompletes(t)) /\ WF_vars(closeResource(t))
    /\ \A d \in Drainers : SF_vars(DrainStep(d))
    /\ SF_vars(CloseStep)

LiveSpec == Spec /\ Fairness

-----------------------------------------------------------------------------
(* No lost wake-up: a thread sleeps in Drain or in WaitPending only while  *)
(* what it waits for is still there, so the signalLocked that will wake it *)
(* is still to come (the channel is replaced under r.mu by every delete).  *)
NoLostWakeup ==
    /\ \A d \in Drainers : drain[d] = "sleeping" => pending \cup scopes # {}
    /\ waiter = "sleeping" => pending # {}

(* A Drain that returned nil left nothing behind, and nothing comes after  *)
(* it: no reservation and no scope, then or later.  The state switch is    *)
(* made without the mutex, so a BeginDispatch or an Install that passed    *)
(* its check just before still has to be waited for.                       *)
DrainedIsEmpty ==
    \A d \in Drainers : drain[d] = "ok" => pending = {} /\ scopes = {}

(* Once Drain or Close has copied the scopes it will close, no dispatch    *)
(* is reserved, no scope is added and no resource is bound: the copy       *)
(* misses nothing.                                                         *)
Copied == \/ \E d \in Drainers : drain[d] \notin {"idle", "switched"}
          \/ closer \in {"closing", "done"}

CopyMissesNothing ==
    [][Copied => /\ next' = next
                 /\ scopes' \subseteq scopes
                 /\ \A t \in Token : res[t] = "none" => res'[t] = "none"]_vars

(* When Drain goes to sleep it has asked every bound resource to close, so *)
(* it never waits for an execution that nobody has cancelled.              *)
DrainCancelsAll ==
    \A d \in Drainers :
        drain[d] \in {"checking", "sleeping", "woken", "ok"} =>
            \A t \in Token : res[t] # "bound"

(* When Close returns, every resource that was ever bound is closed, not   *)
(* only asked to close.                                                    *)
CloseLeavesNoResource ==
    closer = "done" => \A t \in Token : BoundResourceClosed(t)

(* A release is numbered, handed to the sink and forgotten only when the   *)
(* execution's resource is closed: Home is never told that a slot is free  *)
(* while the request that held it still runs.                              *)
ReleaseAfterClose ==
    \A t \in Token :
        pc[t] \in {"marked", "sunk", "ended"} => res[t] \in {"none", "closed"}

(* The release numbers of a group are 1, 2, ... without a gap or a repeat, *)
(* one for each accounted scope of the group whose release was counted.    *)
Counted(g) == {t \in Token : spec[t] = g /\ rel[t] > 0}

ReleasesCounted ==
    \A g \in Groups :
        /\ \A t \in Counted(g) : rel[t] <= releaseSeq[g]
        /\ \A n \in 1..releaseSeq[g] : \E t \in Counted(g) : rel[t] = n
        /\ \A t, u \in Counted(g) : rel[t] = rel[u] => t = u

(* A sink hears of every release, whatever the order of the release, of    *)
(* SetReleaseSink and of its replay: if the sink lags behind a group's     *)
(* sequence, the call that will tell it is still to come, and is made by a *)
(* scope that Drain still waits for, or by the replay.                     *)
SinkCaughtUp ==
    sink => \A g \in Groups :
        releaseSeq[g] > 0 =>
            \/ <<g, releaseSeq[g]>> \in handed \cup replay
            \/ \E t \in scopes : /\ pc[t] = "marked" /\ live[t]
                                 /\ spec[t] = g /\ rel[t] = releaseSeq[g]

(* A barrier is published only when no reservation drawn before Home       *)
(* announced it is still unresolved, and that stays so.                    *)
BarrierSound ==
    \A b \in 1..publishedBarrier : \A p \in pending : p > observedAt[b]

(* A snapshot that carries a barrier lists every execution dispatched      *)
(* before that barrier was observed that has not ended.                    *)
SnapshotComplete ==
    [][snapshotRevision' # snapshotRevision =>
         \A b \in 1..frozen'.barrier : \A t \in 1..observedAt[b] :
             pc[t] = "ended" \/ t \in frozen'.executions]_vars

-----------------------------------------------------------------------------
(* The inductive invariant: TypeOK, the parts below, and the invariants    *)
(* above.                                                                  *)
Locked == {"beginning", "installing", "binding"}
InScope == {"installed", "binding", "running", "ending", "closeWait", "marked",
            "sunk"}

(* r.mu is held by the one thread inside a check-then-write section.       *)
MutexInv == \A t \in Token : mu = t <=> pc[t] \in Locked

(* The tokens drawn so far are 1..next; the next one is being drawn.       *)
DrawnInv ==
    \A t \in Token : /\ t <= next => pc[t] \notin {"idle", "beginning"}
                     /\ pc[t] \notin {"idle", "beginning"} => t <= next
                     /\ pc[t] = "beginning" => t = next + 1

(* The maps hold the tokens whose owner is in the matching phase.          *)
MapsInv ==
    \A t \in Token : /\ t \in pending <=> pc[t] \in {"pending", "installing"}
                     /\ t \in scopes <=> pc[t] \in InScope

(* A resource is bound by a running owner and closed before the mark.      *)
ResourceInv ==
    \A t \in Token :
        /\ res[t] = "bound" => pc[t] \in {"running", "ending"}
        /\ res[t] = "closing" => pc[t] \in {"running", "ending", "closeWait"}
        /\ res[t] = "closed" => pc[t] \in {"running", "ending", "closeWait",
                                          "marked", "sunk", "ended"}

(* A number is drawn by the mark, and only for an accounted scope.         *)
NumberInv ==
    \A t \in Token :
        /\ rel[t] > 0 => /\ spec[t] \in Groups
                         /\ pc[t] \in {"marked", "sunk", "ended"}
        /\ live[t] => sink /\ rel[t] > 0

(* Whoever drains or closes has switched the state, and whoever copied the *)
(* scopes did so when r.mu was free, which it is from then on.             *)
ShutInv ==
    /\ \A d \in Drainers : drain[d] # "idle" => state # "accepting"
    /\ closer \notin {"idle", "started"} => state # "accepting"
    /\ Copied => mu = Free

(* What is still to be closed is in the copy.                              *)
CopyInv ==
    /\ \A d \in Drainers : drain[d] = "closing" =>
           \A t \in Token : res[t] = "bound" => t \in drainSet[d]
    /\ closer = "closing" =>
           \A t \in Token : ~ BoundResourceClosed(t) => t \in closeSet

(* The sequence kept for the last barrier covers the earlier ones.         *)
BarrierInv ==
    /\ publishedBarrier <= observedBarrier
    /\ pendingBarrierSequence <= next
    /\ \A b \in 0..MaxBarrier : observedAt[b] <= pendingBarrierSequence

IndInv ==
    /\ MutexInv /\ DrawnInv /\ MapsInv /\ ResourceInv /\ NumberInv
    /\ ShutInv /\ CopyInv /\ BarrierInv

-----------------------------------------------------------------------------
(* A Drain that does not time out returns: it cancels what it waits for,   *)
(* and hears of the last owner that ends.                                  *)
DrainReturns ==
    \A d \in Drainers : drain[d] = "switched" ~> drain[d] \in {"idle", "ok"}

(* Close returns, even beside a Drain that closes the same resources.      *)
CloseReturns == closer = "started" ~> closer = "done"

=============================================================================
