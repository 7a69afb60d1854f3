--------------------------- MODULE ReleaseFlusher ---------------------------
(***************************************************************************)
(* The flusher of concurrency releases (internal/home, releaseFlusher).    *)
(* The execution registry marks a release group dirty with the number of   *)
(* its last release and gets a ticket; one Run loop per Home lifetime      *)
(* sends the highest number of every dirty group to Home and completes the *)
(* tickets that Home's answer covers.  Marks arrive in any order, sends    *)
(* fail or lose their answer, the loop backs off, lifetimes end and begin, *)
(* and Flush waits for what is dirty when the service shuts down.          *)
(***************************************************************************)
EXTENDS Integers

CONSTANTS
    Groups,        \* release groups: a credential and a model
    MaxSeq,        \* bound on the releases of a group
    Timings,       \* what the configuration may say: interval and backoff
    Callers,       \* callers of Flush
    NoCaller,      \* the force channel is empty
    NoGroup,       \* no answer has come
    MaxFaults,     \* bound on the sends that fail although their context lives
    MaxLifetimes   \* bound on the lifetimes that end

ASSUME FlusherAssumption ==
    /\ MaxSeq \in Nat /\ MaxFaults \in Nat /\ MaxLifetimes \in Nat
    /\ Timings # {}
    /\ \A t \in Timings : /\ t.interval \in Nat \ {0}
                          /\ t.backoff \in Nat /\ t.interval <= t.backoff
    /\ NoCaller \notin Callers /\ NoGroup \notin Groups

VARIABLES
    latest, acked, \* groups[g].Latest and groups[g].Acked
    open,          \* groups[g].waiters: the numbers with a ticket that waits
    closed,        \* the numbers with a completed ticket
    sender,        \* f.send # nil
    timings,       \* what timings() returns
    wake,          \* the wake channel holds a token
    force,         \* the force channel: the context of this caller, or empty
    run,           \* the Run loop: off, select, flushing, acking
    cancelled,     \* the context of Run is cancelled
    timer,         \* stopped, armed, due
    delay, backingOff, \* locals of Run
    pending,       \* local of flush: what is still to be sent, 0 if nothing
    sent,          \* local of flush: the group whose answer has come
    forced,        \* local of flush: the caller whose context it uses
    failed,        \* local of flush
    call,          \* Flush of each caller: idle, waiting, ok, timeout
    home,          \* Home: the highest number received of each group
    faults, lifetimes, \* failed sends and ended lifetimes so far
    target         \* history: latest when the caller called Flush

stateVars == <<latest, acked, open, closed>>
configVars == <<sender, timings>>
loopVars == <<run, timer, delay, backingOff, pending, sent, forced, failed>>
lifeVars == <<cancelled, lifetimes>>
flushVars == <<call, target>>
vars == <<stateVars, configVars, wake, force, loopVars, lifeVars, flushVars,
          home, faults>>

Seqs == 1..MaxSeq
None == [g \in Groups |-> 0]
Larger(a, b) == IF a > b THEN a ELSE b

(* The types of the variables.                                             *)
TypeOK ==
    /\ latest \in [Groups -> 0..MaxSeq] /\ acked \in [Groups -> 0..MaxSeq]
    /\ open \in [Groups -> SUBSET Seqs] /\ closed \in [Groups -> SUBSET Seqs]
    /\ sender \in BOOLEAN /\ timings \in Timings
    /\ wake \in BOOLEAN /\ force \in Callers \cup {NoCaller}
    /\ run \in {"off", "select", "flushing", "acking"}
    /\ cancelled \in BOOLEAN
    /\ timer \in {"stopped", "armed", "due"}
    /\ delay \in Nat /\ backingOff \in BOOLEAN
    /\ pending \in [Groups -> 0..MaxSeq]
    /\ sent \in Groups \cup {NoGroup}
    /\ forced \in Callers \cup {NoCaller} /\ failed \in BOOLEAN
    /\ call \in [Callers -> {"idle", "waiting", "ok", "timeout"}]
    /\ home \in [Groups -> 0..MaxSeq]
    /\ faults \in 0..MaxFaults /\ lifetimes \in 0..MaxLifetimes
    /\ target \in [Callers -> [Groups -> 0..MaxSeq]]

Init ==
    /\ latest = None /\ acked = None
    /\ open = [g \in Groups |-> {}] /\ closed = [g \in Groups |-> {}]
    /\ sender = FALSE /\ timings \in Timings
    /\ wake = FALSE /\ force = NoCaller
    /\ run = "off" /\ cancelled = FALSE
    /\ timer = "stopped" /\ delay = 0 /\ backingOff = FALSE
    /\ pending = None /\ sent = NoGroup /\ forced = NoCaller /\ failed = FALSE
    /\ call = [c \in Callers |-> "idle"]
    /\ home = None
    /\ faults = 0 /\ lifetimes = 0
    /\ target = [c \in Callers |-> None]

-----------------------------------------------------------------------------
(* The registry and the service.  signal() leaves a token in a full wake   *)
(* channel as it is.                                                       *)

MarkDirty(g, n) ==
    /\ IF n <= acked[g]
       THEN /\ closed' = [closed EXCEPT ![g] = @ \cup {n}]
            /\ UNCHANGED <<open, latest>>
       ELSE /\ open' = [open EXCEPT ![g] = @ \cup {n}]
            /\ latest' = [latest EXCEPT ![g] = Larger(@, n)]
            /\ UNCHANGED closed
    /\ wake' = TRUE
    /\ UNCHANGED <<acked, configVars, force, loopVars, lifeVars, flushVars, home,
                   faults>>

SetConfigProvider(t) ==
    /\ timings' = t
    /\ wake' = TRUE
    /\ UNCHANGED <<stateVars, sender, force, loopVars, lifeVars, flushVars, home,
                   faults>>

SetSender ==
    /\ sender' = TRUE
    /\ wake' = TRUE
    /\ UNCHANGED <<stateVars, timings, force, loopVars, lifeVars, flushVars, home,
                   faults>>

(* A lifetime begins: go Run.  Its timer is due at once.                   *)
StartRun ==
    /\ run = "off"
    /\ run' = "select"
    /\ cancelled' = FALSE
    /\ timer' = "armed"
    /\ delay' = timings.interval
    /\ backingOff' = FALSE
    /\ UNCHANGED <<stateVars, configVars, wake, force, pending, sent, forced,
                   failed, lifetimes, flushVars, home, faults>>

(* The lifetime ends: its context is cancelled, and the service waits for  *)
(* Run to return before it starts another.                                 *)
CancelRun ==
    /\ run # "off"
    /\ ~ cancelled
    /\ lifetimes < MaxLifetimes
    /\ cancelled' = TRUE
    /\ lifetimes' = lifetimes + 1
    /\ UNCHANGED <<stateVars, configVars, wake, force, loopVars, flushVars, home,
                   faults>>

-----------------------------------------------------------------------------
(* Flush: the context goes into the force channel if that is empty; then   *)
(* the caller polls until nothing is dirty or its context ends.            *)
Flush(c) ==
    /\ call[c] = "idle"
    /\ call' = [call EXCEPT ![c] = "waiting"]
    /\ target' = [target EXCEPT ![c] = latest]
    /\ force' = IF force = NoCaller THEN c ELSE force
    /\ UNCHANGED <<stateVars, configVars, wake, loopVars, lifeVars, home, faults>>

(* Mutant: a flush that is under way counts as done.                       *)
idleTaken == \A g \in Groups : latest[g] <= Larger(acked[g], pending[g])

idle == \A g \in Groups : latest[g] <= acked[g]

FlushReturns(c) ==
    /\ call[c] = "waiting"
    /\ idle
    /\ call' = [call EXCEPT ![c] = "ok"]
    /\ UNCHANGED <<stateVars, configVars, wake, force, loopVars, lifeVars, target,
                   home, faults>>

FlushTimeout(c) ==
    /\ call[c] = "waiting"
    /\ call' = [call EXCEPT ![c] = "timeout"]
    /\ UNCHANGED <<stateVars, configVars, wake, force, loopVars, lifeVars, target,
                   home, faults>>

-----------------------------------------------------------------------------
(* The Run loop: one action per case of its select.                        *)
RunStops ==
    /\ run = "select"
    /\ cancelled
    /\ run' = "off"
    /\ timer' = "stopped"
    /\ UNCHANGED <<stateVars, configVars, wake, force, delay, backingOff, pending,
                   sent, forced, failed, lifeVars, flushVars, home, faults>>

(* A wake-up makes the timer due soon, but not while the loop backs off.   *)
TakeWake ==
    /\ run = "select"
    /\ wake
    /\ wake' = FALSE
    /\ timer' = IF backingOff THEN timer ELSE "armed"
    /\ UNCHANGED <<stateVars, configVars, force, run, delay, backingOff, pending,
                   sent, forced, failed, lifeVars, flushVars, home, faults>>

(* Time passes: the delay of the timer is over.                            *)
Elapse ==
    /\ timer = "armed"
    /\ timer' = "due"
    /\ UNCHANGED <<stateVars, configVars, wake, force, run, delay, backingOff,
                   pending, sent, forced, failed, lifeVars, flushVars, home, faults>>

(* The dirty groups; without a sender flush sends nothing and succeeds.    *)
Dirty ==
    [g \in Groups |-> IF sender /\ latest[g] > acked[g] THEN latest[g] ELSE 0]

TakeForce ==
    /\ run = "select"
    /\ force # NoCaller
    /\ force' = NoCaller
    /\ run' = "flushing"
    /\ pending' = Dirty
    /\ forced' = force
    /\ failed' = FALSE
    /\ timer' = "armed"
    /\ UNCHANGED <<stateVars, configVars, wake, delay, backingOff, sent, lifeVars,
                   flushVars, home, faults>>

TimerFires ==
    /\ run = "select"
    /\ timer = "due"
    /\ run' = "flushing"
    /\ pending' = Dirty
    /\ forced' = NoCaller
    /\ failed' = FALSE
    /\ timer' = "stopped"
    /\ UNCHANGED <<stateVars, configVars, wake, force, delay, backingOff, sent,
                   lifeVars, flushVars, home, faults>>

(* The context of the send under way has ended, or may have ended.         *)
Expired == IF forced = NoCaller THEN cancelled ELSE call[forced] = "timeout"
MayExpire == IF forced = NoCaller THEN cancelled ELSE call[forced] # "waiting"

Receive(g) == home' = [home EXCEPT ![g] = Larger(@, pending[g])]

(* A send that Home answers.                                               *)
Send(g) ==
    /\ run = "flushing"
    /\ pending[g] > 0
    /\ ~ Expired
    /\ Receive(g)
    /\ run' = "acking"
    /\ sent' = g
    /\ UNCHANGED <<stateVars, configVars, wake, force, timer, delay, backingOff,
                   pending, forced, failed, lifeVars, flushVars, faults>>

(* A send that fails: Home may have received the frame all the same.       *)
SendFails(g, received) ==
    /\ run = "flushing"
    /\ pending[g] > 0
    /\ \/ MayExpire /\ UNCHANGED faults
       \/ faults < MaxFaults /\ faults' = faults + 1
    /\ IF received THEN Receive(g) ELSE UNCHANGED home
    /\ failed' = TRUE
    /\ pending' = [pending EXCEPT ![g] = 0]
    /\ UNCHANGED <<stateVars, configVars, wake, force, run, timer, delay, backingOff,
                   sent, forced, lifeVars, flushVars>>

(* Mutant: the answer is taken for the highest number by now.              *)
AckLatest(g) ==
    /\ acked' = [acked EXCEPT ![g] = latest[g]]
    /\ open' = [open EXCEPT ![g] = {}]
    /\ closed' = [closed EXCEPT ![g] = @ \cup open[g]]

(* Mutant: only the tickets of the number that was sent are completed.     *)
AckExact(g) ==
    /\ acked' = [acked EXCEPT ![g] = Larger(@, pending[g])]
    /\ open' = [open EXCEPT ![g] = @ \ {pending[g]}]
    /\ closed' = [closed EXCEPT ![g] = @ \cup (open[g] \cap {pending[g]})]

(* The answer covers the number that was sent, and every ticket up to it.  *)
Ack(g) ==
    LET n == Larger(acked[g], pending[g])
    IN  /\ acked' = [acked EXCEPT ![g] = n]
        /\ open' = [open EXCEPT ![g] = {w \in @ : w > n}]
        /\ closed' = [closed EXCEPT ![g] = @ \cup {w \in open[g] : w <= n}]

Answered ==
    /\ run = "acking"
    /\ Ack(sent)
    /\ run' = "flushing"
    /\ pending' = [pending EXCEPT ![sent] = 0]
    /\ sent' = NoGroup
    /\ UNCHANGED <<latest, configVars, wake, force, timer, delay, backingOff, forced,
                   failed, lifeVars, flushVars, home, faults>>

nextDelay ==
    LET doubled == Larger(2 * delay, timings.interval)
    IN  IF ~ failed THEN timings.interval
        ELSE IF doubled > timings.backoff THEN timings.backoff ELSE doubled

(* Mutant: after a failure the timer is not set again.                     *)
EndFlushNoRetry ==
    /\ run = "flushing"
    /\ pending = None
    /\ run' = "select"
    /\ delay' = nextDelay
    /\ backingOff' = failed
    /\ timer' = IF failed THEN "stopped" ELSE "armed"
    /\ forced' = NoCaller
    /\ UNCHANGED <<stateVars, configVars, wake, force, pending, sent, failed,
                   lifeVars, flushVars, home, faults>>

EndFlush ==
    /\ run = "flushing"
    /\ pending = None
    /\ run' = "select"
    /\ delay' = nextDelay
    /\ backingOff' = failed
    /\ timer' = "armed"
    /\ forced' = NoCaller
    /\ UNCHANGED <<stateVars, configVars, wake, force, pending, sent, failed,
                   lifeVars, flushVars, home, faults>>

-----------------------------------------------------------------------------
RunLoop ==
    \/ TakeWake \/ TakeForce \/ Answered \/ EndFlush
    \/ \E g \in Groups : Send(g) \/ \E received \in BOOLEAN : SendFails(g, received)

Next ==
    \/ \E g \in Groups, n \in Seqs : MarkDirty(g, n)
    \/ \E t \in Timings : SetConfigProvider(t)
    \/ SetSender \/ StartRun \/ CancelRun \/ RunStops
    \/ \E c \in Callers : Flush(c) \/ FlushReturns(c) \/ FlushTimeout(c)
    \/ Elapse \/ TimerFires \/ RunLoop

Spec == Init /\ [][Next]_vars

(* The service starts a lifetime with a sender whenever it has none; timers*)
(* end; the loop does not stop in the middle, and its select chooses among *)
(* the cases that are ready at random, so none is passed over for ever.    *)
LiveSpec ==
    /\ Spec
    /\ WF_vars(SetSender) /\ WF_vars(StartRun) /\ WF_vars(Elapse) /\ WF_vars(RunLoop)
    /\ SF_vars(TimerFires) /\ SF_vars(RunStops)

-----------------------------------------------------------------------------
(* Home is never told of more releases than were marked, and the flusher   *)
(* never believes that Home knows more than it does, whatever fails.       *)
AckedIsReceived ==
    \A g \in Groups : acked[g] <= home[g] /\ home[g] <= latest[g]

(* A ticket that waits is still going to be sent: none is left behind by   *)
(* marks that arrive out of order or between a send and its answer.        *)
NoTicketStranded ==
    \A g \in Groups : \A n \in open[g] : acked[g] < n /\ n <= latest[g]

(* A Flush that returned nil left Home knowing every release that was      *)
(* marked before the call.                                                 *)
FlushComplete ==
    \A c \in Callers : call[c] = "ok" =>
        \A g \in Groups : target[c][g] <= home[g]

(* The delay the loop chooses after a flush is within the bounds of the    *)
(* configuration of that moment, however many sends failed before and      *)
(* however the configuration changed in between.                           *)
DelayInBounds ==
    [][delay' # delay => /\ timings.interval <= delay'
                         /\ delay' <= timings.backoff]_vars

(* The inductive invariant: TypeOK, the invariants above and three parts.  *)

(* What flush took is not above the highest mark; an answer that has come  *)
(* is one to a number that Home has received.                              *)
FlushInv ==
    /\ \A g \in Groups : pending[g] <= latest[g]
    /\ run = "acking" => sent \in Groups /\ pending[sent] <= home[sent]

(* Completed tickets are covered by an answer.                             *)
ClosedInv == \A g \in Groups : \A n \in closed[g] : n <= acked[g]

(* Marks are never taken back.                                             *)
TargetInv ==
    \A c \in Callers : \A g \in Groups : target[c][g] <= latest[g]

IndInv ==
    /\ TypeOK /\ AckedIsReceived /\ NoTicketStranded /\ FlushComplete
    /\ FlushInv /\ ClosedInv /\ TargetInv

(* The flusher keeps the promise of ReleaseAccounting.                     *)
Accounting == INSTANCE ReleaseAccounting
                  WITH announced <- latest, known <- home, completed <- closed

ImplementsAccounting == Accounting!ASpec

(* Every ticket is completed once sends stop failing.                      *)
TicketsComplete ==
    \A g \in Groups : \A n \in Seqs : n \in open[g] ~> n \in closed[g]

=============================================================================
