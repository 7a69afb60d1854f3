---------------------------- MODULE AuthRefresh ----------------------------
(***************************************************************************)
(* The renewal of access tokens: the loop of auto_refresh_loop.go with its *)
(* heap, its dirty set and its queue of jobs, the workers that refresh in  *)
(* the background, and the requests that refresh after a 401, beside every *)
(* operation of AuthConductor on the same credentials.                     *)
(*                                                                         *)
(* Each refresh replaces a token by a new one; the refresh token that came *)
(* with the old one is spent.  expires[k] is when token k falls due, the   *)
(* lead of the provider taken off.  Every credential has a refresh token   *)
(* and its provider an executor.  The wake-up channel of the loop is the   *)
(* dirty set: queueReschedule fills the set and then the channel.          *)
(***************************************************************************)
EXTENDS AuthConductor

CONSTANTS
    Workers,            \* the goroutines of Procs that serve the job queue
    JobBuffer,          \* capacity of the job queue
    FirstDue,           \* when the token in the files falls due
    Lifetime,           \* from the issue of a token to its refresh
    PendingBackoff,     \* refreshPendingBackoff, one minute
    FailureBackoff,     \* refreshFailureBackoff, five minutes
    IneffectiveBackoff  \* refreshIneffectiveBackoff, 30 seconds

(* The backoffs are positive, the queue has room and a token a lifetime. *)
ASSUME RefreshAssumption ==
    /\ Workers \subseteq Procs
    /\ JobBuffer \in Nat \ {0} /\ FirstDue \in Nat /\ Lifetime \in Nat \ {0}
    /\ PendingBackoff \in Nat \ {0} /\ FailureBackoff \in Nat \ {0}
    /\ IneffectiveBackoff \in Nat \ {0}

VARIABLES
    expires,      \* when each token falls due
    refreshLocks, \* Manager.refreshLocks: the holder of each credential's lock
    jobs,         \* the channel of due credentials
    loop,         \* the loop's goroutine
    dropped,      \* history: credentials last taken off the heap for good
    spent,        \* history: tokens a refresh has replaced, per credential
    reverted      \* history: credentials whose map entry went back to a spent token

refreshVars == <<expires, refreshLocks, jobs, loop, dropped, spent, reverted>>
allVars == <<vars, refreshVars>>

Waiting == [pc |-> "wait", t |-> 0, left |-> {}, a |-> NoAuth, next |-> 0, from |-> "wait"]

(* nextRefreshCheckAt: 0 when the credential is not to be scheduled. *)
NextRefreshCheckAt(auth, t) ==
    IF auth = NoAuth THEN 0
    ELSE IF auth.top.err = "unauthorized" THEN 0
    ELSE IF auth.refreshAt > t THEN auth.refreshAt
    ELSE Max({t, expires[auth.token]})

(* shouldRefresh looks at the deadline of the backoff at the caller's time *)
(* and at the expiry at the present one.                                   *)
ShouldRefresh(auth, t) ==
    /\ auth # NoAuth
    /\ auth.top.err # "unauthorized"
    /\ auth.refreshAt <= t
    /\ expires[auth.token] <= now

RInit ==
    /\ Init
    /\ expires = [k \in 1 .. MaxTokens |-> IF k = 1 THEN FirstDue ELSE 0]
    /\ refreshLocks = [a \in Auths |-> {}]
    /\ jobs = <<>>
    /\ loop = Waiting
    /\ dropped = {} /\ spent = {} /\ reverted = {}

(* The entries of the map that a step sets to a token already replaced. *)
Reverting(crash) ==
    reverted \cup {a \in Auths :
        /\ auths'[a] # NoAuth
        /\ <<a, auths'[a].token>> \in spent'
        /\ \/ crash
           \/ auths[a] = NoAuth
           \/ auths[a].token # auths'[a].token}

-----------------------------------------------------------------------------
(* The loop. *)

LoopFrame == UNCHANGED <<now, cooling, sched, disk, store, unsaved, suspended, cfgMu,
                         minted, ops, proc, expires, refreshLocks, spent, reverted>>

(* wakeCh: applyDirty drains the set ... *)
WakeUp ==
    /\ loop.pc = "wait" /\ dirty # {}
    /\ loop' = [Waiting EXCEPT !.pc = "dirty", !.t = now, !.left = dirty]
    /\ dirty' = {}
    /\ LoopFrame /\ UNCHANGED <<auths, heap, jobs, dropped>>

(* ... and looks at its credentials one by one. *)
ApplyDirty(a) ==
    /\ loop.pc = "dirty" /\ a \in loop.left
    /\ loop' = [loop EXCEPT !.pc = "put", !.a = a, !.left = @ \ {a}, !.from = "dirty",
                            !.next = NextRefreshCheckAt(auths[a], loop.t)]
    /\ LoopFrame /\ UNCHANGED <<auths, heap, dirty, jobs, dropped>>

EndDirty ==
    /\ loop.pc = "dirty" /\ loop.left = {}
    /\ loop' = Waiting
    /\ LoopFrame /\ UNCHANGED <<auths, heap, dirty, jobs, dropped>>

(* The timer fires: popDue. *)
PopDue ==
    LET due == {a \in Auths : heap[a] # 0 /\ heap[a] <= now} IN
    /\ loop.pc = "wait" /\ due # {}
    /\ heap' = [a \in Auths |-> IF a \in due THEN 0 ELSE heap[a]]
    /\ loop' = [Waiting EXCEPT !.pc = "due", !.t = now, !.left = due]
    /\ LoopFrame /\ UNCHANGED <<auths, dirty, jobs, dropped>>

(* handleDueAuth, under Manager.mu. *)
HandleDueAuth(a) ==
    /\ loop.pc = "due" /\ a \in loop.left
    /\ LET next == NextRefreshCheckAt(auths[a], loop.t)
           pc == CASE auths[a] = NoAuth -> "due"
                   [] auths[a] # NoAuth /\ next # 0 /\ ShouldRefresh(auths[a], loop.t) -> "mark"
                   [] OTHER -> "put"
       IN  loop' = [loop EXCEPT !.pc = pc, !.a = a, !.left = @ \ {a}, !.from = "due",
                                !.next = next]
    /\ LoopFrame /\ UNCHANGED <<auths, heap, dirty, jobs, dropped>>

(* markRefreshPending: a credential refused here is looked at again. *)
MarkRefreshPending ==
    LET a == loop.a
        open == auths[a] # NoAuth /\ auths[a].refreshAt <= loop.t
    IN
    /\ loop.pc = "mark"
    /\ auths' = IF open THEN [auths EXCEPT ![a].refreshAt = loop.t + PendingBackoff]
                ELSE auths
    /\ dirty' = IF open THEN dirty \cup {a} ELSE dirty
    /\ loop' = [loop EXCEPT !.pc = IF open THEN "send" ELSE "again"]
    /\ LoopFrame /\ UNCHANGED <<heap, jobs, dropped>>

LookAgain ==
    /\ loop.pc = "again"
    /\ loop' = [loop EXCEPT !.pc = "put", !.next = NextRefreshCheckAt(auths[loop.a], loop.t)]
    /\ LoopFrame /\ UNCHANGED <<auths, heap, dirty, jobs, dropped>>

(* An upsert that only moves what is in the heap. *)
PutFixOnly ==
    /\ loop.pc = "put"
    /\ heap' = [heap EXCEPT ![loop.a] = IF @ = 0 THEN 0 ELSE loop.next]
    /\ loop' = [loop EXCEPT !.pc = loop.from]
    /\ LoopFrame /\ UNCHANGED <<auths, dirty, jobs, dropped>>

(* upsert or, with no next check, remove. *)
Put ==
    /\ loop.pc = "put"
    /\ heap' = [heap EXCEPT ![loop.a] = loop.next]
    /\ dropped' = IF loop.next = 0 THEN dropped \cup {loop.a} ELSE dropped \ {loop.a}
    /\ loop' = [loop EXCEPT !.pc = loop.from]
    /\ LoopFrame /\ UNCHANGED <<auths, dirty, jobs>>

(* The loop waits for room in the job queue. *)
SendJob ==
    /\ loop.pc = "send" /\ Len(jobs) < JobBuffer
    /\ jobs' = Append(jobs, loop.a)
    /\ loop' = [loop EXCEPT !.pc = "due"]
    /\ LoopFrame /\ UNCHANGED <<auths, heap, dirty, dropped>>

(* After the due credentials the dirty ones. *)
EndDue ==
    /\ loop.pc = "due" /\ loop.left = {}
    /\ loop' = [Waiting EXCEPT !.pc = "dirty", !.t = loop.t, !.left = dirty]
    /\ dirty' = {}
    /\ LoopFrame /\ UNCHANGED <<auths, heap, jobs, dropped>>

Loop ==
    \/ WakeUp \/ EndDirty \/ PopDue \/ MarkRefreshPending \/ LookAgain
    \/ Put \/ SendJob \/ EndDue
    \/ \E a \in Auths : ApplyDirty(a) \/ HandleDueAuth(a)

-----------------------------------------------------------------------------
(* Refreshing one credential: refreshAuthForRequest. *)

RefreshFrame == UNCHANGED <<now, cooling, disk, store, suspended, cfgMu, heap, dirty,
                            ops, loop, dropped>>

(* A worker takes a job; it names no token that failed. *)
TakeJob(p) ==
    /\ At(p, "idle") /\ p \in Workers /\ jobs # <<>>
    /\ jobs' = Tail(jobs)
    /\ Goto(p, [Idle EXCEPT !.pc = "lock", !.a = Head(jobs)])
    /\ RefreshFrame
    /\ UNCHANGED <<auths, sched, unsaved, minted, expires, refreshLocks, spent, reverted>>

(* tryRefreshAfterUnauthorized: once per request. *)
Unauthorized(p) ==
    /\ At(p, "exec") /\ ~proc[p].tried
    /\ Goto(p, [proc[p] EXCEPT !.pc = "lock"])
    /\ RefreshFrame
    /\ UNCHANGED <<auths, sched, unsaved, minted, expires, refreshLocks, jobs, spent, reverted>>

(* Where a refresh leads: a worker asks for a new look at the credential,  *)
(* a request runs again with the new token or reports its 401.             *)
After(p) == IF p \in Workers THEN <<"unlock", "reschedule">> ELSE <<"unlock">>

Retried(p, auth) ==
    [Idle EXCEPT !.pc = "exec", !.a = proc[p].a, !.m = proc[p].m,
                 !.token = auth.token, !.tried = TRUE]

Rejected(p) ==
    [Idle EXCEPT !.pc = "rejected", !.a = proc[p].a, !.m = proc[p].m, !.tried = TRUE]

(* Mutant: the lock of the credential is not taken. *)
LockRefreshSkipped(p) ==
    LET a == proc[p].a IN
    /\ At(p, "lock") /\ auths[a] # NoAuth
    /\ Goto(p, [proc[p] EXCEPT !.pc = "refresh", !.snap = auths[a]])
    /\ RefreshFrame
    /\ UNCHANGED <<auths, sched, unsaved, minted, expires, refreshLocks, jobs, spent, reverted>>

(* The lock of the credential, then the map: a token that another caller   *)
(* has replaced meanwhile is used as it is.                                *)
LockRefresh(p) ==
    LET a == proc[p].a  auth == auths[a]
        gone   == auth = NoAuth
        reused == ~gone /\ proc[p].token # 0 /\ auth.token # proc[p].token
    IN
    /\ At(p, "lock") /\ refreshLocks[a] = {}
    /\ refreshLocks' = IF gone \/ reused THEN refreshLocks
                       ELSE [refreshLocks EXCEPT ![a] = {p}]
    /\ Goto(p, CASE gone -> IF p \in Workers THEN Doing(p, a, {}, NoAuth, <<"reschedule">>)
                                             ELSE Rejected(p)
                 [] ~gone /\ reused -> Retried(p, auth)
                 [] OTHER -> [proc[p] EXCEPT !.pc = "refresh", !.snap = auth])
    /\ RefreshFrame
    /\ UNCHANGED <<auths, sched, unsaved, minted, expires, jobs, spent, reverted>>

(* The models whose state a successful refresh clears. *)
UnauthorizedModels(auth) ==
    {m \in Models : auth.models[m] # NoState /\ auth.models[m].err = "unauthorized"}

(* The clone that is stored after the executor's success: the error and    *)
(* the unauthorized model states go, and a credential that is due again at *)
(* once is held back.                                                      *)
Renewed(auth, due) ==
    LET ms == UnauthorizedModels(auth)
        ok == [auth EXCEPT !.refreshAt = 0, !.top.err = "none", !.top.unavail = FALSE,
                           !.models = [m \in Models |-> IF m \in ms THEN Clean ELSE @[m]]]
        agg == IF ms = {} THEN ok ELSE Aggregated(ok, now)
    IN  IF due <= now THEN [agg EXCEPT !.refreshAt = now + IneffectiveBackoff] ELSE agg

(* The provider issues a new token ... *)
RefreshSucceeds(p) ==
    LET new == [proc[p].snap EXCEPT !.token = minted + 1] IN
    /\ At(p, "refresh") /\ minted < MaxTokens
    /\ minted' = minted + 1
    /\ expires' = [expires EXCEPT ![minted + 1] = now + Lifetime]
    /\ spent' = spent \cup {<<proc[p].a, proc[p].snap.token>>}
    /\ Goto(p, [proc[p] EXCEPT !.pc = "update", !.ms = UnauthorizedModels(new),
                               !.snap = Renewed(new, now + Lifetime)])
    /\ RefreshFrame
    /\ UNCHANGED <<auths, sched, unsaved, refreshLocks, jobs, reverted>>

(* ... or answers without one. *)
RefreshIneffective(p) ==
    LET old == proc[p].snap IN
    /\ At(p, "refresh")
    /\ Goto(p, [proc[p] EXCEPT !.pc = "update", !.ms = UnauthorizedModels(old),
                               !.snap = Renewed(old, expires[old.token])])
    /\ RefreshFrame
    /\ UNCHANGED <<auths, sched, unsaved, minted, expires, refreshLocks, jobs, spent,
                   reverted>>

(* Manager.Update with the whole clone. *)
StoreRefreshed(p) ==
    /\ At(p, "update")
    /\ UpdateTo(p, proc[p].a, proc[p].snap, proc[p].ms, <<"resume">> \o After(p))
    /\ RefreshFrame
    /\ UNCHANGED <<sched, minted, expires, refreshLocks, jobs, spent>>
    /\ reverted' = Reverting(FALSE)

(* The provider refuses: the entry and the scheduler's copy are changed    *)
(* under Manager.mu.                                                       *)
RefreshFails(p, err) ==
    LET a == proc[p].a
        bad == [auths[a] EXCEPT
                  !.top.err = err,
                  !.top.unavail = @ \/ err = "unauthorized",
                  !.refreshAt = IF err = "unauthorized" THEN 0 ELSE now + FailureBackoff]
    IN
    /\ At(p, "refresh")
    /\ IF auths[a] = NoAuth THEN UNCHANGED <<auths, sched, unsaved>>
       ELSE /\ auths' = [auths EXCEPT ![a] = bad]
            /\ sched' = [sched EXCEPT ![a] = Schedulable(bad)]
            /\ unsaved' = IF Records(bad, now) \subseteq Records(auths[a], now)
                          THEN unsaved ELSE unsaved \cup {a}
    /\ Goto(p, Doing(p, a, {}, NoAuth, When(auths[a] # NoAuth, <<"reschedule">>) \o After(p)))
    /\ RefreshFrame
    /\ UNCHANGED <<minted, expires, refreshLocks, jobs, spent, reverted>>

(* The same without the deferred unlock. *)
RefreshCancelledLocked(p) ==
    /\ At(p, "refresh") /\ p \notin Workers
    /\ Goto(p, Rejected(p))
    /\ RefreshFrame
    /\ UNCHANGED <<auths, sched, unsaved, minted, expires, refreshLocks, jobs, spent,
                   reverted>>

(* The client of the request went away. *)
RefreshCancelled(p) ==
    /\ At(p, "refresh") /\ p \notin Workers
    /\ Goto(p, Doing(p, proc[p].a, {}, NoAuth, After(p)))
    /\ RefreshFrame
    /\ UNCHANGED <<auths, sched, unsaved, minted, expires, refreshLocks, jobs, spent,
                   reverted>>

UnlockRefresh(p) ==
    /\ At(p, "unlock")
    /\ refreshLocks' = [refreshLocks EXCEPT ![proc[p].a] = {}]
    /\ Goto(p, CASE p \in Workers -> Continue(p)
                 [] p \notin Workers /\ proc[p].snap = NoAuth -> Rejected(p)
                 [] OTHER -> Retried(p, proc[p].snap))
    /\ RefreshFrame
    /\ UNCHANGED <<auths, sched, unsaved, minted, expires, jobs, spent, reverted>>

Refreshing(p) ==
    \/ TakeJob(p) \/ Unauthorized(p) \/ LockRefresh(p)
    \/ RefreshSucceeds(p) \/ RefreshIneffective(p) \/ StoreRefreshed(p)
    \/ \E err \in {"unauthorized", "other"} : RefreshFails(p, err)
    \/ RefreshCancelled(p) \/ UnlockRefresh(p)

-----------------------------------------------------------------------------
(* The operations of AuthConductor beside the refreshes. *)

(* A login brings a token that has a lifetime of its own. *)
Beside ==
    /\ expires' = IF minted' = minted THEN expires
                  ELSE [expires EXCEPT ![minted'] = now + Lifetime]
    /\ UNCHANGED <<refreshLocks, jobs, loop, spent>>
    /\ reverted' = Reverting(FALSE)

Unscheduling(p) == IF At(p, "unschedule") THEN dropped \cup {proc[p].a} ELSE dropped

RStep(p) == Step(p) /\ Beside /\ dropped' = Unscheduling(p)

(* A 401 is reported once the refresh has been tried. *)
Report(p, o) ==
    /\ MarkResult(p, o) /\ (o = "unauthorized" => proc[p].tried)
    /\ Beside /\ UNCHANGED dropped

RRestart(p) ==
    /\ Restart(p)
    /\ refreshLocks' = [a \in Auths |-> {}]
    /\ jobs' = <<>> /\ loop' = Waiting /\ dropped' = {}
    /\ UNCHANGED <<expires, spent>>
    /\ reverted' = Reverting(TRUE)

ROperation(p) ==
    /\ \/ \E a \in Auths, m \in Requested : Pick(p, a, m)
       \/ \E m \in Requested : PickFails(p, m)
       \/ \E a \in Auths : EditBegin(p, a) \/ Register(p, a) \/ DeleteFile(p, a)
                           \/ ResetQuota(p, a)
    /\ Beside /\ UNCHANGED dropped

RNext ==
    \/ Tick /\ UNCHANGED refreshVars
    \/ Loop
    \/ \E p \in Procs : Refreshing(p) \/ RStep(p)
    \/ \E p \in Procs \ Workers :
          ROperation(p) \/ RRestart(p) \/ \E o \in Outcomes : Report(p, o)

RSpec == RInit /\ [][RNext]_allVars

(* The loop and the workers run, an upstream answers in the end and a      *)
(* goroutine goes on with what it has begun; operations need not begin,    *)
(* and no answer need be a success.                                        *)
RFairSpec ==
    /\ RSpec
    /\ WF_allVars(Loop)
    /\ \A p \in Procs : WF_allVars(Refreshing(p) \/ RStep(p)
                                   \/ \E o \in Outcomes : Report(p, o))

-----------------------------------------------------------------------------
(* Properties. *)

(* The loop looks at credentials, and has one in hand from its decision    *)
(* about it to the heap or the job queue.                                  *)
LoopType ==
    /\ DOMAIN loop = DOMAIN Waiting
    /\ loop.pc \in {"wait", "dirty", "due", "put", "mark", "again", "send"}
    /\ loop.t \in Nat /\ loop.left \subseteq Auths /\ loop.next \in Nat
    /\ loop.pc \in {"put", "mark", "again", "send"} =>
          loop.a \in Auths /\ loop.from \in {"dirty", "due"}

(* Types of the refresh state; a lock has one holder and the job queue its *)
(* capacity.                                                               *)
RTypeOK ==
    /\ expires \in [1 .. MaxTokens -> Nat]
    /\ DOMAIN refreshLocks = Auths
    /\ \A a \in Auths : refreshLocks[a] = {} \/ \E p \in Procs : refreshLocks[a] = {p}
    /\ jobs \in Seq(Auths) /\ Len(jobs) <= JobBuffer
    /\ LoopType
    /\ dropped \subseteq Auths /\ reverted \subseteq Auths
    /\ spent \subseteq Auths \X (1 .. minted)

(* Someone will still look at a's next refresh. *)
InHand(a) ==
    \/ a \in dirty
    \/ loop.pc # "wait" /\ (a \in loop.left \/ (loop.a = a /\ loop.pc \in {"put", "mark", "again", "send"}))
    \/ \E i \in DOMAIN jobs : jobs[i] = a
    \/ \E p \in Procs : /\ proc[p].a = a
                        /\ \/ proc[p].pc = "reschedule"
                           \/ \E i \in DOMAIN proc[p].todo : proc[p].todo[i] = "reschedule"
                           \/ p \in Workers /\ proc[p].pc # "idle"

(* A credential that can be refreshed never falls out of the loop: it is   *)
(* in the heap or on its way there, unless the loop has taken it off, for  *)
(* a 401 or a removal, and nothing has put it back.                        *)
RefreshScheduled ==
    \A a \in Auths : NextRefreshCheckAt(auths[a], now) # 0
                       => heap[a] # 0 \/ InHand(a) \/ a \in dropped

(* A refresh token is spent once, however many workers and requests meet:  *)
(* the provider is never asked to renew a token it has already replaced,   *)
(* unless a stale Update or a crash has brought that token back.           *)
RefreshTokenUsedOnce ==
    [][\A p \in Procs : At(p, "lock") /\ proc'[p].pc = "refresh"
          => \/ <<proc[p].a, proc'[p].snap.token>> \notin spent
             \/ proc[p].a \in reverted]_allVars

(* A credential whose token is due is refreshed: the executor is asked,    *)
(* unless it stops being due and nobody has a job for it, or the loop has  *)
(* taken it off.                                                           *)
Attempted(a) == \E p \in Procs : proc[p].a = a /\ At(p, "refresh")

DueIsRefreshed ==
    \A a \in Auths :
        ShouldRefresh(auths[a], now)
            ~> \/ Attempted(a) \/ a \in dropped
               \/ ~ShouldRefresh(auths[a], now) /\ ~InHand(a)

-----------------------------------------------------------------------------
(* What the safety properties need besides themselves.  Together with      *)
(* AuthConductor's IndInv and RTypeOK these parts are inductive.           *)

(* No token is in use that was not issued. *)
Issued(x, last) == x # NoAuth => x.token <= last
TokensIssued ==
    /\ \A a \in Auths : Issued(auths[a], minted) /\ Issued(disk[a], minted)
    /\ \A p \in Procs : Issued(proc[p].snap, minted)

(* Who refreshes, or has still to unlock, holds the credential's lock. *)
Holds(r) == r.pc \in {"refresh", "update"} \/ "unlock" \in Ahead(r)
LocksInv == \A p \in Procs : Holds(proc[p]) => refreshLocks[proc[p].a] = {p}

(* It unlocks once, as the last thing it does but for a worker, whose last *)
(* thing is to ask for a new look at the credential.                       *)
Rest(p) == IF p \in Workers THEN 1 ELSE 0
UnlocksLast(r, rest) ==
    /\ r.pc = "unlock" => Len(r.todo) = rest
    /\ \A i \in DOMAIN r.todo : r.todo[i] = "unlock" => i = Len(r.todo) - rest
UnlocksInv == \A p \in Procs : UnlocksLast(proc[p], Rest(p))

LastIsReschedule(r) == IF r.todo = <<>> THEN r.pc = "reschedule"
                       ELSE r.todo[Len(r.todo)] = "reschedule"
WorkersInv == \A p \in Workers :
    /\ proc[p].pc \notin {"idle", "lock", "refresh", "update"} => LastIsReschedule(proc[p])
    /\ proc[p].pc = "lock" => proc[p].token = 0

(* A credential in the map is in the heap or on its way there, or dropped, *)
(* whether it can be refreshed at present or not.                          *)
ScheduledInv == \A a \in Auths : auths[a] # NoAuth
                                  => heap[a] # 0 \/ InHand(a) \/ a \in dropped

(* A spent token is in the map only while its refresh has still to store   *)
(* the token that replaces it.                                             *)
Replacing(p, a) ==
    /\ proc[p].pc = "update" /\ proc[p].a = a
    /\ <<a, proc[p].snap.token>> \notin spent
SpentInv == \A a \in Auths \ reverted :
    auths[a] # NoAuth /\ <<a, auths[a].token>> \in spent => \E p \in Procs : Replacing(p, a)

RIndInv ==
    /\ IndInv /\ RTypeOK /\ TokensIssued /\ LocksInv /\ UnlocksInv /\ WorkersInv
    /\ ScheduledInv /\ SpentInv
=============================================================================
