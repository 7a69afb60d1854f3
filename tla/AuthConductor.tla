--------------------------- MODULE AuthConductor ---------------------------
(***************************************************************************)
(* The credential manager of sdk/cliproxy/auth: the map Manager.auths,     *)
(* the availability MarkResult keeps for every credential and model, the   *)
(* scheduler's copies that requests are picked from, the credential files  *)
(* and the saved cooldowns.                                                *)
(*                                                                         *)
(* Manager.mu protects the map only.  An operation changes the map, takes  *)
(* a clone and unlocks; the clone reaches the scheduler, the refresh loop, *)
(* the file and the cooldown store afterwards.  Every goroutine p carries  *)
(* the steps it still has to do, in the code's order, in proc[p].todo.     *)
(*                                                                         *)
(* Times are numbers: 0 is the zero time.  The counters of requests, the   *)
(* status texts, the models a credential supports, priorities, weights and *)
(* cursors are left out: a pick may return any ready credential.           *)
(***************************************************************************)
EXTENDS Integers, Sequences, FiniteSets, FiniteSetsExt

CONSTANTS
    Auths,              \* credential ids
    Models,             \* models with a state of their own
    Procs,              \* goroutines: requests and management calls
    Outcomes,           \* what executions may return
    Cooling,            \* FALSE: the process starts with disable-cooling
    Requested,          \* the models requests name: Models, perhaps NoModel
    NoModel,            \* a request that names no model
    NoAuth,             \* no entry under an id
    NoState,            \* a model without an entry in ModelStates
    LongCooldown,       \* 30 minutes and 12 hours
    TransientCooldown,  \* one minute or as configured; 0: a negative setting
    RetryAfter,         \* a provider's hint, of any length
    ChallengeCooldown,  \* the least after a Cloudflare challenge, 10 seconds
    QuotaBackoffMax,    \* cap of the quota backoff, whose base is 1
    MaxTime,            \* bound on the clock
    MaxTokens,          \* bound on the access tokens ever issued
    MaxOps              \* bound on the operations and crashes

(* Durations are numbers and there is a token for every first credential.  *)
ASSUME ConductorAssumption ==
    /\ LongCooldown \in Nat \ {0} /\ TransientCooldown \in Nat
    /\ RetryAfter \in Nat /\ ChallengeCooldown \in Nat
    /\ QuotaBackoffMax \in Nat \ {0}
    /\ MaxTime \in Nat \ {0} /\ MaxTokens \in Nat \ {0}
    /\ IsFiniteSet(Auths) /\ IsFiniteSet(Models)
    /\ NoModel \notin Models /\ Requested \subseteq Models \cup {NoModel}
    /\ MaxOps \in Nat /\ Cooling \in BOOLEAN

VARIABLES
    now,        \* the clock
    cooling,    \* FALSE: the configuration switches cooldowns off
    auths,      \* Manager.auths
    sched,      \* the scheduler's clone of each credential
    disk,       \* credential files: what a start loads
    store,      \* saved cooldowns: one file per credential
    unsaved,    \* history: credentials with cooldowns no save has been asked for
    suspended,  \* the model registry: suspended (credential, model) pairs
    cfgMu,      \* holder of configCooldownMu, or {}
    heap,       \* the refresh loop's heap: when each credential is due, 0: absent
    dirty,      \* credentials the refresh loop must look at again
    minted,     \* the last access token issued
    ops,        \* operations and crashes so far
    proc        \* the goroutines

vars == <<now, cooling, auths, sched, disk, store, unsaved, suspended, cfgMu, heap,
          dirty, minted, ops, proc>>

-----------------------------------------------------------------------------
(* Availability of one model, or of the whole credential.  The field skips *)
(* is a history of the model: the challenges and hints since the level was *)
(* last reset.                                                             *)

Clean == [unavail |-> FALSE, retry |-> 0, exceeded |-> FALSE, recover |-> 0,
          level |-> 0, skips |-> 0, err |-> "none"]

Times == 0 .. (MaxTime + LongCooldown + TransientCooldown + QuotaBackoffMax
                       + RetryAfter + ChallengeCooldown)

State == [unavail : BOOLEAN, retry : Times, exceeded : BOOLEAN,
          recover : Times, level : 0 .. (QuotaBackoffMax - 1), skips : Nat,
          err : {"none", "unauthorized", "other"}]

Auth == [disabled : BOOLEAN, token : 1 .. MaxTokens, refreshAt : Nat,
         top : State, models : [Models -> State \cup {NoState}]]

(* A nil entry is none of the values it stands in for. *)
ASSUME NilAssumption == NoState \notin State /\ NoAuth \notin Auth

(* availabilityBlock: a deadline that has passed no longer blocks, a       *)
(* failure without a deadline blocks until something clears it.            *)
AvailabilityBlock(st, t) ==
    /\ st.unavail \/ st.exceeded
    /\ \/ st.retry > t \/ st.recover > t
       \/ st.retry = 0 /\ st.recover = 0

(* isAuthBlockedForModel. *)
Blocked(auth, m, t) ==
    \/ auth.disabled
    \/ IF m # NoModel /\ \E n \in Models : auth.models[n] # NoState
       THEN auth.models[m] # NoState /\ AvailabilityBlock(auth.models[m], t)
       ELSE AvailabilityBlock(auth.top, t)

(* 1 << level. *)
Pow2[n \in Nat] == IF n = 0 THEN 1 ELSE 2 * Pow2[n - 1]

(* nextQuotaCooldown: duration and next level. *)
NextQuotaCooldown(level) ==
    IF Pow2[level] >= QuotaBackoffMax THEN <<QuotaBackoffMax, level>>
                                      ELSE <<Pow2[level], level + 1>>

(* A form of quotaCooldownAfterFailure that never reuses a window. *)
QuotaCooldownAlwaysEscalates(st, t) ==
    LET c == NextQuotaCooldown(st.level) IN <<t + c[1], c[2]>>

(* quotaCooldownAfterFailure: a failure inside an open window reuses it. *)
QuotaCooldownAfterFailure(st, t) ==
    IF st.recover > t THEN <<st.recover, st.level>>
    ELSE LET c == NextQuotaCooldown(st.level) IN <<t + c[1], c[2]>>

(* nextCloudflareCooldown: every challenge escalates, window or not. *)
NextCloudflareCooldown(level, t) ==
    LET c == NextQuotaCooldown(level)
    IN  <<t + (IF c[1] < ChallengeCooldown THEN ChallengeCooldown ELSE c[1]), c[2]>>

(* The failure branches of MarkResult and of applyAuthFailureState.  The   *)
(* outcomes: unauthorized (401), denied (402, 403, 404, invalid_grant),    *)
(* unsupported (not cleared by switching cooldowns off), challenge (a page *)
(* of Cloudflare's), quota (429), retry_after (429 with a hint), transient *)
(* (every other failure).                                                  *)
Failed(st, o, t) ==
    LET err == IF o = "unauthorized" THEN "unauthorized" ELSE "other"
        fixed(until) == [st EXCEPT !.unavail = TRUE, !.retry = until, !.err = err]
        quota(w, skipped) ==
            [unavail |-> TRUE, retry |-> w[1], exceeded |-> TRUE,
             recover |-> w[1], level |-> w[2], skips |-> st.skips + skipped, err |-> err]
        wait == cooling /\ TransientCooldown > 0
        after ==
            CASE o = "unsupported" -> fixed(t + LongCooldown)
              [] o \in {"unauthorized", "denied"} ->
                     fixed(IF cooling THEN t + LongCooldown ELSE 0)
              [] o \in {"challenge", "quota", "retry_after"} /\ ~cooling ->
                     quota(<<0, st.level>>, 0)
              [] o = "challenge" /\ cooling -> quota(NextCloudflareCooldown(st.level, t), 1)
              [] o = "quota" /\ cooling -> quota(QuotaCooldownAfterFailure(st, t), 0)
              [] o = "retry_after" /\ cooling -> quota(<<t + RetryAfter, st.level>>, 1)
              [] OTHER -> [fixed(IF wait THEN t + TransientCooldown ELSE 0)
                              EXCEPT !.unavail = wait]
    IN  IF ~cooling /\ after.retry = 0 /\ after.recover = 0
        THEN [after EXCEPT !.unavail = FALSE, !.exceeded = FALSE]
        ELSE after

(* The least of the deadlines that are set, 0 when there is none. *)
Earliest(T) == IF T \ {0} = {} THEN 0 ELSE Min(T \ {0})

(* updateAggregatedAvailability: expired model entries are opened, and the *)
(* credential is unavailable when all its models are.                      *)
Aggregated(auth, t) ==
    LET settle(st) == IF st # NoState /\ st.unavail /\ st.retry # 0 /\ st.retry <= t
                      THEN [st EXCEPT !.unavail = FALSE, !.retry = 0] ELSE st
        ms   == [m \in Models |-> settle(auth.models[m])]
        own  == {ms[m] : m \in {n \in Models : ms[n] # NoState}}
        down == own # {} /\ \A st \in own : st.unavail /\ st.retry > t
        over == {st \in own : st.exceeded}
    IN  [auth EXCEPT
           !.models = ms,
           !.top = [unavail  |-> down,
                    retry    |-> IF down THEN Earliest({st.retry : st \in own}) ELSE 0,
                    exceeded |-> over # {},
                    recover  |-> Earliest({st.recover : st \in over}),
                    level    |-> IF over = {} THEN 0 ELSE Max({st.level : st \in over}),
                    skips    |-> 0,
                    err      |-> auth.top.err]]

HasModelError(auth) ==
    \E m \in Models : auth.models[m] # NoState /\ auth.models[m].err # "none"

(* clearCooldownStateForAuth: deadlines and quotas go, errors stay. *)
Opened(st) ==
    IF st = NoState THEN NoState
    ELSE IF st.unavail \/ st.exceeded \/ st.retry # 0 \/ st.recover # 0
    THEN [Clean EXCEPT !.err = st.err] ELSE st

ClearedCooldown(auth, t) ==
    LET open == [auth EXCEPT !.top = Opened(@),
                             !.models = [m \in Models |-> Opened(@[m])]]
    IN  IF \E m \in Models : auth.models[m] # NoState THEN Aggregated(open, t)
                                                      ELSE open

-----------------------------------------------------------------------------
(* What a credential leaves in the cooldown store and in its file. *)

Cools(st, t) == st # NoState /\ st.unavail /\ st.retry > t

(* cooldownStateRecordsForAuthLocked. *)
RecordsIf(on, auth, t) ==
    IF auth = NoAuth \/ ~on THEN {}
    ELSE IF auth.disabled THEN {}
    ELSE {[m |-> m, st |-> auth.models[m]] : m \in {n \in Models : Cools(auth.models[n], t)}}
         \cup (IF Cools(auth.top, t) THEN {[m |-> NoModel, st |-> auth.top]} ELSE {})

Records(auth, t) == RecordsIf(cooling, auth, t)

(* The records a credential takes back: none when it is off.              *)
Live(auth, recs, t) ==
    IF auth = NoAuth \/ ~cooling THEN {}
    ELSE IF auth.disabled THEN {} ELSE {r \in recs : r.st.retry > t}

(* Mutant: the credential's own record first, which the models' then hide. *)
RestoredOwnFirst(auth, recs, t) ==
    LET of(m) == {r \in Live(auth, recs, t) : r.m = m}
        ms    == [m \in Models |-> IF of(m) = {} THEN auth.models[m]
                                  ELSE (CHOOSE r \in of(m) : TRUE).st]
        own   == IF of(NoModel) = {} THEN auth
                 ELSE [auth EXCEPT !.top = (CHOOSE r \in of(NoModel) : TRUE).st]
    IN  IF \E m \in Models : of(m) # {}
        THEN Aggregated([own EXCEPT !.models = ms], t) ELSE own

(* restoreCooldownRecordLocked for the records of one credential, the      *)
(* model entries before the credential's own.                              *)
Restored(auth, recs, t) ==
    IF Live(auth, recs, t) = {} THEN auth
    ELSE LET of(m) == {r \in Live(auth, recs, t) : r.m = m}
             ms   == [m \in Models |-> IF of(m) = {} THEN auth.models[m]
                                       ELSE (CHOOSE r \in of(m) : TRUE).st]
             agg  == IF \E m \in Models : of(m) # {}
                     THEN Aggregated([auth EXCEPT !.models = ms], t) ELSE auth
         IN  IF of(NoModel) = {} THEN agg
             ELSE [agg EXCEPT !.top = (CHOOSE r \in of(NoModel) : TRUE).st]

File(auth) == [disabled |-> auth.disabled, token |-> auth.token]

Fresh(f) == [disabled |-> f.disabled, token |-> f.token, refreshAt |-> 0,
             top |-> Clean, models |-> [m \in Models |-> NoState]]

(* The scheduler holds no disabled credential: upsertAuthLocked. *)
Schedulable(auth) ==
    IF auth = NoAuth THEN NoAuth ELSE IF auth.disabled THEN NoAuth ELSE auth

-----------------------------------------------------------------------------
(* Goroutines. *)

Idle == [pc |-> "idle", a |-> NoAuth, m |-> NoModel, ms |-> {}, snap |-> NoAuth,
         token |-> 0, tried |-> FALSE, todo |-> <<>>, copy |-> NoAuth, left |-> {}]

At(p, l) == proc[p].pc = l

(* One more operation of an idle goroutine, or a crash. *)
Spend == ops < MaxOps /\ ops' = ops + 1
Begin(p) == At(p, "idle") /\ Spend
Goto(p, r) == proc' = [proc EXCEPT ![p] = r]

(* The rest of an operation of p on a and its models ms, to be done        *)
(* outside Manager.mu.                                                     *)
Doing(p, a, ms, snap, todo) ==
    IF todo = <<>> THEN Idle
    ELSE [Idle EXCEPT !.pc = Head(todo), !.a = a, !.m = proc[p].m, !.ms = ms,
                      !.snap = snap, !.todo = Tail(todo)]

Continue(p) == Doing(p, proc[p].a, proc[p].ms, proc[p].snap, proc[p].todo)

When(c, s) == IF c THEN s ELSE <<>>

Init ==
    /\ now = 1 /\ cooling = Cooling /\ minted = 1 /\ ops = 0
    /\ auths = [a \in Auths |-> Fresh([disabled |-> FALSE, token |-> 1])]
    /\ sched = auths
    /\ disk = [a \in Auths |-> File(auths[a])]
    /\ store = [a \in Auths |-> {}]
    /\ unsaved = {}
    /\ suspended = {}
    /\ cfgMu = {}
    /\ heap = [a \in Auths |-> 0]
    /\ dirty = Auths
    /\ proc = [p \in Procs |-> Idle]

(* The clock advances; nothing in the code waits for a fixed number of steps. *)
Tick == now < MaxTime /\ now' = now + 1
        /\ UNCHANGED <<cooling, auths, sched, disk, store, unsaved, suspended, cfgMu,
                       heap, dirty, minted, ops, proc>>

(* pickNext on the scheduler's copies. *)
Ready(a, m) == sched[a] # NoAuth /\ ~Blocked(sched[a], m, now)

Picked(p, a, m) ==
    /\ Ready(a, m)
    /\ Goto(p, [Idle EXCEPT !.pc = "exec", !.a = a, !.m = m, !.token = sched[a].token])
    /\ UNCHANGED <<now, cooling, auths, sched, disk, store, unsaved, suspended, cfgMu,
                   heap, dirty, minted>>

Pick(p, a, m) == Begin(p) /\ Picked(p, a, m)

(* The pick failed: the manager's map is copied ...                        *)
PickFails(p, m) ==
    /\ Begin(p) /\ m # NoModel
    /\ \A a \in Auths : ~Ready(a, m)
    /\ Goto(p, [Idle EXCEPT !.pc = "rebuild", !.m = m, !.copy = auths])
    /\ UNCHANGED <<now, cooling, auths, sched, disk, store, unsaved, suspended, cfgMu,
                   heap, dirty, minted>>

(* ... and the scheduler rebuilt from the copy: syncScheduler. *)
Rebuild(p) ==
    /\ At(p, "rebuild")
    /\ sched' = [a \in Auths |-> Schedulable(proc[p].copy[a])]
    /\ Goto(p, [Idle EXCEPT !.pc = "repick", !.m = proc[p].m])
    /\ UNCHANGED <<now, cooling, auths, disk, store, unsaved, suspended, cfgMu, heap,
                   dirty, minted, ops>>

PickAgain(p, a) == At(p, "repick") /\ UNCHANGED ops /\ Picked(p, a, proc[p].m)

(* The second pick fails too: the client gets the error. *)
GiveUp(p) ==
    /\ At(p, "repick") /\ \A a \in Auths : ~Ready(a, proc[p].m)
    /\ Goto(p, Idle)
    /\ UNCHANGED <<now, cooling, auths, sched, disk, store, unsaved, suspended, cfgMu,
                   heap, dirty, minted, ops>>

-----------------------------------------------------------------------------
(* Results. *)

(* FileTokenStore.Save: no file is made for a disabled credential. *)
Saved(a, auth) ==
    IF auth.disabled /\ disk[a] = NoAuth THEN disk
    ELSE [disk EXCEPT ![a] = File(auth)]

(* The credential after a result, under Manager.mu: only MarkResult knows  *)
(* that a model is not supported, applyAuthFailureState waits as after any *)
(* other failure.                                                          *)
AfterResult(auth, m, o, t) ==
    CASE o = "scoped" -> auth
      [] o = "ok" /\ m = NoModel -> [auth EXCEPT !.top = Clean]
      [] o = "ok" /\ m # NoModel ->
            LET agg == Aggregated([auth EXCEPT !.models[m] = Clean], t)
            IN  IF HasModelError(agg) THEN agg ELSE [agg EXCEPT !.top.err = "none"]
      [] o \notin {"ok", "scoped"} /\ m = NoModel ->
            [auth EXCEPT !.top = Failed(@, IF o = "unsupported" THEN "transient" ELSE o, t)]
      [] OTHER ->
            LET st  == IF auth.models[m] = NoState THEN Clean ELSE auth.models[m]
                bad == Failed(st, o, t)
            IN  Aggregated([auth EXCEPT !.models[m] = bad, !.top.err = bad.err], t)

(* Which results make the model registry stop or resume offering the model. *)
RegistryStep(m, o) ==
    IF m = NoModel THEN <<>>
    ELSE IF o = "ok" THEN <<"resume">>
    ELSE When(o = "unsupported" \/ (cooling /\ o \notin {"scoped", "transient", "challenge"}),
              <<"suspend">>)

(* MarkResult: the map, the credential's file and the clone under          *)
(* Manager.mu; scheduler, cooldown store and registry afterwards.          *)
MarkResult(p, o) ==
    /\ At(p, "exec") \/ (At(p, "rejected") /\ o = "unauthorized")
    /\ LET a == proc[p].a  m == proc[p].m  old == auths[a] IN
         IF old = NoAuth THEN Goto(p, Idle) /\ UNCHANGED <<auths, disk>>
         ELSE LET new == AfterResult(old, m, o, now)
                  changed == \/ Records(old, now) # Records(new, now)
                             \/ o \notin {"ok", "scoped"}
                                /\ \E r \in Records(new, now) : r.m = m
              IN  /\ auths' = [auths EXCEPT ![a] = new]
                  /\ disk' = Saved(a, new)
                  /\ Goto(p, Doing(p, a, {m}, new, <<"publish">>
                                             \o When(changed, <<"persist">>)
                                             \o RegistryStep(m, o)))
    /\ UNCHANGED <<now, cooling, sched, store, unsaved, suspended, cfgMu, heap, dirty,
                   minted, ops>>

(* scheduler.upsertAuth with the clone taken under Manager.mu. *)
Publish(p) ==
    /\ At(p, "publish")
    /\ sched' = [sched EXCEPT ![proc[p].a] = Schedulable(proc[p].snap)]
    /\ Goto(p, Continue(p))
    /\ UNCHANGED <<now, cooling, auths, disk, store, unsaved, suspended, cfgMu, heap,
                   dirty, minted, ops>>

(* SuspendClientModel and ResumeClientModel of the model registry. *)
Registry(p) ==
    /\ \/ At(p, "suspend") /\ suspended' = suspended \cup ({proc[p].a} \X proc[p].ms)
       \/ At(p, "resume") /\ suspended' = suspended \ ({proc[p].a} \X proc[p].ms)
    /\ Goto(p, Continue(p))
    /\ UNCHANGED <<now, cooling, auths, sched, disk, store, unsaved, cfgMu, heap, dirty,
                   minted, ops>>

-----------------------------------------------------------------------------
(* Saving and restoring cooldowns, under configCooldownMu. *)

(* persistCooldownStatesToLocked takes its records once it holds the lock; *)
(* the first form takes them from the scheduler's copies.                  *)
TakeRecordsOfScheduler(p) == [a \in Auths |-> Records(sched[a], now)]

TakeRecords(p) == [a \in Auths |-> Records(auths[a], now)]

PersistBegin(p) ==
    /\ At(p, "persist") /\ cfgMu \subseteq {p}
    /\ cfgMu' = {p} /\ unsaved' = {}
    /\ Goto(p, [proc[p] EXCEPT !.pc = "saving", !.copy = TakeRecords(p), !.left = Auths])
    /\ UNCHANGED <<now, cooling, auths, sched, disk, store, suspended, heap,
                   dirty, minted, ops>>

(* FileCooldownStateStore.Save writes the files of the credentials that    *)
(* cool, one by one, then removes the others.                              *)
SaveFile(p, a) ==
    /\ At(p, "saving") /\ a \in proc[p].left
    /\ proc[p].copy[a] # {} \/ \A b \in proc[p].left : proc[p].copy[b] = {}
    /\ store' = [store EXCEPT ![a] = proc[p].copy[a]]
    /\ IF proc[p].left = {a}
       THEN cfgMu' = {} /\ Goto(p, Continue(p))
       ELSE UNCHANGED cfgMu /\ Goto(p, [proc[p] EXCEPT !.left = @ \ {a}])
    /\ UNCHANGED <<now, cooling, auths, sched, disk, unsaved, suspended, heap, dirty,
                   minted, ops>>

(* An error of the file system ends the save; it is logged and forgotten,  *)
(* and a configuration change stops there.                                 *)
SaveFails(p) ==
    /\ At(p, "saving")
    /\ cfgMu' = {} /\ unsaved' = Auths
    /\ Goto(p, IF proc[p].todo = <<"load">> THEN Idle ELSE Continue(p))
    /\ UNCHANGED <<now, cooling, auths, sched, disk, store, suspended, heap,
                   dirty, minted, ops>>

(* Publishing several clones one after the other. *)
Republishing(p, copy, left, todo) ==
    IF left = {} THEN Doing(p, NoAuth, {}, NoAuth, todo)
    ELSE [Idle EXCEPT !.pc = "republish", !.copy = copy, !.left = left, !.todo = todo]

Republish(p, a) ==
    /\ At(p, "republish") /\ a \in proc[p].left
    /\ sched' = [sched EXCEPT ![a] = Schedulable(proc[p].copy[a])]
    /\ Goto(p, Republishing(p, proc[p].copy, proc[p].left \ {a}, proc[p].todo))
    /\ UNCHANGED <<now, cooling, auths, disk, store, unsaved, suspended, cfgMu,
                   heap, dirty, minted, ops>>

(* A configuration that switches cooldowns on or off: the states are       *)
(* cleared where cooldowns are off, the result saved before the lock goes, *)
(* and the saved cooldowns are restored: applyConfigRuntime.               *)
SetConfig(p) ==
    /\ Begin(p) /\ cfgMu = {}
    /\ cfgMu' = {p} /\ cooling' = ~cooling
    /\ auths' = [a \in Auths |->
                   IF auths[a] = NoAuth \/ (cooling' /\ ~auths[a].disabled)
                   THEN auths[a] ELSE ClearedCooldown(auths[a], now)]
    /\ Goto(p, Republishing(p, auths', {a \in Auths : auths'[a] # auths[a]},
                            <<"persist", "load">>))
    /\ UNCHANGED <<now, sched, disk, store, unsaved, suspended, heap, dirty,
                   minted>>

(* RestoreCooldownStates reads the store without a lock ... *)
LoadRecords(p) ==
    /\ At(p, "load")
    /\ Goto(p, IF \A a \in Auths : store[a] = {} THEN Idle
               ELSE [proc[p] EXCEPT !.pc = "restore", !.copy = store])
    /\ UNCHANGED <<now, cooling, auths, sched, disk, store, unsaved, suspended,
                   cfgMu, heap, dirty, minted, ops>>

(* ... and puts what has not expired back under Manager.mu. *)
Restore(p) ==
    /\ At(p, "restore")
    /\ auths' = [a \in Auths |-> Restored(auths[a], proc[p].copy[a], now)]
    /\ Goto(p, Republishing(p, auths', {a \in Auths : Live(auths[a], proc[p].copy[a], now) # {}},
                            <<"persist">>))
    /\ UNCHANGED <<now, cooling, sched, disk, store, unsaved, suspended, cfgMu,
                   heap, dirty, minted, ops>>

-----------------------------------------------------------------------------
(* Management. *)

(* Manager.Update without its look at the map, which would bring back a    *)
(* credential removed meanwhile.                                           *)
UpdateToBlindly(p, a, auth, ms, after) ==
    /\ auths' = [auths EXCEPT ![a] = auth]
    /\ UNCHANGED unsaved
    /\ Goto(p, Doing(p, a, ms, auth, <<"publish", "reschedule", "file">> \o after))

(* Manager.Update of a credential that was cloned earlier; the caller goes *)
(* on with the registry entries ms and the steps after.                    *)
UpdateTo(p, a, auth, ms, after) ==
    LET old == auths[a] IN
    IF old = NoAuth THEN Goto(p, Doing(p, a, ms, auth, after)) /\ UNCHANGED <<auths, unsaved>>
    ELSE LET none == \A m \in Models : auth.models[m] = NoState
             inh  == IF ~old.disabled /\ ~auth.disabled /\ none
                     THEN [auth EXCEPT !.models = old.models] ELSE auth
             new  == IF ~cooling \/ inh.disabled THEN ClearedCooldown(inh, now) ELSE inh
         IN  /\ auths' = [auths EXCEPT ![a] = new]
             /\ unsaved' = IF Records(new, now) \subseteq Records(old, now)
                           THEN unsaved ELSE unsaved \cup {a}
             /\ Goto(p, Doing(p, a, ms, new, <<"publish", "reschedule", "file">>
                                             \o When(new # inh, <<"persist">>) \o after))

(* PatchAuthFileStatus: clone the credential ... *)
EditBegin(p, a) ==
    /\ Begin(p) /\ auths[a] # NoAuth
    /\ Goto(p, [Idle EXCEPT !.pc = "edit", !.a = a, !.snap = auths[a]])
    /\ UNCHANGED <<now, cooling, auths, sched, disk, store, unsaved, suspended,
                   cfgMu, heap, dirty, minted>>

(* ... flip its switch and update the manager with the whole clone. *)
EditUpdate(p) ==
    /\ At(p, "edit")
    /\ UpdateTo(p, proc[p].a, [proc[p].snap EXCEPT !.disabled = ~@], {}, <<>>)
    /\ UNCHANGED <<now, cooling, sched, disk, store, suspended, cfgMu, heap,
                   dirty, minted, ops>>

(* queueRefreshReschedule. *)
Reschedule(p) ==
    /\ At(p, "reschedule")
    /\ dirty' = dirty \cup {proc[p].a}
    /\ Goto(p, Continue(p))
    /\ UNCHANGED <<now, cooling, auths, sched, disk, store, unsaved, suspended,
                   cfgMu, heap, minted, ops>>

(* Manager.persist at the end of Update and Register, without Manager.mu. *)
WriteFile(p) ==
    /\ At(p, "file")
    /\ disk' = Saved(proc[p].a, proc[p].snap)
    /\ Goto(p, Continue(p))
    /\ UNCHANGED <<now, cooling, auths, sched, store, unsaved, suspended, cfgMu,
                   heap, dirty, minted, ops>>

(* A login registers a credential that is not there: Manager.Register. *)
Register(p, a) ==
    /\ Begin(p) /\ auths[a] = NoAuth /\ minted < MaxTokens
    /\ minted' = minted + 1
    /\ auths' = [auths EXCEPT ![a] = Fresh([disabled |-> FALSE, token |-> minted'])]
    /\ Goto(p, Doing(p, a, {}, auths'[a], <<"publish", "reschedule", "file">>))
    /\ UNCHANGED <<now, cooling, sched, disk, store, unsaved, suspended, cfgMu,
                   heap, dirty>>

(* Deleting a credential: first its file ... *)
DeleteFile(p, a) ==
    /\ Begin(p) /\ disk[a] # NoAuth
    /\ disk' = [disk EXCEPT ![a] = NoAuth]
    /\ Goto(p, Doing(p, a, {}, NoAuth, <<"remove">>))
    /\ UNCHANGED <<now, cooling, auths, sched, store, unsaved, suspended, cfgMu,
                   heap, dirty, minted>>

(* ... then Manager.Remove: the map, the scheduler, the refresh loop and   *)
(* the saved cooldowns, in that order.                                     *)
Remove(p) ==
    /\ At(p, "remove")
    /\ auths' = [auths EXCEPT ![proc[p].a] = NoAuth]
    /\ Goto(p, IF auths[proc[p].a] = NoAuth THEN Idle
               ELSE Doing(p, proc[p].a, {}, NoAuth,
                          <<"publish", "unschedule", "persist">>))
    /\ UNCHANGED <<now, cooling, sched, disk, store, unsaved, suspended, cfgMu,
                   heap, dirty, minted, ops>>

(* queueRefreshUnschedule. *)
Unschedule(p) ==
    /\ At(p, "unschedule")
    /\ heap' = [heap EXCEPT ![proc[p].a] = 0]
    /\ Goto(p, Continue(p))
    /\ UNCHANGED <<now, cooling, auths, sched, disk, store, unsaved, suspended,
                   cfgMu, dirty, minted, ops>>

(* ResetQuota: every model entry is clean again, the registry resumes the  *)
(* models, then the scheduler and the saved cooldowns follow.              *)
ResetQuota(p, a) ==
    /\ Begin(p) /\ auths[a] # NoAuth
    /\ LET clean == [auths[a] EXCEPT
                       !.models = [m \in Models |-> IF @[m] = NoState THEN NoState ELSE Clean]]
           open == ClearedCooldown(clean, now)
           new  == IF open.disabled THEN open ELSE [open EXCEPT !.top.err = "none"]
       IN  /\ auths' = [auths EXCEPT ![a] = new]
           /\ disk' = Saved(a, new)
           /\ Goto(p, Doing(p, a, Models, new, <<"resume", "publish">>
                        \o When(Records(auths[a], now) # Records(new, now), <<"persist">>)))
    /\ UNCHANGED <<now, cooling, sched, store, unsaved, suspended, cfgMu, heap,
                   dirty, minted>>

-----------------------------------------------------------------------------
(* The process dies and starts again.  Load reads the files and            *)
(* RestoreCooldownStates the saved cooldowns before anything else runs,    *)
(* and the refresh loop looks at every credential; what was restored is    *)
(* saved again.                                                            *)
Restart(p) ==
    /\ Spend
    /\ auths' = [a \in Auths |-> IF disk[a] = NoAuth THEN NoAuth
                                  ELSE Restored(Fresh(disk[a]), store[a], now)]
    /\ sched' = [a \in Auths |-> Schedulable(auths'[a])]
    /\ suspended' = {} /\ cfgMu' = {}
    /\ heap' = [a \in Auths |-> 0] /\ dirty' = Auths
    /\ proc' = [q \in Procs |->
                  IF q = p /\ \E a \in Auths : store[a] # {}
                  THEN [Idle EXCEPT !.pc = "persist"] ELSE Idle]
    /\ UNCHANGED <<now, cooling, disk, store, unsaved, minted>>

(* What an idle goroutine may start, and a crash. *)
Operation(p) ==
    \/ \E a \in Auths, m \in Requested : Pick(p, a, m)
    \/ \E m \in Requested : PickFails(p, m)
    \/ SetConfig(p)
    \/ \E a \in Auths : EditBegin(p, a) \/ Register(p, a) \/ DeleteFile(p, a) \/ ResetQuota(p, a)
    \/ Restart(p)

(* What a goroutine goes on with. *)
Step(p) ==
    \/ \E a \in Auths : PickAgain(p, a) \/ SaveFile(p, a) \/ Republish(p, a)
    \/ Rebuild(p) \/ GiveUp(p)
    \/ Publish(p) \/ Registry(p) \/ PersistBegin(p) \/ SaveFails(p)
    \/ LoadRecords(p) \/ Restore(p)
    \/ EditUpdate(p) \/ Reschedule(p) \/ WriteFile(p) \/ Remove(p) \/ Unschedule(p)

Next ==
    \/ Tick
    \/ \E p \in Procs : Operation(p) \/ Step(p) \/ \E o \in Outcomes : MarkResult(p, o)

Spec == Init /\ [][Next]_vars

-----------------------------------------------------------------------------
(* Properties. *)

(* What a file and the cooldown store hold of a credential. *)
CredentialFile == [disabled : BOOLEAN, token : 1 .. MaxTokens]
Record == [m : Models \cup {NoModel}, st : State]
Entry == Auth \cup {NoAuth}

(* What a goroutine may still have to do after the step it is at; the      *)
(* unlock is AuthRefresh's.                                                *)
Later == {"publish", "reschedule", "file", "persist", "load", "suspend", "resume",
          "unschedule", "unlock"}
Goroutine(r) ==
    /\ DOMAIN r = DOMAIN Idle
    /\ r.a \in Auths \cup {NoAuth} /\ r.m \in Models \cup {NoModel}
    /\ r.ms \subseteq Models \cup {NoModel} /\ r.snap \in Entry
    /\ r.token \in Nat /\ r.tried \in BOOLEAN
    /\ r.todo \in Seq(Later) /\ r.left \subseteq Auths
    /\ r.pc \in {"rebuild", "republish"} => r.copy \in [Auths -> Entry]
    /\ r.pc \in {"saving", "restore"} => r.copy \in [Auths -> SUBSET Record]

(* Every variable has its type; a deadline never passes the longest        *)
(* cooldown and the backoff level stops at its cap.                        *)
TypeOK ==
    /\ now \in 1 .. MaxTime /\ cooling \in BOOLEAN
    /\ auths \in [Auths -> Entry] /\ sched \in [Auths -> Entry]
    /\ disk \in [Auths -> CredentialFile \cup {NoAuth}]
    /\ store \in [Auths -> SUBSET Record]
    /\ minted \in 1 .. MaxTokens /\ ops \in 0 .. MaxOps
    /\ heap \in [Auths -> Nat]
    /\ dirty \subseteq Auths /\ unsaved \subseteq Auths
    /\ suspended \subseteq Auths \X Models
    /\ cfgMu = {} \/ \E p \in Procs : cfgMu = {p}
    /\ DOMAIN proc = Procs /\ \A p \in Procs : Goroutine(proc[p])

(* A save is on its way: someone will take or has taken the records. *)
SavePending == \E p \in Procs : \/ proc[p].pc \in {"persist", "saving"}
                                \/ \E i \in DOMAIN proc[p].todo : proc[p].todo[i] = "persist"

(* persistCooldownStates saves in the order of the changes: once every     *)
(* save asked for is done, each cooldown in the map is in its file, unless *)
(* an Update brought it in or a save failed.                               *)
CooldownsAreSaved ==
    ~SavePending =>
        \A a \in Auths \ unsaved : Records(auths[a], now) \subseteq store[a]

(* The backoff ladder is climbed one window at a time, however many        *)
(* requests fail together and whatever stale clones, restores or restarts  *)
(* do in between: level n takes the n - 1 windows before it, of 1, 2, 4... *)
(* units, waited out one after the other since time 1.  A challenge climbs *)
(* inside an open window and a hint may shorten one: each of them saves    *)
(* one window and no more.                                                 *)
Waited(st) == st.level - st.skips
BackoffIsEarned ==
    \A a \in Auths, m \in Models :
        auths[a] # NoAuth /\ auths[a].models[m] # NoState /\ Waited(auths[a].models[m]) > 0
            => now >= Pow2[Waited(auths[a].models[m]) - 1]

(* A credential that left the map comes back only by a login or a start:   *)
(* no late Update, result or restore brings it back.                       *)
RemovedStaysRemoved ==
    [][\A a \in Auths : auths[a] = NoAuth /\ auths'[a] # NoAuth
                          => minted' > minted \/ \E p \in Procs : Restart(p)]_vars

(* A process that dies after its saves are done forgets no cooldown: the   *)
(* map RestoreCooldownStates rebuilds has every one that was in force.     *)
RestartKeepsCooldowns ==
    [][(\E p \in Procs : Restart(p)) /\ ~SavePending =>
          \A a \in Auths \ unsaved :
             auths[a] # NoAuth /\ auths'[a] # NoAuth /\ disk[a] = File(auths[a])
             => Records(auths[a], now) \subseteq Records(auths'[a], now)]_vars

-----------------------------------------------------------------------------
(* What the properties need besides themselves. Together with TypeOK these *)
(* parts are inductive.                                                    *)

(* The step a goroutine is at and the ones it still has to do. *)
Steps(todo) == {todo[i] : i \in DOMAIN todo}
Ahead(r) == {r.pc} \cup Steps(r.todo)

(* A goroutine has what its steps need, and nothing is left to do after    *)
(* the steps that end an operation or begin it anew.  The steps from lock  *)
(* to unlock are AuthRefresh's.                                            *)
Equipped(r) ==
    /\ Ahead(r) \cap {"exec", "rejected", "edit", "remove", "publish", "reschedule",
                      "file", "unschedule", "suspend", "resume", "lock", "refresh",
                      "update", "unlock"} # {} => r.a \in Auths
    /\ Ahead(r) \cap {"edit", "file", "refresh", "update"} # {} => r.snap \in Auth
    /\ Ahead(r) \cap {"suspend", "resume", "update"} # {} => r.ms \subseteq Models
    /\ r.pc \in {"idle", "exec", "rejected", "rebuild", "repick", "edit", "remove",
                 "load", "restore", "lock", "refresh", "update"} => r.todo = <<>>
    /\ r.pc = "republish" => Steps(r.todo) \subseteq {"persist", "load"}
    /\ \A i \in DOMAIN r.todo : r.todo[i] = "load" => i = Len(r.todo)
HandsInv == \A p \in Procs : Equipped(proc[p])

(* Who saves holds configCooldownMu. *)
MutexInv == \A p \in Procs : proc[p].pc = "saving" => cfgMu = {p}

(* At most one record for each model. *)
Single(recs) == \A r, s \in recs : r.m = s.m => r = s
RecordsInv ==
    /\ \A a \in Auths : Single(store[a])
    /\ \A p \in Procs : proc[p].pc \in {"saving", "restore"} =>
          \A a \in Auths : Single(proc[p].copy[a])

(* The cooldowns of a credential are in the store, or in what a goroutine  *)
(* is about to write there, or a save is still to begin.                   *)
PersistAhead == \E p \in Procs : "persist" \in Ahead(proc[p])
Writes(p, a) == proc[p].pc = "saving" /\ a \in proc[p].left
SavedInv ==
    PersistAhead \/ \A a \in Auths \ unsaved :
        /\ \A p \in Procs : Writes(p, a) => Records(auths[a], now) \subseteq proc[p].copy[a]
        /\ (\A p \in Procs : ~ Writes(p, a)) => Records(auths[a], now) \subseteq store[a]

IndInv == TypeOK /\ HandsInv /\ MutexInv /\ RecordsInv /\ SavedInv

(* The backoff of a model has been waited out, or will have been when its  *)
(* window ends, in the map, in the saved records and in an operator's      *)
(* clone; with cooldowns switched off there is none, and no level without  *)
(* a window.                                                               *)
EarnedAt(st, t) ==
    /\ st.recover = 0 => st.level = 0
    /\ Waited(st) > 0 =>
          /\ t >= Pow2[Waited(st) - 1] /\ st.recover >= Pow2[Waited(st)]
          /\ Pow2[Waited(st) - 1] < QuotaBackoffMax
ModelsEarned(auth, t) ==
    \A m \in Models : auth.models[m] # NoState => EarnedAt(auth.models[m], t)
RecordsEarned(recs, t) == \A r \in recs : r.m # NoModel => EarnedAt(r.st, t)
EarnedInv ==
    /\ ~ cooling => \A a \in Auths, m \in Models :
          auths[a] # NoAuth /\ auths[a].models[m] # NoState => auths[a].models[m].level = 0
    /\ \A a \in Auths : auths[a] # NoAuth => ModelsEarned(auths[a], now)
    /\ \A a \in Auths : RecordsEarned(store[a], now)
    /\ \A p \in Procs : proc[p].pc \in {"saving", "restore"} =>
          \A a \in Auths : RecordsEarned(proc[p].copy[a], now)
    /\ \A p \in Procs : proc[p].pc = "edit" => ModelsEarned(proc[p].snap, now)
=============================================================================
