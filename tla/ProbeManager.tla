---------------------------- MODULE ProbeManager ----------------------------
(***************************************************************************)
(* The asynchronous probe service (internal/core/probe).  The collector    *)
(* hands over batches of usage events through a bounded queue; one worker  *)
(* turns each event into a probe result and adjusts the key it was sent    *)
(* with: its expiry, its priority, its status, the CPA account behind it   *)
(* and the CPA provider configuration.  The same worker scans for expired  *)
(* keys.  Operators edit keys and the configuration at any time, so a read *)
(* of what they edit and the write that rests on it are two steps, and     *)
(* each call to CPA is a step of its own that can fail.                    *)
(***************************************************************************)
EXTENDS Integers, Sequences, FiniteSets

CONSTANTS
    Keys,               \* rows of cpa_auth_detail
    NoKey,              \* the auth index of an event that matches no row
    FileKeys,           \* keys with a CPA auth file
    ProviderKeys,       \* keys of the (one, active) provider
    ProbedKeys,         \* keys whose provider and key policies are enabled
    Hashes,             \* event hashes
    Payloads,           \* what an event may say: key, ts, failed, code
    QueueCap,           \* capacity of m.queue (64)
    MaxBatch,           \* bound on the length of a batch
    MaxDeliveries,      \* bound on the batches the collector hands over
    InitialKeys,        \* initial rows: status, priority, expires
    AdminStatuses,      \* what an operator may set a status to
    MaxEdits,           \* bound on the operator's edits
    MaxFaults,          \* bound on failed database and CPA calls
    MaxTime,            \* bound on the clock
    AutoPriority, AutoStatus, AutoCPA, RenewExpiry,    \* Config: switches
    Renewal, Boost, Penalty, MinPriority, MaxPriority, \* Config: amounts
    FailureThreshold, RecoveryThreshold,
    MaxActionsPerBatch,
    RowLimit            \* LIMIT of the query of CountConsecutive (50)

Row == [status : Int, priority : Int, expires : Nat]
Payload == [key : Keys \cup {NoKey}, ts : Nat, failed : BOOLEAN, code : Int]

ASSUME ProbeAssumption ==
    /\ FileKeys \subseteq Keys /\ ProviderKeys \subseteq Keys
    /\ ProbedKeys \subseteq Keys /\ NoKey \notin Keys \cup Hashes
    /\ Payloads \subseteq Payload /\ InitialKeys \subseteq Row
    /\ AdminStatuses \subseteq Int
    /\ {FailureThreshold, RecoveryThreshold, MaxActionsPerBatch} \subseteq Nat \ {0}
    /\ {QueueCap, MaxBatch, MaxDeliveries, MaxEdits, MaxFaults, RowLimit} \subseteq Nat
    /\ MaxTime \in Nat \ {0} /\ Renewal \in Nat
    /\ {Boost, Penalty, MinPriority, MaxPriority} \subseteq Int
    /\ MinPriority < MaxPriority

VARIABLES
    now,          \* the clock
    event,        \* the payload of each hash
    delivered,    \* batches handed over so far
    queue,        \* m.queue
    dropped,      \* status.DroppedBatches
    savedEnabled, \* Enabled, in the settings table
    enabled,      \* m.cfg.Enabled
    updating,     \* UpdateConfig is between its save and its apply
    key,          \* cpa_auth_detail: status, priority, expires of each key
    results,      \* probe_results in the order of their ids
    lastAction,   \* action of each key's last successful row of probe_action_logs
    offline,      \* CPA: the auth file of a key is disabled
    routed,       \* CPA: the keys among the provider's api-key entries
    w,            \* the worker: its place and its local variables
    edits, faults,\* operators' edits and failures so far
    handled,      \* history: how often each event reached the policies
    overlooked,   \* history: keys whose last failure the policies did not see
    outdated,     \* history: a push failed, or an operator changed a status, since
                  \*   the worker last read the provider's keys
    raced         \* history: an operator changed the status that is being written

dbVars    == <<key, results, lastAction>>
cpaVars   == <<offline, routed>>
cfgVars   == <<savedEnabled, enabled, updating>>
queueVars == <<delivered, queue, dropped>>
histVars  == <<handled, overlooked, outdated, raced>>
vars == <<now, event, queueVars, cfgVars, dbVars, cpaVars, w, edits, faults,
          histVars>>

Action == {"none", "status_expired", "cpa_offline_expired", "expiry_renew",
           "priority_boost", "priority_penalty", "status_invalid",
           "status_recover", "cpa_offline", "cpa_online"}
Places == {"idle", "refresh", "start", "event", "insert", "decide", "priority",
           "status", "statusWrite", "account", "sync", "syncPut", "done",
           "expire", "expireSync", "expirePut", "expireAccount", "scan"}

HasFailed(e) == e.failed \/ e.code >= 400
Failed(h) == HasFailed(event[h])
KeyOf(h) == event[h].key

(* What the worker has at hand: an event and the row of its key, or a scan *)
(* with the rows that were due.                                            *)
Workers ==
    [pc : Places, batch : Seq(Hashes), cur : Hashes \cup {NoKey},
     k : Keys \cup {NoKey}, match : Row, loaded : BOOLEAN, next : Int,
     acted : BOOLEAN, actions : Nat, snapshot : SUBSET Keys,
     scan : SUBSET [k : Keys, match : Row], scanning : BOOLEAN]

(* The types, and the capacity of the queue of batches.                    *)
TypeOK ==
    /\ now \in 0..MaxTime
    /\ event \in [Hashes -> Payloads]
    /\ delivered \in 0..MaxDeliveries
    /\ queue \in Seq(Seq(Hashes)) /\ Len(queue) <= QueueCap
    /\ dropped \in 0..delivered
    /\ savedEnabled \in BOOLEAN /\ enabled \in BOOLEAN /\ updating \in BOOLEAN
    /\ key \in [Keys -> Row]
    /\ results \in Seq(Hashes)
    /\ lastAction \in [Keys -> Action]
    /\ offline \in [Keys -> BOOLEAN]
    /\ routed \in SUBSET Keys
    /\ w \in Workers
    /\ edits \in 0..MaxEdits /\ faults \in 0..MaxFaults
    /\ handled \in [Hashes -> Nat]
    /\ overlooked \subseteq Keys /\ outdated \in BOOLEAN /\ raced \in BOOLEAN

NoRow == [status |-> 0, priority |-> 0, expires |-> 0]
Idle == [pc |-> "idle", batch |-> <<>>, cur |-> NoKey, k |-> NoKey,
         match |-> NoRow, loaded |-> FALSE, next |-> 0, acted |-> FALSE,
         actions |-> 0, snapshot |-> {}, scan |-> {}, scanning |-> FALSE]

Eligible == {k \in ProviderKeys : key[k].status > 0}   \* eligibleSyncKeys

(* EnsureReady has loaded a configuration in which the service is enabled. *)
Init ==
    /\ now = 1
    /\ event \in [Hashes -> Payloads]
    /\ delivered = 0 /\ queue = <<>> /\ dropped = 0
    /\ savedEnabled = TRUE /\ enabled = TRUE /\ updating = FALSE
    /\ key \in [Keys -> InitialKeys]
    /\ results = <<>>
    /\ lastAction = [k \in Keys |-> "none"]
    /\ offline = [k \in Keys |-> FALSE]
    /\ routed = Eligible
    /\ w = Idle
    /\ edits = 0 /\ faults = 0
    /\ handled = [h \in Hashes |-> 0]
    /\ overlooked = {k \in Keys : key[k].status = -3}
    /\ outdated = FALSE /\ raced = FALSE

-----------------------------------------------------------------------------
(* Around the worker: the collector, the operators and the clock.          *)

(* ProcessUsageEvents: a full queue drops the batch, the collector goes on.*)
ProcessUsageEvents(batch) ==
    /\ delivered < MaxDeliveries
    /\ delivered' = delivered + 1
    /\ IF Len(queue) < QueueCap
       THEN queue' = Append(queue, batch) /\ UNCHANGED dropped
       ELSE dropped' = dropped + 1 /\ UNCHANGED queue
    /\ UNCHANGED <<now, event, cfgVars, dbVars, cpaVars, w, edits, faults,
                   histVars>>

(* UpdateConfig saves the configuration and then applies it.               *)
UpdateConfigSave ==
    /\ edits < MaxEdits
    /\ ~ updating
    /\ savedEnabled' = ~ savedEnabled
    /\ updating' = TRUE
    /\ edits' = edits + 1
    /\ UNCHANGED <<now, event, queueVars, enabled, dbVars, cpaVars, w, faults,
                   histVars>>

UpdateConfigApply ==
    /\ updating
    /\ enabled' = savedEnabled
    /\ updating' = FALSE
    /\ UNCHANGED <<now, event, queueVars, savedEnabled, dbVars, cpaVars, w,
                   edits, faults, histVars>>

(* An operator edits a key: the management pages write the row directly.   *)
EditKey(k, s, x) ==
    /\ edits < MaxEdits
    /\ key' = [key EXCEPT ![k].status = s, ![k].expires = x]
    /\ outdated' = (outdated \/ s # key[k].status)
    /\ raced' = (raced \/ (s # key[k].status /\ w.pc = "statusWrite" /\ w.k = k))
    /\ edits' = edits + 1
    /\ UNCHANGED <<now, event, queueVars, cfgVars, results, lastAction, cpaVars,
                   w, faults, handled, overlooked>>

Tick ==
    /\ now < MaxTime
    /\ now' = now + 1
    /\ UNCHANGED <<event, queueVars, cfgVars, dbVars, cpaVars, w, edits, faults,
                   histVars>>

-----------------------------------------------------------------------------
(* The worker takes a batch: it reloads the configuration if its copy is   *)
(* older than five seconds, or goes on with the copy it has.               *)
TakeBatch(stale) ==
    /\ w.pc = "idle"
    /\ queue # <<>>
    /\ queue' = Tail(queue)
    /\ w' = [w EXCEPT !.pc = IF stale THEN "refresh" ELSE "start",
                      !.batch = Head(queue), !.loaded = savedEnabled]
    /\ UNCHANGED <<now, event, delivered, dropped, cfgVars, dbVars, cpaVars,
                   edits, faults, histVars>>

refreshConfigIfNeeded ==
    /\ w.pc = "refresh"
    /\ enabled' = w.loaded
    /\ w' = [w EXCEPT !.pc = "start"]
    /\ UNCHANGED <<now, event, queueVars, savedEnabled, updating, dbVars, cpaVars,
                   edits, faults, histVars>>

StartBatch ==
    /\ w.pc = "start"
    /\ w' = IF enabled THEN [w EXCEPT !.pc = "event", !.actions = 0] ELSE Idle
    /\ UNCHANGED <<now, event, queueVars, cfgVars, dbVars, cpaVars, edits, faults,
                   histVars>>

EndBatch ==
    /\ w.pc = "event"
    /\ w.batch = <<>>
    /\ w' = Idle
    /\ UNCHANGED <<now, event, queueVars, cfgVars, dbVars, cpaVars, edits, faults,
                   histVars>>

(* The row of the event's key, as FindKeyByAuthIndex returns it.           *)
FindKeyByAuthIndex(k) == IF k \in Keys THEN key[k] ELSE NoRow

NextEvent ==
    /\ w.pc = "event"
    /\ w.batch # <<>>
    /\ w' = [w EXCEPT !.pc = "insert", !.batch = Tail(@), !.cur = Head(w.batch),
                      !.k = KeyOf(Head(w.batch)), !.acted = FALSE,
                      !.match = FindKeyByAuthIndex(KeyOf(Head(w.batch)))]
    /\ UNCHANGED <<now, event, queueVars, cfgVars, dbVars, cpaVars, edits, faults,
                   histVars>>

(* The lookup fails: the event is stored as one that matches no key.       *)
FindKeyFails ==
    /\ w.pc = "event"
    /\ w.batch # <<>>
    /\ faults < MaxFaults
    /\ faults' = faults + 1
    /\ w' = [w EXCEPT !.pc = "insert", !.batch = Tail(@), !.cur = Head(w.batch),
                      !.k = NoKey, !.match = NoRow]
    /\ UNCHANGED <<now, event, queueVars, cfgVars, dbVars, cpaVars, edits, histVars>>

(* Mutant: the table has no unique index on event_hash.                    *)
InsertedAlways == TRUE

(* INSERT OR IGNORE: a hash that is in the table is not inserted again.    *)
Inserted == \A i \in 1..Len(results) : results[i] # w.cur

(* InsertResult, and what does not need the key: an event seen before, and *)
(* one that matches no key, go no further.                                 *)
InsertResult ==
    /\ w.pc = "insert"
    /\ results' = IF Inserted THEN Append(results, w.cur) ELSE results
    /\ w' = [w EXCEPT !.pc = IF Inserted /\ w.k \in Keys THEN "decide" ELSE "event"]
    /\ UNCHANGED <<now, event, queueVars, cfgVars, key, lastAction, cpaVars,
                   edits, faults, histVars>>

InsertResultFails ==
    /\ w.pc = "insert"
    /\ faults < MaxFaults
    /\ faults' = faults + 1
    /\ w' = [w EXCEPT !.pc = "event"]
    /\ UNCHANGED <<now, event, queueVars, cfgVars, dbVars, cpaVars, edits, histVars>>

(* The key is due for expiry, by the row that was read before the insert.  *)
Expired(match) == match.expires > 0 /\ match.expires <= now

(* The branches of processBatch after the insert: expiry, a policy that is *)
(* not enabled, renewal (whose write may fail), and the limit on the       *)
(* actions of a batch.                                                     *)
Decide(written) ==
    /\ w.pc = "decide"
    /\ LET due    == Expired(w.match)
           probed == ~ due /\ w.k \in ProbedKeys
           renew  == probed /\ ~ Failed(w.cur) /\ RenewExpiry
           acts   == probed /\ w.actions < MaxActionsPerBatch
       IN  /\ IF written THEN UNCHANGED faults
              ELSE renew /\ faults < MaxFaults /\ faults' = faults + 1
           /\ IF renew /\ written
              THEN /\ key' = [key EXCEPT ![w.k].expires = now + Renewal]
                   /\ lastAction' = [lastAction EXCEPT ![w.k] = "expiry_renew"]
              ELSE UNCHANGED <<key, lastAction>>
           /\ handled' = IF acts THEN [handled EXCEPT ![w.cur] = @ + 1] ELSE handled
           /\ overlooked' =
                IF ~ probed \/ ~ Failed(w.cur) THEN overlooked ELSE
                IF ~ acts THEN overlooked \cup {w.k} ELSE
                IF w.match.status # -3 THEN overlooked \ {w.k} ELSE overlooked
           /\ w' = [w EXCEPT !.pc = IF due THEN "expire" ELSE
                                    IF acts THEN "priority" ELSE "event"]
    /\ UNCHANGED <<now, event, queueVars, cfgVars, results, cpaVars, edits, outdated,
                   raced>>

-----------------------------------------------------------------------------
(* What the worker has recorded of a key, newest first: the query orders   *)
(* by timestamp, then by id, and reads at most RowLimit rows.  The result  *)
(* is the number of leading rows with the wanted outcome.                  *)
ResultsOf(rs, ev, k) == {i \in 1..Len(rs) : ev[rs[i]].key = k}
AtLeastAsNew(rs, ev, k, i) ==
    {j \in ResultsOf(rs, ev, k) : \/ ev[rs[j]].ts > ev[rs[i]].ts
                                  \/ ev[rs[j]].ts = ev[rs[i]].ts /\ j >= i}
LeadingRun(rs, ev, k, failed) ==
    {i \in ResultsOf(rs, ev, k) :
        /\ Cardinality(AtLeastAsNew(rs, ev, k, i)) <= RowLimit
        /\ \A j \in AtLeastAsNew(rs, ev, k, i) : HasFailed(ev[rs[j]]) = failed}
CountConsecutive(k, failed) ==
    Cardinality(LeadingRun(results, event, k, failed))

clampInt(value, min, max) ==
    IF value < min THEN min ELSE IF value > max THEN max ELSE value

(* applyPriority reads the row again and moves the priority one step.      *)
applyPriority ==
    /\ w.pc = "priority"
    /\ LET row  == key[w.k]
           goal == IF Failed(w.cur)
                   THEN clampInt(row.priority - Penalty, MinPriority, MaxPriority)
                   ELSE clampInt(row.priority + Boost, MinPriority, MaxPriority)
       IN  IF AutoPriority /\ goal # row.priority
           THEN /\ key' = [key EXCEPT ![w.k].priority = goal]
                /\ lastAction' = [lastAction EXCEPT ![w.k] =
                      IF Failed(w.cur) THEN "priority_penalty" ELSE "priority_boost"]
                /\ w' = [w EXCEPT !.pc = "status", !.acted = TRUE]
           ELSE /\ w' = [w EXCEPT !.pc = "status"]
                /\ UNCHANGED <<key, lastAction>>
    /\ UNCHANGED <<now, event, queueVars, cfgVars, results, cpaVars, edits, faults,
                   histVars>>

statusFromFailure(code) ==
    IF code < 100 \/ code > 999 \/ code \in 200..299 THEN 0 ELSE -code

statusFromSuccess(current, code) ==
    IF current = -1 THEN 0 ELSE IF code \in 200..299 THEN code ELSE 1

NextStatus(current) ==
    IF Failed(w.cur) THEN statusFromFailure(event[w.cur].code)
                     ELSE statusFromSuccess(current, event[w.cur].code)

(* Mutant: the event that reaches a threshold does not count.              *)
ThresholdPassed ==
    CountConsecutive(w.k, Failed(w.cur))
        > IF Failed(w.cur) THEN FailureThreshold ELSE RecoveryThreshold

(* The run of equal outcomes is long enough for the event to act.          *)
ThresholdReached ==
    CountConsecutive(w.k, Failed(w.cur))
        >= IF Failed(w.cur) THEN FailureThreshold ELSE RecoveryThreshold

(* The range of statuses the probe does not touch.                         *)
ProtectedStatus(s) == s <= -2 /\ s >= -99

(* Mutant: the row that was read before the insert is judged.              *)
applyKeyStatusMatch ==
    /\ w.pc = "status"
    /\ LET goal == NextStatus(w.match.status)
       IN  w' = IF /\ AutoStatus
                   /\ ~ ProtectedStatus(w.match.status)
                   /\ ThresholdReached
                   /\ goal # w.match.status
                THEN [w EXCEPT !.pc = "statusWrite", !.next = goal]
                ELSE [w EXCEPT !.pc = "account"]
    /\ UNCHANGED <<now, event, queueVars, cfgVars, dbVars, cpaVars, edits, faults,
                   histVars>>

(* applyKeyStatus up to its UPDATE: the row is read, and the new status is *)
(* derived from it.                                                        *)
applyKeyStatus ==
    /\ w.pc = "status"
    /\ LET goal == NextStatus(key[w.k].status)
       IN  w' = IF /\ AutoStatus
                   /\ ~ ProtectedStatus(key[w.k].status)
                   /\ ThresholdReached
                   /\ goal # key[w.k].status
                THEN [w EXCEPT !.pc = "statusWrite", !.next = goal]
                ELSE [w EXCEPT !.pc = "account"]
    /\ UNCHANGED <<now, event, queueVars, cfgVars, dbVars, cpaVars, edits, faults,
                   histVars>>

UpdateKeyStatus ==
    /\ w.pc = "statusWrite"
    /\ key' = [key EXCEPT ![w.k].status = w.next]
    /\ lastAction' = [lastAction EXCEPT ![w.k] =
                        IF Failed(w.cur) THEN "status_invalid" ELSE "status_recover"]
    /\ raced' = FALSE
    /\ w' = [w EXCEPT !.pc = "account", !.acted = TRUE]
    /\ UNCHANGED <<now, event, queueVars, cfgVars, results, cpaVars, edits, faults,
                   handled, overlooked, outdated>>

(* The UPDATE of a status or of a priority fails: nothing is written.      *)
UpdateFails ==
    /\ \/ w.pc = "priority" /\ AutoPriority
       \/ w.pc = "statusWrite"
    /\ faults < MaxFaults
    /\ faults' = faults + 1
    /\ raced' = FALSE
    /\ w' = [w EXCEPT !.pc = IF w.pc = "priority" THEN "status" ELSE "account"]
    /\ UNCHANGED <<now, event, queueVars, cfgVars, dbVars, cpaVars, edits, handled,
                   overlooked, outdated>>

-----------------------------------------------------------------------------
(* applyCPAAccount: a call is due when the threshold is reached and the    *)
(* last logged action of the key does not say that it has been made.       *)
AccountCallDue ==
    /\ AutoCPA /\ w.k \in FileKeys
    /\ ThresholdReached
    /\ (lastAction[w.k] = "cpa_offline") # Failed(w.cur)

applyCPAAccount ==
    /\ w.pc = "account"
    /\ IF AccountCallDue
       THEN /\ offline' = [offline EXCEPT ![w.k] = Failed(w.cur)]
            /\ lastAction' = [lastAction EXCEPT ![w.k] =
                                IF Failed(w.cur) THEN "cpa_offline" ELSE "cpa_online"]
            /\ w' = [w EXCEPT !.pc = "sync", !.acted = TRUE]
       ELSE /\ w' = [w EXCEPT !.pc = "sync"]
            /\ UNCHANGED <<offline, lastAction>>
    /\ UNCHANGED <<now, event, queueVars, cfgVars, key, results, routed, edits,
                   faults, histVars>>

(* The call fails: CPA refused it, or did it and the answer was lost.      *)
applyCPAAccountFails(done) ==
    /\ w.pc = "account"
    /\ AccountCallDue
    /\ faults < MaxFaults
    /\ faults' = faults + 1
    /\ offline' = IF done THEN [offline EXCEPT ![w.k] = Failed(w.cur)] ELSE offline
    /\ w' = [w EXCEPT !.pc = "sync"]
    /\ UNCHANGED <<now, event, queueVars, cfgVars, dbVars, routed, edits, histVars>>

(* syncProviderConfig, when an action was applied: the provider's keys are *)
(* read from the database ...                                              *)
LoadProviderSyncSnapshot ==
    /\ w.pc \in {"sync", "expireSync"}
    /\ IF AutoCPA /\ w.k \in ProviderKeys /\ (w.pc = "sync" => w.acted)
       THEN /\ w' = [w EXCEPT !.pc = IF @ = "sync" THEN "syncPut" ELSE "expirePut",
                              !.snapshot = Eligible]
            /\ outdated' = FALSE
       ELSE /\ w' = [w EXCEPT !.pc = IF @ = "sync" THEN "done" ELSE "expireAccount"]
            /\ UNCHANGED outdated
    /\ UNCHANGED <<now, event, queueVars, cfgVars, dbVars, cpaVars, edits, faults,
                   handled, overlooked, raced>>

(* ... and put into CPA's configuration.                                   *)
putCPASection ==
    /\ w.pc \in {"syncPut", "expirePut"}
    /\ routed' = w.snapshot
    /\ w' = [w EXCEPT !.pc = IF @ = "syncPut" THEN "done" ELSE "expireAccount"]
    /\ UNCHANGED <<now, event, queueVars, cfgVars, dbVars, offline, edits, faults,
                   histVars>>

putCPASectionFails(done) ==
    /\ w.pc \in {"syncPut", "expirePut"}
    /\ faults < MaxFaults
    /\ faults' = faults + 1
    /\ routed' = IF done THEN w.snapshot ELSE routed
    /\ outdated' = TRUE
    /\ w' = [w EXCEPT !.pc = IF @ = "syncPut" THEN "done" ELSE "expireAccount"]
    /\ UNCHANGED <<now, event, queueVars, cfgVars, dbVars, offline, edits, handled,
                   overlooked, raced>>

(* applyPolicies returned: an event that acted counts against the limit.   *)
EndPolicies ==
    /\ w.pc = "done"
    /\ w' = [w EXCEPT !.pc = "event", !.actions = IF w.acted THEN @ + 1 ELSE @]
    /\ UNCHANGED <<now, event, queueVars, cfgVars, dbVars, cpaVars, edits, faults,
                   histVars>>

-----------------------------------------------------------------------------
AfterExpiry == IF w.scanning THEN "scan" ELSE "event"

(* Mutant: the routes of the provider are not pushed.                      *)
expireMatchedKeyNoSync ==
    /\ w.pc = "expire"
    /\ key' = [key EXCEPT ![w.k].status = -3]
    /\ lastAction' = [lastAction EXCEPT ![w.k] = "status_expired"]
    /\ w' = [w EXCEPT !.pc = "expireAccount"]
    /\ UNCHANGED <<now, event, queueVars, cfgVars, results, cpaVars, edits, faults,
                   histVars>>

(* expireMatchedKey: a key that is not expired yet becomes so, whatever    *)
(* the status of its row was.                                              *)
expireMatchedKey ==
    /\ w.pc = "expire"
    /\ IF w.match.status = -3
       THEN /\ w' = [w EXCEPT !.pc = AfterExpiry]
            /\ UNCHANGED <<key, lastAction>>
       ELSE /\ key' = [key EXCEPT ![w.k].status = -3]
            /\ lastAction' = [lastAction EXCEPT ![w.k] = "status_expired"]
            /\ w' = [w EXCEPT !.pc = "expireSync"]
    /\ UNCHANGED <<now, event, queueVars, cfgVars, results, cpaVars, edits, faults,
                   histVars>>

expireMatchedKeyFails ==
    /\ w.pc = "expire"
    /\ faults < MaxFaults
    /\ faults' = faults + 1
    /\ w' = [w EXCEPT !.pc = AfterExpiry]
    /\ UNCHANGED <<now, event, queueVars, cfgVars, dbVars, cpaVars, edits, histVars>>

(* The last part: the account goes offline too.  Both outcomes of a call   *)
(* that fails are the same for the worker, which goes on.                  *)
ExpireAccount(done, logged) ==
    /\ w.pc = "expireAccount"
    /\ logged => done
    /\ IF AutoCPA /\ w.k \in FileKeys
       THEN /\ IF logged THEN UNCHANGED faults
                         ELSE faults < MaxFaults /\ faults' = faults + 1
            /\ offline' = IF done THEN [offline EXCEPT ![w.k] = TRUE] ELSE offline
            /\ lastAction' = IF logged
                             THEN [lastAction EXCEPT ![w.k] = "cpa_offline_expired"]
                             ELSE lastAction
       ELSE UNCHANGED <<offline, lastAction, faults>>
    /\ w' = [w EXCEPT !.pc = AfterExpiry,
                      !.actions = IF w.scanning THEN @ ELSE @ + 1]
    /\ UNCHANGED <<now, event, queueVars, cfgVars, key, results, routed, edits,
                   histVars>>

(* Mutant: a key is due after its expiry time, not at it.                  *)
DueKeysLate ==
    {k \in Keys : /\ key[k].expires > 0 /\ key[k].expires < now
                  /\ key[k].status \notin {-2, -3}}

(* The keys the query of ExpireDueKeys returns.                            *)
DueKeys ==
    {k \in Keys : /\ key[k].expires > 0 /\ key[k].expires <= now
                  /\ key[k].status \notin {-2, -3}}

(* The ticker fires: expireDueKeys reads the due keys.                     *)
expireDueKeys ==
    /\ w.pc = "idle"
    /\ enabled
    /\ DueKeys # {}
    /\ w' = [w EXCEPT !.pc = "scan", !.scanning = TRUE,
                      !.scan = {[k |-> k, match |-> key[k]] : k \in DueKeys}]
    /\ UNCHANGED <<now, event, queueVars, cfgVars, dbVars, cpaVars, edits, faults,
                   histVars>>

NextDue(item) ==
    /\ w.pc = "scan"
    /\ item \in w.scan
    /\ \A other \in w.scan : item.match.expires <= other.match.expires
    /\ w' = [w EXCEPT !.pc = "expire", !.scan = @ \ {item}, !.k = item.k,
                      !.match = item.match]
    /\ UNCHANGED <<now, event, queueVars, cfgVars, dbVars, cpaVars, edits, faults,
                   histVars>>

EndScan ==
    /\ w.pc = "scan"
    /\ w.scan = {}
    /\ w' = Idle
    /\ UNCHANGED <<now, event, queueVars, cfgVars, dbVars, cpaVars, edits, faults,
                   histVars>>

-----------------------------------------------------------------------------
Worker ==
    \/ \E stale \in BOOLEAN : TakeBatch(stale)
    \/ refreshConfigIfNeeded \/ StartBatch \/ EndBatch
    \/ NextEvent \/ FindKeyFails \/ InsertResult \/ InsertResultFails
    \/ \E written \in BOOLEAN : Decide(written)
    \/ applyPriority \/ applyKeyStatus \/ UpdateKeyStatus \/ UpdateFails
    \/ applyCPAAccount \/ LoadProviderSyncSnapshot \/ putCPASection
    \/ \E done \in BOOLEAN : applyCPAAccountFails(done) \/ putCPASectionFails(done)
    \/ EndPolicies
    \/ expireMatchedKey \/ expireMatchedKeyFails
    \/ \E done, logged \in BOOLEAN : ExpireAccount(done, logged)
    \/ expireDueKeys \/ EndScan
    \/ \E item \in w.scan : NextDue(item)

Batches == UNION {[1..n -> Hashes] : n \in 1..MaxBatch}

Edit ==
    \/ UpdateConfigSave
    \/ \E k \in Keys : \E s \in AdminStatuses \cup {key[k].status} :
          \E x \in {0, key[k].expires, now + Renewal} : EditKey(k, s, x)

Next ==
    \/ \E batch \in Batches : ProcessUsageEvents(batch)
    \/ Edit \/ UpdateConfigApply
    \/ Tick
    \/ Worker

Spec == Init /\ [][Next]_vars

(* The worker is a goroutine that never stops, its calls have timeouts,    *)
(* and the select of its loop is fair between the queue and the ticker.    *)
LiveSpec == Spec /\ WF_vars(Worker) /\ SF_vars(expireDueKeys) /\ WF_vars(Tick)

-----------------------------------------------------------------------------
(* The worker has nothing in hand, and nothing outside went wrong or was   *)
(* edited by an operator so far.                                           *)
Settled == w.pc = "idle" /\ faults = 0 /\ edits = 0

(* However often the collector hands over an event, and whatever the order,*)
(* the policies see it at most once.                                       *)
ActsOnce == \A h \in Hashes : handled[h] <= 1

(* A key whose newest results are a run of failures of the threshold has   *)
(* been taken out, also when results arrive late and out of the order of   *)
(* their timestamps: its status is not usable and its account is offline.  *)
(* Exempt is a key whose last failure came when its batch had used up its  *)
(* actions, until the next one that the policies see, and a key that was   *)
(* expired before the service started, which the policies do not revisit.  *)
FailingKeyTakenOut ==
    Settled => \A k \in ProbedKeys \ overlooked :
        CountConsecutive(k, TRUE) >= FailureThreshold =>
            /\ AutoStatus => key[k].status <= 0
            /\ AutoCPA /\ k \in FileKeys => offline[k]

(* At rest CPA routes to exactly the usable keys of the provider: every    *)
(* change of a status that the probe makes is followed by a push, whatever *)
(* other calls fail. After a push that failed, and after an operator's     *)
(* edit, one push that succeeds makes up for everything.                   *)
RoutingFollowsStatus ==
    w.pc = "idle" /\ AutoCPA /\ ~ outdated => routed = Eligible

(* A status from -2 down to -99, which an operator or an expiry has set, is *)
(* left alone whatever results still arrive: it is overwritten only by an  *)
(* expiry, or by the one write that rests on a read of the row before the  *)
(* operator changed it.                                                    *)
ProtectedStays ==
    [][\A k \in Keys : /\ key[k].status \in -99..-2
                       /\ key'[k].status \notin {key[k].status, -3}
                       => edits' # edits \/ raced]_vars

(* A key that is due is expired, even if a write fails on the way, unless  *)
(* it is renewed, the operator sets another time or disables it, or the    *)
(* service is switched off.                                                *)
DueKeysExpire ==
    \A k \in Keys :
        (Expired(key[k]) /\ key[k].status \notin {-2, -3})
            ~> (key[k].status \in {-2, -3} \/ ~ Expired(key[k]) \/ ~ enabled)

(* An account that was taken offline for failures is online again once     *)
(* its key's newest results are a run of successes of the threshold.       *)
RecoveredIsOnline ==
    Settled /\ AutoCPA => \A k \in ProbedKeys \cap FileKeys :
        /\ CountConsecutive(k, FALSE) >= RecoveryThreshold
        /\ key[k].status # -3
        => ~ offline[k]

-----------------------------------------------------------------------------
(* What the properties need besides themselves. Together with TypeOK these *)
(* parts are inductive.                                                    *)

(* The worker has an event in hand from its insert to the account, and a   *)
(* key from there to the end of its policies or of its expiry.             *)
HandsInv ==
    /\ w.pc \in {"insert", "decide", "priority", "status", "statusWrite", "account"}
          => w.cur \in Hashes
    /\ w.pc \notin {"idle", "refresh", "start", "event", "insert", "scan"}
          => w.k \in Keys

(* An event that the policies have seen has its row, and one that they are *)
(* about to see has its row and was not seen before.                       *)
Recorded(h) == \E i \in 1..Len(results) : results[i] = h
HandledInv ==
    /\ \A h \in Hashes : handled[h] = 0 \/ (handled[h] = 1 /\ Recorded(h))
    /\ w.pc = "decide" => handled[w.cur] = 0 /\ Recorded(w.cur)

(* The status that is about to be overwritten is not a protected one,      *)
(* unless the operator has just set it.                                    *)
StatusInv ==
    w.pc = "statusWrite" => ~ ProtectedStatus(key[w.k].status) \/ raced

(* Unless CPA is outdated it routes to the usable keys, or the worker is on *)
(* the way to push them.                                                   *)
PushDue ==
    /\ w.k \in ProviderKeys
    /\ \/ w.pc \in {"account", "sync"} /\ w.acted
       \/ w.pc \in {"syncPut", "expireSync", "expirePut"}
RoutedInv ==
    AutoCPA /\ ~ outdated =>
        /\ routed = Eligible \/ PushDue
        /\ w.pc \in {"syncPut", "expirePut"} => w.snapshot = Eligible

IndInv == TypeOK /\ HandsInv /\ HandledInv /\ StatusInv /\ RoutedInv

-----------------------------------------------------------------------------
(* FailingKeyTakenOut needs more.                                          *)

Calm == faults = 0 /\ edits = 0
Expiring == {"expire", "expireSync", "expirePut", "expireAccount"}

(* The items of a scan are at hand only during the scan.                   *)
ScanInv ==
    /\ w.scanning => w.pc \in {"scan"} \cup Expiring
    /\ w.scan # {} => w.scanning

(* The row that the worker has read is the one in the database, for as     *)
(* long as the decision rests on it.                                       *)
MatchInv ==
    Calm =>
        /\ w.pc \in {"insert", "decide"} => w.k = KeyOf(w.cur)
        /\ w.pc \in {"insert", "decide"} /\ w.k \in Keys => w.match = key[w.k]
        /\ w.pc = "expire" =>
              /\ Expired(w.match) /\ w.match.expires = key[w.k].expires
              /\ w.match.status = -3 => key[w.k].status = -3
        /\ \A item \in w.scan :
              /\ item.match.status # -3 /\ Expired(item.match)
              /\ item.match.expires = key[item.k].expires

(* An expired key is due, and its account is offline or about to be; the   *)
(* policies never see it. Not so a key that was expired from the start.    *)
ExpiredInv ==
    Calm =>
        /\ \A k \in Keys \ overlooked : key[k].status = -3 =>
              /\ Expired(key[k])
              /\ AutoCPA /\ k \in FileKeys =>
                    \/ offline[k]
                    \/ w.k = k /\ w.pc \in Expiring \ {"expire"}
        /\ w.pc \in {"priority", "status", "statusWrite", "account"}
              /\ w.k \notin overlooked => key[w.k].status # -3

(* What is about to be written follows from the results as they are.       *)
NextInv ==
    w.pc = "statusWrite" =>
        /\ w.next # -3 /\ ThresholdReached
        /\ Failed(w.cur) => w.next <= 0

(* The log of the actions tells that an account is offline.                *)
LoggedInv ==
    Calm => \A k \in Keys : lastAction[k] = "cpa_offline" => offline[k]

(* A key with a run of failures has been taken out, or the worker is at it.*)
StatusPending(k) ==
    /\ w.k = k
    /\ \/ w.pc \in {"decide", "priority", "status", "statusWrite"} /\ Failed(w.cur)
       \/ w.pc = "expire"
AccountPending(k) ==
    /\ w.k = k
    /\ \/ /\ w.pc \in {"decide", "priority", "status", "statusWrite", "account"}
          /\ Failed(w.cur)
       \/ w.pc \in Expiring
LongRun(k) == CountConsecutive(k, TRUE) >= FailureThreshold
TakenOut(k) ==
    /\ AutoStatus => key[k].status <= 0 \/ StatusPending(k)
    /\ AutoCPA /\ k \in FileKeys => offline[k] \/ AccountPending(k)
TakenOutInv ==
    Calm => \A k \in ProbedKeys \ overlooked : LongRun(k) => TakenOut(k)

FailInv ==
    /\ IndInv /\ ScanInv /\ MatchInv /\ ExpiredInv /\ NextInv
    /\ LoggedInv /\ TakenOutInv

=============================================================================
