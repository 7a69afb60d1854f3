------------------------- MODULE ProbeManagerProofs -------------------------
(***************************************************************************)
(* What the probe service does to keys and accounts: an inductive invariant*)
(* of ProbeManager and what follows from it, then the further invariant    *)
(* under which a failing key is always taken out.                          *)
(***************************************************************************)
EXTENDS ProbeManager, TLAPS, SequenceTheorems, FiniteSetTheorems

-----------------------------------------------------------------------------
(* Types, and what the writes do to a row.                                 *)

(* The type of the worker, apart from the others.                          *)
WorkerType == w \in Workers

(* The worker at rest. *)
LEMMA IdleType == Idle \in Workers
  BY DEF Idle, NoRow, Row, Workers, Places

(* An event names its key or none, and has an outcome and a code. *)
LEMMA EventType ==
    ASSUME TypeOK, NEW h \in Hashes
    PROVE  /\ KeyOf(h) \in Keys \cup {NoKey} /\ FindKeyByAuthIndex(KeyOf(h)) \in Row
           /\ Failed(h) \in BOOLEAN /\ event[h].code \in Int
  <1>1. event[h] \in Payload /\ key \in [Keys -> Row]
    BY ProbeAssumption DEF TypeOK
  <1>2. /\ event[h].key \in Keys \cup {NoKey} /\ event[h].code \in Int
        /\ event[h].failed \in BOOLEAN
    BY <1>1 DEF Payload
  <1>3. NoRow \in Row
    BY DEF NoRow, Row
  <1>4. QED
    BY <1>1, <1>2, <1>3 DEF KeyOf, FindKeyByAuthIndex, Failed, HasFailed

(* A batch that is not empty. *)
LEMMA BatchType ==
    ASSUME TypeOK, w.batch # <<>>
    PROVE  Head(w.batch) \in Hashes /\ Tail(w.batch) \in Seq(Hashes)
  <1>1. w.batch \in Seq(Hashes)
    BY DEF TypeOK, Workers
  <1>2. QED
    BY <1>1

LEMMA QueueType ==
    ASSUME TypeOK, queue # <<>>
    PROVE  Head(queue) \in Seq(Hashes) /\ Tail(queue) \in Seq(Seq(Hashes))
           /\ Len(Tail(queue)) <= QueueCap
  <1> DEFINE S == Seq(Hashes)
  <1>1. queue \in Seq(S) /\ Len(queue) <= QueueCap /\ QueueCap \in Nat
    BY ProbeAssumption DEF TypeOK
  <1> HIDE DEF S
  <1>2. Head(queue) \in S /\ Tail(queue) \in Seq(S) /\ Len(Tail(queue)) <= QueueCap
    BY <1>1
  <1>3. QED
    BY <1>2 DEF S

(* The status an event leads to is a number. *)
LEMMA StatusType ==
    ASSUME TypeOK, w.cur \in Hashes, NEW s \in Int
    PROVE  /\ NextStatus(s) \in Int /\ NextStatus(s) # -3
           /\ Failed(w.cur) => NextStatus(s) <= 0
  <1>1. event[w.cur].code \in Int
    BY EventType
  <1>2. QED
    BY <1>1 DEF NextStatus, statusFromFailure, statusFromSuccess

(* The other types, in the parts in which they are kept.                   *)
RowsType == key \in [Keys -> Row]
LogsType ==
    /\ lastAction \in [Keys -> Action] /\ offline \in [Keys -> BOOLEAN]
    /\ routed \in SUBSET Keys
HistType ==
    overlooked \subseteq Keys /\ outdated \in BOOLEAN /\ raced \in BOOLEAN
ClockType ==
    /\ now \in 0..MaxTime /\ event \in [Hashes -> Payloads]
    /\ edits \in 0..MaxEdits /\ faults \in 0..MaxFaults
BatchesType ==
    /\ delivered \in 0..MaxDeliveries /\ dropped \in 0..delivered
    /\ queue \in Seq(Seq(Hashes)) /\ Len(queue) <= QueueCap
FlagsType ==
    savedEnabled \in BOOLEAN /\ enabled \in BOOLEAN /\ updating \in BOOLEAN
ResultsType == results \in Seq(Hashes) /\ handled \in [Hashes -> Nat]

LEMMA TypeParts ==
    TypeOK <=> /\ WorkerType /\ RowsType /\ LogsType /\ ClockType
               /\ BatchesType /\ FlagsType /\ ResultsType /\ HistType
  BY DEF TypeOK, WorkerType, RowsType, LogsType, ClockType, BatchesType, FlagsType,
         ResultsType, HistType

(* A write of the status of a row. *)
LEMMA SetStatus ==
    ASSUME key \in [Keys -> Row], NEW k \in Keys, NEW s \in Int,
           key' = [key EXCEPT ![k].status = s]
    PROVE  /\ key' \in [Keys -> Row]
           /\ \A x \in Keys \ {k} : key'[x] = key[x]
           /\ key'[k].status = s /\ key'[k].priority = key[k].priority
           /\ key'[k].expires = key[k].expires
  <1> DEFINE e == [key[k] EXCEPT !.status = s]
  <1>1. key[k] \in Row
    OBVIOUS
  <1>2. /\ e \in Row
        /\ e.status = s /\ e.priority = key[k].priority /\ e.expires = key[k].expires
    BY <1>1 DEF Row
  <1>3. key' = [key EXCEPT ![k] = e]
    OBVIOUS
  <1> HIDE DEF e
  <1>4. QED
    BY <1>2, <1>3

(* A write of the priority of a row. *)
LEMMA SetPriority ==
    ASSUME key \in [Keys -> Row], NEW k \in Keys, NEW p \in Int,
           key' = [key EXCEPT ![k].priority = p]
    PROVE  /\ key' \in [Keys -> Row]
           /\ \A x \in Keys \ {k} : key'[x] = key[x]
           /\ key'[k].status = key[k].status /\ key'[k].priority = p
           /\ key'[k].expires = key[k].expires
  <1> DEFINE e == [key[k] EXCEPT !.priority = p]
  <1>1. key[k] \in Row
    OBVIOUS
  <1>2. /\ e \in Row
        /\ e.status = key[k].status /\ e.priority = p /\ e.expires = key[k].expires
    BY <1>1 DEF Row
  <1>3. key' = [key EXCEPT ![k] = e]
    OBVIOUS
  <1> HIDE DEF e
  <1>4. QED
    BY <1>2, <1>3

(* A write of the expiry time of a row. *)
LEMMA SetExpires ==
    ASSUME key \in [Keys -> Row], NEW k \in Keys, NEW t \in Nat,
           key' = [key EXCEPT ![k].expires = t]
    PROVE  /\ key' \in [Keys -> Row]
           /\ \A x \in Keys \ {k} : key'[x] = key[x]
           /\ key'[k].status = key[k].status /\ key'[k].priority = key[k].priority
           /\ key'[k].expires = t
  <1> DEFINE e == [key[k] EXCEPT !.expires = t]
  <1>1. key[k] \in Row
    OBVIOUS
  <1>2. /\ e \in Row
        /\ e.status = key[k].status /\ e.priority = key[k].priority /\ e.expires = t
    BY <1>1 DEF Row
  <1>3. key' = [key EXCEPT ![k] = e]
    OBVIOUS
  <1> HIDE DEF e
  <1>4. QED
    BY <1>2, <1>3

(* What the writes of the worker and of the operators do to the rows.      *)
LEMMA EditKeyDoes ==
    ASSUME TypeOK, NEW k \in Keys, NEW s \in AdminStatuses \cup {key[k].status},
           NEW t \in {0, key[k].expires, now + Renewal}, EditKey(k, s, t)
    PROVE  /\ RowsType' /\ \A x \in Keys \ {k} : key'[x] = key[x]
           /\ key'[k].status = s /\ key'[k].expires = t
           /\ outdated' \/ key'[k].status = key[k].status
           /\ raced' \/ w.k # k \/ w.pc # "statusWrite" \/ key'[k].status = key[k].status
           /\ (outdated => outdated') /\ (raced => raced')
           /\ edits \in Nat /\ edits' = edits + 1
  <1>1. key \in [Keys -> Row] /\ key[k].status \in Int /\ key[k].expires \in Nat
    BY DEF TypeOK, Row
  <1>2. s \in Int /\ t \in Nat
    <2>1. now \in Nat /\ Renewal \in Nat /\ AdminStatuses \subseteq Int
      BY ProbeAssumption DEF TypeOK
    <2>2. QED
      BY <1>1, <2>1
  <1>3. key' = [key EXCEPT ![k].status = s, ![k].expires = t]
    BY DEF EditKey
  <1>4. /\ key' \in [Keys -> Row] /\ \A x \in Keys \ {k} : key'[x] = key[x]
        /\ key'[k].status = s /\ key'[k].expires = t
    <2> DEFINE e == [key[k] EXCEPT !.status = s, !.expires = t]
    <2>1. key[k] \in Row /\ key' = [key EXCEPT ![k] = e]
      BY <1>1, <1>3
    <2>2. e \in Row /\ e.status = s /\ e.expires = t
      BY <1>2, <2>1 DEF Row
    <2> HIDE DEF e
    <2>3. QED
      BY <1>1, <2>1, <2>2
  <1>5. /\ outdated' \/ s = key[k].status
        /\ raced' \/ w.k # k \/ w.pc # "statusWrite" \/ s = key[k].status
        /\ (outdated => outdated') /\ (raced => raced') /\ edits' = edits + 1
    BY DEF EditKey
  <1>6. QED
    BY <1>4, <1>5 DEF RowsType, TypeOK

LEMMA DecideDoes ==
    ASSUME TypeOK, HandsInv, NEW written \in BOOLEAN, Decide(written)
    PROVE  /\ RowsType' /\ \A x \in Keys \ {w.k} : key'[x] = key[x]
           /\ w.k \in Keys /\ key'[w.k].status = key[w.k].status
           /\ \/ key'[w.k] = key[w.k]
              \/ ~ Expired(w.match) /\ key'[w.k].expires = now + Renewal
  <1>1. key \in [Keys -> Row] /\ w.k \in Keys
    BY DEF TypeOK, HandsInv, Decide
  <1> DEFINE t == now + Renewal
             kk == w.k
  <1>2. t \in Nat
    BY ProbeAssumption DEF TypeOK
  <1>3. \/ key' = key
        \/ ~ Expired(w.match) /\ key' = [key EXCEPT ![kk].expires = t]
    BY DEF Decide
  <1>4. kk \in Keys
    BY <1>1
  <1> HIDE DEF t, kk
  <1>5. CASE key' = key
    BY <1>1, <1>5 DEF RowsType
  <1>6. CASE ~ Expired(w.match) /\ key' = [key EXCEPT ![kk].expires = t]
    <2>1. /\ key' \in [Keys -> Row] /\ \A x \in Keys \ {kk} : key'[x] = key[x]
          /\ key'[kk].status = key[kk].status /\ key'[kk].expires = t
      BY <1>1, <1>2, <1>4, <1>6, SetExpires
    <2>2. QED
      BY <1>1, <1>6, <2>1 DEF RowsType, t, kk
  <1>7. QED
    BY <1>3, <1>5, <1>6

LEMMA PriorityDoes ==
    ASSUME TypeOK, HandsInv, applyPriority
    PROVE  /\ RowsType' /\ w.k \in Keys
           /\ \A x \in Keys : /\ key'[x].status = key[x].status
                              /\ key'[x].expires = key[x].expires
  <1>1. key \in [Keys -> Row] /\ w.k \in Keys
    BY DEF TypeOK, HandsInv, applyPriority
  <1>2. {Boost, Penalty, MinPriority, MaxPriority} \subseteq Int
        /\ key[w.k].priority \in Int
    BY <1>1, ProbeAssumption DEF Row
  <1> DEFINE kk == w.k
             g == IF Failed(w.cur)
                  THEN clampInt(key[kk].priority - Penalty, MinPriority, MaxPriority)
                  ELSE clampInt(key[kk].priority + Boost, MinPriority, MaxPriority)
  <1>3. g \in Int /\ kk \in Keys
    BY <1>1, <1>2 DEF clampInt
  <1>4. key' = key \/ key' = [key EXCEPT ![kk].priority = g]
    BY DEF applyPriority
  <1> HIDE DEF g, kk
  <1>5. CASE key' = key
    BY <1>1, <1>5 DEF RowsType
  <1>6. CASE key' = [key EXCEPT ![kk].priority = g]
    <2>1. /\ key' \in [Keys -> Row] /\ \A x \in Keys \ {kk} : key'[x] = key[x]
          /\ key'[kk].status = key[kk].status /\ key'[kk].expires = key[kk].expires
      BY <1>1, <1>3, <1>6, SetPriority
    <2>2. QED
      BY <1>1, <2>1 DEF RowsType
  <1>7. QED
    BY <1>4, <1>5, <1>6

LEMMA StatusDoes ==
    ASSUME TypeOK, HandsInv, UpdateKeyStatus
    PROVE  /\ RowsType' /\ \A x \in Keys \ {w.k} : key'[x] = key[x]
           /\ w.k \in Keys /\ key'[w.k].status = w.next
           /\ key'[w.k].expires = key[w.k].expires
  <1> DEFINE kk == w.k
             n == w.next
  <1>1. key \in [Keys -> Row] /\ kk \in Keys /\ n \in Int
    BY DEF TypeOK, HandsInv, UpdateKeyStatus, Workers
  <1>2. key' = [key EXCEPT ![kk].status = n]
    BY DEF UpdateKeyStatus
  <1> HIDE DEF kk, n
  <1>3. /\ key' \in [Keys -> Row] /\ \A x \in Keys \ {kk} : key'[x] = key[x]
        /\ key'[kk].status = n /\ key'[kk].expires = key[kk].expires
    BY <1>1, <1>2, SetStatus
  <1>4. QED
    BY <1>1, <1>3 DEF RowsType, kk, n

LEMMA ExpireDoes ==
    ASSUME TypeOK, HandsInv, expireMatchedKey
    PROVE  /\ RowsType' /\ \A x \in Keys \ {w.k} : key'[x] = key[x]
           /\ w.k \in Keys /\ key'[w.k].expires = key[w.k].expires
           /\ IF w.match.status = -3 THEN UNCHANGED key ELSE key'[w.k].status = -3
  <1> DEFINE kk == w.k
             n == -3
  <1>1. key \in [Keys -> Row] /\ kk \in Keys /\ n \in Int
    BY DEF TypeOK, HandsInv, expireMatchedKey
  <1>2. IF w.match.status = -3 THEN key' = key
        ELSE key' = [key EXCEPT ![kk].status = n]
    BY DEF expireMatchedKey
  <1> HIDE DEF kk, n
  <1>3. CASE key' = [key EXCEPT ![kk].status = n] /\ w.match.status # -3
    <2>1. /\ key' \in [Keys -> Row] /\ \A x \in Keys \ {kk} : key'[x] = key[x]
          /\ key'[kk].status = n /\ key'[kk].expires = key[kk].expires
      BY <1>1, <1>3, SetStatus
    <2>2. QED
      BY <1>1, <1>3, <2>1 DEF RowsType, kk, n
  <1>4. CASE key' = key /\ w.match.status = -3
    BY <1>1, <1>4 DEF RowsType, kk
  <1>5. QED
    BY <1>2, <1>3, <1>4

(* What reading the provider's keys does to the worker. *)
LEMMA SnapshotDoes ==
    ASSUME w \in Workers, LoadProviderSyncSnapshot
    PROVE  /\ w'.k = w.k /\ w'.cur = w.cur
           /\ w'.scan = w.scan /\ w'.scanning = w.scanning
           /\ \/ w.pc = "sync" /\ w'.pc \in {"syncPut", "done"}
              \/ w.pc = "expireSync" /\ w'.pc \in {"expirePut", "expireAccount"}
  <1> DEFINE p == IF w.pc = "sync" THEN "syncPut" ELSE "expirePut"
             q == IF w.pc = "sync" THEN "done" ELSE "expireAccount"
  <1>1. w.pc \in {"sync", "expireSync"}
    BY DEF LoadProviderSyncSnapshot
  <1>2. \/ w' = [w EXCEPT !.pc = p, !.snapshot = Eligible]
        \/ w' = [w EXCEPT !.pc = q]
    BY DEF LoadProviderSyncSnapshot
  <1>3. w.pc = "sync" => p = "syncPut" /\ q = "done"
    OBVIOUS
  <1>4. w.pc = "expireSync" => p = "expirePut" /\ q = "expireAccount"
    OBVIOUS
  <1> HIDE DEF p, q
  <1>5. /\ w'.pc \in {p, q} /\ w'.k = w.k /\ w'.cur = w.cur
        /\ w'.scan = w.scan /\ w'.scanning = w.scanning
    BY <1>2 DEF Workers
  <1>6. QED
    BY <1>1, <1>3, <1>4, <1>5

-----------------------------------------------------------------------------
(* The parts of the inductive invariant, one by one.                       *)

(* Every step keeps what the worker has in hand. *)
LEMMA HandsStep ==
    ASSUME IndInv, [Next]_vars
    PROVE  HandsInv'
  <1> USE DEF HandsInv, Workers, Idle, AfterExpiry, queueVars, cfgVars, dbVars,
              cpaVars, histVars
  <1>a. TypeOK /\ HandsInv /\ w \in Workers
    BY DEF IndInv, TypeOK
  <1>1. ASSUME NEW stale \in BOOLEAN, TakeBatch(stale) PROVE HandsInv'
    BY <1>a, <1>1 DEF TakeBatch
  <1>2. CASE refreshConfigIfNeeded
    BY <1>a, <1>2 DEF refreshConfigIfNeeded
  <1>3. CASE StartBatch
    BY <1>a, <1>3 DEF StartBatch
  <1>4. CASE EndBatch
    BY <1>a, <1>4 DEF EndBatch
  <1>5. CASE NextEvent
    BY <1>a, <1>5 DEF NextEvent
  <1>6. CASE FindKeyFails
    BY <1>a, <1>6 DEF FindKeyFails
  <1>7. CASE InsertResult
    BY <1>a, <1>7 DEF InsertResult
  <1>8. CASE InsertResultFails
    BY <1>a, <1>8 DEF InsertResultFails
  <1>9. ASSUME NEW written \in BOOLEAN, Decide(written) PROVE HandsInv'
    BY <1>a, <1>9 DEF Decide
  <1>10. CASE applyPriority
    BY <1>a, <1>10 DEF applyPriority
  <1>11. CASE applyKeyStatus
    BY <1>a, <1>11 DEF applyKeyStatus
  <1>12. CASE UpdateKeyStatus
    BY <1>a, <1>12 DEF UpdateKeyStatus
  <1>13. CASE UpdateFails
    BY <1>a, <1>13 DEF UpdateFails
  <1>14. CASE applyCPAAccount
    BY <1>a, <1>14 DEF applyCPAAccount
  <1>15. CASE LoadProviderSyncSnapshot
    BY <1>a, <1>15, SnapshotDoes
  <1>16. CASE putCPASection
    BY <1>a, <1>16 DEF putCPASection
  <1>17. ASSUME NEW done \in BOOLEAN, applyCPAAccountFails(done) PROVE
        HandsInv'
    BY <1>a, <1>17 DEF applyCPAAccountFails
  <1>18. ASSUME NEW done \in BOOLEAN, putCPASectionFails(done) PROVE HandsInv'
    BY <1>a, <1>18 DEF putCPASectionFails
  <1>19. CASE EndPolicies
    BY <1>a, <1>19 DEF EndPolicies
  <1>20. CASE expireMatchedKey
    BY <1>a, <1>20 DEF expireMatchedKey
  <1>21. CASE expireMatchedKeyFails
    BY <1>a, <1>21 DEF expireMatchedKeyFails
  <1>22. ASSUME NEW done \in BOOLEAN, NEW logged \in BOOLEAN,
        ExpireAccount(done, logged) PROVE HandsInv'
    BY <1>a, <1>22 DEF ExpireAccount
  <1>23. CASE expireDueKeys
    BY <1>a, <1>23 DEF expireDueKeys
  <1>24. CASE EndScan
    BY <1>a, <1>24 DEF EndScan
  <1>25. ASSUME NEW item \in w.scan, NextDue(item) PROVE HandsInv'
    BY <1>a, <1>25 DEF NextDue
  <1>26. CASE (\E batch \in Batches : ProcessUsageEvents(batch)) \/
            UpdateConfigSave \/ UpdateConfigApply \/ (\E k \in Keys : \E s \in
            AdminStatuses \cup {key[k].status} : \E t \in {0, key[k].expires,
            now + Renewal} : EditKey(k, s, t)) \/ Tick
    <2>1. UNCHANGED <<w>>
      BY <1>26 DEF ProcessUsageEvents, UpdateConfigSave, UpdateConfigApply,
             EditKey, Tick
    <2>2. QED
      BY <1>a, <2>1
  <1>27. CASE UNCHANGED vars
    BY <1>a, <1>27 DEF vars
  <1>28. QED
    BY <1>1, <1>2, <1>3, <1>4, <1>5, <1>6, <1>7, <1>8, <1>9, <1>10, <1>11,
       <1>12, <1>13, <1>14, <1>15, <1>16, <1>17, <1>18, <1>19, <1>20, <1>21,
       <1>22, <1>23, <1>24, <1>25, <1>26, <1>27
       DEF Next, Worker, Edit

(* Every step keeps the type of the worker. *)
LEMMA WorkerStep ==
    ASSUME IndInv, [Next]_vars
    PROVE  WorkerType'
  <1> USE DEF WorkerType, HandsInv, Places, Workers, queueVars, cfgVars,
              dbVars, cpaVars, histVars
  <1>a. TypeOK /\ HandsInv /\ WorkerType
    BY DEF IndInv, TypeOK, WorkerType
  <1>1. ASSUME NEW stale \in BOOLEAN, TakeBatch(stale) PROVE WorkerType'
    <2>1. Head(queue) \in Seq(Hashes) /\ savedEnabled \in BOOLEAN
      BY <1>a, <1>1, QueueType DEF TakeBatch, TypeOK
    <2> DEFINE b == Head(queue)
    <2>2. b \in Seq(Hashes)
      BY <2>1
    <2> HIDE DEF b
    <2>3. QED
      BY <1>a, <1>1, <2>1, <2>2, ZenonT(30) DEF TakeBatch, b
  <1>2. CASE refreshConfigIfNeeded
    BY <1>a, <1>2 DEF refreshConfigIfNeeded
  <1>3. CASE StartBatch
    <2>1. [w EXCEPT !.pc = "event", !.actions = 0] \in Workers
      BY <1>a
    <2>2. QED
      BY <1>3, <2>1, IdleType DEF StartBatch
  <1>4. CASE EndBatch
    BY <1>4, IdleType DEF EndBatch
  <1>5. CASE NextEvent
    <2> DEFINE h == Head(w.batch)
               t == Tail(w.batch)
               kk == KeyOf(h)
               m == FindKeyByAuthIndex(kk)
    <2>1. h \in Hashes /\ t \in Seq(Hashes)
      BY <1>a, <1>5, BatchType DEF NextEvent
    <2>2. kk \in Keys \cup {NoKey} /\ m \in Row
      BY <1>a, <2>1, EventType
    <2>3. w' = [w EXCEPT !.pc = "insert", !.batch = t, !.cur = h, !.k = kk,
                         !.acted = FALSE, !.match = m]
      BY <1>5 DEF NextEvent
    <2> HIDE DEF h, t, kk, m
    <2>4. QED
      BY <1>a, <2>1, <2>2, <2>3
  <1>6. CASE FindKeyFails
    <2> DEFINE h == Head(w.batch)
               t == Tail(w.batch)
    <2>1. h \in Hashes /\ t \in Seq(Hashes) /\ NoRow \in Row
      BY <1>a, <1>6, BatchType DEF FindKeyFails, NoRow, Row
    <2>2. w' = [w EXCEPT !.pc = "insert", !.batch = t, !.cur = h, !.k = NoKey,
                         !.match = NoRow]
      BY <1>6 DEF FindKeyFails
    <2> HIDE DEF h, t
    <2>3. QED
      BY <1>a, <2>1, <2>2
  <1>7. CASE InsertResult
    BY <1>a, <1>7 DEF InsertResult
  <1>8. CASE InsertResultFails
    BY <1>a, <1>8 DEF InsertResultFails
  <1>9. ASSUME NEW written \in BOOLEAN, Decide(written) PROVE WorkerType'
    BY <1>a, <1>9 DEF Decide
  <1>10. CASE applyPriority
    <2>1. [w EXCEPT !.pc = "status", !.acted = TRUE] \in Workers
      BY <1>a
    <2>2. [w EXCEPT !.pc = "status"] \in Workers
      BY <1>a
    <2>3. \/ w' = [w EXCEPT !.pc = "status", !.acted = TRUE]
          \/ w' = [w EXCEPT !.pc = "status"]
      BY <1>10 DEF applyPriority
    <2> HIDE DEF Workers, Places
    <2>4. QED
      BY <2>1, <2>2, <2>3
  <1>11. CASE applyKeyStatus
    <2> DEFINE g == NextStatus(key[w.k].status)
    <2>1. w.cur \in Hashes /\ key[w.k].status \in Int
      BY <1>a, <1>11 DEF applyKeyStatus, TypeOK, Row
    <2>2. g \in Int
      BY <1>a, <2>1, StatusType
    <2>3. \/ w' = [w EXCEPT !.pc = "statusWrite", !.next = g]
          \/ w' = [w EXCEPT !.pc = "account"]
      BY <1>11 DEF applyKeyStatus
    <2> HIDE DEF g
    <2>4. QED
      BY <1>a, <2>2, <2>3, ZenonT(30)
  <1>12. CASE UpdateKeyStatus
    BY <1>a, <1>12 DEF UpdateKeyStatus
  <1>13. CASE UpdateFails
    BY <1>a, <1>13 DEF UpdateFails
  <1>14. CASE applyCPAAccount
    <2>1. [w EXCEPT !.pc = "sync", !.acted = TRUE] \in Workers
      BY <1>a
    <2>2. [w EXCEPT !.pc = "sync"] \in Workers
      BY <1>a
    <2>3. \/ w' = [w EXCEPT !.pc = "sync", !.acted = TRUE]
          \/ w' = [w EXCEPT !.pc = "sync"]
      BY <1>14 DEF applyCPAAccount
    <2> HIDE DEF Workers, Places
    <2>4. QED
      BY <2>1, <2>2, <2>3
  <1>15. CASE LoadProviderSyncSnapshot
    <2> DEFINE e == Eligible
    <2>1. e \in SUBSET Keys
      BY ProbeAssumption DEF Eligible
    <2>2. \E p \in {"syncPut", "expirePut", "done", "expireAccount"} :
             \/ w' = [w EXCEPT !.pc = p, !.snapshot = e]
             \/ w' = [w EXCEPT !.pc = p]
      BY <1>a, <1>15 DEF LoadProviderSyncSnapshot
    <2> HIDE DEF e
    <2>3. QED
      BY <1>a, <2>1, <2>2, ZenonT(30)
  <1>16. CASE putCPASection
    BY <1>a, <1>16 DEF putCPASection
  <1>17. ASSUME NEW done \in BOOLEAN, applyCPAAccountFails(done) PROVE
        WorkerType'
    BY <1>a, <1>17 DEF applyCPAAccountFails
  <1>18. ASSUME NEW done \in BOOLEAN, putCPASectionFails(done) PROVE
        WorkerType'
    BY <1>a, <1>18 DEF putCPASectionFails
  <1>19. CASE EndPolicies
    <2> DEFINE n == IF w.acted THEN w.actions + 1 ELSE w.actions
    <2>1. n \in Nat
      BY <1>a
    <2>2. w' = [w EXCEPT !.pc = "event", !.actions = n]
      BY <1>a, <1>19 DEF EndPolicies
    <2> HIDE DEF n
    <2>3. QED
      BY <1>a, <2>1, <2>2
  <1>20. CASE expireMatchedKey
    <2>1. \E p \in {"scan", "event", "expireSync"} : w' = [w EXCEPT !.pc = p]
      BY <1>20 DEF expireMatchedKey, AfterExpiry
    <2>2. QED
      BY <1>a, <2>1
  <1>21. CASE expireMatchedKeyFails
    <2>1. \E p \in {"scan", "event"} : w' = [w EXCEPT !.pc = p]
      BY <1>21 DEF expireMatchedKeyFails, AfterExpiry
    <2>2. QED
      BY <1>a, <2>1
  <1>22. ASSUME NEW done \in BOOLEAN, NEW logged \in BOOLEAN,
        ExpireAccount(done, logged) PROVE WorkerType'
    <2> DEFINE n == IF w.scanning THEN w.actions ELSE w.actions + 1
    <2>1. n \in Nat
      BY <1>a
    <2>2. \E p \in {"scan", "event"} : w' = [w EXCEPT !.pc = p, !.actions = n]
      BY <1>a, <1>22 DEF ExpireAccount, AfterExpiry
    <2> HIDE DEF n
    <2>3. QED
      BY <1>a, <2>1, <2>2, ZenonT(30)
  <1>23. CASE expireDueKeys
    <2> DEFINE s == {[k |-> k, match |-> key[k]] : k \in DueKeys}
    <2>1. s \in SUBSET [k : Keys, match : Row]
      <3>1. \A k \in DueKeys : k \in Keys /\ key[k] \in Row
        BY <1>a DEF TypeOK, DueKeys
      <3>2. QED
        BY <3>1
    <2>2. w' = [w EXCEPT !.pc = "scan", !.scanning = TRUE, !.scan = s]
      BY <1>23 DEF expireDueKeys
    <2> HIDE DEF s
    <2>3. QED
      BY <1>a, <2>1, <2>2
  <1>24. CASE EndScan
    BY <1>24, IdleType DEF EndScan
  <1>25. ASSUME NEW item \in w.scan, NextDue(item) PROVE WorkerType'
    BY <1>a, <1>25 DEF NextDue
  <1>26. CASE (\E batch \in Batches : ProcessUsageEvents(batch)) \/
            UpdateConfigSave \/ UpdateConfigApply \/ (\E k \in Keys : \E s \in
            AdminStatuses \cup {key[k].status} : \E t \in {0, key[k].expires,
            now + Renewal} : EditKey(k, s, t)) \/ Tick
    <2>1. UNCHANGED <<w>>
      BY <1>26 DEF ProcessUsageEvents, UpdateConfigSave, UpdateConfigApply,
             EditKey, Tick
    <2>2. QED
      BY <1>a, <2>1
  <1>27. CASE UNCHANGED vars
    BY <1>a, <1>27 DEF vars
  <1>28. QED
    BY <1>1, <1>2, <1>3, <1>4, <1>5, <1>6, <1>7, <1>8, <1>9, <1>10, <1>11,
       <1>12, <1>13, <1>14, <1>15, <1>16, <1>17, <1>18, <1>19, <1>20, <1>21,
       <1>22, <1>23, <1>24, <1>25, <1>26, <1>27
       DEF Next, Worker, Edit

(* Every step keeps the types of the rows. *)
LEMMA RowsStep ==
    ASSUME IndInv, [Next]_vars
    PROVE  RowsType'
  <1> USE DEF RowsType, queueVars, cfgVars, dbVars, cpaVars, histVars
  <1>a. TypeOK /\ HandsInv /\ RowsType
    BY DEF IndInv, TypeOK, RowsType
  <1>1. ASSUME NEW k \in Keys, NEW s \in AdminStatuses \cup {key[k].status},
        NEW t \in {0, key[k].expires, now + Renewal}, EditKey(k, s, t) PROVE
        RowsType'
    BY <1>a, <1>1, EditKeyDoes
  <1>2. ASSUME NEW written \in BOOLEAN, Decide(written) PROVE RowsType'
    BY <1>a, <1>2, DecideDoes
  <1>3. CASE applyPriority
    BY <1>a, <1>3, PriorityDoes
  <1>4. CASE UpdateKeyStatus
    BY <1>a, <1>4, StatusDoes
  <1>5. CASE expireMatchedKey
    BY <1>a, <1>5, ExpireDoes
  <1>6. CASE (\E batch \in Batches : ProcessUsageEvents(batch)) \/
            UpdateConfigSave \/ UpdateConfigApply \/ Tick \/ (\E stale \in
            BOOLEAN : TakeBatch(stale)) \/ refreshConfigIfNeeded \/ StartBatch
            \/ EndBatch \/ NextEvent \/ FindKeyFails \/ InsertResult \/
            InsertResultFails \/ applyKeyStatus \/ UpdateFails \/
            applyCPAAccount \/ LoadProviderSyncSnapshot \/ putCPASection \/ (\E
            done \in BOOLEAN : applyCPAAccountFails(done)) \/ (\E done \in
            BOOLEAN : putCPASectionFails(done)) \/ EndPolicies \/
            expireMatchedKeyFails \/ (\E done \in BOOLEAN : \E logged \in
            BOOLEAN : ExpireAccount(done, logged)) \/ expireDueKeys \/ EndScan
            \/ (\E item \in w.scan : NextDue(item))
    <2>1. UNCHANGED <<key>>
      BY <1>6 DEF ProcessUsageEvents, UpdateConfigSave, UpdateConfigApply,
             Tick, TakeBatch, refreshConfigIfNeeded, StartBatch, EndBatch,
             NextEvent, FindKeyFails, InsertResult, InsertResultFails,
             applyKeyStatus, UpdateFails, applyCPAAccount,
             LoadProviderSyncSnapshot, putCPASection, applyCPAAccountFails,
             putCPASectionFails, EndPolicies, expireMatchedKeyFails,
             ExpireAccount, expireDueKeys, EndScan, NextDue
    <2>2. QED
      BY <1>a, <2>1
  <1>7. CASE UNCHANGED vars
    BY <1>a, <1>7 DEF vars
  <1>8. QED
    BY <1>1, <1>2, <1>3, <1>4, <1>5, <1>6, <1>7
       DEF Next, Worker, Edit

(* Every step keeps the types of the actions, the accounts and the routes. *)
LEMMA LogsStep ==
    ASSUME IndInv, [Next]_vars
    PROVE  LogsType'
  <1> USE DEF LogsType, HandsInv, Action, queueVars, cfgVars, dbVars, cpaVars,
              histVars
  <1>a. TypeOK /\ HandsInv /\ LogsType
    BY DEF IndInv, TypeOK, LogsType
  <1>1. ASSUME NEW k \in Keys, NEW s \in AdminStatuses \cup {key[k].status},
        NEW t \in {0, key[k].expires, now + Renewal}, EditKey(k, s, t) PROVE
        LogsType'
    BY <1>a, <1>1 DEF EditKey
  <1>2. ASSUME NEW written \in BOOLEAN, Decide(written) PROVE LogsType'
    <2>1. UNCHANGED routed /\ w.k \in Keys
      BY <1>a, <1>2 DEF Decide
    <2>2. lastAction' = lastAction \/ \E v \in Action :
             lastAction' = [lastAction EXCEPT ![w.k] = v]
      BY <1>2 DEF Decide
    <2>3. offline' = offline \/ offline' = [offline EXCEPT ![w.k] = TRUE]
      BY <1>2 DEF Decide
    <2>4. QED
      BY <1>a, <2>1, <2>2, <2>3
  <1>3. CASE applyPriority
    <2>1. UNCHANGED routed /\ w.k \in Keys
      BY <1>a, <1>3 DEF applyPriority
    <2>2. lastAction' = lastAction \/ \E v \in Action :
             lastAction' = [lastAction EXCEPT ![w.k] = v]
      BY <1>3 DEF applyPriority
    <2>3. offline' = offline \/ offline' = [offline EXCEPT ![w.k] = TRUE]
      BY <1>3 DEF applyPriority
    <2>4. QED
      BY <1>a, <2>1, <2>2, <2>3
  <1>4. CASE UpdateKeyStatus
    <2>1. UNCHANGED routed /\ w.k \in Keys
      BY <1>a, <1>4 DEF UpdateKeyStatus
    <2>2. lastAction' = lastAction \/ \E v \in Action :
             lastAction' = [lastAction EXCEPT ![w.k] = v]
      BY <1>4 DEF UpdateKeyStatus
    <2>3. offline' = offline \/ offline' = [offline EXCEPT ![w.k] = TRUE]
      BY <1>4 DEF UpdateKeyStatus
    <2>4. QED
      BY <1>a, <2>1, <2>2, <2>3
  <1>5. CASE applyCPAAccount
    <2>1. w.k \in Keys /\ w.cur \in Hashes
      BY <1>a, <1>5 DEF applyCPAAccount
    <2>2. Failed(w.cur) \in BOOLEAN
      BY <1>a, <2>1, EventType
    <2>3. QED
      BY <1>a, <1>5, <2>1, <2>2 DEF applyCPAAccount
  <1>6. CASE putCPASection
    <2>1. w.snapshot \in SUBSET Keys
      BY <1>a DEF TypeOK, Workers
    <2>2. QED
      BY <1>a, <1>6, <2>1 DEF putCPASection
  <1>7. ASSUME NEW done \in BOOLEAN, applyCPAAccountFails(done) PROVE LogsType'
    <2>1. w.k \in Keys /\ w.cur \in Hashes
      BY <1>a, <1>7 DEF applyCPAAccountFails
    <2>2. Failed(w.cur) \in BOOLEAN
      BY <1>a, <2>1, EventType
    <2>3. QED
      BY <1>a, <1>7, <2>1, <2>2 DEF applyCPAAccountFails
  <1>8. ASSUME NEW done \in BOOLEAN, putCPASectionFails(done) PROVE LogsType'
    <2>1. w.snapshot \in SUBSET Keys
      BY <1>a DEF TypeOK, Workers
    <2>2. QED
      BY <1>a, <1>8, <2>1 DEF putCPASectionFails
  <1>9. CASE expireMatchedKey
    <2>1. UNCHANGED routed /\ w.k \in Keys
      BY <1>a, <1>9 DEF expireMatchedKey
    <2>2. lastAction' = lastAction \/ \E v \in Action :
             lastAction' = [lastAction EXCEPT ![w.k] = v]
      BY <1>9 DEF expireMatchedKey
    <2>3. offline' = offline \/ offline' = [offline EXCEPT ![w.k] = TRUE]
      BY <1>9 DEF expireMatchedKey
    <2>4. QED
      BY <1>a, <2>1, <2>2, <2>3
  <1>10. ASSUME NEW done \in BOOLEAN, NEW logged \in BOOLEAN,
        ExpireAccount(done, logged) PROVE LogsType'
    <2>1. UNCHANGED routed /\ w.k \in Keys
      BY <1>a, <1>10 DEF ExpireAccount
    <2>2. lastAction' = lastAction \/ \E v \in Action :
             lastAction' = [lastAction EXCEPT ![w.k] = v]
      BY <1>10 DEF ExpireAccount
    <2>3. offline' = offline \/ offline' = [offline EXCEPT ![w.k] = TRUE]
      BY <1>10 DEF ExpireAccount
    <2>4. QED
      BY <1>a, <2>1, <2>2, <2>3
  <1>11. CASE (\E batch \in Batches : ProcessUsageEvents(batch)) \/
            UpdateConfigSave \/ UpdateConfigApply \/ Tick \/ (\E stale \in
            BOOLEAN : TakeBatch(stale)) \/ refreshConfigIfNeeded \/ StartBatch
            \/ EndBatch \/ NextEvent \/ FindKeyFails \/ InsertResult \/
            InsertResultFails \/ applyKeyStatus \/ UpdateFails \/
            LoadProviderSyncSnapshot \/ EndPolicies \/ expireMatchedKeyFails \/
            expireDueKeys \/ EndScan \/ (\E item \in w.scan : NextDue(item))
    <2>1. UNCHANGED <<lastAction, offline, routed>>
      BY <1>11 DEF ProcessUsageEvents, UpdateConfigSave, UpdateConfigApply,
             Tick, TakeBatch, refreshConfigIfNeeded, StartBatch, EndBatch,
             NextEvent, FindKeyFails, InsertResult, InsertResultFails,
             applyKeyStatus, UpdateFails, LoadProviderSyncSnapshot,
             EndPolicies, expireMatchedKeyFails, expireDueKeys, EndScan,
             NextDue
    <2>2. QED
      BY <1>a, <2>1
  <1>12. CASE UNCHANGED vars
    BY <1>a, <1>12 DEF vars
  <1>13. QED
    BY <1>1, <1>2, <1>3, <1>4, <1>5, <1>6, <1>7, <1>8, <1>9, <1>10, <1>11,
       <1>12
       DEF Next, Worker, Edit

(* Every step keeps the types of what the history tells. *)
LEMMA HistStep ==
    ASSUME IndInv, [Next]_vars
    PROVE  HistType'
  <1> USE DEF HistType, HandsInv, queueVars, cfgVars, dbVars, cpaVars, histVars
  <1>a. TypeOK /\ HandsInv /\ HistType
    BY DEF IndInv, TypeOK, HistType
  <1>1. ASSUME NEW k \in Keys, NEW s \in AdminStatuses \cup {key[k].status},
        NEW t \in {0, key[k].expires, now + Renewal}, EditKey(k, s, t) PROVE
        HistType'
    BY <1>a, <1>1 DEF EditKey
  <1>2. ASSUME NEW written \in BOOLEAN, Decide(written) PROVE HistType'
    <2>1. /\ UNCHANGED <<outdated, raced>> /\ w.k \in Keys
          /\ overlooked' \in {overlooked, overlooked \cup {w.k}, overlooked \ {w.k}}
      BY <1>a, <1>2 DEF Decide
    <2>2. QED
      BY <1>a, <2>1
  <1>3. CASE UpdateKeyStatus
    BY <1>a, <1>3 DEF UpdateKeyStatus
  <1>4. CASE UpdateFails
    BY <1>a, <1>4 DEF UpdateFails
  <1>5. CASE LoadProviderSyncSnapshot
    BY <1>a, <1>5 DEF LoadProviderSyncSnapshot
  <1>6. ASSUME NEW done \in BOOLEAN, putCPASectionFails(done) PROVE HistType'
    BY <1>a, <1>6 DEF putCPASectionFails
  <1>7. CASE (\E batch \in Batches : ProcessUsageEvents(batch)) \/
            UpdateConfigSave \/ UpdateConfigApply \/ Tick \/ (\E stale \in
            BOOLEAN : TakeBatch(stale)) \/ refreshConfigIfNeeded \/ StartBatch
            \/ EndBatch \/ NextEvent \/ FindKeyFails \/ InsertResult \/
            InsertResultFails \/ applyPriority \/ applyKeyStatus \/
            applyCPAAccount \/ putCPASection \/ (\E done \in BOOLEAN :
            applyCPAAccountFails(done)) \/ EndPolicies \/ expireMatchedKey \/
            expireMatchedKeyFails \/ (\E done \in BOOLEAN : \E logged \in
            BOOLEAN : ExpireAccount(done, logged)) \/ expireDueKeys \/ EndScan
            \/ (\E item \in w.scan : NextDue(item))
    <2>1. UNCHANGED <<overlooked, outdated, raced>>
      BY <1>7 DEF ProcessUsageEvents, UpdateConfigSave, UpdateConfigApply,
             Tick, TakeBatch, refreshConfigIfNeeded, StartBatch, EndBatch,
             NextEvent, FindKeyFails, InsertResult, InsertResultFails,
             applyPriority, applyKeyStatus, applyCPAAccount, putCPASection,
             applyCPAAccountFails, EndPolicies, expireMatchedKey,
             expireMatchedKeyFails, ExpireAccount, expireDueKeys, EndScan,
             NextDue
    <2>2. QED
      BY <1>a, <2>1
  <1>8. CASE UNCHANGED vars
    BY <1>a, <1>8 DEF vars
  <1>9. QED
    BY <1>1, <1>2, <1>3, <1>4, <1>5, <1>6, <1>7, <1>8
       DEF Next, Worker, Edit

(* Every step keeps the clock and the counters. *)
LEMMA ClockStep ==
    ASSUME IndInv, [Next]_vars
    PROVE  ClockType'
  <1> USE DEF ClockType, queueVars, cfgVars, dbVars, cpaVars, histVars
  <1>a. TypeOK /\ ClockType
    BY DEF IndInv, TypeOK, ClockType
  <1>1. CASE UpdateConfigSave
    <2>1. UNCHANGED <<now, event, faults>> /\ edits < MaxEdits /\ edits' = edits + 1
      BY <1>1 DEF UpdateConfigSave
    <2>2. QED
      BY <1>a, <2>1, ProbeAssumption
  <1>2. ASSUME NEW k \in Keys, NEW s \in AdminStatuses \cup {key[k].status},
        NEW t \in {0, key[k].expires, now + Renewal}, EditKey(k, s, t) PROVE
        ClockType'
    <2>1. UNCHANGED <<now, event, faults>> /\ edits < MaxEdits /\ edits' = edits + 1
      BY <1>2 DEF EditKey
    <2>2. QED
      BY <1>a, <2>1, ProbeAssumption
  <1>3. CASE Tick
    BY <1>a, <1>3, ProbeAssumption DEF Tick
  <1>4. CASE FindKeyFails
    <2>1. /\ UNCHANGED <<now, event, edits>>
          /\ faults' = faults \/ (faults < MaxFaults /\ faults' = faults + 1)
      BY <1>4 DEF FindKeyFails
    <2>2. QED
      BY <1>a, <2>1, ProbeAssumption
  <1>5. CASE InsertResultFails
    <2>1. /\ UNCHANGED <<now, event, edits>>
          /\ faults' = faults \/ (faults < MaxFaults /\ faults' = faults + 1)
      BY <1>5 DEF InsertResultFails
    <2>2. QED
      BY <1>a, <2>1, ProbeAssumption
  <1>6. ASSUME NEW written \in BOOLEAN, Decide(written) PROVE ClockType'
    <2>1. /\ UNCHANGED <<now, event, edits>>
          /\ faults' = faults \/ (faults < MaxFaults /\ faults' = faults + 1)
      BY <1>6 DEF Decide
    <2>2. QED
      BY <1>a, <2>1, ProbeAssumption
  <1>7. CASE UpdateFails
    <2>1. /\ UNCHANGED <<now, event, edits>>
          /\ faults' = faults \/ (faults < MaxFaults /\ faults' = faults + 1)
      BY <1>7 DEF UpdateFails
    <2>2. QED
      BY <1>a, <2>1, ProbeAssumption
  <1>8. ASSUME NEW done \in BOOLEAN, applyCPAAccountFails(done) PROVE
        ClockType'
    <2>1. /\ UNCHANGED <<now, event, edits>>
          /\ faults' = faults \/ (faults < MaxFaults /\ faults' = faults + 1)
      BY <1>8 DEF applyCPAAccountFails
    <2>2. QED
      BY <1>a, <2>1, ProbeAssumption
  <1>9. ASSUME NEW done \in BOOLEAN, putCPASectionFails(done) PROVE ClockType'
    <2>1. /\ UNCHANGED <<now, event, edits>>
          /\ faults' = faults \/ (faults < MaxFaults /\ faults' = faults + 1)
      BY <1>9 DEF putCPASectionFails
    <2>2. QED
      BY <1>a, <2>1, ProbeAssumption
  <1>10. CASE expireMatchedKeyFails
    <2>1. /\ UNCHANGED <<now, event, edits>>
          /\ faults' = faults \/ (faults < MaxFaults /\ faults' = faults + 1)
      BY <1>10 DEF expireMatchedKeyFails
    <2>2. QED
      BY <1>a, <2>1, ProbeAssumption
  <1>11. ASSUME NEW done \in BOOLEAN, NEW logged \in BOOLEAN,
        ExpireAccount(done, logged) PROVE ClockType'
    <2>1. /\ UNCHANGED <<now, event, edits>>
          /\ faults' = faults \/ (faults < MaxFaults /\ faults' = faults + 1)
      BY <1>11 DEF ExpireAccount
    <2>2. QED
      BY <1>a, <2>1, ProbeAssumption
  <1>12. CASE (\E batch \in Batches : ProcessUsageEvents(batch)) \/
            UpdateConfigApply \/ (\E stale \in BOOLEAN : TakeBatch(stale)) \/
            refreshConfigIfNeeded \/ StartBatch \/ EndBatch \/ NextEvent \/
            InsertResult \/ applyPriority \/ applyKeyStatus \/ UpdateKeyStatus
            \/ applyCPAAccount \/ LoadProviderSyncSnapshot \/ putCPASection \/
            EndPolicies \/ expireMatchedKey \/ expireDueKeys \/ EndScan \/ (\E
            item \in w.scan : NextDue(item))
    <2>1. UNCHANGED <<now, event, edits, faults>>
      BY <1>12 DEF ProcessUsageEvents, UpdateConfigApply, TakeBatch,
             refreshConfigIfNeeded, StartBatch, EndBatch, NextEvent,
             InsertResult, applyPriority, applyKeyStatus, UpdateKeyStatus,
             applyCPAAccount, LoadProviderSyncSnapshot, putCPASection,
             EndPolicies, expireMatchedKey, expireDueKeys, EndScan, NextDue
    <2>2. QED
      BY <1>a, <2>1
  <1>13. CASE UNCHANGED vars
    BY <1>a, <1>13 DEF vars
  <1>14. QED
    BY <1>1, <1>2, <1>3, <1>4, <1>5, <1>6, <1>7, <1>8, <1>9, <1>10, <1>11,
       <1>12, <1>13
       DEF Next, Worker, Edit

(* Every step keeps the queue of batches. *)
LEMMA BatchesStep ==
    ASSUME IndInv, [Next]_vars
    PROVE  BatchesType'
  <1> USE DEF BatchesType, queueVars, cfgVars, dbVars, cpaVars, histVars
  <1>a. TypeOK /\ BatchesType
    BY DEF IndInv, TypeOK, BatchesType
  <1>1. ASSUME NEW batch \in Batches, ProcessUsageEvents(batch) PROVE
        BatchesType'
    <2> DEFINE S == Seq(Hashes)
    <2>1. batch \in S
      BY DEF Batches
    <2>2. queue \in Seq(S) /\ Len(queue) <= QueueCap
      BY <1>a
    <2>3. {QueueCap, MaxDeliveries} \subseteq Nat
      BY ProbeAssumption
    <2>4. queue' \in Seq(S) /\ Len(queue') <= QueueCap
      <3> HIDE DEF S
      <3>1. QED
        BY <1>1, <2>1, <2>2, <2>3, SMTT(30) DEF ProcessUsageEvents
    <2>5. delivered' \in 0..MaxDeliveries /\ dropped' \in 0..delivered'
      BY <1>a, <1>1, <2>3 DEF ProcessUsageEvents
    <2>6. QED
      BY <2>4, <2>5
  <1>2. ASSUME NEW stale \in BOOLEAN, TakeBatch(stale) PROVE BatchesType'
    BY <1>a, <1>2, QueueType DEF TakeBatch
  <1>3. CASE UpdateConfigSave \/ UpdateConfigApply \/ (\E k \in Keys : \E s \in
            AdminStatuses \cup {key[k].status} : \E t \in {0, key[k].expires,
            now + Renewal} : EditKey(k, s, t)) \/ Tick \/ refreshConfigIfNeeded
            \/ StartBatch \/ EndBatch \/ NextEvent \/ FindKeyFails \/
            InsertResult \/ InsertResultFails \/ (\E written \in BOOLEAN :
            Decide(written)) \/ applyPriority \/ applyKeyStatus \/
            UpdateKeyStatus \/ UpdateFails \/ applyCPAAccount \/
            LoadProviderSyncSnapshot \/ putCPASection \/ (\E done \in BOOLEAN :
            applyCPAAccountFails(done)) \/ (\E done \in BOOLEAN :
            putCPASectionFails(done)) \/ EndPolicies \/ expireMatchedKey \/
            expireMatchedKeyFails \/ (\E done \in BOOLEAN : \E logged \in
            BOOLEAN : ExpireAccount(done, logged)) \/ expireDueKeys \/ EndScan
            \/ (\E item \in w.scan : NextDue(item))
    <2>1. UNCHANGED <<delivered, dropped, queue>>
      BY <1>3 DEF UpdateConfigSave, UpdateConfigApply, EditKey, Tick,
             refreshConfigIfNeeded, StartBatch, EndBatch, NextEvent,
             FindKeyFails, InsertResult, InsertResultFails, Decide,
             applyPriority, applyKeyStatus, UpdateKeyStatus, UpdateFails,
             applyCPAAccount, LoadProviderSyncSnapshot, putCPASection,
             applyCPAAccountFails, putCPASectionFails, EndPolicies,
             expireMatchedKey, expireMatchedKeyFails, ExpireAccount,
             expireDueKeys, EndScan, NextDue
    <2>2. QED
      BY <1>a, <2>1
  <1>4. CASE UNCHANGED vars
    BY <1>a, <1>4 DEF vars
  <1>5. QED
    BY <1>1, <1>2, <1>3, <1>4
       DEF Next, Worker, Edit

(* Every step keeps the switches. *)
LEMMA FlagsStep ==
    ASSUME IndInv, [Next]_vars
    PROVE  FlagsType'
  <1> USE DEF FlagsType, queueVars, cfgVars, dbVars, cpaVars, histVars
  <1>a. TypeOK /\ FlagsType
    BY DEF IndInv, TypeOK, FlagsType
  <1>1. CASE UpdateConfigSave
    BY <1>a, <1>1 DEF UpdateConfigSave
  <1>2. CASE UpdateConfigApply
    BY <1>a, <1>2 DEF UpdateConfigApply
  <1>3. CASE refreshConfigIfNeeded
    <2>1. w.loaded \in BOOLEAN
      BY <1>a DEF TypeOK, Workers
    <2>2. QED
      BY <1>a, <1>3, <2>1 DEF refreshConfigIfNeeded
  <1>4. CASE (\E batch \in Batches : ProcessUsageEvents(batch)) \/ (\E k \in
            Keys : \E s \in AdminStatuses \cup {key[k].status} : \E t \in {0,
            key[k].expires, now + Renewal} : EditKey(k, s, t)) \/ Tick \/ (\E
            stale \in BOOLEAN : TakeBatch(stale)) \/ StartBatch \/ EndBatch \/
            NextEvent \/ FindKeyFails \/ InsertResult \/ InsertResultFails \/
            (\E written \in BOOLEAN : Decide(written)) \/ applyPriority \/
            applyKeyStatus \/ UpdateKeyStatus \/ UpdateFails \/ applyCPAAccount
            \/ LoadProviderSyncSnapshot \/ putCPASection \/ (\E done \in
            BOOLEAN : applyCPAAccountFails(done)) \/ (\E done \in BOOLEAN :
            putCPASectionFails(done)) \/ EndPolicies \/ expireMatchedKey \/
            expireMatchedKeyFails \/ (\E done \in BOOLEAN : \E logged \in
            BOOLEAN : ExpireAccount(done, logged)) \/ expireDueKeys \/ EndScan
            \/ (\E item \in w.scan : NextDue(item))
    <2>1. UNCHANGED <<savedEnabled, enabled, updating>>
      BY <1>4 DEF ProcessUsageEvents, EditKey, Tick, TakeBatch, StartBatch,
             EndBatch, NextEvent, FindKeyFails, InsertResult,
             InsertResultFails, Decide, applyPriority, applyKeyStatus,
             UpdateKeyStatus, UpdateFails, applyCPAAccount,
             LoadProviderSyncSnapshot, putCPASection, applyCPAAccountFails,
             putCPASectionFails, EndPolicies, expireMatchedKey,
             expireMatchedKeyFails, ExpireAccount, expireDueKeys, EndScan,
             NextDue
    <2>2. QED
      BY <1>a, <2>1
  <1>5. CASE UNCHANGED vars
    BY <1>a, <1>5 DEF vars
  <1>6. QED
    BY <1>1, <1>2, <1>3, <1>4, <1>5
       DEF Next, Worker, Edit

(* Every step keeps the types of the results. *)
LEMMA ResultsStep ==
    ASSUME IndInv, [Next]_vars
    PROVE  ResultsType'
  <1> USE DEF ResultsType, HandsInv, queueVars, cfgVars, dbVars, cpaVars,
              histVars
  <1>a. TypeOK /\ HandsInv /\ ResultsType
    BY DEF IndInv, TypeOK, ResultsType
  <1>1. CASE InsertResult
    BY <1>a, <1>1 DEF InsertResult
  <1>2. ASSUME NEW written \in BOOLEAN, Decide(written) PROVE ResultsType'
    BY <1>a, <1>2 DEF Decide
  <1>3. CASE (\E batch \in Batches : ProcessUsageEvents(batch)) \/
            UpdateConfigSave \/ UpdateConfigApply \/ (\E k \in Keys : \E s \in
            AdminStatuses \cup {key[k].status} : \E t \in {0, key[k].expires,
            now + Renewal} : EditKey(k, s, t)) \/ Tick \/ (\E stale \in BOOLEAN
            : TakeBatch(stale)) \/ refreshConfigIfNeeded \/ StartBatch \/
            EndBatch \/ NextEvent \/ FindKeyFails \/ InsertResultFails \/
            applyPriority \/ applyKeyStatus \/ UpdateKeyStatus \/ UpdateFails
            \/ applyCPAAccount \/ LoadProviderSyncSnapshot \/ putCPASection \/
            (\E done \in BOOLEAN : applyCPAAccountFails(done)) \/ (\E done \in
            BOOLEAN : putCPASectionFails(done)) \/ EndPolicies \/
            expireMatchedKey \/ expireMatchedKeyFails \/ (\E done \in BOOLEAN :
            \E logged \in BOOLEAN : ExpireAccount(done, logged)) \/
            expireDueKeys \/ EndScan \/ (\E item \in w.scan : NextDue(item))
    <2>1. UNCHANGED <<results, handled>>
      BY <1>3 DEF ProcessUsageEvents, UpdateConfigSave, UpdateConfigApply,
             EditKey, Tick, TakeBatch, refreshConfigIfNeeded, StartBatch,
             EndBatch, NextEvent, FindKeyFails, InsertResultFails,
             applyPriority, applyKeyStatus, UpdateKeyStatus, UpdateFails,
             applyCPAAccount, LoadProviderSyncSnapshot, putCPASection,
             applyCPAAccountFails, putCPASectionFails, EndPolicies,
             expireMatchedKey, expireMatchedKeyFails, ExpireAccount,
             expireDueKeys, EndScan, NextDue
    <2>2. QED
      BY <1>a, <2>1
  <1>4. CASE UNCHANGED vars
    BY <1>a, <1>4 DEF vars
  <1>5. QED
    BY <1>1, <1>2, <1>3, <1>4
       DEF Next, Worker, Edit

(* Every step keeps a row for what the policies have seen. *)
LEMMA HandledStep ==
    ASSUME IndInv, [Next]_vars
    PROVE  HandledInv'
  <1> USE DEF HandledInv, HandsInv, Recorded, Workers, Idle, AfterExpiry,
              queueVars, cfgVars, dbVars, cpaVars, histVars
  <1>a. TypeOK /\ HandsInv /\ HandledInv /\ w \in Workers
    BY DEF IndInv, TypeOK
  <1>1. ASSUME NEW stale \in BOOLEAN, TakeBatch(stale) PROVE HandledInv'
    BY <1>a, <1>1 DEF TakeBatch
  <1>2. CASE refreshConfigIfNeeded
    BY <1>a, <1>2 DEF refreshConfigIfNeeded
  <1>3. CASE StartBatch
    BY <1>a, <1>3 DEF StartBatch
  <1>4. CASE EndBatch
    BY <1>a, <1>4 DEF EndBatch
  <1>5. CASE NextEvent
    BY <1>a, <1>5 DEF NextEvent
  <1>6. CASE FindKeyFails
    BY <1>a, <1>6 DEF FindKeyFails
  <1>7. CASE InsertResult
    <2>1. results \in Seq(Hashes) /\ w.cur \in Hashes
      BY <1>a, <1>7 DEF InsertResult, TypeOK
    <2>2. /\ UNCHANGED handled /\ w'.cur = w.cur
          /\ results' = IF Inserted THEN Append(results, w.cur) ELSE results
          /\ w'.pc = "decide" => Inserted
      BY <1>a, <1>7 DEF InsertResult
    <2>3. ASSUME NEW h \in Hashes, Recorded(h) PROVE Recorded(h)'
      BY <2>1, <2>2, <2>3
    <2>4. Inserted => Recorded(w.cur)' /\ ~ Recorded(w.cur)
      BY <2>1, <2>2 DEF Inserted
    <2> HIDE DEF Recorded
    <2>5. QED
      BY <1>a, <2>1, <2>2, <2>3, <2>4
  <1>8. CASE InsertResultFails
    BY <1>a, <1>8 DEF InsertResultFails
  <1>9. ASSUME NEW written \in BOOLEAN, Decide(written) PROVE HandledInv'
    BY <1>a, <1>9 DEF Decide
  <1>10. CASE applyPriority
    BY <1>a, <1>10 DEF applyPriority
  <1>11. CASE applyKeyStatus
    BY <1>a, <1>11 DEF applyKeyStatus
  <1>12. CASE UpdateKeyStatus
    BY <1>a, <1>12 DEF UpdateKeyStatus
  <1>13. CASE UpdateFails
    BY <1>a, <1>13 DEF UpdateFails
  <1>14. CASE applyCPAAccount
    BY <1>a, <1>14 DEF applyCPAAccount
  <1>15. CASE LoadProviderSyncSnapshot
    BY <1>a, <1>15 DEF LoadProviderSyncSnapshot
  <1>16. CASE putCPASection
    BY <1>a, <1>16 DEF putCPASection
  <1>17. ASSUME NEW done \in BOOLEAN, applyCPAAccountFails(done) PROVE
        HandledInv'
    BY <1>a, <1>17 DEF applyCPAAccountFails
  <1>18. ASSUME NEW done \in BOOLEAN, putCPASectionFails(done) PROVE
        HandledInv'
    BY <1>a, <1>18 DEF putCPASectionFails
  <1>19. CASE EndPolicies
    BY <1>a, <1>19 DEF EndPolicies
  <1>20. CASE expireMatchedKey
    BY <1>a, <1>20 DEF expireMatchedKey
  <1>21. CASE expireMatchedKeyFails
    BY <1>a, <1>21 DEF expireMatchedKeyFails
  <1>22. ASSUME NEW done \in BOOLEAN, NEW logged \in BOOLEAN,
        ExpireAccount(done, logged) PROVE HandledInv'
    BY <1>a, <1>22 DEF ExpireAccount
  <1>23. CASE expireDueKeys
    BY <1>a, <1>23 DEF expireDueKeys
  <1>24. CASE EndScan
    BY <1>a, <1>24 DEF EndScan
  <1>25. ASSUME NEW item \in w.scan, NextDue(item) PROVE HandledInv'
    BY <1>a, <1>25 DEF NextDue
  <1>26. CASE (\E batch \in Batches : ProcessUsageEvents(batch)) \/
            UpdateConfigSave \/ UpdateConfigApply \/ (\E k \in Keys : \E s \in
            AdminStatuses \cup {key[k].status} : \E t \in {0, key[k].expires,
            now + Renewal} : EditKey(k, s, t)) \/ Tick
    <2>1. UNCHANGED <<results, handled, w>>
      BY <1>26 DEF ProcessUsageEvents, UpdateConfigSave, UpdateConfigApply,
             EditKey, Tick
    <2>2. QED
      BY <1>a, <2>1
  <1>27. CASE UNCHANGED vars
    BY <1>a, <1>27 DEF vars
  <1>28. QED
    BY <1>1, <1>2, <1>3, <1>4, <1>5, <1>6, <1>7, <1>8, <1>9, <1>10, <1>11,
       <1>12, <1>13, <1>14, <1>15, <1>16, <1>17, <1>18, <1>19, <1>20, <1>21,
       <1>22, <1>23, <1>24, <1>25, <1>26, <1>27
       DEF Next, Worker, Edit

(* Every step keeps the status to be overwritten one that is not protected. *)
LEMMA StatusStep ==
    ASSUME IndInv, [Next]_vars
    PROVE  StatusInv'
  <1> USE DEF StatusInv, HandsInv, Workers, Idle, AfterExpiry, queueVars,
              cfgVars, dbVars, cpaVars, histVars
  <1>a. TypeOK /\ HandsInv /\ StatusInv /\ w \in Workers
    BY DEF IndInv, TypeOK
  <1>1. ASSUME NEW k \in Keys, NEW s \in AdminStatuses \cup {key[k].status},
        NEW t \in {0, key[k].expires, now + Renewal}, EditKey(k, s, t) PROVE
        StatusInv'
    <2>1. /\ UNCHANGED w
          /\ \A x \in Keys \ {k} : key'[x] = key[x]
          /\ raced' \/ w.k # k \/ w.pc # "statusWrite" \/ key'[k].status = key[k].status
          /\ raced => raced'
      BY <1>a, <1>1, EditKeyDoes, ZenonT(30) DEF EditKey
    <2>2. QED
      BY <1>a, <2>1
  <1>2. ASSUME NEW stale \in BOOLEAN, TakeBatch(stale) PROVE StatusInv'
    BY <1>a, <1>2 DEF TakeBatch
  <1>3. CASE refreshConfigIfNeeded
    BY <1>a, <1>3 DEF refreshConfigIfNeeded
  <1>4. CASE StartBatch
    BY <1>a, <1>4 DEF StartBatch
  <1>5. CASE EndBatch
    BY <1>a, <1>5 DEF EndBatch
  <1>6. CASE NextEvent
    BY <1>a, <1>6 DEF NextEvent
  <1>7. CASE FindKeyFails
    BY <1>a, <1>7 DEF FindKeyFails
  <1>8. CASE InsertResult
    BY <1>a, <1>8 DEF InsertResult
  <1>9. CASE InsertResultFails
    BY <1>a, <1>9 DEF InsertResultFails
  <1>10. ASSUME NEW written \in BOOLEAN, Decide(written) PROVE StatusInv'
    BY <1>a, <1>10 DEF Decide
  <1>11. CASE applyPriority
    BY <1>a, <1>11 DEF applyPriority
  <1>12. CASE applyKeyStatus
    <2>1. /\ UNCHANGED key /\ w'.k = w.k
          /\ w'.pc = "statusWrite" => ~ ProtectedStatus(key[w.k].status)
      BY <1>a, <1>12 DEF applyKeyStatus
    <2>2. QED
      BY <2>1
  <1>13. CASE UpdateKeyStatus
    BY <1>a, <1>13 DEF UpdateKeyStatus
  <1>14. CASE UpdateFails
    BY <1>a, <1>14 DEF UpdateFails
  <1>15. CASE applyCPAAccount
    BY <1>a, <1>15 DEF applyCPAAccount
  <1>16. CASE LoadProviderSyncSnapshot
    BY <1>a, <1>16 DEF LoadProviderSyncSnapshot
  <1>17. CASE putCPASection
    BY <1>a, <1>17 DEF putCPASection
  <1>18. ASSUME NEW done \in BOOLEAN, applyCPAAccountFails(done) PROVE
        StatusInv'
    BY <1>a, <1>18 DEF applyCPAAccountFails
  <1>19. ASSUME NEW done \in BOOLEAN, putCPASectionFails(done) PROVE StatusInv'
    BY <1>a, <1>19 DEF putCPASectionFails
  <1>20. CASE EndPolicies
    BY <1>a, <1>20 DEF EndPolicies
  <1>21. CASE expireMatchedKey
    BY <1>a, <1>21 DEF expireMatchedKey
  <1>22. CASE expireMatchedKeyFails
    BY <1>a, <1>22 DEF expireMatchedKeyFails
  <1>23. ASSUME NEW done \in BOOLEAN, NEW logged \in BOOLEAN,
        ExpireAccount(done, logged) PROVE StatusInv'
    BY <1>a, <1>23 DEF ExpireAccount
  <1>24. CASE expireDueKeys
    BY <1>a, <1>24 DEF expireDueKeys
  <1>25. CASE EndScan
    BY <1>a, <1>25 DEF EndScan
  <1>26. ASSUME NEW item \in w.scan, NextDue(item) PROVE StatusInv'
    BY <1>a, <1>26 DEF NextDue
  <1>27. CASE (\E batch \in Batches : ProcessUsageEvents(batch)) \/
            UpdateConfigSave \/ UpdateConfigApply \/ Tick
    <2>1. UNCHANGED <<key, w, raced>>
      BY <1>27 DEF ProcessUsageEvents, UpdateConfigSave, UpdateConfigApply,
             Tick
    <2>2. QED
      BY <1>a, <2>1
  <1>28. CASE UNCHANGED vars
    BY <1>a, <1>28 DEF vars
  <1>29. QED
    BY <1>1, <1>2, <1>3, <1>4, <1>5, <1>6, <1>7, <1>8, <1>9, <1>10, <1>11,
       <1>12, <1>13, <1>14, <1>15, <1>16, <1>17, <1>18, <1>19, <1>20, <1>21,
       <1>22, <1>23, <1>24, <1>25, <1>26, <1>27, <1>28
       DEF Next, Worker, Edit

(* Every step keeps a push due for every change of a status. *)
LEMMA RoutedStep ==
    ASSUME IndInv, [Next]_vars
    PROVE  RoutedInv'
  <1> USE DEF RoutedInv, HandsInv, PushDue, Workers, Idle, AfterExpiry,
              queueVars, cfgVars, dbVars, cpaVars, histVars
  <1>a. TypeOK /\ HandsInv /\ RoutedInv /\ w \in Workers
    BY DEF IndInv, TypeOK
  <1>1. CASE UpdateConfigSave
    <2>1. Eligible' = Eligible
      BY <1>1 DEF UpdateConfigSave, Eligible
    <2>2. QED
      BY <1>a, <1>1, <2>1 DEF UpdateConfigSave
  <1>2. ASSUME NEW k \in Keys, NEW s \in AdminStatuses \cup {key[k].status},
        NEW t \in {0, key[k].expires, now + Renewal}, EditKey(k, s, t) PROVE
        RoutedInv'
    <2>1. /\ UNCHANGED <<w, routed>> /\ (outdated => outdated')
          /\ \A x \in Keys \ {k} : key'[x] = key[x]
          /\ outdated' \/ key'[k].status = key[k].status
      BY <1>a, <1>2, EditKeyDoes, ZenonT(30) DEF EditKey
    <2>2. ~ outdated' => \A x \in Keys : key'[x].status = key[x].status
      BY <2>1
    <2>3. ~ outdated' => Eligible' = Eligible
      BY <2>2, ProbeAssumption DEF Eligible
    <2>4. QED
      BY <1>a, <2>1, <2>3
  <1>3. ASSUME NEW stale \in BOOLEAN, TakeBatch(stale) PROVE RoutedInv'
    <2>1. Eligible' = Eligible
      BY <1>3 DEF TakeBatch, Eligible
    <2>2. QED
      BY <1>a, <1>3, <2>1 DEF TakeBatch
  <1>4. CASE refreshConfigIfNeeded
    <2>1. Eligible' = Eligible
      BY <1>4 DEF refreshConfigIfNeeded, Eligible
    <2>2. QED
      BY <1>a, <1>4, <2>1 DEF refreshConfigIfNeeded
  <1>5. CASE StartBatch
    <2>1. Eligible' = Eligible
      BY <1>5 DEF StartBatch, Eligible
    <2>2. QED
      BY <1>a, <1>5, <2>1 DEF StartBatch
  <1>6. CASE EndBatch
    <2>1. Eligible' = Eligible
      BY <1>6 DEF EndBatch, Eligible
    <2>2. QED
      BY <1>a, <1>6, <2>1 DEF EndBatch
  <1>7. CASE NextEvent
    <2>1. Eligible' = Eligible
      BY <1>7 DEF NextEvent, Eligible
    <2>2. QED
      BY <1>a, <1>7, <2>1 DEF NextEvent
  <1>8. CASE FindKeyFails
    <2>1. Eligible' = Eligible
      BY <1>8 DEF FindKeyFails, Eligible
    <2>2. QED
      BY <1>a, <1>8, <2>1 DEF FindKeyFails
  <1>9. CASE InsertResult
    <2>1. Eligible' = Eligible
      BY <1>9 DEF InsertResult, Eligible
    <2>2. QED
      BY <1>a, <1>9, <2>1 DEF InsertResult
  <1>10. CASE InsertResultFails
    <2>1. Eligible' = Eligible
      BY <1>10 DEF InsertResultFails, Eligible
    <2>2. QED
      BY <1>a, <1>10, <2>1 DEF InsertResultFails
  <1>11. ASSUME NEW written \in BOOLEAN, Decide(written) PROVE RoutedInv'
    <2>1. Eligible' = Eligible
      <3>1. \A x \in Keys : key'[x].status = key[x].status
        BY <1>a, <1>11, DecideDoes
      <3>2. QED
        BY <3>1, ProbeAssumption DEF Eligible
    <2>2. QED
      BY <1>a, <1>11, <2>1 DEF Decide
  <1>12. CASE applyPriority
    <2>1. Eligible' = Eligible
      <3>1. \A x \in Keys : key'[x].status = key[x].status
        BY <1>a, <1>12, PriorityDoes
      <3>2. QED
        BY <3>1, ProbeAssumption DEF Eligible
    <2>2. QED
      BY <1>a, <1>12, <2>1 DEF applyPriority
  <1>13. CASE applyKeyStatus
    <2>1. Eligible' = Eligible
      BY <1>13 DEF applyKeyStatus, Eligible
    <2>2. QED
      BY <1>a, <1>13, <2>1 DEF applyKeyStatus
  <1>14. CASE UpdateKeyStatus
    <2>1. /\ w.k \in Keys /\ \A x \in Keys \ {w.k} : key'[x] = key[x]
          /\ UNCHANGED <<routed, outdated>> /\ w'.k = w.k
      BY <1>a, <1>14, StatusDoes DEF UpdateKeyStatus
    <2>2. w.k \notin ProviderKeys => Eligible' = Eligible
      BY <2>1, ProbeAssumption DEF Eligible
    <2>3. w'.pc = "account" /\ w'.acted /\ w.pc = "statusWrite"
      BY <1>a, <1>14 DEF UpdateKeyStatus
    <2>4. QED
      BY <1>a, <2>1, <2>2, <2>3
  <1>15. CASE UpdateFails
    <2>1. Eligible' = Eligible
      BY <1>15 DEF UpdateFails, Eligible
    <2>2. QED
      BY <1>a, <1>15, <2>1 DEF UpdateFails
  <1>16. CASE applyCPAAccount
    <2>1. Eligible' = Eligible
      BY <1>16 DEF applyCPAAccount, Eligible
    <2>2. QED
      BY <1>a, <1>16, <2>1 DEF applyCPAAccount
  <1>17. CASE LoadProviderSyncSnapshot
    <2>1. Eligible' = Eligible
      BY <1>17 DEF LoadProviderSyncSnapshot, Eligible
    <2>2. QED
      BY <1>a, <1>17, <2>1 DEF LoadProviderSyncSnapshot
  <1>18. CASE putCPASection
    <2>1. Eligible' = Eligible
      BY <1>18 DEF putCPASection, Eligible
    <2>2. QED
      BY <1>a, <1>18, <2>1 DEF putCPASection
  <1>19. ASSUME NEW done \in BOOLEAN, applyCPAAccountFails(done) PROVE
        RoutedInv'
    <2>1. Eligible' = Eligible
      BY <1>19 DEF applyCPAAccountFails, Eligible
    <2>2. QED
      BY <1>a, <1>19, <2>1 DEF applyCPAAccountFails
  <1>20. ASSUME NEW done \in BOOLEAN, putCPASectionFails(done) PROVE RoutedInv'
    BY <1>20 DEF putCPASectionFails
  <1>21. CASE EndPolicies
    <2>1. Eligible' = Eligible
      BY <1>21 DEF EndPolicies, Eligible
    <2>2. QED
      BY <1>a, <1>21, <2>1 DEF EndPolicies
  <1>22. CASE expireMatchedKey
    <2>1. /\ w.k \in Keys /\ \A x \in Keys \ {w.k} : key'[x] = key[x]
          /\ UNCHANGED <<routed, outdated>> /\ w'.k = w.k
      BY <1>a, <1>22, ExpireDoes DEF expireMatchedKey
    <2>2. w.k \notin ProviderKeys => Eligible' = Eligible
      BY <2>1, ProbeAssumption DEF Eligible
    <2>3. /\ w.pc = "expire"
          /\ w'.pc = "expireSync" \/ (UNCHANGED key /\ w'.pc \in {"scan", "event"})
      BY <1>a, <1>22 DEF expireMatchedKey
    <2>4. UNCHANGED key => Eligible' = Eligible
      BY DEF Eligible
    <2>5. QED
      BY <1>a, <2>1, <2>2, <2>3, <2>4
  <1>23. CASE expireMatchedKeyFails
    <2>1. Eligible' = Eligible
      BY <1>23 DEF expireMatchedKeyFails, Eligible
    <2>2. QED
      BY <1>a, <1>23, <2>1 DEF expireMatchedKeyFails
  <1>24. ASSUME NEW done \in BOOLEAN, NEW logged \in BOOLEAN,
        ExpireAccount(done, logged) PROVE RoutedInv'
    <2>1. Eligible' = Eligible
      BY <1>24 DEF ExpireAccount, Eligible
    <2>2. QED
      BY <1>a, <1>24, <2>1 DEF ExpireAccount
  <1>25. CASE expireDueKeys
    <2>1. Eligible' = Eligible
      BY <1>25 DEF expireDueKeys, Eligible
    <2>2. QED
      BY <1>a, <1>25, <2>1 DEF expireDueKeys
  <1>26. CASE EndScan
    <2>1. Eligible' = Eligible
      BY <1>26 DEF EndScan, Eligible
    <2>2. QED
      BY <1>a, <1>26, <2>1 DEF EndScan
  <1>27. ASSUME NEW item \in w.scan, NextDue(item) PROVE RoutedInv'
    <2>1. Eligible' = Eligible
      BY <1>27 DEF NextDue, Eligible
    <2>2. QED
      BY <1>a, <1>27, <2>1 DEF NextDue
  <1>28. CASE (\E batch \in Batches : ProcessUsageEvents(batch)) \/
            UpdateConfigApply \/ Tick
    <2>1. UNCHANGED <<key, w, outdated, routed>>
      BY <1>28 DEF ProcessUsageEvents, UpdateConfigApply, Tick
    <2>2. QED
      BY <1>a, <2>1 DEF Eligible
  <1>29. CASE UNCHANGED vars
    BY <1>a, <1>29 DEF vars, Eligible
  <1>30. QED
    BY <1>1, <1>2, <1>3, <1>4, <1>5, <1>6, <1>7, <1>8, <1>9, <1>10, <1>11,
       <1>12, <1>13, <1>14, <1>15, <1>16, <1>17, <1>18, <1>19, <1>20, <1>21,
       <1>22, <1>23, <1>24, <1>25, <1>26, <1>27, <1>28, <1>29
       DEF Next, Worker, Edit

-----------------------------------------------------------------------------
(* What a step may do to a protected status.                               *)
KeepsProtected ==
    \A k \in Keys : /\ key[k].status \in -99..-2
                    /\ key'[k].status \notin {key[k].status, -3}
                    => edits' # edits \/ raced

(* No step overwrites a protected status, except an expiry, an edit, and a *)
(* write that an edit has overtaken.                                       *)
LEMMA KeepsProtectedStep ==
    ASSUME IndInv, [Next]_vars
    PROVE  KeepsProtected
  <1> USE DEF KeepsProtected, queueVars, cfgVars, dbVars, cpaVars, histVars
  <1>a. TypeOK /\ HandsInv /\ StatusInv
    BY DEF IndInv
  <1>1. ASSUME NEW k \in Keys, NEW s \in AdminStatuses \cup {key[k].status},
        NEW t \in {0, key[k].expires, now + Renewal}, EditKey(k, s, t) PROVE
        KeepsProtected
    <2>1. edits \in Nat /\ edits' = edits + 1
      BY <1>a, <1>1, EditKeyDoes
    <2>2. QED
      BY <2>1
  <1>2. ASSUME NEW written \in BOOLEAN, Decide(written) PROVE KeepsProtected
    <2>1. \A x \in Keys : key'[x].status = key[x].status
      BY <1>a, <1>2, DecideDoes
    <2>2. QED
      BY <2>1
  <1>3. CASE applyPriority
    <2>1. \A x \in Keys : key'[x].status = key[x].status
      BY <1>a, <1>3, PriorityDoes
    <2>2. QED
      BY <2>1
  <1>4. CASE UpdateKeyStatus
    <2>1. w.k \in Keys /\ \A x \in Keys \ {w.k} : key'[x] = key[x]
      BY <1>a, <1>4, StatusDoes
    <2>2. ~ (key[w.k].status \in -99..-2) \/ raced
      BY <1>a, <1>4 DEF UpdateKeyStatus, StatusInv, ProtectedStatus
    <2>3. QED
      BY <2>1, <2>2
  <1>5. CASE expireMatchedKey
    <2>1. /\ w.k \in Keys /\ \A x \in Keys \ {w.k} : key'[x] = key[x]
          /\ IF w.match.status = -3 THEN UNCHANGED key ELSE key'[w.k].status = -3
      BY <1>a, <1>5, ExpireDoes
    <2>2. QED
      BY <2>1
  <1>6. CASE (\E batch \in Batches : ProcessUsageEvents(batch)) \/
            UpdateConfigSave \/ UpdateConfigApply \/ Tick \/ (\E stale \in
            BOOLEAN : TakeBatch(stale)) \/ refreshConfigIfNeeded \/ StartBatch
            \/ EndBatch \/ NextEvent \/ FindKeyFails \/ InsertResult \/
            InsertResultFails \/ applyKeyStatus \/ UpdateFails \/
            applyCPAAccount \/ LoadProviderSyncSnapshot \/ putCPASection \/ (\E
            done \in BOOLEAN : applyCPAAccountFails(done)) \/ (\E done \in
            BOOLEAN : putCPASectionFails(done)) \/ EndPolicies \/
            expireMatchedKeyFails \/ (\E done \in BOOLEAN : \E logged \in
            BOOLEAN : ExpireAccount(done, logged)) \/ expireDueKeys \/ EndScan
            \/ (\E item \in w.scan : NextDue(item))
    <2>1. UNCHANGED <<key>>
      BY <1>6 DEF ProcessUsageEvents, UpdateConfigSave, UpdateConfigApply,
             Tick, TakeBatch, refreshConfigIfNeeded, StartBatch, EndBatch,
             NextEvent, FindKeyFails, InsertResult, InsertResultFails,
             applyKeyStatus, UpdateFails, applyCPAAccount,
             LoadProviderSyncSnapshot, putCPASection, applyCPAAccountFails,
             putCPASectionFails, EndPolicies, expireMatchedKeyFails,
             ExpireAccount, expireDueKeys, EndScan, NextDue
    <2>2. QED
      BY <1>a, <2>1
  <1>7. CASE UNCHANGED vars
    BY <1>a, <1>7 DEF vars
  <1>8. QED
    BY <1>1, <1>2, <1>3, <1>4, <1>5, <1>6, <1>7
       DEF Next, Worker, Edit

-----------------------------------------------------------------------------
LEMMA InitInv ==
    ASSUME Init
    PROVE  IndInv
  <1> USE DEF Init
  <1>1. TypeOK
    <2>1. WorkerType
      BY IdleType DEF WorkerType
    <2>2. RowsType
      BY ProbeAssumption DEF RowsType
    <2>3. LogsType
      BY ProbeAssumption DEF LogsType, Action, Eligible
    <2>4. ClockType
      BY ProbeAssumption DEF ClockType
    <2>5. BatchesType
      <3>1. <<>> \in Seq(Seq(Hashes)) /\ Len(<<>>) = 0
        OBVIOUS
      <3>2. QED
        BY <3>1, ProbeAssumption DEF BatchesType
    <2>6. FlagsType /\ ResultsType /\ HistType
      <3>1. <<>> \in Seq(Hashes)
        OBVIOUS
      <3>2. QED
        BY <3>1 DEF FlagsType, ResultsType, HistType
    <2>7. QED
      BY <2>1, <2>2, <2>3, <2>4, <2>5, <2>6, TypeParts
  <1>2. HandsInv /\ StatusInv /\ RoutedInv
    BY DEF HandsInv, StatusInv, RoutedInv, Idle
  <1>3. HandledInv
    BY DEF HandledInv, Idle
  <1>4. QED
    BY <1>1, <1>2, <1>3 DEF IndInv

LEMMA StepInv ==
    ASSUME IndInv, [Next]_vars
    PROVE  IndInv'
  <1>1. TypeOK'
    <2>1. /\ WorkerType' /\ RowsType' /\ LogsType' /\ ClockType'
          /\ BatchesType' /\ FlagsType' /\ ResultsType' /\ HistType'
      BY WorkerStep, RowsStep, LogsStep, ClockStep, BatchesStep, FlagsStep,
         ResultsStep, HistStep
    <2>2. QED
      BY <2>1 DEF TypeOK, WorkerType, RowsType, LogsType, ClockType, BatchesType,
                  FlagsType, ResultsType, HistType
  <1>2. QED
    BY <1>1, HandsStep, HandledStep, StatusStep, RoutedStep DEF IndInv

(* The inductive invariant holds in every state of every behaviour. *)
THEOREM Invariance == Spec => []IndInv
  <1>1. Init => IndInv
    BY InitInv
  <1>2. IndInv /\ [Next]_vars => IndInv'
    BY StepInv
  <1>3. QED
    BY <1>1, <1>2, PTL DEF Spec

(* Type correctness of the probe service, and the capacity of its queue. *)
THEOREM TypeCorrect == Spec => []TypeOK
  <1>1. IndInv => TypeOK
    BY DEF IndInv
  <1>2. QED
    BY <1>1, Invariance, PTL

(* However often and in whatever order the collector hands over an event,    *)
(* whatever fails and whatever operators edit, processBatch lets the         *)
(* policies see it at most once: INSERT OR IGNORE decides.                   *)
THEOREM PoliciesActOnce == Spec => []ActsOnce
  <1>1. ASSUME HandledInv PROVE ActsOnce
    <2>1. \A h \in Hashes : handled[h] = 0 \/ handled[h] = 1
      BY <1>1 DEF HandledInv
    <2>2. QED
      BY <2>1 DEF ActsOnce
  <1>2. IndInv => ActsOnce
    BY <1>1 DEF IndInv
  <1>3. QED
    BY <1>2, Invariance, PTL

(* At rest CPA routes to exactly the keys of the provider with a usable      *)
(* status, whatever calls failed and whatever operators edited before the    *)
(* last snapshot of the provider's keys that was pushed.                     *)
THEOREM RoutesFollowStatus == Spec => []RoutingFollowsStatus
  <1>1. ASSUME RoutedInv PROVE RoutingFollowsStatus
    BY <1>1 DEF RoutedInv, RoutingFollowsStatus, PushDue
  <1>2. IndInv => RoutingFollowsStatus
    BY <1>1 DEF IndInv
  <1>3. QED
    BY <1>2, Invariance, PTL

(* No step of the probe overwrites a status from -2 down to -99, except by   *)
(* an expiry and by the write that an operator's edit has overtaken.         *)
THEOREM ProtectedKeysStay == Spec => ProtectedStays
  <1>1. IndInv /\ [Next]_vars =>
           [\A k \in Keys : /\ key[k].status \in -99..-2
                            /\ key'[k].status \notin {key[k].status, -3}
                            => edits' # edits \/ raced]_vars
    BY KeepsProtectedStep DEF KeepsProtected
  <1>2. QED
    BY <1>1, Invariance, PTL DEF Spec, ProtectedStays

-----------------------------------------------------------------------------
(* The run of equal outcomes that CountConsecutive counts, and what a new  *)
(* result does to it.                                                      *)

LEMMA RunIsFinite ==
    ASSUME NEW rs \in Seq(Hashes), NEW ev, NEW k, NEW f
    PROVE  /\ IsFiniteSet(LeadingRun(rs, ev, k, f))
           /\ Cardinality(LeadingRun(rs, ev, k, f)) \in Nat
           /\ Cardinality(LeadingRun(rs, ev, k, f)) > 0 <=>
                 LeadingRun(rs, ev, k, f) # {}
  <1> DEFINE R == LeadingRun(rs, ev, k, f)
  <1>1. IsFiniteSet(1..Len(rs)) /\ R \subseteq 1..Len(rs)
    BY FS_Interval DEF LeadingRun, ResultsOf
  <1>2. IsFiniteSet(R)
    BY <1>1, FS_Subset
  <1> HIDE DEF R
  <1>3. Cardinality(R) \in Nat /\ (Cardinality(R) = 0 <=> R = {})
    BY <1>2, FS_CardinalityType, FS_EmptySet
  <1>4. QED
    BY <1>2, <1>3 DEF R

(* The results of a key after an insert. *)
LEMMA ResultsOfAppend ==
    ASSUME NEW rs \in Seq(Hashes), NEW ev, NEW h \in Hashes, NEW k
    PROVE  /\ Append(rs, h) \in Seq(Hashes) /\ Len(rs) \in Nat
           /\ \A i \in 1..Len(rs) : Append(rs, h)[i] = rs[i]
           /\ Append(rs, h)[Len(rs) + 1] = h
           /\ ResultsOf(Append(rs, h), ev, k) =
                 ResultsOf(rs, ev, k)
                    \cup IF ev[h].key = k THEN {Len(rs) + 1} ELSE {}
           /\ ResultsOf(rs, ev, k) \subseteq 1..Len(rs)
  <1>1. /\ Append(rs, h) \in Seq(Hashes) /\ Len(rs) \in Nat
        /\ Len(Append(rs, h)) = Len(rs) + 1
        /\ \A i \in 1..Len(rs) : Append(rs, h)[i] = rs[i]
        /\ Append(rs, h)[Len(rs) + 1] = h
    OBVIOUS
  <1> DEFINE n == Len(rs)
             q == Append(rs, h)
  <1>2. /\ n \in Nat /\ Len(q) = n + 1 /\ q[n + 1] = h
        /\ \A i \in 1..n : q[i] = rs[i]
    BY <1>1
  <1>3. ResultsOf(rs, ev, k) = {i \in 1..n : ev[rs[i]].key = k}
    BY DEF ResultsOf
  <1>4. ResultsOf(q, ev, k) = {i \in 1..(n + 1) : ev[q[i]].key = k}
    BY <1>2 DEF ResultsOf
  <1> HIDE DEF n, q
  <1>5. \A i : i \in 1..(n + 1) <=> i \in 1..n \/ i = n + 1
    BY <1>2
  <1>6. n + 1 \notin 1..n
    BY <1>2
  <1>7. ResultsOf(q, ev, k) = ResultsOf(rs, ev, k)
                                  \cup IF ev[h].key = k THEN {n + 1} ELSE {}
    BY <1>2, <1>3, <1>4, <1>5, <1>6
  <1>8. QED
    BY <1>1, <1>3, <1>7 DEF n, q

(* A result of another key changes no run. *)
LEMMA RunOfOther ==
    ASSUME NEW rs \in Seq(Hashes), NEW ev, NEW h \in Hashes, NEW k, NEW f,
           ev[h].key # k
    PROVE  LeadingRun(Append(rs, h), ev, k, f) = LeadingRun(rs, ev, k, f)
  <1> DEFINE q == Append(rs, h)
  <1>1. /\ ResultsOf(q, ev, k) = ResultsOf(rs, ev, k)
        /\ \A i \in ResultsOf(rs, ev, k) : q[i] = rs[i]
    <2>1. /\ ResultsOf(q, ev, k) = ResultsOf(rs, ev, k)
                                      \cup IF ev[h].key = k THEN {Len(rs) + 1} ELSE {}
          /\ \A i \in 1..Len(rs) : q[i] = rs[i]
          /\ ResultsOf(rs, ev, k) \subseteq 1..Len(rs)
      BY ResultsOfAppend
    <2>2. QED
      BY <2>1
  <1> HIDE DEF q
  <1>2. ASSUME NEW i \in ResultsOf(rs, ev, k)
        PROVE  AtLeastAsNew(q, ev, k, i) = AtLeastAsNew(rs, ev, k, i)
    BY <1>1 DEF AtLeastAsNew
  <1>3. ASSUME NEW i \in ResultsOf(rs, ev, k)
        PROVE  \A j \in AtLeastAsNew(rs, ev, k, i) : q[j] = rs[j]
    BY <1>1 DEF AtLeastAsNew
  <1>4. LeadingRun(q, ev, k, f) = LeadingRun(rs, ev, k, f)
    BY <1>1, <1>2, <1>3 DEF LeadingRun
  <1>5. QED
    BY <1>4 DEF q

(* A result with another outcome makes no run longer. *)
LEMMA RunAfterOtherOutcome ==
    ASSUME NEW rs \in Seq(Hashes), NEW ev, NEW h \in Hashes, NEW k, NEW f,
           ev[h].key = k, HasFailed(ev[h]) # f
    PROVE  LeadingRun(Append(rs, h), ev, k, f) \subseteq LeadingRun(rs, ev, k, f)
  <1> DEFINE q == Append(rs, h)
             n == Len(rs) + 1
  <1>1. /\ ResultsOf(q, ev, k) = ResultsOf(rs, ev, k) \cup {n} /\ q[n] = h
        /\ \A i \in ResultsOf(rs, ev, k) : q[i] = rs[i]
        /\ n \in Int
    BY ResultsOfAppend
  <1> HIDE DEF q, n
  <1>2. SUFFICES ASSUME NEW i \in LeadingRun(q, ev, k, f)
                 PROVE  i \in LeadingRun(rs, ev, k, f)
    BY DEF q
  <1>3. /\ i \in ResultsOf(q, ev, k)
        /\ Cardinality(AtLeastAsNew(q, ev, k, i)) <= RowLimit
        /\ \A j \in AtLeastAsNew(q, ev, k, i) : HasFailed(ev[q[j]]) = f
    BY <1>2 DEF LeadingRun
  <1>4. n \notin AtLeastAsNew(q, ev, k, i)
    BY <1>1, <1>3
  <1>5. i # n
    <2>1. SUFFICES ASSUME i = n PROVE n \in AtLeastAsNew(q, ev, k, n)
      BY <1>4
    <2>2. QED
      BY <1>1 DEF AtLeastAsNew
  <1>6. i \in ResultsOf(rs, ev, k)
    BY <1>1, <1>3, <1>5
  <1>7. AtLeastAsNew(q, ev, k, i) = AtLeastAsNew(rs, ev, k, i)
    BY <1>1, <1>4, <1>6 DEF AtLeastAsNew
  <1>8. \A j \in AtLeastAsNew(rs, ev, k, i) : q[j] = rs[j]
    BY <1>1 DEF AtLeastAsNew
  <1>9. QED
    BY <1>3, <1>6, <1>7, <1>8 DEF LeadingRun

(* The newest result is in one run only. *)
LEMMA RunsExclude ==
    ASSUME NEW rs \in Seq(Hashes), NEW ev \in [Hashes -> Payload], NEW k
    PROVE  LeadingRun(rs, ev, k, TRUE) = {} \/ LeadingRun(rs, ev, k, FALSE) = {}
  <1>1. SUFFICES ASSUME NEW i \in LeadingRun(rs, ev, k, TRUE),
                        NEW j \in LeadingRun(rs, ev, k, FALSE)
                 PROVE  FALSE
    OBVIOUS
  <1>2. /\ i \in ResultsOf(rs, ev, k) /\ j \in ResultsOf(rs, ev, k)
        /\ i \in 1..Len(rs) /\ j \in 1..Len(rs)
    BY DEF LeadingRun, ResultsOf
  <1>3. /\ \A x \in AtLeastAsNew(rs, ev, k, i) : HasFailed(ev[rs[x]]) = TRUE
        /\ \A x \in AtLeastAsNew(rs, ev, k, j) : HasFailed(ev[rs[x]]) = FALSE
    BY DEF LeadingRun
  <1>4. /\ rs[i] \in Hashes /\ rs[j] \in Hashes
        /\ ev[rs[i]] \in Payload /\ ev[rs[j]] \in Payload
    BY <1>2
  <1>5. ev[rs[i]].ts \in Nat /\ ev[rs[j]].ts \in Nat
    BY <1>4 DEF Payload
  <1>6. i \in AtLeastAsNew(rs, ev, k, i) /\ j \in AtLeastAsNew(rs, ev, k, j)
    BY <1>2 DEF AtLeastAsNew
  <1>7. j \in AtLeastAsNew(rs, ev, k, i) \/ i \in AtLeastAsNew(rs, ev, k, j)
    BY <1>2, <1>5 DEF AtLeastAsNew
  <1>8. QED
    BY <1>3, <1>6, <1>7

(* What the code counts after an insert. *)
LEMMA CountAfterInsert ==
    ASSUME TypeOK, NEW h \in Hashes, NEW k \in Keys, NEW f \in BOOLEAN,
           results' = Append(results, h), event' = event,
           KeyOf(h) # k \/ Failed(h) # f
    PROVE  /\ CountConsecutive(k, f) \in Nat /\ CountConsecutive(k, f)' \in Nat
           /\ CountConsecutive(k, f)' <= CountConsecutive(k, f)
  <1> DEFINE R == LeadingRun(results, event, k, f)
             S == LeadingRun(Append(results, h), event, k, f)
  <1>1. results \in Seq(Hashes) /\ Append(results, h) \in Seq(Hashes)
    BY DEF TypeOK
  <1>2. S \subseteq R
    <2>1. CASE KeyOf(h) # k
      BY <1>1, <2>1, RunOfOther DEF KeyOf
    <2>2. CASE KeyOf(h) = k
      BY <1>1, <2>2, RunAfterOtherOutcome DEF KeyOf, Failed
    <2>3. QED
      BY <2>1, <2>2
  <1>3. IsFiniteSet(R)
    BY <1>1, RunIsFinite
  <1>4. CountConsecutive(k, f) = Cardinality(R) /\ CountConsecutive(k, f)' = Cardinality(S)
    BY DEF CountConsecutive
  <1> HIDE DEF R, S
  <1>5. Cardinality(R) \in Nat /\ Cardinality(S) \in Nat /\ Cardinality(S) <= Cardinality(R)
    BY <1>2, <1>3, FS_Subset, FS_CardinalityType
  <1>6. QED
    BY <1>4, <1>5

LEMMA CountsExclude ==
    ASSUME TypeOK, NEW k \in Keys, CountConsecutive(k, FALSE) > 0
    PROVE  CountConsecutive(k, TRUE) = 0
  <1>1. results \in Seq(Hashes) /\ event \in [Hashes -> Payload]
    BY ProbeAssumption DEF TypeOK
  <1>2. LeadingRun(results, event, k, FALSE) # {}
    BY <1>1, RunIsFinite DEF CountConsecutive
  <1>3. LeadingRun(results, event, k, TRUE) = {}
    BY <1>1, <1>2, RunsExclude
  <1>4. QED
    BY <1>3, FS_EmptySet DEF CountConsecutive

-----------------------------------------------------------------------------
(* The parts of the invariant for failing keys.                            *)

(* Every step keeps the items of a scan within the scan. *)
LEMMA ScanStep ==
    ASSUME FailInv, [Next]_vars
    PROVE  ScanInv'
  <1> USE DEF ScanInv, Workers, Idle, AfterExpiry, Expiring, queueVars, cfgVars,
              dbVars, cpaVars, histVars
  <1>a. w \in Workers /\ ScanInv
    BY DEF FailInv, IndInv, TypeOK
  <1>1. CASE \/ (\E stale \in BOOLEAN : TakeBatch(stale))
             \/ refreshConfigIfNeeded \/ NextEvent \/ FindKeyFails
             \/ InsertResult \/ InsertResultFails
             \/ (\E written \in BOOLEAN : Decide(written))
             \/ applyPriority \/ applyKeyStatus \/ UpdateKeyStatus
             \/ UpdateFails \/ applyCPAAccount
             \/ (\E done \in BOOLEAN : applyCPAAccountFails(done))
             \/ EndPolicies
    <2>1. w.pc \notin {"scan"} \cup Expiring
      BY <1>1 DEF TakeBatch, refreshConfigIfNeeded, NextEvent, FindKeyFails,
         InsertResult, InsertResultFails, Decide, applyPriority,
         applyKeyStatus, UpdateKeyStatus, UpdateFails, applyCPAAccount,
         applyCPAAccountFails, EndPolicies
    <2> HIDE DEF Expiring
    <2>2. CASE TakeBatch(TRUE) \/ TakeBatch(FALSE) \/ refreshConfigIfNeeded
               \/ NextEvent \/ FindKeyFails
      BY <1>a, <2>1, <2>2 DEF TakeBatch, refreshConfigIfNeeded, NextEvent, FindKeyFails
    <2>3. CASE InsertResult \/ InsertResultFails
               \/ \E written \in BOOLEAN : Decide(written)
      <3>1. w'.scanning = w.scanning /\ w'.scan = w.scan
        BY <1>a, <2>3 DEF InsertResult, InsertResultFails, Decide
      <3>2. QED
        BY <1>a, <2>1, <3>1
    <2>4. CASE applyPriority
      <3>1. w'.scanning = w.scanning /\ w'.scan = w.scan
        BY <1>a, <2>4, ZenonT(30) DEF applyPriority
      <3>2. QED
        BY <1>a, <2>1, <3>1
    <2>5. CASE applyKeyStatus \/ UpdateKeyStatus \/ UpdateFails
      <3>1. w'.scanning = w.scanning /\ w'.scan = w.scan
        <4>1. CASE applyKeyStatus
          BY <1>a, <4>1 DEF applyKeyStatus
        <4>2. CASE UpdateKeyStatus
          BY <1>a, <4>2 DEF UpdateKeyStatus
        <4>3. CASE UpdateFails
          BY <1>a, <4>3 DEF UpdateFails
        <4>4. QED
          BY <2>5, <4>1, <4>2, <4>3
      <3>2. QED
        BY <1>a, <2>1, <3>1
    <2>6. CASE applyCPAAccount \/ EndPolicies
               \/ \E done \in BOOLEAN : applyCPAAccountFails(done)
      <3>1. w'.scanning = w.scanning /\ w'.scan = w.scan
        BY <1>a, <2>6, ZenonT(30) DEF applyCPAAccount, applyCPAAccountFails, EndPolicies
      <3>2. QED
        BY <1>a, <2>1, <3>1
    <2>7. QED
      BY <1>1, <2>2, <2>3, <2>4, <2>5, <2>6
  <1>2. CASE LoadProviderSyncSnapshot
    BY <1>a, <1>2, SnapshotDoes
  <1>3. CASE putCPASection \/ \E done \in BOOLEAN : putCPASectionFails(done)
    BY <1>a, <1>3 DEF putCPASection, putCPASectionFails
  <1>4. CASE expireMatchedKey
    BY <1>a, <1>4 DEF expireMatchedKey
  <1>5. CASE expireMatchedKeyFails
    BY <1>a, <1>5 DEF expireMatchedKeyFails
  <1>6. ASSUME NEW done \in BOOLEAN, NEW logged \in BOOLEAN,
               ExpireAccount(done, logged)
        PROVE  ScanInv'
    BY <1>a, <1>6 DEF ExpireAccount
  <1>7. CASE expireDueKeys
    BY <1>a, <1>7 DEF expireDueKeys
  <1>8. ASSUME NEW item \in w.scan, NextDue(item) PROVE ScanInv'
    BY <1>a, <1>8 DEF NextDue
  <1>9. CASE StartBatch \/ EndBatch \/ EndScan
    <2>1. ~ Idle.scanning /\ Idle.scan = {}
      OBVIOUS
    <2>2. \/ w' = Idle
          \/ /\ w.pc = "start" /\ w'.scanning = w.scanning /\ w'.scan = w.scan
      BY <1>a, <1>9 DEF StartBatch, EndBatch, EndScan
    <2> HIDE DEF Idle
    <2>3. QED
      BY <1>a, <2>1, <2>2
  <1>10. CASE (\E batch \in Batches : ProcessUsageEvents(batch)) \/ Edit
              \/ UpdateConfigApply \/ Tick \/ UNCHANGED vars
    <2>1. UNCHANGED w
      BY <1>10 DEF ProcessUsageEvents, Edit, UpdateConfigSave, EditKey,
         UpdateConfigApply, Tick, vars
    <2>2. QED
      BY <1>a, <2>1
  <1>11. QED
    BY <1>1, <1>2, <1>3, <1>4, <1>5, <1>6, <1>7, <1>8, <1>9, <1>10
       DEF Next, Worker

(* Every step keeps what the worker has read of a row. *)
LEMMA MatchStep ==
    ASSUME FailInv, [Next]_vars
    PROVE  MatchInv'
  <1> USE DEF MatchInv, Workers, Idle, AfterExpiry, Expiring, Calm,
              Expired, KeyOf, queueVars, cfgVars, dbVars, cpaVars, histVars
  <1>a. TypeOK /\ HandsInv /\ w \in Workers /\ ScanInv /\ MatchInv
    BY DEF FailInv, IndInv, TypeOK, Workers
  <1>1. CASE UpdateConfigSave
    <2>1. edits' # 0
      BY <1>a, <1>1 DEF UpdateConfigSave, TypeOK
    <2>2. QED
      BY <2>1
  <1>2. ASSUME NEW k \in Keys, NEW s \in AdminStatuses \cup {key[k].status},
        NEW t \in {0, key[k].expires, now + Renewal}, EditKey(k, s, t) PROVE
        MatchInv'
    <2>1. edits' # 0
      BY <1>a, <1>2 DEF EditKey, TypeOK
    <2>2. QED
      BY <2>1
  <1>3. CASE Tick
    <2> SUFFICES ASSUME Calm' PROVE MatchInv'
      OBVIOUS
    <2>c. Calm
      BY <1>a, <1>3 DEF Tick, TypeOK
    <2>1. UNCHANGED <<w, key, event>> /\ now \in Nat /\ now' = now + 1
      BY <1>a, <1>3 DEF Tick, TypeOK
    <2>2. \A m \in Row : Expired(m) => Expired(m)'
      BY <2>1 DEF Row
    <2>3. w.match \in Row /\ \A item \in w.scan : item.match \in Row
      BY <1>a
    <2> HIDE DEF Expired
    <2>4. QED
      BY <1>a, <2>c, <2>1, <2>2, <2>3
  <1>4. ASSUME NEW stale \in BOOLEAN, TakeBatch(stale) PROVE MatchInv'
    BY <1>a, <1>4 DEF TakeBatch
  <1>5. CASE refreshConfigIfNeeded
    BY <1>a, <1>5 DEF refreshConfigIfNeeded
  <1>6. CASE StartBatch
    BY <1>a, <1>6 DEF StartBatch
  <1>7. CASE EndBatch
    BY <1>a, <1>7 DEF EndBatch
  <1>8. CASE NextEvent
    <2> SUFFICES ASSUME Calm' PROVE MatchInv'
      OBVIOUS
    <2>c. Calm
      BY <1>a, <1>8 DEF NextEvent, TypeOK
    <2>s. w.scan = {}
      BY <1>a, <1>8 DEF NextEvent, ScanInv
    <2>1. /\ w'.pc = "insert" /\ w'.scan = {} /\ UNCHANGED <<key, event>>
          /\ w'.k = event[w'.cur].key
          /\ w'.k \in Keys => w'.match = key[w'.k]
      BY <1>a, <1>8, <2>s DEF NextEvent, FindKeyByAuthIndex
    <2>2. QED
      BY <2>1
  <1>9. CASE FindKeyFails
    <2>1. faults' # 0
      BY <1>a, <1>9 DEF FindKeyFails, TypeOK
    <2>2. QED
      BY <2>1
  <1>10. CASE InsertResult
    BY <1>a, <1>10 DEF InsertResult
  <1>11. CASE InsertResultFails
    <2>1. faults' # 0
      BY <1>a, <1>11 DEF InsertResultFails, TypeOK
    <2>2. QED
      BY <2>1
  <1>12. ASSUME NEW written \in BOOLEAN, Decide(written) PROVE MatchInv'
    <2> SUFFICES ASSUME Calm' PROVE MatchInv'
      OBVIOUS
    <2>c. Calm
      BY <1>a, <1>12 DEF Decide, TypeOK
    <2>s. w.scan = {}
      BY <1>a, <1>12 DEF Decide, ScanInv
    <2>1. w'.scan = {} /\ w'.pc \in {"expire", "priority", "event"}
      BY <1>a, <1>12, <2>s DEF Decide
    <2>2. w.k \in Keys /\ w.match = key[w.k]
      BY <1>a, <1>12, <2>c DEF Decide, HandsInv, MatchInv
    <2>3. CASE w'.pc # "expire"
      BY <2>1, <2>3
    <2>4. CASE w'.pc = "expire"
      <3>1. /\ Expired(w.match) /\ UNCHANGED <<key, now>>
            /\ w'.k = w.k /\ w'.match = w.match
        BY <1>a, <1>12, <2>4 DEF Decide
      <3>2. QED
        BY <2>1, <2>2, <2>4, <3>1
    <2>5. QED
      BY <2>3, <2>4
  <1>13. CASE applyPriority
    <2> SUFFICES ASSUME Calm' PROVE MatchInv'
      OBVIOUS
    <2>c. Calm
      BY <1>a, <1>13 DEF applyPriority, TypeOK
    <2>s. w.scan = {}
      BY <1>a, <1>13 DEF applyPriority, ScanInv
    <2>1. w'.scan = {} /\ w'.pc = "status"
      BY <1>a, <1>13, <2>s DEF applyPriority
    <2>2. QED
      BY <2>1
  <1>14. CASE applyKeyStatus
    BY <1>a, <1>14 DEF applyKeyStatus
  <1>15. CASE UpdateKeyStatus
    <2> SUFFICES ASSUME Calm' PROVE MatchInv'
      OBVIOUS
    <2>c. Calm
      BY <1>a, <1>15 DEF UpdateKeyStatus, TypeOK
    <2>s. w.scan = {}
      BY <1>a, <1>15 DEF UpdateKeyStatus, ScanInv
    <2>1. w'.scan = {} /\ w'.pc = "account"
      BY <1>a, <1>15, <2>s DEF UpdateKeyStatus
    <2>2. QED
      BY <2>1
  <1>16. CASE UpdateFails
    <2>1. faults' # 0
      BY <1>a, <1>16 DEF UpdateFails, TypeOK
    <2>2. QED
      BY <2>1
  <1>17. CASE applyCPAAccount
    BY <1>a, <1>17 DEF applyCPAAccount
  <1>18. CASE LoadProviderSyncSnapshot
    BY <1>a, <1>18 DEF LoadProviderSyncSnapshot
  <1>19. CASE putCPASection
    BY <1>a, <1>19 DEF putCPASection
  <1>20. ASSUME NEW done \in BOOLEAN, applyCPAAccountFails(done) PROVE
        MatchInv'
    <2>1. faults' # 0
      BY <1>a, <1>20 DEF applyCPAAccountFails, TypeOK
    <2>2. QED
      BY <2>1
  <1>21. ASSUME NEW done \in BOOLEAN, putCPASectionFails(done) PROVE MatchInv'
    <2>1. faults' # 0
      BY <1>a, <1>21 DEF putCPASectionFails, TypeOK
    <2>2. QED
      BY <2>1
  <1>22. CASE EndPolicies
    BY <1>a, <1>22 DEF EndPolicies
  <1>23. CASE expireMatchedKey
    <2> SUFFICES ASSUME Calm' PROVE MatchInv'
      OBVIOUS
    <2>c. Calm
      BY <1>a, <1>23 DEF expireMatchedKey, TypeOK
    <2>1. /\ w'.pc \notin {"insert", "decide", "expire"} /\ w'.scan = w.scan
          /\ UNCHANGED now
      BY <1>a, <1>23 DEF expireMatchedKey
    <2>2. \A x \in Keys : key'[x].expires = key[x].expires
      BY <1>a, <1>23, ExpireDoes
    <2>3. \A item \in w.scan : item.k \in Keys
      BY <1>a
    <2> HIDE DEF Expired
    <2>4. \A item \in w.scan : Expired(item.match) => Expired(item.match)'
      BY <2>1 DEF Expired
    <2>5. QED
      BY <1>a, <2>c, <2>1, <2>2, <2>3, <2>4
  <1>24. CASE expireMatchedKeyFails
    <2>1. faults' # 0
      BY <1>a, <1>24 DEF expireMatchedKeyFails, TypeOK
    <2>2. QED
      BY <2>1
  <1>25. ASSUME NEW done \in BOOLEAN, NEW logged \in BOOLEAN,
        ExpireAccount(done, logged) PROVE MatchInv'
    <2> SUFFICES ASSUME Calm' PROVE MatchInv'
      OBVIOUS
    <2>c. Calm
      BY <1>a, <1>25 DEF ExpireAccount, TypeOK
    <2>1. /\ w'.pc \notin {"insert", "decide", "expire"} /\ w'.scan = w.scan
          /\ UNCHANGED <<now, key>>
      BY <1>a, <1>25 DEF ExpireAccount
    <2>2. QED
      BY <1>a, <2>c, <2>1
  <1>26. CASE expireDueKeys
    <2> SUFFICES ASSUME Calm' PROVE MatchInv'
      OBVIOUS
    <2>c. Calm
      BY <1>a, <1>26 DEF expireDueKeys, TypeOK
    <2>1. /\ w'.pc = "scan" /\ UNCHANGED <<now, key>>
          /\ w'.scan = {[k |-> k, match |-> key[k]] : k \in DueKeys}
      BY <1>a, <1>26 DEF expireDueKeys
    <2>2. \A item \in w'.scan : item.k \in DueKeys /\ item.match = key[item.k]
      BY <2>1
    <2>3. \A k \in DueKeys : key[k].status # -3 /\ Expired(key[k])
      BY DEF DueKeys
    <2> HIDE DEF Expired
    <2>4. \A m : Expired(m) => Expired(m)'
      BY <2>1 DEF Expired
    <2>5. QED
      BY <2>1, <2>2, <2>3, <2>4
  <1>27. CASE EndScan
    BY <1>a, <1>27 DEF EndScan
  <1>28. ASSUME NEW item \in w.scan, NextDue(item) PROVE MatchInv'
    BY <1>a, <1>28 DEF NextDue
  <1>29. CASE (\E batch \in Batches : ProcessUsageEvents(batch)) \/
            UpdateConfigApply
    <2>1. UNCHANGED <<key, w, now, edits, faults, event>>
      BY <1>29 DEF ProcessUsageEvents, UpdateConfigApply
    <2>2. QED
      BY <1>a, <2>1
  <1>30. CASE UNCHANGED vars
    BY <1>a, <1>30 DEF vars
  <1>31. QED
    BY <1>1, <1>2, <1>3, <1>4, <1>5, <1>6, <1>7, <1>8, <1>9, <1>10, <1>11,
       <1>12, <1>13, <1>14, <1>15, <1>16, <1>17, <1>18, <1>19, <1>20, <1>21,
       <1>22, <1>23, <1>24, <1>25, <1>26, <1>27, <1>28, <1>29, <1>30
       DEF Next, Worker, Edit

(* Every step keeps expired keys apart from the policies. *)
LEMMA ExpiredStep ==
    ASSUME FailInv, [Next]_vars
    PROVE  ExpiredInv'
  <1> USE DEF ExpiredInv, Workers, Idle, AfterExpiry, Expiring, Calm, Expired,
              queueVars, cfgVars, dbVars, cpaVars, histVars
  <1>a. TypeOK /\ HandsInv /\ w \in Workers /\ MatchInv /\ NextInv /\
        ExpiredInv
    BY DEF FailInv, IndInv, TypeOK, Workers
  <1>1. CASE UpdateConfigSave
    <2>1. edits' # 0
      BY <1>a, <1>1 DEF UpdateConfigSave, TypeOK
    <2>2. QED
      BY <2>1
  <1>2. ASSUME NEW k \in Keys, NEW s \in AdminStatuses \cup {key[k].status},
        NEW t \in {0, key[k].expires, now + Renewal}, EditKey(k, s, t) PROVE
        ExpiredInv'
    <2>1. edits' # 0
      BY <1>a, <1>2 DEF EditKey, TypeOK
    <2>2. QED
      BY <2>1
  <1>3. CASE Tick
    <2> SUFFICES ASSUME Calm' PROVE ExpiredInv'
      OBVIOUS
    <2>c. Calm
      BY <1>a, <1>3 DEF Tick, TypeOK
    <2>1. UNCHANGED <<w, key, offline, overlooked>> /\ now \in Nat /\ now' = now + 1
      BY <1>a, <1>3 DEF Tick, TypeOK
    <2>2. \A m \in Row : Expired(m) => Expired(m)'
      BY <2>1 DEF Row
    <2>3. \A k \in Keys : key[k] \in Row
      BY <1>a DEF TypeOK
    <2> HIDE DEF Expired
    <2>4. QED
      BY <1>a, <2>c, <2>1, <2>2, <2>3
  <1>4. ASSUME NEW stale \in BOOLEAN, TakeBatch(stale) PROVE ExpiredInv'
    BY <1>a, <1>4 DEF TakeBatch
  <1>5. CASE refreshConfigIfNeeded
    BY <1>a, <1>5 DEF refreshConfigIfNeeded
  <1>6. CASE StartBatch
    BY <1>a, <1>6 DEF StartBatch
  <1>7. CASE EndBatch
    BY <1>a, <1>7 DEF EndBatch
  <1>8. CASE NextEvent
    BY <1>a, <1>8 DEF NextEvent
  <1>9. CASE FindKeyFails
    <2>1. faults' # 0
      BY <1>a, <1>9 DEF FindKeyFails, TypeOK
    <2>2. QED
      BY <2>1
  <1>10. CASE InsertResult
    BY <1>a, <1>10 DEF InsertResult
  <1>11. CASE InsertResultFails
    <2>1. faults' # 0
      BY <1>a, <1>11 DEF InsertResultFails, TypeOK
    <2>2. QED
      BY <2>1
  <1>12. ASSUME NEW written \in BOOLEAN, Decide(written) PROVE ExpiredInv'
    <2> SUFFICES ASSUME Calm' PROVE ExpiredInv'
      OBVIOUS
    <2>c. Calm
      BY <1>a, <1>12 DEF Decide, TypeOK
    <2>1. /\ w.k \in Keys /\ w.match = key[w.k]
      BY <1>a, <1>12, <2>c DEF Decide, HandsInv, MatchInv
    <2>2. /\ UNCHANGED <<now, offline>> /\ w'.k = w.k /\ w.pc = "decide"
          /\ w'.pc \in {"expire", "priority", "event"}
          /\ w'.pc = "priority" => ~ Expired(w.match)
      BY <1>a, <1>12 DEF Decide
    <2>3. /\ \A x \in Keys \ {w.k} : key'[x] = key[x]
          /\ key'[w.k].status = key[w.k].status
          /\ key'[w.k] = key[w.k] \/ ~ Expired(w.match)
      BY <1>a, <1>12, DecideDoes
    <2> HIDE DEF Expired
    <2>4. \A m : Expired(m)' <=> Expired(m)
      BY <2>2 DEF Expired
    <2>o. ASSUME NEW k \in Keys, k \notin overlooked', key'[k].status = -3
          PROVE  k \notin overlooked
      <3>1. k \in overlooked => k = w.k /\ w.match.status # -3
        BY <1>12, <2>o DEF Decide
      <3>2. QED
        BY <2>o, <2>1, <2>3, <3>1
    <2>5. ASSUME NEW k \in Keys, k \notin overlooked', key'[k].status = -3
          PROVE  key[k].status = -3 /\ Expired(key[k]) /\ key'[k] = key[k]
      <3>1. key[k].status = -3 /\ k \notin overlooked
        BY <2>3, <2>5, <2>o
      <3>2. Expired(key[k])
        BY <1>a, <2>c, <3>1
      <3>3. QED
        BY <2>1, <2>3, <3>1, <3>2
    <2>6. w'.pc = "priority" /\ w.k \notin overlooked' => key'[w.k].status # -3
      BY <2>1, <2>2, <2>5
    <2>7. ASSUME NEW k \in Keys, k \notin overlooked', key'[k].status = -3
          PROVE  /\ Expired(key[k])'
                 /\ AutoCPA /\ k \in FileKeys => offline'[k]
      <3>1. k \notin overlooked /\ key[k].status = -3 /\ key'[k] = key[k]
        BY <2>5, <2>7, <2>o
      <3>2. Expired(key[k]) /\ (AutoCPA /\ k \in FileKeys => offline[k])
        BY <1>a, <2>c, <2>2, <3>1
      <3>3. QED
        BY <2>2, <3>1, <3>2 DEF Expired
    <2>8. QED
      BY <2>2, <2>6, <2>7
  <1>13. CASE applyPriority
    <2> SUFFICES ASSUME Calm' PROVE ExpiredInv'
      OBVIOUS
    <2>c. Calm
      BY <1>a, <1>13 DEF applyPriority, TypeOK
    <2>1. /\ UNCHANGED <<now, offline, overlooked>> /\ w'.k = w.k /\ w.pc = "priority"
          /\ w'.pc = "status"
      BY <1>a, <1>13 DEF applyPriority
    <2>2. /\ w.k \in Keys
          /\ \A x \in Keys : /\ key'[x].status = key[x].status
                             /\ key'[x].expires = key[x].expires
      BY <1>a, <1>13, PriorityDoes
    <2>3. QED
      BY <1>a, <2>c, <2>1, <2>2
  <1>14. CASE applyKeyStatus
    BY <1>a, <1>14 DEF applyKeyStatus
  <1>15. CASE UpdateKeyStatus
    <2> SUFFICES ASSUME Calm' PROVE ExpiredInv'
      OBVIOUS
    <2>c. Calm
      BY <1>a, <1>15 DEF UpdateKeyStatus, TypeOK
    <2>1. /\ UNCHANGED <<now, offline, overlooked>> /\ w'.k = w.k /\ w.pc = "statusWrite"
          /\ w'.pc = "account" /\ w.next # -3
      BY <1>a, <1>15 DEF UpdateKeyStatus, NextInv
    <2>2. /\ w.k \in Keys /\ key'[w.k].status = w.next
          /\ \A x \in Keys \ {w.k} : key'[x] = key[x]
      BY <1>a, <1>15, StatusDoes
    <2>3. QED
      BY <1>a, <2>c, <2>1, <2>2
  <1>16. CASE UpdateFails
    <2>1. faults' # 0
      BY <1>a, <1>16 DEF UpdateFails, TypeOK
    <2>2. QED
      BY <2>1
  <1>17. CASE applyCPAAccount
    <2> SUFFICES ASSUME Calm' PROVE ExpiredInv'
      OBVIOUS
    <2>c. Calm
      BY <1>a, <1>17 DEF applyCPAAccount, TypeOK
    <2>1. /\ UNCHANGED <<now, key, overlooked>> /\ w'.k = w.k /\ w.pc = "account"
          /\ w'.pc = "sync" /\ w.k \in Keys
          /\ \A x \in Keys \ {w.k} : offline'[x] = offline[x]
      BY <1>a, <1>17 DEF applyCPAAccount, TypeOK, HandsInv
    <2>2. QED
      BY <1>a, <2>c, <2>1
  <1>18. CASE LoadProviderSyncSnapshot
    <2>1. UNCHANGED <<key, offline, now, overlooked, edits, faults>> /\ w'.k = w.k
      BY <1>a, <1>18, SnapshotDoes DEF LoadProviderSyncSnapshot
    <2>2. \/ w.pc = "sync" /\ w'.pc \in {"syncPut", "done"}
          \/ w.pc = "expireSync" /\ w'.pc \in {"expirePut", "expireAccount"}
      BY <1>a, <1>18, SnapshotDoes
    <2>3. QED
      BY <1>a, <2>1, <2>2
  <1>19. CASE putCPASection
    BY <1>a, <1>19 DEF putCPASection
  <1>20. ASSUME NEW done \in BOOLEAN, applyCPAAccountFails(done) PROVE
        ExpiredInv'
    <2>1. faults' # 0
      BY <1>a, <1>20 DEF applyCPAAccountFails, TypeOK
    <2>2. QED
      BY <2>1
  <1>21. ASSUME NEW done \in BOOLEAN, putCPASectionFails(done) PROVE
        ExpiredInv'
    <2>1. faults' # 0
      BY <1>a, <1>21 DEF putCPASectionFails, TypeOK
    <2>2. QED
      BY <2>1
  <1>22. CASE EndPolicies
    BY <1>a, <1>22 DEF EndPolicies
  <1>23. CASE expireMatchedKey
    <2> SUFFICES ASSUME Calm' PROVE ExpiredInv'
      OBVIOUS
    <2>c. Calm
      BY <1>a, <1>23 DEF expireMatchedKey, TypeOK
    <2>1. /\ UNCHANGED <<now, offline, overlooked>> /\ w'.k = w.k /\ w.pc = "expire"
          /\ w'.pc \in {"scan", "event", "expireSync"}
          /\ w.match.status # -3 => w'.pc = "expireSync"
      BY <1>a, <1>23 DEF expireMatchedKey
    <2>2. /\ w.k \in Keys /\ Expired(w.match) /\ w.match.expires = key[w.k].expires
      BY <1>a, <1>23, <2>c DEF expireMatchedKey, HandsInv, MatchInv
    <2>3. /\ key'[w.k].expires = key[w.k].expires
          /\ \A x \in Keys \ {w.k} : key'[x] = key[x]
          /\ IF w.match.status = -3 THEN UNCHANGED key ELSE key'[w.k].status = -3
      BY <1>a, <1>23, ExpireDoes
    <2>4. QED
      BY <1>a, <2>c, <2>1, <2>2, <2>3
  <1>24. CASE expireMatchedKeyFails
    <2>1. faults' # 0
      BY <1>a, <1>24 DEF expireMatchedKeyFails, TypeOK
    <2>2. QED
      BY <2>1
  <1>25. ASSUME NEW done \in BOOLEAN, NEW logged \in BOOLEAN,
        ExpireAccount(done, logged) PROVE ExpiredInv'
    <2> SUFFICES ASSUME Calm' PROVE ExpiredInv'
      OBVIOUS
    <2>c. Calm
      BY <1>a, <1>25 DEF ExpireAccount, TypeOK
    <2>1. /\ UNCHANGED <<now, key, overlooked>> /\ w'.k = w.k /\ w.pc = "expireAccount"
          /\ w'.pc \in {"scan", "event"} /\ w.k \in Keys
      BY <1>a, <1>25 DEF ExpireAccount, HandsInv
    <2>2. /\ \A x \in Keys \ {w.k} : offline'[x] = offline[x]
          /\ AutoCPA /\ w.k \in FileKeys => offline'[w.k]
      BY <1>a, <1>25, <2>1 DEF ExpireAccount, TypeOK
    <2>3. QED
      BY <1>a, <2>c, <2>1, <2>2
  <1>26. CASE expireDueKeys
    BY <1>a, <1>26 DEF expireDueKeys
  <1>27. CASE EndScan
    BY <1>a, <1>27 DEF EndScan
  <1>28. ASSUME NEW item \in w.scan, NextDue(item) PROVE ExpiredInv'
    BY <1>a, <1>28 DEF NextDue
  <1>29. CASE (\E batch \in Batches : ProcessUsageEvents(batch)) \/
            UpdateConfigApply
    <2>1. UNCHANGED <<key, w, now, offline, edits, faults, overlooked>>
      BY <1>29 DEF ProcessUsageEvents, UpdateConfigApply
    <2>2. QED
      BY <1>a, <2>1
  <1>30. CASE UNCHANGED vars
    BY <1>a, <1>30 DEF vars
  <1>31. QED
    BY <1>1, <1>2, <1>3, <1>4, <1>5, <1>6, <1>7, <1>8, <1>9, <1>10, <1>11,
       <1>12, <1>13, <1>14, <1>15, <1>16, <1>17, <1>18, <1>19, <1>20, <1>21,
       <1>22, <1>23, <1>24, <1>25, <1>26, <1>27, <1>28, <1>29, <1>30
       DEF Next, Worker, Edit

(* Every step keeps what the next status rests on. *)
LEMMA NextStep ==
    ASSUME FailInv, [Next]_vars
    PROVE  NextInv'
  <1> USE DEF NextInv, Workers, Idle, AfterExpiry, ThresholdReached,
              CountConsecutive, Failed, queueVars, cfgVars, dbVars, cpaVars,
              histVars
  <1>a. TypeOK /\ HandsInv /\ w \in Workers /\ NextInv
    BY DEF FailInv, IndInv, TypeOK, Workers
  <1>1. ASSUME NEW stale \in BOOLEAN, TakeBatch(stale) PROVE NextInv'
    BY <1>a, <1>1 DEF TakeBatch
  <1>2. CASE refreshConfigIfNeeded
    BY <1>a, <1>2 DEF refreshConfigIfNeeded
  <1>3. CASE StartBatch
    BY <1>a, <1>3 DEF StartBatch
  <1>4. CASE EndBatch
    BY <1>a, <1>4 DEF EndBatch
  <1>5. CASE NextEvent
    BY <1>a, <1>5 DEF NextEvent
  <1>6. CASE FindKeyFails
    BY <1>a, <1>6 DEF FindKeyFails
  <1>7. CASE InsertResult
    BY <1>a, <1>7 DEF InsertResult
  <1>8. CASE InsertResultFails
    BY <1>a, <1>8 DEF InsertResultFails
  <1>9. ASSUME NEW written \in BOOLEAN, Decide(written) PROVE NextInv'
    BY <1>a, <1>9 DEF Decide
  <1>10. CASE applyPriority
    BY <1>a, <1>10 DEF applyPriority
  <1>11. CASE applyKeyStatus
    <2> DEFINE g == NextStatus(key[w.k].status)
    <2>1. w.cur \in Hashes /\ key[w.k].status \in Int
      BY <1>a, <1>11 DEF applyKeyStatus, TypeOK, HandsInv, Row
    <2>2. g # -3 /\ (Failed(w.cur) => g <= 0)
      BY <1>a, <2>1, StatusType
    <2> HIDE DEF g
    <2>3. /\ w'.cur = w.cur /\ w'.k = w.k /\ UNCHANGED <<results, event>>
          /\ w'.pc = "statusWrite" => w'.next = g /\ ThresholdReached
      BY <1>a, <1>11 DEF applyKeyStatus, g
    <2>4. Failed(w.cur)' = Failed(w.cur)
      BY <2>3
    <2>5. ThresholdReached' = ThresholdReached
      BY <2>3
    <2> HIDE DEF ThresholdReached, Failed
    <2>6. QED
      BY <2>2, <2>3, <2>4, <2>5
  <1>12. CASE UpdateKeyStatus
    BY <1>a, <1>12 DEF UpdateKeyStatus
  <1>13. CASE UpdateFails
    BY <1>a, <1>13 DEF UpdateFails
  <1>14. CASE applyCPAAccount
    BY <1>a, <1>14 DEF applyCPAAccount
  <1>15. CASE LoadProviderSyncSnapshot
    BY <1>a, <1>15 DEF LoadProviderSyncSnapshot
  <1>16. CASE putCPASection
    BY <1>a, <1>16 DEF putCPASection
  <1>17. ASSUME NEW done \in BOOLEAN, applyCPAAccountFails(done) PROVE NextInv'
    BY <1>a, <1>17 DEF applyCPAAccountFails
  <1>18. ASSUME NEW done \in BOOLEAN, putCPASectionFails(done) PROVE NextInv'
    BY <1>a, <1>18 DEF putCPASectionFails
  <1>19. CASE EndPolicies
    BY <1>a, <1>19 DEF EndPolicies
  <1>20. CASE expireMatchedKey
    BY <1>a, <1>20 DEF expireMatchedKey
  <1>21. CASE expireMatchedKeyFails
    BY <1>a, <1>21 DEF expireMatchedKeyFails
  <1>22. ASSUME NEW done \in BOOLEAN, NEW logged \in BOOLEAN,
        ExpireAccount(done, logged) PROVE NextInv'
    BY <1>a, <1>22 DEF ExpireAccount
  <1>23. CASE expireDueKeys
    BY <1>a, <1>23 DEF expireDueKeys
  <1>24. CASE EndScan
    BY <1>a, <1>24 DEF EndScan
  <1>25. ASSUME NEW item \in w.scan, NextDue(item) PROVE NextInv'
    BY <1>a, <1>25 DEF NextDue
  <1>26. CASE (\E batch \in Batches : ProcessUsageEvents(batch)) \/
            UpdateConfigSave \/ UpdateConfigApply \/ (\E k \in Keys : \E s \in
            AdminStatuses \cup {key[k].status} : \E t \in {0, key[k].expires,
            now + Renewal} : EditKey(k, s, t)) \/ Tick
    <2>1. UNCHANGED <<w, results, event>>
      BY <1>26 DEF ProcessUsageEvents, UpdateConfigSave, UpdateConfigApply,
             EditKey, Tick
    <2>2. QED
      BY <1>a, <2>1
  <1>27. CASE UNCHANGED vars
    BY <1>a, <1>27 DEF vars
  <1>28. QED
    BY <1>1, <1>2, <1>3, <1>4, <1>5, <1>6, <1>7, <1>8, <1>9, <1>10, <1>11,
       <1>12, <1>13, <1>14, <1>15, <1>16, <1>17, <1>18, <1>19, <1>20, <1>21,
       <1>22, <1>23, <1>24, <1>25, <1>26, <1>27
       DEF Next, Worker, Edit

(* Every step keeps the log true of accounts that are offline. *)
LEMMA LoggedStep ==
    ASSUME FailInv, [Next]_vars
    PROVE  LoggedInv'
  <1> USE DEF LoggedInv, Calm, queueVars, cfgVars, dbVars, cpaVars, histVars
  <1>a. TypeOK /\ HandsInv /\ w \in Workers /\ LoggedInv
    BY DEF FailInv, IndInv, TypeOK, Workers
  <1>1. CASE UpdateConfigSave
    <2>1. edits' # 0
      BY <1>a, <1>1 DEF UpdateConfigSave, TypeOK
    <2>2. QED
      BY <2>1
  <1>2. ASSUME NEW k \in Keys, NEW s \in AdminStatuses \cup {key[k].status},
        NEW t \in {0, key[k].expires, now + Renewal}, EditKey(k, s, t) PROVE
        LoggedInv'
    <2>1. edits' # 0
      BY <1>a, <1>2 DEF EditKey, TypeOK
    <2>2. QED
      BY <2>1
  <1>3. CASE FindKeyFails
    <2>1. faults' # 0
      BY <1>a, <1>3 DEF FindKeyFails, TypeOK
    <2>2. QED
      BY <2>1
  <1>4. CASE InsertResultFails
    <2>1. faults' # 0
      BY <1>a, <1>4 DEF InsertResultFails, TypeOK
    <2>2. QED
      BY <2>1
  <1>5. ASSUME NEW written \in BOOLEAN, Decide(written) PROVE LoggedInv'
    <2> SUFFICES ASSUME Calm' PROVE LoggedInv'
      OBVIOUS
    <2>c. Calm
      BY <1>a, <1>5 DEF Decide, TypeOK
    <2>1. /\ UNCHANGED offline /\ w.k \in Keys
          /\ \/ UNCHANGED lastAction
             \/ \E v \in Action \ {"cpa_offline"} :
                   lastAction' = [lastAction EXCEPT ![w.k] = v]
      BY <1>a, <1>5 DEF Decide, HandsInv, Action
    <2>2. lastAction \in [Keys -> Action]
      BY <1>a DEF TypeOK
    <2>3. QED
      BY <1>a, <2>c, <2>1, <2>2
  <1>6. CASE applyPriority
    <2> SUFFICES ASSUME Calm' PROVE LoggedInv'
      OBVIOUS
    <2>c. Calm
      BY <1>a, <1>6 DEF applyPriority, TypeOK
    <2>1. /\ UNCHANGED offline /\ w.k \in Keys
          /\ \/ UNCHANGED lastAction
             \/ \E v \in Action \ {"cpa_offline"} :
                   lastAction' = [lastAction EXCEPT ![w.k] = v]
      BY <1>a, <1>6 DEF applyPriority, HandsInv, Action
    <2>2. lastAction \in [Keys -> Action]
      BY <1>a DEF TypeOK
    <2>3. QED
      BY <1>a, <2>c, <2>1, <2>2
  <1>7. CASE UpdateKeyStatus
    <2> SUFFICES ASSUME Calm' PROVE LoggedInv'
      OBVIOUS
    <2>c. Calm
      BY <1>a, <1>7 DEF UpdateKeyStatus, TypeOK
    <2>1. /\ UNCHANGED offline /\ w.k \in Keys
          /\ \/ UNCHANGED lastAction
             \/ \E v \in Action \ {"cpa_offline"} :
                   lastAction' = [lastAction EXCEPT ![w.k] = v]
      BY <1>a, <1>7 DEF UpdateKeyStatus, HandsInv, Action
    <2>2. lastAction \in [Keys -> Action]
      BY <1>a DEF TypeOK
    <2>3. QED
      BY <1>a, <2>c, <2>1, <2>2
  <1>8. CASE UpdateFails
    <2>1. faults' # 0
      BY <1>a, <1>8 DEF UpdateFails, TypeOK
    <2>2. QED
      BY <2>1
  <1>9. CASE applyCPAAccount
    <2> SUFFICES ASSUME Calm' PROVE LoggedInv'
      OBVIOUS
    <2>c. Calm
      BY <1>a, <1>9 DEF applyCPAAccount, TypeOK
    <2>1. w.k \in Keys /\ lastAction \in [Keys -> Action] /\ offline \in [Keys -> BOOLEAN]
      BY <1>a, <1>9 DEF applyCPAAccount, HandsInv, TypeOK
    <2>2. \/ UNCHANGED <<offline, lastAction>>
          \/ /\ offline' = [offline EXCEPT ![w.k] = TRUE]
             /\ lastAction' = [lastAction EXCEPT ![w.k] = "cpa_offline"]
          \/ /\ \A x \in Keys \ {w.k} : offline'[x] = offline[x]
             /\ lastAction' = [lastAction EXCEPT ![w.k] = "cpa_online"]
      <3>1. w.cur \in Hashes
        BY <1>a, <1>9 DEF applyCPAAccount, HandsInv
      <3>2. Failed(w.cur) \in BOOLEAN
        BY <1>a, <3>1, EventType
      <3>3. QED
        BY <1>9, <2>1, <3>2 DEF applyCPAAccount
    <2>3. QED
      BY <1>a, <2>c, <2>1, <2>2
  <1>10. ASSUME NEW done \in BOOLEAN, applyCPAAccountFails(done) PROVE
        LoggedInv'
    <2>1. faults' # 0
      BY <1>a, <1>10 DEF applyCPAAccountFails, TypeOK
    <2>2. QED
      BY <2>1
  <1>11. ASSUME NEW done \in BOOLEAN, putCPASectionFails(done) PROVE LoggedInv'
    <2>1. faults' # 0
      BY <1>a, <1>11 DEF putCPASectionFails, TypeOK
    <2>2. QED
      BY <2>1
  <1>12. CASE expireMatchedKey
    <2> SUFFICES ASSUME Calm' PROVE LoggedInv'
      OBVIOUS
    <2>c. Calm
      BY <1>a, <1>12 DEF expireMatchedKey, TypeOK
    <2>1. /\ UNCHANGED offline /\ w.k \in Keys
          /\ \/ UNCHANGED lastAction
             \/ \E v \in Action \ {"cpa_offline"} :
                   lastAction' = [lastAction EXCEPT ![w.k] = v]
      BY <1>a, <1>12 DEF expireMatchedKey, HandsInv, Action
    <2>2. lastAction \in [Keys -> Action]
      BY <1>a DEF TypeOK
    <2>3. QED
      BY <1>a, <2>c, <2>1, <2>2
  <1>13. CASE expireMatchedKeyFails
    <2>1. faults' # 0
      BY <1>a, <1>13 DEF expireMatchedKeyFails, TypeOK
    <2>2. QED
      BY <2>1
  <1>14. ASSUME NEW done \in BOOLEAN, NEW logged \in BOOLEAN,
        ExpireAccount(done, logged) PROVE LoggedInv'
    <2> SUFFICES ASSUME Calm' PROVE LoggedInv'
      OBVIOUS
    <2>c. Calm
      BY <1>a, <1>14 DEF ExpireAccount, TypeOK
    <2>1. w.k \in Keys /\ lastAction \in [Keys -> Action] /\ offline \in [Keys -> BOOLEAN]
      BY <1>a, <1>14 DEF ExpireAccount, HandsInv, TypeOK
    <2>2. /\ UNCHANGED offline \/ offline' = [offline EXCEPT ![w.k] = TRUE]
          /\ \/ UNCHANGED lastAction
             \/ lastAction' = [lastAction EXCEPT ![w.k] = "cpa_offline_expired"]
      BY <1>14 DEF ExpireAccount
    <2>3. QED
      BY <1>a, <2>c, <2>1, <2>2
  <1>15. CASE (\E batch \in Batches : ProcessUsageEvents(batch)) \/
            UpdateConfigApply \/ Tick \/ (\E stale \in BOOLEAN :
            TakeBatch(stale)) \/ refreshConfigIfNeeded \/ StartBatch \/
            EndBatch \/ NextEvent \/ InsertResult \/ applyKeyStatus \/
            LoadProviderSyncSnapshot \/ putCPASection \/ EndPolicies \/
            expireDueKeys \/ EndScan \/ (\E item \in w.scan : NextDue(item))
    <2>1. UNCHANGED <<lastAction, offline, edits, faults>>
      BY <1>15 DEF ProcessUsageEvents, UpdateConfigApply, Tick, TakeBatch,
             refreshConfigIfNeeded, StartBatch, EndBatch, NextEvent,
             InsertResult, applyKeyStatus, LoadProviderSyncSnapshot,
             putCPASection, EndPolicies, expireDueKeys, EndScan, NextDue
    <2>2. QED
      BY <1>a, <2>1
  <1>16. CASE UNCHANGED vars
    BY <1>a, <1>16 DEF vars
  <1>17. QED
    BY <1>1, <1>2, <1>3, <1>4, <1>5, <1>6, <1>7, <1>8, <1>9, <1>10, <1>11,
       <1>12, <1>13, <1>14, <1>15, <1>16
       DEF Next, Worker, Edit

(* Every step keeps failing keys taken out or the worker at them. *)
LEMMA TakenOutStep ==
    ASSUME FailInv, [Next]_vars
    PROVE  TakenOutInv'
  <1> USE DEF TakenOutInv, Workers, Idle, AfterExpiry, StatusPending,
              AccountPending, Expiring, Calm, TakenOut, queueVars, cfgVars,
              dbVars, cpaVars, histVars
  <1>a. TypeOK /\ HandsInv /\ w \in Workers /\ MatchInv /\
        ExpiredInv /\ NextInv /\ LoggedInv /\ TakenOutInv
    BY DEF FailInv, IndInv, TypeOK, Workers
  <1>1. CASE UpdateConfigSave
    <2>1. edits' # 0
      BY <1>a, <1>1 DEF UpdateConfigSave, TypeOK
    <2>2. QED
      BY <2>1
  <1>2. ASSUME NEW k \in Keys, NEW s \in AdminStatuses \cup {key[k].status},
        NEW t \in {0, key[k].expires, now + Renewal}, EditKey(k, s, t) PROVE
        TakenOutInv'
    <2>1. edits' # 0
      BY <1>a, <1>2 DEF EditKey, TypeOK
    <2>2. QED
      BY <2>1
  <1>3. ASSUME NEW stale \in BOOLEAN, TakeBatch(stale) PROVE TakenOutInv'
    <2> SUFFICES ASSUME Calm' PROVE TakenOutInv'
      OBVIOUS
    <2>c. Calm
      BY <1>a, <1>3 DEF TakeBatch, TypeOK
    <2> SUFFICES ASSUME NEW k \in ProbedKeys \ overlooked', LongRun(k)'
                 PROVE  TakenOut(k)'
      OBVIOUS
    <2>o. k \in ProbedKeys \ overlooked
      BY <1>3 DEF TakeBatch
    <2>l. LongRun(k)
      BY <1>3 DEF TakeBatch, LongRun, CountConsecutive
    <2>t. TakenOut(k)
      BY <1>a, <2>c, <2>o, <2>l
    <2>k. k \in Keys
      BY ProbeAssumption
    <2>1. /\ UNCHANGED <<key, offline>>
          /\ w.pc \in {"idle", "refresh", "start", "event", "scan", "done"}
      BY <1>3 DEF TakeBatch
    <2>2. QED
      BY <2>t, <2>1
  <1>4. CASE refreshConfigIfNeeded
    <2> SUFFICES ASSUME Calm' PROVE TakenOutInv'
      OBVIOUS
    <2>c. Calm
      BY <1>a, <1>4 DEF refreshConfigIfNeeded, TypeOK
    <2> SUFFICES ASSUME NEW k \in ProbedKeys \ overlooked', LongRun(k)'
                 PROVE  TakenOut(k)'
      OBVIOUS
    <2>o. k \in ProbedKeys \ overlooked
      BY <1>4 DEF refreshConfigIfNeeded
    <2>l. LongRun(k)
      BY <1>4 DEF refreshConfigIfNeeded, LongRun, CountConsecutive
    <2>t. TakenOut(k)
      BY <1>a, <2>c, <2>o, <2>l
    <2>k. k \in Keys
      BY ProbeAssumption
    <2>1. /\ UNCHANGED <<key, offline>>
          /\ w.pc \in {"idle", "refresh", "start", "event", "scan", "done"}
      BY <1>4 DEF refreshConfigIfNeeded
    <2>2. QED
      BY <2>t, <2>1
  <1>5. CASE StartBatch
    <2> SUFFICES ASSUME Calm' PROVE TakenOutInv'
      OBVIOUS
    <2>c. Calm
      BY <1>a, <1>5 DEF StartBatch, TypeOK
    <2> SUFFICES ASSUME NEW k \in ProbedKeys \ overlooked', LongRun(k)'
                 PROVE  TakenOut(k)'
      OBVIOUS
    <2>o. k \in ProbedKeys \ overlooked
      BY <1>5 DEF StartBatch
    <2>l. LongRun(k)
      BY <1>5 DEF StartBatch, LongRun, CountConsecutive
    <2>t. TakenOut(k)
      BY <1>a, <2>c, <2>o, <2>l
    <2>k. k \in Keys
      BY ProbeAssumption
    <2>1. /\ UNCHANGED <<key, offline>>
          /\ w.pc \in {"idle", "refresh", "start", "event", "scan", "done"}
      BY <1>5 DEF StartBatch
    <2>2. QED
      BY <2>t, <2>1
  <1>6. CASE EndBatch
    <2> SUFFICES ASSUME Calm' PROVE TakenOutInv'
      OBVIOUS
    <2>c. Calm
      BY <1>a, <1>6 DEF EndBatch, TypeOK
    <2> SUFFICES ASSUME NEW k \in ProbedKeys \ overlooked', LongRun(k)'
                 PROVE  TakenOut(k)'
      OBVIOUS
    <2>o. k \in ProbedKeys \ overlooked
      BY <1>6 DEF EndBatch
    <2>l. LongRun(k)
      BY <1>6 DEF EndBatch, LongRun, CountConsecutive
    <2>t. TakenOut(k)
      BY <1>a, <2>c, <2>o, <2>l
    <2>k. k \in Keys
      BY ProbeAssumption
    <2>1. /\ UNCHANGED <<key, offline>>
          /\ w.pc \in {"idle", "refresh", "start", "event", "scan", "done"}
      BY <1>6 DEF EndBatch
    <2>2. QED
      BY <2>t, <2>1
  <1>7. CASE NextEvent
    <2> SUFFICES ASSUME Calm' PROVE TakenOutInv'
      OBVIOUS
    <2>c. Calm
      BY <1>a, <1>7 DEF NextEvent, TypeOK
    <2> SUFFICES ASSUME NEW k \in ProbedKeys \ overlooked', LongRun(k)'
                 PROVE  TakenOut(k)'
      OBVIOUS
    <2>o. k \in ProbedKeys \ overlooked
      BY <1>7 DEF NextEvent
    <2>l. LongRun(k)
      BY <1>7 DEF NextEvent, LongRun, CountConsecutive
    <2>t. TakenOut(k)
      BY <1>a, <2>c, <2>o, <2>l
    <2>k. k \in Keys
      BY ProbeAssumption
    <2>1. /\ UNCHANGED <<key, offline>>
          /\ w.pc \in {"idle", "refresh", "start", "event", "scan", "done"}
      BY <1>7 DEF NextEvent
    <2>2. QED
      BY <2>t, <2>1
  <1>8. CASE FindKeyFails
    <2>1. faults' # 0
      BY <1>a, <1>8 DEF FindKeyFails, TypeOK
    <2>2. QED
      BY <2>1
  <1>9. CASE InsertResult
    <2> SUFFICES ASSUME Calm' PROVE TakenOutInv'
      OBVIOUS
    <2>c. Calm
      BY <1>a, <1>9 DEF InsertResult, TypeOK
    <2> SUFFICES ASSUME NEW k \in ProbedKeys \ overlooked', LongRun(k)'
                 PROVE  TakenOut(k)'
      OBVIOUS
    <2>o. k \in ProbedKeys \ overlooked
      BY <1>9 DEF InsertResult
    <2>1. /\ UNCHANGED <<key, offline, event>> /\ w.pc = "insert"
          /\ w'.k = w.k /\ w'.cur = w.cur /\ w.cur \in Hashes
          /\ results' = results \/ (results' = Append(results, w.cur) /\ Inserted)
          /\ Inserted /\ w.k \in Keys => w'.pc = "decide"
      BY <1>a, <1>9 DEF InsertResult, HandsInv
    <2>2. k \in Keys /\ Failed(w.cur) \in BOOLEAN /\ w.k = KeyOf(w.cur)
      BY <1>a, <2>c, <2>1, ProbeAssumption, EventType DEF MatchInv
    <2>3. CASE LongRun(k)
      <3>1. TakenOut(k)
        BY <1>a, <2>c, <2>o, <2>3
      <3>2. QED
        BY <2>1, <3>1
    <2>4. CASE ~ LongRun(k)
      <3>1. results' # results
        BY <2>1, <2>4 DEF LongRun, CountConsecutive
      <3>2. KeyOf(w.cur) = k /\ Failed(w.cur)
        <4>1. SUFFICES ASSUME KeyOf(w.cur) # k \/ Failed(w.cur) # TRUE
                       PROVE  LongRun(k)
          BY <2>2, <2>4
        <4>2. /\ CountConsecutive(k, TRUE) \in Nat /\ CountConsecutive(k, TRUE)' \in Nat
              /\ CountConsecutive(k, TRUE)' <= CountConsecutive(k, TRUE)
          BY <1>a, <2>1, <2>2, <3>1, <4>1, CountAfterInsert
        <4>3. FailureThreshold \in Nat
          BY ProbeAssumption
        <4>4. CountConsecutive(k, TRUE)' >= FailureThreshold
          BY DEF LongRun
        <4> DEFINE n == CountConsecutive(k, TRUE)
                   m == CountConsecutive(k, TRUE)'
        <4>5. n \in Nat /\ m \in Nat /\ m <= n /\ m >= FailureThreshold
          BY <4>2, <4>4
        <4> HIDE DEF n, m
        <4>6. n >= FailureThreshold
          BY <4>3, <4>5
        <4>7. QED
          BY <4>6 DEF LongRun, n
      <3>3. w'.pc = "decide" /\ w'.k = k /\ Failed(w.cur)'
        BY <2>1, <2>2, <3>1, <3>2 DEF Failed
      <3>4. QED
        BY <3>3
    <2>5. QED
      BY <2>3, <2>4
  <1>10. CASE InsertResultFails
    <2>1. faults' # 0
      BY <1>a, <1>10 DEF InsertResultFails, TypeOK
    <2>2. QED
      BY <2>1
  <1>11. ASSUME NEW written \in BOOLEAN, Decide(written) PROVE TakenOutInv'
    <2> SUFFICES ASSUME Calm' PROVE TakenOutInv'
      OBVIOUS
    <2>c. Calm
      BY <1>a, <1>11 DEF Decide, TypeOK
    <2> SUFFICES ASSUME NEW k \in ProbedKeys \ overlooked', LongRun(k)'
                 PROVE  TakenOut(k)'
      OBVIOUS
    <2>l. LongRun(k)
      BY <1>11 DEF Decide, LongRun, CountConsecutive
    <2>k. k \in Keys
      BY ProbeAssumption
    <2>1. /\ UNCHANGED <<offline, event>> /\ w.pc = "decide"
          /\ w'.k = w.k /\ w'.cur = w.cur
          /\ w'.pc \in {"expire", "priority", "event"}
      BY <1>a, <1>11 DEF Decide
    <2>2. key'[k].status = key[k].status
      BY <1>a, <1>11, <2>k, DecideDoes
    <2>3. Failed(w.cur)' = Failed(w.cur)
      BY <2>1 DEF Failed
    <2>4. CASE k \in overlooked
      <3>1. w.k = k /\ Failed(w.cur) /\ w'.pc = "priority"
        BY <1>a, <1>11, <2>4 DEF Decide
      <3>2. QED
        BY <2>1, <2>3, <3>1
    <2>5. CASE k \notin overlooked
      <3>1. TakenOut(k)
        BY <1>a, <2>c, <2>l, <2>5
      <3>2. w.k = k /\ Failed(w.cur) => w'.pc \in {"expire", "priority"}
        BY <1>a, <1>11 DEF Decide
      <3>3. QED
        BY <2>1, <2>2, <2>3, <3>1, <3>2
    <2>6. QED
      BY <2>4, <2>5
  <1>12. CASE applyPriority
    <2> SUFFICES ASSUME Calm' PROVE TakenOutInv'
      OBVIOUS
    <2>c. Calm
      BY <1>a, <1>12 DEF applyPriority, TypeOK
    <2> SUFFICES ASSUME NEW k \in ProbedKeys \ overlooked', LongRun(k)'
                 PROVE  TakenOut(k)'
      OBVIOUS
    <2>o. k \in ProbedKeys \ overlooked
      BY <1>12 DEF applyPriority
    <2>l. LongRun(k)
      BY <1>12 DEF applyPriority, LongRun, CountConsecutive
    <2>t. TakenOut(k)
      BY <1>a, <2>c, <2>o, <2>l
    <2>k. k \in Keys
      BY ProbeAssumption
    <2>1. /\ UNCHANGED <<offline, event>> /\ w.pc = "priority" /\ w'.pc = "status"
          /\ w'.k = w.k /\ w'.cur = w.cur
      BY <1>a, <1>12, ZenonT(30) DEF applyPriority
    <2>2. key'[k].status = key[k].status
      BY <1>a, <1>12, <2>k, PriorityDoes
    <2>3. Failed(w.cur)' = Failed(w.cur)
      BY <2>1 DEF Failed
    <2>4. QED
      BY <2>t, <2>1, <2>2, <2>3
  <1>13. CASE applyKeyStatus
    <2> SUFFICES ASSUME Calm' PROVE TakenOutInv'
      OBVIOUS
    <2>c. Calm
      BY <1>a, <1>13 DEF applyKeyStatus, TypeOK
    <2> SUFFICES ASSUME NEW k \in ProbedKeys \ overlooked', LongRun(k)'
                 PROVE  TakenOut(k)'
      OBVIOUS
    <2>o. k \in ProbedKeys \ overlooked
      BY <1>13 DEF applyKeyStatus
    <2>l. LongRun(k)
      BY <1>13 DEF applyKeyStatus, LongRun, CountConsecutive
    <2>t. TakenOut(k)
      BY <1>a, <2>c, <2>o, <2>l
    <2>k. k \in Keys
      BY ProbeAssumption
    <2>1. /\ UNCHANGED <<offline, event, key>> /\ w.pc = "status"
          /\ w'.pc \in {"statusWrite", "account"} /\ w'.k = w.k /\ w'.cur = w.cur
      BY <1>a, <1>13 DEF applyKeyStatus
    <2>2. w.cur \in Hashes /\ key[w.k].status \in Int
      BY <1>a, <1>13 DEF applyKeyStatus, HandsInv, TypeOK, Row
    <2>3. Failed(w.cur)' = Failed(w.cur) /\ Failed(w.cur) \in BOOLEAN
      BY <1>a, <2>1, <2>2, EventType DEF Failed
    <2>4. ASSUME w.k = k, Failed(w.cur), w'.pc = "account", AutoStatus
          PROVE  key[k].status <= 0
      <3> DEFINE g == NextStatus(key[w.k].status)
      <3>1. ThresholdReached
        BY <2>l, <2>3, <2>4 DEF LongRun, ThresholdReached
      <3>2. g <= 0
        BY <1>a, <2>2, <2>4, StatusType
      <3>3. g = key[w.k].status \/ ProtectedStatus(key[w.k].status)
        BY <1>a, <1>13, <2>4, <3>1 DEF applyKeyStatus
      <3> HIDE DEF g
      <3>4. QED
        BY <2>2, <2>4, <3>2, <3>3 DEF ProtectedStatus
    <2>5. QED
      BY <2>t, <2>1, <2>3, <2>4
  <1>14. CASE UpdateKeyStatus
    <2> SUFFICES ASSUME Calm' PROVE TakenOutInv'
      OBVIOUS
    <2>c. Calm
      BY <1>a, <1>14 DEF UpdateKeyStatus, TypeOK
    <2> SUFFICES ASSUME NEW k \in ProbedKeys \ overlooked', LongRun(k)'
                 PROVE  TakenOut(k)'
      OBVIOUS
    <2>o. k \in ProbedKeys \ overlooked
      BY <1>14 DEF UpdateKeyStatus
    <2>l. LongRun(k)
      BY <1>14 DEF UpdateKeyStatus, LongRun, CountConsecutive
    <2>t. TakenOut(k)
      BY <1>a, <2>c, <2>o, <2>l
    <2>k. k \in Keys
      BY ProbeAssumption
    <2>1. /\ UNCHANGED <<offline, event>> /\ w.pc = "statusWrite"
          /\ w'.pc = "account" /\ w'.k = w.k /\ w'.cur = w.cur
      BY <1>a, <1>14 DEF UpdateKeyStatus
    <2>2. /\ \A x \in Keys \ {w.k} : key'[x] = key[x]
          /\ key'[w.k].status = w.next
      BY <1>a, <1>14, StatusDoes
    <2>3. w.cur \in Hashes /\ ThresholdReached /\ (Failed(w.cur) => w.next <= 0)
      BY <1>a, <2>1 DEF HandsInv, NextInv
    <2>f. Failed(w.cur)' = Failed(w.cur) /\ Failed(w.cur) \in BOOLEAN
      BY <1>a, <2>1, <2>3, EventType DEF Failed
    <2>4. ASSUME w.k = k, ~ Failed(w.cur), ThresholdReached
          PROVE  FALSE
      <3> DEFINE n == CountConsecutive(k, FALSE)
                 m == CountConsecutive(k, TRUE)
      <3>1. n >= RecoveryThreshold /\ m >= FailureThreshold
        BY <2>f, <2>l, <2>4 DEF ThresholdReached, LongRun
      <3>2. n \in Nat
        <4>1. results \in Seq(Hashes)
          BY <1>a DEF TypeOK
        <4>2. QED
          BY <4>1, RunIsFinite DEF CountConsecutive
      <3>3. FailureThreshold \in Nat \ {0} /\ RecoveryThreshold \in Nat \ {0}
        BY ProbeAssumption
      <3>4. n > 0 => m = 0
        BY <1>a, <2>k, CountsExclude
      <3> HIDE DEF n, m
      <3>5. QED
        BY <3>1, <3>2, <3>3, <3>4
    <2>5. QED
      BY <2>t, <2>k, <2>1, <2>2, <2>3, <2>f, <2>4
  <1>15. CASE UpdateFails
    <2>1. faults' # 0
      BY <1>a, <1>15 DEF UpdateFails, TypeOK
    <2>2. QED
      BY <2>1
  <1>16. CASE applyCPAAccount
    <2> SUFFICES ASSUME Calm' PROVE TakenOutInv'
      OBVIOUS
    <2>c. Calm
      BY <1>a, <1>16 DEF applyCPAAccount, TypeOK
    <2> SUFFICES ASSUME NEW k \in ProbedKeys \ overlooked', LongRun(k)'
                 PROVE  TakenOut(k)'
      OBVIOUS
    <2>o. k \in ProbedKeys \ overlooked
      BY <1>16 DEF applyCPAAccount
    <2>l. LongRun(k)
      BY <1>16 DEF applyCPAAccount, LongRun, CountConsecutive
    <2>t. TakenOut(k)
      BY <1>a, <2>c, <2>o, <2>l
    <2>k. k \in Keys
      BY ProbeAssumption
    <2>1. /\ UNCHANGED <<key, event>> /\ w.pc = "account"
          /\ w'.pc = "sync" /\ w'.k = w.k /\ w'.cur = w.cur
      BY <1>a, <1>16, ZenonT(30) DEF applyCPAAccount
    <2>2. w.cur \in Hashes /\ w.k \in Keys /\ offline \in [Keys -> BOOLEAN]
      BY <1>a, <2>1 DEF HandsInv, TypeOK
    <2>f. Failed(w.cur) \in BOOLEAN
      BY <1>a, <2>2, EventType
    <2>3. /\ AccountCallDue => offline' = [offline EXCEPT ![w.k] = Failed(w.cur)]
          /\ ~ AccountCallDue => offline' = offline
      BY <1>16 DEF applyCPAAccount
    <2>4. ASSUME w.k = k, ~ Failed(w.cur), ThresholdReached
          PROVE  FALSE
      <3> DEFINE n == CountConsecutive(k, FALSE)
                 m == CountConsecutive(k, TRUE)
      <3>1. n >= RecoveryThreshold /\ m >= FailureThreshold
        BY <2>f, <2>l, <2>4 DEF ThresholdReached, LongRun
      <3>2. n \in Nat
        <4>1. results \in Seq(Hashes)
          BY <1>a DEF TypeOK
        <4>2. QED
          BY <4>1, RunIsFinite DEF CountConsecutive
      <3>3. FailureThreshold \in Nat \ {0} /\ RecoveryThreshold \in Nat \ {0}
        BY ProbeAssumption
      <3>4. n > 0 => m = 0
        BY <1>a, <2>k, CountsExclude
      <3> HIDE DEF n, m
      <3>5. QED
        BY <3>1, <3>2, <3>3, <3>4
    <2>5. CASE w.k # k
      BY <2>t, <2>k, <2>1, <2>2, <2>3, <2>5
    <2>6. CASE w.k = k /\ ~ Failed(w.cur)
      <3>1. ~ AccountCallDue
        BY <2>4, <2>6 DEF AccountCallDue
      <3>2. QED
        BY <2>t, <2>1, <2>3, <2>6, <3>1
    <2>7. CASE w.k = k /\ Failed(w.cur)
      <3>1. ThresholdReached
        BY <2>l, <2>f, <2>7 DEF LongRun, ThresholdReached
      <3>2. AutoCPA /\ k \in FileKeys => AccountCallDue \/ lastAction[k] = "cpa_offline"
        BY <2>7, <3>1 DEF AccountCallDue
      <3>3. lastAction[k] = "cpa_offline" => offline[k]
        BY <1>a, <2>c, <2>k DEF LoggedInv
      <3>4. AutoCPA /\ k \in FileKeys => offline'[k]
        BY <2>k, <2>2, <2>3, <2>7, <3>2, <3>3
      <3>5. QED
        BY <2>t, <2>1, <3>4
    <2>8. QED
      BY <2>f, <2>5, <2>6, <2>7
  <1>17. CASE LoadProviderSyncSnapshot
    <2> SUFFICES ASSUME Calm' PROVE TakenOutInv'
      OBVIOUS
    <2>c. Calm
      BY <1>a, <1>17 DEF LoadProviderSyncSnapshot, TypeOK
    <2> SUFFICES ASSUME NEW k \in ProbedKeys \ overlooked', LongRun(k)'
                 PROVE  TakenOut(k)'
      OBVIOUS
    <2>o. k \in ProbedKeys \ overlooked
      BY <1>17 DEF LoadProviderSyncSnapshot
    <2>l. LongRun(k)
      BY <1>17 DEF LoadProviderSyncSnapshot, LongRun, CountConsecutive
    <2>t. TakenOut(k)
      BY <1>a, <2>c, <2>o, <2>l
    <2>k. k \in Keys
      BY ProbeAssumption
    <2>1. /\ UNCHANGED <<key, offline>> /\ w'.k = w.k
          /\ \/ w.pc = "sync"
             \/ w.pc = "expireSync" /\ w'.pc \in {"expirePut", "expireAccount"}
      BY <1>a, <1>17, SnapshotDoes DEF LoadProviderSyncSnapshot
    <2>2. QED
      BY <2>t, <2>1
  <1>18. CASE putCPASection
    <2> SUFFICES ASSUME Calm' PROVE TakenOutInv'
      OBVIOUS
    <2>c. Calm
      BY <1>a, <1>18 DEF putCPASection, TypeOK
    <2> SUFFICES ASSUME NEW k \in ProbedKeys \ overlooked', LongRun(k)'
                 PROVE  TakenOut(k)'
      OBVIOUS
    <2>o. k \in ProbedKeys \ overlooked
      BY <1>18 DEF putCPASection
    <2>l. LongRun(k)
      BY <1>18 DEF putCPASection, LongRun, CountConsecutive
    <2>t. TakenOut(k)
      BY <1>a, <2>c, <2>o, <2>l
    <2>k. k \in Keys
      BY ProbeAssumption
    <2>1. /\ UNCHANGED <<key, offline>> /\ w'.k = w.k
          /\ \/ w.pc = "syncPut"
             \/ w.pc = "expirePut" /\ w'.pc = "expireAccount"
      BY <1>a, <1>18 DEF putCPASection
    <2>2. QED
      BY <2>t, <2>1
  <1>19. ASSUME NEW done \in BOOLEAN, applyCPAAccountFails(done) PROVE
        TakenOutInv'
    <2>1. faults' # 0
      BY <1>a, <1>19 DEF applyCPAAccountFails, TypeOK
    <2>2. QED
      BY <2>1
  <1>20. ASSUME NEW done \in BOOLEAN, putCPASectionFails(done) PROVE
        TakenOutInv'
    <2>1. faults' # 0
      BY <1>a, <1>20 DEF putCPASectionFails, TypeOK
    <2>2. QED
      BY <2>1
  <1>21. CASE EndPolicies
    <2> SUFFICES ASSUME Calm' PROVE TakenOutInv'
      OBVIOUS
    <2>c. Calm
      BY <1>a, <1>21 DEF EndPolicies, TypeOK
    <2> SUFFICES ASSUME NEW k \in ProbedKeys \ overlooked', LongRun(k)'
                 PROVE  TakenOut(k)'
      OBVIOUS
    <2>o. k \in ProbedKeys \ overlooked
      BY <1>21 DEF EndPolicies
    <2>l. LongRun(k)
      BY <1>21 DEF EndPolicies, LongRun, CountConsecutive
    <2>t. TakenOut(k)
      BY <1>a, <2>c, <2>o, <2>l
    <2>k. k \in Keys
      BY ProbeAssumption
    <2>1. /\ UNCHANGED <<key, offline>>
          /\ w.pc \in {"idle", "refresh", "start", "event", "scan", "done"}
      BY <1>21 DEF EndPolicies
    <2>2. QED
      BY <2>t, <2>1
  <1>22. CASE expireMatchedKey
    <2> SUFFICES ASSUME Calm' PROVE TakenOutInv'
      OBVIOUS
    <2>c. Calm
      BY <1>a, <1>22 DEF expireMatchedKey, TypeOK
    <2> SUFFICES ASSUME NEW k \in ProbedKeys \ overlooked', LongRun(k)'
                 PROVE  TakenOut(k)'
      OBVIOUS
    <2>o. k \in ProbedKeys \ overlooked
      BY <1>22 DEF expireMatchedKey
    <2>l. LongRun(k)
      BY <1>22 DEF expireMatchedKey, LongRun, CountConsecutive
    <2>t. TakenOut(k)
      BY <1>a, <2>c, <2>o, <2>l
    <2>k. k \in Keys
      BY ProbeAssumption
    <2>1. /\ UNCHANGED offline /\ w.pc = "expire" /\ w'.k = w.k
          /\ w.match.status # -3 => w'.pc = "expireSync"
      BY <1>a, <1>22 DEF expireMatchedKey
    <2>2. /\ w.k \in Keys /\ \A x \in Keys \ {w.k} : key'[x] = key[x]
          /\ IF w.match.status = -3 THEN UNCHANGED key ELSE key'[w.k].status = -3
      BY <1>a, <1>22, ExpireDoes
    <2>3. w.match.status = -3 => key[w.k].status = -3
      BY <1>a, <2>c, <2>1 DEF MatchInv
    <2>4. key[k].status = -3 /\ AutoCPA /\ k \in FileKeys => offline[k]
      BY <1>a, <2>c, <2>k, <2>o, <2>1 DEF ExpiredInv
    <2>5. QED
      BY <2>t, <2>k, <2>1, <2>2, <2>3, <2>4
  <1>23. CASE expireMatchedKeyFails
    <2>1. faults' # 0
      BY <1>a, <1>23 DEF expireMatchedKeyFails, TypeOK
    <2>2. QED
      BY <2>1
  <1>24. ASSUME NEW done \in BOOLEAN, NEW logged \in BOOLEAN,
        ExpireAccount(done, logged) PROVE TakenOutInv'
    <2> SUFFICES ASSUME Calm' PROVE TakenOutInv'
      OBVIOUS
    <2>c. Calm
      BY <1>a, <1>24 DEF ExpireAccount, TypeOK
    <2> SUFFICES ASSUME NEW k \in ProbedKeys \ overlooked', LongRun(k)'
                 PROVE  TakenOut(k)'
      OBVIOUS
    <2>o. k \in ProbedKeys \ overlooked
      BY <1>24 DEF ExpireAccount
    <2>l. LongRun(k)
      BY <1>24 DEF ExpireAccount, LongRun, CountConsecutive
    <2>t. TakenOut(k)
      BY <1>a, <2>c, <2>o, <2>l
    <2>k. k \in Keys
      BY ProbeAssumption
    <2>1. /\ UNCHANGED key /\ w.pc = "expireAccount" /\ w.k \in Keys
          /\ offline \in [Keys -> BOOLEAN]
      BY <1>a, <1>24 DEF ExpireAccount, HandsInv, TypeOK
    <2>2. IF AutoCPA /\ w.k \in FileKeys
          THEN offline' = [offline EXCEPT ![w.k] = TRUE]
          ELSE UNCHANGED offline
      BY <1>a, <1>24 DEF ExpireAccount, TypeOK
    <2>3. QED
      BY <2>t, <2>k, <2>1, <2>2
  <1>25. CASE expireDueKeys
    <2> SUFFICES ASSUME Calm' PROVE TakenOutInv'
      OBVIOUS
    <2>c. Calm
      BY <1>a, <1>25 DEF expireDueKeys, TypeOK
    <2> SUFFICES ASSUME NEW k \in ProbedKeys \ overlooked', LongRun(k)'
                 PROVE  TakenOut(k)'
      OBVIOUS
    <2>o. k \in ProbedKeys \ overlooked
      BY <1>25 DEF expireDueKeys
    <2>l. LongRun(k)
      BY <1>25 DEF expireDueKeys, LongRun, CountConsecutive
    <2>t. TakenOut(k)
      BY <1>a, <2>c, <2>o, <2>l
    <2>k. k \in Keys
      BY ProbeAssumption
    <2>1. /\ UNCHANGED <<key, offline>>
          /\ w.pc \in {"idle", "refresh", "start", "event", "scan", "done"}
      BY <1>25 DEF expireDueKeys
    <2>2. QED
      BY <2>t, <2>1
  <1>26. CASE EndScan
    <2> SUFFICES ASSUME Calm' PROVE TakenOutInv'
      OBVIOUS
    <2>c. Calm
      BY <1>a, <1>26 DEF EndScan, TypeOK
    <2> SUFFICES ASSUME NEW k \in ProbedKeys \ overlooked', LongRun(k)'
                 PROVE  TakenOut(k)'
      OBVIOUS
    <2>o. k \in ProbedKeys \ overlooked
      BY <1>26 DEF EndScan
    <2>l. LongRun(k)
      BY <1>26 DEF EndScan, LongRun, CountConsecutive
    <2>t. TakenOut(k)
      BY <1>a, <2>c, <2>o, <2>l
    <2>k. k \in Keys
      BY ProbeAssumption
    <2>1. /\ UNCHANGED <<key, offline>>
          /\ w.pc \in {"idle", "refresh", "start", "event", "scan", "done"}
      BY <1>26 DEF EndScan
    <2>2. QED
      BY <2>t, <2>1
  <1>27. ASSUME NEW item \in w.scan, NextDue(item) PROVE TakenOutInv'
    <2> SUFFICES ASSUME Calm' PROVE TakenOutInv'
      OBVIOUS
    <2>c. Calm
      BY <1>a, <1>27 DEF NextDue, TypeOK
    <2> SUFFICES ASSUME NEW k \in ProbedKeys \ overlooked', LongRun(k)'
                 PROVE  TakenOut(k)'
      OBVIOUS
    <2>o. k \in ProbedKeys \ overlooked
      BY <1>27 DEF NextDue
    <2>l. LongRun(k)
      BY <1>27 DEF NextDue, LongRun, CountConsecutive
    <2>t. TakenOut(k)
      BY <1>a, <2>c, <2>o, <2>l
    <2>k. k \in Keys
      BY ProbeAssumption
    <2>1. /\ UNCHANGED <<key, offline>>
          /\ w.pc \in {"idle", "refresh", "start", "event", "scan", "done"}
      BY <1>27 DEF NextDue
    <2>2. QED
      BY <2>t, <2>1
  <1>28. CASE (\E batch \in Batches : ProcessUsageEvents(batch)) \/
            UpdateConfigApply \/ Tick
    <2>1. UNCHANGED <<key, w, offline, results, edits, faults, event, overlooked>>
      BY <1>28 DEF ProcessUsageEvents, UpdateConfigApply, Tick
    <2>2. QED
      BY <1>a, <2>1 DEF LongRun, CountConsecutive, Failed
  <1>29. CASE UNCHANGED vars
    BY <1>a, <1>29 DEF vars, LongRun, CountConsecutive, Failed
  <1>30. QED
    BY <1>1, <1>2, <1>3, <1>4, <1>5, <1>6, <1>7, <1>8, <1>9, <1>10, <1>11,
       <1>12, <1>13, <1>14, <1>15, <1>16, <1>17, <1>18, <1>19, <1>20, <1>21,
       <1>22, <1>23, <1>24, <1>25, <1>26, <1>27, <1>28, <1>29
       DEF Next, Worker, Edit

-----------------------------------------------------------------------------
LEMMA FailInit ==
    ASSUME Init
    PROVE  FailInv
  <1> USE DEF Init
  <1>1. IndInv
    BY InitInv
  <1>2. ScanInv
    BY DEF ScanInv, Idle
  <1>3. MatchInv /\ NextInv
    BY DEF MatchInv, NextInv, Idle
  <1>4. ExpiredInv
    <2>1. \A k \in Keys \ overlooked : key[k].status # -3
      OBVIOUS
    <2>2. QED
      BY <2>1 DEF ExpiredInv, Idle
  <1>5. LoggedInv
    BY DEF LoggedInv
  <1>6. TakenOutInv
    <2>1. \A k : LeadingRun(<<>>, event, k, TRUE) = {}
      BY DEF LeadingRun, ResultsOf
    <2>2. \A k : CountConsecutive(k, TRUE) = 0
      BY <2>1, FS_EmptySet DEF CountConsecutive
    <2>3. FailureThreshold \in Nat \ {0}
      BY ProbeAssumption
    <2>4. ASSUME NEW k PROVE ~ LongRun(k)
      <3> DEFINE n == CountConsecutive(k, TRUE)
      <3>1. n = 0
        BY <2>2
      <3> HIDE DEF n
      <3>2. ~ (n >= FailureThreshold)
        BY <2>3, <3>1
      <3>3. QED
        BY <3>2 DEF LongRun, n
    <2>5. QED
      BY <2>4 DEF TakenOutInv
  <1>7. QED
    BY <1>1, <1>2, <1>3, <1>4, <1>5, <1>6 DEF FailInv

LEMMA FailStep ==
    ASSUME FailInv, [Next]_vars
    PROVE  FailInv'
  <1>1. IndInv'
    BY StepInv DEF FailInv
  <1>2. QED
    BY <1>1, ScanStep, MatchStep, ExpiredStep, NextStep, LoggedStep, TakenOutStep
       DEF FailInv

(* At rest, with no call failed and nothing edited: a key whose newest       *)
(* results are a run of failures of the threshold has no usable status and   *)
(* its account is offline, in whatever order the results arrived and however *)
(* long the batches are, unless the limit of a batch kept the key's last     *)
(* failure from the policies.                                                *)
THEOREM FailingTakenOut == Spec => []FailingKeyTakenOut
  <1>1. Init => FailInv
    BY FailInit
  <1>2. FailInv /\ [Next]_vars => FailInv'
    BY FailStep
  <1>3. ASSUME FailInv PROVE FailingKeyTakenOut
    <2>1. TakenOutInv
      BY <1>3 DEF FailInv
    <2>2. QED
      BY <2>1 DEF TakenOutInv, FailingKeyTakenOut, Settled, Calm, LongRun, TakenOut,
                  StatusPending, AccountPending, Expiring
  <1>4. QED
    BY <1>1, <1>2, <1>3, PTL DEF Spec

=============================================================================
