------------------------ MODULE UsageCollectorProofs ------------------------
(* No usage record vanishes between the request that made it and its row,    *)
(* and a subscribed collector never polls: an inductive invariant of         *)
(* UsageCollector and what follows from it.                                  *)
EXTENDS UsageCollector, TLAPS, SequenceTheorems, FiniteSetTheorems

-----------------------------------------------------------------------------
(* Lemmas about the operators of the queue.                                 *)

(* The payloads in a queue or a channel after a send and after a receive. *)
LEMMA RangeOfAppend ==
    ASSUME NEW S, NEW q \in Seq(S), NEW e \in S
    PROVE  /\ Range(Append(q, e)) = Range(q) \cup {e}
           /\ Append(q, e) \in Seq(S) /\ Append(q, e) # <<>>
           /\ Len(Append(q, e)) = Len(q) + 1
  <1>1. /\ Len(q) \in Nat /\ DOMAIN q = 1..Len(q)
        /\ Append(q, e) \in Seq(S) /\ Append(q, e) # <<>>
        /\ Len(Append(q, e)) = Len(q) + 1
        /\ DOMAIN Append(q, e) = 1..(Len(q) + 1)
        /\ \A i \in 1..Len(q) : Append(q, e)[i] = q[i]
        /\ Append(q, e)[Len(q) + 1] = e
    OBVIOUS
  <1>2. \A i \in 1..(Len(q) + 1) : i \in 1..Len(q) \/ i = Len(q) + 1
    BY <1>1
  <1>3. 1..Len(q) \subseteq 1..(Len(q) + 1) /\ Len(q) + 1 \in 1..(Len(q) + 1)
    BY <1>1
  <1>4. QED
    BY <1>1, <1>2, <1>3 DEF Range

LEMMA RangeOfTail ==
    ASSUME NEW S, NEW q \in Seq(S), q # <<>>
    PROVE  /\ Range(q) = {Head(q)} \cup Range(Tail(q))
           /\ Head(q) \in S /\ Tail(q) \in Seq(S)
           /\ Len(Tail(q)) = Len(q) - 1 /\ Len(q) \in Nat /\ Len(q) > 0
           /\ Len(q) = 1 <=> Tail(q) = <<>>
  <1>1. /\ Len(q) \in Nat /\ DOMAIN q = 1..Len(q) /\ Len(q) > 0
        /\ Head(q) = q[1] /\ Head(q) \in S /\ Tail(q) \in Seq(S)
        /\ Len(Tail(q)) = Len(q) - 1
        /\ DOMAIN Tail(q) = 1..(Len(q) - 1)
        /\ \A i \in 1..(Len(q) - 1) : Tail(q)[i] = q[i + 1]
    OBVIOUS
  <1>2. \A i \in 1..Len(q) : i = 1 \/ (i - 1 \in 1..(Len(q) - 1) /\ (i - 1) + 1 = i)
    BY <1>1
  <1>3. 1 \in 1..Len(q) /\ \A i \in 1..(Len(q) - 1) : i + 1 \in 1..Len(q)
    BY <1>1
  <1>4. Range(q) \subseteq {Head(q)} \cup Range(Tail(q))
    <2>1. ASSUME NEW i \in 1..Len(q) PROVE q[i] \in {Head(q)} \cup Range(Tail(q))
      <3>1. CASE i = 1
        BY <1>1, <3>1
      <3>2. CASE i # 1
        <4>1. i - 1 \in 1..(Len(q) - 1) /\ Tail(q)[i - 1] = q[i]
          BY <1>1, <1>2, <3>2
        <4>2. QED
          BY <1>1, <4>1 DEF Range
      <3>3. QED
        BY <3>1, <3>2
    <2>2. QED
      BY <1>1, <2>1 DEF Range
  <1>5. {Head(q)} \cup Range(Tail(q)) \subseteq Range(q)
    BY <1>1, <1>3 DEF Range
  <1>6. Len(q) = 1 <=> Tail(q) = <<>>
    <2>1. Tail(q) # <<>> => Len(Tail(q)) \in Nat \ {0}
      BY <1>1, EmptySeq
    <2>2. Len(<<>>) = 0
      OBVIOUS
    <2>3. QED
      BY <1>1, <2>1, <2>2
  <1>7. QED
    BY <1>1, <1>4, <1>5, <1>6

LEMMA RangeOfEmpty == Range(<<>>) = {}
  BY DEF Range

LEMMA RangeType ==
    ASSUME NEW S, NEW q \in Seq(S)
    PROVE  Range(q) \subseteq S
  BY DEF Range

(* The queue after pruning is a queue. *)
LEMMA FreshType ==
    ASSUME TypeOK
    PROVE  Fresh(items) \in Seq([rec : Records, at : 0..MaxEvents])
  <1>1. items \in Seq([rec : Records, at : 0..MaxEvents]) /\ Len(items) \in Nat
    BY DEF TypeOK, QueueTypeOK
  <1>2. IsFiniteSet(1..Len(items)) /\ DOMAIN items = 1..Len(items)
    BY <1>1, FS_Interval
  <1>3. IsFiniteSet(Expired(items))
    BY <1>2, FS_Subset DEF Expired
  <1>4. Cardinality(Expired(items)) \in Nat
    BY <1>3, FS_CardinalityType
  <1> DEFINE k == Cardinality(Expired(items)) + 1
  <1>5. k \in Nat \ {0} /\ Fresh(items) = SubSeq(items, k, Len(items))
    BY <1>4 DEF Fresh
  <1> HIDE DEF k
  <1> DEFINE T == [rec : Records, at : 0..MaxEvents]
  <1>t. items \in Seq(T) /\ Len(items) \in Nat
    BY <1>1
  <1> HIDE DEF T
  <1>6. \A i \in k..Len(items) : items[i] \in T
    <2>1. \A i \in k..Len(items) : i \in 1..Len(items)
      BY <1>t, <1>5
    <2>2. QED
      BY <1>t, <2>1, ElementOfSeq
  <1>7. Fresh(items) \in Seq(T)
    BY <1>t, <1>5, <1>6, SubSeqProperties
  <1>8. QED
    BY <1>7 DEF T

(* What is popped and what stays is what pruning left. *)
LEMMA PoppedAndRest ==
    ASSUME TypeOK, enabled, NEW n \in Nat \ {0}
    PROVE  /\ Popped(n) \in Seq(Records)
           /\ AfterPop(n) \in Seq([rec : Records, at : 0..MaxEvents])
           /\ Recs(Fresh(items)) \subseteq Range(Popped(n)) \cup Recs(AfterPop(n))
  <1> DEFINE T == [rec : Records, at : 0..MaxEvents]
             f == Fresh(items)
             k == IF n < Len(f) THEN n ELSE Len(f)
  <1>0. f \in Seq(T)
    BY FreshType
  <1> HIDE DEF f
  <1>1. f \in Seq(T) /\ Len(f) \in Nat /\ DOMAIN f = 1..Len(f)
        /\ \A i \in 1..Len(f) : f[i] \in T
    <2> HIDE DEF T
    <2>1. QED
      BY <1>0, ElementOfSeq
  <1>2. k \in 0..Len(f)
    BY <1>1
  <1>3. Popped(n) = [i \in 1..k |-> f[i].rec]
    BY DEF Popped, f
  <1> HIDE DEF k
  <1>4. \A i \in 1..k : f[i].rec \in Records
    BY <1>1, <1>2
  <1>5. Popped(n) \in Seq(Records) /\ Len(Popped(n)) = k
    BY <1>2, <1>3, <1>4
  <1>6. AfterPop(n) = SubSeq(f, k + 1, Len(f))
    BY <1>5 DEF AfterPop, f
  <1>7. /\ AfterPop(n) \in Seq(T)
        /\ Len(AfterPop(n)) = Len(f) - k
        /\ \A i \in 1..(Len(f) - k) : AfterPop(n)[i] = f[k + i]
    <2> HIDE DEF T
    <2>1. k + 1 \in Int /\ Len(f) \in Int
      BY <1>1, <1>2
    <2>2. \A i \in (k + 1)..Len(f) : f[i] \in T
      BY <1>1, <1>2
    <2> DEFINE m == k + 1
               n2 == Len(f)
    <2>3. /\ m \in Int /\ n2 \in Int
          /\ \A i \in m..n2 : f[i] \in T
      BY <2>1, <2>2
    <2> HIDE DEF m, n2
    <2>4. /\ SubSeq(f, m, n2) \in Seq(T)
          /\ Len(SubSeq(f, m, n2)) = IF m <= n2 THEN n2 - m + 1 ELSE 0
          /\ \A i \in 1..(n2 - m + 1) : SubSeq(f, m, n2)[i] = f[m + i - 1]
      BY <2>3, SubSeqProperties
    <2>5. AfterPop(n) = SubSeq(f, m, n2)
      BY <1>6 DEF m, n2
    <2>6. /\ n2 - m + 1 = Len(f) - k /\ (m <= n2 \/ Len(f) = k)
          /\ \A i \in 1..(Len(f) - k) : m + i - 1 = k + i
      <3>1. n2 \in Nat /\ k \in Nat /\ k <= n2 /\ Len(f) = n2 /\ m = k + 1
        BY <1>1, <1>2 DEF m, n2
      <3>2. QED
        BY <3>1
    <2>7. QED
      BY <2>4, <2>5, <2>6
  <1>8. ASSUME NEW i \in 1..Len(f)
        PROVE  f[i].rec \in Range(Popped(n)) \cup Recs(AfterPop(n))
    <2>1. CASE i <= k
      <3>1. i \in 1..k /\ DOMAIN Popped(n) = 1..k /\ Popped(n)[i] = f[i].rec
        BY <1>2, <1>3, <2>1
      <3>2. QED
        BY <3>1 DEF Range
    <2>2. CASE ~(i <= k)
      <3>1. i - k \in 1..(Len(f) - k) /\ k + (i - k) = i
        BY <1>1, <1>2, <2>2
      <3>2. AfterPop(n)[i - k] = f[i] /\ i - k \in DOMAIN AfterPop(n)
        BY <1>7, <3>1
      <3>3. QED
        BY <3>2 DEF Recs
    <2>3. QED
      BY <2>1, <2>2
  <1>9. QED
    BY <1>1, <1>5, <1>7, <1>8 DEF Recs, f

(* An item that is appended is in the queue with those that pruning left. *)
LEMMA EnqueuedHas ==
    ASSUME TypeOK, NEW r \in Records
    PROVE  /\ Enqueued(r) \in Seq([rec : Records, at : 0..MaxEvents])
           /\ Recs(Fresh(items)) \cup {r} \subseteq Recs(Enqueued(r))
  <1> DEFINE T == [rec : Records, at : 0..MaxEvents]
             f == Fresh(items)
             e == [rec |-> r, at |-> now]
  <1>1. f \in Seq(T) /\ Len(f) \in Nat /\ DOMAIN f = 1..Len(f)
    BY FreshType
  <1>2. now \in 0..MaxEvents
    BY QueueAssumption DEF TypeOK, QueueTypeOK
  <1>3. e \in T /\ e.rec = r
    BY <1>2
  <1>4. Enqueued(r) = Append(f, e)
    BY DEF Enqueued
  <1> HIDE DEF f, e
  <1>5. /\ Append(f, e) \in Seq(T)
        /\ DOMAIN Append(f, e) = 1..(Len(f) + 1)
        /\ \A i \in 1..Len(f) : Append(f, e)[i] = f[i]
        /\ Append(f, e)[Len(f) + 1] = e
    BY <1>1, <1>3
  <1>6. 1..Len(f) \subseteq 1..(Len(f) + 1) /\ Len(f) + 1 \in 1..(Len(f) + 1)
    BY <1>1
  <1>7. QED
    BY <1>1, <1>3, <1>4, <1>5, <1>6 DEF Recs, f

(* An offer adds to channels, and adds its payload unless none has room. *)
LEMMA OfferedHas ==
    ASSUME TypeOK, NEW p \in Payloads
    PROVE  /\ Offered(p) \in [Conns -> [open : BOOLEAN, buf : Seq(Payloads)]]
           /\ \A c \in Conns :
                 /\ Range(subs[c].buf) \subseteq Range(Offered(p)[c].buf)
                 /\ Len(Offered(p)[c].buf) <= BufferCap
           /\ Open # {} /\ ~NobodyHasRoom =>
                 \E c \in Conns : p \in Range(Offered(p)[c].buf)
  <1>1. ASSUME NEW c \in Conns
        PROVE  /\ Offered(p)[c] \in [open : BOOLEAN, buf : Seq(Payloads)]
               /\ Range(subs[c].buf) \subseteq Range(Offered(p)[c].buf)
               /\ Len(Offered(p)[c].buf) <= BufferCap
               /\ subs[c].open /\ ~Full(c) => p \in Range(Offered(p)[c].buf)
    <2>1. /\ subs[c] \in [open : BOOLEAN, buf : Seq(Payloads)]
          /\ subs[c].buf \in Seq(Payloads)
          /\ Len(subs[c].buf) \in Nat /\ Len(subs[c].buf) <= BufferCap
      BY DEF TypeOK, QueueTypeOK
    <2>2. CASE ~subs[c].open
      BY <2>1, <2>2 DEF Offered
    <2>3. CASE subs[c].open /\ Full(c)
      <3>1. Offered(p)[c] = [subs[c] EXCEPT !.open = FALSE]
        BY <2>3 DEF Offered
      <3>2. Offered(p)[c].buf = subs[c].buf
        BY <2>1, <3>1
      <3>3. QED
        BY <2>1, <2>3, <3>1, <3>2
    <2>4. CASE subs[c].open /\ ~Full(c)
      <3> DEFINE b == Append(subs[c].buf, p)
      <3>1. Offered(p)[c] = [subs[c] EXCEPT !.buf = b]
        BY <2>4 DEF Offered
      <3>2. /\ b \in Seq(Payloads) /\ Len(b) = Len(subs[c].buf) + 1
            /\ Range(b) = Range(subs[c].buf) \cup {p}
        BY <2>1, RangeOfAppend
      <3>3. Len(b) <= BufferCap
        BY <2>1, <2>4, <3>2, QueueAssumption DEF Full
      <3> HIDE DEF b
      <3>4. Offered(p)[c].buf = b
        BY <2>1, <3>1
      <3>5. QED
        BY <2>1, <3>1, <3>2, <3>3, <3>4
    <2>5. QED
      BY <2>2, <2>3, <2>4
  <1>2. Offered(p) \in [Conns -> [open : BOOLEAN, buf : Seq(Payloads)]]
    <2>1. Offered(p) = [c \in Conns |-> Offered(p)[c]]
      BY DEF Offered
    <2>2. QED
      BY <1>1, <2>1
  <1>3. Open # {} /\ ~NobodyHasRoom => \E c \in Conns : subs[c].open /\ ~Full(c)
    BY DEF Open, NobodyHasRoom
  <1>4. QED
    BY <1>1, <1>2, <1>3

-----------------------------------------------------------------------------
(* What a step does to a run.                                              *)

(* What a step does to the run that takes it: its stage, whether it has     *)
(* subscribed, what it has in hand and where it returns to.                 *)
Edited(c, p, s, h, b) ==
    /\ \A x \in Conns \ {c} : run'[x] = run[x]
    /\ run'[c].pc = p /\ run'[c].subscribed = s
    /\ run'[c].held = h /\ run'[c].back = b
    /\ run' \in [Conns -> Runs]

(* A run whose stage alone changes. *)
LEMMA EditStage ==
    ASSUME CollectorTypeOK, NEW c \in Conns, NEW p \in Stages,
           run' = [run EXCEPT ![c].pc = p]
    PROVE  Edited(c, p, run[c].subscribed, run[c].held, run[c].back)
  <1> DEFINE e == [run[c] EXCEPT !.pc = p]
  <1>1. run \in [Conns -> Runs] /\ run[c] \in Runs
    BY DEF CollectorTypeOK
  <1>2. /\ e \in Runs /\ e.pc = p /\ e.subscribed = run[c].subscribed
        /\ e.held = run[c].held /\ e.back = run[c].back
    BY <1>1 DEF Runs
  <1>3. run' = [run EXCEPT ![c] = e]
    OBVIOUS
  <1> HIDE DEF e
  <1>4. QED
    BY <1>1, <1>2, <1>3 DEF Edited

(* A run whose stage and hand change. *)
LEMMA EditHand ==
    ASSUME CollectorTypeOK, NEW c \in Conns, NEW p \in Stages,
           NEW h \in SUBSET Payloads,
           \/ run' = [run EXCEPT ![c].pc = p, ![c].held = h]
           \/ run' = [run EXCEPT ![c].held = h, ![c].pc = p]
    PROVE  Edited(c, p, run[c].subscribed, h, run[c].back)
  <1> DEFINE e == [run[c] EXCEPT !.pc = p, !.held = h]
  <1>1. run \in [Conns -> Runs] /\ run[c] \in Runs
    BY DEF CollectorTypeOK
  <1>2. /\ e \in Runs /\ e.pc = p /\ e.subscribed = run[c].subscribed
        /\ e.held = h /\ e.back = run[c].back
    BY <1>1 DEF Runs
  <1>3. e = [run[c] EXCEPT !.held = h, !.pc = p]
    BY <1>1 DEF Runs
  <1>4. run' = [run EXCEPT ![c] = e]
    <2>1. CASE run' = [run EXCEPT ![c].pc = p, ![c].held = h]
      BY <1>1, <2>1
    <2>2. CASE run' = [run EXCEPT ![c].held = h, ![c].pc = p]
      BY <1>1, <1>3, <2>2
    <2>3. QED
      BY <2>1, <2>2
  <1> HIDE DEF e
  <1>5. QED
    BY <1>1, <1>2, <1>4 DEF Edited

(* A run that gets an answer. *)
LEMMA EditAnswer ==
    ASSUME CollectorTypeOK, NEW c \in Conns, NEW p \in Stages,
           NEW h \in SUBSET Payloads, NEW b \in Stages,
           \/ run' = [run EXCEPT ![c].pc = p, ![c].held = h, ![c].back = b]
           \/ run' = [run EXCEPT ![c].pc = p, ![c].back = b, ![c].held = h]
    PROVE  Edited(c, p, run[c].subscribed, h, b)
  <1> DEFINE e == [run[c] EXCEPT !.pc = p, !.held = h, !.back = b]
  <1>1. run \in [Conns -> Runs] /\ run[c] \in Runs
    BY DEF CollectorTypeOK
  <1>2. /\ e \in Runs /\ e.pc = p /\ e.subscribed = run[c].subscribed
        /\ e.held = h /\ e.back = b
    BY <1>1 DEF Runs
  <1>3. e = [run[c] EXCEPT !.pc = p, !.back = b, !.held = h]
    BY <1>1 DEF Runs
  <1>4. run' = [run EXCEPT ![c] = e]
    <2>1. CASE run' = [run EXCEPT ![c].pc = p, ![c].held = h, ![c].back = b]
      BY <1>1, <2>1
    <2>2. CASE run' = [run EXCEPT ![c].pc = p, ![c].back = b, ![c].held = h]
      BY <1>1, <1>3, <2>2
    <2>3. QED
      BY <2>1, <2>2
  <1> HIDE DEF e
  <1>5. QED
    BY <1>1, <1>2, <1>4 DEF Edited

(* A run that is subscribed now. *)
LEMMA EditSubscribed ==
    ASSUME CollectorTypeOK, NEW c \in Conns,
           run' = [run EXCEPT ![c].pc = "sub", ![c].subscribed = TRUE]
    PROVE  Edited(c, "sub", TRUE, run[c].held, run[c].back)
  <1> DEFINE e == [run[c] EXCEPT !.pc = "sub", !.subscribed = TRUE]
  <1>1. run \in [Conns -> Runs] /\ run[c] \in Runs
    BY DEF CollectorTypeOK
  <1>2. /\ e \in Runs /\ e.pc = "sub" /\ e.subscribed = TRUE
        /\ e.held = run[c].held /\ e.back = run[c].back
    BY <1>1 DEF Runs, Stages
  <1>3. run' = [run EXCEPT ![c] = e]
    BY <1>1
  <1> HIDE DEF e
  <1>4. QED
    BY <1>1, <1>2, <1>3 DEF Edited

(* A cancelled run ends. *)
LEMMA CancelledEdits ==
    ASSUME TypeOK, NEW c \in Conns, Cancelled(c)
    PROVE  Edited(c, "done", run[c].subscribed, run[c].held, run[c].back)
  <1>1. CollectorTypeOK /\ "done" \in Stages
    BY DEF TypeOK, Stages
  <1>2. run' = [run EXCEPT ![c].pc = "done"]
    BY DEF Cancelled, Goto
  <1>3. QED
    BY <1>1, <1>2, EditStage

(* A run whose attempt to subscribe failed. *)
LEMMA DialFailsEdits ==
    ASSUME TypeOK, NEW c \in Conns, NEW b \in BOOLEAN, DialFails(c, b)
    PROVE  Edited(c, AfterFailedDial(c), run[c].subscribed, run[c].held, run[c].back)
  <1>1. CollectorTypeOK /\ AfterFailedDial(c) \in Stages
    BY DEF TypeOK, Stages, AfterFailedDial
  <1>2. run' = [run EXCEPT ![c].pc = AfterFailedDial(c)]
    BY DEF DialFails, Goto
  <1>3. QED
    BY <1>1, <1>2, EditStage

(* A run that lost its subscription. *)
LEMMA ReadFailsEdits ==
    ASSUME TypeOK, NEW c \in Conns, ReadFails(c)
    PROVE  Edited(c, "dial", run[c].subscribed, run[c].held, run[c].back)
  <1>1. CollectorTypeOK /\ "dial" \in Stages
    BY DEF TypeOK, Stages
  <1>2. run' = [run EXCEPT ![c].pc = "dial"]
    BY DEF ReadFails, Goto
  <1>3. QED
    BY <1>1, <1>2, EditStage

(* A run that turns to RESP. *)
LEMMA UnsupportedEdits ==
    ASSUME TypeOK, NEW c \in Conns, Unsupported(c)
    PROVE  Edited(c, "respdial", run[c].subscribed, run[c].held, run[c].back)
  <1>1. CollectorTypeOK /\ "respdial" \in Stages
    BY DEF TypeOK, Stages
  <1>2. run' = [run EXCEPT ![c].pc = "respdial"]
    BY DEF Unsupported, Goto
  <1>3. QED
    BY <1>1, <1>2, EditStage

(* A run that is connected. *)
LEMMA DialRESPEdits ==
    ASSUME TypeOK, NEW c \in Conns, DialRESP(c)
    PROVE  Edited(c, "resp", run[c].subscribed, run[c].held, run[c].back)
  <1>1. CollectorTypeOK /\ "resp" \in Stages
    BY DEF TypeOK, Stages
  <1>2. run' = [run EXCEPT ![c].pc = "resp"]
    BY DEF DialRESP, Goto
  <1>3. QED
    BY <1>1, <1>2, EditStage

(* A run that stored its events. *)
LEMMA InsertEventsEdits ==
    ASSUME TypeOK, NEW c \in Conns, InsertEvents(c)
    PROVE  Edited(c, "sink", run[c].subscribed, run[c].held, run[c].back)
  <1>1. CollectorTypeOK /\ "sink" \in Stages
    BY DEF TypeOK, Stages
  <1>2. run' = [run EXCEPT ![c].pc = "sink"]
    BY DEF InsertEvents, Goto
  <1>3. QED
    BY <1>1, <1>2, EditStage

(* A run whose request failed. *)
LEMMA PopFailsEdits ==
    ASSUME TypeOK, NEW c \in Conns, NEW b \in BOOLEAN, PopFails(c, b)
    PROVE  /\ run[c].pc \in {"poll", "resp"}
           /\ \E p \in {"poll", "respdial"} : Edited(c, p, run[c].subscribed, run[c].held, run[c].back)
  <1> DEFINE p == IF run[c].pc = "resp" THEN "respdial" ELSE "poll"
  <1>1. CollectorTypeOK /\ p \in Stages /\ p \in {"poll", "respdial"}
    BY DEF TypeOK, Stages
  <1>2. run' = [run EXCEPT ![c].pc = p] /\ run[c].pc \in {"poll", "resp"}
    BY DEF PopFails, Goto
  <1> HIDE DEF p
  <1>3. QED
    BY <1>1, <1>2, EditStage

(* A run that has subscribed. *)
LEMMA SubscribeEdits ==
    ASSUME TypeOK, NEW c \in Conns, Subscribe(c)
    PROVE  Edited(c, "sub", TRUE, run[c].held, run[c].back)
  BY EditSubscribed DEF TypeOK, Subscribe

(* A run that reads a message. *)
LEMMA ReadMessageEdits ==
    ASSUME TypeOK, NEW c \in Conns, ReadMessage(c)
    PROVE  /\ Head(subs[c].buf) \in Payloads
           /\ Edited(c, "process", run[c].subscribed, {Head(subs[c].buf)}, "sub")
  <1>1. /\ CollectorTypeOK /\ "process" \in Stages /\ "sub" \in Stages
        /\ subs[c].buf \in Seq(Payloads)
    BY DEF TypeOK, QueueTypeOK, Stages
  <1>2. Head(subs[c].buf) \in Payloads
    BY <1>1, RangeOfTail DEF ReadMessage
  <1> DEFINE h == {Head(subs[c].buf)}
  <1>3. h \in SUBSET Payloads
    BY <1>2
  <1>4. run' = [run EXCEPT ![c].pc = "process", ![c].held = h, ![c].back = "sub"]
    BY DEF ReadMessage
  <1> HIDE DEF h
  <1>5. Edited(c, "process", run[c].subscribed, h, "sub")
    BY <1>1, <1>3, <1>4, EditAnswer
  <1>6. QED
    BY <1>2, <1>5 DEF h

(* A run whose pop found something. *)
LEMMA PopEdits ==
    ASSUME TypeOK, NEW c \in Conns, Pop(c)
    PROVE  /\ run[c].pc \in {"poll", "resp"}
           /\ IF Popped(BatchSize) = <<>> THEN UNCHANGED run
              ELSE Edited(c, "process", run[c].subscribed, Range(Popped(BatchSize)),
                          run[c].pc)
  <1>1. CollectorTypeOK /\ "process" \in Stages /\ run[c].pc \in Stages
    BY DEF TypeOK, CollectorTypeOK, Runs, Stages
  <1> DEFINE h == Range(Popped(BatchSize))
             b == run[c].pc
  <1>2. h \in SUBSET Payloads
    <2>1. Popped(BatchSize) \in Seq(Records)
      BY PoppedAndRest, CollectorAssumption DEF Pop
    <2>2. QED
      BY <2>1, RangeType DEF Payloads
  <1>3. CASE Popped(BatchSize) = <<>>
    BY <1>3 DEF Pop
  <1>4. CASE Popped(BatchSize) # <<>>
    <2>1. run' = [run EXCEPT ![c].pc = "process", ![c].back = b, ![c].held = h]
      BY <1>4 DEF Pop
    <2>2. b \in Stages
      BY <1>1
    <2> HIDE DEF h, b
    <2>3. Edited(c, "process", run[c].subscribed, h, b)
      BY <1>1, <1>2, <2>1, <2>2, EditAnswer
    <2>4. QED
      BY <1>4, <2>3 DEF h, b, Pop
  <1>5. QED
    BY <1>3, <1>4

(* A run that looked at its payloads. *)
LEMMA NormalizeEdits ==
    ASSUME TypeOK, NEW c \in Conns, NEW saved \in SUBSET Malformed,
           Normalize(c, saved)
    PROVE  Edited(c, IF run[c].held \ Malformed = {} THEN run[c].back ELSE "insert",
                  run[c].subscribed, run[c].held \ Malformed, run[c].back)
  <1> DEFINE h == run[c].held \ Malformed
             p == IF h = {} THEN run[c].back ELSE "insert"
  <1>1. CollectorTypeOK /\ p \in Stages /\ h \in SUBSET Payloads
    BY DEF TypeOK, CollectorTypeOK, Runs, Stages
  <1>2. run' = [run EXCEPT ![c].held = h, ![c].pc = p]
    BY DEF Normalize
  <1> HIDE DEF p, h
  <1>3. Edited(c, p, run[c].subscribed, h, run[c].back)
    BY <1>1, <1>2, EditHand
  <1>4. QED
    BY <1>3 DEF p, h

(* A run whose events could not be stored. *)
LEMMA InsertFailsEdits ==
    ASSUME TypeOK, SubscriberInv, NEW c \in Conns, InsertFails(c)
    PROVE  \E p \in {"dial", "poll", "respdial"} :
              /\ p = "dial" <=> run[c].back = "sub"
              /\ Edited(c, p, run[c].subscribed, {}, run[c].back)
  <1> DEFINE p == CASE run[c].back = "sub"  -> "dial"
                    [] run[c].back = "poll" -> "poll"
                    [] run[c].back = "resp" -> "respdial"
  <1>1. run[c].back \in {"sub", "poll", "resp"}
    BY DEF InsertFails, SubscriberInv
  <1>2. /\ CollectorTypeOK /\ p \in Stages /\ p \in {"dial", "poll", "respdial"}
        /\ p = "dial" <=> run[c].back = "sub"
    BY <1>1 DEF TypeOK, Stages
  <1>3. run' = [run EXCEPT ![c].held = {}, ![c].pc = p]
    BY DEF InsertFails
  <1> HIDE DEF p
  <1>4. Edited(c, p, run[c].subscribed, {}, run[c].back)
    BY <1>2, <1>3, EditHand
  <1>5. QED
    BY <1>2, <1>4

(* A run that is done with its events. *)
LEMMA ProcessUsageEventsEdits ==
    ASSUME TypeOK, NEW c \in Conns, ProcessUsageEvents(c)
    PROVE  Edited(c, run[c].back, run[c].subscribed, {}, run[c].back)
  <1> DEFINE p == run[c].back
  <1>1. CollectorTypeOK /\ p \in Stages
    BY DEF TypeOK, CollectorTypeOK, Runs
  <1>2. run' = [run EXCEPT ![c].pc = p, ![c].held = {}]
    BY DEF ProcessUsageEvents
  <1> HIDE DEF p
  <1>3. Edited(c, p, run[c].subscribed, {}, run[c].back)
    BY <1>1, <1>2, EditHand
  <1>4. QED
    BY <1>3 DEF p

(* A start makes the next run. *)
LEMMA StartEdits ==
    ASSUME TypeOK, NEW mode \in Modes, Start(mode)
    PROVE  /\ started \in Nat /\ started + 1 \in Conns
           /\ FirstStage(mode) \in {"dial", "poll", "respdial"}
           /\ Edited(started + 1, FirstStage(mode), FALSE, {}, "off")
  <1>1. Cardinality(Conns) \in Nat
    BY CollectorAssumption, FS_CardinalityType
  <1>2. started \in Nat /\ started + 1 \in 1..Cardinality(Conns)
    BY <1>1 DEF TypeOK, CollectorTypeOK, Start
  <1>3. started + 1 \in Conns
    BY <1>2, CollectorAssumption
  <1>4. FirstStage(mode) \in {"dial", "poll", "respdial"}
    BY CollectorAssumption DEF FirstStage
  <1> DEFINE p == FirstStage(mode)
             e == [NotStarted EXCEPT !.pc = p, !.mode = mode]
  <1>5. p \in Stages
    BY <1>4 DEF Stages
  <1>6. run' = [run EXCEPT ![started + 1] = e]
    BY DEF Start
  <1> HIDE DEF p
  <1>7. e \in Runs /\ e.pc = p /\ e.subscribed = FALSE /\ e.held = {} /\ e.back = "off"
    BY <1>5 DEF NotStarted, Runs, Stages
  <1>8. run \in [Conns -> Runs]
    BY DEF TypeOK, CollectorTypeOK
  <1> HIDE DEF e
  <1> DEFINE k == started + 1
  <1>9. k \in Conns /\ run' = [run EXCEPT ![k] = e]
    BY <1>3, <1>6
  <1> HIDE DEF k
  <1>10. Edited(k, p, FALSE, {}, "off")
    BY <1>7, <1>8, <1>9 DEF Edited
  <1>11. QED
    BY <1>2, <1>3, <1>4, <1>10 DEF p, k

(* The types of the proxy's state, in the parts in which they are kept.     *)
ClockType == now \in 0..events /\ events \in 0..MaxEvents
FlagsType == closed \in BOOLEAN /\ enabled \in BOOLEAN /\ homeMode \in BOOLEAN
SetsType  == published \subseteq Records /\ home \subseteq Records /\ lost \subseteq Records
MqueueType == mqueue \in Seq(Records)
DispType  ==
    disp \in [pc : {"wait", "offer", "append"}, rec : Records \cup {NoRecord}]
FwdType ==
    fwd \in [pc : {"idle", "push", "requeue", "append"}, items : Seq(Records)]
ItemsType == items \in Seq([rec : Records, at : 0..MaxEvents])
SubsType ==
    /\ subs \in [Conns -> [open : BOOLEAN, buf : Seq(Payloads)]]
    /\ \A c \in Conns : Len(subs[c].buf) <= BufferCap

LEMMA QueueTypeParts ==
    QueueTypeOK <=> /\ ClockType /\ FlagsType /\ SetsType /\ MqueueType
                    /\ DispType /\ FwdType /\ ItemsType /\ SubsType
  BY DEF QueueTypeOK, ClockType, FlagsType, SetsType, MqueueType, DispType,
         FwdType, ItemsType, SubsType

(* The records of a queue are records. *)
LEMMA RecsType ==
    ASSUME NEW q \in Seq([rec : Records, at : 0..MaxEvents])
    PROVE  Recs(q) \subseteq Records
  <1> DEFINE T == [rec : Records, at : 0..MaxEvents]
  <1>1. \A i \in DOMAIN q : q[i] \in T
    <2>1. q \in Seq(T)
      OBVIOUS
    <2> HIDE DEF T
    <2>2. QED
      BY <2>1
  <1>2. \A i \in DOMAIN q : q[i].rec \in Records
    BY <1>1
  <1>3. QED
    BY <1>2 DEF Recs

LEMMA PrunedType ==
    ASSUME TypeOK
    PROVE  Pruned \subseteq Records /\ Recs(items) \subseteq Records
  BY RecsType DEF Pruned, TypeOK, QueueTypeOK

(* What the forwarder has in hand while it works. *)
LEMMA ForwarderHolds ==
    ASSUME TypeOK, HandsInv, fwd.pc # "idle"
    PROVE  /\ fwd.items \in Seq(Records) /\ fwd.items # <<>>
           /\ Head(fwd.items) \in Records /\ Tail(fwd.items) \in Seq(Records)
           /\ Range(fwd.items) = {Head(fwd.items)} \cup Range(Tail(fwd.items))
           /\ Len(fwd.items) = 1 <=> Tail(fwd.items) = <<>>
  <1>1. fwd.items \in Seq(Records) /\ fwd.items # <<>>
    BY DEF TypeOK, QueueTypeOK, HandsInv
  <1>2. QED
    BY <1>1, RangeOfTail

-----------------------------------------------------------------------------
(* The parts of the inductive invariant, one by one.                        *)

(* Every step keeps what the dispatcher and the forwarder have in hand. *)
LEMMA HandsStep ==
    ASSUME IndInv, [Next]_vars
    PROVE  HandsInv'
  <1> USE DEF HandsInv, QueueTypeOK, proxyVars, mgrVars, queueVars, fwdVars,
              envVars, runVars, dbVars
  <1>a. QueueTypeOK /\ HandsInv
    BY DEF IndInv, TypeOK
  <1>1. CASE Proxy(Take)
    <2>1. Head(mqueue) \in Records /\ NoRecord \notin Records
      BY <1>a, <1>1, RangeOfTail, QueueAssumption DEF Proxy, Take
    <2>2. QED
      BY <1>a, <1>1, <2>1 DEF Proxy, Take, Waiting
  <1>2. CASE Proxy(Offer)
    <2>1. disp.rec # NoRecord /\ UNCHANGED fwd
      BY <1>a, <1>2 DEF Proxy, Offer
    <2>2. disp'.pc = "wait" <=> disp'.rec = NoRecord
      BY <1>a, <1>2, <2>1 DEF Proxy, Offer, Waiting
    <2>3. QED
      BY <1>a, <2>1, <2>2
  <1>3. CASE Proxy(AppendItem)
    BY <1>a, <1>3 DEF AppendItem, Waiting, Proxy
  <1>4. CASE Proxy(FwdPop)
    BY <1>a, <1>4 DEF FwdPop, Proxy
  <1>5. CASE Proxy(FwdPush)
    <2>1. fwd.items \in Seq(Records) /\ fwd.items # <<>> /\ UNCHANGED disp
      BY <1>a, <1>5 DEF Proxy, FwdPush
    <2>2. Len(fwd.items) = 1 <=> Tail(fwd.items) = <<>>
      BY <2>1, RangeOfTail
    <2>3. fwd'.pc = "idle" <=> fwd'.items = <<>>
      BY <1>a, <1>5, <2>1, <2>2 DEF Proxy, FwdPush, FwdRest
    <2>4. QED
      BY <1>a, <2>1, <2>3
  <1>6. CASE Proxy(FwdRequeue)
    <2>1. fwd.items \in Seq(Records) /\ fwd.items # <<>> /\ UNCHANGED disp
      BY <1>a, <1>6 DEF Proxy, FwdRequeue
    <2>2. Len(fwd.items) = 1 <=> Tail(fwd.items) = <<>>
      BY <2>1, RangeOfTail
    <2>3. fwd'.pc = "idle" <=> fwd'.items = <<>>
      BY <1>a, <1>6, <2>1, <2>2 DEF Proxy, FwdRequeue, FwdRest
    <2>4. QED
      BY <1>a, <2>1, <2>3
  <1>7. CASE Proxy(FwdAppend)
    <2>1. fwd.items \in Seq(Records) /\ fwd.items # <<>> /\ UNCHANGED disp
      BY <1>a, <1>7 DEF Proxy, FwdAppend
    <2>2. Len(fwd.items) = 1 <=> Tail(fwd.items) = <<>>
      BY <2>1, RangeOfTail
    <2>3. fwd'.pc = "idle" <=> fwd'.items = <<>>
      BY <1>a, <1>7, <2>1, <2>2 DEF Proxy, FwdAppend, FwdRest
    <2>4. QED
      BY <1>a, <2>1, <2>3
  <1>8. ASSUME NEW received \in BOOLEAN, Proxy(FwdPushFails(received)) PROVE
        HandsInv'
    BY <1>a, <1>8 DEF FwdPushFails, Event, Proxy
  <1>9. CASE (\E rr \in Records : Proxy(Publish(rr))) \/ Proxy(StopManager) \/
            Proxy(SetEnabled) \/ Proxy(NotifyUsageRefresh) \/ Proxy(Tick) \/
            (\E mode \in Modes : Start(mode)) \/ Stop \/ (\E c \in Conns :
            Cancelled(c)) \/ (\E c \in Conns : Subscribe(c)) \/ (\E c \in
            Conns, b \in BOOLEAN : DialFails(c, b)) \/ (\E c \in Conns :
            ReadMessage(c)) \/ (\E c \in Conns : ReadFails(c)) \/ (\E c \in
            Conns : ServerNotices(c)) \/ (\E c \in Conns : Pop(c)) \/ (\E c \in
            Conns, b \in BOOLEAN : PopFails(c, b)) \/ (\E c \in Conns :
            Unsupported(c)) \/ (\E c \in Conns : DialRESP(c)) \/ (\E c \in
            Conns, saved \in SUBSET Malformed : Normalize(c, saved)) \/ (\E c
            \in Conns : InsertEvents(c)) \/ (\E c \in Conns : InsertFails(c))
            \/ (\E c \in Conns : ProcessUsageEvents(c))
    <2>1. UNCHANGED <<disp, fwd>>
      BY <1>9 DEF Publish, StopManager, SetEnabled, NotifyUsageRefresh, Tick,
             Start, Stop, Cancelled, Subscribe, DialFails, ReadMessage,
             ReadFails, ServerNotices, Pop, PopFails, Unsupported, DialRESP,
             Normalize, InsertEvents, InsertFails, ProcessUsageEvents, Proxy,
             Event, Cancel, FirstStage, NotStarted, Goto, NoSub,
             AfterFailedDial, Bad
    <2>2. QED
      BY <1>a, <2>1
  <1>10. CASE UNCHANGED vars
    BY <1>a, <1>10 DEF vars
  <1>11. QED
    BY <1>1, <1>2, <1>3, <1>4, <1>5, <1>6, <1>7, <1>8, <1>9, <1>10
       DEF Next, Running

(* Every step keeps what a run has in hand. *)
LEMMA RunStep ==
    ASSUME IndInv, [Next]_vars
    PROVE  RunInv'
  <1> USE DEF RunInv, CollectorTypeOK, SubscriberInv, proxyVars, mgrVars,
              queueVars, fwdVars, envVars, runVars, dbVars
  <1>a. TypeOK /\ CollectorTypeOK /\ RunInv /\ SubscriberInv
    BY DEF IndInv, TypeOK
  <1>1. ASSUME NEW mode \in Modes, Start(mode) PROVE RunInv'
    <2>1. /\ \A x \in Conns \ {started + 1} : run'[x] = run[x]
          /\ run'[started + 1].held = {} /\ run'[started + 1].pc # "sink"
          /\ started \in Nat /\ started + 1 \in Conns
      BY <1>a, <1>1, StartEdits DEF Edited
    <2>2. started' = started + 1 /\ UNCHANGED rows
      BY <1>1 DEF Start
    <2> DEFINE n == Cardinality(Conns)
    <2>n. n \in Nat /\ Conns = 1..n
      BY CollectorAssumption, FS_CardinalityType
    <2> HIDE DEF n
    <2>3. \A x \in Conns : x \in Nat
      BY <2>n
    <2>4. ASSUME NEW x \in Conns, x # started + 1
          PROVE  /\ x > started + 1 => run'[x] = NotStarted
                 /\ run'[x].held # {} => run'[x].pc \in {"process", "insert", "sink"}
                 /\ run'[x].pc = "sink" => run'[x].held \subseteq rows
      BY <1>a, <2>1, <2>3, <2>4
    <2>5. QED
      BY <2>1, <2>2, <2>4
  <1>2. ASSUME NEW c \in Conns, Cancelled(c) PROVE RunInv'
    <2>1. \A x \in Conns \ {c} : run'[x] = run[x]
      BY <1>a, <1>2, CancelledEdits DEF Edited
    <2>2. UNCHANGED started /\ rows \subseteq rows' /\ run[c] # NotStarted
      BY <1>2 DEF Cancelled, NotStarted
    <2>3. /\ run'[c].held # {} => run'[c].pc \in {"process", "insert", "sink"}
          /\ run'[c].pc = "sink" => run'[c].held \subseteq rows'
      BY <1>a, <1>2, CancelledEdits DEF Edited, Cancelled
    <2>4. QED
      BY <1>a, <2>1, <2>2, <2>3
  <1>3. ASSUME NEW c \in Conns, Subscribe(c) PROVE RunInv'
    <2>1. \A x \in Conns \ {c} : run'[x] = run[x]
      BY <1>a, <1>3, SubscribeEdits DEF Edited
    <2>2. UNCHANGED started /\ rows \subseteq rows' /\ run[c] # NotStarted
      BY <1>3 DEF Subscribe, NotStarted
    <2>3. /\ run'[c].held # {} => run'[c].pc \in {"process", "insert", "sink"}
          /\ run'[c].pc = "sink" => run'[c].held \subseteq rows'
      BY <1>a, <1>3, SubscribeEdits DEF Edited, Subscribe
    <2>4. QED
      BY <1>a, <2>1, <2>2, <2>3
  <1>4. ASSUME NEW c \in Conns, NEW b \in BOOLEAN, DialFails(c, b) PROVE
        RunInv'
    <2>1. \A x \in Conns \ {c} : run'[x] = run[x]
      BY <1>a, <1>4, DialFailsEdits DEF Edited
    <2>2. UNCHANGED started /\ rows \subseteq rows' /\ run[c] # NotStarted
      BY <1>4 DEF DialFails, NotStarted
    <2>3. /\ run'[c].held # {} => run'[c].pc \in {"process", "insert", "sink"}
          /\ run'[c].pc = "sink" => run'[c].held \subseteq rows'
      BY <1>a, <1>4, DialFailsEdits DEF Edited, DialFails
    <2>4. QED
      BY <1>a, <2>1, <2>2, <2>3
  <1>5. ASSUME NEW c \in Conns, ReadMessage(c) PROVE RunInv'
    <2>1. \A x \in Conns \ {c} : run'[x] = run[x]
      BY <1>a, <1>5, ReadMessageEdits DEF Edited
    <2>2. UNCHANGED started /\ rows \subseteq rows' /\ run[c] # NotStarted
      BY <1>5 DEF ReadMessage, NotStarted
    <2>3. /\ run'[c].held # {} => run'[c].pc \in {"process", "insert", "sink"}
          /\ run'[c].pc = "sink" => run'[c].held \subseteq rows'
      BY <1>a, <1>5, ReadMessageEdits DEF Edited, ReadMessage
    <2>4. QED
      BY <1>a, <2>1, <2>2, <2>3
  <1>6. ASSUME NEW c \in Conns, ReadFails(c) PROVE RunInv'
    <2>1. \A x \in Conns \ {c} : run'[x] = run[x]
      BY <1>a, <1>6, ReadFailsEdits DEF Edited
    <2>2. UNCHANGED started /\ rows \subseteq rows' /\ run[c] # NotStarted
      BY <1>6 DEF ReadFails, NotStarted
    <2>3. /\ run'[c].held # {} => run'[c].pc \in {"process", "insert", "sink"}
          /\ run'[c].pc = "sink" => run'[c].held \subseteq rows'
      BY <1>a, <1>6, ReadFailsEdits DEF Edited, ReadFails
    <2>4. QED
      BY <1>a, <2>1, <2>2, <2>3
  <1>7. ASSUME NEW c \in Conns, Pop(c) PROVE RunInv'
    <2>1. \A x \in Conns \ {c} : run'[x] = run[x]
      BY <1>a, <1>7, PopEdits DEF Edited, Pop
    <2>2. UNCHANGED started /\ rows \subseteq rows' /\ run[c] # NotStarted
      BY <1>7 DEF Pop, NotStarted
    <2>3. /\ run'[c].held # {} => run'[c].pc \in {"process", "insert", "sink"}
          /\ run'[c].pc = "sink" => run'[c].held \subseteq rows'
      BY <1>a, <1>7, PopEdits DEF Edited, Pop
    <2>4. QED
      BY <1>a, <2>1, <2>2, <2>3
  <1>8. ASSUME NEW c \in Conns, NEW b \in BOOLEAN, PopFails(c, b) PROVE RunInv'
    <2>1. \A x \in Conns \ {c} : run'[x] = run[x]
      BY <1>a, <1>8, PopFailsEdits DEF Edited
    <2>2. UNCHANGED started /\ rows \subseteq rows' /\ run[c] # NotStarted
      BY <1>8 DEF PopFails, NotStarted
    <2>3. /\ run'[c].held # {} => run'[c].pc \in {"process", "insert", "sink"}
          /\ run'[c].pc = "sink" => run'[c].held \subseteq rows'
      BY <1>a, <1>8, PopFailsEdits DEF Edited, PopFails
    <2>4. QED
      BY <1>a, <2>1, <2>2, <2>3
  <1>9. ASSUME NEW c \in Conns, Unsupported(c) PROVE RunInv'
    <2>1. \A x \in Conns \ {c} : run'[x] = run[x]
      BY <1>a, <1>9, UnsupportedEdits DEF Edited
    <2>2. UNCHANGED started /\ rows \subseteq rows' /\ run[c] # NotStarted
      BY <1>9 DEF Unsupported, NotStarted
    <2>3. /\ run'[c].held # {} => run'[c].pc \in {"process", "insert", "sink"}
          /\ run'[c].pc = "sink" => run'[c].held \subseteq rows'
      BY <1>a, <1>9, UnsupportedEdits DEF Edited, Unsupported
    <2>4. QED
      BY <1>a, <2>1, <2>2, <2>3
  <1>10. ASSUME NEW c \in Conns, DialRESP(c) PROVE RunInv'
    <2>1. \A x \in Conns \ {c} : run'[x] = run[x]
      BY <1>a, <1>10, DialRESPEdits DEF Edited
    <2>2. UNCHANGED started /\ rows \subseteq rows' /\ run[c] # NotStarted
      BY <1>10 DEF DialRESP, NotStarted
    <2>3. /\ run'[c].held # {} => run'[c].pc \in {"process", "insert", "sink"}
          /\ run'[c].pc = "sink" => run'[c].held \subseteq rows'
      BY <1>a, <1>10, DialRESPEdits DEF Edited, DialRESP
    <2>4. QED
      BY <1>a, <2>1, <2>2, <2>3
  <1>11. ASSUME NEW c \in Conns, NEW saved \in SUBSET Malformed, Normalize(c,
        saved) PROVE RunInv'
    <2>1. \A x \in Conns \ {c} : run'[x] = run[x]
      BY <1>a, <1>11, NormalizeEdits DEF Edited
    <2>2. UNCHANGED started /\ rows \subseteq rows' /\ run[c] # NotStarted
      BY <1>11 DEF Normalize, NotStarted
    <2>3. /\ run'[c].held # {} => run'[c].pc \in {"process", "insert", "sink"}
          /\ run'[c].pc = "sink" => run'[c].held \subseteq rows'
      <3>1. run[c].back \in {"sub", "poll", "resp"}
        BY <1>a, <1>11 DEF Normalize
      <3>2. /\ run'[c].held = run[c].held \ Malformed
            /\ run'[c].pc = IF run[c].held \ Malformed = {} THEN run[c].back
                           ELSE "insert"
        BY <1>a, <1>11, NormalizeEdits DEF Edited
      <3>3. QED
        BY <3>1, <3>2
    <2>4. QED
      BY <1>a, <2>1, <2>2, <2>3
  <1>12. ASSUME NEW c \in Conns, InsertEvents(c) PROVE RunInv'
    <2>1. \A x \in Conns \ {c} : run'[x] = run[x]
      BY <1>a, <1>12, InsertEventsEdits DEF Edited
    <2>2. UNCHANGED started /\ rows \subseteq rows' /\ run[c] # NotStarted
      BY <1>12 DEF InsertEvents, NotStarted
    <2>3. /\ run'[c].held # {} => run'[c].pc \in {"process", "insert", "sink"}
          /\ run'[c].pc = "sink" => run'[c].held \subseteq rows'
      BY <1>a, <1>12, InsertEventsEdits DEF Edited, InsertEvents
    <2>4. QED
      BY <1>a, <2>1, <2>2, <2>3
  <1>13. ASSUME NEW c \in Conns, InsertFails(c) PROVE RunInv'
    <2>1. \A x \in Conns \ {c} : run'[x] = run[x]
      BY <1>a, <1>13, InsertFailsEdits DEF Edited
    <2>2. UNCHANGED started /\ rows \subseteq rows' /\ run[c] # NotStarted
      BY <1>13 DEF InsertFails, NotStarted
    <2>3. /\ run'[c].held # {} => run'[c].pc \in {"process", "insert", "sink"}
          /\ run'[c].pc = "sink" => run'[c].held \subseteq rows'
      BY <1>a, <1>13, InsertFailsEdits DEF Edited, InsertFails
    <2>4. QED
      BY <1>a, <2>1, <2>2, <2>3
  <1>14. ASSUME NEW c \in Conns, ProcessUsageEvents(c) PROVE RunInv'
    <2>1. \A x \in Conns \ {c} : run'[x] = run[x]
      BY <1>a, <1>14, ProcessUsageEventsEdits DEF Edited
    <2>2. UNCHANGED started /\ rows \subseteq rows' /\ run[c] # NotStarted
      BY <1>14 DEF ProcessUsageEvents, NotStarted
    <2>3. /\ run'[c].held # {} => run'[c].pc \in {"process", "insert", "sink"}
          /\ run'[c].pc = "sink" => run'[c].held \subseteq rows'
      BY <1>a, <1>14, ProcessUsageEventsEdits DEF Edited, ProcessUsageEvents
    <2>4. QED
      BY <1>a, <2>1, <2>2, <2>3
  <1>15. CASE (\E rr \in Records : Proxy(Publish(rr))) \/ Proxy(StopManager) \/
            Proxy(Take) \/ Proxy(Offer) \/ Proxy(AppendItem) \/
            Proxy(SetEnabled) \/ Proxy(NotifyUsageRefresh) \/ Proxy(Tick) \/
            Proxy(FwdPop) \/ Proxy(FwdPush) \/ Proxy(FwdRequeue) \/
            Proxy(FwdAppend) \/ (\E received \in BOOLEAN :
            Proxy(FwdPushFails(received))) \/ Stop \/ (\E c \in Conns :
            ServerNotices(c))
    <2>1. UNCHANGED <<run, started, rows>>
      BY <1>15 DEF Publish, StopManager, Take, Offer, AppendItem, SetEnabled,
             NotifyUsageRefresh, Tick, FwdPop, FwdPush, FwdRequeue, FwdAppend,
             FwdPushFails, Stop, ServerNotices, Proxy, Waiting, Event, FwdRest,
             Cancel, NoSub
    <2>2. QED
      BY <1>a, <2>1
  <1>16. CASE UNCHANGED vars
    BY <1>a, <1>16 DEF vars
  <1>17. QED
    BY <1>1, <1>2, <1>3, <1>4, <1>5, <1>6, <1>7, <1>8, <1>9, <1>10, <1>11,
       <1>12, <1>13, <1>14, <1>15, <1>16
       DEF Next, Running

(* Every step keeps a subscribed run to its subscription. *)
LEMMA SubscriberStep ==
    ASSUME IndInv, [Next]_vars
    PROVE  SubscriberInv'
  <1> USE DEF SubscriberInv, RunInv, proxyVars, mgrVars, queueVars, fwdVars,
              envVars, runVars, dbVars
  <1>a. TypeOK /\ RunInv /\ SubscriberInv
    BY DEF IndInv, TypeOK
  <1>1. ASSUME NEW mode \in Modes, Start(mode) PROVE SubscriberInv'
    <2>1. /\ \A x \in Conns \ {started + 1} : run'[x] = run[x]
          /\ run'[started + 1].subscribed = FALSE
          /\ run'[started + 1].pc \in {"dial", "poll", "respdial"}
      BY <1>a, <1>1, StartEdits DEF Edited
    <2>2. QED
      BY <1>a, <2>1
  <1>2. ASSUME NEW c \in Conns, Cancelled(c) PROVE SubscriberInv'
    <2>1. \A x \in Conns \ {c} : run'[x] = run[x]
      BY <1>a, <1>2, CancelledEdits DEF Edited
    <2>2. /\ run'[c].pc \in {"process", "insert", "sink"} =>
                run'[c].back \in {"sub", "poll", "resp"}
          /\ run'[c].subscribed =>
                /\ run'[c].pc \in {"dial", "sub", "process", "insert", "sink", "done"}
                /\ run'[c].pc \in {"process", "insert", "sink"} =>
                      run'[c].back = "sub"
      BY <1>a, <1>2, CancelledEdits DEF Edited, Cancelled
    <2>3. QED
      BY <1>a, <2>1, <2>2
  <1>3. ASSUME NEW c \in Conns, Subscribe(c) PROVE SubscriberInv'
    <2>1. \A x \in Conns \ {c} : run'[x] = run[x]
      BY <1>a, <1>3, SubscribeEdits DEF Edited
    <2>2. /\ run'[c].pc \in {"process", "insert", "sink"} =>
                run'[c].back \in {"sub", "poll", "resp"}
          /\ run'[c].subscribed =>
                /\ run'[c].pc \in {"dial", "sub", "process", "insert", "sink", "done"}
                /\ run'[c].pc \in {"process", "insert", "sink"} =>
                      run'[c].back = "sub"
      BY <1>a, <1>3, SubscribeEdits DEF Edited, Subscribe
    <2>3. QED
      BY <1>a, <2>1, <2>2
  <1>4. ASSUME NEW c \in Conns, NEW b \in BOOLEAN, DialFails(c, b) PROVE
        SubscriberInv'
    <2>1. \A x \in Conns \ {c} : run'[x] = run[x]
      BY <1>a, <1>4, DialFailsEdits DEF Edited
    <2>2. /\ run'[c].pc \in {"process", "insert", "sink"} =>
                run'[c].back \in {"sub", "poll", "resp"}
          /\ run'[c].subscribed =>
                /\ run'[c].pc \in {"dial", "sub", "process", "insert", "sink", "done"}
                /\ run'[c].pc \in {"process", "insert", "sink"} =>
                      run'[c].back = "sub"
      BY <1>a, <1>4, DialFailsEdits DEF Edited, DialFails, AfterFailedDial
    <2>3. QED
      BY <1>a, <2>1, <2>2
  <1>5. ASSUME NEW c \in Conns, ReadMessage(c) PROVE SubscriberInv'
    <2>1. \A x \in Conns \ {c} : run'[x] = run[x]
      BY <1>a, <1>5, ReadMessageEdits DEF Edited
    <2>2. /\ run'[c].pc \in {"process", "insert", "sink"} =>
                run'[c].back \in {"sub", "poll", "resp"}
          /\ run'[c].subscribed =>
                /\ run'[c].pc \in {"dial", "sub", "process", "insert", "sink", "done"}
                /\ run'[c].pc \in {"process", "insert", "sink"} =>
                      run'[c].back = "sub"
      BY <1>a, <1>5, ReadMessageEdits DEF Edited, ReadMessage
    <2>3. QED
      BY <1>a, <2>1, <2>2
  <1>6. ASSUME NEW c \in Conns, ReadFails(c) PROVE SubscriberInv'
    <2>1. \A x \in Conns \ {c} : run'[x] = run[x]
      BY <1>a, <1>6, ReadFailsEdits DEF Edited
    <2>2. /\ run'[c].pc \in {"process", "insert", "sink"} =>
                run'[c].back \in {"sub", "poll", "resp"}
          /\ run'[c].subscribed =>
                /\ run'[c].pc \in {"dial", "sub", "process", "insert", "sink", "done"}
                /\ run'[c].pc \in {"process", "insert", "sink"} =>
                      run'[c].back = "sub"
      BY <1>a, <1>6, ReadFailsEdits DEF Edited, ReadFails
    <2>3. QED
      BY <1>a, <2>1, <2>2
  <1>7. ASSUME NEW c \in Conns, Pop(c) PROVE SubscriberInv'
    <2>1. \A x \in Conns \ {c} : run'[x] = run[x]
      BY <1>a, <1>7, PopEdits DEF Edited, Pop
    <2>2. /\ run'[c].pc \in {"process", "insert", "sink"} =>
                run'[c].back \in {"sub", "poll", "resp"}
          /\ run'[c].subscribed =>
                /\ run'[c].pc \in {"dial", "sub", "process", "insert", "sink", "done"}
                /\ run'[c].pc \in {"process", "insert", "sink"} =>
                      run'[c].back = "sub"
      BY <1>a, <1>7, PopEdits DEF Edited, Pop
    <2>3. QED
      BY <1>a, <2>1, <2>2
  <1>8. ASSUME NEW c \in Conns, NEW b \in BOOLEAN, PopFails(c, b) PROVE
        SubscriberInv'
    <2>1. \A x \in Conns \ {c} : run'[x] = run[x]
      BY <1>a, <1>8, PopFailsEdits DEF Edited
    <2>2. /\ run'[c].pc \in {"process", "insert", "sink"} =>
                run'[c].back \in {"sub", "poll", "resp"}
          /\ run'[c].subscribed =>
                /\ run'[c].pc \in {"dial", "sub", "process", "insert", "sink", "done"}
                /\ run'[c].pc \in {"process", "insert", "sink"} =>
                      run'[c].back = "sub"
      BY <1>a, <1>8, PopFailsEdits DEF Edited, PopFails
    <2>3. QED
      BY <1>a, <2>1, <2>2
  <1>9. ASSUME NEW c \in Conns, Unsupported(c) PROVE SubscriberInv'
    <2>1. \A x \in Conns \ {c} : run'[x] = run[x]
      BY <1>a, <1>9, UnsupportedEdits DEF Edited
    <2>2. /\ run'[c].pc \in {"process", "insert", "sink"} =>
                run'[c].back \in {"sub", "poll", "resp"}
          /\ run'[c].subscribed =>
                /\ run'[c].pc \in {"dial", "sub", "process", "insert", "sink", "done"}
                /\ run'[c].pc \in {"process", "insert", "sink"} =>
                      run'[c].back = "sub"
      BY <1>a, <1>9, UnsupportedEdits DEF Edited, Unsupported
    <2>3. QED
      BY <1>a, <2>1, <2>2
  <1>10. ASSUME NEW c \in Conns, DialRESP(c) PROVE SubscriberInv'
    <2>1. \A x \in Conns \ {c} : run'[x] = run[x]
      BY <1>a, <1>10, DialRESPEdits DEF Edited
    <2>2. /\ run'[c].pc \in {"process", "insert", "sink"} =>
                run'[c].back \in {"sub", "poll", "resp"}
          /\ run'[c].subscribed =>
                /\ run'[c].pc \in {"dial", "sub", "process", "insert", "sink", "done"}
                /\ run'[c].pc \in {"process", "insert", "sink"} =>
                      run'[c].back = "sub"
      BY <1>a, <1>10, DialRESPEdits DEF Edited, DialRESP
    <2>3. QED
      BY <1>a, <2>1, <2>2
  <1>11. ASSUME NEW c \in Conns, NEW saved \in SUBSET Malformed, Normalize(c,
        saved) PROVE SubscriberInv'
    <2>1. \A x \in Conns \ {c} : run'[x] = run[x]
      BY <1>a, <1>11, NormalizeEdits DEF Edited
    <2>2. /\ run'[c].pc \in {"process", "insert", "sink"} =>
                run'[c].back \in {"sub", "poll", "resp"}
          /\ run'[c].subscribed =>
                /\ run'[c].pc \in {"dial", "sub", "process", "insert", "sink", "done"}
                /\ run'[c].pc \in {"process", "insert", "sink"} =>
                      run'[c].back = "sub"
      BY <1>a, <1>11, NormalizeEdits DEF Edited, Normalize
    <2>3. QED
      BY <1>a, <2>1, <2>2
  <1>12. ASSUME NEW c \in Conns, InsertEvents(c) PROVE SubscriberInv'
    <2>1. \A x \in Conns \ {c} : run'[x] = run[x]
      BY <1>a, <1>12, InsertEventsEdits DEF Edited
    <2>2. /\ run'[c].pc \in {"process", "insert", "sink"} =>
                run'[c].back \in {"sub", "poll", "resp"}
          /\ run'[c].subscribed =>
                /\ run'[c].pc \in {"dial", "sub", "process", "insert", "sink", "done"}
                /\ run'[c].pc \in {"process", "insert", "sink"} =>
                      run'[c].back = "sub"
      BY <1>a, <1>12, InsertEventsEdits DEF Edited, InsertEvents
    <2>3. QED
      BY <1>a, <2>1, <2>2
  <1>13. ASSUME NEW c \in Conns, InsertFails(c) PROVE SubscriberInv'
    <2>1. \A x \in Conns \ {c} : run'[x] = run[x]
      BY <1>a, <1>13, InsertFailsEdits DEF Edited
    <2>2. /\ run'[c].pc \in {"process", "insert", "sink"} =>
                run'[c].back \in {"sub", "poll", "resp"}
          /\ run'[c].subscribed =>
                /\ run'[c].pc \in {"dial", "sub", "process", "insert", "sink", "done"}
                /\ run'[c].pc \in {"process", "insert", "sink"} =>
                      run'[c].back = "sub"
      <3>1. PICK p \in {"dial", "poll", "respdial"} :
               /\ p = "dial" <=> run[c].back = "sub"
               /\ Edited(c, p, run[c].subscribed, {}, run[c].back)
        BY <1>a, <1>13, InsertFailsEdits
      <3>2. /\ run'[c].pc = p /\ run'[c].subscribed = run[c].subscribed
            /\ run[c].pc = "insert"
        BY <1>13, <3>1 DEF Edited, InsertFails
      <3>3. run[c].subscribed => run[c].back = "sub"
        BY <1>a, <3>2
      <3>4. QED
        BY <3>1, <3>2, <3>3
    <2>3. QED
      BY <1>a, <2>1, <2>2
  <1>14. ASSUME NEW c \in Conns, ProcessUsageEvents(c) PROVE SubscriberInv'
    <2>1. \A x \in Conns \ {c} : run'[x] = run[x]
      BY <1>a, <1>14, ProcessUsageEventsEdits DEF Edited
    <2>2. /\ run'[c].pc \in {"process", "insert", "sink"} =>
                run'[c].back \in {"sub", "poll", "resp"}
          /\ run'[c].subscribed =>
                /\ run'[c].pc \in {"dial", "sub", "process", "insert", "sink", "done"}
                /\ run'[c].pc \in {"process", "insert", "sink"} =>
                      run'[c].back = "sub"
      BY <1>a, <1>14, ProcessUsageEventsEdits DEF Edited, ProcessUsageEvents
    <2>3. QED
      BY <1>a, <2>1, <2>2
  <1>15. CASE (\E rr \in Records : Proxy(Publish(rr))) \/ Proxy(StopManager) \/
            Proxy(Take) \/ Proxy(Offer) \/ Proxy(AppendItem) \/
            Proxy(SetEnabled) \/ Proxy(NotifyUsageRefresh) \/ Proxy(Tick) \/
            Proxy(FwdPop) \/ Proxy(FwdPush) \/ Proxy(FwdRequeue) \/
            Proxy(FwdAppend) \/ (\E received \in BOOLEAN :
            Proxy(FwdPushFails(received))) \/ Stop \/ (\E c \in Conns :
            ServerNotices(c))
    <2>1. UNCHANGED <<run>>
      BY <1>15 DEF Publish, StopManager, Take, Offer, AppendItem, SetEnabled,
             NotifyUsageRefresh, Tick, FwdPop, FwdPush, FwdRequeue, FwdAppend,
             FwdPushFails, Stop, ServerNotices, Proxy, Waiting, Event, FwdRest,
             Cancel, NoSub
    <2>2. QED
      BY <1>a, <2>1
  <1>16. CASE UNCHANGED vars
    BY <1>a, <1>16 DEF vars
  <1>17. QED
    BY <1>1, <1>2, <1>3, <1>4, <1>5, <1>6, <1>7, <1>8, <1>9, <1>10, <1>11,
       <1>12, <1>13, <1>14, <1>15, <1>16
       DEF Next, Running

(* Every step keeps the types of the collector. *)
LEMMA CollectorTypeStep ==
    ASSUME IndInv, [Next]_vars
    PROVE  CollectorTypeOK'
  <1> USE DEF CollectorTypeOK, SubscriberInv, proxyVars, mgrVars, queueVars,
              fwdVars, envVars, runVars, dbVars
  <1>a. TypeOK /\ CollectorTypeOK /\ SubscriberInv
    BY DEF IndInv, TypeOK
  <1>1. ASSUME NEW mode \in Modes, Start(mode) PROVE CollectorTypeOK'
    <2>1. run' \in [Conns -> Runs] /\ started \in Nat
      BY <1>a, <1>1, StartEdits DEF Edited
    <2>2. Cardinality(Conns) \in Nat
      BY CollectorAssumption, FS_CardinalityType
    <2>3. started' \in 0..Cardinality(Conns) /\ current' \in 0..started'
      BY <1>1, <2>1, <2>2 DEF Start
    <2>4. cancelled' \subseteq 1..started'
      BY <1>a, <1>1, <2>1 DEF Start, Cancel
    <2>5. QED
      BY <1>a, <1>1, <2>1, <2>3, <2>4 DEF Start
  <1>2. CASE Stop
    BY <1>a, <1>2 DEF Stop, Cancel
  <1>3. ASSUME NEW c \in Conns, Cancelled(c) PROVE CollectorTypeOK'
    <2>1. run' \in [Conns -> Runs]
      BY <1>a, <1>3, CancelledEdits DEF Edited
    <2>2. QED
      BY <1>a, <1>3, <2>1 DEF Cancelled
  <1>4. ASSUME NEW c \in Conns, Subscribe(c) PROVE CollectorTypeOK'
    <2>1. run' \in [Conns -> Runs]
      BY <1>a, <1>4, SubscribeEdits DEF Edited
    <2>2. QED
      BY <1>a, <1>4, <2>1 DEF Subscribe
  <1>5. ASSUME NEW c \in Conns, NEW b \in BOOLEAN, DialFails(c, b) PROVE
        CollectorTypeOK'
    <2>1. run' \in [Conns -> Runs]
      BY <1>a, <1>5, DialFailsEdits DEF Edited
    <2>2. QED
      BY <1>a, <1>5, <2>1 DEF DialFails
  <1>6. ASSUME NEW c \in Conns, ReadMessage(c) PROVE CollectorTypeOK'
    <2>1. run' \in [Conns -> Runs]
      BY <1>a, <1>6, ReadMessageEdits DEF Edited
    <2>2. QED
      BY <1>a, <1>6, <2>1 DEF ReadMessage
  <1>7. ASSUME NEW c \in Conns, ReadFails(c) PROVE CollectorTypeOK'
    <2>1. run' \in [Conns -> Runs]
      BY <1>a, <1>7, ReadFailsEdits DEF Edited
    <2>2. QED
      BY <1>a, <1>7, <2>1 DEF ReadFails
  <1>8. ASSUME NEW c \in Conns, Pop(c) PROVE CollectorTypeOK'
    <2>1. run' \in [Conns -> Runs]
      BY <1>a, <1>8, PopEdits DEF Edited, Pop
    <2>2. QED
      BY <1>a, <1>8, <2>1 DEF Pop
  <1>9. ASSUME NEW c \in Conns, NEW b \in BOOLEAN, PopFails(c, b) PROVE
        CollectorTypeOK'
    <2>1. run' \in [Conns -> Runs]
      BY <1>a, <1>9, PopFailsEdits DEF Edited
    <2>2. QED
      BY <1>a, <1>9, <2>1 DEF PopFails
  <1>10. ASSUME NEW c \in Conns, Unsupported(c) PROVE CollectorTypeOK'
    <2>1. run' \in [Conns -> Runs]
      BY <1>a, <1>10, UnsupportedEdits DEF Edited
    <2>2. QED
      BY <1>a, <1>10, <2>1 DEF Unsupported
  <1>11. ASSUME NEW c \in Conns, DialRESP(c) PROVE CollectorTypeOK'
    <2>1. run' \in [Conns -> Runs]
      BY <1>a, <1>11, DialRESPEdits DEF Edited
    <2>2. QED
      BY <1>a, <1>11, <2>1 DEF DialRESP
  <1>12. ASSUME NEW c \in Conns, NEW saved \in SUBSET Malformed, Normalize(c,
        saved) PROVE CollectorTypeOK'
    <2>1. run' \in [Conns -> Runs]
      BY <1>a, <1>12, NormalizeEdits DEF Edited
    <2>2. QED
      BY <1>a, <1>12, <2>1, CollectorAssumption DEF Normalize, Runs, Payloads
  <1>13. ASSUME NEW c \in Conns, InsertEvents(c) PROVE CollectorTypeOK'
    <2>1. run' \in [Conns -> Runs]
      BY <1>a, <1>13, InsertEventsEdits DEF Edited
    <2>2. QED
      BY <1>a, <1>13, <2>1 DEF InsertEvents, Runs
  <1>14. ASSUME NEW c \in Conns, InsertFails(c) PROVE CollectorTypeOK'
    <2>1. run' \in [Conns -> Runs]
      BY <1>a, <1>14, InsertFailsEdits DEF Edited
    <2>2. QED
      BY <1>a, <1>14, <2>1 DEF InsertFails
  <1>15. ASSUME NEW c \in Conns, ProcessUsageEvents(c) PROVE CollectorTypeOK'
    <2>1. run' \in [Conns -> Runs]
      BY <1>a, <1>15, ProcessUsageEventsEdits DEF Edited
    <2>2. QED
      BY <1>a, <1>15, <2>1 DEF ProcessUsageEvents, Runs
  <1>16. CASE (\E rr \in Records : Proxy(Publish(rr))) \/ Proxy(StopManager) \/
            Proxy(Take) \/ Proxy(Offer) \/ Proxy(AppendItem) \/
            Proxy(SetEnabled) \/ Proxy(NotifyUsageRefresh) \/ Proxy(Tick) \/
            Proxy(FwdPop) \/ Proxy(FwdPush) \/ Proxy(FwdRequeue) \/
            Proxy(FwdAppend) \/ (\E received \in BOOLEAN :
            Proxy(FwdPushFails(received))) \/ (\E c \in Conns :
            ServerNotices(c))
    <2>1. UNCHANGED <<run, started, current, cancelled, linked, rows, dead,
probed>>
      BY <1>16 DEF Publish, StopManager, Take, Offer, AppendItem, SetEnabled,
             NotifyUsageRefresh, Tick, FwdPop, FwdPush, FwdRequeue, FwdAppend,
             FwdPushFails, ServerNotices, Proxy, Waiting, Event, FwdRest, NoSub
    <2>2. QED
      BY <1>a, <2>1
  <1>17. CASE UNCHANGED vars
    BY <1>a, <1>17 DEF vars
  <1>18. QED
    BY <1>1, <1>2, <1>3, <1>4, <1>5, <1>6, <1>7, <1>8, <1>9, <1>10, <1>11,
       <1>12, <1>13, <1>14, <1>15, <1>16, <1>17
       DEF Next, Running

(* Every step keeps the clock. *)
LEMMA ClockStep ==
    ASSUME IndInv, [Next]_vars
    PROVE  ClockType'
  <1> USE DEF ClockType, proxyVars, mgrVars, queueVars, fwdVars, envVars,
              runVars, dbVars
  <1>a. TypeOK /\ ClockType
    BY DEF IndInv, TypeOK, QueueTypeOK
  <1>1. CASE Proxy(SetEnabled)
    BY <1>a, <1>1, QueueAssumption DEF SetEnabled, Event, Proxy
  <1>2. CASE Proxy(NotifyUsageRefresh)
    BY <1>a, <1>2, QueueAssumption DEF NotifyUsageRefresh, Event, Proxy
  <1>3. CASE Proxy(Tick)
    BY <1>a, <1>3, QueueAssumption DEF Tick, Event, Proxy
  <1>4. ASSUME NEW received \in BOOLEAN, Proxy(FwdPushFails(received)) PROVE
        ClockType'
    BY <1>a, <1>4, QueueAssumption DEF FwdPushFails, Event, Proxy
  <1>5. ASSUME NEW c \in Conns, NEW b \in BOOLEAN, DialFails(c, b) PROVE
        ClockType'
    BY <1>a, <1>5, QueueAssumption DEF DialFails, Event, Goto, AfterFailedDial,
           NoSub
  <1>6. ASSUME NEW c \in Conns, ReadFails(c) PROVE ClockType'
    BY <1>a, <1>6, QueueAssumption DEF ReadFails, Event, Goto, NoSub
  <1>7. ASSUME NEW c \in Conns, NEW b \in BOOLEAN, PopFails(c, b) PROVE
        ClockType'
    BY <1>a, <1>7, QueueAssumption DEF PopFails, Event, Goto
  <1>8. ASSUME NEW c \in Conns, Unsupported(c) PROVE ClockType'
    BY <1>a, <1>8, QueueAssumption DEF Unsupported, Event, Goto
  <1>9. ASSUME NEW c \in Conns, NEW saved \in SUBSET Malformed, Normalize(c,
        saved) PROVE ClockType'
    BY <1>a, <1>9, QueueAssumption DEF Normalize, Event, Bad
  <1>10. ASSUME NEW c \in Conns, InsertFails(c) PROVE ClockType'
    BY <1>a, <1>10, QueueAssumption DEF InsertFails, Event
  <1>11. CASE (\E rr \in Records : Proxy(Publish(rr))) \/ Proxy(StopManager) \/
            Proxy(Take) \/ Proxy(Offer) \/ Proxy(AppendItem) \/ Proxy(FwdPop)
            \/ Proxy(FwdPush) \/ Proxy(FwdRequeue) \/ Proxy(FwdAppend) \/ (\E
            mode \in Modes : Start(mode)) \/ Stop \/ (\E c \in Conns :
            Cancelled(c)) \/ (\E c \in Conns : Subscribe(c)) \/ (\E c \in Conns
            : ReadMessage(c)) \/ (\E c \in Conns : ServerNotices(c)) \/ (\E c
            \in Conns : Pop(c)) \/ (\E c \in Conns : DialRESP(c)) \/ (\E c \in
            Conns : InsertEvents(c)) \/ (\E c \in Conns :
            ProcessUsageEvents(c))
    <2>1. UNCHANGED <<now, events>>
      BY <1>11 DEF Publish, StopManager, Take, Offer, AppendItem, FwdPop,
             FwdPush, FwdRequeue, FwdAppend, Start, Stop, Cancelled, Subscribe,
             ReadMessage, ServerNotices, Pop, DialRESP, InsertEvents,
             ProcessUsageEvents, Proxy, Waiting, FwdRest, Cancel, FirstStage,
             NotStarted, Goto, NoSub
    <2>2. QED
      BY <1>a, <2>1
  <1>12. CASE UNCHANGED vars
    BY <1>a, <1>12 DEF vars
  <1>13. QED
    BY <1>1, <1>2, <1>3, <1>4, <1>5, <1>6, <1>7, <1>8, <1>9, <1>10, <1>11,
       <1>12
       DEF Next, Running

(* Every step keeps the switches. *)
LEMMA FlagsStep ==
    ASSUME IndInv, [Next]_vars
    PROVE  FlagsType'
  <1> USE DEF FlagsType, proxyVars, mgrVars, queueVars, fwdVars, envVars,
              runVars, dbVars
  <1>a. TypeOK /\ FlagsType
    BY DEF IndInv, TypeOK, QueueTypeOK
  <1>1. CASE Proxy(StopManager)
    BY <1>a, <1>1 DEF StopManager, Proxy
  <1>2. CASE Proxy(SetEnabled)
    BY <1>a, <1>2 DEF SetEnabled, Event, Proxy
  <1>3. CASE (\E rr \in Records : Proxy(Publish(rr))) \/ Proxy(Take) \/
            Proxy(Offer) \/ Proxy(AppendItem) \/ Proxy(NotifyUsageRefresh) \/
            Proxy(Tick) \/ Proxy(FwdPop) \/ Proxy(FwdPush) \/ Proxy(FwdRequeue)
            \/ Proxy(FwdAppend) \/ (\E received \in BOOLEAN :
            Proxy(FwdPushFails(received))) \/ (\E mode \in Modes : Start(mode))
            \/ Stop \/ (\E c \in Conns : Cancelled(c)) \/ (\E c \in Conns :
            Subscribe(c)) \/ (\E c \in Conns, b \in BOOLEAN : DialFails(c, b))
            \/ (\E c \in Conns : ReadMessage(c)) \/ (\E c \in Conns :
            ReadFails(c)) \/ (\E c \in Conns : ServerNotices(c)) \/ (\E c \in
            Conns : Pop(c)) \/ (\E c \in Conns, b \in BOOLEAN : PopFails(c, b))
            \/ (\E c \in Conns : Unsupported(c)) \/ (\E c \in Conns :
            DialRESP(c)) \/ (\E c \in Conns, saved \in SUBSET Malformed :
            Normalize(c, saved)) \/ (\E c \in Conns : InsertEvents(c)) \/ (\E c
            \in Conns : InsertFails(c)) \/ (\E c \in Conns :
            ProcessUsageEvents(c))
    <2>1. UNCHANGED <<closed, enabled, homeMode>>
      BY <1>3 DEF Publish, Take, Offer, AppendItem, NotifyUsageRefresh, Tick,
             FwdPop, FwdPush, FwdRequeue, FwdAppend, FwdPushFails, Start, Stop,
             Cancelled, Subscribe, DialFails, ReadMessage, ReadFails,
             ServerNotices, Pop, PopFails, Unsupported, DialRESP, Normalize,
             InsertEvents, InsertFails, ProcessUsageEvents, Proxy, Waiting,
             Event, FwdRest, Cancel, FirstStage, NotStarted, Goto, NoSub,
             AfterFailedDial, Bad
    <2>2. QED
      BY <1>a, <2>1
  <1>4. CASE UNCHANGED vars
    BY <1>a, <1>4 DEF vars
  <1>5. QED
    BY <1>1, <1>2, <1>3, <1>4
       DEF Next, Running

(* Every step keeps the sets of records. *)
LEMMA SetsStep ==
    ASSUME IndInv, [Next]_vars
    PROVE  SetsType'
  <1> USE DEF SetsType, HandsInv, proxyVars, mgrVars, queueVars, fwdVars,
              envVars, runVars, dbVars
  <1>a. TypeOK /\ HandsInv /\ SetsType
    BY DEF IndInv, TypeOK, QueueTypeOK
  <1>1. ASSUME NEW rr \in Records, Proxy(Publish(rr)) PROVE SetsType'
    BY <1>a, <1>1, PrunedType DEF Publish, Proxy
  <1>2. CASE Proxy(Take)
    <2>1. Head(mqueue) \in Records
      BY <1>a, <1>2, RangeOfTail DEF Proxy, Take, TypeOK, QueueTypeOK
    <2>2. QED
      BY <1>a, <1>2, <2>1 DEF Proxy, Take, Waiting
  <1>3. CASE Proxy(Offer)
    <2>1. disp.rec \in Records
      BY <1>a, <1>3 DEF Proxy, Offer, TypeOK, QueueTypeOK
    <2>2. QED
      BY <1>a, <1>3, <2>1 DEF Proxy, Offer
  <1>4. CASE Proxy(AppendItem)
    BY <1>a, <1>4, PrunedType DEF Proxy, AppendItem
  <1>5. CASE Proxy(SetEnabled)
    BY <1>a, <1>5, PrunedType DEF SetEnabled, Event, Proxy
  <1>6. CASE Proxy(FwdPop)
    BY <1>a, <1>6, PrunedType DEF FwdPop, Proxy
  <1>7. CASE Proxy(FwdPush)
    BY <1>a, <1>7, PrunedType, ForwarderHolds DEF FwdPush, Proxy
  <1>8. CASE Proxy(FwdRequeue)
    BY <1>a, <1>8, PrunedType, ForwarderHolds DEF FwdRequeue, FwdRest, Proxy
  <1>9. CASE Proxy(FwdAppend)
    BY <1>a, <1>9, PrunedType, ForwarderHolds DEF FwdAppend, FwdRest, Proxy
  <1>10. ASSUME NEW received \in BOOLEAN, Proxy(FwdPushFails(received)) PROVE
        SetsType'
    BY <1>a, <1>10, PrunedType, ForwarderHolds DEF FwdPushFails, Event, Proxy
  <1>11. ASSUME NEW c \in Conns, ServerNotices(c) PROVE SetsType'
    BY <1>a, <1>11 DEF ServerNotices, RecordsIn
  <1>12. ASSUME NEW c \in Conns, Pop(c) PROVE SetsType'
    BY <1>a, <1>12, PrunedType DEF Pop
  <1>13. ASSUME NEW c \in Conns, NEW b \in BOOLEAN, PopFails(c, b) PROVE
        SetsType'
    BY <1>a, <1>13, PrunedType DEF PopFails, PruneLoss, RecordsIn
  <1>14. ASSUME NEW c \in Conns, NEW saved \in SUBSET Malformed, Normalize(c,
        saved) PROVE SetsType'
    BY <1>a, <1>14, CollectorAssumption DEF Normalize, Bad
  <1>15. ASSUME NEW c \in Conns, InsertFails(c) PROVE SetsType'
    BY <1>a, <1>15, PrunedType DEF InsertFails, Event
  <1>16. CASE Proxy(StopManager) \/ Proxy(NotifyUsageRefresh) \/ Proxy(Tick) \/
            (\E mode \in Modes : Start(mode)) \/ Stop \/ (\E c \in Conns :
            Cancelled(c)) \/ (\E c \in Conns : Subscribe(c)) \/ (\E c \in
            Conns, b \in BOOLEAN : DialFails(c, b)) \/ (\E c \in Conns :
            ReadMessage(c)) \/ (\E c \in Conns : ReadFails(c)) \/ (\E c \in
            Conns : Unsupported(c)) \/ (\E c \in Conns : DialRESP(c)) \/ (\E c
            \in Conns : InsertEvents(c)) \/ (\E c \in Conns :
            ProcessUsageEvents(c))
    <2>1. UNCHANGED <<published, home, lost>>
      BY <1>16 DEF StopManager, NotifyUsageRefresh, Tick, Start, Stop,
             Cancelled, Subscribe, DialFails, ReadMessage, ReadFails,
             Unsupported, DialRESP, InsertEvents, ProcessUsageEvents, Proxy,
             Event, Cancel, FirstStage, NotStarted, Goto, NoSub,
             AfterFailedDial
    <2>2. QED
      BY <1>a, <2>1
  <1>17. CASE UNCHANGED vars
    BY <1>a, <1>17 DEF vars
  <1>18. QED
    BY <1>1, <1>2, <1>3, <1>4, <1>5, <1>6, <1>7, <1>8, <1>9, <1>10, <1>11,
       <1>12, <1>13, <1>14, <1>15, <1>16, <1>17
       DEF Next, Running

(* Every step keeps the queue of the manager. *)
LEMMA MqueueStep ==
    ASSUME IndInv, [Next]_vars
    PROVE  MqueueType'
  <1> USE DEF MqueueType, proxyVars, mgrVars, queueVars, fwdVars, envVars,
              runVars, dbVars
  <1>a. TypeOK /\ MqueueType
    BY DEF IndInv, TypeOK, QueueTypeOK
  <1>1. ASSUME NEW rr \in Records, Proxy(Publish(rr)) PROVE MqueueType'
    BY <1>a, <1>1 DEF Publish, Proxy
  <1>2. CASE Proxy(Take)
    BY <1>a, <1>2, RangeOfTail DEF Take, Proxy
  <1>3. CASE Proxy(StopManager) \/ Proxy(Offer) \/ Proxy(AppendItem) \/
            Proxy(SetEnabled) \/ Proxy(NotifyUsageRefresh) \/ Proxy(Tick) \/
            Proxy(FwdPop) \/ Proxy(FwdPush) \/ Proxy(FwdRequeue) \/
            Proxy(FwdAppend) \/ (\E received \in BOOLEAN :
            Proxy(FwdPushFails(received))) \/ (\E mode \in Modes : Start(mode))
            \/ Stop \/ (\E c \in Conns : Cancelled(c)) \/ (\E c \in Conns :
            Subscribe(c)) \/ (\E c \in Conns, b \in BOOLEAN : DialFails(c, b))
            \/ (\E c \in Conns : ReadMessage(c)) \/ (\E c \in Conns :
            ReadFails(c)) \/ (\E c \in Conns : ServerNotices(c)) \/ (\E c \in
            Conns : Pop(c)) \/ (\E c \in Conns, b \in BOOLEAN : PopFails(c, b))
            \/ (\E c \in Conns : Unsupported(c)) \/ (\E c \in Conns :
            DialRESP(c)) \/ (\E c \in Conns, saved \in SUBSET Malformed :
            Normalize(c, saved)) \/ (\E c \in Conns : InsertEvents(c)) \/ (\E c
            \in Conns : InsertFails(c)) \/ (\E c \in Conns :
            ProcessUsageEvents(c))
    <2>1. UNCHANGED <<mqueue>>
      BY <1>3 DEF StopManager, Offer, AppendItem, SetEnabled,
             NotifyUsageRefresh, Tick, FwdPop, FwdPush, FwdRequeue, FwdAppend,
             FwdPushFails, Start, Stop, Cancelled, Subscribe, DialFails,
             ReadMessage, ReadFails, ServerNotices, Pop, PopFails, Unsupported,
             DialRESP, Normalize, InsertEvents, InsertFails,
             ProcessUsageEvents, Proxy, Waiting, Event, FwdRest, Cancel,
             FirstStage, NotStarted, Goto, NoSub, AfterFailedDial, Bad
    <2>2. QED
      BY <1>a, <2>1
  <1>4. CASE UNCHANGED vars
    BY <1>a, <1>4 DEF vars
  <1>5. QED
    BY <1>1, <1>2, <1>3, <1>4
       DEF Next, Running

(* Every step keeps the type of the dispatcher. *)
LEMMA DispStep ==
    ASSUME IndInv, [Next]_vars
    PROVE  DispType'
  <1> USE DEF DispType, proxyVars, mgrVars, queueVars, fwdVars, envVars,
              runVars, dbVars
  <1>a. TypeOK /\ DispType
    BY DEF IndInv, TypeOK, QueueTypeOK
  <1>1. CASE Proxy(Take)
    <2>1. Head(mqueue) \in Records
      BY <1>a, <1>1, RangeOfTail DEF Proxy, Take, TypeOK, QueueTypeOK
    <2>2. QED
      BY <1>a, <1>1, <2>1 DEF Proxy, Take, Waiting
  <1>2. CASE Proxy(Offer)
    BY <1>a, <1>2 DEF Offer, Waiting, Proxy
  <1>3. CASE Proxy(AppendItem)
    BY <1>a, <1>3 DEF AppendItem, Waiting, Proxy
  <1>4. CASE (\E rr \in Records : Proxy(Publish(rr))) \/ Proxy(StopManager) \/
            Proxy(SetEnabled) \/ Proxy(NotifyUsageRefresh) \/ Proxy(Tick) \/
            Proxy(FwdPop) \/ Proxy(FwdPush) \/ Proxy(FwdRequeue) \/
            Proxy(FwdAppend) \/ (\E received \in BOOLEAN :
            Proxy(FwdPushFails(received))) \/ (\E mode \in Modes : Start(mode))
            \/ Stop \/ (\E c \in Conns : Cancelled(c)) \/ (\E c \in Conns :
            Subscribe(c)) \/ (\E c \in Conns, b \in BOOLEAN : DialFails(c, b))
            \/ (\E c \in Conns : ReadMessage(c)) \/ (\E c \in Conns :
            ReadFails(c)) \/ (\E c \in Conns : ServerNotices(c)) \/ (\E c \in
            Conns : Pop(c)) \/ (\E c \in Conns, b \in BOOLEAN : PopFails(c, b))
            \/ (\E c \in Conns : Unsupported(c)) \/ (\E c \in Conns :
            DialRESP(c)) \/ (\E c \in Conns, saved \in SUBSET Malformed :
            Normalize(c, saved)) \/ (\E c \in Conns : InsertEvents(c)) \/ (\E c
            \in Conns : InsertFails(c)) \/ (\E c \in Conns :
            ProcessUsageEvents(c))
    <2>1. UNCHANGED <<disp>>
      BY <1>4 DEF Publish, StopManager, SetEnabled, NotifyUsageRefresh, Tick,
             FwdPop, FwdPush, FwdRequeue, FwdAppend, FwdPushFails, Start, Stop,
             Cancelled, Subscribe, DialFails, ReadMessage, ReadFails,
             ServerNotices, Pop, PopFails, Unsupported, DialRESP, Normalize,
             InsertEvents, InsertFails, ProcessUsageEvents, Proxy, Event,
             FwdRest, Cancel, FirstStage, NotStarted, Goto, NoSub,
             AfterFailedDial, Bad
    <2>2. QED
      BY <1>a, <2>1
  <1>5. CASE UNCHANGED vars
    BY <1>a, <1>5 DEF vars
  <1>6. QED
    BY <1>1, <1>2, <1>3, <1>4, <1>5
       DEF Next, Running

(* Every step keeps the type of the forwarder. *)
LEMMA FwdStep ==
    ASSUME IndInv, [Next]_vars
    PROVE  FwdType'
  <1> USE DEF FwdType, HandsInv, proxyVars, mgrVars, queueVars, fwdVars,
              envVars, runVars, dbVars
  <1>a. TypeOK /\ HandsInv /\ FwdType
    BY DEF IndInv, TypeOK, QueueTypeOK
  <1>1. CASE Proxy(FwdPop)
    BY <1>a, <1>1, PoppedAndRest, QueueAssumption DEF FwdPop, Proxy
  <1>2. CASE Proxy(FwdPush)
    BY <1>a, <1>2, ForwarderHolds DEF FwdPush, Proxy
  <1>3. CASE Proxy(FwdRequeue)
    BY <1>a, <1>3, ForwarderHolds DEF FwdRequeue, FwdRest, Proxy
  <1>4. CASE Proxy(FwdAppend)
    BY <1>a, <1>4, ForwarderHolds DEF FwdAppend, FwdRest, Proxy
  <1>5. ASSUME NEW received \in BOOLEAN, Proxy(FwdPushFails(received)) PROVE
        FwdType'
    BY <1>a, <1>5, ForwarderHolds DEF FwdPushFails, Event, Proxy
  <1>6. CASE (\E rr \in Records : Proxy(Publish(rr))) \/ Proxy(StopManager) \/
            Proxy(Take) \/ Proxy(Offer) \/ Proxy(AppendItem) \/
            Proxy(SetEnabled) \/ Proxy(NotifyUsageRefresh) \/ Proxy(Tick) \/
            (\E mode \in Modes : Start(mode)) \/ Stop \/ (\E c \in Conns :
            Cancelled(c)) \/ (\E c \in Conns : Subscribe(c)) \/ (\E c \in
            Conns, b \in BOOLEAN : DialFails(c, b)) \/ (\E c \in Conns :
            ReadMessage(c)) \/ (\E c \in Conns : ReadFails(c)) \/ (\E c \in
            Conns : ServerNotices(c)) \/ (\E c \in Conns : Pop(c)) \/ (\E c \in
            Conns, b \in BOOLEAN : PopFails(c, b)) \/ (\E c \in Conns :
            Unsupported(c)) \/ (\E c \in Conns : DialRESP(c)) \/ (\E c \in
            Conns, saved \in SUBSET Malformed : Normalize(c, saved)) \/ (\E c
            \in Conns : InsertEvents(c)) \/ (\E c \in Conns : InsertFails(c))
            \/ (\E c \in Conns : ProcessUsageEvents(c))
    <2>1. UNCHANGED <<fwd>>
      BY <1>6 DEF Publish, StopManager, Take, Offer, AppendItem, SetEnabled,
             NotifyUsageRefresh, Tick, Start, Stop, Cancelled, Subscribe,
             DialFails, ReadMessage, ReadFails, ServerNotices, Pop, PopFails,
             Unsupported, DialRESP, Normalize, InsertEvents, InsertFails,
             ProcessUsageEvents, Proxy, Waiting, Event, Cancel, FirstStage,
             NotStarted, Goto, NoSub, AfterFailedDial, Bad
    <2>2. QED
      BY <1>a, <2>1
  <1>7. CASE UNCHANGED vars
    BY <1>a, <1>7 DEF vars
  <1>8. QED
    BY <1>1, <1>2, <1>3, <1>4, <1>5, <1>6, <1>7
       DEF Next, Running

(* Every step keeps the type of the queue. *)
LEMMA ItemsStep ==
    ASSUME IndInv, [Next]_vars
    PROVE  ItemsType'
  <1> USE DEF ItemsType, HandsInv, proxyVars, mgrVars, queueVars, fwdVars,
              envVars, runVars, dbVars
  <1>a. TypeOK /\ HandsInv /\ ItemsType
    BY DEF IndInv, TypeOK, QueueTypeOK
  <1>1. CASE Proxy(AppendItem)
    <2>1. disp.rec \in Records
      BY <1>a, <1>1 DEF Proxy, AppendItem, TypeOK, QueueTypeOK
    <2>2. QED
      BY <1>a, <1>1, <2>1, EnqueuedHas DEF Proxy, AppendItem
  <1>2. CASE Proxy(SetEnabled)
    BY <1>a, <1>2 DEF SetEnabled, Event, Proxy
  <1>3. CASE Proxy(FwdPop)
    BY <1>a, <1>3, PoppedAndRest, QueueAssumption DEF FwdPop, Proxy
  <1>4. CASE Proxy(FwdAppend)
    BY <1>a, <1>4, ForwarderHolds, EnqueuedHas DEF FwdAppend, FwdRest, Proxy
  <1>5. ASSUME NEW c \in Conns, Pop(c) PROVE ItemsType'
    BY <1>a, <1>5, PoppedAndRest, CollectorAssumption DEF Pop
  <1>6. ASSUME NEW c \in Conns, NEW b \in BOOLEAN, PopFails(c, b) PROVE
        ItemsType'
    <2>1. AfterPop(BatchSize) \in Seq([rec : Records, at : 0..MaxEvents])
      BY <1>a, PoppedAndRest, CollectorAssumption DEF AfterPop
    <2>2. QED
      BY <1>a, <1>6, <2>1 DEF PopFails
  <1>7. CASE (\E rr \in Records : Proxy(Publish(rr))) \/ Proxy(StopManager) \/
            Proxy(Take) \/ Proxy(Offer) \/ Proxy(NotifyUsageRefresh) \/
            Proxy(Tick) \/ Proxy(FwdPush) \/ Proxy(FwdRequeue) \/ (\E received
            \in BOOLEAN : Proxy(FwdPushFails(received))) \/ (\E mode \in Modes
            : Start(mode)) \/ Stop \/ (\E c \in Conns : Cancelled(c)) \/ (\E c
            \in Conns : Subscribe(c)) \/ (\E c \in Conns, b \in BOOLEAN :
            DialFails(c, b)) \/ (\E c \in Conns : ReadMessage(c)) \/ (\E c \in
            Conns : ReadFails(c)) \/ (\E c \in Conns : ServerNotices(c)) \/ (\E
            c \in Conns : Unsupported(c)) \/ (\E c \in Conns : DialRESP(c)) \/
            (\E c \in Conns, saved \in SUBSET Malformed : Normalize(c, saved))
            \/ (\E c \in Conns : InsertEvents(c)) \/ (\E c \in Conns :
            InsertFails(c)) \/ (\E c \in Conns : ProcessUsageEvents(c))
    <2>1. UNCHANGED <<items>>
      BY <1>7 DEF Publish, StopManager, Take, Offer, NotifyUsageRefresh, Tick,
             FwdPush, FwdRequeue, FwdPushFails, Start, Stop, Cancelled,
             Subscribe, DialFails, ReadMessage, ReadFails, ServerNotices,
             Unsupported, DialRESP, Normalize, InsertEvents, InsertFails,
             ProcessUsageEvents, Proxy, Waiting, Event, FwdRest, Cancel,
             FirstStage, NotStarted, Goto, NoSub, AfterFailedDial, Bad
    <2>2. QED
      BY <1>a, <2>1
  <1>8. CASE UNCHANGED vars
    BY <1>a, <1>8 DEF vars
  <1>9. QED
    BY <1>1, <1>2, <1>3, <1>4, <1>5, <1>6, <1>7, <1>8
       DEF Next, Running

(* Every step keeps the type of the channels. *)
LEMMA SubsStep ==
    ASSUME IndInv, [Next]_vars
    PROVE  SubsType'
  <1> USE DEF SubsType, HandsInv, proxyVars, mgrVars, queueVars, fwdVars,
              envVars, runVars, dbVars
  <1>a. TypeOK /\ HandsInv /\ SubsType
    BY DEF IndInv, TypeOK, QueueTypeOK
  <1>1. CASE Proxy(Offer)
    <2>1. disp.rec \in Payloads
      BY <1>a, <1>1 DEF Proxy, Offer, TypeOK, QueueTypeOK, Payloads
    <2>2. QED
      BY <1>a, <1>1, <2>1, OfferedHas DEF Proxy, Offer
  <1>2. CASE Proxy(SetEnabled)
    <2> DEFINE e(c) == [subs[c] EXCEPT !.open = FALSE]
    <2>1. ASSUME NEW c \in Conns
          PROVE  /\ e(c) \in [open : BOOLEAN, buf : Seq(Payloads)]
                 /\ Len(e(c).buf) <= BufferCap
      <3>1. /\ subs[c] \in [open : BOOLEAN, buf : Seq(Payloads)]
            /\ Len(subs[c].buf) <= BufferCap
        BY <1>a
      <3>2. e(c) \in [open : BOOLEAN, buf : Seq(Payloads)] /\ e(c).buf = subs[c].buf
        BY <3>1
      <3>3. QED
        BY <3>1, <3>2
    <2>2. subs' = [c \in Conns |-> e(c)] \/ subs' = subs
      BY <1>2 DEF Proxy, SetEnabled
    <2> HIDE DEF e
    <2>3. QED
      BY <1>a, <2>1, <2>2
  <1>3. CASE Proxy(NotifyUsageRefresh)
    BY <1>a, <1>3, OfferedHas DEF Proxy, NotifyUsageRefresh, Payloads
  <1>4. CASE Proxy(FwdRequeue)
    <2>1. Head(fwd.items) \in Payloads
      BY <1>a, <1>4, ForwarderHolds DEF Proxy, FwdRequeue, Payloads
    <2>2. QED
      BY <1>a, <1>4, <2>1, OfferedHas DEF Proxy, FwdRequeue
  <1>5. ASSUME NEW c \in Conns, Subscribe(c) PROVE SubsType'
    <2>1. subs[c] \in [open : BOOLEAN, buf : Seq(Payloads)]
      BY <1>a
    <2> DEFINE e == [open |-> TRUE, buf |-> <<Control>>]
    <2>2. e \in [open : BOOLEAN, buf : Seq(Payloads)] /\ Len(e.buf) <= BufferCap
      BY QueueAssumption DEF Payloads
    <2>3. subs' = [subs EXCEPT ![c] = e]
      BY <2>1, <1>5 DEF Subscribe
    <2> HIDE DEF e
    <2>4. QED
      BY <1>a, <2>2, <2>3
  <1>6. ASSUME NEW c \in Conns, NEW b \in BOOLEAN, DialFails(c, b) PROVE
        SubsType'
    <2>c. CASE ~b
      BY <1>a, <1>6, <2>c DEF DialFails
    <2>d. CASE b
      <3>1. subs[c] \in [open : BOOLEAN, buf : Seq(Payloads)]
        BY <1>a
      <3> DEFINE e == [subs[c] EXCEPT !.open = TRUE]
      <3>2. e \in [open : BOOLEAN, buf : Seq(Payloads)] /\ Len(e.buf) <= BufferCap
        BY <1>a, <3>1
      <3>3. subs' = [subs EXCEPT ![c] = e]
        BY <3>1, <1>6, <2>d DEF DialFails
      <3> HIDE DEF e
      <3>4. QED
        BY <1>a, <3>2, <3>3
    <2>e. QED
      BY <2>c, <2>d
  <1>7. ASSUME NEW c \in Conns, ReadMessage(c) PROVE SubsType'
    <2>1. subs[c] \in [open : BOOLEAN, buf : Seq(Payloads)]
      BY <1>a
    <2> DEFINE e == [subs[c] EXCEPT !.buf = Tail(subs[c].buf)]
    <2>2. e \in [open : BOOLEAN, buf : Seq(Payloads)] /\ Len(e.buf) <= BufferCap
      <3>1. /\ subs[c].buf \in Seq(Payloads) /\ subs[c].buf # <<>>
            /\ Len(subs[c].buf) <= BufferCap
        BY <1>a, <2>1, <1>7 DEF ReadMessage
      <3>2. /\ Tail(subs[c].buf) \in Seq(Payloads) /\ Len(subs[c].buf) \in Nat
            /\ Len(Tail(subs[c].buf)) = Len(subs[c].buf) - 1
        BY <3>1, RangeOfTail
      <3>3. e.buf = Tail(subs[c].buf) /\ e \in [open : BOOLEAN, buf : Seq(Payloads)]
        BY <2>1, <3>2
      <3>4. QED
        BY <3>1, <3>2, <3>3, QueueAssumption
    <2>3. subs' = [subs EXCEPT ![c] = e]
      BY <2>1, <1>7 DEF ReadMessage
    <2> HIDE DEF e
    <2>4. QED
      BY <1>a, <2>2, <2>3
  <1>8. ASSUME NEW c \in Conns, ServerNotices(c) PROVE SubsType'
    <2>1. subs[c] \in [open : BOOLEAN, buf : Seq(Payloads)]
      BY <1>a
    <2> DEFINE e == NoSub
    <2>2. e \in [open : BOOLEAN, buf : Seq(Payloads)] /\ Len(e.buf) <= BufferCap
      BY QueueAssumption DEF NoSub
    <2>3. subs' = [subs EXCEPT ![c] = e]
      BY <2>1, <1>8 DEF ServerNotices
    <2> HIDE DEF e
    <2>4. QED
      BY <1>a, <2>2, <2>3
  <1>9. CASE (\E rr \in Records : Proxy(Publish(rr))) \/ Proxy(StopManager) \/
            Proxy(Take) \/ Proxy(AppendItem) \/ Proxy(Tick) \/ Proxy(FwdPop) \/
            Proxy(FwdPush) \/ Proxy(FwdAppend) \/ (\E received \in BOOLEAN :
            Proxy(FwdPushFails(received))) \/ (\E mode \in Modes : Start(mode))
            \/ Stop \/ (\E c \in Conns : Cancelled(c)) \/ (\E c \in Conns :
            ReadFails(c)) \/ (\E c \in Conns : Pop(c)) \/ (\E c \in Conns, b
            \in BOOLEAN : PopFails(c, b)) \/ (\E c \in Conns : Unsupported(c))
            \/ (\E c \in Conns : DialRESP(c)) \/ (\E c \in Conns, saved \in
            SUBSET Malformed : Normalize(c, saved)) \/ (\E c \in Conns :
            InsertEvents(c)) \/ (\E c \in Conns : InsertFails(c)) \/ (\E c \in
            Conns : ProcessUsageEvents(c))
    <2>1. UNCHANGED <<subs>>
      BY <1>9 DEF Publish, StopManager, Take, AppendItem, Tick, FwdPop,
             FwdPush, FwdAppend, FwdPushFails, Start, Stop, Cancelled,
             ReadFails, Pop, PopFails, Unsupported, DialRESP, Normalize,
             InsertEvents, InsertFails, ProcessUsageEvents, Proxy, Waiting,
             Event, FwdRest, Cancel, FirstStage, NotStarted, Goto, NoSub, Bad
    <2>2. QED
      BY <1>a, <2>1
  <1>10. CASE UNCHANGED vars
    BY <1>a, <1>10 DEF vars
  <1>11. QED
    BY <1>1, <1>2, <1>3, <1>4, <1>5, <1>6, <1>7, <1>8, <1>9, <1>10
       DEF Next, Running

(* Every step keeps each record somewhere or gives it up. *)
LEMMA VanishStep ==
    ASSUME IndInv, [Next]_vars
    PROVE  NothingVanishes'
  <1> USE DEF NothingVanishes, Somewhere, RecordsIn, proxyVars, mgrVars,
              queueVars, fwdVars, envVars, runVars, dbVars
  <1>a. TypeOK /\ HandsInv /\ RunInv /\ SubscriberInv /\ NothingVanishes
    BY DEF IndInv, TypeOK
  <1>1. ASSUME NEW rr \in Records, Proxy(Publish(rr)) PROVE NothingVanishes'
    <2> SUFFICES ASSUME NEW r \in published' \ lost'
                 PROVE  Somewhere(r)'
      OBVIOUS
    <2>1. r \in Records /\ (Somewhere(r) \/ (r = rr /\ ~closed))
      BY <1>a, <1>1 DEF Proxy, Publish, TypeOK, QueueTypeOK
    <2>2. Range(Append(mqueue, rr)) = Range(mqueue) \cup {rr}
      BY <1>a, RangeOfAppend DEF TypeOK, QueueTypeOK
    <2>3. QED
      BY <1>1, <2>1, <2>2 DEF Proxy, Publish, Somewhere, RecordsIn
  <1>2. CASE Proxy(Take)
    <2> SUFFICES ASSUME NEW r \in published' \ lost'
                 PROVE  Somewhere(r)'
      OBVIOUS
    <2>1. r \in Records /\ Somewhere(r) /\ r \notin lost
      BY <1>a, <1>2 DEF Proxy, Take, TypeOK, QueueTypeOK
    <2>2. mqueue # <<>> /\ mqueue \in Seq(Records) /\ disp.rec = NoRecord /\ NoRecord \notin Records
      BY <1>a, <1>2, QueueAssumption DEF Proxy, Take, HandsInv, TypeOK, QueueTypeOK
    <2>3. Range(mqueue) = {Head(mqueue)} \cup Range(Tail(mqueue))
      BY <2>2, RangeOfTail
    <2>4. QED
      BY <1>2, <2>1, <2>2, <2>3 DEF Proxy, Take, Somewhere, RecordsIn
  <1>3. CASE Proxy(Offer)
    <2> SUFFICES ASSUME NEW r \in published' \ lost'
                 PROVE  Somewhere(r)'
      OBVIOUS
    <2>1. r \in Records /\ Somewhere(r) /\ r \notin lost
      BY <1>a, <1>3 DEF Proxy, Offer, TypeOK, QueueTypeOK
    <2>2. disp.rec \in Payloads
      BY <1>a, <1>3 DEF HandsInv, Proxy, Offer, TypeOK, QueueTypeOK, Payloads
    <2>3. /\ \A c \in Conns : Range(subs[c].buf) \subseteq Range(subs'[c].buf)
          /\ enabled /\ Open # {} /\ ~NobodyHasRoom =>
                \E c \in Conns : disp.rec \in Range(subs'[c].buf)
      BY <1>a, <1>3, <2>2, OfferedHas DEF Proxy, Offer
    <2>4. enabled /\ Open = {} => disp'.rec = disp.rec
      BY <1>a, <1>3 DEF Proxy, Offer, TypeOK, QueueTypeOK
    <2>5. QED
      BY <1>3, <2>1, <2>2, <2>3, <2>4 DEF Proxy, Offer, Somewhere, RecordsIn
  <1>4. CASE Proxy(AppendItem)
    <2> SUFFICES ASSUME NEW r \in published' \ lost'
                 PROVE  Somewhere(r)'
      OBVIOUS
    <2>1. r \in Records /\ Somewhere(r) /\ r \notin lost
      BY <1>a, <1>4 DEF Proxy, AppendItem, TypeOK, QueueTypeOK
    <2>2. disp.rec \in Records
      BY <1>a, <1>4 DEF HandsInv, Proxy, AppendItem, TypeOK, QueueTypeOK
    <2>3. (Recs(items) \ Pruned) \cup {disp.rec} \subseteq Recs(items')
      BY <1>a, <1>4, <2>2, EnqueuedHas DEF Proxy, AppendItem, Pruned
    <2>4. QED
      BY <1>4, <2>1, <2>2, <2>3 DEF Proxy, AppendItem, Somewhere, RecordsIn
  <1>5. CASE Proxy(SetEnabled)
    <2> SUFFICES ASSUME NEW r \in published' \ lost'
                 PROVE  Somewhere(r)'
      OBVIOUS
    <2>1. r \in Records /\ Somewhere(r) /\ r \notin lost
      BY <1>a, <1>5 DEF Proxy, SetEnabled, TypeOK, QueueTypeOK
    <2>2. \A c \in Conns : subs'[c].buf = subs[c].buf
      BY <1>a, <1>5 DEF Proxy, SetEnabled, TypeOK, QueueTypeOK
    <2>3. QED
      BY <1>5, <2>1, <2>2 DEF Proxy, SetEnabled, Somewhere, RecordsIn
  <1>6. CASE Proxy(NotifyUsageRefresh)
    <2> SUFFICES ASSUME NEW r \in published' \ lost'
                 PROVE  Somewhere(r)'
      OBVIOUS
    <2>1. r \in Records /\ Somewhere(r) /\ r \notin lost
      BY <1>a, <1>6 DEF Proxy, NotifyUsageRefresh, TypeOK, QueueTypeOK
    <2>2. Control \in Payloads
      BY DEF Payloads
    <2>3. \A c \in Conns : Range(subs[c].buf) \subseteq Range(subs'[c].buf)
      BY <1>a, <1>6, <2>2, OfferedHas DEF Proxy, NotifyUsageRefresh
    <2>4. QED
      BY <1>6, <2>1, <2>2, <2>3 DEF Proxy, NotifyUsageRefresh, Somewhere, RecordsIn
  <1>7. CASE Proxy(FwdPop)
    <2> SUFFICES ASSUME NEW r \in published' \ lost'
                 PROVE  Somewhere(r)'
      OBVIOUS
    <2>1. r \in Records /\ Somewhere(r) /\ r \notin lost
      BY <1>a, <1>7 DEF Proxy, FwdPop, TypeOK, QueueTypeOK
    <2>2. fwd.items = <<>> /\ Range(<<>>) = {}
      BY <1>a, <1>7, RangeOfEmpty DEF Proxy, FwdPop, HandsInv
    <2>3. Recs(items) \subseteq Pruned \cup Range(Popped(ForwardBatch)) \cup Recs(AfterPop(ForwardBatch))
      BY <1>a, <1>7, PoppedAndRest, QueueAssumption DEF Proxy, FwdPop, Pruned
    <2>4. Range(fwd'.items) = Range(Popped(ForwardBatch))
      BY <1>7, <2>2 DEF Proxy, FwdPop
    <2>5. QED
      BY <1>7, <2>1, <2>2, <2>3, <2>4 DEF Proxy, FwdPop, Somewhere, RecordsIn
  <1>8. CASE Proxy(FwdPush)
    <2> SUFFICES ASSUME NEW r \in published' \ lost'
                 PROVE  Somewhere(r)'
      OBVIOUS
    <2>1. r \in Records /\ Somewhere(r) /\ r \notin lost
      BY <1>a, <1>8 DEF Proxy, FwdPush, TypeOK, QueueTypeOK
    <2>2. Range(fwd.items) = {Head(fwd.items)} \cup Range(Tail(fwd.items)) /\ Head(fwd.items) \in Records
      BY <1>a, <1>8, ForwarderHolds DEF Proxy, FwdPush
    <2>3. QED
      BY <1>8, <2>1, <2>2 DEF Proxy, FwdPush, Somewhere, RecordsIn
  <1>9. CASE Proxy(FwdRequeue)
    <2> SUFFICES ASSUME NEW r \in published' \ lost'
                 PROVE  Somewhere(r)'
      OBVIOUS
    <2>1. r \in Records /\ Somewhere(r) /\ r \notin lost
      BY <1>a, <1>9 DEF Proxy, FwdRequeue, TypeOK, QueueTypeOK
    <2>2. /\ Head(fwd.items) \in Payloads
          /\ Range(fwd.items) = {Head(fwd.items)} \cup Range(Tail(fwd.items))
      BY <1>a, <1>9, ForwarderHolds DEF Proxy, FwdRequeue, Payloads
    <2>3. /\ \A c \in Conns : Range(subs[c].buf) \subseteq Range(subs'[c].buf)
          /\ enabled /\ Open # {} /\ ~NobodyHasRoom =>
                \E c \in Conns : Head(fwd.items) \in Range(subs'[c].buf)
      BY <1>a, <1>9, <2>2, OfferedHas DEF Proxy, FwdRequeue
    <2>4. /\ enabled /\ Open = {} => fwd'.items = fwd.items
          /\ ~(enabled /\ Open = {}) => fwd'.items = Tail(fwd.items)
      BY <1>a, <1>9 DEF Proxy, FwdRequeue, FwdRest, TypeOK, QueueTypeOK
    <2>5. /\ UNCHANGED <<mqueue, disp, items, home, rows, dead, run>>
          /\ ~enabled \/ (Open # {} /\ NobodyHasRoom) => Head(fwd.items) \in lost'
      BY <1>9 DEF Proxy, FwdRequeue
    <2>6. \/ r \in Range(fwd'.items)
          \/ \E c \in Conns : r \in Range(subs'[c].buf)
          \/ r \notin Range(fwd.items)
      BY <2>2, <2>3, <2>4, <2>5
    <2>7. QED
      BY <2>1, <2>3, <2>5, <2>6 DEF Somewhere, RecordsIn
  <1>10. CASE Proxy(FwdAppend)
    <2> SUFFICES ASSUME NEW r \in published' \ lost'
                 PROVE  Somewhere(r)'
      OBVIOUS
    <2>1. r \in Records /\ Somewhere(r) /\ r \notin lost
      BY <1>a, <1>10 DEF Proxy, FwdAppend, TypeOK, QueueTypeOK
    <2>2. Range(fwd.items) = {Head(fwd.items)} \cup Range(Tail(fwd.items)) /\ Head(fwd.items) \in Records
      BY <1>a, <1>10, ForwarderHolds DEF Proxy, FwdAppend
    <2>3. (Recs(items) \ Pruned) \cup {Head(fwd.items)} \subseteq Recs(items')
      BY <1>a, <1>10, <2>2, EnqueuedHas DEF Proxy, FwdAppend, Pruned
    <2>4. QED
      BY <1>10, <2>1, <2>2, <2>3 DEF Proxy, FwdAppend, Somewhere, RecordsIn, FwdRest
  <1>11. ASSUME NEW received \in BOOLEAN, Proxy(FwdPushFails(received)) PROVE
        NothingVanishes'
    <2> SUFFICES ASSUME NEW r \in published' \ lost'
                 PROVE  Somewhere(r)'
      OBVIOUS
    <2>1. r \in Records /\ Somewhere(r) /\ r \notin lost
      BY <1>a, <1>11 DEF Proxy, FwdPushFails, TypeOK, QueueTypeOK
    <2>2. fwd'.items = fwd.items
      BY <1>a, <1>11 DEF Proxy, FwdPushFails, TypeOK, QueueTypeOK
    <2>3. QED
      BY <1>11, <2>1, <2>2 DEF Proxy, FwdPushFails, Somewhere, RecordsIn
  <1>12. ASSUME NEW mode \in Modes, Start(mode) PROVE NothingVanishes'
    <2> SUFFICES ASSUME NEW r \in published' \ lost'
                 PROVE  Somewhere(r)'
      OBVIOUS
    <2>1. Somewhere(r)
      BY <1>a, <1>12 DEF Start
    <2>2. /\ \A x \in Conns \ {started + 1} : run'[x] = run[x]
          /\ started \in Nat /\ started + 1 \in Conns
      BY <1>a, <1>12, StartEdits DEF Edited
    <2>3. run[started + 1] = NotStarted
      BY <1>a, <2>2 DEF RunInv
    <2>4. run[started + 1].held = {}
      BY <2>3 DEF NotStarted
    <2>5. QED
      BY <1>12, <2>1, <2>2, <2>4 DEF Start, Somewhere, RecordsIn
  <1>13. ASSUME NEW c \in Conns, Cancelled(c) PROVE NothingVanishes'
    <2> SUFFICES ASSUME NEW r \in published' \ lost'
                 PROVE  Somewhere(r)'
      OBVIOUS
    <2>1. r \in Records /\ Somewhere(r) /\ r \notin lost
      BY <1>a, <1>13 DEF Cancelled, TypeOK, QueueTypeOK
    <2>2. /\ \A x \in Conns \ {c} : run'[x] = run[x]
          /\ run'[c].held = run[c].held
      BY <1>a, <1>13, CancelledEdits DEF Edited
    <2>3. QED
      BY <1>13, <2>1, <2>2 DEF Cancelled, Somewhere, RecordsIn
  <1>14. ASSUME NEW c \in Conns, Subscribe(c) PROVE NothingVanishes'
    <2> SUFFICES ASSUME NEW r \in published' \ lost'
                 PROVE  Somewhere(r)'
      OBVIOUS
    <2>1. r \in Records /\ Somewhere(r) /\ r \notin lost
      BY <1>a, <1>14 DEF Subscribe, TypeOK, QueueTypeOK
    <2>2. /\ \A x \in Conns \ {c} : run'[x] = run[x]
          /\ run'[c].held = run[c].held
      BY <1>a, <1>14, SubscribeEdits DEF Edited
    <2>3. Range(subs[c].buf) = {} /\ \A x \in Conns \ {c} : subs'[x] = subs[x]
      BY <1>a, <1>14, RangeOfEmpty DEF Subscribe, NoSub, TypeOK, QueueTypeOK
    <2>4. QED
      BY <1>14, <2>1, <2>2, <2>3 DEF Subscribe, Somewhere, RecordsIn
  <1>15. ASSUME NEW c \in Conns, NEW b \in BOOLEAN, DialFails(c, b) PROVE
        NothingVanishes'
    <2> SUFFICES ASSUME NEW r \in published' \ lost'
                 PROVE  Somewhere(r)'
      OBVIOUS
    <2>1. r \in Records /\ Somewhere(r) /\ r \notin lost
      BY <1>a, <1>15 DEF DialFails, TypeOK, QueueTypeOK
    <2>2. /\ \A x \in Conns \ {c} : run'[x] = run[x]
          /\ run'[c].held = run[c].held
      BY <1>a, <1>15, DialFailsEdits DEF Edited
    <2>3. \A x \in Conns : subs'[x].buf = subs[x].buf
      BY <1>a, <1>15 DEF DialFails, TypeOK, QueueTypeOK
    <2>4. QED
      BY <1>15, <2>1, <2>2, <2>3 DEF DialFails, Somewhere, RecordsIn
  <1>16. ASSUME NEW c \in Conns, ReadMessage(c) PROVE NothingVanishes'
    <2> SUFFICES ASSUME NEW r \in published' \ lost'
                 PROVE  Somewhere(r)'
      OBVIOUS
    <2>1. r \in Records /\ Somewhere(r) /\ r \notin lost
      BY <1>a, <1>16 DEF ReadMessage, TypeOK, QueueTypeOK
    <2>2. /\ \A x \in Conns \ {c} : run'[x] = run[x]
          /\ run'[c].held = {Head(subs[c].buf)}
      BY <1>a, <1>16, ReadMessageEdits DEF Edited
    <2>3. run[c].held = {}
      BY <1>a, <1>16 DEF ReadMessage, RunInv
    <2>4. subs[c].buf \in Seq(Payloads) /\ subs[c].buf # <<>>
      BY <1>a, <1>16 DEF ReadMessage, TypeOK, QueueTypeOK
    <2>5. Range(subs[c].buf) = {Head(subs[c].buf)} \cup Range(Tail(subs[c].buf))
      BY <2>4, RangeOfTail
    <2>6. /\ \A x \in Conns \ {c} : subs'[x] = subs[x]
          /\ subs'[c].buf = Tail(subs[c].buf)
      BY <1>a, <1>16 DEF ReadMessage, TypeOK, QueueTypeOK
    <2>7. QED
      BY <1>16, <2>1, <2>2, <2>3, <2>4, <2>5, <2>6 DEF ReadMessage, Somewhere, RecordsIn
  <1>17. ASSUME NEW c \in Conns, ReadFails(c) PROVE NothingVanishes'
    <2> SUFFICES ASSUME NEW r \in published' \ lost'
                 PROVE  Somewhere(r)'
      OBVIOUS
    <2>1. r \in Records /\ Somewhere(r) /\ r \notin lost
      BY <1>a, <1>17 DEF ReadFails, TypeOK, QueueTypeOK
    <2>2. /\ \A x \in Conns \ {c} : run'[x] = run[x]
          /\ run'[c].held = run[c].held
      BY <1>a, <1>17, ReadFailsEdits DEF Edited
    <2>3. QED
      BY <1>17, <2>1, <2>2 DEF ReadFails, Somewhere, RecordsIn
  <1>18. ASSUME NEW c \in Conns, ServerNotices(c) PROVE NothingVanishes'
    <2> SUFFICES ASSUME NEW r \in published' \ lost'
                 PROVE  Somewhere(r)'
      OBVIOUS
    <2>1. r \in Records /\ Somewhere(r) /\ r \notin lost
      BY <1>a, <1>18 DEF ServerNotices, TypeOK, QueueTypeOK
    <2>2. \A x \in Conns \ {c} : subs'[x] = subs[x]
      BY <1>a, <1>18 DEF ServerNotices, TypeOK, QueueTypeOK
    <2>3. QED
      BY <1>18, <2>1, <2>2 DEF ServerNotices, Somewhere, RecordsIn, runVars, dbVars
  <1>19. ASSUME NEW c \in Conns, Pop(c) PROVE NothingVanishes'
    <2> SUFFICES ASSUME NEW r \in published' \ lost'
                 PROVE  Somewhere(r)'
      OBVIOUS
    <2>1. r \in Records /\ Somewhere(r) /\ r \notin lost
      BY <1>a, <1>19 DEF Pop, TypeOK, QueueTypeOK
    <2>2. IF Popped(BatchSize) = <<>> THEN UNCHANGED run
          ELSE /\ \A x \in Conns \ {c} : run'[x] = run[x]
               /\ run'[c].held = Range(Popped(BatchSize))
      BY <1>a, <1>19, PopEdits DEF Edited
    <2>3. run[c].held = {}
      BY <1>a, <1>19 DEF Pop, RunInv
    <2>4. Recs(items) \subseteq Pruned \cup Range(Popped(BatchSize)) \cup Recs(AfterPop(BatchSize))
      BY <1>a, <1>19, PoppedAndRest, CollectorAssumption DEF Pop, Pruned
    <2>5. Range(<<>>) = {}
      BY RangeOfEmpty
    <2>6. QED
      BY <1>19, <2>1, <2>2, <2>3, <2>4, <2>5 DEF Pop, Somewhere, RecordsIn
  <1>20. ASSUME NEW c \in Conns, NEW b \in BOOLEAN, PopFails(c, b) PROVE
        NothingVanishes'
    <2> SUFFICES ASSUME NEW r \in published' \ lost'
                 PROVE  Somewhere(r)'
      OBVIOUS
    <2>1. r \in Records /\ Somewhere(r) /\ r \notin lost
      BY <1>a, <1>20 DEF PopFails, TypeOK, QueueTypeOK
    <2>2. /\ \A x \in Conns \ {c} : run'[x] = run[x]
          /\ run'[c].held = run[c].held
      BY <1>a, <1>20, PopFailsEdits DEF Edited
    <2>3. AfterPop(BatchSize) = items \/ enabled
      BY <1>a DEF AfterPop, TypeOK, QueueTypeOK
    <2>4. enabled => Recs(items) \subseteq Pruned \cup Range(Popped(BatchSize)) \cup Recs(AfterPop(BatchSize))
      BY <1>a, PoppedAndRest, CollectorAssumption DEF Pruned
    <2>5. QED
      BY <1>20, <2>1, <2>2, <2>3, <2>4 DEF PopFails, Somewhere, RecordsIn, PruneLoss
  <1>21. ASSUME NEW c \in Conns, Unsupported(c) PROVE NothingVanishes'
    <2> SUFFICES ASSUME NEW r \in published' \ lost'
                 PROVE  Somewhere(r)'
      OBVIOUS
    <2>1. r \in Records /\ Somewhere(r) /\ r \notin lost
      BY <1>a, <1>21 DEF Unsupported, TypeOK, QueueTypeOK
    <2>2. /\ \A x \in Conns \ {c} : run'[x] = run[x]
          /\ run'[c].held = run[c].held
      BY <1>a, <1>21, UnsupportedEdits DEF Edited
    <2>3. QED
      BY <1>21, <2>1, <2>2 DEF Unsupported, Somewhere, RecordsIn
  <1>22. ASSUME NEW c \in Conns, DialRESP(c) PROVE NothingVanishes'
    <2> SUFFICES ASSUME NEW r \in published' \ lost'
                 PROVE  Somewhere(r)'
      OBVIOUS
    <2>1. r \in Records /\ Somewhere(r) /\ r \notin lost
      BY <1>a, <1>22 DEF DialRESP, TypeOK, QueueTypeOK
    <2>2. /\ \A x \in Conns \ {c} : run'[x] = run[x]
          /\ run'[c].held = run[c].held
      BY <1>a, <1>22, DialRESPEdits DEF Edited
    <2>3. QED
      BY <1>22, <2>1, <2>2 DEF DialRESP, Somewhere, RecordsIn
  <1>23. ASSUME NEW c \in Conns, NEW saved \in SUBSET Malformed, Normalize(c,
        saved) PROVE NothingVanishes'
    <2> SUFFICES ASSUME NEW r \in published' \ lost'
                 PROVE  Somewhere(r)'
      OBVIOUS
    <2>1. r \in Records /\ Somewhere(r) /\ r \notin lost
      BY <1>a, <1>23 DEF Normalize, TypeOK, QueueTypeOK
    <2>2. /\ \A x \in Conns \ {c} : run'[x] = run[x]
          /\ run'[c].held = run[c].held \ Malformed
      BY <1>a, <1>23, NormalizeEdits DEF Edited
    <2>3. QED
      BY <1>23, <2>1, <2>2 DEF Normalize, Somewhere, RecordsIn, Bad
  <1>24. ASSUME NEW c \in Conns, InsertEvents(c) PROVE NothingVanishes'
    <2> SUFFICES ASSUME NEW r \in published' \ lost'
                 PROVE  Somewhere(r)'
      OBVIOUS
    <2>1. r \in Records /\ Somewhere(r) /\ r \notin lost
      BY <1>a, <1>24 DEF InsertEvents, TypeOK, QueueTypeOK
    <2>2. /\ \A x \in Conns \ {c} : run'[x] = run[x]
          /\ run'[c].held = run[c].held
      BY <1>a, <1>24, InsertEventsEdits DEF Edited
    <2>3. QED
      BY <1>24, <2>1, <2>2 DEF InsertEvents, Somewhere, RecordsIn
  <1>25. ASSUME NEW c \in Conns, InsertFails(c) PROVE NothingVanishes'
    <2> SUFFICES ASSUME NEW r \in published' \ lost'
                 PROVE  Somewhere(r)'
      OBVIOUS
    <2>1. r \in Records /\ Somewhere(r) /\ r \notin lost
      BY <1>a, <1>25 DEF InsertFails, TypeOK, QueueTypeOK
    <2>2. /\ \A x \in Conns \ {c} : run'[x] = run[x]
          /\ run'[c].held = {}
      BY <1>a, <1>25, InsertFailsEdits DEF Edited
    <2>3. QED
      BY <1>25, <2>1, <2>2 DEF InsertFails, Somewhere, RecordsIn, dbVars
  <1>26. ASSUME NEW c \in Conns, ProcessUsageEvents(c) PROVE NothingVanishes'
    <2> SUFFICES ASSUME NEW r \in published' \ lost'
                 PROVE  Somewhere(r)'
      OBVIOUS
    <2>1. r \in Records /\ Somewhere(r) /\ r \notin lost
      BY <1>a, <1>26 DEF ProcessUsageEvents, TypeOK, QueueTypeOK
    <2>2. /\ \A x \in Conns \ {c} : run'[x] = run[x]
          /\ run'[c].held = {}
      BY <1>a, <1>26, ProcessUsageEventsEdits DEF Edited
    <2>3. run[c].held \subseteq rows
      BY <1>a, <1>26 DEF ProcessUsageEvents, RunInv
    <2>4. QED
      BY <1>26, <2>1, <2>2, <2>3 DEF ProcessUsageEvents, Somewhere, RecordsIn
  <1>27. CASE Proxy(StopManager) \/ Proxy(Tick) \/ Stop
    <2>1. UNCHANGED <<published, mqueue, disp, items, subs, fwd, home, lost,
run, rows, dead>>
      BY <1>27 DEF StopManager, Tick, Stop, Proxy, Event, Cancel
    <2>2. QED
      BY <1>a, <2>1
  <1>28. CASE UNCHANGED vars
    BY <1>a, <1>28 DEF vars
  <1>29. QED
    BY <1>1, <1>2, <1>3, <1>4, <1>5, <1>6, <1>7, <1>8, <1>9, <1>10, <1>11,
       <1>12, <1>13, <1>14, <1>15, <1>16, <1>17, <1>18, <1>19, <1>20, <1>21,
       <1>22, <1>23, <1>24, <1>25, <1>26, <1>27, <1>28
       DEF Next, Running

(* A run that has subscribed stays one that has. *)
LEMMA SubscribedStays ==
    ASSUME IndInv, [Next]_vars
    PROVE  \A x \in Conns : run[x].subscribed => run'[x].subscribed
  <1> USE DEF proxyVars, mgrVars, queueVars, fwdVars, envVars, runVars, dbVars
  <1>a. TypeOK /\ RunInv /\ SubscriberInv
    BY DEF IndInv
  <1>1. ASSUME NEW mode \in Modes, Start(mode) PROVE \A x \in Conns :
        run[x].subscribed => run'[x].subscribed
    <2>1. /\ \A x \in Conns \ {started + 1} : run'[x] = run[x]
          /\ started \in Nat /\ started + 1 \in Conns
      BY <1>a, <1>1, StartEdits DEF Edited
    <2>2. run[started + 1].subscribed = FALSE
      BY <1>a, <2>1 DEF RunInv, NotStarted
    <2>3. QED
      BY <2>1, <2>2
  <1>2. ASSUME NEW c \in Conns, Cancelled(c) PROVE \A x \in Conns :
        run[x].subscribed => run'[x].subscribed
    BY <1>a, <1>2, CancelledEdits DEF Edited
  <1>3. ASSUME NEW c \in Conns, Subscribe(c) PROVE \A x \in Conns :
        run[x].subscribed => run'[x].subscribed
    BY <1>a, <1>3, SubscribeEdits DEF Edited
  <1>4. ASSUME NEW c \in Conns, NEW b \in BOOLEAN, DialFails(c, b) PROVE \A x
        \in Conns : run[x].subscribed => run'[x].subscribed
    BY <1>a, <1>4, DialFailsEdits DEF Edited
  <1>5. ASSUME NEW c \in Conns, ReadMessage(c) PROVE \A x \in Conns :
        run[x].subscribed => run'[x].subscribed
    BY <1>a, <1>5, ReadMessageEdits DEF Edited
  <1>6. ASSUME NEW c \in Conns, ReadFails(c) PROVE \A x \in Conns :
        run[x].subscribed => run'[x].subscribed
    BY <1>a, <1>6, ReadFailsEdits DEF Edited
  <1>7. ASSUME NEW c \in Conns, Pop(c) PROVE \A x \in Conns : run[x].subscribed
        => run'[x].subscribed
    BY <1>a, <1>7, PopEdits DEF Edited, Pop
  <1>8. ASSUME NEW c \in Conns, NEW b \in BOOLEAN, PopFails(c, b) PROVE \A x
        \in Conns : run[x].subscribed => run'[x].subscribed
    BY <1>a, <1>8, PopFailsEdits DEF Edited
  <1>9. ASSUME NEW c \in Conns, Unsupported(c) PROVE \A x \in Conns :
        run[x].subscribed => run'[x].subscribed
    BY <1>a, <1>9, UnsupportedEdits DEF Edited
  <1>10. ASSUME NEW c \in Conns, DialRESP(c) PROVE \A x \in Conns :
        run[x].subscribed => run'[x].subscribed
    BY <1>a, <1>10, DialRESPEdits DEF Edited
  <1>11. ASSUME NEW c \in Conns, NEW saved \in SUBSET Malformed, Normalize(c,
        saved) PROVE \A x \in Conns : run[x].subscribed => run'[x].subscribed
    BY <1>a, <1>11, NormalizeEdits DEF Edited
  <1>12. ASSUME NEW c \in Conns, InsertEvents(c) PROVE \A x \in Conns :
        run[x].subscribed => run'[x].subscribed
    BY <1>a, <1>12, InsertEventsEdits DEF Edited
  <1>13. ASSUME NEW c \in Conns, InsertFails(c) PROVE \A x \in Conns :
        run[x].subscribed => run'[x].subscribed
    BY <1>a, <1>13, InsertFailsEdits DEF Edited
  <1>14. ASSUME NEW c \in Conns, ProcessUsageEvents(c) PROVE \A x \in Conns :
        run[x].subscribed => run'[x].subscribed
    BY <1>a, <1>14, ProcessUsageEventsEdits DEF Edited
  <1>15. CASE (\E rr \in Records : Proxy(Publish(rr))) \/ Proxy(StopManager) \/
            Proxy(Take) \/ Proxy(Offer) \/ Proxy(AppendItem) \/
            Proxy(SetEnabled) \/ Proxy(NotifyUsageRefresh) \/ Proxy(Tick) \/
            Proxy(FwdPop) \/ Proxy(FwdPush) \/ Proxy(FwdRequeue) \/
            Proxy(FwdAppend) \/ (\E received \in BOOLEAN :
            Proxy(FwdPushFails(received))) \/ Stop \/ (\E c \in Conns :
            ServerNotices(c))
    <2>1. UNCHANGED <<run>>
      BY <1>15 DEF Publish, StopManager, Take, Offer, AppendItem, SetEnabled,
             NotifyUsageRefresh, Tick, FwdPop, FwdPush, FwdRequeue, FwdAppend,
             FwdPushFails, Stop, ServerNotices, Proxy, Waiting, Event, FwdRest,
             Cancel, NoSub
    <2>2. QED
      BY <1>a, <2>1
  <1>16. CASE UNCHANGED vars
    BY <1>a, <1>16 DEF vars
  <1>17. QED
    BY <1>1, <1>2, <1>3, <1>4, <1>5, <1>6, <1>7, <1>8, <1>9, <1>10, <1>11,
       <1>12, <1>13, <1>14, <1>15, <1>16
       DEF Next, Running

-----------------------------------------------------------------------------
(* Every step keeps the types of the proxy. *)
LEMMA QueueTypeStep ==
    ASSUME IndInv, [Next]_vars
    PROVE  QueueTypeOK'
  <1>1. /\ ClockType' /\ FlagsType' /\ SetsType' /\ MqueueType'
        /\ DispType' /\ FwdType' /\ ItemsType' /\ SubsType'
    BY ClockStep, FlagsStep, SetsStep, MqueueStep, DispStep, FwdStep, ItemsStep,
       SubsStep
  <1>2. QED
    BY <1>1 DEF QueueTypeOK, ClockType, FlagsType, SetsType, MqueueType, DispType,
                FwdType, ItemsType, SubsType

LEMMA InitInv ==
    ASSUME Init
    PROVE  IndInv
  <1> USE DEF Init, QueueInit
  <1>1. QueueTypeOK
    <2>1. /\ ClockType /\ FlagsType /\ SetsType /\ MqueueType /\ FwdType /\ ItemsType
      <3>0. ClockType
        BY QueueAssumption DEF ClockType
      <3>1. FlagsType /\ SetsType
        BY DEF FlagsType, SetsType
      <3>2. \A S : <<>> \in Seq(S)
        OBVIOUS
      <3>3. MqueueType /\ FwdType
        BY <3>2 DEF MqueueType, FwdType
      <3>4. ItemsType
        BY <3>2 DEF ItemsType
      <3>5. QED
        BY <3>0, <3>1, <3>3, <3>4
    <2>2. DispType
      BY DEF DispType, Waiting
    <2>3. SubsType
      BY QueueAssumption DEF SubsType, NoSub
    <2>4. QED
      BY <2>1, <2>2, <2>3, QueueTypeParts
  <1>2. CollectorTypeOK
    <2>1. Cardinality(Conns) \in Nat
      BY CollectorAssumption, FS_CardinalityType
    <2>2. NotStarted \in Runs
      BY DEF NotStarted, Runs, Stages
    <2>3. QED
      BY <2>1, <2>2 DEF CollectorTypeOK
  <1>3. HandsInv
    BY DEF HandsInv, Waiting
  <1>4. RunInv /\ SubscriberInv
    BY DEF RunInv, SubscriberInv, NotStarted
  <1>5. NothingVanishes
    BY DEF NothingVanishes
  <1>6. QED
    BY <1>1, <1>2, <1>3, <1>4, <1>5 DEF IndInv, TypeOK

LEMMA StepInv ==
    ASSUME IndInv, [Next]_vars
    PROVE  IndInv'
  BY QueueTypeStep, CollectorTypeStep, HandsStep, RunStep, SubscriberStep,
     VanishStep DEF IndInv, TypeOK

(* The inductive invariant holds in every state of every behaviour. *)
THEOREM Invariance == Spec => []IndInv
  <1>1. Init => IndInv
    BY InitInv
  <1>2. IndInv /\ [Next]_vars => IndInv'
    BY StepInv
  <1>3. QED
    BY <1>1, <1>2, PTL DEF Spec

(* Type correctness of the proxy's queue and of the collector. *)
THEOREM TypeCorrect == Spec => []TypeOK
  <1>1. IndInv => TypeOK
    BY DEF IndInv
  <1>2. QED
    BY <1>1, Invariance, PTL

(* However requests, reloads, disconnections, restarts of the collector and  *)
(* failures interleave, a published record has its row or dead letter, is    *)
(* with Home, is still in a queue, in a channel or in a hand, or was given   *)
(* up at one of the places of the code that accept it.                       *)
THEOREM NoRecordVanishes == Spec => []NothingVanishes
  <1>1. IndInv => NothingVanishes
    BY DEF IndInv
  <1>2. QED
    BY <1>1, Invariance, PTL

(* A run that has subscribed once never polls the queue that other consumers *)
(* may be waiting for.                                                       *)
THEOREM SubscribersNeverPoll == Spec => SubscriberNeverPolls
  <1>1. ASSUME IndInv, IndInv', [Next]_vars
        PROVE  [\A c \in Conns :
                   run[c].subscribed => run'[c].pc \notin {"poll", "resp"}]_vars
    <2>1. CASE UNCHANGED vars
      BY <2>1
    <2>2. CASE ~UNCHANGED vars
      <3>1. SUFFICES ASSUME NEW c \in Conns, run[c].subscribed
                     PROVE  run'[c].pc \notin {"poll", "resp"}
        OBVIOUS
      <3>2. run'[c].subscribed
        BY <1>1, <2>2, <3>1, SubscribedStays
      <3>3. QED
        BY <1>1, <3>2 DEF IndInv, SubscriberInv
    <2>3. QED
      BY <2>1, <2>2
  <1>2. QED
    BY <1>1, Invariance, PTL DEF Spec, SubscriberNeverPolls

=============================================================================
