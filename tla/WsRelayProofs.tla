---------------------------- MODULE WsRelayProofs ----------------------------
(* Proofs about the relay, for any number of sessions and requests and any    *)
(* capacity of the channels.                                                *)
(*                                                                           *)
(* The records of calls have nine fields: what an action does to them is      *)
(* stated once, field by field, and every part of the invariant is proved     *)
(* from those statements.                                                   *)
EXTENDS WsRelay, TLAPS, SequenceTheorems, FiniteSetTheorems

-----------------------------------------------------------------------------
(* The effect of the actions that rewrite a call.                           *)

(* A record of a call after a send that does not wait. *)
LEMMA OfferedCall ==
    ASSUME NEW q \in Calls, NEW m \in Messages
    PROVE  /\ Offered(q, m) \in Calls
           /\ Offered(q, m).pc = q.pc /\ Offered(q, m).mode = q.mode
           /\ Offered(q, m).sess = q.sess /\ Offered(q, m).open = q.open
           /\ Offered(q, m).watched = q.watched
           /\ Offered(q, m).streaming = q.streaming
           /\ Offered(q, m).body = q.body
           /\ ~Offered(q, m).lost =>
                ~q.lost /\ Offered(q, m).buf = Append(q.buf, m)
  <1>1. Append(q.buf, m) \in Seq(Messages)
    BY DEF Calls
  <1>2. CASE Len(q.buf) < BufferSize
    BY <1>1, <1>2 DEF Offered, Calls
  <1>3. CASE ~(Len(q.buf) < BufferSize)
    BY <1>3 DEF Offered, Calls
  <1>4. QED
    BY <1>2, <1>3

(* What cleanup does to the call whose channel it closes. *)
RangeSendDoes(s) ==
    LET r == clean[s].r IN
    /\ r \in Requests /\ clean[s].pc = "send" /\ req[r].open
    /\ req[r].sess = s /\ req[r].pc \notin {"new", "store"}
    /\ \A x \in Requests \ {r} : req'[x] = req[x]
    /\ req' \in [Requests -> Calls]
    /\ clean' \in [Sessions -> Cleanups]
    /\ req'[r] \in Calls
    /\ req'[r].pc = req[r].pc /\ req'[r].sess = req[r].sess
    /\ req'[r].watched = req[r].watched /\ req'[r].body = req[r].body
    /\ ~req'[r].open
    /\ ~req'[r].lost =>
          ~req[r].lost /\ req'[r].buf = Append(req[r].buf, "error")
    /\ \A t \in Sessions \ {s} : clean'[t] = clean[t]
    /\ clean'[s].pc = "range" /\ clean'[s].must = clean[s].must
    /\ clean'[s].seen = clean[s].seen
    /\ UNCHANGED <<sessVars, reader, pending, cancelled, client,
                   stopping, crashed>>

(* RangeSend has the effect that RangeSendDoes states. *)
LEMMA RangeSendEffect ==
    ASSUME TypeOK, RangeInv, NEW s \in Sessions, RangeSend(s),
           req[clean[s].r].open
    PROVE  RangeSendDoes(s)
  <1> DEFINE r == clean[s].r
             q == Offered(req[r], "error")
  <1>1. /\ r \in Requests /\ req[r].sess = s /\ req \in [Requests -> Calls]
        /\ req[r].pc \notin {"new", "store"}
    BY DEF RangeSend, RangeInv, TypeOK, Readers, Cleanups
  <1>2. /\ req' = [req EXCEPT ![r] = [q EXCEPT !.open = FALSE]]
        /\ req[r].open
        /\ clean[s].pc = "send"
        /\ clean' = [clean EXCEPT ![s].pc = "range", ![s].r = NoRequest]
        /\ UNCHANGED <<sessVars, reader, pending, cancelled, client, stopping,
                       crashed>>
    BY <1>1 DEF RangeSend
  <1>3. /\ q \in Calls
        /\ q.pc = req[r].pc /\ q.sess = req[r].sess
        /\ q.watched = req[r].watched /\ q.body = req[r].body
        /\ ~q.lost => ~req[r].lost /\ q.buf = Append(req[r].buf, "error")
    BY <1>1, OfferedCall DEF Messages
  <1> HIDE DEF q, r
  <1>4. req'[r] = [q EXCEPT !.open = FALSE]
    BY <1>1, <1>2
  <1>5. /\ req'[r] \in Calls
        /\ req'[r].pc = req[r].pc /\ req'[r].sess = req[r].sess
        /\ req'[r].watched = req[r].watched /\ req'[r].body = req[r].body
        /\ ~req'[r].open
        /\ ~req'[r].lost =>
                 ~req[r].lost /\ req'[r].buf = Append(req[r].buf, "error")
    BY <1>3, <1>4 DEF Calls
  <1>6. /\ \A x \in Requests \ {r} : req'[x] = req[x]
        /\ \A t \in Sessions \ {s} : clean'[t] = clean[t]
        /\ clean'[s].pc = "range" /\ clean'[s].must = clean[s].must
        /\ clean'[s].seen = clean[s].seen
    BY <1>1, <1>2 DEF TypeOK, Readers, Cleanups
  <1>t0. req' \in [Requests -> Calls]
    BY <1>1, <1>2, <1>5 DEF TypeOK
  <1>t1. clean' \in [Sessions -> Cleanups]
    <2>1. clean' = [clean EXCEPT ![s].pc = "range", ![s].r = NoRequest]
      BY <1>2
    <2>2. clean \in [Sessions -> Cleanups] /\ clean[s] \in Cleanups
      BY DEF TypeOK
    <2>3. [clean[s] EXCEPT !.pc = "range", !.r = NoRequest] \in Cleanups
      BY <2>2 DEF Cleanups
    <2>4. clean'
            = [clean EXCEPT ![s] =
                 [clean[s] EXCEPT !.pc = "range", !.r = NoRequest]]
      BY <2>1, <2>2
    <2>5. QED
      BY <2>2, <2>3, <2>4
  <1>7. QED
    BY <1>t0, <1>t1, <1>1, <1>2, <1>5, <1>6 DEF r, RangeSendDoes

(* What the reader does to the call whose message it has. *)
DispatchSendDoes(s) ==
    LET r == reader[s].r
        m == reader[s].m IN
    /\ r \in Requests /\ m \in Messages
    /\ reader[s].pc = "send" /\ req[r].open /\ req[r].sess = s
    /\ \A x \in Requests \ {r} : req'[x] = req[x]
    /\ req' \in [Requests -> Calls]
    /\ reader' \in [Sessions -> Readers]
    /\ req'[r] \in Calls
    /\ req'[r].pc = req[r].pc /\ req'[r].sess = req[r].sess
    /\ req'[r].watched = req[r].watched /\ req'[r].body = req[r].body
    /\ req'[r].open = req[r].open
    /\ ~req'[r].lost =>
          ~req[r].lost /\ req'[r].buf = Append(req[r].buf, m)
    /\ \A t \in Sessions \ {s} : reader'[t] = reader[t]
    /\ reader'[s].pc = (IF m \in Terminal THEN "finish" ELSE "read")
    /\ reader'[s].r = r /\ reader'[s].m = m
    /\ UNCHANGED <<sessVars, clean, pending, cancelled, client,
                   stopping, crashed>>

(* DispatchSend has the effect that DispatchSendDoes states. *)
LEMMA DispatchSendEffect ==
    ASSUME TypeOK, ReaderInv, NEW s \in Sessions, DispatchSend(s),
           req[reader[s].r].open
    PROVE  DispatchSendDoes(s)
  <1> DEFINE r == reader[s].r
             m == reader[s].m
             q == Offered(req[r], m)
  <1>1. /\ r \in Requests /\ m \in Messages /\ req \in [Requests -> Calls]
        /\ req[r].sess = s
    BY DEF DispatchSend, ReaderInv, TypeOK, Readers, Cleanups
  <1>2. /\ req' = [req EXCEPT ![r] = q]
        /\ req[r].open
        /\ reader[s].pc = "send"
        /\ reader' = [reader EXCEPT ![s].pc =
                        IF m \in Terminal THEN "finish" ELSE "read"]
        /\ UNCHANGED <<sessVars, clean, pending, cancelled, client, stopping,
                       crashed>>
    BY <1>1 DEF DispatchSend
  <1> HIDE DEF r, m
  <1>x. req[r] \in Calls
    BY <1>1
  <1>3. /\ q \in Calls
        /\ q.pc = req[r].pc /\ q.sess = req[r].sess /\ q.open = req[r].open
        /\ q.watched = req[r].watched /\ q.body = req[r].body
        /\ ~q.lost => ~req[r].lost /\ q.buf = Append(req[r].buf, m)
    BY <1>1, <1>x, OfferedCall
  <1> HIDE DEF q
  <1>4. req'[r] = q
    BY <1>1, <1>2
  <1>5. /\ \A x \in Requests \ {r} : req'[x] = req[x]
        /\ \A t \in Sessions \ {s} : reader'[t] = reader[t]
        /\ reader'[s].pc = IF m \in Terminal THEN "finish" ELSE "read"
        /\ reader'[s].r = reader[s].r /\ reader'[s].m = reader[s].m
    BY <1>1, <1>2 DEF TypeOK, Readers, Cleanups
  <1>t0. req' \in [Requests -> Calls]
    BY <1>1, <1>2, <1>3 DEF TypeOK
  <1>t1. reader' \in [Sessions -> Readers]
    <2> DEFINE p == IF m \in Terminal THEN "finish" ELSE "read"
    <2>1. reader' = [reader EXCEPT ![s].pc = p] /\ p \in {"finish", "read"}
      BY <1>2
    <2> HIDE DEF p
    <2>2. QED
      BY <2>1, SMTT(30) DEF TypeOK, Readers
  <1>6. QED
    BY <1>t0, <1>t1, <1>1, <1>2, <1>3, <1>4, <1>5 DEF r, m, DispatchSendDoes

(* What removal from the map does, for whoever finds the request there. *)
RemovedDoes(r, q) ==
    /\ \A x \in Requests \ {r} : req'[x] = req[x]
    /\ req' \in [Requests -> Calls]
    /\ pending' \in [Sessions -> SUBSET Requests]
    /\ req'[r] \in Calls
    /\ req'[r].pc = q.pc /\ req'[r].sess = q.sess
    /\ req'[r].watched = q.watched /\ req'[r].body = q.body
    /\ req'[r].lost = q.lost /\ req'[r].buf = q.buf
    /\ req'[r].open <=> q.open /\ r \notin pending[req[r].sess]
    /\ \A t \in Sessions, x \in Requests : x \in pending'[t] <=>
          x \in pending[t] /\ ~(t = req[r].sess /\ x = r)

(* Removed has the effect that RemovedDoes states. *)
LEMMA RemovedEffect ==
    ASSUME TypeOK, NEW r \in Requests, NEW q \in Calls, Removed(r, q)
    PROVE  RemovedDoes(r, q)
  <1> DEFINE b == q.open /\ r \notin pending[req[r].sess]
  <1>1. /\ req' = [req EXCEPT ![r] = [q EXCEPT !.open = b]]
        /\ pending' = [pending EXCEPT ![req[r].sess] = @ \ {r}]
    BY DEF Removed
  <1>2. req'[r] = [q EXCEPT !.open = b]
    BY <1>1 DEF TypeOK, Readers, Cleanups
  <1>3. b \in BOOLEAN
    BY DEF Calls
  <1> HIDE DEF b
  <1>5. /\ req'[r] \in Calls
        /\ req'[r].pc = q.pc /\ req'[r].sess = q.sess
        /\ req'[r].watched = q.watched /\ req'[r].body = q.body
        /\ req'[r].lost = q.lost /\ req'[r].buf = q.buf
        /\ req'[r].open = b
    BY <1>2, <1>3 DEF Calls
  <1>6. /\ \A x \in Requests \ {r} : req'[x] = req[x]
        /\ \A t \in Sessions, x \in Requests : x \in pending'[t] <=>
          x \in pending[t] /\ ~(t = req[r].sess /\ x = r)
    BY <1>1 DEF TypeOK, Readers, Cleanups
  <1>t0. req' \in [Requests -> Calls]
    BY <1>1, <1>2, <1>5 DEF TypeOK
  <1>t1. pending' \in [Sessions -> SUBSET Requests]
    BY <1>1, <1>2, <1>5 DEF TypeOK
  <1>7. QED
    BY <1>t0, <1>t1, <1>5, <1>6 DEF b, RemovedDoes

(* What the undoing of a failed send does. *)
UndoDoes(r) ==
    /\ req[r].pc = "undo" /\ req[r] \in Calls
    /\ \A x \in Requests \ {r} : req'[x] = req[x]
    /\ req' \in [Requests -> Calls]
    /\ pending' \in [Sessions -> SUBSET Requests]
    /\ req'[r] \in Calls
    /\ req'[r].pc = "failed" /\ req'[r].sess = req[r].sess
    /\ req'[r].watched = req[r].watched /\ req'[r].body = req[r].body
    /\ req'[r].lost = req[r].lost /\ req'[r].buf = req[r].buf
    /\ req'[r].open <=> req[r].open /\ r \notin pending[req[r].sess]
    /\ \A t \in Sessions, x \in Requests : x \in pending'[t] <=>
          x \in pending[t] /\ ~(t = req[r].sess /\ x = r)
    /\ UNCHANGED <<sessVars, reader, clean, stopping, cancelled, crashed,
                   client>>

(* Undo has the effect that UndoDoes states. *)
LEMMA UndoEffect ==
    ASSUME TypeOK, NEW r \in Requests, Undo(r)
    PROVE  UndoDoes(r)
  <1> DEFINE q == [req[r] EXCEPT !.pc = "failed"]
  <1>1. req[r] \in Calls
    BY DEF TypeOK, Readers, Cleanups
  <1>2. q \in Calls
    BY <1>1 DEF Calls
  <1>3. /\ q.pc = "failed" /\ q.sess = req[r].sess /\ q.buf = req[r].buf
        /\ q.watched = req[r].watched /\ q.body = req[r].body
        /\ q.lost = req[r].lost /\ q.open = req[r].open
    BY <1>1 DEF Calls
  <1>4. /\ Removed(r, q) /\ req[r].pc = "undo"
        /\ UNCHANGED <<sessVars, reader, clean, stopping, cancelled, crashed,
                       client>>
    BY DEF Undo, UnchangedByRequest
  <1> HIDE DEF q
  <1>5. QED
    BY <1>1, <1>2, <1>3, <1>4, RemovedEffect DEF RemovedDoes, UndoDoes

(* What the watcher of a context does. *)
WatchCancelledDoes(r) ==
    /\ req[r].watched /\ r \in cancelled /\ req[r] \in Calls
    /\ \A x \in Requests \ {r} : req'[x] = req[x]
    /\ req' \in [Requests -> Calls]
    /\ pending' \in [Sessions -> SUBSET Requests]
    /\ req'[r] \in Calls
    /\ req'[r].pc = req[r].pc /\ req'[r].sess = req[r].sess
    /\ ~req'[r].watched /\ req'[r].body = req[r].body
    /\ req'[r].lost = req[r].lost /\ req'[r].buf = req[r].buf
    /\ req'[r].open <=> req[r].open /\ r \notin pending[req[r].sess]
    /\ \A t \in Sessions, x \in Requests : x \in pending'[t] <=>
          x \in pending[t] /\ ~(t = req[r].sess /\ x = r)
    /\ UNCHANGED <<sessVars, reader, clean, stopping, cancelled, crashed,
                   client>>

(* WatchCancelled has the effect that WatchCancelledDoes states. *)
LEMMA WatchCancelledEffect ==
    ASSUME TypeOK, NEW r \in Requests, WatchCancelled(r)
    PROVE  WatchCancelledDoes(r)
  <1> DEFINE q == [req[r] EXCEPT !.watched = FALSE]
  <1>1. req[r] \in Calls
    BY DEF TypeOK, Readers, Cleanups
  <1>2. q \in Calls
    BY <1>1 DEF Calls
  <1>3. /\ q.pc = req[r].pc /\ q.sess = req[r].sess /\ q.buf = req[r].buf
        /\ ~q.watched /\ q.body = req[r].body
        /\ q.lost = req[r].lost /\ q.open = req[r].open
    BY <1>1 DEF Calls
  <1>4. /\ Removed(r, q) /\ req[r].watched /\ r \in cancelled
        /\ UNCHANGED <<sessVars, reader, clean, stopping, cancelled, crashed,
                       client>>
    BY DEF WatchCancelled, UnchangedByRequest
  <1> HIDE DEF q
  <1>5. QED
    BY <1>1, <1>2, <1>3, <1>4, RemovedEffect
       DEF RemovedDoes, WatchCancelledDoes

(* What the reader does after a final message. *)
DispatchFinishDoes(s) ==
    LET r == reader[s].r IN
    /\ reader[s].pc = "finish" /\ req[r] \in Calls
    /\ r \in Requests /\ req[r].sess = s
    /\ \A x \in Requests \ {r} : req'[x] = req[x]
    /\ req' \in [Requests -> Calls]
    /\ pending' \in [Sessions -> SUBSET Requests]
    /\ reader' \in [Sessions -> Readers]
    /\ req'[r] \in Calls
    /\ req'[r].pc = req[r].pc /\ req'[r].sess = req[r].sess
    /\ req'[r].watched = req[r].watched /\ req'[r].body = req[r].body
    /\ req'[r].lost = req[r].lost /\ req'[r].buf = req[r].buf
    /\ req'[r].open <=> req[r].open /\ r \notin pending[s]
    /\ \A t \in Sessions, x \in Requests : x \in pending'[t] <=>
          x \in pending[t] /\ ~(t = s /\ x = r)
    /\ \A t \in Sessions \ {s} : reader'[t] = reader[t]
    /\ reader'[s].pc = "read" /\ reader'[s].r = r
    /\ reader'[s].m = reader[s].m
    /\ UNCHANGED <<sessVars, clean, cancelled, client, stopping,
                   crashed>>

(* DispatchFinish has the effect that DispatchFinishDoes states. *)
LEMMA DispatchFinishEffect ==
    ASSUME TypeOK, ReaderInv, NEW s \in Sessions, DispatchFinish(s)
    PROVE  DispatchFinishDoes(s)
  <1> DEFINE r == reader[s].r
  <1>1. /\ reader[s].pc = "finish" /\ Removed(r, req[r])
        /\ reader' = [reader EXCEPT ![s].pc = "read"]
        /\ UNCHANGED <<sessVars, clean, cancelled, client, stopping, crashed>>
    BY DEF DispatchFinish
  <1>2. r \in Requests /\ req[r].sess = s
    BY <1>1 DEF ReaderInv
  <1>3. req[r] \in Calls
    BY <1>2 DEF TypeOK, Readers, Cleanups
  <1> HIDE DEF r
  <1>4. /\ \A t \in Sessions \ {s} : reader'[t] = reader[t]
        /\ reader'[s].pc = "read" /\ reader'[s].r = reader[s].r
        /\ reader'[s].m = reader[s].m
    BY <1>1 DEF TypeOK, Readers, Cleanups
  <1>t2. reader' \in [Sessions -> Readers]
    BY <1>1, SMTT(30) DEF TypeOK, Readers
  <1>5. QED
    BY <1>t2, <1>1, <1>2, <1>3, <1>4, RemovedEffect
       DEF r, RemovedDoes, DispatchFinishDoes

(* What the first step of a call does. *)
SendDoes(r, s, mode) ==
    /\ req[r].pc = "new" /\ req[r] \in Calls
    /\ \A x \in Requests \ {r} : req'[x] = req[x]
    /\ req' \in [Requests -> Calls]
    /\ req'[r] \in Calls
    /\ req'[r].pc \in {"store", "failed"} /\ req'[r].sess = s
    /\ req'[r].watched = req[r].watched /\ req'[r].body = req[r].body
    /\ req'[r].lost = req[r].lost /\ req'[r].buf = req[r].buf
    /\ req'[r].open = req[r].open
    /\ UNCHANGED <<sessVars, reader, clean, stopping, cancelled, crashed,
                   client, pending>>

(* Send has the effect that SendDoes states. *)
LEMMA SendEffect ==
    ASSUME TypeOK, NEW r \in Requests, NEW s \in Sessions,
           NEW mode \in {"NonStream", "Stream"}, Send(r, s, mode)
    PROVE  SendDoes(r, s, mode)
  <1> DEFINE p == IF s \in registered THEN "store" ELSE "failed"
  <1>p. p \in {"store", "failed"}
    OBVIOUS
  <1>1. /\ req[r].pc = "new"
        /\ req' = [req EXCEPT ![r].mode = mode, ![r].sess = s, ![r].pc = p]
        /\ UNCHANGED <<sessVars, reader, clean, stopping, cancelled, crashed,
                       client, pending>>
    BY DEF Send, UnchangedByRequest
  <1>2. req[r] \in Calls
    BY DEF TypeOK, Readers, Cleanups
  <1> HIDE DEF p
  <1>3. req'[r] = [req[r] EXCEPT !.mode = mode, !.sess = s, !.pc = p]
    BY <1>1 DEF TypeOK, Readers, Cleanups
  <1>4. \A x \in Requests \ {r} : req'[x] = req[x]
    BY <1>1 DEF TypeOK, Readers, Cleanups
  <1>m. req'[r] \in Calls
    BY <1>p, <1>2, <1>3 DEF Calls
  <1>5. /\ req'[r].pc \in {"store", "failed"} /\ req'[r].sess = s
        /\ req'[r].watched = req[r].watched /\ req'[r].body = req[r].body
        /\ req'[r].lost = req[r].lost /\ req'[r].buf = req[r].buf
        /\ req'[r].open = req[r].open
    BY <1>p, <1>2, <1>3 DEF Calls
  <1>t0. req' \in [Requests -> Calls]
    BY <1>1, <1>3, <1>m DEF TypeOK
  <1>6. QED
    BY <1>t0, <1>1, <1>2, <1>4, <1>m, <1>5 DEF SendDoes

(* What a successful write does. *)
WriteDoes(r) ==
    /\ req[r].pc = "write" /\ req[r] \in Calls
    /\ \A x \in Requests \ {r} : req'[x] = req[x]
    /\ req' \in [Requests -> Calls]
    /\ client' \in [Requests -> [said : {"unasked", "nothing", "some", "all",
                                  "error", "twice"}, chunks : Nat]]
    /\ req'[r] \in Calls
    /\ req'[r].pc = "wait" /\ req'[r].sess = req[r].sess
    /\ req'[r].watched /\ req'[r].body = req[r].body
    /\ req'[r].lost = req[r].lost /\ req'[r].buf = req[r].buf
    /\ req'[r].open = req[r].open
    /\ \A x \in Requests \ {r} : client'[x] = client[x]
    /\ client'[r].said = "nothing"
    /\ client'[r].chunks = client[r].chunks
    /\ UNCHANGED <<sessVars, reader, clean, stopping, cancelled, crashed,
                   pending>>

(* Write has the effect that WriteDoes states. *)
LEMMA WriteEffect ==
    ASSUME TypeOK, NEW r \in Requests, Write(r)
    PROVE  WriteDoes(r)
  <1>1. /\ req[r].pc = "write"
        /\ req' = [req EXCEPT ![r].pc = "wait", ![r].watched = TRUE]
        /\ client' = [client EXCEPT ![r].said = "nothing"]
        /\ UNCHANGED <<sessVars, reader, clean, stopping, cancelled, crashed,
                       pending>>
    BY DEF Write, UnchangedByRequest
  <1>2. req[r] \in Calls
    BY DEF TypeOK, Readers, Cleanups
  <1>3. req'[r] = [req[r] EXCEPT !.pc = "wait", !.watched = TRUE]
    BY <1>1 DEF TypeOK, Readers, Cleanups
  <1>4. \A x \in Requests \ {r} : req'[x] = req[x]
    BY <1>1 DEF TypeOK, Readers, Cleanups
  <1>m. req'[r] \in Calls
    BY <1>2, <1>3 DEF Calls
  <1>5. /\ req'[r].pc = "wait" /\ req'[r].sess = req[r].sess
        /\ req'[r].watched /\ req'[r].body = req[r].body
        /\ req'[r].lost = req[r].lost /\ req'[r].buf = req[r].buf
        /\ req'[r].open = req[r].open
    BY <1>2, <1>3 DEF Calls
  <1>6. /\ \A x \in Requests \ {r} : client'[x] = client[x]
        /\ client'[r].said = "nothing"
        /\ client'[r].chunks = client[r].chunks
    BY <1>1 DEF TypeOK, Readers, Cleanups
  <1>t0. req' \in [Requests -> Calls]
    BY <1>1, <1>3, <1>m DEF TypeOK
  <1>t1. client' \in [Requests -> [said : {"unasked", "nothing", "some", "all",
                                  "error", "twice"}, chunks : Nat]]
    BY <1>1, <1>3, <1>m DEF TypeOK
  <1>7. QED
    BY <1>t0, <1>t1, <1>1, <1>2, <1>4, <1>m, <1>5, <1>6 DEF WriteDoes

(* What a receive does. *)
ReceiveDoes(r) ==
    LET m == Head(req[r].buf) IN
    /\ req[r].pc = "wait" /\ req[r] \in Calls /\ req[r].buf # <<>>
    /\ m \in Messages
    /\ \A x \in Requests \ {r} : req'[x] = req[x]
    /\ req' \in [Requests -> Calls]
    /\ req'[r] \in Calls
    /\ req'[r].pc = IF m \in {"http_response", "stream_end"} THEN "ok"
                    ELSE IF m = "error" THEN "failed" ELSE "wait"
    /\ req'[r].body = IF m = "stream_start" THEN 0
                      ELSE IF m = "stream_chunk" THEN req[r].body + 1
                      ELSE req[r].body
    /\ req'[r].sess = req[r].sess /\ req'[r].watched = req[r].watched
    /\ req'[r].lost = req[r].lost /\ req'[r].buf = Tail(req[r].buf)
    /\ req'[r].open = req[r].open
    /\ UNCHANGED <<sessVars, reader, clean, stopping, cancelled, crashed,
                   client, pending>>

(* Receive has the effect that ReceiveDoes states. *)
LEMMA ReceiveEffect ==
    ASSUME TypeOK, NEW r \in Requests, Receive(r)
    PROVE  ReceiveDoes(r)
  <1> DEFINE m == Head(req[r].buf)
             t == Tail(req[r].buf)
             q == [req[r] EXCEPT !.buf = Tail(@)]
  <1>1. /\ req[r].pc = "wait" /\ req[r].buf # <<>>
        /\ req' = [req EXCEPT ![r] = Received(q, m)]
        /\ UNCHANGED <<sessVars, reader, clean, stopping, cancelled, crashed,
                       client, pending>>
    BY DEF Receive, UnchangedByRequest
  <1>2. req[r] \in Calls
    BY DEF TypeOK, Readers, Cleanups
  <1>3. m \in Messages /\ t \in Seq(Messages)
    BY <1>1, <1>2 DEF Calls
  <1>4. q = [req[r] EXCEPT !.buf = t]
    BY <1>2 DEF Calls
  <1> HIDE DEF m, t, q
  <1>q. q \in Calls
    BY <1>2, <1>3, <1>4 DEF Calls
  <1>5. /\ q \in Calls /\ q.pc = "wait" /\ q.sess = req[r].sess
        /\ q.watched = req[r].watched /\ q.body = req[r].body
        /\ q.lost = req[r].lost /\ q.buf = t /\ q.open = req[r].open
    BY <1>1, <1>2, <1>3, <1>4 DEF Calls
  <1>6. /\ req'[r] = Received(q, m)
        /\ \A x \in Requests \ {r} : req'[x] = req[x]
    BY <1>1 DEF TypeOK, Readers, Cleanups
  <1>7. /\ req'[r] \in Calls
        /\ req'[r].pc = IF m \in {"http_response", "stream_end"} THEN "ok"
                        ELSE IF m = "error" THEN "failed" ELSE "wait"
        /\ req'[r].body = IF m = "stream_start" THEN 0
                          ELSE IF m = "stream_chunk" THEN req[r].body + 1
                          ELSE req[r].body
        /\ req'[r].sess = req[r].sess /\ req'[r].watched = req[r].watched
        /\ req'[r].lost = req[r].lost /\ req'[r].buf = t
        /\ req'[r].open = req[r].open
    <2>1. CASE m \in {"http_response", "stream_end"}
      BY <1>5, <1>6, <2>1 DEF Received, Calls
    <2>2. CASE m = "error"
      BY <1>5, <1>6, <2>2 DEF Received, Calls
    <2>3. CASE m = "stream_start"
      <3>1. req'[r] = [q EXCEPT !.streaming = TRUE, !.body = 0]
        BY <1>6, <2>3 DEF Received
      <3>2. [q EXCEPT !.streaming = TRUE, !.body = 0] \in Calls
        BY <1>q DEF Calls
      <3>3. QED
        BY <1>5, <2>3, <3>1, <3>2 DEF Calls
    <2>4. CASE m = "stream_chunk"
      <3> DEFINE n == q.body + 1
      <3>1. req'[r] = [q EXCEPT !.streaming = TRUE, !.body = n]
        BY <1>5, <1>6, <2>4 DEF Received, Calls
      <3>2. n \in Nat
        BY <1>5 DEF Calls
      <3>3. n = req[r].body + 1
        BY <1>5
      <3> HIDE DEF n
      <3>4. req'[r] \in Calls
        BY <1>q, <3>1, <3>2 DEF Calls
      <3>5. QED
        BY <1>5, <2>4, <3>1, <3>3, <3>4 DEF Calls
    <2>5. QED
      BY <1>3, <2>1, <2>2, <2>3, <2>4 DEF Messages
  <1>t0. req' \in [Requests -> Calls]
    BY <1>1, <1>6, <1>7 DEF TypeOK
  <1>8. QED
    BY <1>t0, <1>1, <1>2, <1>3, <1>6, <1>7 DEF m, t, ReceiveDoes

(* What the entry into the map does. *)
StoreDoes(r) ==
    /\ req[r].pc = "store" /\ req[r] \in Calls
    /\ \A x \in Requests \ {r} : req'[x] = req[x]
    /\ req' \in [Requests -> Calls]
    /\ pending' \in [Sessions -> SUBSET Requests]
    /\ req'[r] \in Calls
    /\ req'[r].pc = "load" /\ req'[r].sess = req[r].sess
    /\ req'[r].watched = req[r].watched /\ req'[r].body = req[r].body
    /\ req'[r].lost = req[r].lost /\ req'[r].buf = req[r].buf
    /\ req'[r].open = req[r].open
    /\ \A t \in Sessions, x \in Requests : x \in pending'[t] <=>
          x \in pending[t] \/ (t = req[r].sess /\ x = r)
    /\ UNCHANGED <<sessVars, reader, clean, stopping, cancelled, crashed,
                   client>>

(* Store has the effect that StoreDoes states. *)
LEMMA StoreEffect ==
    ASSUME TypeOK, NEW r \in Requests, Store(r)
    PROVE  StoreDoes(r)
  <1>1. /\ req[r].pc = "store"
        /\ req' = [req EXCEPT ![r].pc = "load"]
        /\ pending' = [pending EXCEPT ![req[r].sess] = @ \cup {r}]
        /\ UNCHANGED <<sessVars, reader, clean, stopping, cancelled, crashed,
                       client>>
    BY DEF Store, Goto, UnchangedByRequest
  <1>2. req[r] \in Calls
    BY DEF TypeOK
  <1>3. req'[r] = [req[r] EXCEPT !.pc = "load"]
    BY <1>1 DEF TypeOK
  <1>4. \A x \in Requests \ {r} : req'[x] = req[x]
    BY <1>1 DEF TypeOK
  <1>5. req'[r] \in Calls
    BY <1>2, <1>3 DEF Calls
  <1>6. /\ req'[r].pc = "load" /\ req'[r].sess = req[r].sess
        /\ req'[r].watched = req[r].watched /\ req'[r].body = req[r].body
        /\ req'[r].lost = req[r].lost /\ req'[r].buf = req[r].buf
        /\ req'[r].open = req[r].open
    BY <1>2, <1>3 DEF Calls
  <1>7. \A t \in Sessions, x \in Requests : x \in pending'[t] <=>
          x \in pending[t] \/ (t = req[r].sess /\ x = r)
    BY <1>1 DEF TypeOK
  <1>t0. req' \in [Requests -> Calls]
    BY <1>1, <1>3, <1>5 DEF TypeOK
  <1>t1. pending' \in [Sessions -> SUBSET Requests]
    BY <1>1, <1>3, <1>5 DEF TypeOK
  <1>8. QED
    BY <1>t0, <1>t1, <1>1, <1>2, <1>4, <1>5, <1>6, <1>7 DEF StoreDoes

(* What a provider says next counts as an answer. *)
LEMMA SaysSomething ==
    ASSUME NEW k \in [said : {"unasked", "nothing", "some", "all", "error",
                             "twice"}, chunks : Nat],
           NEW m \in Messages, NEW c \in Says(k, m)
    PROVE  /\ k.said \in {"nothing", "some", "all"}
           /\ c \in [said : {"some", "all", "error", "twice"}, chunks : Nat]
           /\ m \in {"http_response", "stream_end"} =>
                 c.said \in {"all", "twice"}
           /\ c.chunks = IF m = "stream_chunk" THEN k.chunks + 1 ELSE k.chunks
           /\ m # "stream_end" => c.said # "twice" /\ k.said # "all"
           /\ c.said = "all" => k.said \in {"nothing", "some"}
           /\ m \in {"stream_start", "http_response"} => k.said = "nothing"
           /\ m = "error" => c.said = "error"
  <1>1. CASE m = "http_response"
    BY <1>1 DEF Says
  <1>2. CASE m = "stream_start"
    BY <1>2 DEF Says
  <1>3. CASE m = "stream_chunk"
    BY <1>3 DEF Says
  <1>4. CASE m = "stream_end" /\ k.said = "all"
    BY <1>4 DEF Says
  <1>5. CASE m = "stream_end" /\ k.said # "all"
    BY <1>5 DEF Says
  <1>6. CASE m = "error"
    BY <1>6 DEF Says
  <1>7. QED
    BY <1>1, <1>2, <1>3, <1>4, <1>5, <1>6 DEF Messages

(* What the reader does with a message of the provider. *)
ReadMessageDoes(s, r, m) ==
    /\ reader[s].pc = "read" /\ req[r].sess = s
    /\ reader' \in [Sessions -> Readers]
    /\ client' \in [Requests -> [said : {"unasked", "nothing", "some", "all",
                                  "error", "twice"}, chunks : Nat]]
    /\ \A x \in Requests \ {r} : client'[x] = client[x]
    /\ client'[r] \in Says(client[r], m)
    /\ \A t \in Sessions \ {s} : reader'[t] = reader[t]
    /\ IF r \in pending[s]
       THEN /\ reader'[s].pc = "send"
            /\ reader'[s].r = r /\ reader'[s].m = m
       ELSE reader'[s] = reader[s]
    /\ UNCHANGED <<sessVars, clean, pending, req, cancelled, stopping, crashed>>

(* ReadMessage has the effect that ReadMessageDoes states. *)
LEMMA ReadMessageEffect ==
    ASSUME TypeOK, NEW s \in Sessions, NEW r \in Requests, NEW m \in Messages,
           ReadMessage(s, r, m)
    PROVE  ReadMessageDoes(s, r, m)
  <1>1. PICK c \in Says(client[r], m) : client' = [client EXCEPT ![r] = c]
    BY DEF ReadMessage
  <1>2. /\ client'[r] = c
        /\ \A x \in Requests \ {r} : client'[x] = client[x]
    BY <1>1 DEF TypeOK
  <1>3. /\ \A t \in Sessions \ {s} : reader'[t] = reader[t]
        /\ IF r \in pending[s]
           THEN /\ reader'[s].pc = "send"
                /\ reader'[s].r = r /\ reader'[s].m = m
           ELSE reader'[s] = reader[s]
    BY DEF ReadMessage, TypeOK
  <1>4. reader' \in [Sessions -> Readers]
    BY DEF ReadMessage, TypeOK, Readers
  <1>5. client[r] \in [said : {"unasked", "nothing", "some", "all", "error",
                              "twice"}, chunks : Nat]
    BY DEF TypeOK
  <1>6. c \in [said : {"unasked", "nothing", "some", "all", "error",
                      "twice"}, chunks : Nat]
    BY <1>5, SaysSomething
  <1>7. client' \in [Requests -> [said : {"unasked", "nothing", "some", "all",
                                         "error", "twice"}, chunks : Nat]]
    BY <1>1, <1>6 DEF TypeOK
  <1>8. QED
    BY <1>2, <1>3, <1>4, <1>7 DEF ReadMessage, ReadMessageDoes

(* A call that only goes to another stage. *)
GotoDoes(r, p) ==
    /\ req' \in [Requests -> Calls]
    /\ \A x \in Requests \ {r} : req'[x] = req[x]
    /\ req'[r].pc = p /\ req'[r].sess = req[r].sess
    /\ req'[r].watched = req[r].watched /\ req'[r].body = req[r].body
    /\ req'[r].lost = req[r].lost /\ req'[r].buf = req[r].buf
    /\ req'[r].open = req[r].open

(* Goto has the effect that GotoDoes states. *)
LEMMA GotoEffect ==
    ASSUME TypeOK, NEW r \in Requests,
           NEW p \in {"new", "store", "load", "check", "write", "undo", "wait",
                     "ok", "failed"},
           Goto(r, p)
    PROVE  GotoDoes(r, p)
  <1>1. req' = [req EXCEPT ![r].pc = p] /\ req \in [Requests -> Calls]
    BY DEF Goto, TypeOK
  <1>2. req'[r] = [req[r] EXCEPT !.pc = p] /\ req[r] \in Calls
    BY <1>1
  <1>3. \A x \in Requests \ {r} : req'[x] = req[x]
    BY <1>1
  <1>4. [req[r] EXCEPT !.pc = p] \in Calls
    BY <1>2 DEF Calls
  <1>5. req' \in [Requests -> Calls]
    BY <1>1, <1>2, <1>4
  <1>6. /\ req'[r].pc = p /\ req'[r].sess = req[r].sess
        /\ req'[r].watched = req[r].watched /\ req'[r].body = req[r].body
        /\ req'[r].lost = req[r].lost /\ req'[r].buf = req[r].buf
        /\ req'[r].open = req[r].open
    BY <1>2 DEF Calls
  <1>7. QED
    BY <1>3, <1>5, <1>6 DEF GotoDoes

(* The start of cleanup keeps the type of its record. *)
LEMMA BeginCleanupType ==
    ASSUME TypeOK, NEW s \in Sessions, BeginCleanup(s)
    PROVE  clean' \in [Sessions -> Cleanups]
  <1>1. clean \in [Sessions -> Cleanups] /\ pending[s] \in SUBSET Requests
    BY DEF TypeOK
  <1>2. clean[s] \in Cleanups
    BY <1>1
  <1>3. [clean[s] EXCEPT !.pc = "range", !.must = pending[s]] \in Cleanups
    BY <1>1, <1>2 DEF Cleanups
  <1>4. \/ clean' = clean
        \/ clean' = [clean EXCEPT ![s] =
                       [clean[s] EXCEPT !.pc = "range", !.must = pending[s]]]
    BY DEF BeginCleanup
  <1>5. QED
    BY <1>1, <1>3, <1>4

(* The watcher leaves without having closed anything. *)
LEMMA WatchClosedType ==
    ASSUME TypeOK, NEW r \in Requests, WatchClosed(r)
    PROVE  req' \in [Requests -> Calls]
  <1>1. req \in [Requests -> Calls] /\ req[r] \in Calls
    BY DEF TypeOK
  <1>2. [req[r] EXCEPT !.watched = FALSE] \in Calls
    BY <1>1 DEF Calls
  <1>3. req' = [req EXCEPT ![r] = [req[r] EXCEPT !.watched = FALSE]]
    BY <1>1 DEF WatchClosed
  <1>4. QED
    BY <1>1, <1>2, <1>3

-----------------------------------------------------------------------------
(* Channels.                                                                *)

(* The number of chunks in a channel is a number. *)
LEMMA ChunksType ==
    ASSUME NEW b \in Seq(Messages)
    PROVE  ChunksIn(b) \in Nat /\ IsFiniteSet({i \in 1..Len(b) : b[i] = "stream_chunk"})
  <1>1. Len(b) \in Nat /\ IsFiniteSet(1..Len(b))
    BY FS_Interval
  <1>2. IsFiniteSet({i \in 1..Len(b) : b[i] = "stream_chunk"})
    BY <1>1, FS_Subset
  <1>3. QED
    BY <1>2, FS_CardinalityType DEF ChunksIn

(* A send adds to the chunks in a channel what it sends. *)
LEMMA ChunksAppend ==
    ASSUME NEW b \in Seq(Messages), NEW m \in Messages
    PROVE  ChunksIn(Append(b, m)) =
             ChunksIn(b) + (IF m = "stream_chunk" THEN 1 ELSE 0)
  <1> DEFINE A == {i \in 1..Len(b) : b[i] = "stream_chunk"}
             B == {i \in 1..Len(Append(b, m)) : Append(b, m)[i] = "stream_chunk"}
             n == Len(b) + 1
  <1>1. Len(Append(b, m)) = n /\ n \in Nat
    OBVIOUS
  <1>2. \A i \in 1..Len(b) : Append(b, m)[i] = b[i]
    OBVIOUS
  <1>3. Append(b, m)[n] = m
    OBVIOUS
  <1>4. IsFiniteSet(A) /\ Cardinality(A) \in Nat /\ n \notin A
    <2>1. IsFiniteSet(A)
      BY ChunksType
    <2>2. n \notin A
      BY <1>1
    <2>3. QED
      BY <2>1, <2>2, FS_CardinalityType
  <1>c. ChunksIn(b) = Cardinality(A) /\ ChunksIn(Append(b, m)) = Cardinality(B)
    BY DEF ChunksIn
  <1> HIDE DEF n
  <1>5. CASE m = "stream_chunk"
    <2>1. B = A \cup {n}
      BY <1>1, <1>2, <1>3, <1>5
    <2>2. Cardinality(B) = Cardinality(A) + 1
      BY <1>4, <2>1, FS_AddElement
    <2>3. QED
      BY <1>5, <1>c, <2>2
  <1>6. CASE m # "stream_chunk"
    <2>1. B = A
      BY <1>1, <1>2, <1>3, <1>6
    <2>2. Cardinality(B) = Cardinality(A)
      BY <2>1
    <2> HIDE DEF A, B
    <2>3. QED
      BY <1>4, <1>6, <1>c, <2>2
  <1>7. QED
    BY <1>5, <1>6

(* A receive takes from the chunks in a channel what it returns. *)
LEMMA ChunksTail ==
    ASSUME NEW b \in Seq(Messages), b # <<>>
    PROVE  ChunksIn(b) =
             ChunksIn(Tail(b)) + (IF Head(b) = "stream_chunk" THEN 1 ELSE 0)
  <1> DEFINE A == {i \in 1..Len(b) : b[i] = "stream_chunk"}
             B == {i \in 1..Len(Tail(b)) : Tail(b)[i] = "stream_chunk"}
             C == A \ {1}
             f == [i \in B |-> i + 1]
  <1>1. /\ Len(b) \in Nat /\ Len(b) > 0 /\ Tail(b) \in Seq(Messages)
        /\ Len(Tail(b)) = Len(b) - 1 /\ Head(b) = b[1]
        /\ \A i \in 1..Len(Tail(b)) : Tail(b)[i] = b[i+1]
    OBVIOUS
  <1>2. IsFiniteSet(A) /\ IsFiniteSet(B) /\ IsFiniteSet(C)
    BY <1>1, ChunksType, FS_Subset
  <1>3. f \in Bijection(B, C)
    <2>1. \A i \in B : i + 1 \in C
      BY <1>1
    <2>2. \A j \in C : j - 1 \in B /\ j = (j - 1) + 1
      BY <1>1
    <2>3. f \in [B -> C]
      BY <2>1
    <2>4. \A i, j \in B : f[i] = f[j] => i = j
      BY <1>1
    <2>5. \A j \in C : \E i \in B : f[i] = j
      BY <1>1, <2>2
    <2>6. QED
      BY <2>3, <2>4, <2>5 DEF Bijection, Injection, Surjection, IsInjective
  <1>4. Cardinality(B) = Cardinality(C)
    <2>1. ExistsBijection(B, C)
      BY <1>3 DEF ExistsBijection
    <2>2. QED
      BY <1>2, <2>1, FS_Bijection
  <1>5. Cardinality(C) = IF 1 \in A THEN Cardinality(A) - 1 ELSE Cardinality(A)
    BY <1>2, FS_RemoveElement
  <1>6. 1 \in A <=> Head(b) = "stream_chunk"
    BY <1>1
  <1>7. Cardinality(A) \in Nat
    BY <1>2, FS_CardinalityType
  <1>c. ChunksIn(b) = Cardinality(A) /\ ChunksIn(Tail(b)) = Cardinality(B)
    BY DEF ChunksIn
  <1> HIDE DEF A, B, C, f
  <1>8. QED
    BY <1>4, <1>5, <1>6, <1>7, <1>c

(* A channel without a chunk counts none. *)
LEMMA ChunksNone ==
    ASSUME NEW b \in Seq(Messages),
           \A i \in 1..Len(b) : b[i] # "stream_chunk"
    PROVE  ChunksIn(b) = 0
  <1>1. {i \in 1..Len(b) : b[i] = "stream_chunk"} = {}
    OBVIOUS
  <1>2. QED
    BY <1>1, FS_EmptySet DEF ChunksIn

(* A step that leaves a call, its provider and its reader alone. *)
LEMMA IntactFrame ==
    ASSUME NEW x \in Requests, Intact(x),
           req'[x] = req[x], client'[x] = client[x],
           x \in cancelled => x \in cancelled',
           \A m \in Messages : InTransit(x, m)' <=> InTransit(x, m),
           Finishing(x)' <=> Finishing(x)
    PROVE  Intact(x)'
  <1>1. Fresh(x) => Fresh(x)'
    BY DEF Fresh
  <1>2. InTransit(x, "stream_chunk")' <=> InTransit(x, "stream_chunk")
    BY DEF Messages
  <1>3. Flowing(x) => Flowing(x)'
    BY <1>2 DEF Flowing
  <1>4. QED
    BY <1>1, <1>3 DEF Intact

(* The calls that a step of the reader of s for y is not about. *)
LEMMA ReaderOfAnother ==
    ASSUME NEW s \in Sessions, NEW x \in Requests, NEW y \in Requests \ {x},
           req'[x].sess = req[x].sess,
           \A t \in Sessions \ {s} : reader'[t] = reader[t],
           \/ reader[s].pc \in {"none", "read"}
           \/ reader[s].r = y,
           \/ reader'[s].pc \in {"none", "read", "gone"}
           \/ reader'[s].r = y
    PROVE  /\ \A m \in Messages : InTransit(x, m)' <=> InTransit(x, m)
           /\ Finishing(x)' <=> Finishing(x)
  BY DEF InTransit, Finishing

(* Stages before the write have nothing but what Fresh looks at. *)
LEMMA FreshFrame ==
    ASSUME NEW x \in Requests, Fresh(x),
           req'[x].body = req[x].body, req'[x].buf = req[x].buf,
           req'[x].open = req[x].open, client'[x].chunks = client[x].chunks
    PROVE  Fresh(x)'
  BY DEF Fresh

(* An element of a channel after a send, and after a receive. *)
LEMMA AppendAt ==
    ASSUME NEW b \in Seq(Messages), NEW m \in Messages
    PROVE  /\ Append(b, m) \in Seq(Messages)
           /\ Len(b) \in Nat /\ Len(Append(b, m)) = Len(b) + 1
           /\ \A i \in 1..Len(b) : Append(b, m)[i] = b[i]
           /\ Append(b, m)[Len(b) + 1] = m
           /\ Append(b, m) # <<>>
           /\ HasTerminal(Append(b, m)) <=> HasTerminal(b) \/ m \in Terminal
  <1>1. /\ Append(b, m) \in Seq(Messages)
        /\ Len(b) \in Nat /\ Len(Append(b, m)) = Len(b) + 1
        /\ \A i \in 1..Len(b) : Append(b, m)[i] = b[i]
        /\ Append(b, m)[Len(b) + 1] = m
        /\ Append(b, m) # <<>>
    OBVIOUS
  <1>2. \A i \in 1..Len(Append(b, m)) : i \in 1..Len(b) \/ i = Len(b) + 1
    BY <1>1
  <1>3. 1..Len(b) \subseteq 1..Len(Append(b, m))
        /\ Len(b) + 1 \in 1..Len(Append(b, m))
    BY <1>1
  <1>4. QED
    BY <1>1, <1>2, <1>3 DEF HasTerminal

LEMMA TailAt ==
    ASSUME NEW b \in Seq(Messages), b # <<>>
    PROVE  /\ Tail(b) \in Seq(Messages) /\ Len(b) \in Nat
           /\ Len(Tail(b)) = Len(b) - 1
           /\ 1 \in 1..Len(b) /\ Head(b) = b[1] /\ Head(b) \in Messages
           /\ \A i \in 1..Len(Tail(b)) : Tail(b)[i] = b[i + 1]
           /\ \A i \in 1..Len(Tail(b)) : i + 1 \in 1..Len(b)
           /\ Head(b) \notin Terminal => (HasTerminal(Tail(b)) <=> HasTerminal(b))
  <1>1. /\ Tail(b) \in Seq(Messages) /\ Len(b) \in Nat
        /\ Len(Tail(b)) = Len(b) - 1
        /\ 1 \in 1..Len(b) /\ Head(b) = b[1] /\ Head(b) \in Messages
        /\ \A i \in 1..Len(Tail(b)) : Tail(b)[i] = b[i + 1]
    OBVIOUS
  <1>2. /\ \A i \in 1..Len(Tail(b)) : i + 1 \in 1..Len(b)
        /\ \A j \in 1..Len(b) : j = 1 \/ j - 1 \in 1..Len(Tail(b))
        /\ \A j \in 1..Len(b) : (j - 1) + 1 = j
    BY <1>1
  <1>3. Head(b) \notin Terminal => (HasTerminal(Tail(b)) <=> HasTerminal(b))
    BY <1>1, <1>2 DEF HasTerminal
  <1>4. QED
    BY <1>1, <1>2, <1>3

(* The message of cleanup is the last one that a channel gets. *)
LEMMA IntactRangeSend ==
    ASSUME TypeOK, RangeInv, NEW s \in Sessions, RangeSendDoes(s),
           NEW y \in Requests, y = clean[s].r, Intact(y)
    PROVE  Intact(y)'
  <1> DEFINE b == req[y].buf
  <1>1. /\ ~req'[y].lost => ~req[y].lost /\ req'[y].buf = Append(b, "error")
        /\ req'[y].pc = req[y].pc /\ req'[y].body = req[y].body
        /\ req'[y].sess = req[y].sess /\ ~req'[y].open /\ req[y].open
        /\ UNCHANGED <<reader, cancelled, client>>
    BY DEF RangeSendDoes
  <1>2. b \in Seq(Messages) /\ req[y].body \in Nat
    BY DEF TypeOK, Calls
  <1> HIDE DEF b
  <1>3. SUFFICES ASSUME ~req'[y].lost, y \notin cancelled'
                 PROVE  /\ Fresh(y) => Fresh(y)'
                        /\ Flowing(y) => Flowing(y)'
    BY <1>1 DEF Intact
  <1>4. /\ Append(b, "error") \in Seq(Messages)
        /\ Len(b) \in Nat /\ Len(Append(b, "error")) = Len(b) + 1
        /\ \A i \in 1..Len(b) : Append(b, "error")[i] = b[i]
        /\ Append(b, "error")[Len(b) + 1] = "error"
        /\ Append(b, "error") # <<>>
        /\ HasTerminal(Append(b, "error"))
        /\ ChunksIn(Append(b, "error")) = ChunksIn(b) + 0
        /\ ChunksIn(b) \in Nat
    BY <1>2, AppendAt, ChunksAppend, ChunksType DEF Messages, Terminal
  <1>5. /\ req'[y].buf = Append(b, "error") /\ req[y].buf = b
        /\ req'[y].body = req[y].body /\ ~req'[y].open
        /\ client' = client
    BY <1>1, <1>3 DEF b
  <1>6. ASSUME Fresh(y) PROVE Fresh(y)'
    BY <1>4, <1>5, <1>6 DEF Fresh
  <1>7. ASSUME Flowing(y) PROVE Flowing(y)'
    <2>1. \A i \in 1..Len(Append(b, "error")) :
             \/ i \in 1..Len(b) /\ Append(b, "error")[i] = b[i]
             \/ i = Len(b) + 1 /\ Append(b, "error")[i] = "error"
      BY <1>4
    <2>2. \A m \in Messages : InTransit(y, m)' <=> InTransit(y, m)
      BY <1>1 DEF InTransit
    <2>3. QED
      BY <1>2, <1>4, <1>5, <1>7, <2>1, <2>2 DEF Flowing
  <1>8. QED
    BY <1>6, <1>7

(* A message of the provider goes from the reader to the channel. *)
LEMMA IntactDispatchSend ==
    ASSUME TypeOK, ReaderInv, NEW s \in Sessions, DispatchSendDoes(s),
           NEW y \in Requests, y = reader[s].r, Intact(y)
    PROVE  Intact(y)'
  <1> DEFINE b == req[y].buf
             m == reader[s].m
  <1>1. /\ ~req'[y].lost => ~req[y].lost /\ req'[y].buf = Append(b, m)
        /\ req'[y].pc = req[y].pc /\ req'[y].body = req[y].body
        /\ req[y].sess = s /\ req'[y].sess = s /\ req'[y].open /\ req[y].open
        /\ UNCHANGED <<cancelled, client>>
        /\ reader[s].pc = "send" /\ m \in Messages
        /\ reader'[s].pc = IF m \in Terminal THEN "finish" ELSE "read"
        /\ reader'[s].r = y
    BY DEF DispatchSendDoes
  <1>2. /\ b \in Seq(Messages) /\ req[y].body \in Nat
        /\ client[y].chunks \in Nat
    BY DEF TypeOK, Calls
  <1>3. /\ client[y].said \notin {"unasked", "nothing"}
        /\ req[y].pc \in {"wait", "ok", "failed"}
    BY <1>1 DEF ReaderInv
  <1>4. /\ InTransit(y, m) /\ ~Finishing(y)
        /\ InTransit(y, "stream_chunk") <=> m = "stream_chunk"
        /\ \A k \in Messages : ~InTransit(y, k)'
        /\ Finishing(y)' <=> m \in Terminal
    BY <1>1 DEF InTransit, Finishing
  <1> HIDE DEF b, m
  <1>5. SUFFICES ASSUME ~req'[y].lost, y \notin cancelled', Flowing(y)
                 PROVE  Flowing(y)'
    BY <1>1, <1>3 DEF Intact
  <1>6. /\ Append(b, m) \in Seq(Messages)
        /\ Len(b) \in Nat /\ Len(Append(b, m)) = Len(b) + 1
        /\ \A i \in 1..Len(Append(b, m)) :
             \/ i \in 1..Len(b) /\ Append(b, m)[i] = b[i]
             \/ i = Len(b) + 1 /\ Append(b, m)[i] = m
        /\ HasTerminal(Append(b, m)) <=> HasTerminal(b) \/ m \in Terminal
    BY <1>1, <1>2, AppendAt
  <1>7. /\ ChunksIn(Append(b, m))
             = ChunksIn(b) + (IF m = "stream_chunk" THEN 1 ELSE 0)
        /\ ChunksIn(b) \in Nat
    BY <1>1, <1>2, ChunksAppend, ChunksType
  <1>8. /\ req'[y].buf = Append(b, m) /\ req[y].buf = b
        /\ req'[y].body = req[y].body /\ req'[y].open /\ req[y].open
        /\ client' = client
    BY <1>1, <1>5 DEF b
  <1>9. /\ ~HasTerminal(b)
        /\ req[y].body + ChunksIn(b)
             + (IF m = "stream_chunk" THEN 1 ELSE 0) = client[y].chunks
        /\ m \in {"http_response", "stream_end"} =>
             client[y].said \in {"all", "twice"}
        /\ m = "stream_start" => b = <<>> /\ req[y].body = 0
        /\ \A i \in 1..Len(b) : b[i] = "stream_start" => i = 1 /\ req[y].body = 0
    BY <1>1, <1>4, <1>5, <1>8 DEF Flowing
  <1>10. \A i \in 1..Len(b) : b[i] \notin Terminal
    BY <1>9 DEF HasTerminal
  <1>11. "http_response" \in Terminal /\ "stream_end" \in Terminal
         /\ "stream_chunk" \notin Terminal /\ "stream_start" \notin Terminal
    BY DEF Terminal
  <1>12. /\ m = "stream_start" => Len(b) = 0
    BY <1>9
  <1>13. req[y].body + ChunksIn(Append(b, m)) = client[y].chunks
    BY <1>2, <1>7, <1>9
  <1>14. /\ \A i, j \in 1..Len(Append(b, m)) :
              i < j /\ Append(b, m)[i] \in Terminal => Append(b, m)[j] = "error"
         /\ \A i \in 1..Len(Append(b, m)) :
              Append(b, m)[i] \in {"http_response", "stream_end"} =>
                client[y].said \in {"all", "twice"}
         /\ \A i \in 1..Len(Append(b, m)) : Append(b, m)[i] = "stream_start" =>
              i = 1 /\ req[y].body = 0
    BY <1>6, <1>9, <1>10, <1>11, <1>12
  <1>15. ~InTransit(y, "stream_chunk")'
    BY <1>4 DEF Messages
  <1>16. HasTerminal(Append(b, m)) <=> Finishing(y)'
    BY <1>4, <1>6, <1>9
  <1> HIDE DEF Terminal
  <1>17. client[y].said # "nothing" /\ (req[y].body + ChunksIn(Append(b, m))) + 0 = client[y].chunks
    BY <1>2, <1>3, <1>7, <1>13
  <1>18. QED
    BY <1>4, <1>8, <1>13, <1>14, <1>15, <1>16, <1>17 DEF Flowing

(* A final message is in the channel before the reader closes it. *)
LEMMA IntactDispatchFinish ==
    ASSUME TypeOK, PendingInv, RangeInv, ReaderInv, NEW s \in Sessions,
           DispatchFinishDoes(s),
           NEW y \in Requests, y = reader[s].r, Intact(y)
    PROVE  Intact(y)'
  <1>1. /\ req'[y].pc = req[y].pc /\ req'[y].body = req[y].body
        /\ req'[y].lost = req[y].lost /\ req'[y].buf = req[y].buf
        /\ req[y].sess = s /\ req'[y].sess = s
        /\ req'[y].open <=> req[y].open /\ y \notin pending[s]
        /\ UNCHANGED <<cancelled, client, clean>>
        /\ reader[s].pc = "finish" /\ reader'[s].pc = "read"
    BY DEF DispatchFinishDoes
  <1>2. /\ \A k \in Messages : ~InTransit(y, k)' /\ ~InTransit(y, k)
        /\ Finishing(y) /\ ~Finishing(y)'
        /\ ~InTransit(y, "stream_chunk")' /\ ~InTransit(y, "stream_chunk")
    BY <1>1 DEF InTransit, Finishing, Messages
  <1>3. clean[s].pc \in {"no", "range", "send", "reset"} \cup Past
    BY DEF TypeOK, Cleanups, Past
  <1>4. CASE req[y].pc = "wait"
    <2>1. ~req'[y].open
      BY <1>1, <1>3, <1>4 DEF PendingInv, InMap, RangeInv
    <2>2. ASSUME Flowing(y) PROVE Flowing(y)'
      <3>1. HasTerminal(req[y].buf)
        BY <1>2, <2>2 DEF Flowing
      <3>2. /\ req'[y].body = req[y].body /\ req'[y].buf = req[y].buf
            /\ client'[y] = client[y] /\ ~req'[y].open
            /\ HasTerminal(req[y].buf) /\ HasTerminal(req'[y].buf)
        BY <1>1, <2>1, <3>1
      <3>3. \A k \in Messages : ~InTransit(y, k)'
        BY <1>2
      <3>4. QED
        BY <2>2, <3>2, <3>3, SMTT(30) DEF Flowing
    <2>3. QED
      BY <1>1, <1>4, <2>2 DEF Intact
  <1>5. req[y].pc \in {"wait", "ok", "failed"}
    BY <1>1 DEF ReaderInv
  <1>6. QED
    BY <1>1, <1>4, <1>5 DEF Intact

(* The request reaches the provider, which has said nothing. *)
LEMMA IntactWrite ==
    ASSUME TypeOK, PendingInv, ReaderInv, NEW r \in Requests, WriteDoes(r),
           Intact(r)
    PROVE  Intact(r)'
  <1>1. /\ req[r].pc = "write" /\ req'[r].pc = "wait"
        /\ req'[r].sess = req[r].sess /\ req'[r].body = req[r].body
        /\ req'[r].lost = req[r].lost /\ req'[r].buf = req[r].buf
        /\ req'[r].open = req[r].open
        /\ client'[r].said = "nothing"
        /\ client'[r].chunks = client[r].chunks
        /\ UNCHANGED <<reader, cancelled>>
    BY DEF WriteDoes
  <1>2. /\ \A k \in Messages : ~InTransit(r, k)'
        /\ ~Finishing(r)' /\ ~InTransit(r, "stream_chunk")'
    BY <1>1 DEF InTransit, Finishing, ReaderInv
  <1>3. SUFFICES ASSUME Fresh(r) PROVE Flowing(r)'
    BY <1>1 DEF Intact
  <1>4. req[r].buf \in Seq(Messages) /\ Len(req[r].buf) \in Nat
    BY DEF TypeOK, Calls
  <1>5. /\ req[r].body = 0 /\ client[r].chunks = 0
        /\ \A i \in 1..Len(req[r].buf) : req[r].buf[i] = "error"
        /\ req[r].open <=> req[r].buf = <<>>
    BY <1>3 DEF Fresh
  <1>6. ChunksIn(req[r].buf) = 0
    BY <1>4, <1>5, ChunksNone
  <1>7. HasTerminal(req[r].buf) <=> ~req[r].open
    <2>1. req[r].open => Len(req[r].buf) = 0
      BY <1>5
    <2>2. ~req[r].open => 1 \in 1..Len(req[r].buf)
      BY <1>4, <1>5
    <2>3. QED
      BY <1>4, <1>5, <2>1, <2>2 DEF HasTerminal, Terminal
  <1>8. QED
    BY <1>1, <1>2, <1>5, <1>6, <1>7 DEF Flowing

(* The provider speaks: what it adds to its response is with the reader,     *)
(* because a call whose channel is open is still in the map.                *)
LEMMA IntactReadMessage ==
    ASSUME TypeOK, PendingInv, RangeInv, ReaderInv, NEW s \in Sessions,
           NEW r \in Requests, NEW m \in Messages, ReadMessageDoes(s, r, m),
           Intact(r)
    PROVE  Intact(r)'
  <1> DEFINE b == req[r].buf
             k == client[r]
             c == client'[r]
  <1>1. /\ reader[s].pc = "read" /\ req[r].sess = s
        /\ UNCHANGED <<req, cancelled>>
        /\ c \in Says(k, m)
        /\ IF r \in pending[s]
           THEN /\ reader'[s].pc = "send"
                /\ reader'[s].r = r /\ reader'[s].m = m
           ELSE reader'[s] = reader[s]
    BY DEF ReadMessageDoes
  <1>2. /\ k \in [said : {"unasked", "nothing", "some", "all", "error",
                          "twice"}, chunks : Nat]
        /\ b \in Seq(Messages) /\ Len(b) \in Nat /\ req[r].body \in Nat
    BY DEF TypeOK, Calls
  <1> HIDE DEF b, k, c
  <1>n. ChunksIn(b) \in Nat
    BY <1>2, ChunksType
  <1>3. /\ k.said \in {"nothing", "some", "all"}
        /\ c.said \in {"some", "all", "error", "twice"}
        /\ m \in {"http_response", "stream_end"} => c.said \in {"all", "twice"}
        /\ c.chunks = IF m = "stream_chunk" THEN k.chunks + 1 ELSE k.chunks
        /\ m # "stream_end" => k.said # "all"
        /\ m = "stream_start" => k.said = "nothing"
        /\ k.chunks \in Nat
    BY <1>1, <1>2, SaysSomething
  <1>4. req[r].pc \in {"wait", "ok", "failed"}
    BY <1>3 DEF ReaderInv, k
  <1>5. CASE req[r].pc = "ok"
    BY <1>1, <1>3, <1>5 DEF Intact, k, c
  <1>6. CASE req[r].pc = "wait"
    <2>1. SUFFICES ASSUME Flowing(r) PROVE Flowing(r)'
      BY <1>1, <1>6 DEF Intact
    <2>2. /\ \A n \in Messages : ~InTransit(r, n)
          /\ ~InTransit(r, "stream_chunk") /\ ~Finishing(r)
          /\ ~Finishing(r)'
          /\ \A n \in Messages :
               InTransit(r, n)' <=> n = m /\ r \in pending[s]
          /\ InTransit(r, "stream_chunk")'
               <=> m = "stream_chunk" /\ r \in pending[s]
      BY <1>1 DEF InTransit, Finishing
    <2>3. req[r].open => r \in pending[s]
      <3>1. clean[s].pc \in {"no", "range", "send", "reset"} \cup Past
        BY DEF TypeOK, Cleanups, Past
      <3>2. QED
        BY <1>1, <1>6, <3>1 DEF PendingInv, InMap, RangeInv
    <2>4. /\ \A i, j \in 1..Len(b) :
               i < j /\ b[i] \in Terminal => b[j] = "error"
          /\ \A i \in 1..Len(b) : b[i] \in {"http_response", "stream_end"} =>
               k.said \in {"all", "twice"} /\ req[r].body + ChunksIn(b) = k.chunks
          /\ \A i \in 1..Len(b) : b[i] = "stream_start" =>
               i = 1 /\ req[r].body = 0
          /\ req[r].open => ~HasTerminal(b)
          /\ ~HasTerminal(b) =>
               req[r].open /\ req[r].body + ChunksIn(b) + 0 = k.chunks
          /\ k.said = "nothing" => req[r].body = 0
                                   /\ \A i \in 1..Len(b) : b[i] = "error"
      BY <2>1, <2>2 DEF Flowing, b, k
    <2>5. \A i \in 1..Len(b) : b[i] \in {"http_response", "stream_end"} =>
             c.said \in {"all", "twice"} /\ req[r].body + ChunksIn(b) = c.chunks
      BY <1>3, <2>4
    <2>6. ~HasTerminal(b) =>
             req[r].body + ChunksIn(b)
               + (IF InTransit(r, "stream_chunk")' THEN 1 ELSE 0) = c.chunks
      BY <1>2, <1>n, <1>3, <2>2, <2>3, <2>4
    <2>7. m = "stream_start" /\ req[r].open => b = <<>> /\ req[r].body = 0
      <3>1. m = "stream_start" /\ req[r].open => Len(b) = 0
        BY <1>2, <1>3, <2>4 DEF HasTerminal, Terminal
      <3>2. QED
        BY <1>2, <1>3, <2>4, <3>1
    <2>8. req'[r] = req[r] /\ req[r].buf = b /\ c.said # "nothing"
      BY <1>1, <1>3 DEF b
    <2>9. QED
      BY <1>3, <2>2, <2>4, <2>5, <2>6, <2>7, <2>8 DEF Flowing, c
  <1>7. QED
    BY <1>1, <1>4, <1>5, <1>6 DEF Intact

(* The caller reads a message. *)
LEMMA IntactReceive ==
    ASSUME TypeOK, NEW r \in Requests, ReceiveDoes(r), Intact(r)
    PROVE  Intact(r)'
  <1> DEFINE b == req[r].buf
             t == Tail(b)
             m == Head(b)
  <1>1. /\ req[r].pc = "wait" /\ b # <<>>
        /\ req'[r].pc = IF m \in {"http_response", "stream_end"} THEN "ok"
                        ELSE IF m = "error" THEN "failed" ELSE "wait"
        /\ req'[r].body = IF m = "stream_start" THEN 0
                          ELSE IF m = "stream_chunk" THEN req[r].body + 1
                          ELSE req[r].body
        /\ req'[r].sess = req[r].sess
        /\ req'[r].lost = req[r].lost /\ req'[r].buf = t
        /\ req'[r].open = req[r].open
        /\ UNCHANGED <<reader, cancelled, client>>
    BY DEF ReceiveDoes
  <1>2. b \in Seq(Messages) /\ req[r].body \in Nat /\ client[r].chunks \in Nat
    BY DEF TypeOK, Calls
  <1> HIDE DEF b
  <1>3. /\ t \in Seq(Messages) /\ Len(b) \in Nat
        /\ Len(t) = Len(b) - 1
        /\ 1 \in 1..Len(b) /\ m = b[1] /\ m \in Messages
        /\ \A i \in 1..Len(t) : t[i] = b[i + 1] /\ i + 1 \in 1..Len(b)
        /\ m \notin Terminal => (HasTerminal(t) <=> HasTerminal(b))
    BY <1>1, <1>2, TailAt
  <1>4. /\ ChunksIn(b) = ChunksIn(t) + (IF m = "stream_chunk" THEN 1 ELSE 0)
        /\ ChunksIn(b) \in Nat /\ ChunksIn(t) \in Nat
    BY <1>1, <1>2, <1>3, ChunksTail, ChunksType
  <1> HIDE DEF t, m
  <1>5. SUFFICES ASSUME ~req[r].lost, r \notin cancelled, Flowing(r)
                 PROVE  /\ req'[r].pc = "wait" => Flowing(r)'
                        /\ req'[r].pc = "ok" =>
                             /\ client[r].said \in {"all", "twice"}
                             /\ req'[r].body = client[r].chunks
    BY <1>1 DEF Intact
  <1>6. /\ \A i, j \in 1..Len(b) :
             i < j /\ b[i] \in Terminal => b[j] = "error"
        /\ \A i \in 1..Len(b) : b[i] \in {"http_response", "stream_end"} =>
             /\ client[r].said \in {"all", "twice"}
             /\ req[r].body + ChunksIn(b) = client[r].chunks
        /\ \A i \in 1..Len(b) : b[i] = "stream_start" =>
             i = 1 /\ req[r].body = 0
        /\ req[r].open => (HasTerminal(b) <=> Finishing(r))
        /\ ~HasTerminal(b) =>
             /\ req[r].open
             /\ req[r].body + ChunksIn(b)
                + (IF InTransit(r, "stream_chunk") THEN 1 ELSE 0)
                  = client[r].chunks
        /\ \A n \in Messages : InTransit(r, n) =>
             /\ n \in {"http_response", "stream_end"} =>
                   client[r].said \in {"all", "twice"}
             /\ n = "stream_start" /\ req[r].open => b = <<>>
        /\ client[r].said = "nothing" => b[1] = "error"
    BY <1>3, <1>5 DEF Flowing, b
  <1>7. /\ \A n \in Messages : InTransit(r, n)' <=> InTransit(r, n)
        /\ InTransit(r, "stream_chunk")' <=> InTransit(r, "stream_chunk")
        /\ Finishing(r)' <=> Finishing(r)
    BY <1>1 DEF InTransit, Finishing
  <1>8. CASE m \in {"http_response", "stream_end"}
    <2>1. \A i \in 1..Len(b) : b[i] # "stream_chunk"
      BY <1>3, <1>6, <1>8 DEF Terminal
    <2>2. ChunksIn(b) = 0
      BY <1>2, <2>1, ChunksNone
    <2>3. QED
      BY <1>1, <1>2, <1>3, <1>6, <1>8, <2>2
  <1>9. CASE m = "error"
    BY <1>1, <1>9
  <1>10. CASE m \in {"stream_start", "stream_chunk"}
    <2>1. /\ m \notin Terminal
          /\ \A i \in 1..Len(t) : t[i] # "stream_start"
          /\ \A i, j \in 1..Len(t) :
               i < j /\ t[i] \in Terminal => t[j] = "error"
      BY <1>3, <1>6, <1>10 DEF Terminal
    <2>2. req'[r].body \in Nat /\ req'[r].body + ChunksIn(t) = req[r].body + ChunksIn(b)
      BY <1>1, <1>2, <1>3, <1>4, <1>6, <1>10, SMTT(30)
    <2>3. \A i \in 1..Len(t) : t[i] \in {"http_response", "stream_end"} =>
             /\ client[r].said \in {"all", "twice"}
             /\ req'[r].body + ChunksIn(t) = client[r].chunks
      BY <1>3, <1>6, <2>2
    <2>4. client[r].said # "nothing"
      BY <1>3, <1>6, <1>10
    <2>5. ~HasTerminal(t) =>
             /\ req[r].open
             /\ req'[r].body + ChunksIn(t)
                + (IF InTransit(r, "stream_chunk") THEN 1 ELSE 0)
                  = client[r].chunks
      BY <1>3, <1>6, <2>1, <2>2
    <2>6. Flowing(r)'
      BY <1>1, <1>3, <1>6, <1>7, <2>1, <2>3, <2>4, <2>5 DEF Flowing
    <2>7. QED
      BY <1>1, <1>10, <2>6
  <1>11. QED
    BY <1>3, <1>8, <1>9, <1>10 DEF Messages

-----------------------------------------------------------------------------
(* The parts of the invariant.                                              *)

(* Every step keeps the types. *)
LEMMA TypeStep ==
    ASSUME IndInv, [Next]_vars
    PROVE  TypeOK'
  <1> USE DEF TypeOK, PendingInv, RangeInv, ReaderInv, sessVars, sessVars
  <1>a. TypeOK /\ PendingInv /\ RangeInv /\ ReaderInv
    BY DEF IndInv
  <1>t. pending \in [Sessions -> SUBSET Requests]
    BY <1>a DEF TypeOK
  <1>1. ASSUME NEW s \in Sessions, Connect(s) PROVE TypeOK'
    BY <1>a, <1>1 DEF Connect
  <1>2. ASSUME NEW s \in Sessions, Register(s) PROVE TypeOK'
    BY <1>a, <1>2 DEF Register
  <1>3. ASSUME NEW s \in Sessions, Announce(s) PROVE TypeOK'
    <2> HIDE DEF TypeOK, PendingInv, RangeInv, ReaderInv, sessVars
    <2>1. reader' \in [Sessions -> Readers]
      <3>1. reader \in [Sessions -> Readers]
        BY <1>a DEF TypeOK
      <3>2. QED
        BY <1>3, <3>1 DEF Announce, Readers
    <2>2. QED
      BY <1>a, <1>3, <2>1 DEF Announce, TypeOK, sessVars
  <1>4. ASSUME NEW s \in Sessions, PeerGone(s) PROVE TypeOK'
    BY <1>a, <1>4 DEF PeerGone
  <1>5. ASSUME NEW s \in Sessions, HeartbeatFails(s) PROVE TypeOK'
    <2> HIDE DEF TypeOK, PendingInv, RangeInv, ReaderInv, sessVars
    <2>1. clean' \in [Sessions -> Cleanups]
      BY <1>a, <1>5, BeginCleanupType DEF HeartbeatFails
    <2>2. QED
      BY <1>a, <1>5, <2>1 DEF HeartbeatFails, TypeOK, sessVars
  <1>6. ASSUME NEW s \in Sessions, NEW r \in Requests, RangeVisit(s, r) PROVE
        TypeOK'
    <2> HIDE DEF TypeOK, PendingInv, RangeInv, ReaderInv, sessVars
    <2>1. clean' \in [Sessions -> Cleanups]
      <3>1. clean \in [Sessions -> Cleanups] /\ pending \in [Sessions -> SUBSET Requests]
        BY <1>a DEF TypeOK
      <3>2. QED
        <4> DEFINE n == clean[s].seen \cup {r}
        <4>1. clean' = [clean EXCEPT ![s].pc = "send", ![s].r = r, ![s].seen = n]
          BY <1>6 DEF RangeVisit
        <4>2. clean[s] \in Cleanups
          BY <3>1
        <4>3. n \in SUBSET Requests
          BY <4>2 DEF Cleanups
        <4> HIDE DEF n
        <4>4. [clean[s] EXCEPT !.pc = "send", !.r = r, !.seen = n] \in Cleanups
          BY <4>2, <4>3 DEF Cleanups
        <4>5. clean' = [clean EXCEPT ![s] =
                          [clean[s] EXCEPT !.pc = "send", !.r = r, !.seen = n]]
          BY <3>1, <4>1
        <4>6. QED
          BY <3>1, <4>4, <4>5
    <2>2. QED
      BY <1>a, <1>6, <2>1 DEF RangeVisit, TypeOK, sessVars
  <1>7. ASSUME NEW s \in Sessions, RangeSend(s) PROVE TypeOK'
    <2> HIDE DEF PendingInv, RangeInv, ReaderInv
    <2>1. CASE req[clean[s].r].open
      <3> HIDE DEF TypeOK, sessVars
      <3>1. RangeSendDoes(s)
        BY <1>a, <1>7, <2>1, RangeSendEffect
      <3>2. QED
        BY <1>a, <3>1 DEF RangeSendDoes, TypeOK, sessVars
    <2>2. CASE ~req[clean[s].r].open
      BY <1>a, <1>7, <2>2 DEF RangeSend
    <2>3. QED
      BY <2>1, <2>2
  <1>8. ASSUME NEW s \in Sessions, RangeEnds(s) PROVE TypeOK'
    <2> HIDE DEF TypeOK, PendingInv, RangeInv, ReaderInv, sessVars
    <2>1. clean' \in [Sessions -> Cleanups]
      <3>1. clean \in [Sessions -> Cleanups] /\ pending \in [Sessions -> SUBSET Requests]
        BY <1>a DEF TypeOK
      <3>2. QED
        <4>1. clean[s] \in Cleanups
          BY <3>1
        <4>2. [clean[s] EXCEPT !.pc = "reset", !.must = {}, !.seen = {}]
                \in Cleanups
          BY <4>1 DEF Cleanups
        <4>3. clean' = [clean EXCEPT ![s] =
                [clean[s] EXCEPT !.pc = "reset", !.must = {}, !.seen = {}]]
          BY <1>8, <3>1 DEF RangeEnds
        <4>4. QED
          BY <3>1, <4>2, <4>3
    <2>2. QED
      BY <1>a, <1>8, <2>1 DEF RangeEnds, TypeOK, sessVars
  <1>9. ASSUME NEW s \in Sessions, ResetPending(s) PROVE TypeOK'
    <2> HIDE DEF TypeOK, PendingInv, RangeInv, ReaderInv, sessVars
    <2>1. clean' \in [Sessions -> Cleanups]
      <3>1. clean \in [Sessions -> Cleanups] /\ pending \in [Sessions -> SUBSET Requests]
        BY <1>a DEF TypeOK
      <3>2. QED
        BY <1>9, <3>1 DEF ResetPending, Cleanups
    <2>2. QED
      BY <1>a, <1>9, <2>1 DEF ResetPending, TypeOK, sessVars
  <1>10. ASSUME NEW s \in Sessions, CloseConn(s) PROVE TypeOK'
    <2> HIDE DEF TypeOK, PendingInv, RangeInv, ReaderInv, sessVars
    <2>1. clean' \in [Sessions -> Cleanups]
      <3>1. clean \in [Sessions -> Cleanups] /\ pending \in [Sessions -> SUBSET Requests]
        BY <1>a DEF TypeOK
      <3>2. QED
        BY <1>10, <3>1 DEF CloseConn, Cleanups
    <2>2. QED
      BY <1>a, <1>10, <2>1 DEF CloseConn, TypeOK, sessVars
  <1>11. ASSUME NEW s \in Sessions, Unregister(s) PROVE TypeOK'
    <2> HIDE DEF TypeOK, PendingInv, RangeInv, ReaderInv, sessVars
    <2>1. clean' \in [Sessions -> Cleanups]
      <3>1. clean \in [Sessions -> Cleanups] /\ pending \in [Sessions -> SUBSET Requests]
        BY <1>a DEF TypeOK
      <3>2. QED
        BY <1>11, <3>1 DEF Unregister, Cleanups
    <2>2. QED
      BY <1>a, <1>11, <2>1 DEF Unregister, TypeOK, sessVars
  <1>12. ASSUME NEW s \in Sessions, Notify(s) PROVE TypeOK'
    <2> HIDE DEF TypeOK, PendingInv, RangeInv, ReaderInv, sessVars
    <2>1. clean' \in [Sessions -> Cleanups]
      <3>1. clean \in [Sessions -> Cleanups] /\ pending \in [Sessions -> SUBSET Requests]
        BY <1>a DEF TypeOK
      <3>2. QED
        BY <1>12, <3>1 DEF Notify, Cleanups
    <2>2. QED
      BY <1>a, <1>12, <2>1 DEF Notify, TypeOK, sessVars
  <1>13. CASE Stop
    BY <1>a, <1>13 DEF Stop
  <1>14. ASSUME NEW s \in Sessions, StopCleans(s) PROVE TypeOK'
    <2> HIDE DEF TypeOK, PendingInv, RangeInv, ReaderInv, sessVars
    <2>1. clean' \in [Sessions -> Cleanups]
      BY <1>a, <1>14, BeginCleanupType DEF StopCleans
    <2>2. QED
      BY <1>a, <1>14, <2>1 DEF StopCleans, TypeOK, sessVars
  <1>15. ASSUME NEW s \in Sessions, StopGoesOn(s) PROVE TypeOK'
    BY <1>a, <1>15 DEF StopGoesOn
  <1>16. CASE StopReturns
    BY <1>a, <1>16 DEF StopReturns
  <1>17. ASSUME NEW r \in Requests, NEW s \in Sessions, NEW mode \in
        {"NonStream", "Stream"}, Send(r, s, mode) PROVE TypeOK'
    <2> HIDE DEF TypeOK, PendingInv, RangeInv, ReaderInv, sessVars
    <2>1. SendDoes(r, s, mode)
      BY <1>a, <1>17, SendEffect
    <2>2. QED
      BY <1>a, <2>1 DEF SendDoes, TypeOK, sessVars
  <1>18. ASSUME NEW r \in Requests, Store(r) PROVE TypeOK'
    <2> HIDE DEF TypeOK, PendingInv, RangeInv, ReaderInv, sessVars
    <2>1. StoreDoes(r)
      BY <1>a, <1>18, StoreEffect
    <2>2. QED
      BY <1>a, <2>1 DEF StoreDoes, TypeOK, sessVars
  <1>19. ASSUME NEW r \in Requests, Load(r) PROVE TypeOK'
    <2> HIDE DEF TypeOK, PendingInv, RangeInv, ReaderInv, sessVars
    <2> DEFINE p == IF r \in pending[req[r].sess] THEN "check" ELSE "failed"
    <2>1. Goto(r, p)
      BY <1>19 DEF Load
    <2>2. p \in {"check", "failed"}
      OBVIOUS
    <2> HIDE DEF p
    <2>3. GotoDoes(r, p)
      BY <1>a, <2>1, <2>2, GotoEffect
    <2>4. QED
      BY <1>a, <1>19, <2>3
         DEF Load, UnchangedByRequest, GotoDoes, TypeOK, sessVars
  <1>20. ASSUME NEW r \in Requests, CheckClosed(r) PROVE TypeOK'
    <2> HIDE DEF TypeOK, PendingInv, RangeInv, ReaderInv, sessVars
    <2> DEFINE p == IF Closed(req[r].sess) THEN "undo" ELSE "write"
    <2>1. Goto(r, p)
      BY <1>20 DEF CheckClosed
    <2>2. p \in {"undo", "write"}
      OBVIOUS
    <2> HIDE DEF p
    <2>3. GotoDoes(r, p)
      BY <1>a, <2>1, <2>2, GotoEffect
    <2>4. QED
      BY <1>a, <1>20, <2>3
         DEF CheckClosed, UnchangedByRequest, GotoDoes, TypeOK, sessVars
  <1>21. ASSUME NEW r \in Requests, Write(r) PROVE TypeOK'
    <2> HIDE DEF TypeOK, PendingInv, RangeInv, ReaderInv, sessVars
    <2>1. WriteDoes(r)
      BY <1>a, <1>21, WriteEffect
    <2>2. QED
      BY <1>a, <2>1 DEF WriteDoes, TypeOK, sessVars
  <1>22. ASSUME NEW r \in Requests, WriteFails(r) PROVE TypeOK'
    <2> HIDE DEF TypeOK, PendingInv, RangeInv, ReaderInv, sessVars
    <2> DEFINE p == "undo"
    <2>1. Goto(r, p)
      BY <1>22 DEF WriteFails
    <2>2. p \in {"undo"}
      OBVIOUS
    <2> HIDE DEF p
    <2>3. GotoDoes(r, p)
      BY <1>a, <2>1, <2>2, GotoEffect
    <2>4. QED
      BY <1>a, <1>22, <2>3
         DEF WriteFails, UnchangedByRequest, GotoDoes, TypeOK, sessVars
  <1>23. ASSUME NEW r \in Requests, Undo(r) PROVE TypeOK'
    <2> HIDE DEF TypeOK, PendingInv, RangeInv, ReaderInv, sessVars
    <2>1. UndoDoes(r)
      BY <1>a, <1>23, UndoEffect
    <2>2. QED
      BY <1>a, <2>1 DEF UndoDoes, TypeOK, sessVars
  <1>24. ASSUME NEW r \in Requests, Cancel(r) PROVE TypeOK'
    BY <1>a, <1>24 DEF Cancel
  <1>25. ASSUME NEW r \in Requests, WatchCancelled(r) PROVE TypeOK'
    <2> HIDE DEF TypeOK, PendingInv, RangeInv, ReaderInv, sessVars
    <2>1. WatchCancelledDoes(r)
      BY <1>a, <1>25, WatchCancelledEffect
    <2>2. QED
      BY <1>a, <2>1 DEF WatchCancelledDoes, TypeOK, sessVars
  <1>26. ASSUME NEW r \in Requests, WatchClosed(r) PROVE TypeOK'
    <2> HIDE DEF TypeOK, PendingInv, RangeInv, ReaderInv, sessVars
    <2>1. req' \in [Requests -> Calls]
      BY <1>a, <1>26, WatchClosedType
    <2>2. QED
      BY <1>a, <1>26, <2>1
         DEF WatchClosed, UnchangedByRequest, TypeOK, sessVars
  <1>27. ASSUME NEW s \in Sessions, NEW r \in Requests, NEW m \in Messages,
        ReadMessage(s, r, m) PROVE TypeOK'
    <2> HIDE DEF TypeOK, PendingInv, RangeInv, ReaderInv, sessVars
    <2>1. ReadMessageDoes(s, r, m)
      BY <1>a, <1>27, ReadMessageEffect
    <2>2. QED
      BY <1>a, <2>1 DEF ReadMessageDoes, TypeOK, sessVars
  <1>28. ASSUME NEW s \in Sessions, DispatchSend(s) PROVE TypeOK'
    <2> HIDE DEF PendingInv, RangeInv, ReaderInv
    <2>1. CASE req[reader[s].r].open
      <3> HIDE DEF TypeOK, sessVars
      <3>1. DispatchSendDoes(s)
        BY <1>a, <1>28, <2>1, DispatchSendEffect
      <3>2. QED
        BY <1>a, <3>1 DEF DispatchSendDoes, TypeOK, sessVars
    <2>2. CASE ~req[reader[s].r].open
      BY <1>a, <1>28, <2>2 DEF DispatchSend
    <2>3. QED
      BY <2>1, <2>2
  <1>29. ASSUME NEW s \in Sessions, DispatchFinish(s) PROVE TypeOK'
    <2> HIDE DEF TypeOK, PendingInv, RangeInv, ReaderInv, sessVars
    <2>1. DispatchFinishDoes(s)
      BY <1>a, <1>29, DispatchFinishEffect
    <2>2. QED
      BY <1>a, <2>1 DEF DispatchFinishDoes, TypeOK, sessVars
  <1>30. ASSUME NEW s \in Sessions, ReadFails(s) PROVE TypeOK'
    <2> HIDE DEF TypeOK, PendingInv, RangeInv, ReaderInv, sessVars
    <2>1. reader' \in [Sessions -> Readers]
      <3>1. reader \in [Sessions -> Readers]
        BY <1>a DEF TypeOK
      <3>2. QED
        BY <1>30, <3>1 DEF ReadFails, BeginCleanup, Readers
    <2>2. clean' \in [Sessions -> Cleanups]
      BY <1>a, <1>30, BeginCleanupType DEF ReadFails
    <2>3. QED
      BY <1>a, <1>30, <2>1, <2>2 DEF ReadFails, TypeOK, sessVars
  <1>31. ASSUME NEW r \in Requests, Receive(r) PROVE TypeOK'
    <2> HIDE DEF TypeOK, PendingInv, RangeInv, ReaderInv, sessVars
    <2>1. ReceiveDoes(r)
      BY <1>a, <1>31, ReceiveEffect
    <2>2. QED
      BY <1>a, <2>1 DEF ReceiveDoes, TypeOK, sessVars
  <1>32. ASSUME NEW r \in Requests, ReceiveClosed(r) PROVE TypeOK'
    <2> HIDE DEF TypeOK, PendingInv, RangeInv, ReaderInv, sessVars
    <2> DEFINE p == IF req[r].mode = "NonStream" /\ req[r].streaming
                  THEN "ok" ELSE "failed"
    <2>1. Goto(r, p)
      BY <1>32 DEF ReceiveClosed
    <2>2. p \in {"failed", "ok"}
      OBVIOUS
    <2> HIDE DEF p
    <2>3. GotoDoes(r, p)
      BY <1>a, <2>1, <2>2, GotoEffect
    <2>4. QED
      BY <1>a, <1>32, <2>3
         DEF ReceiveClosed, UnchangedByRequest, GotoDoes, TypeOK, sessVars
  <1>33. ASSUME NEW r \in Requests, ReceiveCancelled(r) PROVE TypeOK'
    <2> HIDE DEF TypeOK, PendingInv, RangeInv, ReaderInv, sessVars
    <2> DEFINE p == "failed"
    <2>1. Goto(r, p)
      BY <1>33 DEF ReceiveCancelled
    <2>2. p \in {"failed"}
      OBVIOUS
    <2> HIDE DEF p
    <2>3. GotoDoes(r, p)
      BY <1>a, <2>1, <2>2, GotoEffect
    <2>4. QED
      BY <1>a, <1>33, <2>3
         DEF ReceiveCancelled, UnchangedByRequest, GotoDoes, TypeOK, sessVars
  <1>34. CASE UNCHANGED vars
    BY <1>a, <1>34 DEF vars
  <1>35. QED
    BY <1>1, <1>2, <1>3, <1>4, <1>5, <1>6, <1>7, <1>8, <1>9, <1>10, <1>11,
       <1>12, <1>13, <1>14, <1>15, <1>16, <1>17, <1>18, <1>19, <1>20, <1>21,
       <1>22, <1>23, <1>24, <1>25, <1>26, <1>27, <1>28, <1>29, <1>30, <1>31,
       <1>32, <1>33, <1>34
       DEF Next, Cleanup, Reading, Requesting

(* Every step keeps the map in order. *)
LEMMA PendingStep ==
    ASSUME IndInv, [Next]_vars
    PROVE  PendingInv'
  <1> USE DEF PendingInv, TypeOK, RangeInv, ReaderInv, Closed, InMap, sessVars
  <1>a. TypeOK /\ PendingInv /\ RangeInv /\ ReaderInv
    BY DEF IndInv
  <1>t. pending \in [Sessions -> SUBSET Requests]
    BY <1>a DEF TypeOK
  <1>1. ASSUME NEW s \in Sessions, HeartbeatFails(s) PROVE PendingInv'
    BY <1>a, <1>1 DEF HeartbeatFails, BeginCleanup
  <1>2. ASSUME NEW s \in Sessions, NEW r \in Requests, RangeVisit(s, r) PROVE
        PendingInv'
    BY <1>a, <1>2 DEF RangeVisit
  <1>3. ASSUME NEW s \in Sessions, RangeSend(s) PROVE PendingInv'
    <2> HIDE DEF TypeOK, PendingInv, RangeInv, ReaderInv, Closed, InMap,
                 sessVars
    <2>1. CASE req[clean[s].r].open
      <3>1. RangeSendDoes(s)
        BY <1>a, <1>3, <2>1, RangeSendEffect
      <3>0. PICK y \in Requests : y = clean[s].r
        BY <1>a, <1>3, <3>1 DEF RangeSendDoes
      <3>2. ASSUME NEW x \in Requests \ {y} PROVE InMap(x)'
        BY <1>a, <1>t, <3>0, <3>1, SMTT(30)
           DEF RangeSendDoes, PendingInv, InMap, ReaderInv
      <3>3. InMap(y)'
        BY <1>a, <1>t, <3>0, <3>1, SMTT(30)
           DEF RangeSendDoes, PendingInv, InMap, ReaderInv
      <3>4. QED
        BY <3>2, <3>3 DEF PendingInv
    <2>2. CASE ~req[clean[s].r].open
      <3>1. UNCHANGED <<req, reader, clean, pending, client, cancelled,
                      handler>>
        BY <1>3, <2>2 DEF RangeSend, sessVars
      <3>2. QED
        BY <1>a, <3>1 DEF PendingInv, InMap
    <2>3. QED
      BY <2>1, <2>2
  <1>4. ASSUME NEW s \in Sessions, RangeEnds(s) PROVE PendingInv'
    BY <1>a, <1>4 DEF RangeEnds
  <1>5. ASSUME NEW s \in Sessions, ResetPending(s) PROVE PendingInv'
    BY <1>a, <1>5 DEF ResetPending
  <1>6. ASSUME NEW s \in Sessions, CloseConn(s) PROVE PendingInv'
    BY <1>a, <1>6 DEF CloseConn
  <1>7. ASSUME NEW s \in Sessions, Unregister(s) PROVE PendingInv'
    BY <1>a, <1>7 DEF Unregister
  <1>8. ASSUME NEW s \in Sessions, Notify(s) PROVE PendingInv'
    BY <1>a, <1>8 DEF Notify
  <1>9. ASSUME NEW s \in Sessions, StopCleans(s) PROVE PendingInv'
    BY <1>a, <1>9 DEF StopCleans, BeginCleanup
  <1>10. ASSUME NEW r \in Requests, NEW s \in Sessions, NEW mode \in
        {"NonStream", "Stream"}, Send(r, s, mode) PROVE PendingInv'
    <2> HIDE DEF TypeOK, PendingInv, RangeInv, ReaderInv, Closed, InMap,
                 sessVars
    <2>1. SendDoes(r, s, mode)
      BY <1>a, <1>10, SendEffect
    <2>0. PICK y \in Requests : y = r
      BY <1>a, <1>10, <2>1 DEF SendDoes
    <2>2. ASSUME NEW x \in Requests \ {y} PROVE InMap(x)'
      BY <1>a, <1>t, <2>0, <2>1 DEF SendDoes, PendingInv, InMap, ReaderInv
    <2>3. InMap(y)'
      BY <1>a, <1>t, <2>0, <2>1 DEF SendDoes, PendingInv, InMap, ReaderInv
    <2>4. QED
      BY <2>2, <2>3 DEF PendingInv
  <1>11. ASSUME NEW r \in Requests, Store(r) PROVE PendingInv'
    <2> HIDE DEF TypeOK, PendingInv, RangeInv, ReaderInv, Closed, InMap,
                 sessVars
    <2>1. StoreDoes(r)
      BY <1>a, <1>11, StoreEffect
    <2>0. PICK y \in Requests : y = r
      BY <1>a, <1>11, <2>1 DEF StoreDoes
    <2>2. ASSUME NEW x \in Requests \ {y} PROVE InMap(x)'
      BY <1>a, <1>t, <2>0, <2>1 DEF StoreDoes, PendingInv, InMap, ReaderInv
    <2>3. InMap(y)'
      BY <1>a, <1>t, <2>0, <2>1 DEF StoreDoes, PendingInv, InMap, ReaderInv
    <2>4. QED
      BY <2>2, <2>3 DEF PendingInv
  <1>12. ASSUME NEW r \in Requests, Load(r) PROVE PendingInv'
    BY <1>a, <1>12 DEF Load, Goto, UnchangedByRequest
  <1>13. ASSUME NEW r \in Requests, CheckClosed(r) PROVE PendingInv'
    BY <1>a, <1>13 DEF CheckClosed, Goto, UnchangedByRequest
  <1>14. ASSUME NEW r \in Requests, Write(r) PROVE PendingInv'
    <2> HIDE DEF TypeOK, PendingInv, RangeInv, ReaderInv, Closed, InMap,
                 sessVars
    <2>1. WriteDoes(r)
      BY <1>a, <1>14, WriteEffect
    <2>0. PICK y \in Requests : y = r
      BY <1>a, <1>14, <2>1 DEF WriteDoes
    <2>2. ASSUME NEW x \in Requests \ {y} PROVE InMap(x)'
      BY <1>a, <1>t, <2>0, <2>1 DEF WriteDoes, PendingInv, InMap, ReaderInv
    <2>3. InMap(y)'
      BY <1>a, <1>t, <2>0, <2>1 DEF WriteDoes, PendingInv, InMap, ReaderInv
    <2>4. QED
      BY <2>2, <2>3 DEF PendingInv
  <1>15. ASSUME NEW r \in Requests, WriteFails(r) PROVE PendingInv'
    BY <1>a, <1>15 DEF WriteFails, Goto, UnchangedByRequest
  <1>16. ASSUME NEW r \in Requests, Undo(r) PROVE PendingInv'
    <2> HIDE DEF TypeOK, PendingInv, RangeInv, ReaderInv, Closed, InMap,
                 sessVars
    <2>1. UndoDoes(r)
      BY <1>a, <1>16, UndoEffect
    <2>0. PICK y \in Requests : y = r
      BY <1>a, <1>16, <2>1 DEF UndoDoes
    <2>2. ASSUME NEW x \in Requests \ {y} PROVE InMap(x)'
      BY <1>a, <1>t, <2>0, <2>1 DEF UndoDoes, PendingInv, InMap, ReaderInv
    <2>3. InMap(y)'
      BY <1>a, <1>t, <2>0, <2>1 DEF UndoDoes, PendingInv, InMap, ReaderInv
    <2>4. QED
      BY <2>2, <2>3 DEF PendingInv
  <1>17. ASSUME NEW r \in Requests, WatchCancelled(r) PROVE PendingInv'
    <2> HIDE DEF TypeOK, PendingInv, RangeInv, ReaderInv, Closed, InMap,
                 sessVars
    <2>1. WatchCancelledDoes(r)
      BY <1>a, <1>17, WatchCancelledEffect
    <2>0. PICK y \in Requests : y = r
      BY <1>a, <1>17, <2>1 DEF WatchCancelledDoes
    <2>2. ASSUME NEW x \in Requests \ {y} PROVE InMap(x)'
      BY <1>a, <1>t, <2>0, <2>1
         DEF WatchCancelledDoes, PendingInv, InMap, ReaderInv
    <2>3. InMap(y)'
      BY <1>a, <1>t, <2>0, <2>1
         DEF WatchCancelledDoes, PendingInv, InMap, ReaderInv
    <2>4. QED
      BY <2>2, <2>3 DEF PendingInv
  <1>18. ASSUME NEW r \in Requests, WatchClosed(r) PROVE PendingInv'
    BY <1>a, <1>18 DEF WatchClosed, UnchangedByRequest
  <1>19. ASSUME NEW s \in Sessions, DispatchSend(s) PROVE PendingInv'
    <2> HIDE DEF TypeOK, PendingInv, RangeInv, ReaderInv, Closed, InMap,
                 sessVars
    <2>1. CASE req[reader[s].r].open
      <3>1. DispatchSendDoes(s)
        BY <1>a, <1>19, <2>1, DispatchSendEffect
      <3>0. PICK y \in Requests : y = reader[s].r
        BY <1>a, <1>19, <3>1 DEF DispatchSendDoes
      <3>2. ASSUME NEW x \in Requests \ {y} PROVE InMap(x)'
        BY <1>a, <1>t, <3>0, <3>1
           DEF DispatchSendDoes, PendingInv, InMap, ReaderInv
      <3>3. InMap(y)'
        BY <1>a, <1>t, <3>0, <3>1
           DEF DispatchSendDoes, PendingInv, InMap, ReaderInv
      <3>4. QED
        BY <3>2, <3>3 DEF PendingInv
    <2>2. CASE ~req[reader[s].r].open
      <3>1. UNCHANGED <<req, reader, clean, pending, client, cancelled,
                      handler>>
        BY <1>19, <2>2 DEF DispatchSend, sessVars
      <3>2. QED
        BY <1>a, <3>1 DEF PendingInv, InMap
    <2>3. QED
      BY <2>1, <2>2
  <1>20. ASSUME NEW s \in Sessions, DispatchFinish(s) PROVE PendingInv'
    <2> HIDE DEF TypeOK, PendingInv, RangeInv, ReaderInv, Closed, InMap,
                 sessVars
    <2>1. DispatchFinishDoes(s)
      BY <1>a, <1>20, DispatchFinishEffect
    <2>0. PICK y \in Requests : y = reader[s].r
      BY <1>a, <1>20, <2>1 DEF DispatchFinishDoes
    <2>2. ASSUME NEW x \in Requests \ {y} PROVE InMap(x)'
      BY <1>a, <1>t, <2>0, <2>1
         DEF DispatchFinishDoes, PendingInv, InMap, ReaderInv
    <2>3. InMap(y)'
      BY <1>a, <1>t, <2>0, <2>1
         DEF DispatchFinishDoes, PendingInv, InMap, ReaderInv
    <2>4. QED
      BY <2>2, <2>3 DEF PendingInv
  <1>21. ASSUME NEW s \in Sessions, ReadFails(s) PROVE PendingInv'
    BY <1>a, <1>21 DEF ReadFails, BeginCleanup
  <1>22. ASSUME NEW r \in Requests, Receive(r) PROVE PendingInv'
    <2> HIDE DEF TypeOK, PendingInv, RangeInv, ReaderInv, Closed, InMap,
                 sessVars
    <2>1. ReceiveDoes(r)
      BY <1>a, <1>22, ReceiveEffect
    <2>0. PICK y \in Requests : y = r
      BY <1>a, <1>22, <2>1 DEF ReceiveDoes
    <2>2. ASSUME NEW x \in Requests \ {y} PROVE InMap(x)'
      BY <1>a, <1>t, <2>0, <2>1 DEF ReceiveDoes, PendingInv, InMap, ReaderInv
    <2>3. InMap(y)'
      BY <1>a, <1>t, <2>0, <2>1 DEF ReceiveDoes, PendingInv, InMap, ReaderInv
    <2>4. QED
      BY <2>2, <2>3 DEF PendingInv
  <1>23. ASSUME NEW r \in Requests, ReceiveClosed(r) PROVE PendingInv'
    BY <1>a, <1>23 DEF ReceiveClosed, Goto, UnchangedByRequest
  <1>24. ASSUME NEW r \in Requests, ReceiveCancelled(r) PROVE PendingInv'
    BY <1>a, <1>24 DEF ReceiveCancelled, Goto, UnchangedByRequest
  <1>25. CASE (\E s \in Sessions : Connect(s)) \/ (\E s \in Sessions :
            Register(s)) \/ (\E s \in Sessions : Announce(s)) \/ (\E s \in
            Sessions : PeerGone(s)) \/ Stop \/ (\E s \in Sessions :
            StopGoesOn(s)) \/ StopReturns \/ (\E r \in Requests : Cancel(r)) \/
            (\E s \in Sessions, r \in Requests, m \in Messages : ReadMessage(s,
            r, m))
    BY <1>a, <1>25 DEF Connect, Register, Announce, PeerGone, Stop, StopGoesOn,
           StopReturns, Cancel, ReadMessage
  <1>26. CASE UNCHANGED vars
    BY <1>a, <1>26 DEF vars
  <1>27. QED
    BY <1>1, <1>2, <1>3, <1>4, <1>5, <1>6, <1>7, <1>8, <1>9, <1>10, <1>11,
       <1>12, <1>13, <1>14, <1>15, <1>16, <1>17, <1>18, <1>19, <1>20, <1>21,
       <1>22, <1>23, <1>24, <1>25, <1>26
       DEF Next, Cleanup, Reading, Requesting

(* Every step keeps what Range has still to visit. *)
LEMMA RangeStep ==
    ASSUME IndInv, [Next]_vars
    PROVE  RangeInv'
  <1> USE DEF RangeInv, TypeOK, PendingInv, ReaderInv, Past, Closed, InMap,
              sessVars
  <1>a. TypeOK /\ PendingInv /\ RangeInv /\ ReaderInv
    BY DEF IndInv
  <1>t. pending \in [Sessions -> SUBSET Requests]
    BY <1>a DEF TypeOK
  <1>1. ASSUME NEW s \in Sessions, HeartbeatFails(s) PROVE RangeInv'
    BY <1>a, <1>1 DEF HeartbeatFails, BeginCleanup
  <1>2. ASSUME NEW s \in Sessions, NEW r \in Requests, RangeVisit(s, r) PROVE
        RangeInv'
    BY <1>a, <1>2 DEF RangeVisit
  <1>3. ASSUME NEW s \in Sessions, RangeSend(s) PROVE RangeInv'
    <2> HIDE DEF TypeOK, PendingInv, RangeInv, ReaderInv, Past, Closed, InMap,
                 sessVars
    <2>1. CASE req[clean[s].r].open
      <3>1. RangeSendDoes(s)
        BY <1>a, <1>3, <2>1, RangeSendEffect
      <3>2. QED
        BY <1>a, <1>t, <3>1, SMTT(30)
           DEF RangeSendDoes, RangeInv, Past, PendingInv, InMap
    <2>2. CASE ~req[clean[s].r].open
      <3>1. UNCHANGED <<req, reader, clean, pending, client, cancelled,
                      handler>>
        BY <1>3, <2>2 DEF RangeSend, sessVars
      <3>2. QED
        BY <1>a, <3>1 DEF RangeInv, Past, PendingInv, InMap
    <2>3. QED
      BY <2>1, <2>2
  <1>4. ASSUME NEW s \in Sessions, RangeEnds(s) PROVE RangeInv'
    BY <1>a, <1>4, SMTT(30) DEF RangeEnds
  <1>5. ASSUME NEW s \in Sessions, ResetPending(s) PROVE RangeInv'
    BY <1>a, <1>5 DEF ResetPending
  <1>6. ASSUME NEW s \in Sessions, CloseConn(s) PROVE RangeInv'
    BY <1>a, <1>6 DEF CloseConn
  <1>7. ASSUME NEW s \in Sessions, Unregister(s) PROVE RangeInv'
    BY <1>a, <1>7 DEF Unregister
  <1>8. ASSUME NEW s \in Sessions, Notify(s) PROVE RangeInv'
    BY <1>a, <1>8 DEF Notify
  <1>9. ASSUME NEW s \in Sessions, StopCleans(s) PROVE RangeInv'
    BY <1>a, <1>9 DEF StopCleans, BeginCleanup
  <1>10. ASSUME NEW r \in Requests, NEW s \in Sessions, NEW mode \in
        {"NonStream", "Stream"}, Send(r, s, mode) PROVE RangeInv'
    <2> HIDE DEF TypeOK, PendingInv, RangeInv, ReaderInv, Past, Closed, InMap,
                 sessVars
    <2>1. SendDoes(r, s, mode)
      BY <1>a, <1>10, SendEffect
    <2>2. QED
      BY <1>a, <1>t, <2>1 DEF SendDoes, RangeInv, Past, PendingInv, InMap
  <1>11. ASSUME NEW r \in Requests, Store(r) PROVE RangeInv'
    <2> HIDE DEF TypeOK, PendingInv, RangeInv, ReaderInv, Past, Closed, InMap,
                 sessVars
    <2>1. StoreDoes(r)
      BY <1>a, <1>11, StoreEffect
    <2>2. QED
      BY <1>a, <1>t, <2>1 DEF StoreDoes, RangeInv, Past, PendingInv, InMap
  <1>12. ASSUME NEW r \in Requests, Load(r) PROVE RangeInv'
    BY <1>a, <1>12 DEF Load, Goto, UnchangedByRequest
  <1>13. ASSUME NEW r \in Requests, CheckClosed(r) PROVE RangeInv'
    BY <1>a, <1>13 DEF CheckClosed, Goto, UnchangedByRequest
  <1>14. ASSUME NEW r \in Requests, Write(r) PROVE RangeInv'
    <2> HIDE DEF TypeOK, PendingInv, RangeInv, ReaderInv, Past, Closed, InMap,
                 sessVars
    <2>1. WriteDoes(r)
      BY <1>a, <1>14, WriteEffect
    <2>2. QED
      BY <1>a, <1>t, <2>1 DEF WriteDoes, RangeInv, Past, PendingInv, InMap
  <1>15. ASSUME NEW r \in Requests, WriteFails(r) PROVE RangeInv'
    BY <1>a, <1>15 DEF WriteFails, Goto, UnchangedByRequest
  <1>16. ASSUME NEW r \in Requests, Undo(r) PROVE RangeInv'
    <2> HIDE DEF TypeOK, PendingInv, RangeInv, ReaderInv, Past, Closed, InMap,
                 sessVars
    <2>1. UndoDoes(r)
      BY <1>a, <1>16, UndoEffect
    <2>2. QED
      BY <1>a, <1>t, <2>1 DEF UndoDoes, RangeInv, Past, PendingInv, InMap
  <1>17. ASSUME NEW r \in Requests, WatchCancelled(r) PROVE RangeInv'
    <2> HIDE DEF TypeOK, PendingInv, RangeInv, ReaderInv, Past, Closed, InMap,
                 sessVars
    <2>1. WatchCancelledDoes(r)
      BY <1>a, <1>17, WatchCancelledEffect
    <2>2. QED
      BY <1>a, <1>t, <2>1
         DEF WatchCancelledDoes, RangeInv, Past, PendingInv, InMap
  <1>18. ASSUME NEW r \in Requests, WatchClosed(r) PROVE RangeInv'
    BY <1>a, <1>18 DEF WatchClosed, UnchangedByRequest
  <1>19. ASSUME NEW s \in Sessions, DispatchSend(s) PROVE RangeInv'
    <2> HIDE DEF TypeOK, PendingInv, RangeInv, ReaderInv, Past, Closed, InMap,
                 sessVars
    <2>1. CASE req[reader[s].r].open
      <3>1. DispatchSendDoes(s)
        BY <1>a, <1>19, <2>1, DispatchSendEffect
      <3>2. QED
        BY <1>a, <1>t, <3>1, SMTT(30)
           DEF DispatchSendDoes, RangeInv, Past, PendingInv, InMap
    <2>2. CASE ~req[reader[s].r].open
      <3>1. UNCHANGED <<req, reader, clean, pending, client, cancelled,
                      handler>>
        BY <1>19, <2>2 DEF DispatchSend, sessVars
      <3>2. QED
        BY <1>a, <3>1 DEF RangeInv, Past, PendingInv, InMap
    <2>3. QED
      BY <2>1, <2>2
  <1>20. ASSUME NEW s \in Sessions, DispatchFinish(s) PROVE RangeInv'
    <2> HIDE DEF TypeOK, PendingInv, RangeInv, ReaderInv, Past, Closed, InMap,
                 sessVars
    <2>1. DispatchFinishDoes(s)
      BY <1>a, <1>20, DispatchFinishEffect
    <2>2. QED
      BY <1>a, <1>t, <2>1, SMTT(30)
         DEF DispatchFinishDoes, RangeInv, Past, PendingInv, InMap
  <1>21. ASSUME NEW s \in Sessions, ReadFails(s) PROVE RangeInv'
    BY <1>a, <1>21 DEF ReadFails, BeginCleanup
  <1>22. ASSUME NEW r \in Requests, Receive(r) PROVE RangeInv'
    <2> HIDE DEF TypeOK, PendingInv, RangeInv, ReaderInv, Past, Closed, InMap,
                 sessVars
    <2>1. ReceiveDoes(r)
      BY <1>a, <1>22, ReceiveEffect
    <2>2. QED
      BY <1>a, <1>t, <2>1 DEF ReceiveDoes, RangeInv, Past, PendingInv, InMap
  <1>23. ASSUME NEW r \in Requests, ReceiveClosed(r) PROVE RangeInv'
    BY <1>a, <1>23 DEF ReceiveClosed, Goto, UnchangedByRequest
  <1>24. ASSUME NEW r \in Requests, ReceiveCancelled(r) PROVE RangeInv'
    BY <1>a, <1>24 DEF ReceiveCancelled, Goto, UnchangedByRequest
  <1>25. CASE (\E s \in Sessions : Connect(s)) \/ (\E s \in Sessions :
            Register(s)) \/ (\E s \in Sessions : Announce(s)) \/ (\E s \in
            Sessions : PeerGone(s)) \/ Stop \/ (\E s \in Sessions :
            StopGoesOn(s)) \/ StopReturns \/ (\E r \in Requests : Cancel(r)) \/
            (\E s \in Sessions, r \in Requests, m \in Messages : ReadMessage(s,
            r, m))
    BY <1>a, <1>25, SMTT(30) DEF Connect, Register, Announce, PeerGone, Stop, StopGoesOn,
           StopReturns, Cancel, ReadMessage
  <1>26. CASE UNCHANGED vars
    BY <1>a, <1>26 DEF vars
  <1>27. QED
    BY <1>1, <1>2, <1>3, <1>4, <1>5, <1>6, <1>7, <1>8, <1>9, <1>10, <1>11,
       <1>12, <1>13, <1>14, <1>15, <1>16, <1>17, <1>18, <1>19, <1>20, <1>21,
       <1>22, <1>23, <1>24, <1>25, <1>26
       DEF Next, Cleanup, Reading, Requesting

(* Every step keeps the reader to requests that were written. *)
LEMMA ReaderStep ==
    ASSUME IndInv, [Next]_vars
    PROVE  ReaderInv'
  <1> USE DEF ReaderInv, TypeOK, PendingInv, RangeInv, Closed, InMap, sessVars
  <1>a. TypeOK /\ PendingInv /\ RangeInv /\ ReaderInv
    BY DEF IndInv
  <1>t. pending \in [Sessions -> SUBSET Requests]
    BY <1>a DEF TypeOK
  <1>1. ASSUME NEW s \in Sessions, Connect(s) PROVE ReaderInv'
    BY <1>a, <1>1 DEF Connect
  <1>2. ASSUME NEW s \in Sessions, Register(s) PROVE ReaderInv'
    BY <1>a, <1>2 DEF Register
  <1>3. ASSUME NEW s \in Sessions, Announce(s) PROVE ReaderInv'
    BY <1>a, <1>3 DEF Announce
  <1>4. ASSUME NEW s \in Sessions, HeartbeatFails(s) PROVE ReaderInv'
    BY <1>a, <1>4 DEF HeartbeatFails, BeginCleanup
  <1>5. ASSUME NEW s \in Sessions, NEW r \in Requests, RangeVisit(s, r) PROVE
        ReaderInv'
    BY <1>a, <1>5 DEF RangeVisit
  <1>6. ASSUME NEW s \in Sessions, RangeSend(s) PROVE ReaderInv'
    <2> HIDE DEF TypeOK, PendingInv, RangeInv, ReaderInv, Closed, InMap,
                 sessVars
    <2>1. CASE req[clean[s].r].open
      <3>1. RangeSendDoes(s)
        BY <1>a, <1>6, <2>1, RangeSendEffect
      <3>2. QED
        BY <1>a, <1>t, <3>1, SMTT(30)
           DEF RangeSendDoes, ReaderInv, sessVars, Closed, PendingInv, InMap
    <2>2. CASE ~req[clean[s].r].open
      <3>1. UNCHANGED <<req, reader, clean, pending, client, cancelled,
                      handler>>
        BY <1>6, <2>2 DEF RangeSend, sessVars
      <3>2. QED
        BY <1>a, <3>1 DEF ReaderInv, sessVars, Closed, PendingInv, InMap
    <2>3. QED
      BY <2>1, <2>2
  <1>7. ASSUME NEW s \in Sessions, RangeEnds(s) PROVE ReaderInv'
    BY <1>a, <1>7 DEF RangeEnds
  <1>8. ASSUME NEW s \in Sessions, ResetPending(s) PROVE ReaderInv'
    BY <1>a, <1>8 DEF ResetPending
  <1>9. ASSUME NEW s \in Sessions, CloseConn(s) PROVE ReaderInv'
    BY <1>a, <1>9 DEF CloseConn
  <1>10. ASSUME NEW s \in Sessions, Unregister(s) PROVE ReaderInv'
    BY <1>a, <1>10 DEF Unregister
  <1>11. ASSUME NEW s \in Sessions, Notify(s) PROVE ReaderInv'
    BY <1>a, <1>11 DEF Notify
  <1>12. ASSUME NEW s \in Sessions, StopCleans(s) PROVE ReaderInv'
    BY <1>a, <1>12 DEF StopCleans, BeginCleanup
  <1>13. ASSUME NEW r \in Requests, NEW s \in Sessions, NEW mode \in
        {"NonStream", "Stream"}, Send(r, s, mode) PROVE ReaderInv'
    <2> HIDE DEF TypeOK, PendingInv, RangeInv, ReaderInv, Closed, InMap,
                 sessVars
    <2>1. SendDoes(r, s, mode)
      BY <1>a, <1>13, SendEffect
    <2>2. QED
      BY <1>a, <1>t, <2>1
         DEF SendDoes, ReaderInv, sessVars, Closed, PendingInv, InMap
  <1>14. ASSUME NEW r \in Requests, Store(r) PROVE ReaderInv'
    <2> HIDE DEF TypeOK, PendingInv, RangeInv, ReaderInv, Closed, InMap,
                 sessVars
    <2>1. StoreDoes(r)
      BY <1>a, <1>14, StoreEffect
    <2>2. QED
      BY <1>a, <1>t, <2>1
         DEF StoreDoes, ReaderInv, sessVars, Closed, PendingInv, InMap
  <1>15. ASSUME NEW r \in Requests, Load(r) PROVE ReaderInv'
    BY <1>a, <1>15 DEF Load, Goto, UnchangedByRequest
  <1>16. ASSUME NEW r \in Requests, CheckClosed(r) PROVE ReaderInv'
    BY <1>a, <1>16 DEF CheckClosed, Goto, UnchangedByRequest
  <1>17. ASSUME NEW r \in Requests, Write(r) PROVE ReaderInv'
    <2> HIDE DEF TypeOK, PendingInv, RangeInv, ReaderInv, Closed, InMap,
                 sessVars
    <2>1. WriteDoes(r)
      BY <1>a, <1>17, WriteEffect
    <2>2. \A t \in Sessions : reader[t].pc \in {"send", "finish"} =>
             reader[t].r # r
      BY <1>a, <2>1 DEF WriteDoes, ReaderInv
    <2>3. QED
      BY <1>a, <2>1, <2>2 DEF WriteDoes, ReaderInv, sessVars, Closed
  <1>18. ASSUME NEW r \in Requests, WriteFails(r) PROVE ReaderInv'
    BY <1>a, <1>18 DEF WriteFails, Goto, UnchangedByRequest
  <1>19. ASSUME NEW r \in Requests, Undo(r) PROVE ReaderInv'
    <2> HIDE DEF TypeOK, PendingInv, RangeInv, ReaderInv, Closed, InMap,
                 sessVars
    <2>1. UndoDoes(r)
      BY <1>a, <1>19, UndoEffect
    <2>2. QED
      BY <1>a, <1>t, <2>1
         DEF UndoDoes, ReaderInv, sessVars, Closed, PendingInv, InMap
  <1>20. ASSUME NEW r \in Requests, Cancel(r) PROVE ReaderInv'
    BY <1>a, <1>20 DEF Cancel
  <1>21. ASSUME NEW r \in Requests, WatchCancelled(r) PROVE ReaderInv'
    <2> HIDE DEF TypeOK, PendingInv, RangeInv, ReaderInv, Closed, InMap,
                 sessVars
    <2>1. WatchCancelledDoes(r)
      BY <1>a, <1>21, WatchCancelledEffect
    <2>2. QED
      BY <1>a, <1>t, <2>1
         DEF WatchCancelledDoes, ReaderInv, sessVars, Closed, PendingInv, InMap
  <1>22. ASSUME NEW r \in Requests, WatchClosed(r) PROVE ReaderInv'
    BY <1>a, <1>22 DEF WatchClosed, UnchangedByRequest
  <1>23. ASSUME NEW s \in Sessions, NEW r \in Requests, NEW m \in Messages,
        ReadMessage(s, r, m) PROVE ReaderInv'
    <2> HIDE DEF TypeOK, PendingInv, RangeInv, ReaderInv, Closed, InMap,
                 sessVars
    <2>1. ReadMessageDoes(s, r, m)
      BY <1>a, <1>23, ReadMessageEffect
    <2>2. client[r] \in [said : {"unasked", "nothing", "some", "all", "error",
                              "twice"}, chunks : Nat]
      BY <1>a DEF TypeOK
    <2>3. /\ client'[r].said \notin {"unasked", "nothing"}
          /\ client[r].said # "unasked"
      BY <2>1, <2>2, SaysSomething DEF ReadMessageDoes
    <2>4. QED
      BY <1>a, <1>t, <2>1, <2>3, SMTT(30)
         DEF ReadMessageDoes, sessVars, ReaderInv, Closed, PendingInv, InMap
  <1>24. ASSUME NEW s \in Sessions, DispatchSend(s) PROVE ReaderInv'
    <2> HIDE DEF TypeOK, PendingInv, RangeInv, ReaderInv, Closed, InMap,
                 sessVars
    <2>1. CASE req[reader[s].r].open
      <3>1. DispatchSendDoes(s)
        BY <1>a, <1>24, <2>1, DispatchSendEffect
      <3>2. QED
        BY <1>a, <1>t, <3>1, SMTT(30)
           DEF DispatchSendDoes, ReaderInv, sessVars, Closed, PendingInv, InMap
    <2>2. CASE ~req[reader[s].r].open
      <3>1. UNCHANGED <<req, reader, clean, pending, client, cancelled,
                      handler>>
        BY <1>24, <2>2 DEF DispatchSend, sessVars
      <3>2. QED
        BY <1>a, <3>1 DEF ReaderInv, sessVars, Closed, PendingInv, InMap
    <2>3. QED
      BY <2>1, <2>2
  <1>25. ASSUME NEW s \in Sessions, DispatchFinish(s) PROVE ReaderInv'
    <2> HIDE DEF TypeOK, PendingInv, RangeInv, ReaderInv, Closed, InMap,
                 sessVars
    <2>1. DispatchFinishDoes(s)
      BY <1>a, <1>25, DispatchFinishEffect
    <2>2. QED
      BY <1>a, <1>t, <2>1
         DEF DispatchFinishDoes, ReaderInv, sessVars, Closed, PendingInv, InMap
  <1>26. ASSUME NEW s \in Sessions, ReadFails(s) PROVE ReaderInv'
    BY <1>a, <1>26 DEF ReadFails, BeginCleanup
  <1>27. ASSUME NEW r \in Requests, Receive(r) PROVE ReaderInv'
    <2> HIDE DEF TypeOK, PendingInv, RangeInv, ReaderInv, Closed, InMap,
                 sessVars
    <2>1. ReceiveDoes(r)
      BY <1>a, <1>27, ReceiveEffect
    <2>2. QED
      BY <1>a, <1>t, <2>1
         DEF ReceiveDoes, ReaderInv, sessVars, Closed, PendingInv, InMap
  <1>28. ASSUME NEW r \in Requests, ReceiveClosed(r) PROVE ReaderInv'
    BY <1>a, <1>28 DEF ReceiveClosed, Goto, UnchangedByRequest
  <1>29. ASSUME NEW r \in Requests, ReceiveCancelled(r) PROVE ReaderInv'
    BY <1>a, <1>29 DEF ReceiveCancelled, Goto, UnchangedByRequest
  <1>30. CASE (\E s \in Sessions : PeerGone(s)) \/ Stop \/ (\E s \in Sessions :
            StopGoesOn(s)) \/ StopReturns
    BY <1>a, <1>30 DEF PeerGone, Stop, StopGoesOn, StopReturns
  <1>31. CASE UNCHANGED vars
    BY <1>a, <1>31 DEF vars
  <1>32. QED
    BY <1>1, <1>2, <1>3, <1>4, <1>5, <1>6, <1>7, <1>8, <1>9, <1>10, <1>11,
       <1>12, <1>13, <1>14, <1>15, <1>16, <1>17, <1>18, <1>19, <1>20, <1>21,
       <1>22, <1>23, <1>24, <1>25, <1>26, <1>27, <1>28, <1>29, <1>30, <1>31
       DEF Next, Cleanup, Reading, Requesting

(* What callers have and will have read, step by step. *)
LEMMA FlowStep ==
    ASSUME IndInv, [Next]_vars
    PROVE  FlowInv'
  <1>a. TypeOK /\ PendingInv /\ RangeInv /\ ReaderInv /\ FlowInv
    BY DEF IndInv
  <1>1. ASSUME NEW s \in Sessions, Announce(s) PROVE FlowInv'
    <2>1. /\ UNCHANGED <<req, client, cancelled>>
          /\ \A x \in Requests, m \in Messages :
                InTransit(x, m)' <=> InTransit(x, m)
          /\ \A x \in Requests : Finishing(x)' <=> Finishing(x)
      BY <1>a, <1>1
         DEF Announce, TypeOK, ReaderInv, Readers, InTransit, Finishing
    <2>2. QED
      BY <1>a, <2>1, IntactFrame DEF FlowInv
  <1>2. ASSUME NEW s \in Sessions, RangeSend(s) PROVE FlowInv'
    <2>1. CASE req[clean[s].r].open
      <3>1. RangeSendDoes(s)
        BY <1>a, <1>2, <2>1, RangeSendEffect
      <3>2. PICK y \in Requests : y = clean[s].r
        BY <3>1 DEF RangeSendDoes
      <3>3. ASSUME NEW x \in Requests \ {y} PROVE Intact(x)'
        <4>1. /\ req'[x] = req[x] /\ UNCHANGED <<client, cancelled, reader>>
              /\ \A m \in Messages : InTransit(x, m)' <=> InTransit(x, m)
              /\ Finishing(x)' <=> Finishing(x)
          BY <3>1, <3>2 DEF RangeSendDoes, InTransit, Finishing
        <4>2. QED
          BY <1>a, <4>1, IntactFrame DEF FlowInv
      <3>4. Intact(y)'
        BY <1>a, <3>1, <3>2, IntactRangeSend DEF FlowInv
      <3>5. QED
        BY <3>3, <3>4 DEF FlowInv
    <2>2. CASE ~req[clean[s].r].open
      <3>1. UNCHANGED <<req, reader, client, cancelled>>
        BY <1>2, <2>2 DEF RangeSend
      <3>2. QED
        BY <1>a, <3>1, IntactFrame DEF FlowInv, InTransit, Finishing
    <2>3. QED
      BY <2>1, <2>2
  <1>3. ASSUME NEW r \in Requests, NEW s \in Sessions, NEW mode \in
        {"NonStream", "Stream"}, Send(r, s, mode) PROVE FlowInv'
    <2>1. SendDoes(r, s, mode)
      BY <1>a, <1>3, SendEffect
    <2>2. /\ \A x \in Requests \ {r} : req'[x] = req[x]
          /\ UNCHANGED <<reader, cancelled>>
          /\ \A x \in Requests \ {r} : client'[x] = client[x]
      BY <1>3, <2>1 DEF SendDoes
    <2>3. ASSUME NEW x \in Requests \ {r} PROVE Intact(x)'
      <3>1. /\ \A m \in Messages : InTransit(x, m)' <=> InTransit(x, m)
            /\ Finishing(x)' <=> Finishing(x)
        BY <2>2 DEF InTransit, Finishing
      <3>2. QED
        BY <1>a, <2>2, <3>1, IntactFrame DEF FlowInv
    <2>4. Intact(r)'
      <3>1. /\ req[r].pc = "new" /\ req'[r].pc \notin {"wait", "ok"}
            /\ req'[r].body = req[r].body /\ req'[r].buf = req[r].buf
            /\ req'[r].open = req[r].open /\ req'[r].lost = req[r].lost
            /\ UNCHANGED <<client, cancelled>>
        BY <1>3, <2>2, <2>1 DEF SendDoes
      <3>2. QED
        BY <1>a, <3>1, FreshFrame DEF FlowInv, Intact
    <2>5. QED
      BY <2>3, <2>4 DEF FlowInv
  <1>4. ASSUME NEW r \in Requests, Store(r) PROVE FlowInv'
    <2>1. StoreDoes(r)
      BY <1>a, <1>4, StoreEffect
    <2>2. /\ \A x \in Requests \ {r} : req'[x] = req[x]
          /\ UNCHANGED <<reader, cancelled>>
          /\ \A x \in Requests \ {r} : client'[x] = client[x]
      BY <1>4, <2>1 DEF StoreDoes
    <2>3. ASSUME NEW x \in Requests \ {r} PROVE Intact(x)'
      <3>1. /\ \A m \in Messages : InTransit(x, m)' <=> InTransit(x, m)
            /\ Finishing(x)' <=> Finishing(x)
        BY <2>2 DEF InTransit, Finishing
      <3>2. QED
        BY <1>a, <2>2, <3>1, IntactFrame DEF FlowInv
    <2>4. Intact(r)'
      <3>1. /\ req[r].pc = "store" /\ req'[r].pc \notin {"wait", "ok"}
            /\ req'[r].body = req[r].body /\ req'[r].buf = req[r].buf
            /\ req'[r].open = req[r].open /\ req'[r].lost = req[r].lost
            /\ UNCHANGED <<client, cancelled>>
        BY <1>4, <2>2, <2>1 DEF StoreDoes
      <3>2. QED
        BY <1>a, <3>1, FreshFrame DEF FlowInv, Intact
    <2>5. QED
      BY <2>3, <2>4 DEF FlowInv
  <1>5. ASSUME NEW r \in Requests, Load(r) PROVE FlowInv'
    <2> DEFINE p == IF r \in pending[req[r].sess] THEN "check" ELSE "failed"
    <2>1. Goto(r, p)
      BY <1>5 DEF Load
    <2>2. p \in {"check", "failed"}
      OBVIOUS
    <2> HIDE DEF p
    <2>3. GotoDoes(r, p)
      BY <1>a, <2>1, <2>2, GotoEffect
    <2>4. /\ \A x \in Requests \ {r} : req'[x] = req[x]
          /\ UNCHANGED <<reader, cancelled>>
          /\ \A x \in Requests \ {r} : client'[x] = client[x]
      BY <1>5, <2>3 DEF GotoDoes, Load, UnchangedByRequest
    <2>5. ASSUME NEW x \in Requests \ {r} PROVE Intact(x)'
      <3>1. /\ \A m \in Messages : InTransit(x, m)' <=> InTransit(x, m)
            /\ Finishing(x)' <=> Finishing(x)
        BY <2>4 DEF InTransit, Finishing
      <3>2. QED
        BY <1>a, <2>4, <3>1, IntactFrame DEF FlowInv
    <2>6. Intact(r)'
      <3>1. /\ req[r].pc = "load" /\ req'[r].pc \notin {"wait", "ok"}
            /\ req'[r].body = req[r].body /\ req'[r].buf = req[r].buf
            /\ req'[r].open = req[r].open /\ req'[r].lost = req[r].lost
            /\ UNCHANGED <<client, cancelled>>
        BY <1>5, <2>2, <2>3 DEF GotoDoes, Load, UnchangedByRequest
      <3>2. QED
        BY <1>a, <3>1, FreshFrame DEF FlowInv, Intact
    <2>7. QED
      BY <2>5, <2>6 DEF FlowInv
  <1>6. ASSUME NEW r \in Requests, CheckClosed(r) PROVE FlowInv'
    <2> DEFINE p == IF Closed(req[r].sess) THEN "undo" ELSE "write"
    <2>1. Goto(r, p)
      BY <1>6 DEF CheckClosed
    <2>2. p \in {"undo", "write"}
      OBVIOUS
    <2> HIDE DEF p
    <2>3. GotoDoes(r, p)
      BY <1>a, <2>1, <2>2, GotoEffect
    <2>4. /\ \A x \in Requests \ {r} : req'[x] = req[x]
          /\ UNCHANGED <<reader, cancelled>>
          /\ \A x \in Requests \ {r} : client'[x] = client[x]
      BY <1>6, <2>3 DEF GotoDoes, CheckClosed, UnchangedByRequest
    <2>5. ASSUME NEW x \in Requests \ {r} PROVE Intact(x)'
      <3>1. /\ \A m \in Messages : InTransit(x, m)' <=> InTransit(x, m)
            /\ Finishing(x)' <=> Finishing(x)
        BY <2>4 DEF InTransit, Finishing
      <3>2. QED
        BY <1>a, <2>4, <3>1, IntactFrame DEF FlowInv
    <2>6. Intact(r)'
      <3>1. /\ req[r].pc = "check" /\ req'[r].pc \notin {"wait", "ok"}
            /\ req'[r].body = req[r].body /\ req'[r].buf = req[r].buf
            /\ req'[r].open = req[r].open /\ req'[r].lost = req[r].lost
            /\ UNCHANGED <<client, cancelled>>
        BY <1>6, <2>2, <2>3 DEF GotoDoes, CheckClosed, UnchangedByRequest
      <3>2. QED
        BY <1>a, <3>1, FreshFrame DEF FlowInv, Intact
    <2>7. QED
      BY <2>5, <2>6 DEF FlowInv
  <1>7. ASSUME NEW r \in Requests, Write(r) PROVE FlowInv'
    <2>1. WriteDoes(r)
      BY <1>a, <1>7, WriteEffect
    <2>2. /\ \A x \in Requests \ {r} : req'[x] = req[x]
          /\ UNCHANGED <<reader, cancelled>>
          /\ \A x \in Requests \ {r} : client'[x] = client[x]
      BY <1>7, <2>1 DEF WriteDoes
    <2>3. ASSUME NEW x \in Requests \ {r} PROVE Intact(x)'
      <3>1. /\ \A m \in Messages : InTransit(x, m)' <=> InTransit(x, m)
            /\ Finishing(x)' <=> Finishing(x)
        BY <2>2 DEF InTransit, Finishing
      <3>2. QED
        BY <1>a, <2>2, <3>1, IntactFrame DEF FlowInv
    <2>4. Intact(r)'
      BY <1>a, <2>1, IntactWrite DEF FlowInv
    <2>5. QED
      BY <2>3, <2>4 DEF FlowInv
  <1>8. ASSUME NEW r \in Requests, WriteFails(r) PROVE FlowInv'
    <2> DEFINE p == "undo"
    <2>1. Goto(r, p)
      BY <1>8 DEF WriteFails
    <2>2. p \in {"undo"}
      OBVIOUS
    <2> HIDE DEF p
    <2>3. GotoDoes(r, p)
      BY <1>a, <2>1, <2>2, GotoEffect
    <2>4. /\ \A x \in Requests \ {r} : req'[x] = req[x]
          /\ UNCHANGED <<reader, cancelled>>
          /\ \A x \in Requests \ {r} : client'[x] = client[x]
      BY <1>8, <2>3 DEF GotoDoes, WriteFails, UnchangedByRequest
    <2>5. ASSUME NEW x \in Requests \ {r} PROVE Intact(x)'
      <3>1. /\ \A m \in Messages : InTransit(x, m)' <=> InTransit(x, m)
            /\ Finishing(x)' <=> Finishing(x)
        BY <2>4 DEF InTransit, Finishing
      <3>2. QED
        BY <1>a, <2>4, <3>1, IntactFrame DEF FlowInv
    <2>6. Intact(r)'
      BY <1>8, <2>4, <2>3, <2>2 DEF GotoDoes, WriteFails, p, Intact
    <2>7. QED
      BY <2>5, <2>6 DEF FlowInv
  <1>9. ASSUME NEW r \in Requests, Undo(r) PROVE FlowInv'
    <2>1. UndoDoes(r)
      BY <1>a, <1>9, UndoEffect
    <2>2. /\ \A x \in Requests \ {r} : req'[x] = req[x]
          /\ UNCHANGED <<reader, cancelled>>
          /\ \A x \in Requests \ {r} : client'[x] = client[x]
      BY <1>9, <2>1 DEF UndoDoes
    <2>3. ASSUME NEW x \in Requests \ {r} PROVE Intact(x)'
      <3>1. /\ \A m \in Messages : InTransit(x, m)' <=> InTransit(x, m)
            /\ Finishing(x)' <=> Finishing(x)
        BY <2>2 DEF InTransit, Finishing
      <3>2. QED
        BY <1>a, <2>2, <3>1, IntactFrame DEF FlowInv
    <2>4. Intact(r)'
      BY <1>9, <2>2, <2>1 DEF UndoDoes, Intact
    <2>5. QED
      BY <2>3, <2>4 DEF FlowInv
  <1>10. ASSUME NEW r \in Requests, Cancel(r) PROVE FlowInv'
    <2>1. /\ UNCHANGED <<req, client, reader>> /\ cancelled \subseteq cancelled'
      BY <1>10 DEF Cancel
    <2>2. QED
      BY <1>a, <2>1, IntactFrame DEF FlowInv, InTransit, Finishing
  <1>11. ASSUME NEW r \in Requests, WatchCancelled(r) PROVE FlowInv'
    <2>1. WatchCancelledDoes(r)
      BY <1>a, <1>11, WatchCancelledEffect
    <2>2. /\ \A x \in Requests \ {r} : req'[x] = req[x]
          /\ UNCHANGED <<reader, cancelled>>
          /\ \A x \in Requests \ {r} : client'[x] = client[x]
      BY <1>11, <2>1 DEF WatchCancelledDoes
    <2>3. ASSUME NEW x \in Requests \ {r} PROVE Intact(x)'
      <3>1. /\ \A m \in Messages : InTransit(x, m)' <=> InTransit(x, m)
            /\ Finishing(x)' <=> Finishing(x)
        BY <2>2 DEF InTransit, Finishing
      <3>2. QED
        BY <1>a, <2>2, <3>1, IntactFrame DEF FlowInv
    <2>4. Intact(r)'
      BY <2>2, <2>1 DEF WatchCancelledDoes, Intact
    <2>5. QED
      BY <2>3, <2>4 DEF FlowInv
  <1>12. ASSUME NEW r \in Requests, WatchClosed(r) PROVE FlowInv'
    <2>1. /\ req' = [req EXCEPT ![r].watched = FALSE]
          /\ UNCHANGED <<reader, cancelled, client>>
      BY <1>12 DEF WatchClosed, UnchangedByRequest
    <2>2. req[r] \in Calls
      BY <1>a DEF TypeOK
    <2>3. /\ \A x \in Requests \ {r} : req'[x] = req[x]
          /\ req'[r] = [req[r] EXCEPT !.watched = FALSE]
      BY <1>a, <2>1 DEF TypeOK
    <2>4. /\ req'[r].pc = req[r].pc /\ req'[r].sess = req[r].sess
          /\ req'[r].body = req[r].body /\ req'[r].lost = req[r].lost
          /\ req'[r].buf = req[r].buf /\ req'[r].open = req[r].open
      BY <2>2, <2>3 DEF Calls
    <2>5. ASSUME NEW x \in Requests PROVE Intact(x)'
      <3>1. /\ \A m \in Messages : InTransit(x, m)' <=> InTransit(x, m)
            /\ Finishing(x)' <=> Finishing(x)
            /\ InTransit(x, "stream_chunk")' <=> InTransit(x, "stream_chunk")
        BY <2>1, <2>3, <2>4 DEF InTransit, Finishing
      <3>2. /\ req'[x].pc = req[x].pc /\ req'[x].lost = req[x].lost
            /\ req'[x].body = req[x].body /\ req'[x].buf = req[x].buf
            /\ req'[x].open = req[x].open
            /\ UNCHANGED <<cancelled, client>>
        BY <2>1, <2>3, <2>4
      <3>3. (Fresh(x) => Fresh(x)') /\ (Flowing(x) => Flowing(x)')
        BY <3>1, <3>2 DEF Fresh, Flowing
      <3>4. QED
        BY <1>a, <3>2, <3>3 DEF FlowInv, Intact
    <2>6. QED
      BY <2>5 DEF FlowInv
  <1>13. ASSUME NEW s \in Sessions, NEW r \in Requests, NEW m \in Messages,
        ReadMessage(s, r, m) PROVE FlowInv'
    <2>1. ReadMessageDoes(s, r, m)
      BY <1>a, <1>13, ReadMessageEffect
    <2>2. ASSUME NEW x \in Requests \ {r} PROVE Intact(x)'
      <3>1. /\ req'[x] = req[x] /\ client'[x] = client[x]
            /\ UNCHANGED cancelled
            /\ \A k \in Messages : InTransit(x, k)' <=> InTransit(x, k)
            /\ Finishing(x)' <=> Finishing(x)
        BY <2>1, ReaderOfAnother DEF ReadMessageDoes
      <3>2. QED
        BY <1>a, <3>1, IntactFrame DEF FlowInv
    <2>3. Intact(r)'
      BY <1>a, <2>1, IntactReadMessage DEF FlowInv
    <2>4. QED
      BY <2>2, <2>3 DEF FlowInv
  <1>14. ASSUME NEW s \in Sessions, DispatchSend(s) PROVE FlowInv'
    <2>1. CASE req[reader[s].r].open
      <3>1. DispatchSendDoes(s)
        BY <1>a, <1>14, <2>1, DispatchSendEffect
      <3>2. PICK y \in Requests : y = reader[s].r
        BY <3>1 DEF DispatchSendDoes
      <3>3. ASSUME NEW x \in Requests \ {y} PROVE Intact(x)'
        <4>1. /\ req'[x] = req[x] /\ UNCHANGED <<client, cancelled>>
              /\ \A m \in Messages : InTransit(x, m)' <=> InTransit(x, m)
              /\ Finishing(x)' <=> Finishing(x)
          BY <3>1, <3>2, ReaderOfAnother DEF DispatchSendDoes
        <4>2. QED
          BY <1>a, <4>1, IntactFrame DEF FlowInv
      <3>4. Intact(y)'
        BY <1>a, <3>1, <3>2, IntactDispatchSend DEF FlowInv
      <3>5. QED
        BY <3>3, <3>4 DEF FlowInv
    <2>2. CASE ~req[reader[s].r].open
      <3>1. UNCHANGED <<req, reader, client, cancelled>>
        BY <1>14, <2>2 DEF DispatchSend
      <3>2. QED
        BY <1>a, <3>1, IntactFrame DEF FlowInv, InTransit, Finishing
    <2>3. QED
      BY <2>1, <2>2
  <1>15. ASSUME NEW s \in Sessions, DispatchFinish(s) PROVE FlowInv'
    <2>1. DispatchFinishDoes(s)
      BY <1>a, <1>15, DispatchFinishEffect
    <2>2. PICK y \in Requests : y = reader[s].r
      BY <2>1 DEF DispatchFinishDoes
    <2>3. ASSUME NEW x \in Requests \ {y} PROVE Intact(x)'
      <3>1. /\ req'[x] = req[x] /\ UNCHANGED <<client, cancelled>>
            /\ \A m \in Messages : InTransit(x, m)' <=> InTransit(x, m)
            /\ Finishing(x)' <=> Finishing(x)
        BY <2>1, <2>2, ReaderOfAnother DEF DispatchFinishDoes
      <3>2. QED
        BY <1>a, <3>1, IntactFrame DEF FlowInv
    <2>4. Intact(y)'
      BY <1>a, <2>1, <2>2, IntactDispatchFinish DEF FlowInv
    <2>5. QED
      BY <2>3, <2>4 DEF FlowInv
  <1>16. ASSUME NEW s \in Sessions, ReadFails(s) PROVE FlowInv'
    <2>1. /\ UNCHANGED <<req, client, cancelled>>
          /\ \A x \in Requests, m \in Messages :
                InTransit(x, m)' <=> InTransit(x, m)
          /\ \A x \in Requests : Finishing(x)' <=> Finishing(x)
      BY <1>a, <1>16
         DEF ReadFails, TypeOK, ReaderInv, Readers, InTransit, Finishing
    <2>2. QED
      BY <1>a, <2>1, IntactFrame DEF FlowInv
  <1>17. ASSUME NEW r \in Requests, Receive(r) PROVE FlowInv'
    <2>1. ReceiveDoes(r)
      BY <1>a, <1>17, ReceiveEffect
    <2>2. /\ \A x \in Requests \ {r} : req'[x] = req[x]
          /\ UNCHANGED <<reader, cancelled>>
          /\ \A x \in Requests \ {r} : client'[x] = client[x]
      BY <1>17, <2>1 DEF ReceiveDoes
    <2>3. ASSUME NEW x \in Requests \ {r} PROVE Intact(x)'
      <3>1. /\ \A m \in Messages : InTransit(x, m)' <=> InTransit(x, m)
            /\ Finishing(x)' <=> Finishing(x)
        BY <2>2 DEF InTransit, Finishing
      <3>2. QED
        BY <1>a, <2>2, <3>1, IntactFrame DEF FlowInv
    <2>4. Intact(r)'
      BY <1>a, <2>1, IntactReceive DEF FlowInv
    <2>5. QED
      BY <2>3, <2>4 DEF FlowInv
  <1>18. ASSUME NEW r \in Requests, ReceiveClosed(r) PROVE FlowInv'
    <2> DEFINE p == IF req[r].mode = "NonStream" /\ req[r].streaming
                  THEN "ok" ELSE "failed"
    <2>1. Goto(r, p)
      BY <1>18 DEF ReceiveClosed
    <2>2. p \in {"failed", "ok"}
      OBVIOUS
    <2> HIDE DEF p
    <2>3. GotoDoes(r, p)
      BY <1>a, <2>1, <2>2, GotoEffect
    <2>4. /\ \A x \in Requests \ {r} : req'[x] = req[x]
          /\ UNCHANGED <<reader, cancelled>>
          /\ \A x \in Requests \ {r} : client'[x] = client[x]
      BY <1>18, <2>3 DEF GotoDoes, ReceiveClosed, UnchangedByRequest
    <2>5. ASSUME NEW x \in Requests \ {r} PROVE Intact(x)'
      <3>1. /\ \A m \in Messages : InTransit(x, m)' <=> InTransit(x, m)
            /\ Finishing(x)' <=> Finishing(x)
        BY <2>4 DEF InTransit, Finishing
      <3>2. QED
        BY <1>a, <2>4, <3>1, IntactFrame DEF FlowInv
    <2>6. Intact(r)'
      <3>1. req[r].lost \/ r \in cancelled
        <4>1. req[r].pc = "wait" /\ req[r].buf = <<>> /\ ~req[r].open
          BY <1>18 DEF ReceiveClosed
        <4>2. ~HasTerminal(req[r].buf)
          BY <4>1 DEF HasTerminal
        <4>3. QED
          BY <1>a, <4>1, <4>2 DEF FlowInv, Intact, Flowing
      <3>2. QED
        BY <2>4, <2>3, <3>1 DEF GotoDoes, Intact
    <2>7. QED
      BY <2>5, <2>6 DEF FlowInv
  <1>19. ASSUME NEW r \in Requests, ReceiveCancelled(r) PROVE FlowInv'
    <2> DEFINE p == "failed"
    <2>1. Goto(r, p)
      BY <1>19 DEF ReceiveCancelled
    <2>2. p \in {"failed"}
      OBVIOUS
    <2> HIDE DEF p
    <2>3. GotoDoes(r, p)
      BY <1>a, <2>1, <2>2, GotoEffect
    <2>4. /\ \A x \in Requests \ {r} : req'[x] = req[x]
          /\ UNCHANGED <<reader, cancelled>>
          /\ \A x \in Requests \ {r} : client'[x] = client[x]
      BY <1>19, <2>3 DEF GotoDoes, ReceiveCancelled, UnchangedByRequest
    <2>5. ASSUME NEW x \in Requests \ {r} PROVE Intact(x)'
      <3>1. /\ \A m \in Messages : InTransit(x, m)' <=> InTransit(x, m)
            /\ Finishing(x)' <=> Finishing(x)
        BY <2>4 DEF InTransit, Finishing
      <3>2. QED
        BY <1>a, <2>4, <3>1, IntactFrame DEF FlowInv
    <2>6. Intact(r)'
      BY <1>19, <2>4, <2>3, <2>2 DEF GotoDoes, ReceiveCancelled, p, Intact
    <2>7. QED
      BY <2>5, <2>6 DEF FlowInv
  <1>20. CASE (\E s \in Sessions : Connect(s)) \/ (\E s \in Sessions :
            Register(s)) \/ (\E s \in Sessions : PeerGone(s)) \/ (\E s \in
            Sessions : HeartbeatFails(s)) \/ (\E s \in Sessions, r \in Requests
            : RangeVisit(s, r)) \/ (\E s \in Sessions : RangeEnds(s)) \/ (\E s
            \in Sessions : ResetPending(s)) \/ (\E s \in Sessions :
            CloseConn(s)) \/ (\E s \in Sessions : Unregister(s)) \/ (\E s \in
            Sessions : Notify(s)) \/ Stop \/ (\E s \in Sessions :
            StopCleans(s)) \/ (\E s \in Sessions : StopGoesOn(s)) \/
            StopReturns
    <2>1. UNCHANGED <<req, client, reader, cancelled>>
      BY <1>20 DEF Connect, Register, PeerGone, HeartbeatFails, RangeVisit,
             RangeEnds, ResetPending, CloseConn, Unregister, Notify, Stop,
             StopCleans, StopGoesOn, StopReturns
    <2>2. QED
      BY <1>a, <2>1, IntactFrame DEF FlowInv, InTransit, Finishing
  <1>21. CASE UNCHANGED vars
    <2>1. UNCHANGED <<req, client, reader, cancelled>>
      BY <1>21 DEF vars
    <2>2. QED
      BY <1>a, <2>1, IntactFrame DEF FlowInv, InTransit, Finishing
  <1>22. QED
    BY <1>1, <1>2, <1>3, <1>4, <1>5, <1>6, <1>7, <1>8, <1>9, <1>10, <1>11,
       <1>12, <1>13, <1>14, <1>15, <1>16, <1>17, <1>18, <1>19, <1>20, <1>21
       DEF Next, Cleanup, Reading, Requesting

(* Only the two sends can bring the process down. *)
LEMMA CrashStep ==
    ASSUME IndInv, [Next]_vars
    PROVE  CrashNeedsAnotherCloser'
  <1>1. CASE UNCHANGED vars
    BY <1>1 DEF IndInv, CrashNeedsAnotherCloser, Closed, vars
  <1>2. ASSUME NEW s \in Sessions, RangeSend(s), ~req[clean[s].r].open
        PROVE  CrashNeedsAnotherCloser'
    BY <1>2 DEF RangeSend, CrashNeedsAnotherCloser, Closed
  <1>3. ASSUME NEW s \in Sessions, DispatchSend(s), ~req[reader[s].r].open
        PROVE  CrashNeedsAnotherCloser'
    <2>1. /\ reader[s].pc = "send" /\ UNCHANGED <<clean, cancelled>>
          /\ ReaderInv /\ PendingInv
      BY <1>3 DEF DispatchSend, IndInv
    <2>2. cancelled # {} \/ Closed(s)
      BY <1>3, <2>1 DEF ReaderInv, PendingInv, InMap, Closed
    <2>3. QED
      BY <2>1, <2>2 DEF CrashNeedsAnotherCloser, Closed
  <1>4. CASE Next
    <2>1. \/ crashed' = FALSE
          \/ \E s \in Sessions :
               \/ RangeSend(s) /\ ~req[clean[s].r].open
               \/ DispatchSend(s) /\ ~req[reader[s].r].open
      <3>0. ~crashed
        BY <1>4 DEF Next
      <3>1. CASE \E s \in Sessions : RangeSend(s)
        BY <3>0, <3>1 DEF RangeSend
      <3>2. CASE \E s \in Sessions : DispatchSend(s)
        BY <3>0, <3>2 DEF DispatchSend
      <3>3. CASE \E r \in Requests : Requesting(r) \/ Cancel(r)
                    \/ WatchCancelled(r) \/ WatchClosed(r)
        BY <3>0, <3>3 DEF Requesting, UnchangedByRequest, Store, Load,
             CheckClosed, Write, WriteFails, Undo, Cancel, WatchCancelled,
             WatchClosed, Receive, ReceiveClosed, ReceiveCancelled
      <3>4. CASE Stop \/ StopReturns
        BY <3>0, <3>4 DEF Stop, StopReturns
      <3>5. ASSUME NEW s \in Sessions,
                   \/ Connect(s) \/ Register(s) \/ Announce(s) \/ PeerGone(s)
                   \/ HeartbeatFails(s) \/ StopCleans(s) \/ StopGoesOn(s)
                   \/ ReadFails(s) \/ DispatchFinish(s)
            PROVE  crashed' = FALSE
        BY <3>0, <3>5
           DEF Connect, Register, Announce, PeerGone, HeartbeatFails,
               StopCleans, StopGoesOn, ReadFails, DispatchFinish
      <3>6. ASSUME NEW s \in Sessions,
                   \/ RangeEnds(s) \/ ResetPending(s) \/ CloseConn(s)
                   \/ Unregister(s) \/ Notify(s)
            PROVE  crashed' = FALSE
        BY <3>0, <3>6
           DEF RangeEnds, ResetPending, CloseConn,
               Unregister, Notify
      <3>7. ASSUME NEW s \in Sessions, NEW r \in Requests,
                   \/ RangeVisit(s, r)
                   \/ \E m \in Messages : ReadMessage(s, r, m)
                   \/ \E mode \in {"NonStream", "Stream"} : Send(r, s, mode)
            PROVE  crashed' = FALSE
        BY <3>0, <3>7 DEF RangeVisit, ReadMessage, Send, UnchangedByRequest
      <3>8. QED
        BY <1>4, <3>1, <3>2, <3>3, <3>4, <3>5, <3>6, <3>7
           DEF Next, Cleanup, Reading
    <2>2. QED
      BY <1>2, <1>3, <2>1 DEF CrashNeedsAnotherCloser
  <1>5. QED
    BY <1>1, <1>4

-----------------------------------------------------------------------------
(* The invariant holds before the first connection. *)
LEMMA InitInv == Init => IndInv
  <1> SUFFICES ASSUME Init PROVE IndInv
    OBVIOUS
  <1>1. TypeOK
    <2>1. Unsent \in Calls
      BY DEF Unsent, Calls
    <2>2. req \in [Requests -> Calls]
      BY <2>1 DEF Init
    <2>3. reader \in [Sessions -> Readers] /\ clean \in [Sessions -> Cleanups]
      BY DEF Init, Readers, Cleanups, Messages
    <2>4. QED
      BY <2>2, <2>3 DEF Init, TypeOK
  <1>2. PendingInv /\ RangeInv /\ ReaderInv
    BY DEF Init, Unsent, PendingInv, InMap, RangeInv, ReaderInv, Past
  <1>3. FlowInv
    BY DEF Init, Unsent, FlowInv, Intact, Fresh
  <1>4. CrashNeedsAnotherCloser
    BY DEF Init, CrashNeedsAnotherCloser
  <1>5. QED
    BY <1>1, <1>2, <1>3, <1>4 DEF IndInv

(* The invariant holds in every reachable state of the relay. *)
THEOREM Invariance == Spec => []IndInv
  <1>1. IndInv /\ [Next]_vars => IndInv'
    <2> SUFFICES ASSUME IndInv, [Next]_vars PROVE IndInv'
      OBVIOUS
    <2>1. QED
      BY TypeStep, PendingStep, RangeStep, ReaderStep, FlowStep, CrashStep
         DEF IndInv
  <1>2. QED
    BY InitInv, <1>1, PTL DEF Spec

(* Sessions, calls and channels keep their types. *)
THEOREM TypeCorrect == Spec => []TypeOK
  <1>1. IndInv => TypeOK
    BY DEF IndInv
  <1>2. QED
    BY Invariance, <1>1, PTL

(* When cleanup has been through the map of a session, no call waits on a    *)
(* channel of that session that is still open.                              *)
THEOREM NoneStranded == Spec => []NoRequestStranded
  <1>1. IndInv => NoRequestStranded
    BY DEF IndInv, RangeInv, NoRequestStranded, Past
  <1>2. QED
    BY Invariance, <1>1, PTL

(* A caller that is still there and lost no message to a full channel gets a *)
(* response as if complete only if the provider completed it.               *)
THEOREM ResponsesIntact == Spec => []ResponseIntact
  <1>1. IndInv => ResponseIntact
    BY DEF IndInv, FlowInv, Intact, ResponseIntact
  <1>2. QED
    BY Invariance, <1>1, PTL

(* Neither reader nor cleanup sends on a closed channel unless a context      *)
(* ended or a session was being closed.                                     *)
THEOREM CrashesExplained == Spec => []CrashNeedsAnotherCloser
  <1>1. IndInv => CrashNeedsAnotherCloser
    BY DEF IndInv
  <1>2. QED
    BY Invariance, <1>1, PTL

=============================================================================
