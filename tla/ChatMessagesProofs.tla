------------------------- MODULE ChatMessagesProofs -------------------------
(***************************************************************************)
(* What the message table guarantees for any number of sends, retries,     *)
(* messages of the customer and of the operator's phone, in any order of   *)
(* answers, echoes, history, receipts, deletions and crashes.              *)
(***************************************************************************)
EXTENDS ChatMessages, FiniteSetTheorems, TLAPS

-----------------------------------------------------------------------------
(* Types *)

\* The names and the client ids there are.
LEMMA Ids ==
    /\ Calls \subseteq Names /\ Customer \subseteq Names /\ Phone \subseteq Names
    /\ Sends \subseteq Calls /\ Sends \X {0} \subseteq RowIds
    /\ NoName \notin Names /\ NoCid \in Cids /\ NoCid.of \notin Names
    /\ Customer \cap Calls = {} /\ Customer \cap Phone = {}
    /\ \A i \in Names, form \in {"library", "prefixed", "stamp"} :
          Cid(i, form) \in Cids /\ Cid(i, form).of = i
    /\ \A c \in Cids : Stamp(c) \in Cids /\ Stamp(c).of = c.of
<1>1. Customer \cap Calls = {} /\ Customer \cap Phone = {}
  BY MessagesAssumption
<1>2. \A c \in Cids : Stamp(c) \in Cids /\ Stamp(c).of = c.of
  BY DEF Stamp, Cid, Cids
<1>3. /\ NoName \notin Names /\ NoCid \in Cids /\ NoCid.of \notin Names
      /\ \A i \in Names, form \in {"library", "prefixed", "stamp"} :
            Cid(i, form) \in Cids /\ Cid(i, form).of = i
  BY MessagesAssumption DEF NoName, NoCid, Cid, Cids
<1> QED BY <1>1, <1>2, <1>3 DEF Names, Calls, Sends, RowIds

\* updateMessageStatus touches one row, and keeps what a row is.
LEMMA UpdateRow ==
    ASSUME TypeOK, NEW r \in RowIds, NEW status \in Statuses,
           NEW name \in Names \cup {NoName}, NEW cid \in Cids,
           UpdateStatus(r, status, name, cid)
    PROVE  /\ rows' \in [RowIds -> RowSet] /\ jobs' \subseteq RowIds /\ jobs \subseteq jobs'
           /\ \A q \in RowIds \ {r} : rows'[q] = rows[q]
           /\ ~ Exists(r) => rows' = rows
           /\ rows'[r].exists = rows[r].exists /\ rows'[r].dir = rows[r].dir
           /\ rows'[r].recalled = rows[r].recalled
           /\ Exists(r) => /\ rows'[r].status = status
                           /\ rows'[r].name = IF name = NoName THEN rows[r].name ELSE name
                           /\ rows'[r].cid = IF cid = NoCid THEN rows[r].cid ELSE cid
           /\ status = "sent" => r \in jobs'
<1>1. rows \in [RowIds -> RowSet] /\ rows[r] \in RowSet
  BY DEF TypeOK
<1> DEFINE new == [rows[r] EXCEPT !.status = status,
                                  !.name = IF name = NoName THEN @ ELSE name,
                                  !.cid = IF cid = NoCid THEN @ ELSE cid]
<1>2. /\ new \in RowSet /\ new.exists = rows[r].exists /\ new.dir = rows[r].dir
      /\ new.recalled = rows[r].recalled /\ new.status = status
      /\ new.name = IF name = NoName THEN rows[r].name ELSE name
      /\ new.cid = IF cid = NoCid THEN rows[r].cid ELSE cid
  BY <1>1 DEF RowSet
<1>3. rows' = IF ~ Exists(r) THEN rows ELSE [rows EXCEPT ![r] = new]
  BY <1>1 DEF UpdateStatus, RowSet
<1> HIDE DEF new
<1>4. jobs' \subseteq RowIds /\ jobs \subseteq jobs' /\ (status = "sent" => r \in jobs')
  BY DEF UpdateStatus, TypeOK
<1> QED BY <1>1, <1>2, <1>3, <1>4

\* A message that is stored is a new row, of its own name and client id.
LEMMA InsertRow ==
    ASSUME TypeOK, NEW p \in Names, NEW dir \in {"inbound", "outbound"}, Insert(dir, p)
    PROVE  \E r \in RowIds :
              /\ ~ Exists(r) /\ r \notin Sends \X {0} /\ r[1] = p
              /\ rows' = [rows EXCEPT ![r] = Row(dir, p, cidOf[p], "delivered")]
              /\ Row(dir, p, cidOf[p], "delivered") \in RowSet
              /\ jobs' = jobs \cup {r}
<1>1. Row(dir, p, cidOf[p], "delivered") \in RowSet
  BY DEF TypeOK, Row, RowSet, Statuses
<1>2. PICK n \in 1 .. MaxCopies :
          /\ ~ Exists(<<p, n>>)
          /\ rows' = [rows EXCEPT ![<<p, n>>] = Row(dir, p, cidOf[p], "delivered")]
          /\ jobs' = jobs \cup {<<p, n>>}
  BY DEF Insert
<1>3. <<p, n>> \in RowIds /\ <<p, n>> \notin Sends \X {0}
  BY DEF RowIds
<1> QED BY <1>1, <1>2, <1>3

\* What upsertInboundMessage may do.
LEMMA UpsertRow ==
    ASSUME TypeOK, NEW p \in Names, Upsert(Direction(p), p)
    PROVE  \/ UNCHANGED <<rows, jobs, unread, inserts>> /\ WithName(p) # {}
           \/ /\ WithName(p) = {} /\ UNCHANGED <<unread, inserts>>
              /\ \E r \in WithCid(cidOf[p]) : UpdateStatus(r, "sent", p, NoCid)
           \/ /\ WithName(p) = {} /\ WithCid(cidOf[p]) = {} /\ Insert(Direction(p), p)
              /\ unread' = IF p \in Customer THEN unread + 1 ELSE unread
              /\ inserts' = [inserts EXCEPT ![p] = @ + 1]
BY DEF Upsert, Insert, Direction, Ours

\* What is upserted has its types.
LEMMA UpsertTypes ==
    ASSUME TypeOK, NEW p \in Names, Upsert(Direction(p), p)
    PROVE  /\ rows' \in [RowIds -> RowSet] /\ jobs' \subseteq RowIds /\ unread' \in Nat
           /\ inserts' \in [Names -> Nat]
<1>1. CASE UNCHANGED <<rows, jobs, unread, inserts>>
  BY <1>1 DEF TypeOK
<1>2. CASE UNCHANGED <<unread, inserts>>
           /\ \E r \in WithCid(cidOf[p]) : UpdateStatus(r, "sent", p, NoCid)
  BY <1>2, UpdateRow, Ids DEF TypeOK, WithCid, Statuses
<1>3. CASE /\ Insert(Direction(p), p)
           /\ unread' = IF p \in Customer THEN unread + 1 ELSE unread
           /\ inserts' = [inserts EXCEPT ![p] = @ + 1]
  <2>1. rows' \in [RowIds -> RowSet] /\ jobs' \subseteq RowIds
    BY <1>3, InsertRow DEF TypeOK, Direction
  <2> QED BY <1>3, <2>1 DEF TypeOK
<1> QED BY <1>1, <1>2, <1>3, UpsertRow

\* A call at work goes on, with its row and its client id.
LEMMA SetCallTypes ==
    ASSUME TypeOK, NEW i \in Calls, call[i].pc # "idle",
           NEW pc \in {"wired", "accepted", "done", "refused", "failed"}, SetCall(i, pc)
    PROVE  /\ call' \in [Calls -> CallSet]
           /\ \A j \in Calls : call'[j].pc = "idle" \/ call'[j].row \in Sends \X {0}
           /\ \A j \in Calls : call'[j].row = call[j].row /\ call'[j].cid = call[j].cid
           /\ \A j \in Calls : call'[j].pc = IF j = i THEN pc ELSE call[j].pc
BY DEF TypeOK, SetCall, CallSet

\* A send of the app or of the bot begins.
LEMMA OutboundTypes ==
    ASSUME TypeOK, NEW i \in Sends, NEW form \in {"prefixed", "stamp"}, NEW rich \in BOOLEAN,
           InsertOutbound(i, form, rich), UNCHANGED switches
    PROVE  TypeOK'
<1>1. /\ i \in Calls /\ i \in Names /\ <<i, 0>> \in RowIds /\ <<i, 0>> \in Sends \X {0}
      /\ <<i, 0>> \in Calls \X {0} /\ Cid(i, form) \in Cids
  BY Ids
<1>2. Row("outbound", NoName, Cid(i, form), "queued") \in RowSet
  BY <1>1 DEF Row, RowSet, Statuses
<1>3. rows' \in [RowIds -> RowSet]
  BY <1>1, <1>2 DEF InsertOutbound, TypeOK
<1>4. /\ call' \in [Calls -> CallSet]
      /\ \A j \in Calls : call'[j].pc = "idle" \/ call'[j].row \in Sends \X {0}
  BY <1>1 DEF InsertOutbound, TypeOK, CallSet
<1> QED BY <1>3, <1>4 
       DEF InsertOutbound, TypeOK, zalo, history, heard, tallies, switches

\* A retry begins, on the row of a send.
LEMMA RetryTypes ==
    ASSUME TypeOK, NEW i \in Retries, NEW r \in Sends \X {0}, StartRetry(i, r), UNCHANGED switches
    PROVE  TypeOK'
<1>1. r \in RowIds /\ r \in Calls \X {0} /\ r[1] \in Calls /\ i \in Calls /\ NoCid \in Cids
  BY Ids DEF Calls
<1>2. rows' \in [RowIds -> RowSet] /\ jobs' \subseteq RowIds
  BY <1>1, UpdateRow DEF StartRetry, Statuses
<1>3. rows[r].cid \in Cids /\ call[r[1]].rich \in BOOLEAN
  BY <1>1 DEF TypeOK, RowSet, CallSet
<1>4. /\ call' \in [Calls -> CallSet]
      /\ \A j \in Calls : call'[j].pc = "idle" \/ call'[j].row \in Sends \X {0}
  BY <1>1, <1>3 DEF StartRetry, TypeOK, CallSet
<1> QED BY <1>2, <1>4 DEF StartRetry, TypeOK, zalo, history, heard, tallies, switches

\* The client ids that may go to Zalo.
LEMMA ClockTypes ==
    ASSUME TypeOK, NEW i \in Calls PROVE ClockCid(i) \in Cids /\ Stamp(call[i].cid) \in Cids
BY Ids DEF ClockCid, TypeOK, CallSet

\* The request is built and sent.
LEMMA DispatchTypes ==
    ASSUME TypeOK, NEW i \in Calls, NEW current \in BOOLEAN, NEW taken \in BOOLEAN,
           Dispatch(i, current, taken), UNCHANGED switches
    PROVE  TypeOK'
<1>1. i \in Names
  BY Ids
<1>2. /\ call' \in [Calls -> CallSet]
      /\ \A j \in Calls : call'[j].pc = "idle" \/ call'[j].row \in Sends \X {0}
  BY SetCallTypes DEF Dispatch
<1>3. cidOf' \in [Names -> Cids] /\ pin' \in [to : Cids, by : SUBSET Calls]
  BY ClockTypes DEF Dispatch, TypeOK
<1>4. live' \subseteq Names
  BY <1>1 DEF Dispatch, TypeOK
<1> QED BY <1>2, <1>3, <1>4 DEF Dispatch, TypeOK, tables, heard, tallies, switches

\* Date.now is the clock again, or stays pinned.
LEMMA UnpinTypes ==
    ASSUME TypeOK, NEW i, Unpin(i)
    PROVE  pin' \in [to : Cids, by : SUBSET Calls] /\ pin'.to \in {pin.to, NoCid}
BY Ids DEF Unpin, TypeOK

\* The answer of a call arrives.
LEMMA AnsweredTypes ==
    ASSUME TypeOK, NEW i \in Calls, Answered(i), UNCHANGED switches
    PROVE  TypeOK'
<1>1. call[i].row \in RowIds /\ i \in Names /\ NoCid \in Cids
  BY Ids DEF Answered, TypeOK
<1>2. Stamp(call[i].cid) \in Cids
  BY ClockTypes
<1>3. rows' \in [RowIds -> RowSet] /\ jobs' \subseteq RowIds
  <2>1. CASE UNCHANGED <<rows, jobs>>
    BY <2>1 DEF TypeOK
  <2>2. CASE UpdateStatus(call[i].row, "failed", NoName, NoCid)
    BY <1>1, <2>2, UpdateRow DEF Statuses
  <2>3. CASE UpdateStatus(call[i].row, "sent", i, Stamp(call[i].cid))
    BY <1>1, <1>2, <2>3, UpdateRow DEF Statuses
  <2> QED BY <2>1, <2>2, <2>3 DEF Answered
<1>4. /\ call' \in [Calls -> CallSet]
      /\ \A j \in Calls : call'[j].pc = "idle" \/ call'[j].row \in Sends \X {0}
  BY SetCallTypes DEF Answered
<1>5. pin' \in [to : Cids, by : SUBSET Calls]
  BY UnpinTypes DEF Answered
<1> QED BY <1>3, <1>4, <1>5 DEF Answered, TypeOK, zalo, heard, switches

\* A call fails.
LEMMA FailsTypes ==
    ASSUME TypeOK, NEW i \in Calls, Fails(i), UNCHANGED switches
    PROVE  TypeOK'
<1>1. call[i].row \in RowIds /\ call[i].pc # "idle" /\ NoCid \in Cids
  BY Ids DEF Fails, InFlight, TypeOK
<1>2. rows' \in [RowIds -> RowSet] /\ jobs' \subseteq RowIds
  BY <1>1, UpdateRow DEF Fails, Statuses
<1>3. /\ call' \in [Calls -> CallSet]
      /\ \A j \in Calls : call'[j].pc = "idle" \/ call'[j].row \in Sends \X {0}
  BY <1>1, SetCallTypes DEF Fails
<1>4. pin' \in [to : Cids, by : SUBSET Calls]
  BY UnpinTypes DEF Fails
<1> QED BY <1>2, <1>3, <1>4 DEF Fails, TypeOK, zalo, heard, tallies, switches

\* The websocket delivers a message.
LEMMA LiveTypes ==
    ASSUME TypeOK, NEW p \in Names, Live(p), UNCHANGED switches
    PROVE  TypeOK'
<1>1. /\ rows' \in [RowIds -> RowSet] /\ jobs' \subseteq RowIds /\ unread' \in Nat
      /\ inserts' \in [Names -> Nat]
  <2>1. CASE Reconciled(p) # {}
    <3>1. PICK r \in Reconciled(p) : UpdateStatus(r, "sent", p, cidOf[p])
      BY <2>1 DEF Live
    <3>2. r \in RowIds /\ cidOf[p] \in Cids
      BY DEF Reconciled, WithCid, TypeOK
    <3>3. UNCHANGED <<unread, inserts>>
      BY <2>1 DEF Live
    <3> QED BY <3>1, <3>2, <3>3, UpdateRow DEF Statuses, TypeOK
  <2>2. CASE Reconciled(p) = {}
    BY <2>2, UpsertTypes DEF Live
  <2> QED BY <2>1, <2>2
<1>2. engaged' \in [Names -> Nat] /\ live' \subseteq Names /\ handled' \subseteq Names
  BY DEF Live, TypeOK
<1> QED BY <1>1, <1>2 DEF Live, TypeOK, process, switches

\* The history batch delivers a message.
LEMMA HistoryTypes ==
    ASSUME TypeOK, NEW p \in Names, History(p), UNCHANGED switches
    PROVE  TypeOK'
BY UpsertTypes DEF History, TypeOK, process, zalo, heard, switches

\* The message that the websocket delivers is not stored.
LEMMA UnheardTypes ==
    ASSUME TypeOK, NEW p \in Names, LiveRefused(p) \/ Dropped(p), UNCHANGED switches
    PROVE  TypeOK'
BY DEF LiveRefused, Dropped, TypeOK, tables, process, tallies, switches

\* Everything besides sending and receiving.
LEMMA IncidentTypes ==
    ASSUME TypeOK, Incident, UNCHANGED switches
    PROVE  TypeOK'
<1>1. ASSUME NEW p \in Names, Written(p) PROVE TypeOK'
  BY <1>1, Ids DEF Written, TypeOK, tables, process, history, heard, tallies, switches
<1>2. ASSUME NEW p \in Names, Redelivered(p) PROVE TypeOK'
  BY <1>2 DEF Redelivered, TypeOK, tables, process, history, heard, tallies, switches
<1>3. ASSUME NEW r \in RowIds, MarkDeleted(r) PROVE TypeOK'
  <2>1. rows' \in [RowIds -> RowSet]
    <3>1. [rows[r] EXCEPT !.recalled = TRUE] \in RowSet
      <4>1. rows[r] \in RowSet
        BY DEF TypeOK
      <4> QED BY <4>1 DEF RowSet
    <3> QED BY <1>3, <3>1 DEF MarkDeleted, TypeOK
  <2> QED BY <1>3, <2>1
          DEF MarkDeleted, TypeOK, process, zalo, history, heard, tallies, switches
<1>4. ASSUME NEW p \in Names, NEW status \in {"delivered", "seen"}, Receipt(p, status)
      PROVE  TypeOK'
  <2>1. rows' \in [RowIds -> RowSet] /\ jobs' \subseteq RowIds
    <3>1. PICK r \in RowIds : /\ rows' = [rows EXCEPT ![r].status = status]
                             /\ jobs' = jobs \cup {r}
      BY <1>4 DEF Receipt, StatusByName, WithName
    <3>2. [rows[r] EXCEPT !.status = status] \in RowSet
      <4>1. rows[r] \in RowSet
        BY DEF TypeOK
      <4> QED BY <4>1 DEF RowSet, Statuses
    <3> QED BY <3>1, <3>2 DEF TypeOK
  <2> QED BY <1>4, <2>1
          DEF Receipt, TypeOK, process, zalo, history, heard, tallies, switches
<1>5. ASSUME NEW r \in RowIds, Delete(r) PROVE TypeOK'
  <2>1. rows' \in [RowIds -> RowSet]
    <3>1. [rows[r] EXCEPT !.exists = FALSE] \in RowSet
      <4>1. rows[r] \in RowSet
        BY DEF TypeOK
      <4> QED BY <4>1 DEF RowSet
    <3> QED BY <1>5, <3>1 DEF Delete, TypeOK
  <2> QED BY <1>5, <2>1 DEF Delete, TypeOK, process, zalo, heard, tallies, switches
<1>6. ASSUME NEW r \in RowIds, Sync(r) PROVE TypeOK'
  <2>1. Payload(r) \in PayloadSet
    <3>1. rows[r] \in RowSet /\ NoCid \in Cids
      BY Ids DEF TypeOK
    <3> QED BY <3>1 DEF Payload, PayloadSet, RowSet
  <2> QED BY <1>6, <2>1
          DEF Sync, TypeOK, process, zalo, history, heard, tallies, switches
<1>7. ASSUME NEW k \in marks, Expire(k) PROVE TypeOK'
  BY <1>7 DEF Expire, TypeOK, tables, zalo, heard, tallies, switches
<1>8. CASE MarkRead
  BY <1>8 DEF MarkRead, TypeOK, process, zalo, history, heard, tallies, switches
<1>9. ASSUME NEW p \in Names, Undo(p) PROVE \E r \in RowIds : MarkDeleted(r)
  BY <1>9 DEF Undo, WithName, WithCid
<1>10. ASSUME NEW r \in RowIds, Recall(r) PROVE MarkDeleted(r)
  BY <1>10 DEF Recall
<1> QED BY <1>1, <1>2, <1>3, <1>4, <1>5, <1>6, <1>7, <1>8, <1>9, <1>10, RetryTypes,
           HistoryTypes DEF Incident

\* The runner, the switch and the process.
LEMMA SwitchingTypes ==
    ASSUME TypeOK, Switching
    PROVE  TypeOK'
<1>1. CASE Crash
  <2>1. /\ call' \in [Calls -> CallSet]
        /\ \A j \in Calls : call'[j].pc = "idle" \/ call'[j].row \in Sends \X {0}
    BY <1>1 DEF Crash, TypeOK, CallSet, InFlight
  <2> QED BY <1>1, <2>1, Ids DEF Crash, TypeOK, tables, tallies
<1>2. CASE StartRunner \/ StopRunner \/ SwitchAutoReply
  BY <1>2 DEF StartRunner, StopRunner, SwitchAutoReply, TypeOK, tables, process, zalo,
              history, heard, tallies
<1> QED BY <1>1, <1>2 DEF Switching

\* Every step keeps the types.
LEMMA TypeStep == TypeOK /\ [Next]_vars => TypeOK'
<1> SUFFICES ASSUME TypeOK, [Next]_vars PROVE TypeOK'
  OBVIOUS
<1>1. ASSUME NEW i \in Calls, CallStep(i), UNCHANGED switches PROVE TypeOK'
  BY <1>1, OutboundTypes, DispatchTypes, AnsweredTypes, FailsTypes
  DEF CallStep, StartSend, StartAttachments, StartReply, Sends
<1>2. CASE UNCHANGED vars
  BY <1>2 DEF vars, tables, process, zalo, history, heard, tallies, switches, TypeOK
<1> QED BY <1>1, <1>2, LiveTypes, UnheardTypes, IncidentTypes, SwitchingTypes DEF Next

\* The empty database and a fresh process.
LEMMA TypeInit == Init => TypeOK
<1> SUFFICES ASSUME Init PROVE TypeOK
  OBVIOUS
<1>1. rows \in [RowIds -> RowSet]
  BY Ids DEF Init, NoRow, Row, RowSet, Statuses
<1>2. call \in [Calls -> CallSet] /\ \A i \in Calls : call[i].pc = "idle"
  BY Ids DEF Init, CallSet
<1> QED BY <1>1, <1>2, Ids DEF Init, TypeOK

\* The tables and the process hold what they are declared for.
THEOREM TypeCorrect == Spec => []TypeOK
BY TypeInit, TypeStep, PTL DEF Spec

-----------------------------------------------------------------------------
(* Rows that wait *)

Owner(i, r) == call[i].row = r /\ (InFlight(i) \/ call[i].pc \in {"refused", "dead"})

\* A row that is as it was has its owner still, if the calls are.
LEMMA OwnerFrame ==
    ASSUME TypeOK, PendingIsOwned, NEW r \in RowIds,
           Exists(r)' => Exists(r)
                         /\ (rows'[r].status \in {"queued", "sending"} =>
                                rows[r].status \in {"queued", "sending"}),
           \A i \in Calls : Owner(i, r) => Owner(i, r)'
    PROVE  Exists(r)' /\ rows'[r].status \in {"queued", "sending"} =>
              \E i \in Calls : Owner(i, r)'
BY DEF PendingIsOwned, Owner, Exists

\* An update that ends the waiting of a row, and leaves the others alone.
LEMMA UpdateOwned ==
    ASSUME TypeOK, PendingIsOwned, NEW r \in RowIds,
           NEW status \in {"sent", "failed"}, NEW name \in Names \cup {NoName}, NEW cid \in Cids,
           UpdateStatus(r, status, name, cid),
           \A q \in RowIds \ {r}, i \in Calls : Owner(i, q) => Owner(i, q)'
    PROVE  PendingIsOwned'
<1> SUFFICES ASSUME NEW q \in RowIds, Exists(q)', rows'[q].status \in {"queued", "sending"}
             PROVE  \E i \in Calls : Owner(i, q)'
  BY DEF PendingIsOwned, Owner
<1>0. status \in Statuses
  BY DEF Statuses
<1>1. rows'[q].exists = rows[q].exists /\ (q # r => rows'[q] = rows[q])
      /\ (Exists(r) => rows'[r].status = status)
  BY <1>0, UpdateRow
<1>2. q # r
  BY <1>1 DEF Exists
<1> QED BY <1>1, <1>2, OwnerFrame DEF Exists

\* The calls as they were.
LEMMA SameOwners ==
    ASSUME call' = call PROVE \A q \in RowIds, i \in Calls : Owner(i, q) => Owner(i, q)'
BY DEF Owner, InFlight

\* A stored message waits for nothing.
LEMMA PendingUpsert ==
    ASSUME TypeOK, PendingIsOwned, NEW p \in Names, Upsert(Direction(p), p), call' = call
    PROVE  PendingIsOwned'
<1>1. CASE UNCHANGED rows
  BY <1>1 DEF PendingIsOwned, Exists, InFlight
<1>2. CASE \E r \in WithCid(cidOf[p]) : UpdateStatus(r, "sent", p, NoCid)
  BY <1>2, UpdateOwned, SameOwners, Ids DEF WithCid
<1>3. CASE Insert(Direction(p), p)
  <2>1. PICK r \in RowIds : rows' = [rows EXCEPT ![r] =
                                        Row(Direction(p), p, cidOf[p], "delivered")]
    BY <1>3, InsertRow DEF Direction
  <2>2. rows'[r].status = "delivered" /\ \A q \in RowIds \ {r} : rows'[q] = rows[q]
    BY <2>1 DEF Row, TypeOK
  <2> QED BY <2>2 DEF PendingIsOwned, Exists, InFlight
<1> QED BY <1>1, <1>2, <1>3, UpsertRow

\* A call gives its row an owner before it waits, and settles it when it ends.
LEMMA PendingCall ==
    ASSUME TypeOK, PendingIsOwned, NEW i \in Calls, CallStep(i)
    PROVE  PendingIsOwned'
<1>1. ASSUME NEW form, NEW rich, i \in Sends, InsertOutbound(i, form, rich)
      PROVE  PendingIsOwned'
  <2>1. /\ \A j \in Calls \ {i} : call'[j] = call[j]
        /\ call'[i].pc = "queued" /\ call'[i].row = <<i, 0>> /\ call[i].pc = "idle"
    BY <1>1 DEF InsertOutbound, TypeOK
  <2>2. \A q \in RowIds \ {<<i, 0>>} : rows'[q] = rows[q]
    BY <1>1 DEF InsertOutbound, TypeOK
  <2> QED BY <2>1, <2>2 DEF PendingIsOwned, Exists, InFlight
<1>2. ASSUME NEW current \in BOOLEAN, NEW taken \in BOOLEAN, Dispatch(i, current, taken)
      PROVE  PendingIsOwned'
  <2>1. rows' = rows
    BY <1>2 DEF Dispatch, tables
  <2>2. \A j \in Calls : call'[j].row = call[j].row /\ (InFlight(j) => InFlight(j)')
                         /\ (j # i => call'[j] = call[j]) /\ call[i].pc = "queued"
    BY <1>2 DEF Dispatch, SetCall, TypeOK, CallSet, InFlight
  <2> QED BY <2>1, <2>2 DEF PendingIsOwned, Exists, InFlight
<1>3. CASE Answered(i) /\ SetCall(i, "refused")
  <2>1. \A q \in RowIds, j \in Calls : Owner(j, q) => Owner(j, q)'
    BY <1>3 DEF Owner, InFlight, SetCall, TypeOK, CallSet
  <2>2. CASE UNCHANGED rows
    BY <2>1, <2>2 DEF PendingIsOwned, Exists, Owner
  <2>3. CASE UpdateStatus(call[i].row, "failed", NoName, NoCid)
    <3>1. call[i].row \in RowIds
      BY <1>3, Ids DEF Answered, TypeOK
    <3> QED BY <2>1, <2>3, <3>1, UpdateOwned, Ids
  <2>4. ~ UpdateStatus(call[i].row, "sent", i, Stamp(call[i].cid)) \/ ~ SetCall(i, "done")
    BY <1>3 DEF SetCall, TypeOK, CallSet
  <2> QED BY <1>3, <2>2, <2>3, <2>4 DEF Answered
<1>4. CASE Answered(i) /\ SetCall(i, "done") /\
           UpdateStatus(call[i].row, "sent", i, Stamp(call[i].cid))
  <2>1. call[i].row \in RowIds /\ i \in Names /\ Stamp(call[i].cid) \in Cids
    BY <1>4, Ids, ClockTypes DEF Answered, TypeOK
  <2>2. \A q \in RowIds \ {call[i].row}, j \in Calls : Owner(j, q) => Owner(j, q)'
    BY <1>4 DEF Owner, InFlight, SetCall, TypeOK, CallSet
  <2> QED BY <1>4, <2>1, <2>2, UpdateOwned
<1>5. CASE Fails(i)
  <2>1. call[i].row \in RowIds
    BY <1>5, Ids DEF Fails, InFlight, TypeOK
  <2>2. \A q \in RowIds \ {call[i].row}, j \in Calls : Owner(j, q) => Owner(j, q)'
    BY <1>5 DEF Fails, Owner, InFlight, SetCall, TypeOK, CallSet
  <2> QED BY <1>5, <2>1, <2>2, UpdateOwned, Ids DEF Fails
<1>6. Answered(i) => \/ SetCall(i, "refused")
                     \/ SetCall(i, "done") /\
                           UpdateStatus(call[i].row, "sent", i, Stamp(call[i].cid))
  BY DEF Answered
<1> QED BY <1>1, <1>2, <1>3, <1>4, <1>5, <1>6
        DEF CallStep, StartSend, StartAttachments, StartReply, Sends

\* An echo settles the row it finds.
LEMMA PendingLive ==
    ASSUME TypeOK, PendingIsOwned, NEW p \in Names, Live(p)
    PROVE  PendingIsOwned'
<1>1. call' = call
  BY DEF Live, process
<1>2. CASE Reconciled(p) # {}
  <2>1. PICK r \in Reconciled(p) : UpdateStatus(r, "sent", p, cidOf[p])
    BY <1>2 DEF Live
  <2>2. r \in RowIds /\ cidOf[p] \in Cids
    BY DEF Reconciled, WithCid, TypeOK
  <2> QED BY <1>1, <2>1, <2>2, UpdateOwned, SameOwners
<1>3. CASE Reconciled(p) = {}
  BY <1>1, <1>3, PendingUpsert DEF Live
<1> QED BY <1>2, <1>3

\* A retry owns what it sets to sending.
LEMMA PendingIncident ==
    ASSUME TypeOK, PendingIsOwned, Incident
    PROVE  PendingIsOwned'
<1>1. ASSUME NEW i \in Retries, NEW r \in Sends \X {0}, StartRetry(i, r) PROVE PendingIsOwned'
  <2>1. r \in RowIds /\ i \in Calls
    BY Ids DEF Calls
  <2>2. /\ \A j \in Calls \ {i} : call'[j] = call[j]
        /\ call'[i].pc = "queued" /\ call'[i].row = r /\ call[i].pc = "idle"
    BY <1>1, <2>1 DEF StartRetry, TypeOK
  <2>3. \A q \in RowIds \ {r} : rows'[q] = rows[q]
    <3>1. UpdateStatus(r, "sending", NoName, NoCid) /\ "sending" \in Statuses /\ NoCid \in Cids
      BY <1>1, Ids DEF StartRetry, Statuses
    <3> QED BY <2>1, <3>1, UpdateRow
  <2> QED BY <2>1, <2>2, <2>3 DEF PendingIsOwned, Exists, InFlight
<1>2. ASSUME rows' = rows, call' = call PROVE PendingIsOwned'
  BY <1>2 DEF PendingIsOwned, Exists, InFlight
<1>3. ASSUME NEW p \in Names, History(p) PROVE PendingIsOwned'
  BY <1>3, PendingUpsert DEF History, process
<1>4. ASSUME NEW x \in RowIds, MarkDeleted(x) PROVE PendingIsOwned'
  <2>1. \A r \in RowIds : rows'[r].exists = rows[r].exists /\ rows'[r].status = rows[r].status
    BY <1>4 DEF MarkDeleted, TypeOK, RowSet
  <2> QED BY <1>4, <2>1 DEF MarkDeleted, process, PendingIsOwned, Exists, InFlight
<1>5. ASSUME NEW p \in Names, NEW status \in {"delivered", "seen"}, Receipt(p, status)
      PROVE  PendingIsOwned'
  <2>1. \A r \in RowIds : /\ rows'[r].exists = rows[r].exists
                          /\ rows'[r].status \in {rows[r].status, status}
    BY <1>5 DEF Receipt, StatusByName, WithName, TypeOK, RowSet
  <2> QED BY <1>5, <2>1 DEF Receipt, process, PendingIsOwned, Exists, InFlight
<1>6. ASSUME NEW r \in RowIds, Delete(r) PROVE PendingIsOwned'
  <2>1. /\ \A q \in RowIds \ {r} : rows'[q] = rows[q]
        /\ ~ rows'[r].exists
    BY <1>6 DEF Delete, TypeOK, RowSet
  <2> QED BY <1>6, <2>1 DEF Delete, process, PendingIsOwned, Exists, InFlight
<1>7. ASSUME NEW p \in Names, Undo(p) PROVE PendingIsOwned'
  BY <1>4, <1>7 DEF Undo, WithName, WithCid
<1>8. ASSUME NEW r \in RowIds, Recall(r) PROVE PendingIsOwned'
  BY <1>4, <1>8 DEF Recall
<1>9. ASSUME NEW p \in Names, Written(p) \/ Redelivered(p) PROVE PendingIsOwned'
  BY <1>2, <1>9 DEF Written, Redelivered, tables, process
<1>10. ASSUME NEW r \in RowIds, Sync(r) PROVE PendingIsOwned'
  BY <1>2, <1>10 DEF Sync, process
<1>11. ASSUME NEW k \in marks, Expire(k) PROVE PendingIsOwned'
  BY <1>2, <1>11 DEF Expire, tables, process
<1>12. CASE MarkRead
  BY <1>2, <1>12 DEF MarkRead, tables, process
<1>13. CASE \E p \in Names : \/ Written(p) \/ History(p) \/ Redelivered(p) \/ Undo(p)
                            \/ \E status \in {"delivered", "seen"} : Receipt(p, status)
  BY <1>3, <1>5, <1>7, <1>9, <1>13
<1>14. CASE \E r \in RowIds : Delete(r) \/ Recall(r) \/ Sync(r)
  BY <1>6, <1>8, <1>10, <1>14
<1> QED BY <1>1, <1>11, <1>12, <1>13, <1>14 DEF Incident

\* A message that is not stored and the switches change no row; a crash leaves its calls
\* dead.
LEMMA PendingBesides ==
    ASSUME TypeOK, PendingIsOwned,
           Switching \/ \E p \in Names : LiveRefused(p) \/ Dropped(p)
    PROVE  PendingIsOwned'
<1>1. CASE Crash
  <2>1. \A q \in RowIds, i \in Calls : Owner(i, q) => Owner(i, q)'
    BY <1>1 DEF Crash, Owner, InFlight, TypeOK, CallSet
  <2> QED BY <1>1, <2>1 DEF Crash, tables, PendingIsOwned, Exists, Owner
<1>2. CASE ~ Crash
  <2>1. rows' = rows /\ call' = call
    BY <1>2 DEF Switching, StartRunner, StopRunner, SwitchAutoReply, LiveRefused, Dropped,
                tables, process
  <2> QED BY <2>1 DEF PendingIsOwned, Exists, InFlight
<1> QED BY <1>1, <1>2

\* However sends, retries, echoes, receipts and crashes come, a row that is queued or
\* sending has a call at work on it, or one that was refused or died.
THEOREM WaitingIsOwned == Spec => []PendingIsOwned
<1>1. Init => PendingIsOwned
  BY DEF Init, NoRow, Row, PendingIsOwned, Exists
<1>2. TypeOK /\ PendingIsOwned /\ [Next]_vars => PendingIsOwned'
  <2> SUFFICES ASSUME TypeOK, PendingIsOwned, [Next]_vars PROVE PendingIsOwned'
    OBVIOUS
  <2>1. CASE UNCHANGED vars
    BY <2>1 DEF vars, tables, process, PendingIsOwned, Exists, InFlight
  <2> QED BY <2>1, PendingCall, PendingLive, PendingIncident, PendingBesides DEF Next
<1> QED BY <1>1, <1>2, TypeCorrect, PTL DEF Spec

-----------------------------------------------------------------------------
(* Rows the cloud should know *)

Known(r) == CanReport(r) => r \in jobs \/ Payload(r) \in synced

\* A row that need not be known more than before still is, and so is one in the queue.
LEMMA KnownFrame ==
    ASSUME NEW r \in RowIds, Known(r), CanReport(r)' => CanReport(r),
           Payload(r)' = Payload(r), jobs \subseteq jobs', synced \subseteq synced'
    PROVE  Known(r)'
BY DEF Known

\* An update either leaves the row unsent or puts it in the queue.
LEMMA UpdateKnown ==
    ASSUME TypeOK, NEW r \in RowIds, NEW status \in {"sent", "failed", "sending"},
           NEW name \in Names \cup {NoName}, NEW cid \in Cids,
           UpdateStatus(r, status, name, cid), synced' = synced,
           status = "sent" \/ (name = NoName /\ cid = NoCid),
           NEW q \in RowIds, Known(q)
    PROVE  Known(q)'
<1>1. status \in Statuses
  BY DEF Statuses
<1>2. CASE q # r
  <2>1. rows'[q] = rows[q] /\ jobs \subseteq jobs'
    BY <1>1, <1>2, UpdateRow
  <2> QED BY <2>1, KnownFrame DEF CanReport, Payload, Exists
<1>3. CASE q = r /\ status = "sent"
  BY <1>1, <1>3, UpdateRow DEF Known
<1>4. CASE q = r /\ status # "sent"
  <2>1. /\ rows'[r].exists = rows[r].exists /\ rows'[r].dir = rows[r].dir
        /\ rows'[r].recalled = rows[r].recalled /\ jobs \subseteq jobs'
        /\ (Exists(r) => rows'[r].status = status)
    BY <1>1, UpdateRow
  <2>2. ~ Exists(r) => rows' = rows
    BY <1>1, UpdateRow
  <2>3. Exists(r) => rows'[r].name = rows[r].name /\ rows'[r].cid = rows[r].cid
    BY <1>1, <1>4, UpdateRow
  <2> QED BY <1>4, <2>1, <2>2, <2>3, KnownFrame DEF CanReport, Payload, Exists
<1> QED BY <1>2, <1>3, <1>4

\* Every row that is stored or updated is put in the queue.
LEMMA UpsertKnown ==
    ASSUME TypeOK, NEW p \in Names, Upsert(Direction(p), p), synced' = synced,
           NEW q \in RowIds, Known(q)
    PROVE  Known(q)'
<1>1. CASE UNCHANGED <<rows, jobs>>
  BY <1>1 DEF Known, CanReport, Payload, Exists
<1>2. CASE \E r \in WithCid(cidOf[p]) : UpdateStatus(r, "sent", p, NoCid)
  BY <1>2, UpdateKnown, Ids DEF WithCid
<1>3. CASE Insert(Direction(p), p)
  <2>1. PICK r \in RowIds :
            /\ rows' = [rows EXCEPT ![r] = Row(Direction(p), p, cidOf[p], "delivered")]
            /\ jobs' = jobs \cup {r}
    BY <1>3, InsertRow DEF Direction
  <2>2. \A x \in RowIds \ {r} : rows'[x] = rows[x]
    BY <2>1 DEF TypeOK
  <2> QED BY <2>1, <2>2 DEF Known, CanReport, Payload, Exists
<1> QED BY <1>1, <1>2, <1>3, UpsertRow

\* An answer puts its row in the queue, a failure makes it unsent.
LEMMA CallKnown ==
    ASSUME TypeOK, NEW i \in Calls, CallStep(i), NEW q \in RowIds, Known(q)
    PROVE  Known(q)'
<1>1. ASSUME NEW form, NEW rich, i \in Sends, InsertOutbound(i, form, rich)
      PROVE  Known(q)'
  <2>1. CASE q = <<i, 0>>
    <3>1. rows'[q].dir = "outbound" /\ rows'[q].status = "queued"
      BY <1>1, <2>1 DEF InsertOutbound, Row, TypeOK
    <3> QED BY <3>1 DEF Known, CanReport
  <2>2. CASE q # <<i, 0>>
    BY <1>1, <2>2 DEF InsertOutbound, TypeOK, Known, CanReport, Payload, Exists
  <2> QED BY <2>1, <2>2
<1>2. ASSUME NEW current \in BOOLEAN, NEW taken \in BOOLEAN, Dispatch(i, current, taken)
      PROVE  Known(q)'
  BY <1>2 DEF Dispatch, tables, Known, CanReport, Payload, Exists
<1>3. CASE Answered(i)
  <2>1. /\ call[i].row \in RowIds /\ i \in Names /\ Stamp(call[i].cid) \in Cids
        /\ NoCid \in Cids /\ synced' = synced
    BY <1>3, Ids, ClockTypes DEF Answered, TypeOK
  <2>2. CASE UNCHANGED <<rows, jobs>>
    BY <2>1, <2>2 DEF Known, CanReport, Payload, Exists
  <2>3. CASE UpdateStatus(call[i].row, "failed", NoName, NoCid)
    BY <2>1, <2>3, UpdateKnown
  <2>4. CASE UpdateStatus(call[i].row, "sent", i, Stamp(call[i].cid))
    BY <2>1, <2>4, UpdateKnown
  <2> QED BY <1>3, <2>2, <2>3, <2>4 DEF Answered
<1>4. CASE Fails(i)
  <2>1. call[i].row \in RowIds /\ NoCid \in Cids /\ synced' = synced
    BY <1>4, Ids DEF Fails, InFlight, TypeOK
  <2> QED BY <1>4, <2>1, UpdateKnown DEF Fails
<1> QED BY <1>1, <1>2, <1>3, <1>4
        DEF CallStep, StartSend, StartAttachments, StartReply, Sends

\* An echo puts the row it finds in the queue.
LEMMA LiveKnown ==
    ASSUME TypeOK, NEW p \in Names, Live(p), NEW q \in RowIds, Known(q)
    PROVE  Known(q)'
<1>1. synced' = synced
  BY DEF Live
<1>2. CASE Reconciled(p) # {}
  <2>1. PICK r \in Reconciled(p) : UpdateStatus(r, "sent", p, cidOf[p])
    BY <1>2 DEF Live
  <2>2. r \in RowIds /\ cidOf[p] \in Cids
    BY DEF Reconciled, WithCid, TypeOK
  <2> QED BY <1>1, <2>1, <2>2, UpdateKnown
<1>3. CASE Reconciled(p) = {}
  BY <1>1, <1>3, UpsertKnown DEF Live
<1> QED BY <1>2, <1>3

\* A row that a receipt, a recall or an undo changes is put in the queue.
LEMMA QueuedKnown ==
    ASSUME NEW r \in RowIds, jobs' = jobs \cup {r}, synced' = synced,
           \A x \in RowIds \ {r} : rows'[x] = rows[x],
           NEW q \in RowIds, Known(q)
    PROVE  Known(q)'
BY DEF Known, CanReport, Payload, Exists

\* Receipts, recalls and the worker leave each row known.
LEMMA IncidentKnown ==
    ASSUME TypeOK, Incident, NEW q \in RowIds, Known(q)
    PROVE  Known(q)'
<1>1. ASSUME NEW i \in Retries, NEW r \in Sends \X {0}, StartRetry(i, r) PROVE Known(q)'
  <2>1. /\ r \in RowIds /\ NoCid \in Cids /\ synced' = synced
        /\ UpdateStatus(r, "sending", NoName, NoCid)
    BY <1>1, Ids DEF StartRetry
  <2> QED BY <2>1, UpdateKnown
<1>2. ASSUME UNCHANGED <<rows, jobs, synced>> PROVE Known(q)'
  BY <1>2 DEF Known, CanReport, Payload, Exists
<1>3. ASSUME NEW p \in Names, History(p) PROVE Known(q)'
  BY <1>3, UpsertKnown DEF History
<1>4. ASSUME NEW r \in RowIds, MarkDeleted(r) PROVE Known(q)'
  <2>1. jobs' = jobs \cup {r} /\ synced' = synced /\ \A x \in RowIds \ {r} : rows'[x] = rows[x]
    BY <1>4 DEF MarkDeleted, TypeOK
  <2> QED BY <2>1, QueuedKnown
<1>5. ASSUME NEW p \in Names, NEW status \in {"delivered", "seen"}, Receipt(p, status)
      PROVE  Known(q)'
  <2>1. PICK r \in RowIds : /\ rows' = [rows EXCEPT ![r].status = status]
                           /\ jobs' = jobs \cup {r}
    BY <1>5 DEF Receipt, StatusByName, WithName
  <2>2. synced' = synced /\ \A x \in RowIds \ {r} : rows'[x] = rows[x]
    BY <1>5, <2>1 DEF Receipt, TypeOK
  <2> QED BY <2>1, <2>2, QueuedKnown
<1>6. ASSUME NEW r \in RowIds, Delete(r) PROVE Known(q)'
  <2>1. /\ \A x \in RowIds \ {r} : rows'[x] = rows[x]
        /\ ~ rows'[r].exists /\ UNCHANGED <<jobs, synced>>
    BY <1>6 DEF Delete, TypeOK, RowSet
  <2> QED BY <2>1 DEF Known, CanReport, Payload, Exists
<1>7. ASSUME NEW r \in RowIds, Sync(r) PROVE Known(q)'
  <2>1. rows' = rows /\ jobs' = jobs \ {r} /\ synced \subseteq synced'
        /\ (CanReport(r) => Payload(r) \in synced')
    BY <1>7 DEF Sync
  <2> QED BY <2>1 DEF Known, CanReport, Payload, Exists
<1>8. ASSUME NEW p \in Names, Undo(p) PROVE Known(q)'
  BY <1>4, <1>8 DEF Undo, WithName, WithCid
<1>9. ASSUME NEW r \in RowIds, Recall(r) PROVE Known(q)'
  BY <1>4, <1>9 DEF Recall
<1>10. ASSUME \/ \E p \in Names : Written(p) \/ Redelivered(p)
              \/ \E k \in marks : Expire(k)
              \/ MarkRead
       PROVE  UNCHANGED <<rows, jobs, synced>>
  BY <1>10 DEF Written, Redelivered, Expire, MarkRead, tables
<1> QED BY <1>1, <1>2, <1>3, <1>5, <1>6, <1>7, <1>8, <1>9, <1>10 DEF Incident

\* However answers, receipts, recalls and the sync worker come, a row the cloud should know
\* is queued, or what would be posted of it now has been posted.
THEOREM SentIsReported == Spec => []SentReachesCloud
<1>1. Init => SentReachesCloud
  BY DEF Init, NoRow, Row, SentReachesCloud, CanReport, Exists
<1>2. TypeOK /\ SentReachesCloud /\ [Next]_vars => SentReachesCloud'
  <2> SUFFICES ASSUME TypeOK, SentReachesCloud, [Next]_vars, NEW q \in RowIds
               PROVE  Known(q)'
    BY DEF SentReachesCloud, Known
  <2>1. Known(q)
    BY DEF SentReachesCloud, Known
  <2>2. CASE UNCHANGED <<rows, jobs, synced>>
    BY <2>1, <2>2 DEF Known, CanReport, Payload, Exists
  <2>3. CASE Next /\ ~ UNCHANGED <<rows, jobs, synced>>
    <3>1. ~ Switching /\ \A p \in Names : ~ LiveRefused(p) /\ ~ Dropped(p)
      BY <2>3 DEF Switching, StartRunner, StopRunner, SwitchAutoReply, Crash, LiveRefused,
                  Dropped, tables
    <3> QED BY <2>1, <2>3, <3>1, CallKnown, LiveKnown, IncidentKnown DEF Next
  <2>4. CASE UNCHANGED vars
    BY <2>2, <2>4 DEF vars, tables
  <2> QED BY <2>2, <2>3, <2>4
<1> QED BY <1>1, <1>2, TypeCorrect, PTL DEF Spec

-----------------------------------------------------------------------------
(* The messages of the customer and of the phone *)

\* Their names and client ids.
LEMMA ForeignIds ==
    /\ Foreign \subseteq Names /\ Customer \subseteq Foreign /\ Phone \subseteq Foreign
    /\ Foreign \cap Calls = {} /\ Names \ Foreign = Calls
    /\ NoName \notin Foreign /\ NoCid.of \notin Foreign
    /\ Names \cap Cids = {}
BY Ids, MessagesAssumption DEF Foreign, Names

\* The rows of a foreign message are those they were.
SameNamed(c) ==
    \A q \in RowIds : Exists(q)' /\ rows'[q].name = c <=> Exists(q) /\ rows[q].name = c

\* An update by what is not foreign leaves the foreign rows alone.
LEMMA UpdateApart ==
    ASSUME TypeOK, RowsApart, NEW r \in RowIds, NEW status \in Statuses,
           NEW name \in (Names \cup {NoName}) \ Foreign, NEW cid \in Cids, cid.of \notin Foreign,
           UpdateStatus(r, status, name, cid),
           name # NoName \/ cid # NoCid => rows[r].name \notin Foreign
    PROVE  RowsApart' /\ \A c \in Foreign : SameNamed(c)
<1>1. /\ \A q \in RowIds \ {r} : rows'[q] = rows[q]
      /\ rows'[r].exists = rows[r].exists
      /\ ~ Exists(r) => rows' = rows
  BY UpdateRow
<1>2. Exists(r) => /\ rows'[r].name = IF name = NoName THEN rows[r].name ELSE name
                   /\ rows'[r].cid = IF cid = NoCid THEN rows[r].cid ELSE cid
  BY UpdateRow
<1>3. \A p \in Foreign : rows[r].name = p <=> rows[r].cid.of = p
  BY DEF RowsApart
<1>4. /\ \A p \in Foreign : rows'[r].name = p <=> rows'[r].cid.of = p
      /\ \A p \in Foreign : rows[r].name = p <=> rows'[r].name = p
  <2>1. CASE name = NoName /\ cid = NoCid
    BY <1>1, <1>2, <1>3, <2>1
  <2>2. CASE name # NoName \/ cid # NoCid
    BY <1>1, <1>2, <1>3, <2>2
  <2> QED BY <2>1, <2>2
<1>5. \A s \in Sends : rows'[<<s, 0>>].name \notin Foreign
  <2>1. \A s \in Sends : <<s, 0>> \in RowIds
    BY Ids
  <2> QED BY <1>1, <1>4, <2>1 DEF RowsApart
<1>6. \A q \in RowIds, p \in Foreign : rows'[q].name = p <=> rows'[q].cid.of = p
  BY <1>1, <1>4 DEF RowsApart
<1>7. \A c \in Foreign : SameNamed(c)
  BY <1>1, <1>4 DEF SameNamed, Exists
<1> QED BY <1>5, <1>6, <1>7 DEF RowsApart

\* Nor does one that leaves the name and the client id of its row.
LEMMA UpdateSame ==
    ASSUME TypeOK, RowsApart, NEW r \in RowIds, NEW status \in Statuses,
           NEW name \in Names, NEW cid \in Cids, UpdateStatus(r, status, name, cid),
           rows[r].name = name, rows[r].cid = cid
    PROVE  RowsApart' /\ \A c \in Foreign : SameNamed(c)
<1>1. /\ \A q \in RowIds \ {r} : rows'[q] = rows[q]
      /\ rows'[r].exists = rows[r].exists
      /\ ~ Exists(r) => rows' = rows
  BY UpdateRow
<1>2. rows'[r].name = rows[r].name /\ rows'[r].cid = rows[r].cid
  BY <1>1, UpdateRow
<1>3. \A q \in RowIds : /\ rows'[q].exists = rows[q].exists /\ rows'[q].name = rows[q].name
                        /\ rows'[q].cid = rows[q].cid
  BY <1>1, <1>2
<1>4. \A s \in Sends : <<s, 0>> \in RowIds
  BY Ids
<1> QED BY <1>3, <1>4 DEF RowsApart, SameNamed, Exists

\* What foreign messages are judged by stays, or grows.
Kept ==
    /\ UNCHANGED <<inserts, engaged>> /\ unread' \in {0, unread}
    /\ deleted \subseteq deleted' /\ paused \subseteq paused' /\ past \subseteq past'
    /\ muted \subseteq muted'
    /\ \A p \in Customer \ deleted', q \in RowIds :
          Exists(q) /\ rows[q].name = p => Exists(q)' /\ rows'[q].name = p
    /\ \A p \in Foreign, q \in RowIds :
          Exists(q)' /\ rows'[q].name = p => Exists(q) /\ rows[q].name = p

\* Where no row of a customer goes, what is counted stays right.
LEMMA KeptStored == ASSUME TypeOK, StoredInv, Kept PROVE StoredInv'
<1>1. \A p \in Customer \ deleted' : WithName(p)' = {} => WithName(p) = {}
  BY DEF Kept, WithName
<1>2. Cardinality({p \in Customer : inserts[p] > 0}) \in Nat
  BY MessagesAssumption, FS_Subset, FS_CardinalityType
<1>3. unread' <= unread
  BY DEF Kept, TypeOK
<1>4. Customer \cap deleted' = {} => Customer \cap deleted = {}
  BY DEF Kept
<1>5. Customer \cap deleted' = {} => unread' <= Cardinality({p \in Customer : inserts[p] > 0})
  BY <1>2, <1>3, <1>4 DEF StoredInv, TypeOK, Kept
<1> QED BY <1>1, <1>5 DEF StoredInv, Kept

\* Where no foreign row comes, nothing has to be acted on.
LEMMA KeptHeard == ASSUME TypeOK, HeardInv, Kept, handled' = handled PROVE HeardInv'
<1>1. \A p \in Foreign : WithName(p)' # {} => WithName(p) # {}
  BY DEF Kept, WithName
<1>2. \A p \in Foreign : Acted(p) => Acted(p)'
  BY DEF Kept, Acted
<1> QED BY <1>1, <1>2 DEF HeardInv

\* A message that is not foreign is upserted.
LEMMA OursApart ==
    ASSUME TypeOK, CidInv, NEW p \in Names \ Foreign, Upsert(Direction(p), p)
    PROVE  /\ RowsApart' /\ unread' = unread
           /\ \A c \in Foreign : SameNamed(c)
           /\ \A c \in Customer : inserts'[c] = inserts[c]
<1>0. p \notin Customer /\ \A c \in Customer : c \in Names \ {p}
  BY ForeignIds
<1>1. CASE UNCHANGED <<rows, jobs, unread, inserts>>
  BY <1>1 DEF CidInv, RowsApart, SameNamed, Exists
<1>2. CASE UNCHANGED <<unread, inserts>>
           /\ \E r \in WithCid(cidOf[p]) : UpdateStatus(r, "sent", p, NoCid)
  <2>1. PICK r \in WithCid(cidOf[p]) : UpdateStatus(r, "sent", p, NoCid)
    BY <1>2
  <2>2. /\ r \in RowIds /\ rows[r].cid.of \notin Foreign /\ rows[r].name \notin Foreign
        /\ p \in (Names \cup {NoName}) \ Foreign /\ NoCid \in Cids /\ NoCid.of \notin Foreign
        /\ "sent" \in Statuses
    BY Ids, ForeignIds DEF WithCid, CidInv, RowsApart, Statuses
  <2> QED BY <1>2, <2>1, <2>2, UpdateApart DEF CidInv
<1>3. CASE /\ Insert(Direction(p), p) /\ unread' = unread
           /\ inserts' = [inserts EXCEPT ![p] = @ + 1]
  <2>1. PICK r \in RowIds :
            /\ ~ Exists(r) /\ r \notin Sends \X {0}
            /\ rows' = [rows EXCEPT ![r] = Row(Direction(p), p, cidOf[p], "delivered")]
    BY <1>3, InsertRow DEF Direction
  <2>2. /\ rows'[r].name = p /\ rows'[r].cid = cidOf[p]
        /\ \A q \in RowIds \ {r} : rows'[q] = rows[q]
    BY <2>1 DEF Row, TypeOK
  <2>3. cidOf[p].of \notin Foreign
    BY DEF CidInv
  <2>4. \A s \in Sends : <<s, 0>> \in RowIds \ {r}
    BY <2>1, Ids
  <2>5. RowsApart'
    BY <2>2, <2>3, <2>4 DEF CidInv, RowsApart
  <2>6. \A c \in Foreign : SameNamed(c)
    BY <2>1, <2>2 DEF SameNamed, Exists
  <2>7. \A c \in Customer : inserts'[c] = inserts[c]
    BY <1>0, <1>3 DEF TypeOK
  <2> QED BY <1>3, <2>5, <2>6, <2>7
<1> QED BY <1>0, <1>1, <1>2, <1>3, UpsertRow

\* A foreign message is upserted: it is known, or inserted.
LEMMA TheirsApart ==
    ASSUME TypeOK, CidInv, NEW p \in Foreign, cidOf[p] # NoCid, Upsert(Direction(p), p)
    PROVE  /\ RowsApart'
           /\ \A c \in Foreign \ {p} : SameNamed(c)
           /\ \/ WithName(p) # {} /\ UNCHANGED <<unread, inserts>> /\ SameNamed(p)
              \/ /\ WithName(p) = {} /\ WithName(p)' # {}
                 /\ unread' = IF p \in Customer THEN unread + 1 ELSE unread
                 /\ inserts' = [inserts EXCEPT ![p] = @ + 1]
<1>1. p \in Names
  BY ForeignIds
<1>2. cidOf[p].of = p
  BY DEF CidInv
<1>3. WithName(p) = {} => WithCid(cidOf[p]) = {}
  BY <1>2 DEF WithName, WithCid, CidInv, RowsApart
<1>4. CASE UNCHANGED <<rows, jobs, unread, inserts>> /\ WithName(p) # {}
  BY <1>4 DEF CidInv, RowsApart, SameNamed, Exists
<1>5. CASE /\ WithName(p) = {} /\ Insert(Direction(p), p)
           /\ unread' = IF p \in Customer THEN unread + 1 ELSE unread
           /\ inserts' = [inserts EXCEPT ![p] = @ + 1]
  <2>1. PICK r \in RowIds :
            /\ ~ Exists(r) /\ r \notin Sends \X {0}
            /\ rows' = [rows EXCEPT ![r] = Row(Direction(p), p, cidOf[p], "delivered")]
    BY <1>1, <1>5, InsertRow DEF Direction
  <2>2. /\ rows'[r].name = p /\ rows'[r].cid = cidOf[p] /\ rows'[r].exists
        /\ \A q \in RowIds \ {r} : rows'[q] = rows[q]
    BY <2>1 DEF Row, TypeOK
  <2>3. \A s \in Sends : <<s, 0>> \in RowIds \ {r}
    BY <2>1, Ids
  <2>4. RowsApart'
    BY <1>2, <2>2, <2>3 DEF CidInv, RowsApart
  <2>5. WithName(p)' # {}
    BY <2>2 DEF WithName, Exists
  <2>6. \A c \in Foreign \ {p} : SameNamed(c)
    BY <2>1, <2>2 DEF SameNamed, Exists
  <2> QED BY <1>5, <2>4, <2>5, <2>6
<1> QED BY <1>1, <1>3, <1>4, <1>5, UpsertRow

\* A message of the customer that is new is stored, and perhaps given to the bot.
LEMMA NewStored ==
    ASSUME TypeOK, StoredInv, NEW p \in Customer, WithName(p) = {}, WithName(p)' # {},
           \A c \in Customer \ {p} : SameNamed(c), deleted' = deleted,
           unread' = unread + 1, inserts' = [inserts EXCEPT ![p] = @ + 1],
           engaged' = engaged \/ engaged' = [engaged EXCEPT ![p] = @ + 1]
    PROVE  StoredInv'
<1>1. p \in Names /\ inserts'[p] = inserts[p] + 1
      /\ engaged'[p] \in {engaged[p], engaged[p] + 1}
      /\ \A c \in Names \ {p} : inserts'[c] = inserts[c] /\ engaged'[c] = engaged[c]
  BY Ids DEF TypeOK
<1>2. p \notin deleted => inserts[p] = 0 /\ engaged[p] = 0
  BY <1>1 DEF StoredInv, TypeOK
<1>3. ASSUME NEW c \in Customer \ deleted
      PROVE  /\ inserts'[c] <= 1 /\ engaged'[c] <= inserts'[c]
             /\ WithName(c)' = {} => inserts'[c] = 0
  <2>1. CASE c = p
    BY <1>1, <1>2, <2>1
  <2>2. CASE c # p
    <3>1. WithName(c)' = {} => WithName(c) = {}
      BY <2>2 DEF WithName, SameNamed
    <3> QED BY <1>1, <2>2, <3>1, Ids DEF StoredInv
  <2> QED BY <2>1, <2>2
<1>4. ASSUME Customer \cap deleted = {}
      PROVE  unread' <= Cardinality({c \in Customer : inserts'[c] > 0})
  <2> DEFINE Had == {c \in Customer : inserts[c] > 0}
  <2>1. {c \in Customer : inserts'[c] > 0} = Had \cup {p} /\ p \notin Had
    BY <1>1, <1>2, <1>4, Ids DEF TypeOK
  <2>2. IsFiniteSet(Had)
    BY MessagesAssumption, FS_Subset
  <2>3. Cardinality(Had \cup {p}) = Cardinality(Had) + 1 /\ Cardinality(Had) \in Nat
    BY <2>1, <2>2, FS_AddElement, FS_CardinalityType
  <2>4. unread <= Cardinality(Had)
    BY <1>4 DEF StoredInv
  <2>5. unread' <= Cardinality(Had) + 1
    BY <2>3, <2>4 DEF TypeOK
  <2> QED BY <2>1, <2>3, <2>5
<1> QED BY <1>3, <1>4 DEF StoredInv

\* A message is upserted, and perhaps given to the bot.
LEMMA UpsertStored ==
    ASSUME TypeOK, CidInv, StoredInv, NEW p \in Names, p \in Foreign => cidOf[p] # NoCid,
           Upsert(Direction(p), p), deleted' = deleted,
           \/ engaged' = engaged
           \/ p \in Customer /\ WithName(p) = {} /\ engaged' = [engaged EXCEPT ![p] = @ + 1]
    PROVE  StoredInv' /\ RowsApart' /\ \A c \in Foreign \ {p} : SameNamed(c)
<1>1. CASE p \notin Customer
  <2>1. /\ RowsApart' /\ unread' = unread /\ engaged' = engaged
        /\ \A c \in Foreign \ {p} : SameNamed(c)
        /\ \A c \in Customer : inserts'[c] = inserts[c]
    <3>1. CASE p \notin Foreign
      BY <1>1, <3>1, OursApart
    <3>2. CASE p \in Foreign
      BY <1>1, <3>2, TheirsApart, ForeignIds DEF TypeOK
    <3> QED BY <3>1, <3>2
  <2>2. {c \in Customer : inserts'[c] > 0} = {c \in Customer : inserts[c] > 0}
    BY <2>1
  <2>3. \A c \in Customer : WithName(c)' = {} => WithName(c) = {}
    BY <1>1, <2>1, ForeignIds DEF WithName, SameNamed
  <2> QED BY <2>1, <2>2, <2>3 DEF StoredInv
<1>2. CASE p \in Customer /\ WithName(p) # {}
  <2>1. /\ RowsApart' /\ UNCHANGED <<unread, inserts, engaged>>
        /\ \A c \in Foreign : SameNamed(c)
    BY <1>2, TheirsApart, ForeignIds
  <2>2. \A c \in Customer : WithName(c)' = {} => WithName(c) = {}
    BY <2>1, ForeignIds DEF WithName, SameNamed
  <2> QED BY <2>1, <2>2 DEF StoredInv
<1>3. CASE p \in Customer /\ WithName(p) = {}
  <2>1. /\ RowsApart' /\ WithName(p)' # {}
        /\ \A c \in Foreign \ {p} : SameNamed(c)
        /\ unread' = unread + 1 /\ inserts' = [inserts EXCEPT ![p] = @ + 1]
    BY <1>3, TheirsApart, ForeignIds
  <2> QED BY <1>3, <2>1, NewStored, ForeignIds
<1> QED BY <1>1, <1>2, <1>3

ForeignInv == CidInv /\ StoredInv /\ HeardInv

\* The rows and what is counted are as they were.
LEMMA SameRows ==
    ASSUME TypeOK, RowsApart, UNCHANGED <<rows, inserts, engaged, deleted, paused, muted>>,
           unread' \in {0, unread}, past \subseteq past'
    PROVE  Kept /\ RowsApart'
BY DEF Kept, RowsApart, Exists

\* Names and client ids are as they were.
LEMMA SameNames ==
    ASSUME TypeOK, RowsApart, UNCHANGED <<inserts, engaged, unread, deleted, paused, past, muted>>,
           \A r \in RowIds : /\ rows'[r].exists = rows[r].exists
                             /\ rows'[r].name = rows[r].name /\ rows'[r].cid = rows[r].cid
    PROVE  Kept /\ RowsApart'
<1>1. \A s \in Sends : <<s, 0>> \in RowIds
  BY Ids
<1> QED BY <1>1 DEF Kept, RowsApart, Exists

\* The foreign rows are those they were.
LEMMA SameNamedKept ==
    ASSUME \A c \in Foreign : SameNamed(c),
           UNCHANGED <<inserts, engaged, unread, deleted, paused, past, muted>>
    PROVE  Kept
BY ForeignIds DEF SameNamed, Kept

\* The row of a send has the name and the client id of no foreign message.
LEMMA SendRow ==
    ASSUME TypeOK, CidInv, NEW r \in Sends \X {0}
    PROVE  r \in RowIds /\ rows[r].name \notin Foreign /\ rows[r].cid.of \notin Foreign
BY Ids DEF CidInv, RowsApart

\* The client id a call has, and what is made of it, is no foreign one's.
LEMMA CallCid ==
    ASSUME TypeOK, CidInv, NEW i \in Calls
    PROVE  /\ Stamp(call[i].cid) \in Cids /\ Stamp(call[i].cid).of \notin Foreign
           /\ Stamp(call[i].cid) \notin Foreign
           /\ ClockCid(i).of \notin Foreign
<1>1. call[i].cid \in Cids /\ call[i].cid.of \notin Foreign
  BY DEF TypeOK, CallSet, CidInv
<1>2. Stamp(call[i].cid) \in Cids /\ Stamp(call[i].cid).of \notin Foreign
  BY <1>1, Ids
<1>3. Cid(i, "library").of = i /\ i \notin Foreign
  BY Ids, ForeignIds
<1> QED BY <1>2, <1>3, ForeignIds DEF ClockCid, CidInv

\* A call begins: it has a row and a client id of its own.
LEMMA BeginsForeign ==
    ASSUME TypeOK, ForeignInv, NEW i \in Sends, NEW form \in {"prefixed", "stamp"},
           NEW rich \in BOOLEAN, InsertOutbound(i, form, rich)
    PROVE  ForeignInv'
<1>0. CidInv /\ StoredInv /\ HeardInv /\ RowsApart
  BY DEF ForeignInv, CidInv
<1>1. <<i, 0>> \in RowIds /\ Cid(i, form).of = i /\ NoName \notin Foreign
      /\ i \notin Foreign /\ rows[<<i, 0>>].name \notin Foreign
  BY <1>0, Ids, ForeignIds DEF RowsApart
<1>2. /\ \A q \in RowIds \ {<<i, 0>>} : rows'[q] = rows[q]
      /\ rows'[<<i, 0>>].name = NoName /\ rows'[<<i, 0>>].cid = Cid(i, form)
  BY <1>1 DEF InsertOutbound, Row, TypeOK
<1>3. \A s \in Sends : <<s, 0>> \in RowIds
  BY Ids
<1>4. RowsApart'
  BY <1>0, <1>1, <1>2, <1>3 DEF RowsApart
<1>5. Kept
  BY <1>1, <1>2, ForeignIds DEF Kept, Exists, InsertOutbound, history, heard,
                                          tallies
<1>6. \A j \in Calls : call'[j].cid.of \notin Foreign
  BY <1>0, <1>1 DEF InsertOutbound, TypeOK, CidInv
<1>7. CidInv'
  BY <1>0, <1>4, <1>6 DEF InsertOutbound, CidInv, zalo, history, heard
<1> QED BY <1>0, <1>5, <1>7, KeptStored, KeptHeard 
       DEF ForeignInv, InsertOutbound, history, heard

\* A request carries a client id that is no foreign one's.
LEMMA DispatchForeign ==
    ASSUME TypeOK, ForeignInv, NEW i \in Calls, NEW current \in BOOLEAN, NEW taken \in BOOLEAN,
           Dispatch(i, current, taken)
    PROVE  ForeignInv'
<1>0. CidInv /\ StoredInv /\ HeardInv /\ RowsApart /\ i \in Names /\ i \notin Foreign
  BY Ids, ForeignIds DEF ForeignInv, CidInv
<1>1. /\ pin'.to.of \notin Foreign
      /\ \A q \in Names \ {i} : cidOf'[q] = cidOf[q]
      /\ cidOf'[i].of \notin Foreign
  BY <1>0, CallCid DEF Dispatch, TypeOK, CidInv
<1>2. marks' \subseteq marks \cup {Stamp(call[i].cid)}
  BY DEF Dispatch
<1>3. marks' \cap Foreign = {} /\ \A c \in marks' \cap Cids : c.of \notin Foreign
  BY <1>0, <1>2, CallCid DEF CidInv
<1>4. \A j \in Calls : call'[j].cid = call[j].cid
  BY SetCallTypes DEF Dispatch
<1>5. live' \subseteq live \cup {i} /\ handled' = handled /\ missed' = missed
  BY DEF Dispatch, heard
<1>6. Kept /\ RowsApart'
  BY <1>0, SameRows DEF Dispatch, tables, heard, tallies
<1>7. \A p \in Foreign : p \in Names \ {i}
  BY <1>0, ForeignIds
<1>8. CidInv'
  BY <1>0, <1>1, <1>3, <1>4, <1>5, <1>6, <1>7 DEF CidInv
<1> QED BY <1>0, <1>5, <1>6, <1>8, KeptStored, KeptHeard DEF ForeignInv

\* An answer or a failure touches the row of its send.
LEMMA EndsForeign ==
    ASSUME TypeOK, ForeignInv, NEW i \in Calls, Answered(i) \/ Fails(i)
    PROVE  ForeignInv'
<1>0. CidInv /\ StoredInv /\ HeardInv /\ RowsApart /\ i \in Names /\ i \notin Foreign
  BY Ids, ForeignIds DEF ForeignInv, CidInv
<1>1. call[i].row \in Sends \X {0} /\ call[i].pc # "idle"
  BY DEF Answered, Fails, InFlight, TypeOK
<1>2. /\ call[i].row \in RowIds /\ rows[call[i].row].name \notin Foreign
      /\ NoCid \in Cids /\ NoCid.of \notin Foreign /\ NoName \notin Foreign
      /\ "sent" \in Statuses /\ "failed" \in Statuses
  BY <1>0, <1>1, SendRow, Ids, ForeignIds DEF Statuses
<1>3. UNCHANGED <<inserts, engaged, unread, deleted, paused, past, handled, missed, muted,
                 live, cidOf>>
  BY DEF Answered, Fails, heard, tallies, zalo
<1>4. RowsApart' /\ \A c \in Foreign : SameNamed(c)
  <2>1. CASE UNCHANGED <<rows, jobs>>
    BY <1>0, <2>1 DEF RowsApart, SameNamed, Exists
  <2>2. CASE UpdateStatus(call[i].row, "failed", NoName, NoCid)
    BY <1>0, <1>2, <2>2, UpdateApart
  <2>3. CASE UpdateStatus(call[i].row, "sent", i, Stamp(call[i].cid))
    BY <1>0, <1>2, <2>3, UpdateApart, CallCid
  <2> QED BY <2>1, <2>2, <2>3 DEF Answered, Fails
<1>5. Kept
  BY <1>3, <1>4, SameNamedKept
<1>6. \A j \in Calls : call'[j].cid = call[j].cid
  BY <1>1, SetCallTypes DEF Answered, Fails
<1>7. pin'.to \in {pin.to, NoCid}
  BY UnpinTypes DEF Answered, Fails
<1>8. marks' \subseteq marks \cup {i} /\ i \notin Cids
  BY <1>0, ForeignIds DEF Answered, Fails
<1>9. CidInv'
  BY <1>0, <1>2, <1>3, <1>4, <1>6, <1>7, <1>8 DEF CidInv
<1> QED BY <1>0, <1>3, <1>5, <1>9, KeptStored, KeptHeard DEF ForeignInv

\* No step of a call disturbs a foreign message.
LEMMA CallForeign ==
    ASSUME TypeOK, ForeignInv, NEW i \in Calls, CallStep(i)
    PROVE  ForeignInv'
BY BeginsForeign, DispatchForeign, EndsForeign
DEF CallStep, StartSend, StartAttachments, StartReply, Sends

\* A foreign message that is not in the table is new to the live handler.
LEMMA NotKnown ==
    ASSUME TypeOK, CidInv, NEW p \in Foreign, cidOf[p] # NoCid, WithName(p) = {}
    PROVE  Reconciled(p) = {} /\ ~ Programmatic(p)
<1>1. cidOf[p].of = p /\ cidOf[p] \in Cids
  BY ForeignIds DEF CidInv, TypeOK
<1>2. WithCid(cidOf[p]) = {}
  BY <1>1 DEF WithName, WithCid, CidInv, RowsApart
<1>3. p \notin marks /\ cidOf[p] \notin marks
  BY <1>1 DEF CidInv
<1> QED BY <1>2, <1>3 DEF Reconciled, Programmatic

\* The live handler stores what is new and acts on it.
LEMMA LiveForeign ==
    ASSUME TypeOK, ForeignInv, NEW p \in Names, Live(p)
    PROVE  ForeignInv'
<1>0. CidInv /\ StoredInv /\ HeardInv /\ RowsApart /\ (p \in Foreign => cidOf[p] # NoCid)
  BY DEF ForeignInv, CidInv, Live
<1>1. /\ UNCHANGED <<cidOf, call, pin, marks, deleted, past, missed>>
      /\ paused \subseteq paused' /\ muted \subseteq muted'
      /\ live' \subseteq live /\ handled' = handled \cup {p} /\ p \in live
      /\ \A c \in Names : engaged'[c] >= engaged[c]
  BY DEF Live, process, TypeOK
<1>2. RowsApart' /\ StoredInv' /\ \A c \in Foreign \ {p} : SameNamed(c)
  <2>1. CASE Reconciled(p) # {}
    <3>1. PICK r \in Reconciled(p) : UpdateStatus(r, "sent", p, cidOf[p])
      BY <2>1 DEF Live
    <3>2. p \notin Customer /\ r \in RowIds /\ rows[r].cid = cidOf[p]
          /\ cidOf[p] \in Cids /\ "sent" \in Statuses
      BY <2>1 DEF Reconciled, Ours, WithCid, TypeOK, Statuses
    <3>3. RowsApart' /\ \A c \in Foreign : SameNamed(c)
      <4>1. CASE p \in Foreign
        <5>1. cidOf[p].of = p
          BY <1>0, <4>1 DEF CidInv
        <5>2. rows[r].name = p
          BY <1>0, <3>2, <4>1, <5>1 DEF RowsApart
        <5> QED BY <1>0, <3>1, <3>2, <5>2, UpdateSame
      <4>2. CASE p \notin Foreign
        <5>1. cidOf[p].of \notin Foreign /\ p \in (Names \cup {NoName}) \ Foreign
          BY <1>0, <4>2 DEF CidInv
        <5>2. rows[r].name \notin Foreign
          BY <1>0, <3>2, <5>1 DEF RowsApart
        <5> QED BY <1>0, <3>1, <3>2, <5>1, <5>2, UpdateApart
      <4> QED BY <4>1, <4>2
    <3>4. UNCHANGED <<inserts, engaged, unread, deleted>>
      BY <1>1, <2>1, <3>2 DEF Live, Ours
    <3>5. \A c \in Customer : WithName(c)' = {} => WithName(c) = {}
      BY <3>3, ForeignIds DEF WithName, SameNamed
    <3> QED BY <1>0, <3>3, <3>4, <3>5 DEF StoredInv
  <2>2. CASE Reconciled(p) = {}
    <3>1. Upsert(Direction(p), p)
      BY <2>2 DEF Live
    <3>2. \/ engaged' = engaged
          \/ p \in Customer /\ WithName(p) = {} /\ engaged' = [engaged EXCEPT ![p] = @ + 1]
      BY DEF Live, Ours
    <3> QED BY <1>0, <1>1, <3>1, <3>2, UpsertStored
  <2> QED BY <2>1, <2>2
<1>3. CidInv'
  BY <1>0, <1>1, <1>2 DEF CidInv
<1>4. \A c \in Foreign : Acted(c) => Acted(c)'
  <2>1. \A c \in Customer : engaged[c] > 0 => engaged'[c] > 0
    <3>1. Customer \subseteq Names
      BY DEF Names
    <3>2. engaged' = engaged \/ (p \in Customer /\ engaged' = [engaged EXCEPT ![p] = @ + 1])
      BY DEF Live, Ours
    <3> QED BY <3>1, <3>2 DEF TypeOK
  <2> QED BY <1>1, <2>1 DEF Acted
<1>5. p \in Foreign => Acted(p)'
  <2>1. CASE p \in Foreign /\ WithName(p) # {}
    BY <1>0, <1>4, <2>1 DEF HeardInv
  <2>2. CASE p \in Foreign /\ WithName(p) = {}
    <3>1. Reconciled(p) = {} /\ ~ Programmatic(p)
      BY <1>0, <2>2, NotKnown
    <3>2. CASE p \in Customer
      <4>1. engaged' = [engaged EXCEPT ![p] = @ + 1] \/ p \in muted'
        BY <2>2, <3>1, <3>2 DEF Live, Ours
      <4>2. engaged'[p] > 0 \/ p \in muted'
        BY <4>1 DEF TypeOK
      <4> QED BY <3>2, <4>2 DEF Acted
    <3>3. CASE p \in Phone
      <4>1. p \notin Customer
        BY <3>3, Ids
      <4> QED BY <2>2, <3>1, <3>3, <4>1 DEF Live, Ours, Acted
    <3> QED BY <2>2, <3>2, <3>3 DEF Foreign
  <2> QED BY <2>1, <2>2
<1>6. \A c \in Foreign \ {p} : WithName(c)' # {} => WithName(c) # {}
  BY <1>2 DEF WithName, SameNamed
<1>7. HeardInv'
  BY <1>0, <1>1, <1>4, <1>5, <1>6 DEF HeardInv
<1> QED BY <1>2, <1>3, <1>7 DEF ForeignInv

\* The history batch stores what is new and remembers that it came first.
LEMMA HistoryForeign ==
    ASSUME TypeOK, ForeignInv, NEW p \in Names, History(p)
    PROVE  ForeignInv'
<1>0. CidInv /\ StoredInv /\ HeardInv
  BY DEF ForeignInv
<1>1. /\ UNCHANGED <<cidOf, call, pin, marks, deleted, handled, missed, muted, live,
                    engaged, paused>>
      /\ past' = IF WithName(p) = {} THEN past \cup {p} ELSE past
  BY DEF History, process, zalo, heard
<1>2. RowsApart' /\ StoredInv' /\ \A c \in Foreign \ {p} : SameNamed(c)
  BY <1>0, <1>1, UpsertStored DEF History
<1>3. CidInv'
  BY <1>0, <1>1, <1>2 DEF CidInv
<1>4. \A c \in Foreign : Acted(c) => Acted(c)'
  BY <1>1 DEF Acted
<1>5. p \in Foreign => Acted(p)'
  BY <1>0, <1>1, <1>4 DEF HeardInv, Acted
<1>6. \A c \in Foreign \ {p} : WithName(c)' # {} => WithName(c) # {}
  BY <1>2 DEF WithName, SameNamed
<1>7. HeardInv'
  BY <1>0, <1>1, <1>4, <1>5, <1>6 DEF HeardInv
<1> QED BY <1>2, <1>3, <1>7 DEF ForeignInv

\* No incident disturbs a foreign message, but for a deletion.
LEMMA IncidentForeign ==
    ASSUME TypeOK, ForeignInv, Incident
    PROVE  ForeignInv'
<1>0. CidInv /\ StoredInv /\ HeardInv /\ RowsApart
  BY DEF ForeignInv, CidInv
<1>1. ASSUME NEW i \in Retries, NEW r \in Sends \X {0}, StartRetry(i, r) PROVE ForeignInv'
  <2>1. /\ r \in RowIds /\ rows[r].name \notin Foreign /\ rows[r].cid.of \notin Foreign
        /\ NoCid \in Cids /\ NoCid.of \notin Foreign /\ NoName \notin Foreign
        /\ "sending" \in Statuses /\ UpdateStatus(r, "sending", NoName, NoCid)
    BY <1>0, <1>1, SendRow, Ids, ForeignIds DEF StartRetry, Statuses
  <2>2. RowsApart' /\ \A c \in Foreign : SameNamed(c)
    BY <1>0, <2>1, UpdateApart
  <2>3. Kept
    BY <1>1, <2>2, SameNamedKept DEF StartRetry, history, heard, tallies
  <2>4. \A j \in Calls : call'[j].cid.of \notin Foreign
    BY <1>0, <1>1, <2>1 DEF StartRetry, TypeOK, CidInv
  <2>5. CidInv'
    BY <1>0, <1>1, <2>2, <2>4 DEF StartRetry, CidInv, zalo, history, heard
  <2> QED BY <1>0, <1>1, <2>3, <2>5, KeptStored, KeptHeard
          DEF ForeignInv, StartRetry, history, heard
<1>2. ASSUME Kept, RowsApart', UNCHANGED <<call, pin, marks, cidOf, live, handled, missed>>
      PROVE  ForeignInv'
  BY <1>0, <1>2, KeptStored, KeptHeard DEF ForeignInv, CidInv
<1>3. ASSUME NEW x \in RowIds, MarkDeleted(x) PROVE ForeignInv'
  <2>1. \A r \in RowIds : /\ rows'[r].exists = rows[r].exists
                          /\ rows'[r].name = rows[r].name /\ rows'[r].cid = rows[r].cid
    BY <1>3 DEF MarkDeleted, TypeOK, RowSet
  <2>2. Kept /\ RowsApart'
    BY <1>0, <1>3, <2>1, SameNames DEF MarkDeleted, history, heard, tallies
  <2> QED BY <1>2, <1>3, <2>2 DEF MarkDeleted, process, zalo, history, heard
<1>4. ASSUME NEW p \in Names, NEW status \in {"delivered", "seen"}, Receipt(p, status)
      PROVE  ForeignInv'
  <2>1. \A r \in RowIds : /\ rows'[r].exists = rows[r].exists
                          /\ rows'[r].name = rows[r].name /\ rows'[r].cid = rows[r].cid
    BY <1>4 DEF Receipt, StatusByName, WithName, TypeOK, RowSet
  <2>2. Kept /\ RowsApart'
    BY <1>0, <1>4, <2>1, SameNames DEF Receipt, history, heard, tallies
  <2> QED BY <1>2, <1>4, <2>2 DEF Receipt, process, zalo, history, heard
<1>5. ASSUME NEW r \in RowIds, Delete(r) PROVE ForeignInv'
  <2>1. /\ \A q \in RowIds \ {r} : rows'[q] = rows[q]
        /\ rows'[r].name = rows[r].name /\ rows'[r].cid = rows[r].cid /\ Exists(r)
    BY <1>5 DEF Delete, TypeOK, RowSet
  <2>2. \A s \in Sends : <<s, 0>> \in RowIds
    BY Ids
  <2>3. RowsApart'
    BY <1>0, <2>1, <2>2 DEF RowsApart
  <2>4. rows[r].name \in deleted' /\ deleted \subseteq deleted'
    BY <1>5 DEF Delete
  <2>5. UNCHANGED <<inserts, engaged, unread, paused, past, muted>>
    BY <1>5 DEF Delete, heard, tallies
  <2>6. Kept
    BY <2>1, <2>4, <2>5 DEF Kept, Exists
  <2> QED BY <1>2, <1>5, <2>3, <2>6 DEF Delete, process, zalo, heard
<1>6. ASSUME \/ \E r \in RowIds : Sync(r)
             \/ MarkRead
      PROVE  ForeignInv'
  <2>1. Kept /\ RowsApart'
    BY <1>0, <1>6, SameRows DEF Sync, MarkRead, history, heard, tallies
  <2> QED BY <1>2, <1>6, <2>1 DEF Sync, MarkRead, process, zalo, history, heard
<1>7. ASSUME NEW k \in marks, Expire(k) PROVE ForeignInv'
  <2>1. Kept /\ RowsApart'
    BY <1>0, <1>7, SameRows DEF Expire, tables, heard, tallies
  <2>2. CidInv'
    BY <1>0, <1>7, <2>1 DEF Expire, CidInv, zalo, heard
  <2> QED BY <1>0, <1>7, <2>1, <2>2, KeptStored, KeptHeard DEF ForeignInv, Expire, heard
<1>8. ASSUME NEW p \in Names, Written(p) PROVE ForeignInv'
  <2>1. Kept /\ RowsApart'
    BY <1>0, <1>8, SameRows DEF Written, tables, history, heard, tallies
  <2>2. /\ Cid(p, "library").of = p /\ NoCid.of # p
        /\ \A q \in Names \ {p} : cidOf'[q] = cidOf[q]
        /\ cidOf'[p] = Cid(p, "library") /\ live' = live \cup {p}
        /\ handled' = handled /\ missed' = missed
    BY <1>8, Ids DEF Written, TypeOK, history, heard
  <2>3. p \in Foreign /\ \A c \in Foreign : c \in Names
    BY <1>8, ForeignIds DEF Written, Foreign
  <2>4. CidInv'
    BY <1>0, <1>8, <2>1, <2>2, <2>3 DEF Written, CidInv, process
  <2> QED BY <1>0, <2>1, <2>2, <2>4, KeptStored, KeptHeard DEF ForeignInv
<1>9. ASSUME NEW p \in Names, Redelivered(p) PROVE ForeignInv'
  <2>1. Kept /\ RowsApart'
    BY <1>0, <1>9, SameRows DEF Redelivered, tables, history, heard, tallies
  <2>2. CidInv' /\ handled' = handled
    BY <1>0, <1>9, <2>1 DEF Redelivered, CidInv, process, history, heard
  <2> QED BY <1>0, <2>1, <2>2, KeptStored, KeptHeard DEF ForeignInv
<1>10. ASSUME NEW p \in Names, Undo(p) PROVE \E r \in RowIds : MarkDeleted(r)
  BY <1>10 DEF Undo, WithName, WithCid
<1>11. ASSUME NEW r \in RowIds, Recall(r) PROVE MarkDeleted(r)
  BY <1>11 DEF Recall
<1> QED BY <1>1, <1>3, <1>4, <1>5, <1>6, <1>7, <1>8, <1>9, <1>10, <1>11, HistoryForeign
        DEF Incident

\* A message that is not stored is known, or was not handled.
LEMMA UnheardForeign ==
    ASSUME TypeOK, ForeignInv, NEW p \in Names, LiveRefused(p) \/ Dropped(p)
    PROVE  ForeignInv'
<1>0. CidInv /\ StoredInv /\ HeardInv /\ RowsApart
  BY DEF ForeignInv, CidInv
<1>1. /\ UNCHANGED <<rows, unread, call, pin, marks, cidOf, inserts, engaged, deleted,
                    paused, past, muted>>
      /\ live' \cup handled' \cup missed' \subseteq live \cup handled \cup missed
  BY DEF LiveRefused, Dropped, tables, process, tallies
<1>2. Kept /\ RowsApart'
  BY <1>0, <1>1, SameRows
<1>3. CidInv'
  BY <1>0, <1>1, <1>2 DEF CidInv
<1>4. ASSUME p \in Foreign, p \in handled', p \notin handled PROVE Acted(p)
  <2>1. PICK r \in Reconciled(p) : Refused(r, p, cidOf[p])
    BY <1>4 DEF LiveRefused, Dropped, Unnameable
  <2>2. p \in live
    BY DEF LiveRefused, Dropped
  <2>3. cidOf[p].of = p
    BY <1>0, <1>4, <2>2 DEF CidInv
  <2>4. r \in RowIds /\ Exists(r) /\ rows[r].cid = cidOf[p]
    BY <2>1 DEF Reconciled, WithCid
  <2>5. rows[r].name = p
    BY <1>0, <1>4, <2>3, <2>4 DEF RowsApart
  <2> QED BY <1>0, <1>4, <2>4, <2>5 DEF HeardInv, WithName
<1>5. \A c \in Foreign : c # p /\ c \in handled' => c \in handled
  BY DEF LiveRefused, Dropped
<1>6. \A c \in Foreign : (Acted(c) => Acted(c)') /\ (WithName(c)' # {} => WithName(c) # {})
  BY <1>1 DEF Acted, WithName, Exists
<1>7. HeardInv'
  BY <1>0, <1>4, <1>5, <1>6 DEF HeardInv
<1> QED BY <1>0, <1>2, <1>3, <1>7, KeptStored DEF ForeignInv

\* Nor do the runner, the switch and the death of the process.
LEMMA SwitchingForeign ==
    ASSUME TypeOK, ForeignInv, Switching
    PROVE  ForeignInv'
<1>0. CidInv /\ StoredInv /\ HeardInv /\ RowsApart
  BY DEF ForeignInv, CidInv
<1>1. CASE Crash
  <2>1. Kept /\ RowsApart'
    BY <1>0, <1>1, SameRows DEF Crash, tables, tallies
  <2>2. \A j \in Calls : call'[j].cid = call[j].cid
    BY <1>1 DEF Crash, TypeOK, CallSet
  <2>3. CidInv'
    BY <1>0, <1>1, <2>1, <2>2, ForeignIds DEF Crash, CidInv
  <2>4. handled' = handled
    BY <1>1 DEF Crash
  <2> QED BY <1>0, <2>1, <2>3, <2>4, KeptStored, KeptHeard DEF ForeignInv
<1>2. CASE UNCHANGED <<tables, process, zalo, history>>
  BY <1>2 DEF tables, process, zalo, history, heard, tallies, ForeignInv, CidInv, RowsApart,
              StoredInv, HeardInv, Acted, WithName, Exists
<1>3. ~ Crash => UNCHANGED <<tables, process, zalo, history>>
  BY DEF Switching, StartRunner, StopRunner, SwitchAutoReply
<1> QED BY <1>1, <1>2, <1>3

\* Nothing was written yet.
LEMMA ForeignInit == Init => ForeignInv
<1> SUFFICES ASSUME Init PROVE ForeignInv
  OBVIOUS
<1>1. \A r \in RowIds : rows[r].name = NoName /\ rows[r].cid = NoCid /\ ~ Exists(r)
  BY DEF Init, NoRow, Row, Exists
<1>2. \A s \in Sends : <<s, 0>> \in RowIds
  BY Ids
<1>3. RowsApart
  BY <1>1, <1>2, ForeignIds DEF RowsApart
<1>4. CidInv
  BY <1>3, ForeignIds, Ids DEF Init, CidInv
<1>5. Cardinality({p \in Customer : inserts[p] > 0}) \in Nat
  BY MessagesAssumption, FS_Subset, FS_CardinalityType
<1>6. StoredInv
  BY <1>5, Ids DEF Init, StoredInv
<1>7. HeardInv
  BY <1>1 DEF Init, HeardInv, WithName
<1> QED BY <1>4, <1>6, <1>7 DEF ForeignInv

\* Every step keeps the invariant of the foreign messages.
LEMMA ForeignStep == TypeOK /\ ForeignInv /\ [Next]_vars => ForeignInv'
<1> SUFFICES ASSUME TypeOK, ForeignInv, [Next]_vars PROVE ForeignInv'
  OBVIOUS
<1>1. CASE UNCHANGED vars
  BY <1>1 DEF vars, tables, process, zalo, history, heard, tallies, ForeignInv, CidInv, RowsApart,
              StoredInv, HeardInv, Acted, WithName, Exists
<1> QED BY <1>1, CallForeign, LiveForeign, UnheardForeign, IncidentForeign,
           SwitchingForeign DEF Next

\* However often the websocket delivers a message of the customer and the history brings it,
\* before, between or after, it is stored once, counted once and given to the bot once.
THEOREM CustomersAreStoredOnce == Spec => []InboundOnce
<1>1. TypeOK /\ ForeignInv => InboundOnce
  <2> SUFFICES ASSUME TypeOK, ForeignInv, NEW p \in Customer \ deleted
               PROVE  inserts[p] <= 1 /\ engaged[p] <= 1
    BY DEF ForeignInv, StoredInv, InboundOnce
  <2> QED BY Ids DEF ForeignInv, StoredInv, TypeOK
<1> QED BY <1>1, ForeignInit, ForeignStep, TypeCorrect, PTL DEF Spec

\* No mark, look-up or index swallows a message the live handler has seen: the customer's
\* was given to the bot, if it was on, and the phone's paused it, unless it came as history
\* first.
THEOREM NewsIsActedOn == Spec => []NewIsActedOn
<1>1. ForeignInv => NewIsActedOn
  BY Ids DEF ForeignInv, HeardInv, Acted, NewIsActedOn, Foreign
<1> QED BY <1>1, ForeignInit, ForeignStep, TypeCorrect, PTL DEF Spec

-----------------------------------------------------------------------------
(* The calls and their client ids *)

\* What the client ids of a send are, and what of them reaches Zalo.
LEMMA CidForms ==
    /\ \A i \in Names, form \in {"library", "prefixed", "stamp"} :
          Cid(i, form).of = i /\ Cid(i, form).form = form /\ Cid(i, form) # NoCid
          /\ Cid(i, form) \in Cids
    /\ NoCid.form = "none" /\ NoCid \in Cids
    /\ \A s \in Names : \A c \in SendCids(s) :
          c \in Cids /\ c.of = s /\ c # NoCid /\ Stamp(c) = Cid(s, "stamp")
    /\ \A s \in Sends : Cid(s, "stamp") \in SendCids(s)
    /\ \A s \in Bot : SendCids(s) = {Cid(s, "stamp")}
<1>1. \A i \in Names, form \in {"library", "prefixed", "stamp"} :
          Cid(i, form).of = i /\ Cid(i, form).form = form /\ Cid(i, form) # NoCid
          /\ Cid(i, form) \in Cids
  BY Ids DEF Cid, NoCid, Cids
<1>2. NoCid.form = "none" /\ NoCid \in Cids
  BY Ids DEF Cid, NoCid
<1>3. ASSUME NEW s \in Names, NEW c \in SendCids(s)
      PROVE  c \in Cids /\ c.of = s /\ c # NoCid /\ Stamp(c) = Cid(s, "stamp")
  <2>1. c = Cid(s, "stamp") \/ c = Cid(s, "prefixed")
    BY <1>3 DEF SendCids
  <2>2. Stamp(Cid(s, "stamp")) = Cid(s, "stamp") /\ Stamp(Cid(s, "prefixed")) = Cid(s, "stamp")
    BY <1>1 DEF Stamp
  <2> QED BY <1>1, <2>1, <2>2
<1>4. \A s \in Bot : SendCids(s) = {Cid(s, "stamp")}
  BY MessagesAssumption DEF SendCids
<1> QED BY <1>1, <1>2, <1>3, <1>4 DEF SendCids

\* A call that has begun keeps its row and its client id; one that is over stays so.
Steady ==
    /\ \A i \in Calls : call[i].pc # "idle" =>
          /\ call'[i].pc # "idle" /\ call'[i].row = call[i].row /\ call'[i].cid = call[i].cid
          /\ call[i].pc \in {"done", "refused", "failed", "dead"} => call'[i].pc = call[i].pc
    /\ \A p \in Names : cidOf[p] # NoCid => cidOf'[p] = cidOf[p]
    /\ early \subseteq early'

\* What a step leaves of the rows: who they are.
RowsSame ==
    \A q \in RowIds : /\ rows'[q].exists = rows[q].exists
                      /\ rows'[q].name = rows[q].name /\ rows'[q].cid = rows[q].cid

\* A step that is of no call and of no message.
Quiet ==
    /\ RowsSame /\ UNCHANGED <<call, pin, cidOf, early, deleted, paused>>
    /\ marks \cup gone \subseteq marks' \cup gone'
    /\ live' \cup handled' \cup missed' \subseteq live \cup handled \cup missed

\* An update that sets neither name nor client id.
LEMMA StatusOnly ==
    ASSUME TypeOK, NEW r \in RowIds, NEW status \in Statuses,
           UpdateStatus(r, status, NoName, NoCid)
    PROVE  RowsSame
<1>1. NoName \in Names \cup {NoName} /\ NoCid \in Cids
  BY Ids
<1> QED BY <1>1, UpdateRow DEF RowsSame

\* The other incidents are quiet.
LEMMA IncidentKinds ==
    ASSUME TypeOK, Incident
    PROVE  \/ \E i \in Retries, r \in Sends \X {0} : StartRetry(i, r)
           \/ \E p \in Names : Written(p) \/ History(p)
           \/ \E r \in RowIds : Delete(r)
           \/ Quiet
<1>1. ASSUME NEW x \in RowIds, MarkDeleted(x) PROVE Quiet
  <2>1. RowsSame
    BY <1>1 DEF MarkDeleted, RowsSame, TypeOK, RowSet
  <2> QED BY <1>1, <2>1 DEF MarkDeleted, Quiet, process, zalo, history, heard
<1>2. ASSUME NEW p \in Names, NEW status \in {"delivered", "seen"}, Receipt(p, status)
      PROVE  Quiet
  <2>1. RowsSame
    BY <1>2 DEF Receipt, StatusByName, RowsSame, TypeOK, RowSet
  <2> QED BY <1>2, <2>1 DEF Receipt, Quiet, process, zalo, history, heard
<1>3. ASSUME NEW k \in marks, Expire(k) PROVE Quiet
  BY <1>3 DEF Expire, Quiet, RowsSame, tables, zalo, heard
<1>4. ASSUME NEW p \in Names, Redelivered(p) PROVE Quiet
  BY <1>4 DEF Redelivered, Quiet, RowsSame, tables, process, history, heard
<1>5. ASSUME MarkRead \/ \E r \in RowIds : Sync(r) PROVE Quiet
  BY <1>5 DEF MarkRead, Sync, Quiet, RowsSame, process, zalo, history, heard
<1>6. ASSUME NEW p \in Names, Undo(p) PROVE \E r \in RowIds : MarkDeleted(r)
  BY <1>6 DEF Undo, WithName, WithCid
<1>7. ASSUME NEW r \in RowIds, Recall(r) PROVE MarkDeleted(r)
  BY <1>7 DEF Recall
<1> QED BY <1>1, <1>2, <1>3, <1>4, <1>5, <1>6, <1>7 DEF Incident

\* So is what is not stored, and a switch.
LEMMA BesidesKinds ==
    ASSUME Switching \/ \E p \in Names : LiveRefused(p) \/ Dropped(p)
    PROVE  Crash \/ Quiet
BY DEF Switching, StartRunner, StopRunner, SwitchAutoReply, LiveRefused, Dropped, Quiet, RowsSame,
       tables, process, zalo, history, heard

\* The kinds of steps.
LEMMA StepKinds ==
    ASSUME TypeOK, [Next]_vars
    PROVE  \/ \E i \in Operator, rich \in BOOLEAN : InsertOutbound(i, "prefixed", rich)
           \/ \E i \in Bot, rich \in BOOLEAN : InsertOutbound(i, "stamp", rich)
           \/ \E i \in Calls, current, taken \in BOOLEAN : Dispatch(i, current, taken)
           \/ \E i \in Calls : Answered(i) \/ Fails(i)
           \/ \E p \in Names : Live(p) \/ Written(p) \/ History(p)
           \/ \E i \in Retries, r \in Sends \X {0} : StartRetry(i, r)
           \/ \E r \in RowIds : Delete(r)
           \/ Crash
           \/ Quiet
<1>1. CASE UNCHANGED vars
  BY <1>1 DEF vars, tables, process, zalo, history, heard, Quiet, RowsSame
<1>2. ASSUME NEW i \in Calls, CallStep(i)
      PROVE  \/ \E j \in Operator, rich \in BOOLEAN : InsertOutbound(j, "prefixed", rich)
             \/ \E j \in Bot, rich \in BOOLEAN : InsertOutbound(j, "stamp", rich)
             \/ \E j \in Calls, current, taken \in BOOLEAN : Dispatch(j, current, taken)
             \/ \E j \in Calls : Answered(j) \/ Fails(j)
  BY <1>2 DEF CallStep, StartSend, StartAttachments, StartReply
<1> QED BY <1>1, <1>2, IncidentKinds, BesidesKinds DEF Next

\* No step takes back what a call has begun with.
LEMMA StepSteady ==
    ASSUME TypeOK, OwnInv, [Next]_vars
    PROVE  Steady
<1>1. ASSUME NEW i \in Sends, NEW form \in {"prefixed", "stamp"}, NEW rich \in BOOLEAN,
             InsertOutbound(i, form, rich)
      PROVE  Steady
  BY <1>1, Ids DEF InsertOutbound, Steady, TypeOK, zalo, history
<1>2. ASSUME NEW i \in Calls, NEW current \in BOOLEAN, NEW taken \in BOOLEAN,
             Dispatch(i, current, taken)
      PROVE  Steady
  <2>1. \A j \in Calls : /\ call'[j].row = call[j].row /\ call'[j].cid = call[j].cid
                         /\ j # i => call'[j].pc = call[j].pc
                         /\ call'[i].pc # "idle" /\ call[i].pc = "queued"
    BY <1>2, SetCallTypes DEF Dispatch
  <2>2. cidOf[i] = NoCid /\ i \in Names
    BY <2>1, Ids DEF OwnInv
  <2>3. \A p \in Names \ {i} : cidOf'[p] = cidOf[p]
    BY <1>2 DEF Dispatch, TypeOK
  <2> QED BY <1>2, <2>1, <2>2, <2>3 DEF Dispatch, Steady
<1>3. ASSUME NEW i \in Calls, Answered(i) \/ Fails(i) PROVE Steady
  <2>1. \A j \in Calls : /\ call'[j].row = call[j].row /\ call'[j].cid = call[j].cid
                         /\ j # i => call'[j].pc = call[j].pc
                         /\ call'[i].pc # "idle" /\ call[i].pc \in {"queued", "wired", "accepted"}
    BY <1>3, SetCallTypes DEF Answered, Fails, InFlight
  <2> QED BY <1>3, <2>1 DEF Answered, Fails, Steady, zalo
<1>4. ASSUME NEW p \in Names, Live(p) \/ History(p) PROVE Steady
  BY <1>4 DEF Live, History, Steady, process, zalo
<1>5. ASSUME NEW p \in Names, Written(p) PROVE Steady
  BY <1>5 DEF Written, Steady, TypeOK, tables, process, history
<1>6. ASSUME NEW i \in Retries, NEW r \in Sends \X {0}, StartRetry(i, r) PROVE Steady
  <2>1. i \in Calls
    BY DEF Calls
  <2> QED BY <1>6, <2>1 DEF StartRetry, Steady, TypeOK, zalo, history
<1>7. ASSUME NEW r \in RowIds, Delete(r) PROVE Steady
  BY <1>7 DEF Delete, Steady, process, zalo
<1>8. CASE Crash
  BY <1>8 DEF Crash, Steady, TypeOK, CallSet, InFlight
<1>9. CASE Quiet
  BY <1>9 DEF Quiet, Steady
<1> QED BY <1>1, <1>2, <1>3, <1>4, <1>5, <1>6, <1>7, <1>8, <1>9, StepKinds DEF Sends

\* Client ids that are in use stay so.
LEMMA LaunchedStays == ASSUME TypeOK, Steady PROVE Launched \subseteq Launched'
BY Ids DEF Launched, Steady

\* Who the rows of the sends are follows from who they were, if none is new.
LEMMA OwnFrame ==
    ASSUME TypeOK, OwnInv, Steady,
           \A s \in Sends : Exists(<<s, 0>>)' =>
               Exists(<<s, 0>>) /\ rows'[<<s, 0>>].cid \in SendCids(s),
           \A i \in Calls : call[i].pc = "idle" => call'[i] = call[i],
           \A i \in Calls : cidOf'[i] = cidOf[i],
           \A i \in Calls : call'[i].pc = "queued" => call[i].pc = "queued",
           pin'.by = {} \/ pin' = pin \/ (pin'.to = pin.to /\ pin.by # {})
    PROVE  OwnInv'
<1>1. \A s \in Sends : s \in Calls
  BY Ids
<1>2. \A s \in Sends : Exists(<<s, 0>>)' =>
          call'[s].pc # "idle" /\ rows'[<<s, 0>>].cid \in SendCids(s)
  BY <1>1 DEF OwnInv, Steady
<1>3. \A i \in Calls : call'[i].pc # "idle" =>
          call'[i].cid \in SendCids(call'[i].row[1]) /\ call'[call'[i].row[1]].pc # "idle"
  <2> SUFFICES ASSUME NEW i \in Calls, call'[i].pc # "idle"
               PROVE  call'[i].cid \in SendCids(call'[i].row[1])
                      /\ call'[call'[i].row[1]].pc # "idle"
    OBVIOUS
  <2>1. call[i].pc # "idle" /\ call'[i].row = call[i].row /\ call'[i].cid = call[i].cid
    BY DEF Steady
  <2>2. call[i].row[1] \in Calls
    BY <2>1, <1>1 DEF TypeOK
  <2> QED BY <2>1, <2>2 DEF OwnInv, Steady
<1>4. \A i \in Calls : cidOf'[i] \in {NoCid, Cid(i, "library")} \cup Launched'
                       /\ (call'[i].pc \in {"idle", "queued"} => cidOf'[i] = NoCid)
  <2> SUFFICES ASSUME NEW i \in Calls
               PROVE  cidOf'[i] \in {NoCid, Cid(i, "library")} \cup Launched'
                      /\ (call'[i].pc \in {"idle", "queued"} => cidOf'[i] = NoCid)
    OBVIOUS
  <2>1. cidOf'[i] = cidOf[i] /\ cidOf[i] \in {NoCid, Cid(i, "library")} \cup Launched'
    BY LaunchedStays DEF OwnInv
  <2>2. call'[i].pc \in {"idle", "queued"} => call[i].pc \in {"idle", "queued"}
    BY DEF Steady
  <2> QED BY <2>1, <2>2 DEF OwnInv
<1>5. pin'.by # {} => pin'.to \in Launched'
  BY LaunchedStays DEF OwnInv
<1> QED BY <1>2, <1>3, <1>4, <1>5 DEF OwnInv, SendCids

\* Rows that are who they were.
LEMMA OwnRows ==
    ASSUME TypeOK, OwnInv, NEW s \in Sends, RowsSame
    PROVE  Exists(<<s, 0>>)' => Exists(<<s, 0>>) /\ rows'[<<s, 0>>].cid \in SendCids(s)
<1>1. <<s, 0>> \in RowIds
  BY Ids
<1> QED BY <1>1 DEF OwnInv, RowsSame, Exists

\* A row that takes the name of the message whose client id it has.
Renamed(r, p) ==
    /\ r \in WithCid(cidOf[p])
    /\ \A q \in RowIds \ {r} : rows'[q] = rows[q]
    /\ rows'[r].exists /\ rows'[r].name = p /\ rows'[r].cid = cidOf[p]

\* A row that is inserted for a message.
Inserted(r, p) ==
    /\ WithName(p) = {} /\ WithCid(cidOf[p]) = {}
    /\ ~ Exists(r) /\ r \notin Sends \X {0} /\ r[1] = p
    /\ \A q \in RowIds \ {r} : rows'[q] = rows[q]
    /\ rows'[r].exists /\ rows'[r].name = p /\ rows'[r].cid = cidOf[p]

\* What the listener brings finds its row or gets one.
LEMMA EchoRows ==
    ASSUME TypeOK, NEW p \in Names, Live(p) \/ History(p)
    PROVE  \/ RowsSame /\ WithName(p) # {}
           \/ \E r \in RowIds : Renamed(r, p)
           \/ \E r \in RowIds : Inserted(r, p)
<1>0. cidOf[p] \in Cids /\ NoCid \in Cids /\ p \in Names \cup {NoName} /\ p # NoName
      /\ "sent" \in Statuses
  BY Ids DEF TypeOK, Statuses
<1>1. ASSUME NEW r \in WithCid(cidOf[p]), NEW cid \in {cidOf[p], NoCid},
             UpdateStatus(r, "sent", p, cid)
      PROVE  r \in RowIds /\ Renamed(r, p)
  <2>1. r \in RowIds /\ Exists(r) /\ rows[r].cid = cidOf[p] /\ cid \in Cids
    BY <1>0 DEF WithCid
  <2>2. /\ \A q \in RowIds \ {r} : rows'[q] = rows[q]
        /\ rows'[r].exists = rows[r].exists /\ rows'[r].name = p
        /\ rows'[r].cid = IF cid = NoCid THEN rows[r].cid ELSE cid
    BY <1>0, <1>1, <2>1, UpdateRow
  <2> QED BY <2>1, <2>2 DEF Renamed, Exists
<1>2. CASE Upsert(Direction(p), p)
  <2>1. ASSUME WithName(p) = {}, WithCid(cidOf[p]) = {}, Insert(Direction(p), p)
        PROVE  \E r \in RowIds : Inserted(r, p)
    <3>1. PICK r \in RowIds :
              /\ ~ Exists(r) /\ r \notin Sends \X {0} /\ r[1] = p
              /\ rows' = [rows EXCEPT ![r] = Row(Direction(p), p, cidOf[p], "delivered")]
      BY <2>1, InsertRow DEF Direction
    <3>2. /\ \A q \in RowIds \ {r} : rows'[q] = rows[q]
          /\ rows'[r].exists /\ rows'[r].name = p /\ rows'[r].cid = cidOf[p]
      BY <3>1 DEF Row, TypeOK
    <3> QED BY <2>1, <3>1, <3>2 DEF Inserted
  <2> QED BY <1>1, <1>2, <2>1, UpsertRow DEF RowsSame
<1>3. CASE Reconciled(p) # {} /\ Live(p)
  <2>1. PICK r \in Reconciled(p) : UpdateStatus(r, "sent", p, cidOf[p])
    BY <1>3 DEF Live
  <2> QED BY <1>1, <2>1 DEF Reconciled
<1> QED BY <1>2, <1>3 DEF Live, History

\* The answer names the row of its call; a refusal and a failure change no name.
LEMMA EndRows ==
    ASSUME TypeOK, OwnInv, NEW i \in Calls, Answered(i) \/ Fails(i)
    PROVE  LET r == call[i].row
               cid == Stamp(call[i].cid)
           IN  \/ RowsSame /\ call'[i].pc \in {"done", "refused", "failed"}
                  /\ (call'[i].pc = "done" => ~ Exists(r))
                  /\ (call'[i].pc = "refused" => call[i].pc = "accepted" /\ Refused(r, i, cid))
               \/ /\ call'[i].pc = "done" /\ ~ Refused(r, i, cid) /\ Exists(r) /\ rows'[r].exists
                  /\ \A q \in RowIds \ {r} : rows'[q] = rows[q]
                  /\ rows'[r].name = i /\ rows'[r].cid = cid
<1> DEFINE r == call[i].row
           cid == Stamp(call[i].cid)
<1>0. /\ call[i].pc # "idle" /\ r \in RowIds /\ i \in Names /\ NoCid \in Cids
      /\ "sent" \in Statuses /\ "failed" \in Statuses
  BY Ids DEF Answered, Fails, InFlight, TypeOK, Statuses
<1>1. cid \in Cids /\ cid # NoCid /\ i # NoName
  <2>1. r[1] \in Names /\ call[i].cid \in SendCids(r[1])
    BY <1>0, Ids DEF OwnInv, TypeOK
  <2>2. cid = Cid(r[1], "stamp")
    BY <2>1, CidForms
  <2> QED BY <1>0, <2>1, <2>2, CidForms, Ids
<1>2. CASE Fails(i)
  BY <1>0, <1>2, StatusOnly, SetCallTypes DEF Fails
<1>3. CASE Answered(i) /\ Refused(r, i, cid)
  <2>1. RowsSame
    BY <1>0, <1>3, StatusOnly DEF Answered, RowsSame
  <2> QED BY <1>0, <1>3, <2>1, SetCallTypes DEF Answered
<1>4. CASE Answered(i) /\ ~ Refused(r, i, cid)
  <2>1. UpdateStatus(r, "sent", i, cid) /\ call'[i].pc = "done"
    BY <1>0, <1>4, SetCallTypes DEF Answered
  <2>2. /\ \A q \in RowIds \ {r} : rows'[q] = rows[q]
        /\ ~ Exists(r) => rows' = rows
        /\ rows'[r].exists = rows[r].exists
        /\ Exists(r) => rows'[r].name = i /\ rows'[r].cid = cid
    <3> HIDE DEF r, cid
    <3> QED BY <1>0, <1>1, <2>1, UpdateRow
  <2>3. CASE Exists(r)
    <3>1. rows'[r].exists
      BY <2>2, <2>3 DEF Exists
    <3> QED BY <1>4, <2>1, <2>2, <2>3, <3>1
  <2>4. CASE ~ Exists(r)
    BY <2>1, <2>2, <2>4 DEF RowsSame
  <2> QED BY <2>3, <2>4
<1> QED BY <1>2, <1>3, <1>4

\* A call that has begun: its row is a send's, which has begun too.
LEMMA Begun ==
    ASSUME TypeOK, OwnInv, NEW i \in Calls, call[i].pc # "idle"
    PROVE  /\ call[i].row \in Sends \X {0} /\ call[i].row \in RowIds
           /\ call[i].row[1] \in Sends /\ call[i].row = <<call[i].row[1], 0>>
           /\ call[i].cid \in SendCids(call[i].row[1]) /\ call[i].cid \in Cids
           /\ Stamp(call[i].cid) = Cid(call[i].row[1], "stamp")
           /\ Stamp(call[i].cid) \in Launched /\ Stamp(call[i].cid).form = "stamp"
           /\ Stamp(call[i].cid) \in Cids /\ Stamp(call[i].cid) # NoCid
<1>1. call[i].row \in Sends \X {0} /\ call[i].row[1] \in Sends
      /\ call[i].row = <<call[i].row[1], 0>>
  BY DEF TypeOK
<1>2. call[i].cid \in SendCids(call[i].row[1]) /\ call[call[i].row[1]].pc # "idle"
  BY DEF OwnInv
<1>3. call[i].row[1] \in Names /\ call[i].row \in RowIds
  BY <1>1, Ids
<1>4. Stamp(call[i].cid) = Cid(call[i].row[1], "stamp") /\ call[i].cid \in Cids
  BY <1>2, <1>3, CidForms
<1> QED BY <1>1, <1>2, <1>3, <1>4, CidForms DEF Launched

\* The client ids in use are those of sends.
LEMMA LaunchedForm ==
    /\ \A c \in Launched : c.form = "stamp" /\ c.of \in Sends /\ c # NoCid
                           /\ c = Cid(c.of, "stamp") /\ call[c.of].pc # "idle"
    /\ \A i \in Names : Cid(i, "library") \notin Launched
BY Ids, CidForms DEF Launched

\* A send that begins has its own client id.
LEMMA BeginsOwn ==
    ASSUME TypeOK, OwnInv, Steady, NEW i \in Sends, NEW form \in {"prefixed", "stamp"},
           NEW rich \in BOOLEAN, InsertOutbound(i, form, rich), Cid(i, form) \in SendCids(i)
    PROVE  OwnInv'
<1>0. i \in Calls /\ <<i, 0>> \in RowIds /\ \A s \in Sends : s \in Calls /\ <<s, 0>> \in RowIds
  BY Ids
<1>1. /\ \A q \in RowIds \ {<<i, 0>>} : rows'[q] = rows[q]
      /\ rows'[<<i, 0>>].cid = Cid(i, form)
      /\ \A j \in Calls \ {i} : call'[j] = call[j]
      /\ call'[i].pc = "queued" /\ call'[i].row = <<i, 0>> /\ call'[i].cid = Cid(i, form)
      /\ UNCHANGED <<cidOf, pin>> /\ call[i].pc = "idle"
  BY <1>0 DEF InsertOutbound, TypeOK, zalo, Row
<1>2. \A s \in Sends : Exists(<<s, 0>>)' =>
          call'[s].pc # "idle" /\ rows'[<<s, 0>>].cid \in SendCids(s)
  <2> SUFFICES ASSUME NEW s \in Sends, s # i, Exists(<<s, 0>>)'
               PROVE  call'[s].pc # "idle" /\ rows'[<<s, 0>>].cid \in SendCids(s)
    BY <1>1
  <2>1. <<s, 0>> \in RowIds \ {<<i, 0>>} /\ s \in Calls \ {i}
    BY <1>0
  <2> QED BY <1>1, <2>1 DEF OwnInv, Exists
<1>3. \A j \in Calls : call'[j].pc # "idle" =>
          call'[j].cid \in SendCids(call'[j].row[1]) /\ call'[call'[j].row[1]].pc # "idle"
  <2> SUFFICES ASSUME NEW j \in Calls, j # i, call'[j].pc # "idle"
               PROVE  call'[j].cid \in SendCids(call'[j].row[1])
                      /\ call'[call'[j].row[1]].pc # "idle"
    BY <1>1
  <2>1. call'[j] = call[j] /\ call[j].row[1] \in Calls
    BY <1>0, <1>1, Begun
  <2> QED BY <1>1, <2>1 DEF OwnInv
<1>4. \A j \in Calls : cidOf'[j] \in {NoCid, Cid(j, "library")} \cup Launched'
                       /\ (call'[j].pc \in {"idle", "queued"} => cidOf'[j] = NoCid)
  BY <1>1, LaunchedStays DEF OwnInv
<1>5. pin'.by # {} => pin'.to \in Launched'
  BY <1>1, LaunchedStays DEF OwnInv
<1> QED BY <1>2, <1>3, <1>4, <1>5 DEF OwnInv, SendCids

\* What goes to Zalo is the client id of the call, or one the clock was pinned to.
LEMMA DispatchCid ==
    ASSUME TypeOK, OwnInv, NEW i \in Calls, NEW current \in BOOLEAN, NEW taken \in BOOLEAN,
           Dispatch(i, current, taken)
    PROVE  /\ call[i].pc = "queued" /\ cidOf[i] = NoCid
           /\ \A p \in Names \ {i} : cidOf'[p] = cidOf[p]
           /\ \/ /\ cidOf'[i] = Stamp(call[i].cid) /\ cidOf'[i] \in marks'
                 /\ pin'.to = cidOf'[i] /\ pin'.by # {}
              \/ cidOf'[i] = Cid(i, "library") /\ UNCHANGED <<pin, marks, gone>>
              \/ cidOf'[i] = pin.to /\ pin.by # {} /\ UNCHANGED <<pin, marks, gone>>
           /\ cidOf'[i] \in {Cid(i, "library")} \cup Launched
           /\ marks \cup gone \subseteq marks' \cup gone'
<1>1. call[i].pc = "queued" /\ cidOf[i] = NoCid /\ i \in Names
  BY Ids DEF Dispatch, OwnInv
<1>2. Stamp(call[i].cid) \in Launched
  BY <1>1, Begun
<1>3. /\ \A p \in Names \ {i} : cidOf'[p] = cidOf[p]
      /\ \/ /\ cidOf'[i] = Stamp(call[i].cid) /\ cidOf'[i] \in marks'
            /\ pin'.to = cidOf'[i] /\ pin'.by # {}
         \/ cidOf'[i] = ClockCid(i) /\ UNCHANGED <<pin, marks, gone>>
      /\ marks \cup gone \subseteq marks' \cup gone'
  <2>1. CASE ~ call[i].rich /\ current
    <3>1. /\ pin' = [to |-> Stamp(call[i].cid), by |-> pin.by \cup {i}]
          /\ marks' = marks \cup {Stamp(call[i].cid)}
          /\ gone' = gone \ {Stamp(call[i].cid)}
          /\ cidOf' = [cidOf EXCEPT ![i] = Stamp(call[i].cid)]
      BY <2>1 DEF Dispatch
    <3> QED BY <1>1, <3>1 DEF TypeOK
  <2>2. CASE ~ (~ call[i].rich /\ current)
    <3>1. cidOf' = [cidOf EXCEPT ![i] = ClockCid(i)] /\ UNCHANGED <<pin, marks, gone>>
      BY <2>2 DEF Dispatch
    <3> QED BY <1>1, <3>1 DEF TypeOK
  <2> QED BY <2>1, <2>2
<1>4. ClockCid(i) = Cid(i, "library") \/ (ClockCid(i) = pin.to /\ pin.by # {})
  BY DEF ClockCid
<1>5. pin.by # {} => pin.to \in Launched
  BY DEF OwnInv
<1> QED BY <1>1, <1>2, <1>3, <1>4, <1>5

\* A call that is sent.
LEMMA DispatchOwn ==
    ASSUME TypeOK, OwnInv, Steady, NEW i \in Calls, NEW current \in BOOLEAN,
           NEW taken \in BOOLEAN, Dispatch(i, current, taken)
    PROVE  OwnInv'
<1>1. /\ rows' = rows
      /\ \A j \in Calls : call'[j].row = call[j].row /\ call'[j].cid = call[j].cid
                          /\ (j # i => call'[j].pc = call[j].pc)
      /\ call'[i].pc \in {"wired", "accepted"}
  BY SetCallTypes DEF Dispatch, tables
<1>2. /\ i \in Names /\ \A j \in Calls : j \in Names
      /\ \A p \in Names \ {i} : cidOf'[p] = cidOf[p]
      /\ cidOf'[i] \in {Cid(i, "library")} \cup Launched'
  BY DispatchCid, LaunchedStays, Ids
<1>3. \A j \in Calls : cidOf'[j] \in {NoCid, Cid(j, "library")} \cup Launched'
                       /\ (call'[j].pc \in {"idle", "queued"} => cidOf'[j] = NoCid)
  <2> SUFFICES ASSUME NEW j \in Calls, j # i
               PROVE  cidOf'[j] \in {NoCid, Cid(j, "library")} \cup Launched'
                       /\ (call'[j].pc \in {"idle", "queued"} => cidOf'[j] = NoCid)
    BY <1>1, <1>2
  <2> QED BY <1>1, <1>2, LaunchedStays DEF OwnInv
<1>4. pin'.by # {} => pin'.to \in Launched'
  <2>1. \/ pin'.to = Stamp(call[i].cid)
        \/ pin' = pin
    BY DispatchCid
  <2> QED BY <2>1, Begun, DispatchCid, LaunchedStays DEF OwnInv
<1>5. \A s \in Sends : Exists(<<s, 0>>)' =>
          call'[s].pc # "idle" /\ rows'[<<s, 0>>].cid \in SendCids(s)
  <2>1. \A s \in Sends : s \in Calls
    BY Ids
  <2> QED BY <1>1, <2>1 DEF OwnInv, Exists, Steady
<1>6. \A j \in Calls : call'[j].pc # "idle" =>
          call'[j].cid \in SendCids(call'[j].row[1]) /\ call'[call'[j].row[1]].pc # "idle"
  <2> SUFFICES ASSUME NEW j \in Calls, call'[j].pc # "idle"
               PROVE  call'[j].cid \in SendCids(call'[j].row[1])
                      /\ call'[call'[j].row[1]].pc # "idle"
    OBVIOUS
  <2>1. call[j].pc # "idle"
    BY <1>1, DispatchCid
  <2>2. call[j].row[1] \in Calls /\ call[call[j].row[1]].pc # "idle"
    BY <2>1, Begun, Ids DEF OwnInv
  <2> QED BY <1>1, <2>1, <2>2 DEF OwnInv, Steady
<1> QED BY <1>3, <1>4, <1>5, <1>6 DEF OwnInv, SendCids

\* A retry has the client id of the row it takes up.
LEMMA RetryOwn ==
    ASSUME TypeOK, OwnInv, Steady, NEW i \in Retries, NEW r \in Sends \X {0}, StartRetry(i, r)
    PROVE  OwnInv'
<1>0. /\ r \in RowIds /\ r[1] \in Sends /\ r = <<r[1], 0>> /\ i \in Calls /\ i \notin Sends
      /\ \A s \in Sends : s \in Calls /\ <<s, 0>> \in RowIds
  BY Ids, MessagesAssumption DEF Calls
<1>1. RowsSame
  BY <1>0, StatusOnly DEF StartRetry, Statuses
<1>2. /\ \A j \in Calls \ {i} : call'[j] = call[j]
      /\ call'[i].pc = "queued" /\ call'[i].row = r /\ call'[i].cid = rows[r].cid
      /\ UNCHANGED <<cidOf, pin>> /\ call[i].pc = "idle" /\ Exists(r)
  BY <1>0 DEF StartRetry, TypeOK, zalo
<1>3. rows[r].cid \in SendCids(r[1]) /\ call[r[1]].pc # "idle"
  BY <1>0, <1>2 DEF OwnInv
<1>4. \A s \in Sends : Exists(<<s, 0>>)' =>
          call'[s].pc # "idle" /\ rows'[<<s, 0>>].cid \in SendCids(s)
  <2> SUFFICES ASSUME NEW s \in Sends, Exists(<<s, 0>>)'
               PROVE  call'[s].pc # "idle" /\ rows'[<<s, 0>>].cid \in SendCids(s)
    OBVIOUS
  <2>1. Exists(<<s, 0>>) /\ rows'[<<s, 0>>].cid \in SendCids(s)
    BY <1>1, OwnRows
  <2>2. call[s].pc # "idle" /\ call'[s] = call[s]
    BY <1>0, <1>2, <2>1 DEF OwnInv
  <2> QED BY <2>1, <2>2
<1>5. \A j \in Calls : call'[j].pc # "idle" =>
          call'[j].cid \in SendCids(call'[j].row[1]) /\ call'[call'[j].row[1]].pc # "idle"
  <2> SUFFICES ASSUME NEW j \in Calls, call'[j].pc # "idle"
               PROVE  call'[j].cid \in SendCids(call'[j].row[1])
                      /\ call'[call'[j].row[1]].pc # "idle"
    OBVIOUS
  <2>1. CASE j = i
    BY <1>0, <1>2, <1>3, <2>1 DEF Steady
  <2>2. CASE j # i
    <3>1. call'[j] = call[j] /\ call[j].row[1] \in Sends /\ call[call[j].row[1]].pc # "idle"
      BY <1>2, <2>2, Begun DEF OwnInv
    <3> QED BY <1>0, <1>2, <3>1 DEF OwnInv
  <2> QED BY <2>1, <2>2
<1>6. \A j \in Calls : cidOf'[j] \in {NoCid, Cid(j, "library")} \cup Launched'
                       /\ (call'[j].pc \in {"idle", "queued"} => cidOf'[j] = NoCid)
  BY <1>2, LaunchedStays DEF OwnInv
<1>7. pin'.by # {} => pin'.to \in Launched'
  BY <1>2, LaunchedStays DEF OwnInv
<1> QED BY <1>4, <1>5, <1>6, <1>7 DEF OwnInv, SendCids

\* Every step keeps calls, rows and client ids together.
LEMMA OwnStep == ASSUME TypeOK, OwnInv, [Next]_vars PROVE OwnInv'
<1>0. Steady /\ \A s \in Sends : s \in Calls /\ <<s, 0>> \in RowIds
  BY StepSteady, Ids
<1>1. ASSUME NEW i \in Operator, NEW rich \in BOOLEAN, InsertOutbound(i, "prefixed", rich)
      PROVE  OwnInv'
  <2>1. Cid(i, "prefixed") \in SendCids(i) /\ i \in Sends
    BY DEF SendCids, Sends
  <2> QED BY <1>0, <1>1, <2>1, BeginsOwn
<1>2. ASSUME NEW i \in Bot, NEW rich \in BOOLEAN, InsertOutbound(i, "stamp", rich)
      PROVE  OwnInv'
  <2>1. Cid(i, "stamp") \in SendCids(i) /\ i \in Sends
    BY DEF SendCids, Sends
  <2> QED BY <1>0, <1>2, <2>1, BeginsOwn
<1>3. ASSUME NEW i \in Calls, Answered(i) \/ Fails(i) PROVE OwnInv'
  <2>1. call[i].pc # "idle"
    BY <1>3 DEF Answered, Fails, InFlight
  <2>2. \A s \in Sends : Exists(<<s, 0>>)' =>
            Exists(<<s, 0>>) /\ rows'[<<s, 0>>].cid \in SendCids(s)
    <3> SUFFICES ASSUME NEW s \in Sends, Exists(<<s, 0>>)'
                 PROVE  Exists(<<s, 0>>) /\ rows'[<<s, 0>>].cid \in SendCids(s)
      OBVIOUS
    <3>1. CASE RowsSame
      BY <3>1, OwnRows
    <3>2. CASE /\ Exists(call[i].row) /\ rows'[call[i].row].exists
               /\ \A q \in RowIds \ {call[i].row} : rows'[q] = rows[q]
               /\ rows'[call[i].row].cid = Stamp(call[i].cid)
      <4>1. CASE call[i].row = <<s, 0>>
        <5>1. call[i].row[1] = s /\ Stamp(call[i].cid) = Cid(s, "stamp")
          BY <2>1, <4>1, Begun
        <5> QED BY <3>2, <4>1, <5>1, CidForms
      <4>2. CASE call[i].row # <<s, 0>>
        BY <1>0, <3>2, <4>2 DEF OwnInv, Exists
      <4> QED BY <4>1, <4>2
    <3> QED BY <1>3, <3>1, <3>2, EndRows
  <2>3. \A j \in Calls : /\ call'[j].row = call[j].row /\ call'[j].cid = call[j].cid
                         /\ j # i => call'[j].pc = call[j].pc
                         /\ call'[i].pc \notin {"idle", "queued"}
                         /\ call[j].pc = "idle" => call'[j] = call[j]
    <3>1. PICK pc \in {"done", "refused", "failed"} : SetCall(i, pc)
      BY <1>3 DEF Answered, Fails
    <3> QED BY <2>1, <3>1, SetCallTypes DEF SetCall, TypeOK
  <2>4. UNCHANGED cidOf /\ (pin'.by = {} \/ pin' = pin \/ (pin'.to = pin.to /\ pin.by # {}))
    BY <1>3 DEF Answered, Fails, Unpin, zalo, TypeOK
  <2> QED BY <1>0, <2>2, <2>3, <2>4, OwnFrame
<1>4. ASSUME NEW p \in Names, Live(p) \/ History(p) PROVE OwnInv'
  <2>1. \A s \in Sends : Exists(<<s, 0>>)' =>
            Exists(<<s, 0>>) /\ rows'[<<s, 0>>].cid \in SendCids(s)
    <3> SUFFICES ASSUME NEW s \in Sends, Exists(<<s, 0>>)'
                 PROVE  Exists(<<s, 0>>) /\ rows'[<<s, 0>>].cid \in SendCids(s)
      OBVIOUS
    <3>1. CASE RowsSame
      BY <3>1, OwnRows
    <3>2. ASSUME NEW r \in RowIds, Renamed(r, p)
          PROVE  Exists(<<s, 0>>) /\ rows'[<<s, 0>>].cid \in SendCids(s)
      BY <1>0, <3>2 DEF Renamed, WithCid, OwnInv, Exists
    <3>3. ASSUME NEW r \in RowIds, Inserted(r, p)
          PROVE  Exists(<<s, 0>>) /\ rows'[<<s, 0>>].cid \in SendCids(s)
      BY <1>0, <3>3 DEF Inserted, OwnInv, Exists
    <3> QED BY <1>4, <3>1, <3>2, <3>3, EchoRows
  <2>2. UNCHANGED <<call, cidOf, pin>>
    BY <1>4 DEF Live, History, process, zalo
  <2> QED BY <1>0, <2>1, <2>2, OwnFrame
<1>5. ASSUME RowsSame, UNCHANGED <<call, pin>>, \A i \in Calls : cidOf'[i] = cidOf[i]
      PROVE  OwnInv'
  BY <1>0, <1>5, OwnRows, OwnFrame
<1>6. ASSUME NEW p \in Names, Written(p) PROVE OwnInv'
  <2>1. \A i \in Calls : cidOf'[i] = cidOf[i]
    BY <1>6, Ids, ForeignIds DEF Written, TypeOK, Foreign
  <2> QED BY <1>5, <1>6, <2>1 DEF Written, RowsSame, tables, process
<1>7. ASSUME NEW r \in RowIds, Delete(r) PROVE OwnInv'
  <2>1. \A s \in Sends : Exists(<<s, 0>>)' =>
            Exists(<<s, 0>>) /\ rows'[<<s, 0>>].cid \in SendCids(s)
    BY <1>0, <1>7 DEF Delete, OwnInv, Exists, TypeOK, RowSet
  <2>2. UNCHANGED <<call, cidOf, pin>>
    BY <1>7 DEF Delete, process, zalo
  <2> QED BY <1>0, <2>1, <2>2, OwnFrame
<1>8. CASE Crash
  <2>1. UNCHANGED <<rows, cidOf>> /\ pin'.by = {}
    BY <1>8 DEF Crash, tables
  <2>2. \A s \in Sends : Exists(<<s, 0>>)' =>
            Exists(<<s, 0>>) /\ rows'[<<s, 0>>].cid \in SendCids(s)
    BY <2>1 DEF OwnInv, Exists
  <2>3. \A j \in Calls : /\ call[j].pc = "idle" => call'[j] = call[j]
                         /\ call'[j].pc # "queued"
    BY <1>8 DEF Crash, TypeOK, CallSet, InFlight
  <2> QED BY <1>0, <2>1, <2>2, <2>3, OwnFrame
<1>9. CASE Quiet
  BY <1>5, <1>9 DEF Quiet
<1> QED BY <1>0, <1>1, <1>2, <1>3, <1>4, <1>6, <1>7, <1>8, <1>9, DispatchOwn, RetryOwn, StepKinds

\* Nothing was sent yet.
LEMMA OwnInit == Init => OwnInv
<1> SUFFICES ASSUME Init PROVE OwnInv
  OBVIOUS
<1>1. \A s \in Sends : <<s, 0>> \in RowIds /\ ~ Exists(<<s, 0>>)
  BY Ids DEF Init, NoRow, Row, Exists
<1> QED BY <1>1, Ids DEF Init, OwnInv

-----------------------------------------------------------------------------
(* The marks of what was sent from here *)

\* Where nothing is sent or answered, the marks are still there or gone.
LEMMA MarkFrame ==
    ASSUME TypeOK, MarkInv, marks \cup gone \subseteq marks' \cup gone',
           \A i \in Calls : cidOf'[i] = cidOf[i],
           \A i \in Calls : call'[i].pc \in {"done", "refused"} =>
               \/ call[i].pc \in {"done", "refused"}
               \/ call[i].pc = "accepted" /\ i \in marks' \cup gone',
           \A i \in Calls : call'[i].pc = "accepted" => call[i].pc = "accepted",
           pin'.by = {} \/ pin' = pin \/ (pin'.to = pin.to /\ pin.by # {}),
           Calls \cap (live' \cup handled' \cup missed') \subseteq live \cup handled \cup missed
    PROVE  MarkInv'
BY DEF MarkInv

\* A step leaves every mark, or it is gone.
LEMMA MarkStep == ASSUME TypeOK, OwnInv, MarkInv, [Next]_vars PROVE MarkInv'
<1>1. ASSUME NEW i \in Sends, NEW form \in {"prefixed", "stamp"}, NEW rich \in BOOLEAN,
             InsertOutbound(i, form, rich)
      PROVE  MarkInv'
  <2>1. \A j \in Calls : call'[j].pc \in {"accepted", "done", "refused"} =>
            call'[j].pc = call[j].pc
    BY <1>1 DEF InsertOutbound, TypeOK
  <2> QED BY <1>1, <2>1, MarkFrame DEF InsertOutbound, zalo, history, heard
<1>2. ASSUME NEW i \in Calls, NEW current \in BOOLEAN, NEW taken \in BOOLEAN,
             Dispatch(i, current, taken)
      PROVE  MarkInv'
  <2>1. \A j \in Calls \ {i} : call'[j].pc = call[j].pc
    BY <1>2, SetCallTypes DEF Dispatch
  <2>2. live' \subseteq live \cup {i} /\ handled' = handled /\ missed' = missed
        /\ call'[i].pc \in {"wired", "accepted"}
    BY <1>2, SetCallTypes DEF Dispatch, heard
  <2>3. cidOf'[i] # NoCid /\ (cidOf'[i].form = "stamp" => cidOf'[i] \in marks' \cup gone')
    <3>1. /\ Cid(i, "library").form # "stamp" /\ Cid(i, "library") # NoCid
          /\ \A c \in Launched : c # NoCid
      BY CidForms, LaunchedForm, Ids
    <3> QED BY <1>2, <3>1, DispatchCid DEF MarkInv
  <2>4. \A j \in Calls \ {i} : cidOf'[j] = cidOf[j]
    BY <1>2, DispatchCid, Ids
  <2>5. marks \cup gone \subseteq marks' \cup gone'
    BY <1>2, DispatchCid
  <2>6. pin'.by # {} => pin'.to \in marks' \cup gone'
    BY <1>2, <2>5, DispatchCid DEF MarkInv
  <2> QED BY <2>1, <2>2, <2>3, <2>4, <2>5, <2>6 DEF MarkInv
<1>3. ASSUME NEW i \in Calls, Answered(i) \/ Fails(i) PROVE MarkInv'
  <2>1. call[i].pc # "idle"
    BY <1>3 DEF Answered, Fails, InFlight
  <2>2. PICK pc \in {"done", "refused", "failed"} :
            SetCall(i, pc) /\ (pc # "failed" => i \in marks')
    BY <1>3 DEF Answered, Fails
  <2>3. \A j \in Calls : call'[j].pc \in {"accepted", "done", "refused"} =>
            \/ call'[j].pc = call[j].pc
            \/ call[j].pc = "accepted" /\ j \in marks' \cup gone' /\ call'[j].pc # "accepted"
    BY <1>3, <2>1, <2>2, SetCallTypes DEF Answered, Fails
  <2>4. UNCHANGED <<cidOf, live, handled, missed>>
        /\ marks \cup gone \subseteq marks' \cup gone'
    BY <1>3 DEF Answered, Fails, zalo, heard
  <2>5. pin'.by = {} \/ pin' = pin \/ (pin'.to = pin.to /\ pin.by # {})
    BY <1>3 DEF Answered, Fails, Unpin, TypeOK
  <2> QED BY <2>3, <2>4, <2>5, MarkFrame
<1>4. ASSUME NEW p \in Names, Live(p) \/ History(p) PROVE MarkInv'
  BY <1>4, MarkFrame DEF Live, History, process, zalo, heard
<1>5. ASSUME NEW p \in Names, Written(p) PROVE MarkInv'
  <2>1. p \notin Calls /\ \A i \in Calls : i # p /\ i \in Names
    BY <1>5, Ids, ForeignIds DEF Written, Foreign
  <2>2. \A i \in Calls : cidOf'[i] = cidOf[i]
    BY <1>5, <2>1 DEF Written, TypeOK
  <2> QED BY <1>5, <2>1, <2>2, MarkFrame DEF Written, process, history, heard
<1>6. ASSUME NEW i \in Retries, NEW r \in Sends \X {0}, StartRetry(i, r) PROVE MarkInv'
  <2>1. \A j \in Calls : call'[j].pc \in {"accepted", "done", "refused"} =>
            call'[j].pc = call[j].pc
    BY <1>6 DEF StartRetry, TypeOK
  <2> QED BY <1>6, <2>1, MarkFrame DEF StartRetry, zalo, history, heard
<1>7. ASSUME NEW r \in RowIds, Delete(r) PROVE MarkInv'
  BY <1>7, MarkFrame DEF Delete, process, zalo, heard
<1>8. CASE Crash
  <2>1. \A j \in Calls : call'[j].pc \in {"accepted", "done", "refused"} =>
            call'[j].pc = call[j].pc
    BY <1>8 DEF Crash, TypeOK, CallSet, InFlight
  <2> QED BY <1>8, <2>1, MarkFrame DEF Crash
<1>9. CASE Quiet
  BY <1>9, MarkFrame DEF Quiet
<1> QED BY <1>1, <1>2, <1>3, <1>4, <1>5, <1>6, <1>7, <1>8, <1>9, StepKinds DEF Sends

\* Nothing was sent yet.
LEMMA MarkInit == Init => MarkInv
BY Ids, CidForms DEF Init, MarkInv

\* Nothing but the live handler pauses the bot.
LEMMA OnlyLivePauses ==
    ASSUME TypeOK, [Next]_vars, NEW i \in Calls, i \in paused' \ paused
    PROVE  i \in live /\ ~ Programmatic(i)
<1>1. \/ \E p \in Names : Live(p)
      \/ paused' = paused
  BY StepKinds DEF InsertOutbound, Dispatch, Answered, Fails, Written, History, StartRetry, Delete,
                   Crash, Quiet, history
<1>2. PICK p \in Names : Live(p)
  BY <1>1
<1> QED BY <1>2 DEF Live

\* The echo of what was sent from here, in whatever order the answer, the echo and the
\* history come, is taken for a reply of the operator only when its marks are gone.
THEOREM EchoesAreKnown == Spec => EchoIsNotOperator
<1>1. TypeOK /\ OwnInv /\ MarkInv /\ [Next]_vars =>
          \A i \in Calls \cap (paused' \ paused) :
             /\ Exact(i) => cidOf[i] \in gone
             /\ call[i].pc \in {"done", "refused"} => i \in gone
  <2> SUFFICES ASSUME TypeOK, OwnInv, MarkInv, [Next]_vars, NEW i \in Calls \cap (paused' \ paused)
               PROVE  /\ Exact(i) => cidOf[i] \in gone
                      /\ call[i].pc \in {"done", "refused"} => i \in gone
    OBVIOUS
  <2>1. i \in live /\ i \notin marks /\ cidOf[i] \notin marks
    BY OnlyLivePauses, Ids DEF Programmatic, Ours
  <2>2. call[i].pc # "idle"
    BY <2>1 DEF MarkInv, OwnInv
  <2>3. Exact(i) => cidOf[i].form = "stamp"
    BY <2>2, Begun DEF Exact
  <2> QED BY <2>1, <2>3 DEF MarkInv
<1> QED BY <1>1, OwnInit, OwnStep, MarkInit, MarkStep, TypeCorrect, TypeInit, TypeStep, PTL
        DEF Spec, EchoIsNotOperator

-----------------------------------------------------------------------------
(* The rows of what was sent from here *)

\* The row of a send that begins.
Started(i) ==
    /\ call[i].pc = "idle" /\ ~ Exists(<<i, 0>>)
    /\ \A q \in RowIds \ {<<i, 0>>} : rows'[q] = rows[q]
    /\ rows'[<<i, 0>>].exists /\ rows'[<<i, 0>>].name = NoName
    /\ rows'[<<i, 0>>].cid \in SendCids(i)

\* The answer names the row of its call.
Named(i) ==
    LET r == call[i].row
        cid == Stamp(call[i].cid)
    IN  /\ call[i].pc = "accepted" /\ call'[i].pc = "done"
        /\ Exists(r) /\ ~ Refused(r, i, cid)
        /\ \A q \in RowIds \ {r} : rows'[q] = rows[q]
        /\ rows'[r].exists /\ rows'[r].name = i /\ rows'[r].cid = cid

\* A row that goes.
Removed(r) ==
    /\ Exists(r) /\ ~ rows'[r].exists
    /\ \A q \in RowIds \ {r} : rows'[q] = rows[q]
    /\ rows[r].name \in deleted' /\ \A i \in Calls : call[i].row = r => i \in deleted'

\* The message of a call that comes back.
Echoed(p) ==
    cidOf[p] # NoCid /\ (p \in Calls /\ InFlight(p) => p \in early')

\* What a step may do to the rows.
LEMMA RowKinds ==
    ASSUME TypeOK, OwnInv, MarkInv, CidInv, [Next]_vars
    PROVE  \/ RowsSame
           \/ \E i \in Sends : Started(i)
           \/ \E i \in Calls : Named(i)
           \/ \E p \in Names, r \in RowIds : Echoed(p) /\ (Renamed(r, p) \/ Inserted(r, p))
           \/ \E r \in RowIds : Removed(r)
<1>1. ASSUME NEW i \in Sends, NEW form \in {"prefixed", "stamp"}, NEW rich \in BOOLEAN,
             InsertOutbound(i, form, rich), Cid(i, form) \in SendCids(i)
      PROVE  Started(i)
  <2>1. i \in Calls /\ <<i, 0>> \in RowIds /\ call[i].pc = "idle"
    BY <1>1, Ids DEF InsertOutbound
  <2>2. ~ Exists(<<i, 0>>)
    BY <2>1 DEF OwnInv
  <2> QED BY <1>1, <2>1, <2>2 DEF InsertOutbound, Started, Row, Exists, TypeOK
<1>2. \A i \in Operator : i \in Sends /\ Cid(i, "prefixed") \in SendCids(i)
  BY DEF SendCids, Sends
<1>3. \A i \in Bot : i \in Sends /\ Cid(i, "stamp") \in SendCids(i)
  BY DEF SendCids, Sends
<1>4. ASSUME NEW i \in Calls, Answered(i) \/ Fails(i) PROVE RowsSame \/ Named(i)
  <2>1. call'[i].pc = "done" => call[i].pc = "accepted"
    BY <1>4, SetCallTypes DEF Answered, Fails, InFlight
  <2> QED BY <1>4, <2>1, EndRows DEF Named
<1>5. ASSUME NEW p \in Names, Live(p) \/ History(p)
      PROVE  RowsSame \/ \E r \in RowIds : Echoed(p) /\ (Renamed(r, p) \/ Inserted(r, p))
  <2>1. cidOf[p] # NoCid
    <3>1. p \in Calls \/ p \in Foreign
      BY ForeignIds
    <3> QED BY <1>5, <3>1 DEF Live, History, MarkInv, CidInv
  <2>2. Echoed(p)
    BY <1>5, <2>1 DEF Echoed, Live, History
  <2> QED BY <1>5, <2>2, EchoRows
<1>6. ASSUME NEW i \in Retries, NEW r \in Sends \X {0}, StartRetry(i, r) PROVE RowsSame
  BY <1>6, StatusOnly, Ids DEF StartRetry, Statuses
<1>7. ASSUME NEW r \in RowIds, Delete(r) PROVE Removed(r)
  BY <1>7 DEF Delete, Removed, Exists, TypeOK, RowSet
<1>8. ASSUME UNCHANGED rows PROVE RowsSame
  BY <1>8 DEF RowsSame
<1> QED BY <1>1, <1>2, <1>3, <1>4, <1>5, <1>6, <1>7, <1>8, StepKinds
        DEF Dispatch, Written, Crash, Quiet, tables

\* What a step may do to a call.
LEMMA CallKinds ==
    ASSUME TypeOK, OwnInv, [Next]_vars, NEW i \in Calls
    PROVE  /\ call'[i].pc # "idle" /\ call[i].pc = "idle" =>
                  call'[i].pc = "queued" /\ rows'[call'[i].row].exists
           /\ call'[i].pc = "done" /\ call[i].pc # "done" =>
                  Named(i) \/ (RowsSame /\ ~ Exists(call[i].row))
           /\ call'[i].pc = "refused" /\ call[i].pc # "refused" =>
                  /\ call[i].pc = "accepted" /\ RowsSame
                  /\ Refused(call[i].row, i, Stamp(call[i].cid))
           /\ deleted \subseteq deleted'
<1> DEFINE Goal == /\ call'[i].pc # "idle" /\ call[i].pc = "idle" =>
                          call'[i].pc = "queued" /\ rows'[call'[i].row].exists
                   /\ call'[i].pc = "done" /\ call[i].pc # "done" =>
                          Named(i) \/ (RowsSame /\ ~ Exists(call[i].row))
                   /\ call'[i].pc = "refused" /\ call[i].pc # "refused" =>
                          /\ call[i].pc = "accepted" /\ RowsSame
                          /\ Refused(call[i].row, i, Stamp(call[i].cid))
                   /\ deleted \subseteq deleted'
<1>1. ASSUME NEW j \in Sends, NEW form \in {"prefixed", "stamp"}, NEW rich \in BOOLEAN,
             InsertOutbound(j, form, rich)
      PROVE  Goal
  <2>1. j \in Calls /\ <<j, 0>> \in RowIds
    BY Ids
  <2> QED BY <1>1, <2>1 DEF InsertOutbound, Row, TypeOK, history
<1>2. ASSUME NEW j \in Calls, NEW current \in BOOLEAN, NEW taken \in BOOLEAN,
             Dispatch(j, current, taken)
      PROVE  Goal
  <2>1. \A k \in Calls : call'[k].pc = call[k].pc
                         \/ (call[k].pc = "queued" /\ call'[k].pc \in {"wired", "accepted"})
    BY <1>2, SetCallTypes DEF Dispatch
  <2> QED BY <1>2, <2>1 DEF Dispatch
<1>3. ASSUME NEW j \in Calls, Answered(j) \/ Fails(j) PROVE Goal
  <2>1. \A k \in Calls \ {j} : call'[k].pc = call[k].pc
    BY <1>3, SetCallTypes DEF Answered, Fails, InFlight
  <2>2. deleted' = deleted /\ call[j].pc # "idle"
        /\ (call'[j].pc = "done" => call[j].pc = "accepted")
    BY <1>3, SetCallTypes DEF Answered, Fails, InFlight
  <2>3. i = j => Goal
    BY <1>3, <2>2, EndRows DEF Named
  <2> QED BY <2>1, <2>2, <2>3
<1>4. ASSUME NEW p \in Names, Live(p) \/ History(p) \/ Written(p) PROVE Goal
  BY <1>4 DEF Live, History, Written, process, history
<1>5. ASSUME NEW j \in Retries, NEW r \in Sends \X {0}, StartRetry(j, r) PROVE Goal
  <2>1. r \in RowIds /\ j \in Calls
    BY Ids DEF Calls
  <2>2. RowsSame
    BY <1>5, <2>1, StatusOnly DEF StartRetry, Statuses
  <2>3. rows'[r].exists
    BY <1>5, <2>1, <2>2 DEF StartRetry, RowsSame, Exists
  <2> QED BY <1>5, <2>1, <2>3 DEF StartRetry, TypeOK, history
<1>6. ASSUME NEW r \in RowIds, Delete(r) PROVE Goal
  BY <1>6 DEF Delete, process
<1>7. CASE Crash
  BY <1>7 DEF Crash, TypeOK, CallSet, InFlight
<1>8. CASE Quiet
  BY <1>8 DEF Quiet
<1>9. Goal
  BY <1>1, <1>2, <1>3, <1>4, <1>5, <1>6, <1>7, <1>8, StepKinds DEF Sends
<1> QED BY <1>9

\* The client ids of rows, by what they are rows of.
LEMMA RowCids ==
    ASSUME TypeOK, OwnInv, CidInv, RowInv, NEW q \in RowIds, Exists(q)
    PROVE  /\ rows[q].cid # NoCid
           /\ \A s \in Sends : rows[q].cid \in SendCids(s) =>
                  call[s].pc # "idle" /\ (q = <<s, 0>> \/ q \notin Sends \X {0})
<1>1. CASE q \in Sends \X {0}
  <2>1. PICK t \in Sends : q = <<t, 0>>
    BY <1>1
  <2>2. call[t].pc # "idle" /\ rows[q].cid \in SendCids(t)
    BY <2>1 DEF OwnInv
  <2>3. t \in Names /\ \A s \in Sends : s \in Names
    BY Ids
  <2> QED BY <2>1, <2>2, <2>3, CidForms
<1>2. CASE q \notin Sends \X {0}
  <2>1. rows[q].cid = cidOf[q[1]] /\ cidOf[q[1]] # NoCid /\ q[1] \in Names
    BY <1>2, Ids DEF RowInv, RowIds
  <2>2. ASSUME NEW s \in Sends, rows[q].cid \in SendCids(s) PROVE call[s].pc # "idle"
    <3>1. s \in Names /\ s \in Calls
      BY Ids
    <3>2. rows[q].cid.of = s /\ rows[q].cid \in {Cid(s, "stamp"), Cid(s, "prefixed")}
      BY <2>2, <3>1, CidForms DEF SendCids
    <3>3. CASE q[1] \in Calls
      <4>1. cidOf[q[1]] = Cid(q[1], "library") \/ cidOf[q[1]] \in Launched
        BY <2>1, <3>3 DEF OwnInv
      <4>2. cidOf[q[1]] \in Launched
        BY <2>1, <3>1, <3>2, <4>1, CidForms
      <4> QED BY <2>1, <3>2, <4>2, LaunchedForm
    <3>4. CASE q[1] \in Foreign
      BY <2>1, <3>1, <3>2, <3>4, ForeignIds DEF CidInv
    <3> QED BY <2>1, <3>3, <3>4, ForeignIds
  <2> QED BY <1>2, <2>1, <2>2
<1> QED BY <1>1, <1>2

\* A call whose message went out has begun.
LEMMA SentBegun ==
    ASSUME OwnInv, NEW i \in Calls, cidOf[i] # NoCid PROVE call[i].pc \notin {"idle", "queued"}
BY DEF OwnInv

\* Every step keeps one row for a client id, and what names a row.
LEMMA RowStep ==
    ASSUME TypeOK, OwnInv, MarkInv, CidInv, RowInv, [Next]_vars PROVE RowInv'
<1>0. /\ Steady
      /\ \A i \in Calls : cidOf[i] # NoCid => call'[i].row = call[i].row
      /\ \A i \in Calls : i \in Names
      /\ \A q \in RowIds : q[1] \in Names
  BY StepSteady, SentBegun, Ids DEF Steady, RowIds
<1>1. CASE RowsSame
  BY <1>0, <1>1 DEF RowInv, RowsSame, Exists, Steady
<1>2. ASSUME NEW i \in Sends, Started(i) PROVE RowInv'
  <2>1. /\ <<i, 0>> \in RowIds /\ i \in Names /\ NoName \notin Names
        /\ rows'[<<i, 0>>].cid \in SendCids(i) /\ call[i].pc = "idle"
        /\ \A q \in RowIds \ {<<i, 0>>} : rows'[q] = rows[q]
        /\ rows'[<<i, 0>>].name = NoName /\ <<i, 0>> \in Sends \X {0}
    BY <1>2, Ids DEF Started
  <2>2. \A q \in RowIds \ {<<i, 0>>} : Exists(q) => rows[q].cid # rows'[<<i, 0>>].cid
    BY <2>1, RowCids
  <2>3. \A q \in RowIds \ {<<i, 0>>} : Exists(q)' <=> Exists(q)
    BY <2>1 DEF Exists
  <2> QED BY <1>0, <2>1, <2>2, <2>3 DEF RowInv, Steady
<1>3. ASSUME NEW i \in Calls, Named(i) PROVE RowInv'
  <2> DEFINE r == call[i].row
             cid == Stamp(call[i].cid)
  <2>1. call[i].pc = "accepted" /\ r \in RowIds /\ r \in Sends \X {0} /\ cidOf[i] # NoCid
    BY <1>3, Begun DEF Named, MarkInv
  <2>2. /\ \A q \in RowIds \ {r} : rows'[q] = rows[q]
        /\ rows'[r].name = i /\ rows'[r].cid = cid /\ Exists(r)
        /\ \A q \in RowIds \ {r} : Exists(q) => rows[q].cid # cid
    BY <1>3 DEF Named, Refused, WithCid
  <2>3. \A q \in RowIds \ {r} : Exists(q)' <=> Exists(q)
    BY <2>2 DEF Exists
  <2>4. call'[i].row = r
    BY <1>0, <2>1
  <2> HIDE DEF r, cid
  <2> QED BY <1>0, <2>1, <2>2, <2>3, <2>4 DEF RowInv, Steady
<1>4. ASSUME NEW p \in Names, NEW r \in RowIds, Echoed(p), Renamed(r, p) PROVE RowInv'
  <2>1. /\ \A q \in RowIds \ {r} : rows'[q] = rows[q]
        /\ rows'[r].name = p /\ rows'[r].cid = rows[r].cid /\ rows[r].cid = cidOf[p]
        /\ \A q \in RowIds : Exists(q)' <=> Exists(q)
        /\ cidOf[p] # NoCid
    BY <1>4 DEF Renamed, WithCid, Exists, Echoed
  <2> QED BY <1>0, <2>1 DEF RowInv, Steady
<1>5. ASSUME NEW p \in Names, NEW r \in RowIds, Echoed(p), Inserted(r, p) PROVE RowInv'
  <2>1. /\ \A q \in RowIds \ {r} : rows'[q] = rows[q]
        /\ rows'[r].name = p /\ rows'[r].cid = cidOf[p] /\ r[1] = p
        /\ \A q \in RowIds : Exists(q) => rows[q].cid # cidOf[p]
        /\ cidOf[p] # NoCid
    BY <1>5 DEF Inserted, WithCid, Echoed
  <2>2. \A q \in RowIds \ {r} : Exists(q)' <=> Exists(q)
    BY <2>1 DEF Exists
  <2> QED BY <1>0, <2>1, <2>2 DEF RowInv, Steady
<1>6. ASSUME NEW r \in RowIds, Removed(r) PROVE RowInv'
  <2>1. /\ \A q \in RowIds : Exists(q)' => Exists(q) /\ rows'[q] = rows[q]
    BY <1>6 DEF Removed, Exists
  <2> QED BY <1>0, <2>1 DEF RowInv, Steady
<1> QED BY <1>1, <1>2, <1>3, <1>4, <1>5, <1>6, RowKinds

\* There is no row yet.
LEMMA NoRows == Init => \A q \in RowIds : ~ Exists(q)
BY DEF Init, NoRow, Row, Exists

\* What the rows of the sends become, once they are there.
LEMMA SendRows ==
    ASSUME TypeOK, OwnInv, MarkInv, CidInv, [Next]_vars, NEW i \in Calls, call[i].pc # "idle"
    PROVE  /\ Exists(call[i].row) =>
                  rows'[call[i].row].exists \/ i \in deleted'
           /\ rows'[call[i].row].exists => Exists(call[i].row)
           /\ rows'[call[i].row].exists =>
                  \/ rows'[call[i].row].cid = rows[call[i].row].cid
                  \/ rows'[call[i].row].cid = Stamp(call[i].cid)
<1> DEFINE r == call[i].row
<1>1. /\ r \in RowIds /\ r \in Sends \X {0} /\ call[r[1]].pc # "idle" /\ r = <<r[1], 0>>
      /\ Stamp(call[i].cid) = Cid(r[1], "stamp")
  BY Begun DEF OwnInv
<1>2. CASE RowsSame
  BY <1>1, <1>2 DEF RowsSame, Exists
<1>3. ASSUME NEW j \in Sends, Started(j), r = <<j, 0>> PROVE FALSE
  BY <1>1, <1>3 DEF Started
<1>4. ASSUME NEW j \in Calls, Named(j), r = call[j].row
      PROVE  Exists(r) /\ rows'[r].exists /\ rows'[r].cid = Stamp(call[i].cid)
  BY <1>1, <1>4, Begun DEF Named
<1>5. ASSUME NEW p \in Names, Renamed(r, p)
      PROVE  Exists(r) /\ rows'[r].exists /\ rows'[r].cid = rows[r].cid
  <2> HIDE DEF r
  <2> QED BY <1>5 DEF Renamed, WithCid, Exists
<1>6. ASSUME NEW p \in Names, Inserted(r, p) PROVE FALSE
  BY <1>1, <1>6 DEF Inserted
<1>7. ASSUME Removed(r) PROVE i \in deleted' /\ ~ rows'[r].exists
  <2>1. Removed(r) => (\A j \in Calls : call[j].row = r => j \in deleted')
    BY DEF Removed
  <2>2. \A q : Removed(q) => ~ rows'[q].exists
    BY DEF Removed, Exists
  <2> QED BY <1>7, <2>1, <2>2
<1>8. ASSUME NEW q \in RowIds, q # r,
             \A t \in RowIds \ {q} : rows'[t] = rows[t]
      PROVE  rows'[r] = rows[r]
  BY <1>1, <1>8
<1>9. ASSUME rows'[r] = rows[r]
      PROVE  /\ Exists(r) => rows'[r].exists
             /\ rows'[r].exists => Exists(r)
  BY <1>9 DEF Exists
<1> HIDE DEF r
<1>10. CASE \E j \in Sends : Started(j)
  <2>1. PICK j \in Sends : Started(j)
    BY <1>10
  <2>2. r # <<j, 0>> /\ <<j, 0>> \in RowIds
    BY <1>3, <2>1, Ids
  <2>3. rows'[r] = rows[r]
    BY <1>8, <2>1, <2>2 DEF Started
  <2> QED BY <1>9, <2>3 DEF r
<1>11. CASE \E j \in Calls : Named(j)
  <2>1. PICK j \in Calls : Named(j)
    BY <1>11
  <2>2. call[j].row \in RowIds
    BY <2>1, Begun DEF Named
  <2>3. CASE r = call[j].row
    BY <1>4, <2>1, <2>3 DEF r
  <2>4. CASE r # call[j].row
    <3>1. rows'[r] = rows[r]
      BY <1>8, <2>1, <2>2, <2>4 DEF Named
    <3> QED BY <1>9, <3>1 DEF r
  <2> QED BY <2>3, <2>4
<1>12. CASE \E p \in Names, q \in RowIds : Renamed(q, p) \/ Inserted(q, p)
  <2>1. PICK p \in Names, q \in RowIds : Renamed(q, p) \/ Inserted(q, p)
    BY <1>12
  <2>2. CASE q = r
    BY <1>5, <1>6, <2>1, <2>2 DEF r
  <2>3. CASE q # r
    <3>1. rows'[r] = rows[r]
      BY <1>8, <2>1, <2>3 DEF Renamed, Inserted
    <3> QED BY <1>9, <3>1 DEF r
  <2> QED BY <2>2, <2>3
<1>13. CASE \E q \in RowIds : Removed(q)
  <2>1. PICK q \in RowIds : Removed(q)
    BY <1>13
  <2>2. CASE q = r
    BY <1>7, <2>1, <2>2 DEF r
  <2>3. CASE q # r
    <3>1. rows'[r] = rows[r]
      BY <1>8, <2>1, <2>3 DEF Removed
    <3> QED BY <1>9, <3>1 DEF r
  <2> QED BY <2>2, <2>3
<1> QED BY <1>2, <1>10, <1>11, <1>12, <1>13, RowKinds

\* The row of a call stays until it is deleted, with the client id of its answer.
LEMMA StandStep ==
    ASSUME TypeOK, OwnInv, MarkInv, CidInv, StandInv, [Next]_vars PROVE StandInv'
<1>0. Steady
  BY StepSteady
<1>1. ASSUME NEW i \in Calls \ deleted', call'[i].pc # "idle" PROVE rows'[call'[i].row].exists
  <2>1. CASE call[i].pc = "idle"
    BY <1>1, <2>1, CallKinds
  <2>2. CASE call[i].pc # "idle"
    <3>1. Exists(call[i].row)
      BY <1>1, <2>2, CallKinds DEF StandInv
    <3> QED BY <1>0, <1>1, <2>2, <3>1, SendRows DEF Steady
  <2> QED BY <2>1, <2>2
<1>2. ASSUME NEW i \in Calls, call'[i].pc = "done", rows'[call'[i].row].exists
      PROVE  rows'[call'[i].row].cid = Stamp(call'[i].cid)
  <2>1. call[i].pc # "idle"
    BY <1>2, CallKinds
  <2>2. call'[i].row = call[i].row /\ call'[i].cid = call[i].cid /\ Exists(call[i].row)
    BY <1>0, <1>2, <2>1, SendRows DEF Steady
  <2>3. CASE call[i].pc = "done"
    BY <1>2, <2>1, <2>2, <2>3, SendRows DEF StandInv
  <2>4. CASE Named(i)
    BY <2>2, <2>4 DEF Named
  <2> QED BY <1>2, <2>2, <2>3, <2>4, CallKinds
<1> QED BY <1>1, <1>2 DEF StandInv, Exists

\* What displaced a send stays what it is.
LEMMA DisplacedStays ==
    ASSUME TypeOK, OwnInv, Steady, NEW s \in Sends, Displaced(s) PROVE Displaced(s)'
<1>1. s \in Names /\ Cid(s, "stamp") # NoCid
  BY Ids, CidForms
<1>2. PICK j \in Calls : /\ cidOf[j] = Cid(s, "stamp")
                         /\ \/ j \in early
                            \/ call[j].pc \in {"failed", "dead"}
                            \/ call[j].row # <<s, 0>>
  BY DEF Displaced
<1>3. call[j].pc # "idle" /\ j \in Names
  BY <1>1, <1>2, SentBegun, Ids
<1>4. /\ cidOf'[j] = cidOf[j] /\ call'[j].row = call[j].row /\ (j \in early => j \in early')
      /\ call[j].pc \in {"failed", "dead"} => call'[j].pc = call[j].pc
  BY <1>1, <1>2, <1>3 DEF Steady
<1>5. Cid(s, "stamp") = Cid(s, "stamp")'
  BY DEF Cid
<1> QED BY <1>2, <1>4 DEF Displaced, Cid

\* A row that is inserted with the client id of a send displaces it.
LEMMA InsertedDisplaces ==
    ASSUME TypeOK, OwnInv, MarkInv, CidInv, StandInv, PlaceInv, Steady, NEW s \in Operator,
           NEW p \in Names, NEW r \in RowIds, Echoed(p), Inserted(r, p),
           Exists(<<s, 0>>), cidOf[p] = Cid(s, "stamp")
    PROVE  Displaced(s)'
<1>1. s \in Sends /\ s \in Names /\ Cid(s, "stamp") # NoCid /\ Cid(s, "stamp").of = s
      /\ <<s, 0>> \in RowIds /\ s \in Calls
  BY Ids, CidForms DEF Sends
<1>2. p \in Calls
  BY <1>1, ForeignIds DEF CidInv
<1>3. call[p].pc \notin {"idle", "queued"}
  BY <1>1, <1>2, SentBegun
<1>4. cidOf'[p] = Cid(s, "stamp") /\ call'[p].row = call[p].row
  BY <1>1, <1>2, <1>3 DEF Steady
<1>5. CASE call[p].row # <<s, 0>> \/ InFlight(p)
  BY <1>2, <1>4, <1>5 DEF Echoed, Displaced, Cid
<1>6. CASE call[p].pc \in {"failed", "dead"}
  BY <1>2, <1>3, <1>4, <1>6 DEF Steady, Displaced, Cid
<1>7. CASE call[p].row = <<s, 0>> /\ call[p].pc = "done"
  <2>1. Stamp(call[p].cid) = Cid(s, "stamp")
    BY <1>2, <1>3, <1>7, Begun
  <2>2. rows[<<s, 0>>].cid = cidOf[p]
    BY <1>2, <1>7, <2>1 DEF StandInv
  <2> QED BY <1>1, <2>2 DEF Inserted, WithCid
<1>8. CASE call[p].row = <<s, 0>> /\ call[p].pc = "refused"
  <2>1. CASE Displaced(s)
    BY <1>1, <2>1, DisplacedStays
  <2>2. CASE p \in early
    BY <1>2, <1>4, <2>2 DEF Displaced, Steady, Cid
  <2> QED BY <1>2, <1>8, <2>1, <2>2 DEF PlaceInv, RefusedFor
<1>9. call[p].pc \in {"wired", "accepted", "done", "refused", "failed", "dead"}
  BY <1>2, <1>3 DEF TypeOK, CallSet
<1> QED BY <1>5, <1>6, <1>7, <1>8, <1>9 DEF InFlight

\* The unique index refuses the client id of an answer only where another row has it.
LEMMA CidDisplaced ==
    ASSUME TypeOK, OwnInv, RowInv, PlaceInv, NEW i \in Calls, call[i].pc = "accepted",
           Exists(call[i].row), NEW q \in WithCid(Stamp(call[i].cid)), q # call[i].row
    PROVE  call[i].row[1] \in Operator /\ Displaced(call[i].row[1])
<1> DEFINE s == call[i].row[1]
<1>1. /\ s \in Sends /\ call[i].row = <<s, 0>> /\ Stamp(call[i].cid) = Cid(s, "stamp")
      /\ s \in Names /\ <<s, 0>> \in RowIds
  BY Begun, Ids
<1> HIDE DEF s
<1>2. Exists(<<s, 0>>)
  BY <1>1
<1>3. q \in RowIds /\ Exists(q) /\ rows[q].cid = Cid(s, "stamp") /\ q # <<s, 0>>
  BY <1>1 DEF WithCid
<1>4. q \notin Sends \X {0}
  <2> SUFFICES ASSUME NEW t \in Sends, q = <<t, 0>> PROVE FALSE
    OBVIOUS
  <2>1. rows[q].cid \in SendCids(t) /\ t \in Names
    BY <1>3, Ids DEF OwnInv
  <2>2. rows[q].cid.of = t /\ rows[q].cid.of = s
    BY <1>1, <1>3, <2>1, CidForms
  <2> QED BY <1>3, <2>2
<1>5. s \in Operator
  <2> SUFFICES ASSUME s \in Bot PROVE FALSE
    BY <1>1 DEF Sends
  <2>1. rows[<<s, 0>>].cid \in SendCids(s)
    BY <1>1, <1>2 DEF OwnInv
  <2>2. rows[<<s, 0>>].cid = Cid(s, "stamp")
    BY <2>1, CidForms
  <2> QED BY <1>1, <1>2, <1>3, <2>2 DEF RowInv
<1>6. Displaced(s)
  BY <1>2, <1>3, <1>4, <1>5 DEF PlaceInv
<1> QED BY <1>5, <1>6 DEF s

\* The name is refused where an early echo with a client id of the clock has it.
LEMMA RefusedHasReason ==
    ASSUME TypeOK, OwnInv, RowInv, PlaceInv, NEW i \in Calls, call[i].pc = "accepted",
           Refused(call[i].row, i, Stamp(call[i].cid))
    PROVE  RefusedFor(i)
<1>1. PICK q \in WithName(i) \cup WithCid(Stamp(call[i].cid)) : q # call[i].row
  BY DEF Refused
<1>2. Exists(call[i].row)
  BY DEF Refused
<1>3. CASE q \in WithCid(Stamp(call[i].cid))
  BY <1>1, <1>2, <1>3, CidDisplaced DEF RefusedFor
<1>4. CASE q \in WithName(i) /\ q \notin WithCid(Stamp(call[i].cid))
  <2>1. q \in RowIds /\ Exists(q) /\ rows[q].name = i
    BY <1>4 DEF WithName
  <2>2. rows[q].cid = cidOf[i]
    BY <1>1, <2>1 DEF RowInv
  <2>3. ~ Exact(i)
    BY <1>4, <2>1, <2>2 DEF Exact, WithCid
  <2>4. i \in early
    BY <2>1 DEF PlaceInv, InFlight
  <2> QED BY <2>3, <2>4 DEF RefusedFor
<1> QED BY <1>1, <1>3, <1>4

\* Every step keeps a displacing message beside each row that has a send's client id.
LEMMA PlaceStep ==
    ASSUME TypeOK, OwnInv, MarkInv, CidInv, RowInv, StandInv, PlaceInv, [Next]_vars
    PROVE  PlaceInv'
<1>0. Steady
  BY StepSteady
<1>1. ASSUME NEW i \in Calls, call'[i].pc = "refused" PROVE RefusedFor(i)'
  <2>1. call[i].pc # "idle"
    BY <1>1, CallKinds
  <2>2. call'[i].row = call[i].row /\ call'[i].cid = call[i].cid
    BY <1>0, <2>1 DEF Steady
  <2>3. RefusedFor(i)
    BY <1>1, RefusedHasReason, CallKinds DEF PlaceInv
  <2>4. CASE call[i].row[1] \in Operator /\ Displaced(call[i].row[1])
    <3>1. PICK s \in Operator : s = call[i].row[1]
      BY <2>4
    <3>2. Displaced(s)'
      BY <1>0, <2>4, <3>1, DisplacedStays DEF Sends
    <3> QED BY <2>2, <2>4, <3>1, <3>2 DEF RefusedFor, Displaced, Cid
  <2>5. CASE ~ Exact(i) /\ i \in early
    <3>1. cidOf[i] # NoCid /\ i \in Names
      BY <1>1, CallKinds, Ids DEF MarkInv
    <3>2. cidOf'[i] = cidOf[i] /\ i \in early'
      BY <1>0, <2>5, <3>1 DEF Steady
    <3> QED BY <2>2, <2>5, <3>2 DEF RefusedFor, Exact, Stamp
  <2> QED BY <2>3, <2>4, <2>5 DEF RefusedFor
<1>2. ASSUME NEW s \in Operator, NEW q \in RowIds \ (Sends \X {0}),
             Exists(q)', Exists(<<s, 0>>)', rows'[q].cid = Cid(s, "stamp")
      PROVE  Displaced(s)'
  <2>0. s \in Sends /\ <<s, 0>> \in RowIds /\ <<s, 0>> \in Sends \X {0}
        /\ Cid(s, "stamp") \in SendCids(s)
    BY Ids, CidForms DEF Sends
  <2>1. ASSUME Exists(q), Exists(<<s, 0>>), rows[q].cid = Cid(s, "stamp")
        PROVE  Displaced(s)'
    BY <1>0, <2>0, <2>1, DisplacedStays DEF PlaceInv
  <2>2. CASE RowsSame
    BY <1>2, <2>0, <2>1, <2>2 DEF RowsSame, Exists
  <2>3. ASSUME NEW i \in Sends, Started(i) PROVE Displaced(s)'
    <3>1. q # <<i, 0>> /\ rows'[q] = rows[q] /\ Exists(q)
      BY <1>2, <2>3 DEF Started, Exists
    <3>2. CASE i = s
      BY <1>2, <2>0, <2>3, <3>1, <3>2, RowCids DEF Started
    <3>3. CASE i # s
      BY <1>2, <2>0, <2>1, <2>3, <3>1, <3>3 DEF Started, Exists
    <3> QED BY <3>2, <3>3
  <2>4. ASSUME NEW i \in Calls, Named(i) PROVE Displaced(s)'
    <3>1. call[i].row \in Sends \X {0} /\ Exists(call[i].row)
          /\ \A t \in RowIds \ {call[i].row} : rows'[t] = rows[t]
      BY <2>4, Begun DEF Named
    <3>2. rows'[q] = rows[q] /\ Exists(q) /\ Exists(<<s, 0>>)
      BY <1>2, <2>0, <3>1 DEF Exists
    <3> QED BY <1>2, <2>1, <3>2
  <2>5. ASSUME NEW p \in Names, NEW r \in RowIds, Renamed(r, p) PROVE Displaced(s)'
    <3>1. \A t \in RowIds : (Exists(t)' <=> Exists(t)) /\ rows'[t].cid = rows[t].cid
      BY <2>5 DEF Renamed, WithCid, Exists
    <3> QED BY <1>2, <2>0, <2>1, <3>1
  <2>6. ASSUME NEW p \in Names, NEW r \in RowIds, Echoed(p), Inserted(r, p) PROVE Displaced(s)'
    <3>1. r # <<s, 0>> /\ Exists(<<s, 0>>)
      BY <1>2, <2>0, <2>6 DEF Inserted, Exists
    <3>2. CASE r = q
      BY <1>0, <1>2, <2>6, <3>1, <3>2, InsertedDisplaces DEF Inserted
    <3>3. CASE r # q
      BY <1>2, <2>1, <2>6, <3>1, <3>3 DEF Inserted, Exists
    <3> QED BY <3>2, <3>3
  <2>7. ASSUME NEW r \in RowIds, Removed(r) PROVE Displaced(s)'
    <3>1. \A t \in RowIds : Exists(t)' => Exists(t) /\ rows'[t] = rows[t]
      BY <2>7 DEF Removed, Exists
    <3> QED BY <1>2, <2>0, <2>1, <3>1
  <2> QED BY <2>2, <2>3, <2>4, <2>5, <2>6, <2>7, RowKinds
<1>3. ASSUME NEW q \in RowIds, NEW i \in Calls, Exists(q)', rows'[q].name = i, InFlight(i)'
      PROVE  i \in early'
  <2>0. i \in Names /\ i # NoName
    BY Ids
  <2>1. cidOf[i] # NoCid => InFlight(i)
    BY <1>0, <1>3, SentBegun DEF Steady, InFlight, TypeOK, CallSet
  <2>2. ASSUME Exists(q), rows[q].name = i PROVE i \in early'
    <3>1. cidOf[i] # NoCid
      BY <2>2 DEF RowInv
    <3> QED BY <1>0, <2>1, <2>2, <3>1 DEF PlaceInv, Steady
  <2>3. CASE RowsSame
    BY <1>3, <2>2, <2>3 DEF RowsSame, Exists
  <2>4. ASSUME NEW j \in Sends, Started(j) PROVE i \in early'
    BY <1>3, <2>0, <2>2, <2>4 DEF Started, Exists
  <2>5. ASSUME NEW j \in Calls, Named(j) PROVE i \in early'
    BY <1>3, <2>2, <2>5, Begun DEF Named, Exists, InFlight
  <2>6. ASSUME NEW p \in Names, NEW r \in RowIds, Echoed(p), Renamed(r, p) \/ Inserted(r, p)
        PROVE  i \in early'
    <3>1. CASE q = r
      <4>1. p = i
        BY <1>3, <2>6, <3>1 DEF Renamed, Inserted
      <4> QED BY <2>1, <2>6, <4>1 DEF Echoed
    <3>2. CASE q # r
      BY <1>3, <2>2, <2>6, <3>2 DEF Renamed, Inserted, Exists
    <3> QED BY <3>1, <3>2
  <2>7. ASSUME NEW r \in RowIds, Removed(r) PROVE i \in early'
    BY <1>3, <2>2, <2>7 DEF Removed, Exists
  <2> QED BY <2>3, <2>4, <2>5, <2>6, <2>7, RowKinds
<1> QED BY <1>1, <1>2, <1>3 DEF PlaceInv, Cid, RefusedFor

\* There is no row yet and no call.
LEMMA RowsInit == Init => RowInv /\ StandInv /\ PlaceInv
<1> SUFFICES ASSUME Init PROVE RowInv /\ StandInv /\ PlaceInv
  OBVIOUS
<1>1. \A i \in Calls : call[i].pc = "idle"
  BY DEF Init
<1>2. \A s \in Operator : <<s, 0>> \in RowIds
  BY Ids DEF Sends
<1> QED BY <1>1, <1>2, NoRows DEF RowInv, StandInv, PlaceInv

\* Answer, echo and history of a message meet in the row of its send, in any order and with
\* any retries; the indexes refuse an answer only where an echo came too early.
THEOREM SendsMeetInOneRow == Spec => []OneRowPerSend
<1>1. TypeOK /\ OwnInv /\ RowInv /\ StandInv /\ PlaceInv => OneRowPerSend
  <2> SUFFICES ASSUME TypeOK, OwnInv, RowInv, StandInv, PlaceInv, NEW i \in Calls \ deleted
               PROVE  /\ Exact(i) /\ (call[i].row[1] \in Bot \/ call[i].pc = "done") =>
                             WithName(i) \subseteq {call[i].row}
                      /\ call[i].pc = "refused" => RefusedFor(i)
    BY DEF OneRowPerSend
  <2>1. ASSUME Exact(i), call[i].row[1] \in Bot \/ call[i].pc = "done",
               NEW q \in WithName(i), q # call[i].row
        PROVE  FALSE
    <3>1. q \in RowIds /\ Exists(q) /\ cidOf[i] # NoCid /\ rows[q].cid = cidOf[i]
      BY <2>1 DEF RowInv, WithName
    <3>2. call[i].pc # "idle"
      BY <3>1, SentBegun
    <3>3. Exists(call[i].row) /\ call[i].row \in RowIds
      BY <3>2, Begun DEF StandInv
    <3>4. CASE call[i].pc = "done"
      BY <2>1, <3>1, <3>3, <3>4 DEF StandInv, Exact, RowInv
    <3>5. CASE call[i].row[1] \in Bot
      <4>1. PICK s \in Bot : s = call[i].row[1] /\ call[i].row = <<s, 0>> /\ s \in Sends
                             /\ Stamp(call[i].cid) = Cid(s, "stamp")
        BY <3>2, <3>5, Begun
      <4>2. rows[call[i].row].cid = Cid(s, "stamp")
        BY <3>3, <4>1, CidForms DEF OwnInv
      <4> QED BY <2>1, <3>1, <3>3, <4>1, <4>2 DEF RowInv, Exact
    <3> QED BY <2>1, <3>4, <3>5
  <2> QED BY <2>1 DEF PlaceInv
<1>2. ForeignInv => CidInv
  BY DEF ForeignInv
<1> DEFINE IInv == TypeOK /\ ForeignInv /\ OwnInv /\ MarkInv /\ RowInv /\ StandInv /\ PlaceInv
<1>3. Init => IInv
  BY TypeInit, ForeignInit, OwnInit, MarkInit, RowsInit
<1>4. IInv /\ [Next]_vars => IInv'
  BY <1>2, TypeStep, ForeignStep, OwnStep, MarkStep, RowStep, StandStep, PlaceStep
<1> QED BY <1>1, <1>3, <1>4, PTL DEF Spec

-----------------------------------------------------------------------------
(* The reports *)

\* A foreign message in the table stays there until it is deleted.
LEMMA ForeignStays ==
    ASSUME TypeOK, OwnInv, MarkInv, CidInv, [Next]_vars,
           NEW p \in Foreign \ deleted', WithName(p) # {}
    PROVE  WithName(p)' # {}
<1>1. PICK q \in RowIds : Exists(q) /\ rows[q].name = p
  BY DEF WithName
<1>2. SUFFICES rows'[q].exists /\ rows'[q].name = p
  BY DEF WithName, Exists
<1>3. /\ rows[q].cid.of = p /\ q \notin Sends \X {0}
      /\ p \notin Calls /\ p # NoName /\ p \in Names
  BY <1>1, ForeignIds DEF CidInv, RowsApart
<1>4. CASE RowsSame
  BY <1>1, <1>4 DEF RowsSame, Exists
<1>5. ASSUME NEW i \in Sends, Started(i) PROVE rows'[q].exists /\ rows'[q].name = p
  BY <1>1, <1>3, <1>5 DEF Started, Exists
<1>6. ASSUME NEW i \in Calls, Named(i) PROVE rows'[q].exists /\ rows'[q].name = p
  <2>1. q # call[i].row
    BY <1>3, <1>6, Begun DEF Named
  <2> QED BY <1>1, <1>6, <2>1 DEF Named, Exists
<1>7. ASSUME NEW c \in Names, NEW r \in RowIds, Echoed(c), Renamed(r, c) \/ Inserted(r, c)
      PROVE  rows'[q].exists /\ rows'[q].name = p
  <2>1. CASE r = q /\ Renamed(r, c)
    <3>1. cidOf[c].of = p
      BY <1>3, <2>1 DEF Renamed, WithCid
    <3>2. c = p
      BY <1>7, <3>1, ForeignIds DEF CidInv, Echoed
    <3> QED BY <2>1, <3>2 DEF Renamed
  <2>2. CASE r # q
    BY <1>1, <1>7, <2>2 DEF Renamed, Inserted, Exists
  <2> QED BY <1>1, <1>7, <2>1, <2>2 DEF Inserted
<1>8. ASSUME NEW r \in RowIds, Removed(r) PROVE rows'[q].exists /\ rows'[q].name = p
  BY <1>1, <1>8 DEF Removed, Exists
<1> QED BY <1>4, <1>5, <1>6, <1>7, <1>8, RowKinds

\* What the live handler brings is in the table then.
LEMMA LiveIsStored ==
    ASSUME TypeOK, NEW p \in Names, Live(p) PROVE WithName(p)' # {}
<1>1. CASE RowsSame /\ WithName(p) # {}
  BY <1>1 DEF RowsSame, WithName, Exists
<1>2. ASSUME NEW r \in RowIds, Renamed(r, p) \/ Inserted(r, p) PROVE WithName(p)' # {}
  <2>1. rows'[r].exists /\ rows'[r].name = p
    BY <1>2 DEF Renamed, Inserted
  <2> QED BY <2>1 DEF WithName, Exists
<1> QED BY <1>1, <1>2, EchoRows

\* Who reports, and when.
LEMMA Reporters ==
    ASSUME TypeOK, [Next]_vars
    PROVE  \/ reports' = reports
           \/ \E i \in Calls : /\ reports' = [reports EXCEPT ![i] = @ + 1]
                               /\ call[i].pc = "accepted" /\ call'[i].pc = "done"
           \/ \E p \in Names : /\ Live(p) /\ reports' = [reports EXCEPT ![p] = @ + 1]
                               /\ Reconciled(p) = {} /\ WithName(p) = {} /\ ~ Programmatic(p)
<1>1. ASSUME NEW i \in Calls, Answered(i)
      PROVE  \/ reports' = reports
             \/ /\ reports' = [reports EXCEPT ![i] = @ + 1]
                /\ call[i].pc = "accepted" /\ call'[i].pc = "done"
  BY <1>1, SetCallTypes DEF Answered
<1>2. ASSUME NEW p \in Names, Live(p)
      PROVE  \/ reports' = reports
             \/ /\ Live(p) /\ reports' = [reports EXCEPT ![p] = @ + 1]
                /\ Reconciled(p) = {} /\ WithName(p) = {} /\ ~ Programmatic(p)
  BY <1>2 DEF Live
<1>3. \/ \E i \in Calls : Answered(i)
      \/ \E p \in Names : Live(p)
      \/ reports' = reports
  <2>1. CASE Incident
    BY <2>1 DEF Incident, Written, History, Redelivered, Undo, Receipt, Delete, Recall, Sync,
                Expire, MarkRead, StartRetry, MarkDeleted, history, tallies
  <2>2. CASE \E i \in Calls : CallStep(i)
    BY <2>2 DEF CallStep, StartSend, StartAttachments, StartReply, InsertOutbound, Dispatch, Fails,
                history, tallies
  <2>3. CASE UNCHANGED vars
    BY <2>3 DEF vars, history, tallies
  <2>4. CASE Switching \/ \E p \in Names : LiveRefused(p) \/ Dropped(p)
    BY <2>4 DEF Switching, StartRunner, StopRunner, SwitchAutoReply, Crash, LiveRefused, Dropped,
                history, tallies
  <2> QED BY <2>1, <2>2, <2>3, <2>4 DEF Next
<1> QED BY <1>1, <1>2, <1>3

\* The operator's replies are not forgotten.
LEMMA PausedStays == ASSUME TypeOK, [Next]_vars PROVE paused \subseteq paused'
BY StepKinds DEF InsertOutbound, Dispatch, Answered, Fails, Live, Written, History, StartRetry,
                 Delete, Crash, Quiet, history

\* Nor is a deletion.
LEMMA DeletedStays == ASSUME TypeOK, [Next]_vars PROVE deleted \subseteq deleted'
BY StepKinds DEF InsertOutbound, Dispatch, Answered, Fails, Live, Written, History, StartRetry,
                 Delete, Crash, Quiet, history

\* Every step keeps what is known of a reported message.
LEMMA ReportStep ==
    ASSUME TypeOK, OwnInv, MarkInv, CidInv, ReportInv, [Next]_vars PROVE ReportInv'
<1>1. ASSUME NEW p \in Foreign \ deleted', reports'[p] > 0 PROVE WithName(p)' # {}
  <2>1. CASE reports[p] > 0
    <3>1. p \notin deleted
      BY <1>1, DeletedStays
    <3> QED BY <1>1, <2>1, <3>1, ForeignStays DEF ReportInv
  <2>2. CASE Live(p)
    BY <1>1, <2>2, LiveIsStored, ForeignIds
  <2>3. reports[p] > 0 \/ Live(p)
    BY <1>1, Reporters, ForeignIds DEF TypeOK
  <2> QED BY <2>1, <2>2, <2>3
<1>2. ASSUME NEW i \in Calls, reports'[i] > 0 PROVE i \in paused' \/ call'[i].pc = "done"
  <2>1. CASE reports[i] > 0
    BY <2>1, PausedStays, StepSteady DEF ReportInv, Steady
  <2>2. CASE Live(i) /\ Reconciled(i) = {} /\ WithName(i) = {} /\ ~ Programmatic(i)
    BY <2>2, Ids DEF Live, Ours
  <2>3. \/ reports[i] > 0
        \/ Live(i) /\ Reconciled(i) = {} /\ WithName(i) = {} /\ ~ Programmatic(i)
        \/ call'[i].pc = "done"
    BY <1>2, Reporters, Ids DEF TypeOK
  <2> QED BY <2>1, <2>2, <2>3
<1> QED BY <1>1, <1>2 DEF ReportInv

\* A message is reported once, but for those the operator is taken to have typed and those
\* deleted here and delivered again.
THEOREM MessagesAreReportedOnce == Spec => ReportedOnce
<1> DEFINE IInv == TypeOK /\ ForeignInv /\ OwnInv /\ MarkInv /\ ReportInv
<1>1. IInv /\ [Next]_vars =>
          \A p \in Names : 0 < reports[p] /\ reports[p] < reports'[p] =>
              p \in (Calls \cap paused') \cup (deleted \ Calls)
  <2> SUFFICES ASSUME IInv, [Next]_vars, NEW p \in Names,
                      0 < reports[p], reports[p] < reports'[p]
               PROVE  p \in (Calls \cap paused') \cup (deleted \ Calls)
    OBVIOUS
  <2>1. CASE Live(p) /\ Reconciled(p) = {} /\ WithName(p) = {} /\ ~ Programmatic(p)
    <3>1. CASE p \in Calls
      BY <2>1, <3>1, Ids DEF Live, Ours
    <3>2. CASE p \in Foreign
      BY <2>1, <3>2, ForeignIds DEF ReportInv
    <3> QED BY <3>1, <3>2, ForeignIds
  <2>2. CASE p \in Calls /\ call[p].pc = "accepted"
    BY <2>2, PausedStays DEF ReportInv
  <2> QED BY <2>1, <2>2, Reporters DEF TypeOK
<1>2. Init => IInv
  <2>1. Init => ReportInv
    BY Ids, ForeignIds DEF Init, ReportInv
  <2> QED BY <2>1, TypeInit, ForeignInit, OwnInit, MarkInit
<1>3. IInv /\ [Next]_vars => IInv'
  <2>1. ForeignInv => CidInv
    BY DEF ForeignInv
  <2> QED BY <2>1, TypeStep, ForeignStep, OwnStep, MarkStep, ReportStep
<1> QED BY <1>1, <1>2, <1>3, PTL DEF Spec, ReportedOnce
=============================================================================
