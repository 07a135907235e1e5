---------------------------- MODULE ChatMessages ----------------------------
(***************************************************************************)
(* The messages of one private Zalo conversation: the table messages       *)
(* (local-chat-store.ts), the calls that send (local-chat-api.ts, the      *)
(* chatbot's dispatcher) through PersonalZcaChannel, and what the listener *)
(* brings back (agent-runner.ts, local-chat/index.ts): the customer's      *)
(* messages, those the operator types on the phone, and the echo of every  *)
(* message sent from here.                                                 *)
(*                                                                         *)
(* A call has a client message id.  The app prefixes a clock value         *)
(* ("flutter_<ms>"), the bot uses the bare value; the channel sends the    *)
(* value alone, by pinning Date.now for the library that reads it.  Zalo   *)
(* names what it accepts (here: by the call) and echoes that name and the  *)
(* client id.  Node runs a handler to its next await: the awaits are the   *)
(* boundaries of the actions.                                              *)
(***************************************************************************)
EXTENDS Naturals, FiniteSets

CONSTANTS
    Operator,   \* sends of the app
    Bot,        \* sends of the chatbot
    Retries,    \* retries from the app
    Customer,   \* messages of the customer
    Phone,      \* messages the operator types on the phone
    MaxCopies,    \* bound: rows the listener's path has for one message
    MaxIncidents  \* bound: what happens besides sending and receiving

Sends == Operator \cup Bot
Calls == Sends \cup Retries
Names == Calls \cup Customer \cup Phone    \* provider message ids
RowIds == (Sends \X {0}) \cup (Names \X (1 .. MaxCopies))

\* Client ids: the call or the message that one was made for, and its form.
Cids == [of : Names \cup {"none"}, form : {"none", "library", "prefixed", "stamp"}]

ASSUME MessagesAssumption ==
    /\ Operator \cap Bot = {} /\ Sends \cap Retries = {}
    /\ Calls \cap (Customer \cup Phone) = {} /\ Customer \cap Phone = {}
    /\ "none" \notin Names /\ Names \cap Cids = {}
    /\ IsFiniteSet(Customer)

VARIABLES
    rows,      \* messages: a row per send, and those the listener inserts
    unread,    \* unreadCount of the conversation
    jobs,      \* rows with a sync_message action in sync_queue
    synced,    \* what such actions have brought to the cloud
    autoReply, \* account_chat_settings: the bot answers this account
    \* memory of the process
    running,   \* the agent runner takes what the listener brings
    call,      \* the calls
    marks,     \* recentProgrammaticSends
    pin,       \* what Date.now is pinned to, and by which calls
    \* Zalo
    cidOf,     \* the client id of an accepted message
    live,      \* messages the websocket is about to deliver
    \* history
    handled,   \* messages the live handler has handled
    missed,    \* messages that came while the runner was stopped, or died on the way
    muted,     \* new messages of the customer that came with the bot switched off
    inserts, engaged, reports,   \* per message: rows, bot runs, reports
    paused,    \* messages taken for a reply of the operator
    past,      \* messages that came as history first
    early,     \* calls whose echo was handled before Zalo's answer
    gone,      \* marks that expired, were withdrawn or died with the process
    deleted,   \* messages the operator deleted locally
    incidents

tables  == <<rows, unread, jobs, synced>>
process == <<call, marks, pin>>
zalo    == <<cidOf, live>>
heard   == <<handled, missed, muted>>
tallies == <<inserts, engaged, reports>>
history == <<heard, tallies, paused, past, early, gone, deleted>>
switches == <<running, autoReply>>
vars    == <<tables, process, zalo, history, switches, incidents>>

Exists(r) == rows[r].exists
WithName(p) == {r \in RowIds : Exists(r) /\ rows[r].name = p}
WithCid(c)  == {r \in RowIds : Exists(r) /\ rows[r].cid = c}

Cid(i, form) == [of |-> i, form |-> form]
NoName == "none"
NoCid  == Cid("none", "none")    \* pin.to when Date.now is the clock

\* createZaloClientMessageId: the clock value in a client id.
Stamp(c) == IF c.form = "prefixed" THEN Cid(c.of, "stamp") ELSE c

Row(dir, name, cid, status) ==
    [exists |-> TRUE, dir |-> dir, name |-> name, cid |-> cid,
     status |-> status, recalled |-> FALSE]
NoRow == [Row("none", NoName, NoCid, "none") EXCEPT !.exists = FALSE]

InFlight(i) == call[i].pc \in {"queued", "wired", "accepted"}
Pinned(i)   == i \in pin.by

-----------------------------------------------------------------------------
(* The store *)

\* Mutant: no sync action.
UpdateUnsynced(r, status, name, cid) ==
    /\ rows' = [rows EXCEPT ![r].status = status,
                            ![r].name = IF name = NoName THEN @ ELSE name,
                            ![r].cid = IF cid = NoCid THEN @ ELSE cid]
    /\ UNCHANGED jobs

\* updateMessageStatus, where it succeeds; a deleted row stays as it is.
UpdateStatus(r, status, name, cid) ==
    /\ rows' = IF ~ Exists(r) THEN rows
               ELSE [rows EXCEPT ![r].status = status,
                                 ![r].name = IF name = NoName THEN @ ELSE name,
                                 ![r].cid = IF cid = NoCid THEN @ ELSE cid]
    /\ jobs' = IF status = "sent" THEN jobs \cup {r} ELSE jobs

\* The unique indexes on (accountId, providerMessageId) and (accountId,
\* clientMessageId) refuse the update.
Refused(r, name, cid) == Exists(r) /\ (WithName(name) \cup WithCid(cid)) \ {r} # {}

\* upsertInboundMessage, past its two lookups: no index can refuse what they miss.
Insert(dir, p) ==
    /\ \E n \in 1 .. MaxCopies :
          /\ ~ Exists(<<p, n>>) /\ \A k \in 1 .. n - 1 : Exists(<<p, k>>)
          /\ rows' = [rows EXCEPT ![<<p, n>>] = Row(dir, p, cidOf[p], "delivered")]
          /\ jobs' = jobs \cup {<<p, n>>}
    /\ unread' = IF dir = "inbound" THEN unread + 1 ELSE unread
    /\ inserts' = [inserts EXCEPT ![p] = @ + 1]

\* Mutant: the message is not looked up by its provider id.
UpsertBlind(dir, p) ==
    IF WithCid(cidOf[p]) # {} /\ dir = "outbound"
    THEN /\ \E r \in WithCid(cidOf[p]) : UpdateStatus(r, "sent", p, NoCid)
         /\ UNCHANGED <<unread, inserts>>
    ELSE Insert(dir, p)

\* Mutant: the message is looked up by its provider id alone.
UpsertByName(dir, p) ==
    IF WithName(p) # {} THEN UNCHANGED <<rows, jobs, unread, inserts>>
    ELSE Insert(dir, p)

\* upsertInboundMessage.
Upsert(dir, p) ==
    IF WithName(p) # {} THEN UNCHANGED <<rows, jobs, unread, inserts>>
    ELSE IF WithCid(cidOf[p]) # {}
    THEN /\ \E r \in WithCid(cidOf[p]) : UpdateStatus(r, "sent", p, NoCid)
         /\ UNCHANGED <<unread, inserts>>
    ELSE Insert(dir, p)

-----------------------------------------------------------------------------
(* Calls *)

SetCall(i, pc) == call' = [call EXCEPT ![i].pc = pc]

\* insertOutboundMessage: the row is queued, the conversation read.  Every call makes a
\* client id of its own, so the look-up for a row that has it finds none.
InsertOutbound(i, form, rich) ==
    LET cid == Cid(i, form)
    IN  /\ call[i].pc = "idle"
        /\ rows' = [rows EXCEPT ![<<i, 0>>] = Row("outbound", NoName, cid, "queued")]
        /\ unread' = 0
        /\ call' = [call EXCEPT ![i] = [pc |-> "queued", row |-> <<i, 0>>,
                                        cid |-> cid, rich |-> rich]]
        /\ UNCHANGED <<jobs, synced, marks, pin, zalo, history>>

\* handleLocalSend up to its await; stickers, links, videos and voice are rich.
StartSend(i, rich) == i \in Operator /\ InsertOutbound(i, "prefixed", rich)

\* handleLocalSendAttachment up to its await.
StartAttachments(i) == i \in Operator /\ InsertOutbound(i, "prefixed", FALSE)

\* The dispatcher's send of a reply of the bot.
StartReply(i) == i \in Bot /\ InsertOutbound(i, "stamp", FALSE)

\* handleLocalRetry looks at the direction of the row and not at its status.
\* The app offers it for what it believes failed, also when its own POST timed
\* out: any row of a send.
StartRetry(i, r) ==
    /\ call[i].pc = "idle"
    /\ Exists(r)
    /\ UpdateStatus(r, "sending", NoName, NoCid)
    /\ call' = [call EXCEPT ![i] =
                   [pc |-> "queued", row |-> r, cid |-> rows[r].cid,
                    rich |-> call[r[1]].rich]]
    /\ UNCHANGED <<unread, synced, marks, pin, zalo, history>>

\* The client id the library reads off the clock for an unpinned message.
ClockCid(i) == IF pin.by = {} THEN Cid(i, "library") ELSE pin.to

\* Mutant: the mark is left for Zalo's answer to make.
DispatchUnmarked(i, current, taken) ==
    /\ call[i].pc = "queued" /\ (i \in Sends => current)
    /\ SetCall(i, IF taken THEN "accepted" ELSE "wired")
    /\ live' = IF taken THEN live \cup {i} ELSE live
    /\ pin' = IF ~ call[i].rich /\ current
              THEN [to |-> Stamp(call[i].cid), by |-> pin.by \cup {i}] ELSE pin
    /\ cidOf' = [cidOf EXCEPT ![i] = IF ~ call[i].rich /\ current
                                     THEN Stamp(call[i].cid) ELSE ClockCid(i)]
    /\ UNCHANGED <<tables, marks, history>>

\* sendMessage up to its request, which Zalo takes or not.  A plain send whose
\* client id is current (a retry's may be too old) pins Date.now to it and
\* marks it for the echo; for the others the library reads the clock.
Dispatch(i, current, taken) ==
    /\ call[i].pc = "queued" /\ (i \in Sends => current)
    /\ SetCall(i, IF taken THEN "accepted" ELSE "wired")
    /\ live' = IF taken THEN live \cup {i} ELSE live
    /\ IF ~ call[i].rich /\ current
       THEN LET cid == Stamp(call[i].cid)
            IN  /\ pin' = [to |-> cid, by |-> pin.by \cup {i}]
                /\ marks' = marks \cup {cid} /\ gone' = gone \ {cid}
                /\ cidOf' = [cidOf EXCEPT ![i] = cid]
       ELSE /\ cidOf' = [cidOf EXCEPT ![i] = ClockCid(i)]
            /\ UNCHANGED <<pin, marks, gone>>
    /\ UNCHANGED <<tables, heard, tallies, paused, past, early, deleted>>

\* runWithFixedDateNow is over: the last to leave restores the clock.
Unpin(i) ==
    pin' = IF pin.by \subseteq {i} THEN [to |-> NoCid, by |-> {}]
           ELSE [pin EXCEPT !.by = @ \ {i}]

\* The answer: the name is marked, the row updated, the message reported and,
\* for a send of the app, the bot paused.  Where an index refuses the name or the
\* client id, the catch of a send of the app marks the message failed, and a retry
\* (or the bot) is left by the exception.
Answered(i) ==
    LET r == call[i].row
        cid == Stamp(call[i].cid)
    IN  /\ call[i].pc = "accepted"
        /\ Unpin(i)
        /\ marks' = marks \cup {i}
        /\ IF Refused(r, i, cid)
           THEN /\ IF i \in Operator THEN UpdateStatus(r, "failed", NoName, NoCid)
                   ELSE UNCHANGED <<rows, jobs>>
                /\ SetCall(i, "refused")
                /\ UNCHANGED reports
           ELSE /\ UpdateStatus(r, "sent", i, cid)
                /\ SetCall(i, "done")
                /\ reports' = IF i \in Sends THEN [reports EXCEPT ![i] = @ + 1]
                              ELSE reports
        /\ UNCHANGED <<unread, synced, zalo, heard, inserts, engaged, paused,
                       past, early, gone, deleted>>

\* Mutant: the failure is not recorded.
FailsSilently(i) ==
    /\ InFlight(i)
    /\ Unpin(i)
    /\ marks' = marks \ (IF Pinned(i) THEN {Stamp(call[i].cid)} ELSE {})
    /\ SetCall(i, "failed")
    /\ UNCHANGED <<tables, zalo, history>>

\* No account, a refusal, or an answer that was lost: the pending mark goes
\* and the row fails.
Fails(i) ==
    /\ InFlight(i)
    /\ Unpin(i)
    /\ LET withdrawn == IF Pinned(i) THEN {Stamp(call[i].cid)} ELSE {}
       IN  marks' = marks \ withdrawn /\ gone' = gone \cup withdrawn
    /\ UpdateStatus(call[i].row, "failed", NoName, NoCid)
    /\ SetCall(i, "failed")
    /\ UNCHANGED <<unread, synced, zalo, heard, tallies, paused, past, early,
                   deleted>>

\* A mark outlives PROGRAMMATIC_SEND_TTL_MS.
Expire(k) ==
    /\ k \in marks
    /\ marks' = marks \ {k}
    /\ gone' = gone \cup {k}
    /\ UNCHANGED <<tables, call, pin, zalo, heard, tallies, paused, past,
                   early, deleted>>

-----------------------------------------------------------------------------
(* What the listener brings *)

Ours(p) == p \notin Customer

\* reconcileOutboundMessage.
Reconciled(p) ==
    {r \in WithCid(cidOf[p]) : Ours(p) /\ rows[r].dir = "outbound"}

\* Mutant: any mark of the conversation will do.
ProgrammaticByThread(p) == Ours(p) /\ marks # {}

\* isProgrammaticEcho.
Programmatic(p) == Ours(p) /\ {p, cidOf[p]} \cap marks # {}

Direction(p) == IF Ours(p) THEN "outbound" ELSE "inbound"

\* Zalo takes a message of the customer or of the operator's phone.
Written(p) ==
    /\ p \in Customer \cup Phone
    /\ cidOf[p] = NoCid
    /\ cidOf' = [cidOf EXCEPT ![p] = Cid(p, "library")]
    /\ live' = live \cup {p}
    /\ UNCHANGED <<tables, process, history>>

\* The row that the client id finds cannot take the name: another row has it.
Unnameable(p) == \E r \in Reconciled(p) : Refused(r, p, cidOf[p])

\* Mutant: whether the message is known is not asked.
LiveForgetful(p) ==
    /\ running /\ p \in live /\ ~ Unnameable(p) /\ live' = live \ {p}
    /\ handled' = handled \cup {p}
    /\ Upsert(Direction(p), p)
    /\ paused' = IF Ours(p) /\ ~ Programmatic(p) THEN paused \cup {p} ELSE paused
    /\ engaged' = IF Ours(p) THEN engaged ELSE [engaged EXCEPT ![p] = @ + 1]
    /\ reports' = IF Programmatic(p) THEN reports
                  ELSE [reports EXCEPT ![p] = @ + 1]
    /\ UNCHANGED <<synced, process, cidOf, missed, muted, past, early, gone, deleted>>

\* handleInboundMessageEvent: the echo of a row with this client id updates it,
\* anything else is upserted.  What is neither reconciled, nor known, nor marked
\* is new: it is reported and, if of the phone, pauses the bot; a new message
\* of the customer is given to the bot, if it answers this account.
Live(p) ==
    LET known   == Reconciled(p) # {} \/ WithName(p) # {} \/ Programmatic(p)
        forBot  == ~ known /\ ~ Ours(p)
    IN  /\ running /\ p \in live /\ ~ Unnameable(p)
        /\ live' = live \ {p}
        /\ handled' = handled \cup {p}
        /\ IF Reconciled(p) # {}
           THEN /\ \E r \in Reconciled(p) : UpdateStatus(r, "sent", p, cidOf[p])
                /\ UNCHANGED <<unread, inserts>>
           ELSE Upsert(Direction(p), p)
        /\ paused' = IF Ours(p) /\ ~ known THEN paused \cup {p} ELSE paused
        /\ engaged' = IF forBot /\ autoReply THEN [engaged EXCEPT ![p] = @ + 1]
                      ELSE engaged
        /\ muted' = IF forBot /\ ~ autoReply THEN muted \cup {p} ELSE muted
        /\ reports' = IF known THEN reports ELSE [reports EXCEPT ![p] = @ + 1]
        /\ early' = IF p \in Calls /\ InFlight(p) THEN early \cup {p} ELSE early
        /\ UNCHANGED <<synced, process, cidOf, missed, past, gone, deleted>>

\* The exception of a refused update ends the handler.
LiveRefused(p) ==
    /\ running /\ p \in live /\ Unnameable(p)
    /\ live' = live \ {p}
    /\ handled' = handled \cup {p}
    /\ UNCHANGED <<tables, process, cidOf, missed, muted, tallies, paused, past,
                   early, gone, deleted>>

\* A stopped runner takes nothing.
Dropped(p) ==
    /\ ~ running /\ p \in live
    /\ live' = live \ {p}
    /\ missed' = missed \cup {p}
    /\ UNCHANGED <<tables, process, cidOf, handled, muted, tallies, paused, past,
                   early, gone, deleted>>

\* handleInboundMessageBatch: the recent history that the first connection of the
\* process asks for, taken one message at a time.
History(p) ==
    /\ running
    /\ cidOf[p] # NoCid /\ (p \in Calls => p \in live \cup handled \cup missed)
    /\ Upsert(Direction(p), p)
    /\ early' = IF p \in Calls /\ InFlight(p) THEN early \cup {p} ELSE early
    /\ past' = IF WithName(p) = {} THEN past \cup {p} ELSE past
    /\ UNCHANGED <<synced, process, zalo, heard, engaged, reports, paused,
                   gone, deleted>>

\* The websocket delivers a message once more.
Redelivered(p) ==
    /\ p \in (handled \cup missed) \ live
    /\ live' = live \cup {p}
    /\ UNCHANGED <<tables, process, cidOf, history>>

\* updateMessageStatusByProviderId: what is written last stays.  The index leaves one
\* row of a name.
StatusByName(p, status) ==
    \E r \in WithName(p) : /\ rows' = [rows EXCEPT ![r].status = status]
                           /\ jobs' = jobs \cup {r}

\* A delivered or seen receipt, in the order Zalo chooses.
Receipt(p, status) ==
    /\ p \in Calls /\ StatusByName(p, status)
    /\ UNCHANGED <<unread, synced, process, zalo, history>>

-----------------------------------------------------------------------------
(* The operator's other requests, recalls, the sync worker, a restart *)

\* markConversationRead.
MarkRead ==
    /\ unread' = 0
    /\ UNCHANGED <<rows, jobs, synced, process, zalo, history>>

\* deleteMessage removes the row, and nothing remembers it.
Delete(r) ==
    /\ Exists(r)
    /\ rows' = [rows EXCEPT ![r].exists = FALSE]
    /\ deleted' = deleted \cup {rows[r].name}
                          \cup {i \in Calls : call[i].row = r}
    /\ UNCHANGED <<unread, jobs, synced, process, zalo, heard, tallies, paused,
                   past, early, gone>>

\* markMessageDeleted, markMessageDeletedByProviderMsgId: a notice takes the place of
\* the content.
MarkDeleted(r) ==
    /\ rows' = [rows EXCEPT ![r].recalled = TRUE]
    /\ jobs' = jobs \cup {r}
    /\ UNCHANGED <<unread, synced, process, zalo, history>>

\* handleLocalRecall of what Zalo lets be recalled.
Recall(r) == Exists(r) /\ rows[r].name # NoName /\ MarkDeleted(r)

\* The undo event of the websocket, with the name or the client id of what is
\* recalled; it reaches the table through two handlers, to the same effect.
Undo(p) == \E r \in WithName(p) \cup WithCid(cidOf[p]) : MarkDeleted(r)

CanReport(r) ==
    Exists(r) /\ (rows[r].dir = "inbound" \/
                  rows[r].status \in {"sent", "delivered", "seen"})

\* What is posted of a row: its name and its content (which a recall has changed); the
\* client id only of what was sent, and isDeleted only of what was received.
Payload(r) ==
    LET sent == rows[r].dir = "outbound"
    IN  [row |-> r, name |-> rows[r].name,
         cid |-> IF sent THEN rows[r].cid ELSE NoCid,
         notice |-> rows[r].recalled,
         isDeleted |-> rows[r].recalled /\ ~ sent]

\* processSyncQueue takes the actions of a row: one that cannot be reported is
\* acknowledged all the same.  (Posts that fail or cross are in SyncQueue.)
Sync(r) ==
    /\ r \in jobs
    /\ jobs' = jobs \ {r}
    /\ synced' = IF CanReport(r) THEN synced \cup {Payload(r)} ELSE synced
    /\ UNCHANGED <<rows, unread, process, zalo, history>>

\* startAgentRunner, stopAgentRunner (at a logout, or a lost session).
StartRunner ==
    /\ ~ running /\ running' = TRUE
    /\ UNCHANGED <<tables, process, zalo, history, autoReply>>
StopRunner ==
    /\ running /\ running' = FALSE
    /\ UNCHANGED <<tables, process, zalo, history, autoReply>>

\* handlePutAccountChatSettings.
SwitchAutoReply ==
    /\ autoReply' = ~ autoReply
    /\ UNCHANGED <<tables, process, zalo, history, running>>

\* The process dies and starts again, with the runner or before it has the account:
\* the calls are gone, the tables stay; what was on the websocket comes back as
\* history, or once more.
Crash ==
    /\ call' = [i \in Calls |-> IF InFlight(i) THEN [call[i] EXCEPT !.pc = "dead"]
                                ELSE call[i]]
    /\ marks' = {}
    /\ pin' = [to |-> NoCid, by |-> {}]
    /\ missed' = missed \cup live
    /\ live' = {}
    /\ gone' = gone \cup marks
    /\ running' \in BOOLEAN
    /\ UNCHANGED <<tables, cidOf, handled, muted, tallies, paused, past, early,
                   deleted, autoReply>>

-----------------------------------------------------------------------------
Init ==
    /\ rows = [r \in RowIds |-> NoRow] /\ unread = 0 /\ jobs = {} /\ synced = {}
    /\ call = [i \in Calls |-> [pc |-> "idle", row |-> <<i, 0>>, cid |-> NoCid,
                              rich |-> FALSE]]
    /\ marks = {} /\ pin = [to |-> NoCid, by |-> {}]
    /\ cidOf = [p \in Names |-> NoCid] /\ live = {}
    /\ handled = {} /\ missed = {} /\ muted = {}
    /\ inserts = [p \in Names |-> 0]
    /\ engaged = [p \in Names |-> 0]
    /\ reports = [p \in Names |-> 0]
    /\ paused = {} /\ past = {} /\ early = {} /\ gone = {} /\ deleted = {}
    /\ running = TRUE /\ autoReply = TRUE /\ incidents = 0

CallStep(i) ==
    \/ \E rich \in BOOLEAN : StartSend(i, rich)
    \/ StartAttachments(i)
    \/ StartReply(i)
    \/ \E current, taken \in BOOLEAN : Dispatch(i, current, taken)
    \/ Answered(i)
    \/ Fails(i)

Incident ==
    \/ \E i \in Retries, r \in Sends \X {0} : StartRetry(i, r)
    \/ \E p \in Names : \/ Written(p) \/ History(p) \/ Redelivered(p) \/ Undo(p)
                        \/ \E status \in {"delivered", "seen"} : Receipt(p, status)
    \/ \E r \in RowIds : Delete(r) \/ Recall(r) \/ Sync(r)
    \/ \E k \in marks : Expire(k)
    \/ MarkRead

\* What the runner, its switch and the process do besides.
Switching == StartRunner \/ StopRunner \/ SwitchAutoReply \/ Crash

Next ==
    \/ /\ \/ \E i \in Calls : CallStep(i)
          \/ \E p \in Names : Live(p) \/ LiveRefused(p) \/ Dropped(p)
       /\ UNCHANGED <<switches, incidents>>
    \/ /\ incidents < MaxIncidents
       /\ \/ Incident /\ UNCHANGED switches
          \/ Switching
       /\ incidents' = incidents + 1

Spec == Init /\ [][Next]_vars

-----------------------------------------------------------------------------
Statuses == {"none", "queued", "sending", "sent", "failed", "delivered", "seen"}
RowSet == [exists : BOOLEAN, dir : {"none", "inbound", "outbound"},
           name : Names \cup {NoName}, cid : Cids, status : Statuses, recalled : BOOLEAN]
PayloadSet == [row : RowIds, name : Names \cup {NoName}, cid : Cids, notice : BOOLEAN,
               isDeleted : BOOLEAN]
CallSet == [pc : {"idle", "queued", "wired", "accepted", "done", "refused", "failed", "dead"},
            row : Calls \X {0}, cid : Cids, rich : BOOLEAN]

\* The tables and the memory hold what their columns and maps are declared for.
TypeOK ==
    /\ rows \in [RowIds -> RowSet] /\ unread \in Nat
    /\ jobs \subseteq RowIds /\ synced \subseteq PayloadSet
    /\ running \in BOOLEAN /\ autoReply \in BOOLEAN
    /\ call \in [Calls -> CallSet]
    /\ \A i \in Calls : call[i].pc = "idle" \/ call[i].row \in Sends \X {0}
    /\ pin \in [to : Cids, by : SUBSET Calls]
    /\ cidOf \in [Names -> Cids]
    /\ live \subseteq Names /\ handled \subseteq Names /\ missed \subseteq Names
    /\ inserts \in [Names -> Nat] /\ engaged \in [Names -> Nat] /\ reports \in [Names -> Nat]

\* A message of the customer is stored once, counts once as unread and starts the
\* bot once, though the websocket may deliver it again and the history batch may
\* bring it before, between or after; unless the operator deletes it locally.
InboundOnce ==
    /\ \A p \in Customer \ deleted : inserts[p] <= 1 /\ engaged[p] <= 1
    /\ Customer \cap deleted = {} =>
           unread <= Cardinality({p \in Customer : inserts[p] > 0})

\* The message went out with its client id (the library reads the pinned clock also for
\* a rich send that runs meanwhile, and its own clock for others).
Exact(i) == cidOf[i] = Stamp(call[i].cid)

\* What can put a row with the client id of send s beside its own: an echo that is
\* handled before the answer, or after it was lost, or another message that went out
\* while the clock was pinned for s.
Displaced(s) ==
    \E j \in Calls : /\ cidOf[j] = Cid(s, "stamp")
                     /\ \/ j \in early
                        \/ call[j].pc \in {"failed", "dead"}
                        \/ call[j].row # <<s, 0>>

RefusedFor(i) ==
    \/ call[i].row[1] \in Operator /\ Displaced(call[i].row[1])
    \/ ~ Exact(i) /\ i \in early

\* The message of a send is one row: the answer, the echo and the history batch
\* meet in the row the send inserted, and the unique index refuses none of them.
\* For the bot, whose rows have the client id that is echoed, in every order; for
\* the app, whose rows have it with a prefix until the answer, once it is answered.
\* An answer is refused only where another row has the client id of a send of the app
\* (an echo came too early: ConfirmedIsNotFailed), or an echo with a client id of the
\* clock has put the name in a row of its own.
OneRowPerSend ==
    \A i \in Calls \ deleted :
        /\ Exact(i) /\ (call[i].row[1] \in Bot \/ call[i].pc = "done")
               => WithName(i) \subseteq {call[i].row}
        /\ call[i].pc = "refused" => RefusedFor(i)

\* The echo of what was sent from here is not taken for a reply the operator typed
\* on the phone, which would silence the bot: a mark covers its client id from before the
\* request, and its name from the answer on, until their time is over.
EchoIsNotOperator ==
    [][\A i \in Calls \cap (paused' \ paused) :
          /\ Exact(i) => cidOf[i] \in gone
          /\ call[i].pc \in {"done", "refused"} => i \in gone]_vars

\* The marks and the lookups swallow nothing else: a reply typed on the phone
\* pauses the bot and a message of the customer starts it, once the live handler of a
\* running runner has seen it, unless the history batch had it first or, of the
\* customer's, the bot was switched off when it came.
NewIsActedOn ==
    \A p \in handled :
        /\ p \in Phone => p \in paused \cup past
        /\ p \in Customer => engaged[p] > 0 \/ p \in past \cup muted

\* No message is reported to the cloud twice by the live paths (answer and echo): one
\* sent from here only if its echo is taken for the operator's, any other only if it was
\* deleted locally and delivered again.
ReportedOnce ==
    [][\A p \in Names : 0 < reports[p] /\ reports[p] < reports'[p] =>
          p \in (Calls \cap paused') \cup (deleted \ Calls)]_vars

\* Whatever order receipts, recalls and the worker run in, a row the cloud should
\* know is queued, or what would be posted of it now has been: an action that
\* finds its row unsent is dropped, and the next change of the row queues another.
\* That a message from here was recalled the cloud sees by its content alone.
SentReachesCloud ==
    \A r \in RowIds : CanReport(r) => r \in jobs \/ Payload(r) \in synced

\* A row that is queued or sending has a call at work on it, except where the index
\* refused the answer of a retry (or of the bot) or the process died.
PendingIsOwned ==
    \A r \in RowIds : Exists(r) /\ rows[r].status \in {"queued", "sending"} =>
        \E i \in Calls : call[i].row = r /\ (InFlight(i) \/ call[i].pc \in {"refused", "dead"})

\* A message Zalo confirmed is not shown as failed: the channel sends the client id
\* of the app so that the echo can be matched.  It does not hold of an echo that comes before
\* the answer.
ConfirmedIsNotFailed ==
    \A i \in Sends : call[i].pc \in {"done", "refused"} =>
        rows[call[i].row].status # "failed" \/ \E y \in Retries : call[y].row = call[i].row
-----------------------------------------------------------------------------
(* The inductive invariants behind the theorems of ChatMessagesProofs. *)

\* What no call from here has sent.
Foreign == Customer \cup Phone

\* In the rows, the names and the client ids of foreign messages go together.
RowsApart ==
    /\ \A r \in RowIds, p \in Foreign : rows[r].name = p <=> rows[r].cid.of = p
    /\ \A s \in Sends : rows[<<s, 0>>].name \notin Foreign

\* The names and the client ids of foreign messages are theirs alone: none is a call's.
CidInv ==
    /\ \A p \in Foreign : cidOf[p] = NoCid \/ cidOf[p].of = p
    /\ \A q \in Names \ Foreign : cidOf[q].of \notin Foreign
    /\ \A q \in live \cup handled \cup missed : q \in Foreign => cidOf[q] # NoCid
    /\ \A i \in Calls : call[i].cid.of \notin Foreign
    /\ pin.to.of \notin Foreign
    /\ marks \cap Foreign = {} /\ \A c \in marks \cap Cids : c.of \notin Foreign
    /\ RowsApart

\* A message of the customer that was stored still is, unless it was deleted.
StoredInv ==
    /\ \A p \in Customer \ deleted :
          /\ inserts[p] <= 1 /\ engaged[p] <= inserts[p]
          /\ WithName(p) = {} => inserts[p] = 0
    /\ Customer \cap deleted = {} =>
           unread <= Cardinality({p \in Customer : inserts[p] > 0})

\* A foreign message in the table has been acted on, or came as history first.
Acted(p) ==
    \/ p \in past \/ (p \in Phone /\ p \in paused)
    \/ p \in Customer /\ (engaged[p] > 0 \/ p \in muted)
HeardInv ==
    \A p \in Foreign : WithName(p) # {} \/ p \in handled => Acted(p)

\* The client ids that the row of a send may have, and those that have been in use.
SendCids(s) == {Cid(s, "stamp")} \cup {Cid(o, "prefixed") : o \in Operator \cap {s}}
Launched == {Cid(s, "stamp") : s \in {s \in Sends : call[s].pc # "idle"}}

\* A call works with the client id of its row, and Zalo gets it, one of another send that
\* pins the clock, or one of the library's.
OwnInv ==
    /\ \A s \in Sends : Exists(<<s, 0>>) =>
           call[s].pc # "idle" /\ rows[<<s, 0>>].cid \in SendCids(s)
    /\ \A i \in Calls : call[i].pc # "idle" =>
           call[i].cid \in SendCids(call[i].row[1]) /\ call[call[i].row[1]].pc # "idle"
    /\ \A i \in Calls : /\ cidOf[i] \in {NoCid, Cid(i, "library")} \cup Launched
                        /\ call[i].pc \in {"idle", "queued"} => cidOf[i] = NoCid
    /\ pin.by # {} => pin.to \in Launched

\* A client id in use has a mark, or had one; so has the name of an answered message. What
\* was answered, or comes back, was sent with a client id.
MarkInv ==
    /\ \A i \in Calls : cidOf[i].form = "stamp" => cidOf[i] \in marks \cup gone
    /\ pin.by # {} => pin.to \in marks \cup gone
    /\ \A i \in Calls : call[i].pc \in {"done", "refused"} => i \in marks \cup gone
    /\ \A i \in Calls :
          i \in live \cup handled \cup missed \/ call[i].pc \in {"accepted", "done", "refused"} =>
              cidOf[i] # NoCid

\* A row that was inserted for a message has its client id, no two rows have one client
\* id, and a row is named by a call that works on it or by a message with its client id.
RowInv ==
    /\ \A q \in RowIds \ (Sends \X {0}) : Exists(q) =>
           rows[q].cid = cidOf[q[1]] /\ cidOf[q[1]] # NoCid
    /\ \A q, r \in RowIds : Exists(q) /\ Exists(r) /\ rows[q].cid = rows[r].cid => q = r
    /\ \A q \in RowIds, i \in Calls : Exists(q) /\ rows[q].name = i =>
           cidOf[i] # NoCid /\ (q = call[i].row \/ rows[q].cid = cidOf[i])

\* The row of a call stays until it is deleted, and has the client id without its prefix
\* once the call was answered.
StandInv ==
    /\ \A i \in Calls \ deleted : call[i].pc # "idle" => Exists(call[i].row)
    /\ \A i \in Calls : call[i].pc = "done" /\ Exists(call[i].row) =>
           rows[call[i].row].cid = Stamp(call[i].cid)

\* Where a row has the client id of a send of the app, or the name of a call before its
\* answer, or a call was refused, a message came too early or displaced the send.
PlaceInv ==
    /\ \A s \in Operator, q \in RowIds \ (Sends \X {0}) :
           Exists(q) /\ Exists(<<s, 0>>) /\ rows[q].cid = Cid(s, "stamp") => Displaced(s)
    /\ \A q \in RowIds, i \in Calls : Exists(q) /\ rows[q].name = i /\ InFlight(i) => i \in early
    /\ \A i \in Calls : call[i].pc = "refused" => RefusedFor(i)

\* A foreign message that was reported is in the table, unless it was deleted; of a call,
\* the echo was reported, or the answer was.
ReportInv ==
    /\ \A p \in Foreign \ deleted : reports[p] > 0 => WithName(p) # {}
    /\ \A i \in Calls : reports[i] > 0 => i \in paused \/ call[i].pc = "done"
=============================================================================
