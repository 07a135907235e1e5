---------------------------- MODULE ChatbotReply ----------------------------
(***************************************************************************)
(* The local auto-reply bot in one conversation: the debouncer             *)
(* (chatbot-debounce.ts), LocalChatbotRuntime (chatbot-runtime.ts), the    *)
(* engine and dispatcher (chatbot-engine.ts, chatbot-dispatcher.ts) and    *)
(* the operator's switches (chatbot/index.ts, chatbot-store.ts).           *)
(*                                                                         *)
(* A flush evaluates the messages buffered so far; its awaits (the AI, the *)
(* typing signal, each send) are where other flushes, the operator, a stop *)
(* of the runtime or the death of the process come in.  A flush is named   *)
(* by the newest message of its batch and is done for this module when its *)
(* audit is recorded: ChatbotAudit goes on from there.  SQLite tables      *)
(* survive the process; buffers and flushes do not.                        *)
(*                                                                         *)
(* A message is here what the store holds of it: deleteMessage forgets one *)
(* for good, and if Zalo delivers it again it is stored as another one.    *)
(* The marks of processed messages outlive it, being by provider id, so    *)
(* that the bot may leave the second out, as it may any (Inbound).         *)
(***************************************************************************)
EXTENDS Naturals, Sequences

CONSTANTS
    Msgs,      \* inbound text messages of the conversation, as they are stored
    MaxItems   \* the debouncer keeps at most so many

ASSUME ChatbotAssumption == MaxItems \in Nat \ {0}

VARIABLES
    up,         \* runtime started: chatbotStore is set, inbound is handled
    buffer,     \* the debouncer's pending values
    phase,      \* where the flush named by a message is
    batch,      \* its source messages
    plan,       \* the parts of its reply
    \* tables
    stored,     \* messages
    conv,       \* chatbot_conversation_state, "paused" while pausedUntil lasts
    processed,  \* chatbot_processed_message
    \* history
    replies,    \* how often each part of a reply to a message left
    heard       \* messages since whose arrival the bot was once allowed to speak

flushes == <<phase, batch, plan>>
mode    == <<conv, heard>>
vars    == <<up, buffer, flushes, stored, mode, processed, replies>>

Parts == {"text", "file"}

InFlight(f) == phase[f] \notin {"idle", "done", "lost"}

\* A handoff, or an operator's permanent OFF.
SwitchedOff == conv \in {"handoff", "disabled_by_operator"}

\* Mutant: the temporary pause is not looked at.
SilencedBySwitch == SwitchedOff

\* No row: the default of the audience applies.
Silenced == conv \notin {"none", "enabled"}

SetConversationState(s) ==
    /\ conv' = s
    /\ heard' = IF s = "enabled" THEN stored ELSE heard

-----------------------------------------------------------------------------
(* Inbound messages and the debouncer *)

\* push: the timer starts anew; the oldest value is dropped at the limit.
Push(m) ==
    buffer' = IF Len(buffer) < MaxItems THEN Append(buffer, m)
              ELSE Append(Tail(buffer), m)

\* Mutant: a message Zalo delivers again is taken for a new one.
InboundAgain(m) ==
    /\ up /\ m \notin processed
    /\ stored' = stored \cup {m}
    /\ heard' = IF conv \in {"none", "enabled"} THEN heard \cup {m} ELSE heard
    /\ Push(m)
    /\ UNCHANGED <<up, flushes, conv, processed, replies>>

\* The listener delivers a message that is not in the store yet (any other is
\* a duplicate): it is stored and, where auto-reply applies, buffered.
Inbound(m) ==
    /\ up /\ m \notin stored
    /\ stored' = stored \cup {m}
    /\ heard' = IF conv \in {"none", "enabled"} THEN heard \cup {m} ELSE heard
    /\ Push(m) \/ UNCHANGED buffer
    /\ UNCHANGED <<up, flushes, conv, processed, replies>>

-----------------------------------------------------------------------------
(* A flush *)

Ends(f) == phase' = [phase EXCEPT ![f] = "done"]

Buffered == {buffer[i] : i \in 1 .. Len(buffer)}
Eligible == Buffered \ processed

\* The timer fires: the buffer is taken out, under the name of its newest.
Flush(f) ==
    /\ buffer # <<>> /\ f = buffer[Len(buffer)]
    /\ buffer' = <<>>

\* No config was synced yet, or an operator replied lately: nothing is done.
FlushAborts(f) ==
    /\ Flush(f)
    /\ UNCHANGED <<up, flushes, stored, mode, processed, replies>>

\* The engine does not engage: mode, audience, trigger, nothing eligible,
\* no rule.
FlushSkips(f) ==
    /\ Flush(f) /\ conv # "paused"
    /\ Ends(f)
    /\ batch' = [batch EXCEPT ![f] = Buffered]
    /\ UNCHANGED <<up, plan, stored, mode, processed, replies>>

\* A handoff keyword.
FlushHandsOff(f) ==
    /\ Flush(f) /\ ~ Silenced /\ Eligible # {}
    /\ batch' = [batch EXCEPT ![f] = Eligible]
    /\ SetConversationState("handoff")
    /\ processed' = processed \cup Eligible
    /\ Ends(f)
    /\ UNCHANGED <<up, plan, stored, replies>>

\* A keyword rule matches (its reply is a text), or else the AI is asked.
FlushEngages(f, ai) ==
    /\ Flush(f) /\ ~ Silenced /\ Eligible # {}
    /\ batch' = [batch EXCEPT ![f] = Eligible]
    /\ phase' = [phase EXCEPT ![f] = IF ai THEN "ai" ELSE "typing"]
    /\ plan' = [plan EXCEPT ![f] = IF ai THEN {} ELSE {"text"}]
    /\ UNCHANGED <<up, stored, mode, processed, replies>>

AiAnswers(f, parts) ==
    /\ phase[f] = "ai"
    /\ phase' = [phase EXCEPT ![f] = "typing"]
    /\ plan' = [plan EXCEPT ![f] = parts]
    /\ UNCHANGED <<up, buffer, batch, stored, mode, processed, replies>>

\* chatbotStore is null while the runtime is stopped: the dispatcher throws.
Lost(f) ==
    /\ ~ up
    /\ phase' = [phase EXCEPT ![f] = "lost"]
    /\ UNCHANGED <<mode, processed>>

\* The AI or a send failed: a human takes over, the messages stay unprocessed.
HandsOff(f) ==
    \/ /\ up
       /\ SetConversationState("handoff")
       /\ Ends(f)
       /\ UNCHANGED processed
    \/ Lost(f)

Finishes(f) ==
    \/ /\ up
       /\ processed' = processed \cup batch[f]
       /\ Ends(f)
       /\ UNCHANGED mode
    \/ Lost(f)

AiFails(f) ==
    /\ phase[f] = "ai"
    /\ HandsOff(f)
    /\ UNCHANGED <<up, buffer, batch, plan, stored, replies>>

\* The part's send is under way: nothing is looked at again.
StartsSend(f, part) ==
    /\ phase' = [phase EXCEPT ![f] = IF part = "text" THEN "sending"
                                     ELSE "attaching"]
    /\ UNCHANGED <<mode, processed>>

\* The typing signal was sent or not.  A knowledge file may be missing on this
\* PC; a reply of which nothing is deliverable is a failure.
TypingEnds(f) ==
    /\ phase[f] = "typing"
    /\ IF "text" \in plan[f] THEN StartsSend(f, "text")
       ELSE StartsSend(f, "file") \/ HandsOff(f)
    /\ UNCHANGED <<up, buffer, batch, plan, stored, replies>>

Left(f, part) ==
    replies' = [m \in Msgs |->
        IF m \in batch[f] THEN [replies[m] EXCEPT ![part] = @ + 1]
        ELSE replies[m]]

\* External: Zalo takes the message.
Delivers(f) ==
    /\ \/ phase[f] = "sending" /\ Left(f, "text")
          /\ phase' = [phase EXCEPT ![f] = "sent"]
       \/ phase[f] = "attaching" /\ Left(f, "file")
          /\ phase' = [phase EXCEPT ![f] = "attached"]
    /\ UNCHANGED <<up, buffer, batch, plan, stored, mode, processed>>

\* A failure may hide a delivery; it is not tried again.
TextReturns(f, ok) ==
    /\ phase[f] = "sent" \/ (phase[f] = "sending" /\ ~ ok)
    /\ \/ ~ ok /\ HandsOff(f)
       \/ ok /\ "file" \in plan[f] /\ StartsSend(f, "file")
       \/ ok /\ Finishes(f)
    /\ UNCHANGED <<up, buffer, batch, plan, stored, replies>>

\* A failed file does not undo a text that left.
FileReturns(f, ok) ==
    /\ phase[f] = "attached" \/ (phase[f] = "attaching" /\ ~ ok)
    /\ IF ok \/ "text" \in plan[f] THEN Finishes(f) ELSE HandsOff(f)
    /\ UNCHANGED <<up, buffer, batch, plan, stored, replies>>

-----------------------------------------------------------------------------
(* The operator *)

\* Mutant: any reply of an operator pauses the bot.
PausedAnyway ==
    /\ up
    /\ SetConversationState("paused")
    /\ UNCHANGED <<up, buffer, flushes, stored, processed, replies>>

\* pauseChatbotForOperatorReply, after a send of a human from the CRM or the
\* phone: the cooldown starts, a handoff or a permanent OFF is left alone.
OperatorReplied ==
    /\ up
    /\ ~ SwitchedOff
    /\ SetConversationState("paused")
    /\ UNCHANGED <<up, buffer, flushes, stored, processed, replies>>

PauseElapses ==
    /\ conv = "paused"
    /\ SetConversationState("enabled")
    /\ UNCHANGED <<up, buffer, flushes, stored, processed, replies>>

\* PUT of the conversation's chatbot mode; it ends a pause, too.
OperatorSets(s) ==
    /\ SetConversationState(s)
    /\ UNCHANGED <<up, buffer, flushes, stored, processed, replies>>

-----------------------------------------------------------------------------
(* Runtime and process *)

\* Pending work is cleared; flushes under way are not.
StopRuntime ==
    /\ up /\ up' = FALSE
    /\ buffer' = <<>>
    /\ UNCHANGED <<flushes, stored, mode, processed, replies>>

\* startLocalChatbotRuntime first stops what runs.
StartRuntime ==
    /\ up' = TRUE
    /\ buffer' = <<>>
    /\ UNCHANGED <<flushes, stored, mode, processed, replies>>

Crash ==
    /\ up' = FALSE
    /\ buffer' = <<>>
    /\ phase' = [f \in Msgs |-> IF InFlight(f) THEN "lost" ELSE phase[f]]
    /\ UNCHANGED <<batch, plan, stored, mode, processed, replies>>

-----------------------------------------------------------------------------
Init ==
    /\ up = FALSE /\ buffer = <<>>
    /\ phase = [f \in Msgs |-> "idle"]
    /\ batch = [f \in Msgs |-> {}] /\ plan = [f \in Msgs |-> {}]
    /\ stored = {} /\ processed = {}
    /\ conv = "none"
    /\ replies = [m \in Msgs |-> [p \in Parts |-> 0]]
    /\ heard = {}

FlushStep(f) ==
    \/ FlushAborts(f) \/ FlushSkips(f) \/ FlushHandsOff(f)
    \/ \E ai \in BOOLEAN : FlushEngages(f, ai)
    \/ \E parts \in SUBSET Parts \ {{}} : AiAnswers(f, parts)
    \/ AiFails(f) \/ TypingEnds(f) \/ Delivers(f)
    \/ \E ok \in BOOLEAN : TextReturns(f, ok) \/ FileReturns(f, ok)

OperatorStep ==
    \/ OperatorReplied \/ PauseElapses
    \/ \E s \in {"enabled", "handoff", "disabled_by_operator"} : OperatorSets(s)

Next ==
    \/ \E m \in Msgs : Inbound(m) \/ FlushStep(m)
    \/ OperatorStep
    \/ StopRuntime \/ StartRuntime \/ Crash

Spec == Init /\ [][Next]_vars

-----------------------------------------------------------------------------
TypeOK ==
    /\ up \in BOOLEAN
    /\ buffer \in Seq(Msgs) /\ Len(buffer) <= MaxItems
    /\ phase \in [Msgs -> {"idle", "ai", "typing", "sending", "sent",
                           "attaching", "attached", "done", "lost"}]
    /\ batch \in [Msgs -> SUBSET Msgs] /\ plan \in [Msgs -> SUBSET Parts]
    /\ stored \subseteq Msgs /\ processed \subseteq Msgs
    /\ conv \in {"none", "enabled", "paused", "handoff", "disabled_by_operator"}
    /\ replies \in [Msgs -> [Parts -> Nat]]
    /\ heard \subseteq Msgs

\* A customer's message is answered at most once, part by part, though Zalo
\* delivers it again, flushes overlap, sends fail ambiguously and the process
\* restarts.  One that was deleted meanwhile and is delivered again is another one:
\* nothing but the mark of the first keeps the bot from answering that as well.
AnsweredOnce == \A m \in Msgs, p \in Parts : replies[m][p] <= 1

\* A message that came in while the bot was silenced, and was ever since, is
\* not answered.
SilentWhileSilenced ==
    \A m \in Msgs : (\E p \in Parts : replies[m][p] > 0) => m \in heard

\* The bot comes back from a handoff or a permanent OFF by the operator's
\* switch only (chatbot/index.ts: a reply of an operator leaves them untouched).
HumanReopens ==
    [][(SwitchedOff /\ conv' \in {"enabled", "paused"})
           => OperatorSets("enabled")]_vars

\* No reply is begun while an operator's cooldown lasts (agent-runner.ts: so AI
\* doesn't talk over the human).
\* It does not hold: the state is read before the AI is awaited, and not again.
SilentInCooldown ==
    [][\A f \in Msgs :
           phase[f] \notin {"sending", "attaching"}
               /\ phase'[f] \in {"sending", "attaching"} => conv # "paused"]_vars
-----------------------------------------------------------------------------
(* The inductive invariants behind the theorems of ChatbotProofs. *)

BeforeText == {"ai", "typing", "sending"}
BeforeFile == BeforeText \cup {"sent", "attaching"}
Engaged    == BeforeFile \cup {"attached"}

\* A message passes once from the buffer to one batch, and nothing was sent in
\* answer to it before its flush got there.
BatchInv ==
    /\ Buffered \subseteq stored
    /\ \A f \in Msgs : batch[f] \subseteq stored \ Buffered
    /\ \A f, g \in Msgs : f # g => batch[f] \cap batch[g] = {}

ReplyInv ==
    /\ \A m \in Msgs, p \in Parts : replies[m][p] \in {0, 1}
    /\ \A m \in Msgs : m \in Buffered \/ m \notin stored =>
          \A p \in Parts : replies[m][p] = 0
    /\ \A f \in Msgs : \A m \in batch[f] :
          /\ phase[f] \in BeforeText => replies[m]["text"] = 0
          /\ phase[f] \in BeforeFile => replies[m]["file"] = 0

\* Whoever writes to a bot that may speak is heard, and stays so.
HeardInv ==
    /\ heard \subseteq stored
    /\ ~ Silenced => stored \subseteq heard
    /\ \A f \in Msgs : phase[f] \in Engaged => batch[f] \subseteq heard

IInv == TypeOK /\ BatchInv /\ ReplyInv /\ HeardInv /\ SilentWhileSilenced
=============================================================================
