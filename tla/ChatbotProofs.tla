----------------------------- MODULE ChatbotProofs -----------------------------
(***************************************************************************)
(* What ChatbotReply guarantees for every set of messages and every size   *)
(* of the debouncer's buffer, and ChatbotAudit for every set of audits and *)
(* of passes.                                                              *)
(***************************************************************************)
EXTENDS ChatbotReply, ChatbotAudit, SequenceTheorems, TLAPS

USE ChatbotAssumption

-----------------------------------------------------------------------------
(* The debouncer *)

\* A push keeps the buffer within its limit and adds nothing but its message.
LEMMA PushBuffer ==
    ASSUME buffer \in Seq(Msgs), Len(buffer) <= MaxItems,
           NEW m \in Msgs, Push(m)
    PROVE  /\ buffer' \in Seq(Msgs) /\ Len(buffer') <= MaxItems
           /\ Buffered' \subseteq Buffered \cup {m}
<1>1. CASE Len(buffer) < MaxItems
  <2>1. buffer' = Append(buffer, m)
    BY <1>1 DEF Push
  <2> QED BY <1>1, <2>1 DEF Buffered
<1>2. CASE Len(buffer) >= MaxItems
  <2>1. buffer' = Append(Tail(buffer), m)
    BY <1>2 DEF Push
  <2>2. buffer # <<>>
    BY <1>2
  <2>3. Tail(buffer) \in Seq(Msgs) /\ Len(Tail(buffer)) = Len(buffer) - 1
    BY <2>2
  <2>4. \A i \in 1 .. Len(Tail(buffer)) : Tail(buffer)[i] = buffer[i + 1]
    BY <2>2
  <2>5. buffer' \in Seq(Msgs) /\ Len(buffer') = Len(buffer)
    BY <2>1, <2>3
  <2>6. ASSUME NEW i \in 1 .. Len(buffer')
        PROVE  buffer'[i] \in Buffered \cup {m}
    <3>1. CASE i = Len(buffer')
      BY <2>1, <2>3, <2>5, <3>1
    <3>2. CASE i # Len(buffer')
      <4>1. i \in 1 .. Len(Tail(buffer)) /\ i + 1 \in 1 .. Len(buffer)
        <5>1. Len(buffer) \in Nat /\ i \in 1 .. Len(buffer) /\ i # Len(buffer)
          BY <2>5, <3>2
        <5>2. i \in 1 .. (Len(buffer) - 1) /\ i + 1 \in 1 .. Len(buffer)
          BY <5>1
        <5> QED BY <2>3, <5>2
      <4>2. buffer'[i] = buffer[i + 1]
        BY <2>1, <2>3, <2>4, <4>1
      <4> QED BY <4>1, <4>2 DEF Buffered
    <3> QED BY <3>1, <3>2
  <2> QED BY <2>5, <2>6 DEF Buffered
<1> QED BY <1>1, <1>2

\* An empty buffer is within any limit.
LEMMA EmptyBuffer == <<>> \in Seq(Msgs) /\ Len(<<>>) <= MaxItems
OBVIOUS

\* What is buffered is a set of messages; an empty buffer has none.
LEMMA BufferedMsgs ==
    /\ buffer \in Seq(Msgs) => Buffered \subseteq Msgs
    /\ buffer = <<>> => Buffered = {}
BY DEF Buffered

-----------------------------------------------------------------------------
(* Types *)

\* Every step keeps the types and the limit of the buffer.
LEMMA TypeStep == TypeOK /\ [Next]_vars => TypeOK'
<1> SUFFICES ASSUME TypeOK, [Next]_vars PROVE TypeOK'
    OBVIOUS
<1> USE DEF TypeOK
<1>1. ASSUME NEW m \in Msgs, Inbound(m) PROVE TypeOK'
  <2>1. buffer' \in Seq(Msgs) /\ Len(buffer') <= MaxItems
    BY <1>1, PushBuffer DEF Inbound
  <2> QED BY <1>1, <2>1 DEF Inbound, flushes
<1>2. ASSUME NEW f \in Msgs, FlushStep(f) PROVE TypeOK'
  <2>1. Eligible \subseteq Msgs /\ Buffered \subseteq Msgs
    BY BufferedMsgs DEF Eligible
  <2>2. CASE FlushAborts(f)
    BY <2>2 DEF FlushAborts, Flush, flushes, mode
  <2>3. CASE FlushSkips(f)
    BY <2>1, <2>3 DEF FlushSkips, Flush, Ends, mode
  <2>4. CASE FlushHandsOff(f)
    BY <2>1, <2>4 DEF FlushHandsOff, Flush, Ends, SetConversationState
  <2>5. ASSUME NEW ai \in BOOLEAN, FlushEngages(f, ai) PROVE TypeOK'
    BY <2>1, <2>5 DEF FlushEngages, Flush, mode, Parts
  <2>6. ASSUME NEW parts \in SUBSET Parts, AiAnswers(f, parts) PROVE TypeOK'
    BY <2>6 DEF AiAnswers, mode
  <2>7. CASE AiFails(f)
    BY <2>7 DEF AiFails, HandsOff, Lost, Ends, SetConversationState, mode
  <2>8. CASE TypingEnds(f)
    BY <2>8 DEF TypingEnds, StartsSend, HandsOff, Lost, Ends,
                SetConversationState, mode
  <2>9. CASE Delivers(f)
    <3>1. ASSUME NEW part \in Parts, Left(f, part)
          PROVE  replies' \in [Msgs -> [Parts -> Nat]]
      BY <3>1 DEF Left
    <3>2. replies' \in [Msgs -> [Parts -> Nat]]
      BY <2>9, <3>1 DEF Delivers, Parts
    <3>3. phase' \in [Msgs -> {"idle", "ai", "typing", "sending", "sent",
                              "attaching", "attached", "done", "lost"}]
      BY <2>9 DEF Delivers
    <3> QED BY <2>9, <3>2, <3>3 DEF Delivers, mode
  <2>10. ASSUME NEW ok \in BOOLEAN, TextReturns(f, ok) PROVE TypeOK'
    BY <2>10 DEF TextReturns, StartsSend, HandsOff, Finishes, Lost, Ends,
                 SetConversationState, mode
  <2>11. ASSUME NEW ok \in BOOLEAN, FileReturns(f, ok) PROVE TypeOK'
    BY <2>11 DEF FileReturns, HandsOff, Finishes, Lost, Ends,
                 SetConversationState, mode
  <2> QED BY <1>2, <2>2, <2>3, <2>4, <2>5, <2>6, <2>7, <2>8, <2>9, <2>10, <2>11
          DEF FlushStep
<1>3. CASE OperatorStep
    BY <1>3 DEF OperatorStep, OperatorReplied, PauseElapses, OperatorSets,
                SetConversationState, flushes
<1>4. CASE StopRuntime \/ StartRuntime
    BY <1>4, EmptyBuffer DEF StopRuntime, StartRuntime, flushes, mode
<1>5. CASE Crash
    BY <1>5, EmptyBuffer DEF Crash, mode
<1>6. CASE UNCHANGED vars
    BY <1>6 DEF vars, flushes, mode
<1> QED BY <1>1, <1>2, <1>3, <1>4, <1>5, <1>6 DEF Next

\* The type invariant, with the buffer within maxItems.
THEOREM TypeCorrect == Spec => []TypeOK
<1>1. Init => TypeOK
  <2> SUFFICES ASSUME Init PROVE TypeOK
    OBVIOUS
  <2>1. /\ {} \in SUBSET Msgs /\ {} \in SUBSET Parts
        /\ [p \in Parts |-> 0] \in [Parts -> Nat]
    OBVIOUS
  <2>2. /\ batch \in [Msgs -> SUBSET Msgs] /\ plan \in [Msgs -> SUBSET Parts]
        /\ replies \in [Msgs -> [Parts -> Nat]]
    BY <2>1 DEF Init
  <2> QED BY <2>2, EmptyBuffer DEF Init, TypeOK
<1> QED BY <1>1, TypeStep, PTL DEF Spec
-----------------------------------------------------------------------------
(* Batches *)

\* A step that buffers nothing and leaves batches and messages alone.
LEMMA BatchFrame ==
    ASSUME BatchInv, batch' = batch, stored' = stored,
           buffer' = buffer \/ buffer' = <<>>
    PROVE  BatchInv'
<1>1. Buffered' \subseteq Buffered
    BY DEF Buffered
<1> QED BY <1>1 DEF BatchInv

\* A flush takes a part of the buffer as its batch and drops the rest.
LEMMA BatchTaken ==
    ASSUME TypeOK, BatchInv, NEW f \in Msgs, NEW taken \in SUBSET Buffered,
           buffer' = <<>>, batch' = [batch EXCEPT ![f] = taken],
           stored' = stored
    PROVE  BatchInv'
<1>1. Buffered' = {}
    BY DEF Buffered
<1>2. \A g \in Msgs : batch'[g] = IF g = f THEN taken ELSE batch[g]
    BY DEF TypeOK
<1>3. \A g \in Msgs : batch'[g] \subseteq stored'
    BY <1>2 DEF BatchInv
<1>4. \A g, h \in Msgs : g # h => batch'[g] \cap batch'[h] = {}
    BY <1>2 DEF BatchInv
<1> QED BY <1>1, <1>3, <1>4 DEF BatchInv

\* Every step keeps a message in the buffer or in one batch at most.
LEMMA BatchStep == TypeOK /\ BatchInv /\ [Next]_vars => BatchInv'
<1> SUFFICES ASSUME TypeOK, BatchInv, [Next]_vars PROVE BatchInv'
    OBVIOUS
<1>1. ASSUME NEW m \in Msgs, Inbound(m) PROVE BatchInv'
  <2>1. Buffered' \subseteq Buffered \cup {m}
    <3>1. CASE Push(m)
      BY <3>1, PushBuffer DEF TypeOK
    <3>2. CASE buffer' = buffer
      BY <3>2 DEF Buffered
    <3> QED BY <1>1, <3>1, <3>2 DEF Inbound
  <2>2. m \notin stored /\ stored' = stored \cup {m} /\ batch' = batch
    BY <1>1 DEF Inbound, flushes
  <2> QED BY <2>1, <2>2 DEF BatchInv
<1>2. ASSUME NEW f \in Msgs, FlushStep(f) PROVE BatchInv'
  <2>1. CASE FlushAborts(f)
    BY <2>1, BatchFrame DEF FlushAborts, Flush, flushes
  <2>2. CASE FlushSkips(f)
    BY <2>2, BatchTaken DEF FlushSkips, Flush
  <2>3. Eligible \in SUBSET Buffered
    BY DEF Eligible
  <2>4. CASE FlushHandsOff(f)
    BY <2>3, <2>4, BatchTaken DEF FlushHandsOff, Flush
  <2>5. ASSUME NEW ai \in BOOLEAN, FlushEngages(f, ai) PROVE BatchInv'
    BY <2>3, <2>5, BatchTaken DEF FlushEngages, Flush
  <2>6. ASSUME NEW parts \in SUBSET Parts, AiAnswers(f, parts) PROVE BatchInv'
    BY <2>6, BatchFrame DEF AiAnswers
  <2>7. CASE AiFails(f) \/ TypingEnds(f) \/ Delivers(f)
    BY <2>7, BatchFrame DEF AiFails, TypingEnds, Delivers
  <2>8. ASSUME NEW ok \in BOOLEAN, TextReturns(f, ok) \/ FileReturns(f, ok)
        PROVE  BatchInv'
    BY <2>8, BatchFrame DEF TextReturns, FileReturns
  <2> QED BY <1>2, <2>1, <2>2, <2>4, <2>5, <2>6, <2>7, <2>8 DEF FlushStep
<1>3. CASE OperatorStep
    BY <1>3, BatchFrame
       DEF OperatorStep, OperatorReplied, PauseElapses, OperatorSets, flushes
<1>4. CASE StopRuntime \/ StartRuntime \/ Crash
    BY <1>4, BatchFrame DEF StopRuntime, StartRuntime, Crash, flushes
<1>5. CASE UNCHANGED vars
    BY <1>5, BatchFrame DEF vars, flushes
<1> QED BY <1>1, <1>2, <1>3, <1>4, <1>5 DEF Next
-----------------------------------------------------------------------------
(* Replies *)

\* A step that sends nothing and moves no flush back before its sends.
LEMMA ReplyFrame ==
    ASSUME ReplyInv, replies' = replies, batch' = batch, stored' = stored,
           buffer' = buffer \/ buffer' = <<>>,
           \A f \in Msgs :
              /\ phase'[f] \in BeforeText => phase[f] \in BeforeText
              /\ phase'[f] \in BeforeFile => phase[f] \in BeforeFile
    PROVE  ReplyInv'
<1>1. Buffered' \subseteq Buffered
    BY DEF Buffered
<1> QED BY <1>1 DEF ReplyInv

\* The messages of a batch just taken were not answered yet.
LEMMA ReplyTaken ==
    ASSUME TypeOK, ReplyInv, NEW f \in Msgs, NEW taken \in SUBSET Buffered,
           buffer' = <<>>, batch' = [batch EXCEPT ![f] = taken],
           stored' = stored, replies' = replies,
           \A g \in Msgs : g # f => phase'[g] = phase[g]
    PROVE  ReplyInv'
<1>1. Buffered' = {}
    BY DEF Buffered
<1>2. \A g \in Msgs : batch'[g] = IF g = f THEN taken ELSE batch[g]
    BY DEF TypeOK
<1>3. \A m \in taken : m \in Msgs /\ replies[m]["text"] = 0 /\ replies[m]["file"] = 0
    BY BufferedMsgs DEF ReplyInv, TypeOK, Parts
<1>4. \A g \in Msgs : \A m \in batch'[g] :
          /\ phase'[g] \in BeforeText => replies'[m]["text"] = 0
          /\ phase'[g] \in BeforeFile => replies'[m]["file"] = 0
    BY <1>2, <1>3 DEF ReplyInv
<1> QED BY <1>1, <1>4 DEF ReplyInv

\* A send answers the messages of its batch, once.
LEMMA ReplySent ==
    ASSUME TypeOK, BatchInv, ReplyInv, NEW f \in Msgs, NEW part \in Parts,
           Left(f, part), batch' = batch, stored' = stored, buffer' = buffer,
           \A g \in Msgs : g # f => phase'[g] = phase[g],
           \/ part = "text" /\ phase[f] = "sending" /\ phase'[f] = "sent"
           \/ part = "file" /\ phase[f] = "attaching" /\ phase'[f] = "attached"
    PROVE  ReplyInv'
<1>1. \A m \in Msgs, p \in Parts :
          replies'[m][p] = IF m \in batch[f] /\ p = part THEN replies[m][p] + 1
                           ELSE replies[m][p]
    BY DEF Left, TypeOK
<1>2. \A m \in batch[f] : m \in Msgs /\ replies[m][part] = 0
    BY DEF ReplyInv, TypeOK, BeforeText, BeforeFile
<1>3. \A m \in Msgs, p \in Parts : replies'[m][p] \in {0, 1}
    BY <1>1, <1>2 DEF ReplyInv
<1>4. Buffered' = Buffered
    BY DEF Buffered
<1>5. \A m \in Msgs : m \in Buffered' \/ m \notin stored' =>
          \A p \in Parts : replies'[m][p] = 0
    BY <1>1, <1>4 DEF ReplyInv, BatchInv
<1>6. ASSUME NEW g \in Msgs, NEW m \in batch'[g]
      PROVE  /\ phase'[g] \in BeforeText => replies'[m]["text"] = 0
             /\ phase'[g] \in BeforeFile => replies'[m]["file"] = 0
  <2>1. m \in Msgs /\ m \in batch[g]
    BY <1>6 DEF TypeOK
  <2>2. CASE g # f
    <3>1. m \notin batch[f]
      BY <2>1, <2>2 DEF BatchInv
    <3> QED BY <1>1, <2>1, <2>2, <3>1 DEF ReplyInv, Parts
  <2>3. CASE g = f
    BY <1>1, <2>1, <2>3 DEF ReplyInv, Parts, BeforeText, BeforeFile
  <2> QED BY <2>2, <2>3
<1> QED BY <1>3, <1>5, <1>6 DEF ReplyInv

\* Every step answers a message of a batch only before its flush got past that.
LEMMA ReplyStep == TypeOK /\ BatchInv /\ ReplyInv /\ [Next]_vars => ReplyInv'
<1> SUFFICES ASSUME TypeOK, BatchInv, ReplyInv, [Next]_vars PROVE ReplyInv'
    OBVIOUS
<1> USE DEF BeforeText, BeforeFile
<1>0. phase \in [Msgs -> {"idle", "ai", "typing", "sending", "sent",
                           "attaching", "attached", "done", "lost"}]
    BY DEF TypeOK
<1>1. ASSUME NEW m \in Msgs, Inbound(m) PROVE ReplyInv'
  <2>1. Buffered' \subseteq Buffered \cup {m}
    <3>1. CASE Push(m)
      BY <3>1, PushBuffer DEF TypeOK
    <3>2. CASE buffer' = buffer
      BY <3>2 DEF Buffered
    <3> QED BY <1>1, <3>1, <3>2 DEF Inbound
  <2>2. /\ m \notin stored /\ stored' = stored \cup {m}
        /\ batch' = batch /\ phase' = phase /\ replies' = replies
    BY <1>1 DEF Inbound, flushes
  <2> QED BY <2>1, <2>2 DEF ReplyInv
<1>2. ASSUME NEW f \in Msgs, FlushStep(f) PROVE ReplyInv'
  <2>1. CASE FlushAborts(f)
    BY <2>1, ReplyFrame DEF FlushAborts, Flush, flushes
  <2>2. CASE FlushSkips(f)
    BY <1>0, <2>2, ReplyTaken DEF FlushSkips, Flush, Ends
  <2>3. Eligible \in SUBSET Buffered
    BY DEF Eligible
  <2>4. CASE FlushHandsOff(f)
    BY <1>0, <2>3, <2>4, ReplyTaken DEF FlushHandsOff, Flush, Ends
  <2>5. ASSUME NEW ai \in BOOLEAN, FlushEngages(f, ai) PROVE ReplyInv'
    BY <1>0, <2>3, <2>5, ReplyTaken DEF FlushEngages, Flush
  <2>6. ASSUME NEW parts \in SUBSET Parts, AiAnswers(f, parts) PROVE ReplyInv'
    BY <1>0, <2>6, ReplyFrame DEF AiAnswers
  <2>7. CASE AiFails(f)
    BY <1>0, <2>7, ReplyFrame DEF AiFails, HandsOff, Lost, Ends
  <2>8. CASE TypingEnds(f)
    BY <1>0, <2>8, ReplyFrame DEF TypingEnds, StartsSend, HandsOff, Lost, Ends
  <2>9. CASE Delivers(f)
    BY <1>0, <2>9, ReplySent DEF Delivers, Parts
  <2>10. ASSUME NEW ok \in BOOLEAN, TextReturns(f, ok) PROVE ReplyInv'
    BY <1>0, <2>10, ReplyFrame
       DEF TextReturns, StartsSend, HandsOff, Finishes, Lost, Ends
  <2>11. ASSUME NEW ok \in BOOLEAN, FileReturns(f, ok) PROVE ReplyInv'
    BY <1>0, <2>11, ReplyFrame DEF FileReturns, HandsOff, Finishes, Lost, Ends
  <2> QED BY <1>2, <2>1, <2>2, <2>4, <2>5, <2>6, <2>7, <2>8, <2>9, <2>10, <2>11
          DEF FlushStep
<1>3. CASE OperatorStep
    BY <1>3, ReplyFrame
       DEF OperatorStep, OperatorReplied, PauseElapses, OperatorSets, flushes
<1>4. CASE StopRuntime \/ StartRuntime
    BY <1>4, ReplyFrame DEF StopRuntime, StartRuntime, flushes
<1>5. CASE Crash
    BY <1>5, ReplyFrame DEF Crash
<1>6. CASE UNCHANGED vars
    BY <1>6, ReplyFrame DEF vars, flushes
<1> QED BY <1>1, <1>2, <1>3, <1>4, <1>5, <1>6 DEF Next

\* A customer's message is answered at most once, part by part, whatever
\* overlaps, fails, stops or dies.
THEOREM AnswersOnce == Spec => []AnsweredOnce
<1>1. Init => BatchInv /\ ReplyInv
  <2> SUFFICES ASSUME Init PROVE BatchInv /\ ReplyInv
    OBVIOUS
  <2>1. Buffered = {} /\ stored = {} /\ \A f \in Msgs : batch[f] = {}
    BY BufferedMsgs DEF Init
  <2>2. \A m \in Msgs, p \in Parts : replies[m][p] = 0
    BY DEF Init
  <2> QED BY <2>1, <2>2 DEF BatchInv, ReplyInv
<1>2. ReplyInv => AnsweredOnce
    BY DEF ReplyInv, AnsweredOnce
<1> QED BY <1>1, <1>2, TypeCorrect, BatchStep, ReplyStep, PTL DEF Spec
-----------------------------------------------------------------------------
(* Silence *)

\* A step that hears and opens nothing and engages no flush.
LEMMA HeardFrame ==
    ASSUME HeardInv, heard' = heard, stored' = stored,
           Silenced' \/ conv' = conv,
           \A f \in Msgs : phase'[f] \in Engaged =>
               phase[f] \in Engaged /\ batch'[f] = batch[f]
    PROVE  HeardInv'
BY DEF HeardInv, Silenced

\* The bot may speak again: all that was written so far is heard.
LEMMA HeardReopened ==
    ASSUME BatchInv, HeardInv, SetConversationState("enabled"),
           stored' = stored, batch' = batch, phase' = phase
    PROVE  HeardInv'
BY DEF BatchInv, HeardInv, SetConversationState

\* Every step engages a flush only with messages that were heard.
LEMMA HeardStep == TypeOK /\ BatchInv /\ HeardInv /\ [Next]_vars => HeardInv'
<1> SUFFICES ASSUME TypeOK, BatchInv, HeardInv, [Next]_vars PROVE HeardInv'
    OBVIOUS
<1> USE DEF Engaged, BeforeText, BeforeFile, Silenced
<1>0. /\ phase \in [Msgs -> {"idle", "ai", "typing", "sending", "sent",
                             "attaching", "attached", "done", "lost"}]
      /\ batch \in [Msgs -> SUBSET Msgs]
      /\ conv \in {"none", "enabled", "paused", "handoff", "disabled_by_operator"}
    BY DEF TypeOK
<1>1. ASSUME NEW m \in Msgs, Inbound(m) PROVE HeardInv'
    BY <1>0, <1>1 DEF Inbound, flushes, HeardInv
<1>2. ASSUME NEW f \in Msgs, FlushStep(f) PROVE HeardInv'
  <2>1. CASE FlushAborts(f)
    BY <2>1, HeardFrame DEF FlushAborts, flushes, mode
  <2>2. CASE FlushSkips(f)
    BY <1>0, <2>2, HeardFrame DEF FlushSkips, Ends, mode
  <2>3. CASE FlushHandsOff(f)
    BY <1>0, <2>3, HeardFrame DEF FlushHandsOff, Ends, SetConversationState
  <2>4. ASSUME NEW ai \in BOOLEAN, FlushEngages(f, ai) PROVE HeardInv'
    <3>1. Eligible \subseteq heard
      BY <2>4 DEF FlushEngages, Eligible, BatchInv, HeardInv
    <3>2. \A g \in Msgs : batch'[g] = IF g = f THEN Eligible ELSE batch[g]
      BY <1>0, <2>4 DEF FlushEngages
    <3> QED BY <1>0, <2>4, <3>1, <3>2 DEF FlushEngages, HeardInv, mode
  <2>5. ASSUME NEW parts \in SUBSET Parts, AiAnswers(f, parts) PROVE HeardInv'
    BY <1>0, <2>5, HeardFrame DEF AiAnswers, mode
  <2>6. CASE AiFails(f)
    BY <1>0, <2>6, HeardFrame
       DEF AiFails, HandsOff, Lost, Ends, SetConversationState, mode
  <2>7. CASE TypingEnds(f)
    BY <1>0, <2>7, HeardFrame
       DEF TypingEnds, StartsSend, HandsOff, Lost, Ends, SetConversationState, mode
  <2>8. CASE Delivers(f)
    BY <1>0, <2>8, HeardFrame DEF Delivers, mode
  <2>9. ASSUME NEW ok \in BOOLEAN, TextReturns(f, ok) PROVE HeardInv'
    BY <1>0, <2>9, HeardFrame
       DEF TextReturns, StartsSend, HandsOff, Finishes, Lost, Ends,
           SetConversationState, mode
  <2>10. ASSUME NEW ok \in BOOLEAN, FileReturns(f, ok) PROVE HeardInv'
    BY <1>0, <2>10, HeardFrame
       DEF FileReturns, HandsOff, Finishes, Lost, Ends, SetConversationState, mode
  <2> QED BY <1>2, <2>1, <2>2, <2>3, <2>4, <2>5, <2>6, <2>7, <2>8, <2>9, <2>10
          DEF FlushStep
<1>3. CASE OperatorReplied
    BY <1>3, HeardFrame DEF OperatorReplied, SetConversationState, flushes
<1>4. CASE PauseElapses
    BY <1>4, HeardReopened DEF PauseElapses, flushes
<1>5. ASSUME NEW s \in {"enabled", "handoff", "disabled_by_operator"},
             OperatorSets(s)
      PROVE  HeardInv'
  <2>1. CASE s = "enabled"
    BY <1>5, <2>1, HeardReopened DEF OperatorSets, flushes
  <2>2. CASE s # "enabled"
    BY <1>5, <2>2, HeardFrame DEF OperatorSets, SetConversationState, flushes
  <2> QED BY <2>1, <2>2
<1>6. CASE StopRuntime \/ StartRuntime
    BY <1>6, HeardFrame DEF StopRuntime, StartRuntime, flushes, mode
<1>7. CASE Crash
    BY <1>0, <1>7, HeardFrame DEF Crash, InFlight, mode
<1>8. CASE UNCHANGED vars
    BY <1>8, HeardFrame DEF vars, flushes, mode
<1> QED BY <1>1, <1>2, <1>3, <1>4, <1>5, <1>6, <1>7, <1>8 DEF Next, OperatorStep

\* What was heard stays heard.
LEMMA HeardGrows == HeardInv /\ [Next]_vars => heard \subseteq heard'
BY DEF HeardInv, Next, Inbound, FlushStep, FlushAborts, FlushSkips, FlushHandsOff,
       FlushEngages, AiAnswers, AiFails, TypingEnds, Delivers, TextReturns,
       FileReturns, HandsOff, Finishes, Lost, StartsSend, OperatorStep,
       OperatorReplied, PauseElapses, OperatorSets, SetConversationState,
       StopRuntime, StartRuntime, Crash, mode, vars

\* Only Zalo taking a message of the bot changes what was answered.
LEMMA RepliesFrame ==
    [Next]_vars => replies' = replies \/ \E f \in Msgs : Delivers(f)
BY DEF Next, Inbound, FlushStep, FlushAborts, FlushSkips, FlushHandsOff,
       FlushEngages, AiAnswers, AiFails, TypingEnds, TextReturns, FileReturns,
       OperatorStep, OperatorReplied, PauseElapses, OperatorSets,
       StopRuntime, StartRuntime, Crash, vars

\* A message that came in while the bot was silenced, and was ever since, is not
\* answered, though flushes look at the conversation's state once only.
THEOREM StaysSilent == Spec => []SilentWhileSilenced
<1>1. Init => HeardInv /\ SilentWhileSilenced /\ BatchInv
  <2> SUFFICES ASSUME Init PROVE HeardInv /\ SilentWhileSilenced /\ BatchInv
    OBVIOUS
  <2>1. Buffered = {} /\ stored = {} /\ \A f \in Msgs : batch[f] = {}
    BY BufferedMsgs DEF Init
  <2> QED BY <2>1 DEF Init, HeardInv, SilentWhileSilenced, BatchInv
<1>2. TypeOK /\ HeardInv /\ SilentWhileSilenced /\ [Next]_vars
          => SilentWhileSilenced'
  <2> SUFFICES ASSUME TypeOK, HeardInv, SilentWhileSilenced, [Next]_vars,
                      NEW m \in Msgs, NEW p \in Parts, replies'[m][p] > 0
               PROVE  m \in heard'
    BY DEF SilentWhileSilenced
  <2>1. CASE replies' = replies
    BY <2>1, HeardGrows DEF SilentWhileSilenced
  <2>2. ASSUME NEW f \in Msgs, Delivers(f) PROVE m \in heard'
    <3>1. CASE m \in batch[f]
      BY <2>2, <3>1, HeardGrows
         DEF Delivers, HeardInv, Engaged, BeforeText, BeforeFile
    <3>2. CASE m \notin batch[f]
      <4>1. replies'[m] = replies[m]
        BY <2>2, <3>2 DEF Delivers, Left
      <4> QED BY <4>1, HeardGrows DEF SilentWhileSilenced
    <3> QED BY <3>1, <3>2
  <2> QED BY <2>1, <2>2, RepliesFrame
<1> QED BY <1>1, <1>2, TypeCorrect, BatchStep, HeardStep, PTL DEF Spec

\* No step but the operator's switch gives a conversation that was handed to a
\* human, or switched off, back to the bot: not the end of a cooldown, a reply of
\* the operator, a flush under way or a restart.
THEOREM OnlyHumansReopen == Spec => HumanReopens
<1>1. [Next]_vars => [(SwitchedOff /\ conv' \in {"enabled", "paused"})
                          => OperatorSets("enabled")]_vars
  <2> SUFFICES ASSUME Next, SwitchedOff, conv' \in {"enabled", "paused"}
               PROVE  OperatorSets("enabled")
    OBVIOUS
  <2> USE DEF SwitchedOff, SetConversationState, mode
  <2>1. ASSUME NEW f \in Msgs, FlushStep(f) PROVE FALSE
    BY <2>1 DEF FlushStep, FlushAborts, FlushSkips, FlushHandsOff, FlushEngages,
           AiAnswers, AiFails, TypingEnds, Delivers, TextReturns, FileReturns,
           HandsOff, Finishes, Lost, StartsSend
  <2>2. CASE \E m \in Msgs : Inbound(m)
    BY <2>2 DEF Inbound
  <2>3. CASE StopRuntime \/ StartRuntime \/ Crash
    BY <2>3 DEF StopRuntime, StartRuntime, Crash
  <2>4. CASE OperatorStep
    BY <2>4 DEF OperatorStep, OperatorReplied, PauseElapses, OperatorSets
  <2> QED BY <2>1, <2>2, <2>3, <2>4 DEF Next
<1> QED BY <1>1, PTL DEF Spec, HumanReopens

-----------------------------------------------------------------------------
(* The audits of the replies *)

\* A row that is deleted leaves the others, each once.
LEMMA DeleteRow ==
    ASSUME queue \in Seq(Audits), IsInjective(queue), NEW a \in Audits
    PROVE  /\ Delete(a) \in Seq(Audits) /\ IsInjective(Delete(a))
           /\ ToSet(Delete(a)) = Queued \ {a}
<1>1. CASE ~ \E i \in 1 .. Len(queue) : queue[i] = a
  <2>1. Delete(a) = queue
    BY <1>1 DEF Delete, RemoveFirst
  <2> QED BY <1>1, <2>1 DEF Queued, ToSet
<1>2. CASE \E i \in 1 .. Len(queue) : queue[i] = a
  <2>1. PICK k \in 1 .. Len(queue) : queue[k] = a
    BY <1>2
  <2>2. {i \in 1 .. Len(queue) : queue[i] = a} = {k}
    BY <2>1 DEF IsInjective
  <2>3. Min({k}) = k
    BY DEF Min
  <2> DEFINE left == SubSeq(queue, 1, k - 1)
             right == SubSeq(queue, k + 1, Len(queue))
  <2>4. Delete(a) = left \o right
    BY <1>2, <2>2, <2>3 DEF Delete, RemoveFirst, RemoveAt, SelectInSeq
  <2>5. left \in Seq(Audits) /\ right \in Seq(Audits)
        /\ Len(left) = k - 1 /\ Len(right) = Len(queue) - k
        /\ (\A i \in 1 .. k - 1 : left[i] = queue[i])
        /\ (\A i \in 1 .. Len(queue) - k : right[i] = queue[k + i])
    BY <2>1
  <2> HIDE DEF left, right
  <2> DEFINE new == left \o right
  <2>6. new \in Seq(Audits) /\ Len(new) = Len(queue) - 1
        /\ \A i \in 1 .. Len(queue) - 1 : new[i] = IF i < k THEN queue[i] ELSE queue[i + 1]
    <3>1. new \in Seq(Audits) /\ Len(new) = Len(left) + Len(right)
          /\ \A i \in 1 .. Len(left) + Len(right) :
                 new[i] = IF i <= Len(left) THEN left[i] ELSE right[i - Len(left)]
      BY <2>5, ConcatProperties
    <3>2. Len(new) = Len(queue) - 1
      BY <2>1, <2>5, <3>1
    <3>3. ASSUME NEW i \in 1 .. Len(queue) - 1
          PROVE  new[i] = IF i < k THEN queue[i] ELSE queue[i + 1]
      <4>1. CASE i < k
        BY <2>1, <2>5, <3>1, <4>1
      <4>2. CASE i >= k
        <5> DEFINE j == i - (k - 1)
        <5>1. j \in 1 .. Len(queue) - k /\ k + j = i + 1
          BY <2>1, <3>3, <4>2
        <5>2. new[i] = right[j]
          BY <2>1, <2>5, <3>1, <3>3, <4>2
        <5>3. right[j] = queue[i + 1]
          <6> HIDE DEF j
          <6> QED BY <2>5, <5>1
        <5> QED BY <4>2, <5>2, <5>3
      <4>3. i < k \/ i >= k
        <5>1. i \in Int /\ k \in Int
          BY <2>1, <3>3
        <5> QED BY <5>1
      <4> QED BY <4>1, <4>2, <4>3
    <3> QED BY <3>1, <3>2, <3>3
  <2> HIDE DEF new
  <2>7. IsInjective(new)
    <3>1. \A i, j \in 1 .. Len(queue) : queue[i] = queue[j] => i = j
      BY <2>1 DEF IsInjective
    <3>2. DOMAIN new = 1 .. Len(queue) - 1
      BY <2>6
    <3>3. ASSUME NEW i \in 1 .. Len(queue) - 1, NEW j \in 1 .. Len(queue) - 1, new[i] = new[j]
          PROVE  i = j
      <4> DEFINE from(m) == IF m < k THEN m ELSE m + 1
      <4>1. from(i) \in 1 .. Len(queue) /\ from(j) \in 1 .. Len(queue)
        BY <2>1
      <4>2. new[i] = queue[from(i)] /\ new[j] = queue[from(j)]
        BY <2>6
      <4>3. from(i) = from(j)
        BY <3>1, <3>3, <4>1, <4>2
      <4> QED BY <2>1, <4>3
    <3> QED BY <3>2, <3>3 DEF IsInjective
  <2>8. ASSUME NEW i \in 1 .. Len(queue), i # k
        PROVE  \E j \in 1 .. Len(new) : new[j] = queue[i]
    <3>1. CASE i < k
      BY <2>1, <2>6, <3>1
    <3>2. CASE i > k
      <4>1. i - 1 \in 1 .. Len(new) /\ new[i - 1] = queue[i]
        BY <2>1, <2>6, <3>2
      <4> QED BY <4>1
    <3> QED BY <2>8, <3>1, <3>2
  <2>9. \A j \in 1 .. Len(new) : \E i \in 1 .. Len(queue) : i # k /\ queue[i] = new[j]
    BY <2>1, <2>6
  <2>10. \A i \in 1 .. Len(queue) : queue[i] = a <=> i = k
    BY <2>1, <2>2
  <2>11. ToSet(new) = Queued \ {a}
    <3>1. ToSet(new) = {new[j] : j \in 1 .. Len(new)}
          /\ Queued = {queue[i] : i \in 1 .. Len(queue)}
      <4>1. DOMAIN new = 1 .. Len(new) /\ DOMAIN queue = 1 .. Len(queue)
        BY <2>6
      <4> QED BY <4>1 DEF Queued, ToSet
    <3>2. ASSUME NEW x \in ToSet(new) PROVE x \in Queued \ {a}
      BY <2>9, <2>10, <3>1
    <3>3. ASSUME NEW x \in Queued \ {a} PROVE x \in ToSet(new)
      BY <2>1, <2>8, <3>1
    <3> QED BY <3>2, <3>3
  <2> QED BY <2>4, <2>6, <2>7, <2>11 DEF new
<1> QED BY <1>1, <1>2

\* What is queued was recorded, and what was recorded is queued or in the cloud.
AuditInv ==
    /\ AuditTypeOK /\ AuditKept /\ Queued \subseteq Recorded

\* An audit that was recorded now is at the end of the queue.
LEMMA AuditRecorded ==
    ASSUME AuditInv, NEW a \in Audits, Record(a) PROVE AuditInv'
<1>1. /\ queue' = Append(queue, a) /\ queue \in Seq(Audits) /\ UNCHANGED <<running, rows, cloud>>
      /\ live' = [live EXCEPT ![a] = "posting"] /\ live[a] = "none"
  BY DEF AuditInv, AuditTypeOK, Record
<1>2. Recorded' = Recorded \cup {a} /\ a \notin Recorded
  BY <1>1 DEF AuditInv, AuditTypeOK, Recorded
<1>3. \A i \in 1 .. Len(queue) : queue[i] # a
  BY <1>1, <1>2 DEF AuditInv, Queued, ToSet
<1>4. /\ queue' \in Seq(Audits) /\ Len(queue') = Len(queue) + 1
      /\ \A i \in 1 .. Len(queue) : queue'[i] = queue[i]
      /\ queue'[Len(queue) + 1] = a
  BY <1>1
<1>5. IsInjective(queue)'
  <2>1. IsInjective(queue)
    BY DEF AuditInv, AuditKept
  <2>2. DOMAIN queue = 1 .. Len(queue) /\ DOMAIN queue' = 1 .. Len(queue) + 1
    BY <1>1, <1>4
  <2> QED BY <1>1, <1>3, <1>4, <2>1, <2>2 DEF IsInjective
<1>6. Queued' = Queued \cup {a}
  <2>1. Queued = {queue[i] : i \in 1 .. Len(queue)}
        /\ Queued' = {queue'[i] : i \in 1 .. Len(queue) + 1}
    BY <1>1, <1>4 DEF Queued, ToSet
  <2> QED BY <1>1, <1>4, <2>1
<1>7. AuditTypeOK'
  BY <1>1, <1>4 DEF AuditInv, AuditTypeOK
<1> QED BY <1>1, <1>2, <1>5, <1>6, <1>7 DEF AuditInv, AuditKept

\* A post that ends: the row goes only if the cloud has the audit.
LEMMA AuditPostEnds ==
    ASSUME AuditInv, NEW a \in Audits, NEW reached \in BOOLEAN, NEW ok \in BOOLEAN,
           Post(a, reached, ok), queue' = queue \/ (ok /\ queue' = Delete(a)),
           live' \in [Audits -> {"none", "posting", "done"}],
           \A b \in Audits : live'[b] = "none" <=> live[b] = "none",
           running' \in BOOLEAN, rows' \in [Passes -> Seq(Audits)]
    PROVE  AuditInv'
<1>1. /\ queue \in Seq(Audits) /\ IsInjective(queue) /\ cloud \subseteq Audits
      /\ Recorded \subseteq Queued \cup cloud
      /\ Queued \subseteq Recorded
  BY DEF AuditInv, AuditTypeOK, AuditKept
<1>2. cloud' \subseteq Audits /\ cloud \subseteq cloud' /\ (ok => a \in cloud')
  BY <1>1 DEF Post
<1>3. Recorded' = Recorded
  BY DEF Recorded
<1>4. CASE queue' = queue
  <2>1. Queued' = Queued /\ IsInjective(queue)'
    BY <1>1, <1>4 DEF Queued, IsInjective
  <2> QED BY <1>1, <1>2, <1>3, <1>4, <2>1 DEF AuditInv, AuditTypeOK, AuditKept
<1>5. CASE ok /\ queue' = Delete(a)
  <2>1. /\ queue' \in Seq(Audits) /\ IsInjective(queue')
        /\ ToSet(queue') = Queued \ {a}
    BY <1>1, <1>5, DeleteRow
  <2>2. Queued' = Queued \ {a} /\ IsInjective(queue)'
    BY <2>1 DEF Queued
  <2> QED BY <1>1, <1>2, <1>3, <1>5, <2>1, <2>2 DEF AuditInv, AuditTypeOK, AuditKept
<1> QED BY <1>4, <1>5

\* The rows a pass lists are of the queue.
LEMMA AuditListed ==
    ASSUME AuditInv PROVE Listed \in Seq(Audits)
<1>1. queue \in Seq(Audits) /\ Limit \in Nat
  BY AuditAssumption DEF AuditInv, AuditTypeOK
<1> QED BY <1>1 DEF Listed

\* Posts, passes, stops and deaths in any order keep every audit the cloud lacks.
LEMMA AuditStep ==
    ASSUME AuditInv, [AuditNext]_auditVars PROVE AuditInv'
<1>1. /\ queue \in Seq(Audits) /\ live \in [Audits -> {"none", "posting", "done"}]
      /\ rows \in [Passes -> Seq(Audits)] /\ running \in BOOLEAN
  BY DEF AuditInv, AuditTypeOK
<1>2. ASSUME UNCHANGED <<queue, cloud>>, running' \in BOOLEAN, rows' \in [Passes -> Seq(Audits)],
             live' \in [Audits -> {"none", "posting", "done"}],
             \A b \in Audits : live'[b] = "none" <=> live[b] = "none"
      PROVE  AuditInv'
  <2>1. Recorded' = Recorded /\ Queued' = Queued
        /\ (IsInjective(queue) => IsInjective(queue)')
    BY <1>2 DEF Recorded, Queued, IsInjective
  <2> QED BY <1>2, <2>1 DEF AuditInv, AuditTypeOK, AuditKept
<1>3. ASSUME NEW a \in Audits, NEW reached \in BOOLEAN, NEW ok \in BOOLEAN,
             LiveReturns(a, reached, ok)
      PROVE  AuditInv'
  <2>1. /\ Post(a, reached, ok)
        /\ queue' = queue \/ (ok /\ queue' = Delete(a))
        /\ live' \in [Audits -> {"none", "posting", "done"}]
        /\ \A b \in Audits : live'[b] = "none" <=> live[b] = "none"
        /\ running' \in BOOLEAN /\ rows' \in [Passes -> Seq(Audits)]
    BY <1>1, <1>3 DEF LiveReturns
  <2> QED BY <2>1, AuditPostEnds
<1>4. ASSUME NEW p \in Passes, NEW reached \in BOOLEAN, NEW ok \in BOOLEAN,
             PassReturns(p, reached, ok)
      PROVE  AuditInv'
  <2>1. Head(rows[p]) \in Audits /\ Tail(rows[p]) \in Seq(Audits)
    BY <1>1, <1>4 DEF PassReturns
  <2>2. /\ Post(Head(rows[p]), reached, ok)
        /\ queue' = queue \/ (ok /\ queue' = Delete(Head(rows[p])))
        /\ UNCHANGED <<live, running>> /\ rows' \in [Passes -> Seq(Audits)]
    BY <1>1, <1>4, <2>1 DEF PassReturns
  <2> QED BY <1>1, <2>1, <2>2, AuditPostEnds
<1>5. ASSUME NEW p \in Passes, PassBegins(p) \/ RuntimeStarts(p) PROVE AuditInv'
  BY <1>1, <1>2, <1>5, AuditListed DEF PassBegins, RuntimeStarts
<1>6. CASE RuntimeStops \/ ProcessDies
  <2>1. <<>> \in Seq(Audits)
    OBVIOUS
  <2> QED BY <1>1, <1>2, <1>6, <2>1 DEF RuntimeStops, ProcessDies
<1>7. CASE UNCHANGED auditVars
  BY <1>1, <1>2, <1>7 DEF auditVars
<1> QED BY <1>3, <1>4, <1>5, <1>6, <1>7, AuditRecorded
        DEF AuditNext, LiveStep, PassStep

\* An audit that was recorded is queued until the cloud has it, whatever becomes of its post,
\* the passes and the process.
THEOREM AuditsAreKept == AuditSpec => []AuditKept
<1>1. AuditInit => AuditInv
  <2> SUFFICES ASSUME AuditInit PROVE AuditInv
    OBVIOUS
  <2>1. queue = <<>> /\ queue \in Seq(Audits) /\ DOMAIN queue = {}
    BY DEF AuditInit
  <2>2. IsInjective(queue) /\ Queued = {}
    BY <2>1 DEF IsInjective, Queued, ToSet
  <2>3. <<>> \in Seq(Audits) /\ Recorded = {}
    BY DEF AuditInit, Recorded
  <2>4. AuditTypeOK
    BY <2>1, <2>3 DEF AuditInit, AuditTypeOK
  <2> QED BY <2>2, <2>3, <2>4 DEF AuditInv, AuditKept
<1>2. AuditInv /\ [AuditNext]_auditVars => AuditInv'
  BY AuditStep
<1>3. AuditInv => AuditKept
  BY DEF AuditInv
<1> QED BY <1>1, <1>2, <1>3, PTL DEF AuditSpec
===============================================================================
