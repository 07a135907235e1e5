--------------------------- MODULE CampaignProofs ---------------------------
(***************************************************************************)
(* What Campaign guarantees for every number of commands, campaigns and    *)
(* recipients, however many writes of the in-flight file fail.             *)
(***************************************************************************)
EXTENDS Campaign, TLAPS

USE CampaignAssumption

-----------------------------------------------------------------------------
(* The record file *)

\* Beginning a campaign writes a well-formed file.
LEMMA BeginType ==
    ASSUME NEW file \in [Campaigns -> ProgressRecord \cup {NoRecord}],
           NEW c \in Starts
    PROVE  beginCampaign(file, c) \in [Campaigns -> ProgressRecord \cup {NoRecord}]
BY DEF beginCampaign, ProgressRecord, Recipients

\* So does a progress update, whether its entry is still there or not.
LEMMA UpdateType ==
    ASSUME NEW file \in [Campaigns -> ProgressRecord \cup {NoRecord}],
           NEW k \in Campaigns, NEW n \in 0 .. Total,
           NEW ok \in SUBSET Recipients
    PROVE  updateCampaign(file, k, n, ok) \in
               [Campaigns -> ProgressRecord \cup {NoRecord}]
BY DEF updateCampaign, ProgressRecord

\* So does the removal of an entry.
LEMMA FinishType ==
    ASSUME NEW file \in [Campaigns -> ProgressRecord \cup {NoRecord}],
           NEW k \in Campaigns
    PROVE  finishCampaign(file, k) \in [Campaigns -> ProgressRecord \cup {NoRecord}]
BY DEF finishCampaign

DiskType == [file   : [Campaigns -> ProgressRecord \cup {NoRecord}],
             missed : SUBSET Campaigns, faults : Nat]

\* A write goes through, fails, or empties the file.
LEMMA OutcomeCases ==
    ASSUME NEW d, NEW new, NEW k, NEW mended, NEW e \in Outcomes(d, new, k, mended)
    PROVE  \/ e.file = new /\ e.missed = d.missed \ mended
           \/ e.file = d.file /\ e.missed = d.missed \cup {k}
           \/ e.file = EmptyFile /\ e.missed = {}
BY DEF Outcomes

\* Whatever becomes of a write, the file is well formed.
LEMMA OutcomesType ==
    ASSUME NEW d \in DiskType, NEW k \in Campaigns, NEW mended,
           NEW new \in [Campaigns -> ProgressRecord \cup {NoRecord}]
    PROVE  Outcomes(d, new, k, mended) \subseteq DiskType
<1>1. EmptyFile \in [Campaigns -> ProgressRecord \cup {NoRecord}]
  BY DEF EmptyFile
<1>2. /\ d.file \in [Campaigns -> ProgressRecord \cup {NoRecord}]
      /\ d.missed \in SUBSET Campaigns /\ d.faults \in Nat
  BY DEF DiskType
<1>3. /\ d.missed \ mended \in SUBSET Campaigns /\ {} \in SUBSET Campaigns
      /\ d.missed \cup {k} \in SUBSET Campaigns /\ d.faults + 1 \in Nat
  BY <1>2
<1> QED BY <1>1, <1>2, <1>3 DEF Outcomes, DiskType

\* With no fault allowed every write goes through.
LEMMA FaultlessWrite ==
    ASSUME MaxFaults = 0, NEW d, d.faults \in Nat, NEW new, NEW k, NEW mended,
           NEW e \in Outcomes(d, new, k, mended)
    PROVE  e.file = new /\ e.faults = d.faults
<1>1. ~ (d.faults < MaxFaults)
  OBVIOUS
<1> QED BY <1>1 DEF Outcomes

\* The three writes, from a well-formed file.
LEMMA BegunType ==
    ASSUME NEW d \in DiskType, NEW c \in Starts PROVE Begun(d, c) \subseteq DiskType
<1>1. d.file \in [Campaigns -> ProgressRecord \cup {NoRecord}] /\ CampaignOf[c] \in Campaigns
  BY DEF DiskType
<1> QED BY <1>1, BeginType, OutcomesType DEF Begun

LEMMA UpdatedType ==
    ASSUME NEW d \in DiskType, NEW k \in Campaigns, NEW n \in 0 .. Total,
           NEW ok \in SUBSET Recipients
    PROVE  Updated(d, k, n, ok) \subseteq DiskType
<1>1. d.file \in [Campaigns -> ProgressRecord \cup {NoRecord}]
  BY DEF DiskType
<1> QED BY <1>1, UpdateType, OutcomesType DEF Updated

LEMMA FinishedType ==
    ASSUME NEW d \in DiskType, NEW k \in Campaigns
    PROVE  Finished(d, k) \subseteq DiskType
<1>1. d.file \in [Campaigns -> ProgressRecord \cup {NoRecord}]
  BY DEF DiskType
<1> QED BY <1>1, FinishType, OutcomesType DEF Finished

\* The file in use, before and after a write.
LEMMA DiskTyped == TypeOK => Disk \in DiskType
BY DEF TypeOK, Disk, DiskType

LEMMA BecomesType ==
    ASSUME NEW d \in DiskType, Becomes(d)
    PROVE  /\ inFlight' \in [Campaigns -> ProgressRecord \cup {NoRecord}]
           /\ unwritten' \subseteq Campaigns /\ faults' \in Nat
BY DEF Becomes, DiskType

-----------------------------------------------------------------------------
(* Types *)

\* A loop head with well-typed arguments leaves the run, the sets and the
\* file well typed.
LEMMA IterateType ==
    ASSUME TypeOK, NEW c \in Starts, NEW i \in 0 .. Total,
           NEW active \in SUBSET Campaigns, NEW cancelled \in SUBSET Campaigns,
           NEW d \in DiskType, Iterate(c, i, active, cancelled, d)
    PROVE  /\ runningCampaigns' \subseteq Campaigns
           /\ cancelledCampaigns' \subseteq Campaigns
           /\ pc' \in [Starts -> Phases]
           /\ cur' \in [Starts -> 0 .. Total]
           /\ wasCancelled' \in [Starts -> BOOLEAN]
           /\ inFlight' \in [Campaigns -> ProgressRecord \cup {NoRecord}]
           /\ unwritten' \subseteq Campaigns /\ faults' \in Nat
<1>1. CASE SendRecipient(c, i, cancelled) /\ runningCampaigns' = active
           /\ cancelledCampaigns' = cancelled /\ Becomes(d)
  <2>1. /\ pc' \in [Starts -> Phases] /\ cur' \in [Starts -> 0 .. Total]
        /\ wasCancelled' \in [Starts -> BOOLEAN]
    BY <1>1 DEF SendRecipient, TypeOK, Phases, InLoop
  <2> QED BY <1>1, <2>1, BecomesType
<1>2. CASE LeaveLoop(c, i, cancelled) /\ Retire(c, active, cancelled, d)
  <2>1. PICK e \in Finished(d, CampaignOf[c]) : Becomes(e)
    BY <1>2 DEF Retire
  <2>2. e \in DiskType
    BY <2>1, FinishedType
  <2>3. runningCampaigns' \subseteq Campaigns /\ cancelledCampaigns' \subseteq Campaigns
    BY <1>2 DEF Retire, TypeOK
  <2>4. /\ pc' \in [Starts -> Phases] /\ cur' \in [Starts -> 0 .. Total]
        /\ wasCancelled' \in [Starts -> BOOLEAN]
    BY <1>2 DEF LeaveLoop, TypeOK, Phases
  <2> QED BY <2>1, <2>2, <2>3, <2>4, BecomesType
<1> QED BY <1>1, <1>2 DEF Iterate

\* A closing report keeps what the cloud received well typed.
LEMMA ClosedType ==
    ASSUME TypeOK, NEW c \in Starts, NEW report \in Report, Closed(c, report)
    PROVE  received' \in [Starts -> SUBSET Report]
BY DEF Closed, TypeOK

\* Every step keeps the types.
LEMMA TypeStep == TypeOK /\ CursorInv /\ [Next]_vars => TypeOK'
<1> SUFFICES ASSUME TypeOK, CursorInv, [Next]_vars PROVE TypeOK'
  OBVIOUS
<1>1. ASSUME NEW c \in Starts, CommandStep(c) PROVE TypeOK'
  <2>1. CASE StartCampaign(c)
    <3>1. PICK d \in Begun(Disk, c) :
              Iterate(c, 0, runningCampaigns \cup {CampaignOf[c]},
                      cancelledCampaigns \ {CampaignOf[c]}, d)
      BY <2>1 DEF StartCampaign
    <3>2. d \in DiskType
      BY DiskTyped, BegunType
    <3>3. /\ runningCampaigns \cup {CampaignOf[c]} \in SUBSET Campaigns
          /\ cancelledCampaigns \ {CampaignOf[c]} \in SUBSET Campaigns
          /\ 0 \in 0 .. Total
      BY DEF TypeOK
    <3> QED BY <2>1, <3>1, <3>2, <3>3, IterateType
            DEF StartCampaign, TypeOK, session, reporter
  <2>2. CASE ErrorReported(c) \/ BlockReported(c)
    BY <2>2 DEF ErrorReported, BlockReported, TypeOK, Phases, session, marks, run,
                reporter, disk
  <2>4. CASE RejectStart(c) \/ BlockStart(c) \/ DropStart(c)
    BY <2>4 DEF RejectStart, BlockStart, DropStart, TypeOK, Phases, session,
                marks, reporter, disk
  <2>5. CASE AckAnswered(c) \/ AckFailed(c)
    BY <2>5 DEF AckAnswered, AckFailed, TypeOK, session, marks, run, reporter, disk
  <2> QED BY <1>1, <2>1, <2>2, <2>4, <2>5 DEF CommandStep
<1>2. ASSUME NEW c \in Starts, RunStep(c) PROVE TypeOK'
  <2>1. CASE Deliver(c)
    <3>1. deliveries' \in [Starts -> [Recipients -> Nat]]
      <4>1. /\ deliveries \in [Starts -> [Recipients -> Nat]]
            /\ cur[c] \in Recipients
            /\ deliveries' = [deliveries EXCEPT ![c][cur[c]] = @ + 1]
        BY <2>1 DEF Deliver, TypeOK, CursorInv, Live, InLoop
      <4> QED BY <4>1
    <3> QED BY <2>1, <3>1
            DEF Deliver, TypeOK, Phases, InLoop, session, marks, reporter, disk
  <2>2. ASSUME NEW ok \in BOOLEAN, SendReturns(c, ok) PROVE TypeOK'
    <3> DEFINE done == IF ok THEN succeeded[c] \cup {cur[c]} ELSE succeeded[c]
    <3>1. done \in SUBSET Recipients
      BY <2>2 DEF SendReturns, TypeOK, CursorInv, Live, InLoop
    <3>2. PICK d \in Updated(Disk, CampaignOf[c], cur[c], done) : Becomes(d)
      BY <2>2 DEF SendReturns
    <3>3. d \in DiskType
      BY <3>1, <3>2, DiskTyped, UpdatedType DEF TypeOK
    <3>4. /\ inFlight' \in [Campaigns -> ProgressRecord \cup {NoRecord}]
          /\ unwritten' \subseteq Campaigns /\ faults' \in Nat
      BY <3>2, <3>3, BecomesType
    <3>5. succeeded' \in [Starts -> SUBSET Recipients]
      BY <2>2, <3>1 DEF SendReturns, TypeOK
    <3> QED BY <2>2, <3>4, <3>5
            DEF SendReturns, TypeOK, Phases, InLoop, session, marks, reporter
  <2>3. CASE ProgressReported(c)
    <3>1. CASE cur[c] < Total
      <4>1. /\ pc' = [pc EXCEPT ![c] = "delay"]
            /\ UNCHANGED <<session, marks, cur, succeeded, wasCancelled, ack, reporter, disk,
                           received, deliveries, told>>
        BY <2>3, <3>1 DEF ProgressReported, reporter
      <4> QED BY <4>1 DEF TypeOK, Phases, InLoop, session, marks, reporter, disk
    <3>2. CASE cur[c] = Total
      <4>1. Iterate(c, Total, runningCampaigns, cancelledCampaigns, Disk)
        BY <2>3, <3>2 DEF ProgressReported, TypeOK
      <4>2. Total \in 0 .. Total
        OBVIOUS
      <4>3. /\ runningCampaigns \in SUBSET Campaigns
            /\ cancelledCampaigns \in SUBSET Campaigns
            /\ Disk \in DiskType
        BY DiskTyped DEF TypeOK
      <4> QED BY <2>3, <4>1, <4>2, <4>3, IterateType
              DEF ProgressReported, TypeOK, session, reporter
    <3> QED BY <2>3, <3>1, <3>2 DEF ProgressReported
  <2>4. CASE DelayElapsed(c)
    BY <2>4, DiskTyped, IterateType DEF DelayElapsed, TypeOK, session, reporter
  <2>5. CASE FinalReported(c)
    <3>1. received' \in [Starts -> SUBSET Report]
      BY <2>5, ClosedType DEF FinalReported, Report, TypeOK
    <3> QED BY <2>5, <3>1 DEF FinalReported, TypeOK, Phases, session, marks, reporter, disk
  <2> QED BY <1>2, <2>1, <2>2, <2>3, <2>4, <2>5 DEF RunStep
<1>3. ASSUME NEW k \in Campaigns, CancelCampaign(k) PROVE TypeOK'
  BY <1>3 DEF CancelCampaign, TypeOK, session, run, reporter, disk
<1>4. ASSUME ReporterStep PROVE TypeOK'
  <2>1. ASSUME NEW r \in orphans, VisitOrphan(r) PROVE TypeOK'
    BY <2>1 DEF VisitOrphan, TypeOK, session, marks, run, disk
  <2>2. ASSUME NEW r \in closing, OrphanReported(r) PROVE TypeOK'
    <3>1. r.cmd \in Starts /\ CampaignOf[r.cmd] \in Campaigns
      BY DEF TypeOK, ProgressRecord
    <3>2. received' \in [Starts -> SUBSET Report]
      BY <2>2, <3>1, ClosedType DEF OrphanReported, Report
    <3>3. PICK d \in Finished(Disk, CampaignOf[r.cmd]) : Becomes(d)
      BY <2>2 DEF OrphanReported
    <3>4. d \in DiskType
      BY <3>1, DiskTyped, FinishedType
    <3> QED BY <2>2, <3>2, <3>3, <3>4, BecomesType
            DEF OrphanReported, TypeOK, session, marks, run
  <2>3. ASSUME NEW r \in closing, OrphanKept(r) PROVE TypeOK'
    BY <2>3 DEF OrphanKept, TypeOK, session, marks, run, disk
  <2> QED BY <1>4, <2>1, <2>2, <2>3 DEF ReporterStep
<1>5. ASSUME SessionStep PROVE TypeOK'
  <2>1. CASE BootRuntime \/ BootFailed
    BY <2>1 DEF BootRuntime, BootFailed, TypeOK, marks, run, reporter, disk
  <2>2. CASE StartAgentRunner
    <3>1. Records \subseteq ProgressRecord
      BY DEF Records, TypeOK
    <3>2. orphans' \subseteq ProgressRecord /\ closing' \subseteq ProgressRecord
      BY <2>2, <3>1 DEF StartAgentRunner, TypeOK, reporter
    <3> QED BY <2>2, <3>2 DEF StartAgentRunner, TypeOK, marks, run, disk
  <2>3. CASE StopSession
    BY <2>3 DEF StopSession, TypeOK, run, reporter, disk
  <2>4. CASE Crash \/ TornCrash
    <3>1. pc' \in [Starts -> Phases]
      BY <2>4 DEF Crash, TornCrash, ProcessDies, Remains, TypeOK, Phases
    <3>2. /\ inFlight' \in [Campaigns -> ProgressRecord \cup {NoRecord}]
          /\ unwritten' \subseteq Campaigns /\ faults' \in Nat
      BY <2>4 DEF Crash, TornCrash, TypeOK, EmptyFile, disk
    <3>3. ProcessDies
      BY <2>4 DEF Crash, TornCrash
    <3> QED BY <3>1, <3>2, <3>3 DEF ProcessDies, TypeOK
  <2> QED BY <1>5, <2>1, <2>2, <2>3, <2>4 DEF SessionStep
<1>6. CASE UNCHANGED vars
  BY <1>6 DEF vars, TypeOK, session, marks, run, reporter, disk
<1> QED BY <1>1, <1>2, <1>3, <1>4, <1>5, <1>6 DEF Next

\* What a loop head does to the cursor of its run, and to no other.
LEMMA IterateCursor ==
    ASSUME TypeOK, CursorInv, NEW c \in Starts, NEW i \in 0 .. Total,
           NEW active, NEW cancelled, NEW store,
           Iterate(c, i, active, cancelled, store)
    PROVE  CursorInv'
<1>1. CASE SendRecipient(c, i, cancelled)
    BY <1>1 DEF SendRecipient, CursorInv, TypeOK, Live, InLoop, Recipients
<1>2. CASE LeaveLoop(c, i, cancelled)
    BY <1>2 DEF LeaveLoop, CursorInv, TypeOK, Live, InLoop
<1> QED BY <1>1, <1>2 DEF Iterate

\* No step leaves a live run without a recipient in hand.
LEMMA CursorStep == TypeOK /\ CursorInv /\ [Next]_vars => CursorInv'
<1> SUFFICES ASSUME TypeOK, CursorInv, [Next]_vars PROVE CursorInv'
    OBVIOUS
<1> USE DEF CursorInv, Live
<1>1. ASSUME NEW c \in Starts, CommandStep(c) PROVE CursorInv'
  <2>1. CASE StartCampaign(c)
    BY <2>1, IterateCursor DEF StartCampaign
  <2>2. CASE RejectStart(c) \/ BlockStart(c) \/ DropStart(c) \/ BlockReported(c)
    BY <2>2 DEF RejectStart, BlockStart, DropStart, BlockReported, InLoop, TypeOK
  <2>3. CASE AckAnswered(c) \/ AckFailed(c) \/ ErrorReported(c)
    BY <2>3 DEF AckAnswered, AckFailed, ErrorReported, run
  <2> QED BY <1>1, <2>1, <2>2, <2>3 DEF CommandStep
<1>2. ASSUME NEW c \in Starts, RunStep(c) PROVE CursorInv'
  <2>1. CASE Deliver(c) \/ FinalReported(c)
    BY <2>1 DEF Deliver, FinalReported, InLoop, TypeOK
  <2>2. ASSUME NEW ok \in BOOLEAN, SendReturns(c, ok) PROVE CursorInv'
    BY <2>2 DEF SendReturns, InLoop, TypeOK
  <2>3. CASE ProgressReported(c)
    <3>1. Total \in 0 .. Total
      OBVIOUS
    <3>2. CASE cur[c] < Total
      BY <2>3, <3>2 DEF ProgressReported, InLoop, TypeOK
    <3>3. CASE cur[c] = Total
      BY <2>3, <3>1, <3>3, IterateCursor DEF ProgressReported, TypeOK
    <3> QED BY <2>3, <3>2, <3>3 DEF ProgressReported
  <2>4. CASE DelayElapsed(c)
    BY <2>4, IterateCursor DEF DelayElapsed, TypeOK
  <2> QED BY <1>2, <2>1, <2>2, <2>3, <2>4 DEF RunStep
<1>3. CASE \E k \in Campaigns : CancelCampaign(k)
    BY <1>3 DEF CancelCampaign, run
<1>4. CASE ReporterStep
    BY <1>4 DEF ReporterStep, VisitOrphan, OrphanReported, OrphanKept, run
<1>5. CASE SessionStep
  <2>1. CASE BootRuntime \/ BootFailed \/ StartAgentRunner \/ StopSession
    BY <2>1 DEF BootRuntime, BootFailed, StartAgentRunner, StopSession, run
  <2>2. CASE Crash \/ TornCrash
    <3>1. UNCHANGED cur /\ pc' = [c \in Starts |-> Remains(c)]
      BY <2>2 DEF Crash, TornCrash, ProcessDies
    <3>2. ASSUME NEW c \in Starts PROVE Remains(c) \notin InLoop
      BY DEF Remains, InLoop
    <3> QED BY <3>1, <3>2
  <2> QED BY <1>5, <2>1, <2>2 DEF SessionStep
<1>6. CASE UNCHANGED vars
    BY <1>6 DEF vars, run
<1> QED BY <1>1, <1>2, <1>3, <1>4, <1>5, <1>6 DEF Next

\* Every variable keeps its type, and a live run its recipient: nothing the
\* cloud, the disk or a crash does takes the executor outside its states.
THEOREM TypeCorrect == Spec => [](TypeOK /\ CursorInv)
<1>1. ASSUME Init PROVE TypeOK /\ CursorInv
  <2>1. deliveries \in [Starts -> [Recipients -> Nat]]
    BY <1>1 DEF Init
  <2>2. cur \in [Starts -> 0 .. Total]
    BY <1>1 DEF Init
  <2>3. /\ inFlight \in [Campaigns -> ProgressRecord \cup {NoRecord}]
        /\ unwritten \subseteq Campaigns /\ faults \in Nat
    BY <1>1 DEF Init, EmptyFile
  <2>4. succeeded \in [Starts -> SUBSET Recipients]
        /\ received \in [Starts -> SUBSET Report]
    BY <1>1 DEF Init
  <2> QED BY <1>1, <2>1, <2>2, <2>3, <2>4 DEF Init, TypeOK, Phases, CursorInv, Live, InLoop
<1>2. TypeOK /\ CursorInv /\ [Next]_vars => (TypeOK /\ CursorInv)'
    BY TypeStep, CursorStep
<1> QED BY <1>1, <1>2, PTL DEF Spec

-----------------------------------------------------------------------------
(* Sends *)

\* A loop head puts a recipient in hand that was not sent anything yet.
LEMMA IterateSends ==
    ASSUME TypeOK, SendInv, NEW c \in Starts, NEW i \in 0 .. Total,
           cur[c] <= i, pc[c] \in {"queued", "progress", "delay"},
           NEW active, NEW cancelled, NEW store,
           Iterate(c, i, active, cancelled, store),
           UNCHANGED <<deliveries, succeeded>>
    PROVE  SendInv'
<1>1. CASE SendRecipient(c, i, cancelled)
  <2>1. /\ cur' = [cur EXCEPT ![c] = i + 1] /\ pc' = [pc EXCEPT ![c] = "sending"]
        /\ i + 1 \in Recipients
    BY <1>1 DEF SendRecipient, Recipients
  <2>2. deliveries[c][i + 1] = 0
    BY <2>1 DEF SendInv, TypeOK, Recipients
  <2> QED BY <2>1, <2>2 DEF SendInv, TypeOK, Recipients
<1>2. CASE LeaveLoop(c, i, cancelled)
    BY <1>2 DEF LeaveLoop, SendInv, TypeOK, Recipients
<1> QED BY <1>1, <1>2 DEF Iterate

\* A step that sends nothing and puts nobody in hand keeps SendInv.
LEMMA SendFrame ==
    ASSUME SendInv, UNCHANGED <<cur, succeeded, deliveries>>,
           \A d \in Starts : \/ pc'[d] = pc[d]
                            \/ pc'[d] \notin {"queued", "sending", "delivered"}
    PROVE  SendInv'
BY DEF SendInv

\* No step sends anyone a second time.
LEMMA SendStep ==
    TypeOK /\ CursorInv /\ SendInv /\ [Next]_vars => SendInv'
<1> SUFFICES ASSUME TypeOK, CursorInv, SendInv, [Next]_vars PROVE SendInv'
    OBVIOUS
<1>1. ASSUME NEW c \in Starts, CommandStep(c) PROVE SendInv'
  <2>1. CASE StartCampaign(c)
    <3>1. cur[c] = 0 /\ pc[c] = "queued" /\ 0 \in 0 .. Total
      BY <2>1 DEF StartCampaign, SendInv
    <3> QED BY <2>1, <3>1, IterateSends DEF StartCampaign
  <2>2. CASE RejectStart(c) \/ BlockStart(c) \/ DropStart(c) \/ BlockReported(c)
    BY <2>2, SendFrame
       DEF RejectStart, BlockStart, DropStart, BlockReported, TypeOK
  <2>3. CASE AckAnswered(c) \/ AckFailed(c) \/ ErrorReported(c)
    BY <2>3, SendFrame DEF AckAnswered, AckFailed, ErrorReported, run
  <2> QED BY <1>1, <2>1, <2>2, <2>3 DEF CommandStep
<1>2. ASSUME NEW c \in Starts, RunStep(c) PROVE SendInv'
  <2>1. CASE Deliver(c)
    <3>1. /\ cur[c] \in Recipients /\ deliveries[c][cur[c]] = 0
          /\ pc[c] = "sending"
      BY <2>1 DEF Deliver, CursorInv, Live, InLoop, SendInv
    <3>2. /\ deliveries' = [deliveries EXCEPT ![c][cur[c]] = @ + 1]
          /\ pc' = [pc EXCEPT ![c] = "delivered"]
          /\ UNCHANGED <<cur, succeeded>>
      BY <2>1 DEF Deliver
    <3>3. deliveries'[c][cur[c]] = 1
      BY <3>1, <3>2 DEF TypeOK
    <3>4. \A d \in Starts, r \in Recipients :
              d # c \/ r # cur[c] => deliveries'[d][r] = deliveries[d][r]
      BY <3>1, <3>2 DEF TypeOK
    <3>5. ASSUME NEW d \in Starts, NEW r \in Recipients
          PROVE  /\ deliveries'[d][r] \in {0, 1}
                 /\ r > cur'[d] => deliveries'[d][r] = 0
                 /\ r \in succeeded'[d] => deliveries'[d][r] = 1
      <4>1. CASE d = c /\ r = cur[c]
        BY <4>1, <3>1, <3>2, <3>3 DEF SendInv, TypeOK, Recipients
      <4>2. CASE d # c \/ r # cur[c]
        BY <4>2, <3>2, <3>4 DEF SendInv, TypeOK
      <4> QED BY <4>1, <4>2
    <3>6. ASSUME NEW d \in Starts
          PROVE  /\ pc'[d] = "queued" => cur'[d] = 0
                 /\ pc'[d] = "sending" => deliveries'[d][cur'[d]] = 0
                 /\ pc'[d] = "delivered" => deliveries'[d][cur'[d]] = 1
      <4>1. CASE d = c
        BY <4>1, <3>1, <3>2, <3>3 DEF TypeOK
      <4>2. CASE d # c
        <5>1. pc'[d] = pc[d] /\ cur'[d] = cur[d] /\ deliveries'[d] = deliveries[d]
          BY <4>2, <3>2 DEF TypeOK
        <5> QED BY <5>1 DEF SendInv
      <4> QED BY <4>1, <4>2
    <3> QED BY <3>5, <3>6 DEF SendInv
  <2>2. ASSUME NEW ok \in BOOLEAN, SendReturns(c, ok) PROVE SendInv'
    <3>1. /\ succeeded' = [succeeded EXCEPT ![c] =
                               IF ok THEN succeeded[c] \cup {cur[c]}
                               ELSE succeeded[c]]
          /\ pc' = [pc EXCEPT ![c] = "progress"]
          /\ UNCHANGED <<cur, deliveries>>
      BY <2>2 DEF SendReturns
    <3>2. ok => deliveries[c][cur[c]] = 1
      BY <2>2 DEF SendReturns, SendInv
    <3> QED BY <3>1, <3>2 DEF SendInv, TypeOK
  <2>3. CASE ProgressReported(c)
    <3>1. CASE cur[c] < Total
      BY <2>3, <3>1 DEF ProgressReported, SendInv, TypeOK
    <3>2. CASE cur[c] = Total
      <4>1. Total \in 0 .. Total /\ cur[c] <= Total /\ pc[c] = "progress"
        BY <2>3, <3>2 DEF ProgressReported
      <4> QED BY <2>3, <3>2, <4>1, IterateSends DEF ProgressReported, TypeOK
    <3> QED BY <2>3, <3>1, <3>2 DEF ProgressReported
  <2>4. CASE DelayElapsed(c)
    <3>1. cur[c] \in 0 .. Total /\ cur[c] <= cur[c] /\ pc[c] = "delay"
      BY <2>4 DEF DelayElapsed, TypeOK
    <3> QED BY <2>4, <3>1, IterateSends DEF DelayElapsed
  <2>5. CASE FinalReported(c)
    BY <2>5 DEF FinalReported, SendInv, TypeOK
  <2> QED BY <1>2, <2>1, <2>2, <2>3, <2>4, <2>5 DEF RunStep
<1>3. CASE \E k \in Campaigns : CancelCampaign(k)
    BY <1>3 DEF CancelCampaign, run, SendInv
<1>4. CASE ReporterStep
  <2>1. UNCHANGED <<run, deliveries>>
    BY <1>4 DEF ReporterStep, VisitOrphan, OrphanReported, OrphanKept
  <2> QED BY <2>1 DEF run, SendInv
<1>5. CASE SessionStep
  <2>1. CASE BootRuntime \/ BootFailed \/ StartAgentRunner \/ StopSession
    <3>1. UNCHANGED <<run, deliveries>>
      BY <2>1 DEF BootRuntime, BootFailed, StartAgentRunner, StopSession
    <3> QED BY <3>1 DEF run, SendInv
  <2>2. CASE Crash \/ TornCrash
    BY <2>2, SendFrame
       DEF Crash, TornCrash, ProcessDies, Remains, Live, InLoop, TypeOK
  <2> QED BY <1>5, <2>1, <2>2 DEF SessionStep
<1>6. CASE UNCHANGED vars
    BY <1>6 DEF vars, run, SendInv
<1> QED BY <1>1, <1>2, <1>3, <1>4, <1>5, <1>6 DEF Next

\* Nobody is sent a campaign message twice by one command, whatever fails,
\* crashes or restarts: SendInv adds what makes it inductive, that nobody beyond
\* the recipient in hand was reached and that one in hand was not either.
THEOREM SendsAtMostOnce == Spec => []AtMostOneSend
<1>1. ASSUME Init PROVE SendInv
  <2>1. \A c \in Starts, r \in Recipients : deliveries[c][r] = 0
    BY <1>1 DEF Init
  <2> QED BY <1>1, <2>1 DEF Init, SendInv
<1>2. SendInv => AtMostOneSend
    BY DEF SendInv, AtMostOneSend
<1> QED BY <1>1, <1>2, TypeCorrect, SendStep, PTL DEF Spec

-----------------------------------------------------------------------------
(* One run per campaign *)

\* OneRunPerCampaign, campaign by campaign.
LEMMA OneRunPointwise ==
    OneRunPerCampaign <=>
        /\ \A k : k \in runningCampaigns <=>
               \E c \in Starts : Live(c) /\ CampaignOf[c] = k
        /\ \A c, d \in Starts :
               Live(c) /\ Live(d) /\ CampaignOf[c] = CampaignOf[d] => c = d
BY DEF OneRunPerCampaign

\* The same in the next state.
LEMMA OneRunPointwiseNext ==
    OneRunPerCampaign' <=>
        /\ \A k : k \in runningCampaigns' <=>
               \E c \in Starts : Live(c)' /\ CampaignOf[c] = k
        /\ \A c, d \in Starts :
               Live(c)' /\ Live(d)' /\ CampaignOf[c] = CampaignOf[d] => c = d
BY DEF OneRunPerCampaign

\* A step that neither starts nor ends a loop keeps it.
LEMMA OneRunFrame ==
    ASSUME OneRunPerCampaign, UNCHANGED runningCampaigns,
           \A c \in Starts : Live(c)' <=> Live(c)
    PROVE  OneRunPerCampaign'
BY OneRunPointwise, OneRunPointwiseNext

\* A loop head does not change who is live, but for the run it belongs to.
LEMMA IterateLive ==
    ASSUME TypeOK, NEW c \in Starts, NEW i, NEW active, NEW cancelled, NEW store,
           Iterate(c, i, active, cancelled, store)
    PROVE  /\ \A d \in Starts : d # c => (Live(d)' <=> Live(d))
           /\ \/ Live(c)' /\ runningCampaigns' = active
              \/ ~ Live(c)' /\ runningCampaigns' = active \ {CampaignOf[c]}
BY DEF Iterate, SendRecipient, LeaveLoop, Retire, Live, InLoop, TypeOK

\* The head of a loop that no other run of the campaign is in keeps it.
LEMMA IterateOneRun ==
    ASSUME TypeOK, OneRunPerCampaign, NEW c \in Starts, NEW i,
           NEW cancelled, NEW store,
           Live(c) \/ CampaignOf[c] \notin runningCampaigns,
           Iterate(c, i, runningCampaigns \cup {CampaignOf[c]}, cancelled, store)
    PROVE  OneRunPerCampaign'
<1>1. \A d \in Starts : d # c => (Live(d)' <=> Live(d))
    BY IterateLive
<1>2. \A d \in Starts : Live(d) /\ CampaignOf[d] = CampaignOf[c] => d = c
    BY OneRunPointwise
<1>3. CASE Live(c)' /\ runningCampaigns' = runningCampaigns \cup {CampaignOf[c]}
    BY <1>1, <1>2, <1>3, OneRunPointwise, OneRunPointwiseNext
<1>4. CASE /\ ~ Live(c)'
           /\ runningCampaigns' = (runningCampaigns \cup {CampaignOf[c]})
                                      \ {CampaignOf[c]}
    BY <1>1, <1>2, <1>4, OneRunPointwise, OneRunPointwiseNext
<1> QED BY <1>3, <1>4, IterateLive

\* No step gives a campaign a second run or leaves it locked without one.
LEMMA OneRunStep ==
    TypeOK /\ OneRunPerCampaign /\ [Next]_vars => OneRunPerCampaign'
<1> SUFFICES ASSUME TypeOK, OneRunPerCampaign, [Next]_vars
             PROVE  OneRunPerCampaign'
    OBVIOUS
<1>1. ASSUME NEW c \in Starts, CommandStep(c) PROVE OneRunPerCampaign'
  <2>1. CASE StartCampaign(c)
    BY <2>1, IterateOneRun DEF StartCampaign, IsRunning
  <2>2. CASE RejectStart(c) \/ BlockStart(c) \/ DropStart(c) \/ BlockReported(c)
    BY <2>2, OneRunFrame
       DEF RejectStart, BlockStart, DropStart, BlockReported, marks, Live,
           InLoop, TypeOK
  <2>3. CASE AckAnswered(c) \/ AckFailed(c) \/ ErrorReported(c)
    BY <2>3, OneRunFrame DEF AckAnswered, AckFailed, ErrorReported, run, marks, Live
  <2> QED BY <1>1, <2>1, <2>2, <2>3 DEF CommandStep
<1>2. ASSUME NEW c \in Starts, RunStep(c) PROVE OneRunPerCampaign'
  <2>1. CASE Deliver(c) \/ FinalReported(c)
    BY <2>1, OneRunFrame DEF Deliver, FinalReported, marks, Live, InLoop, TypeOK
  <2>2. ASSUME NEW ok \in BOOLEAN, SendReturns(c, ok) PROVE OneRunPerCampaign'
    BY <2>2, OneRunFrame DEF SendReturns, marks, Live, InLoop, TypeOK
  <2>3. ASSUME Live(c), NEW i,
               Iterate(c, i, runningCampaigns, cancelledCampaigns, Disk)
        PROVE  OneRunPerCampaign'
    <3>1. runningCampaigns \cup {CampaignOf[c]} = runningCampaigns
      BY <2>3, OneRunPointwise
    <3> QED BY <2>3, <3>1, IterateOneRun
  <2>4. CASE ProgressReported(c)
    <3>1. CASE cur[c] < Total
      BY <2>4, <3>1, OneRunFrame DEF ProgressReported, marks, Live, InLoop, TypeOK
    <3>2. CASE cur[c] = Total
      <4>1. Live(c)
        BY <2>4 DEF ProgressReported, Live, InLoop
      <4> QED BY <2>3, <2>4, <3>2, <4>1 DEF ProgressReported, TypeOK
    <3> QED BY <2>4, <3>1, <3>2 DEF ProgressReported
  <2>5. CASE DelayElapsed(c)
    <3>1. Live(c)
      BY <2>5 DEF DelayElapsed, Live, InLoop
    <3> QED BY <2>3, <2>5, <3>1 DEF DelayElapsed
  <2> QED BY <1>2, <2>1, <2>2, <2>4, <2>5 DEF RunStep
<1>3. CASE \E k \in Campaigns : CancelCampaign(k)
    BY <1>3, OneRunFrame DEF CancelCampaign, run, Live
<1>4. CASE ReporterStep
    BY <1>4, OneRunFrame
       DEF ReporterStep, VisitOrphan, OrphanReported, OrphanKept, run, marks, Live
<1>5. CASE SessionStep
  <2>1. CASE BootRuntime \/ BootFailed \/ StartAgentRunner \/ StopSession
    BY <2>1, OneRunFrame
       DEF BootRuntime, BootFailed, StartAgentRunner, StopSession, run, marks, Live
  <2>2. CASE Crash \/ TornCrash
    <3>1. runningCampaigns' = {} /\ \A d \in Starts : ~ Live(d)'
      BY <2>2 DEF Crash, TornCrash, ProcessDies, Remains, Live, InLoop, TypeOK
    <3> QED BY <3>1, OneRunPointwiseNext
  <2> QED BY <1>5, <2>1, <2>2 DEF SessionStep
<1>6. CASE UNCHANGED vars
    BY <1>6, OneRunFrame DEF vars, run, marks, Live
<1> QED BY <1>1, <1>2, <1>3, <1>4, <1>5, <1>6 DEF Next

\* A campaign is never run twice at once, and never stays marked as running
\* once its run has ended or the process was restarted.
THEOREM RunsAreExclusive == Spec => []OneRunPerCampaign
<1>1. ASSUME Init PROVE OneRunPerCampaign
  <2>1. runningCampaigns = {} /\ \A c \in Starts : ~ Live(c)
    BY <1>1 DEF Init, Live, InLoop
  <2> QED BY <2>1, OneRunPointwise
<1> QED BY <1>1, TypeCorrect, OneRunStep, PTL DEF Spec

-----------------------------------------------------------------------------
(* The record on disk *)

\* An entry that is kept or removed stays right if the runs of its campaign stay
\* in the loop, or dead, with the same recipient in hand.
LEMMA RecordFrame ==
    ASSUME TypeOK, NEW k \in Campaigns, RecordOK(k),
           inFlight'[k] \in {inFlight[k], NoRecord},
           k \in unwritten => k \in unwritten' \/ inFlight'[k] = NoRecord,
           \A c \in Starts : CampaignOf[c] = k =>
               /\ cur'[c] = cur[c] /\ succeeded'[c] = succeeded[c]
               /\ Live(c)' => Live(c)
               /\ pc[c] # "queued" => pc'[c] # "queued"
               /\ pc[c] \in InLoop \cup {"dead"} =>
                     pc'[c] \in InLoop \cup {"dead"}
               /\ pc'[c] \in {"progress", "delay"} =>
                     pc[c] \in {"progress", "delay"}
    PROVE  RecordOK(k)'
<1>1. CASE inFlight'[k] = NoRecord
    BY <1>1 DEF RecordOK
<1>2. CASE inFlight'[k] = inFlight[k] /\ inFlight[k] # NoRecord
  <2>1. inFlight[k].cmd \in Starts
    BY <1>2 DEF TypeOK, ProgressRecord
  <2> QED BY <1>2, <2>1 DEF RecordOK
<1> QED BY <1>1, <1>2

\* What a write, through or not, makes of the entries of other campaigns.
LEMMA OutcomeElsewhere ==
    ASSUME NEW d \in DiskType, NEW k \in Campaigns, NEW mended \in SUBSET {k}, NEW new,
           NEW e \in Outcomes(d, new, k, mended),
           NEW j \in Campaigns, j # k, new[j] = d.file[j]
    PROVE  /\ e.file[j] \in {d.file[j], NoRecord}
           /\ j \in d.missed => j \in e.missed \/ e.file[j] = NoRecord
BY OutcomeCases DEF EmptyFile

\* A loop head leaves every entry right, given a file whose entry of the
\* campaign, unless it missed a write, is the run's and counts the recipients
\* it handled.
LEMMA IterateRecord ==
    ASSUME TypeOK, RecordInv, NEW c \in Starts, NEW i \in 0 .. Total,
           NEW active, NEW cancelled, NEW d \in DiskType,
           \A j \in Campaigns : j # CampaignOf[c] =>
               /\ d.file[j] \in {inFlight[j], NoRecord}
               /\ j \in unwritten => j \in d.missed \/ d.file[j] = NoRecord,
           d.file[CampaignOf[c]] # NoRecord =>
               /\ CampaignOf[d.file[CampaignOf[c]].cmd] = CampaignOf[c]
               /\ \/ d.file[CampaignOf[c]].cmd = c
                  \/ pc[d.file[CampaignOf[c]].cmd] # "queued"
               /\ CampaignOf[c] \notin d.missed =>
                     /\ d.file[CampaignOf[c]].cmd = c
                     /\ i <= d.file[CampaignOf[c]].processed
                     /\ d.file[CampaignOf[c]].succeeded \subseteq succeeded[c],
           \A b \in Starts : Live(b) /\ CampaignOf[b] = CampaignOf[c] => b = c,
           UNCHANGED succeeded,
           Iterate(c, i, active, cancelled, d)
    PROVE  RecordInv'
<1> DEFINE k == CampaignOf[c]
<1>0. PICK e \in DiskType :
          /\ Becomes(e)
          /\ \/ e = d /\ SendRecipient(c, i, cancelled)
             \/ e \in Finished(d, k) /\ LeaveLoop(c, i, cancelled)
    BY FinishedType DEF Iterate, Retire
<1>1. ASSUME NEW j \in Campaigns, j # k PROVE RecordOK(j)'
  <2>1. /\ e.file[j] \in {d.file[j], NoRecord}
        /\ j \in d.missed => j \in e.missed \/ e.file[j] = NoRecord
    <3>1. finishCampaign(d.file, k)[j] = d.file[j]
      BY <1>1 DEF finishCampaign, DiskType
    <3>2. k \in Campaigns /\ {k} \in SUBSET {k}
      OBVIOUS
    <3> HIDE DEF k
    <3>3. CASE e = d
      BY <3>3
    <3>4. CASE e \in Finished(d, k)
      BY <1>1, <3>1, <3>2, <3>4, OutcomeElsewhere DEF Finished
    <3> QED BY <1>0, <3>3, <3>4
  <2>2. \A b \in Starts : b # c => pc'[b] = pc[b] /\ cur'[b] = cur[b]
    BY DEF Iterate, SendRecipient, LeaveLoop, TypeOK
  <2>3. RecordOK(j)
    BY DEF RecordInv
  <2>4. /\ inFlight'[j] \in {inFlight[j], NoRecord}
        /\ j \in unwritten => j \in unwritten' \/ inFlight'[j] = NoRecord
    BY <1>0, <1>1, <2>1 DEF Becomes
  <2> HIDE DEF k
  <2>5. \A b \in Starts : CampaignOf[b] = j => b # c
    BY <1>1 DEF k
  <2> QED BY <2>2, <2>3, <2>4, <2>5, RecordFrame DEF Live
<1>2. /\ pc'[c] \in {"sending", "final"}
      /\ \A b \in Starts : b # c => pc'[b] = pc[b] /\ (Live(b)' <=> Live(b))
    BY DEF Iterate, SendRecipient, LeaveLoop, TypeOK, Live
<1>3. CASE e = d /\ SendRecipient(c, i, cancelled)
  <2>1. pc'[c] = "sending" /\ cur'[c] = i + 1
    BY <1>3 DEF SendRecipient, TypeOK
  <2>2. d.file[k] # NoRecord => d.file[k].processed \in 0 .. Total /\ d.file[k].cmd \in Starts
    BY DEF ProgressRecord, DiskType
  <2>3. inFlight' = d.file /\ unwritten' = d.missed
    BY <1>0, <1>3 DEF Becomes
  <2>4. RecordOK(k)'
    BY <1>2, <2>1, <2>2, <2>3 DEF RecordOK, InLoop
  <2> QED BY <1>1, <2>4 DEF RecordInv
<1>4. CASE e \in Finished(d, k) /\ LeaveLoop(c, i, cancelled)
  <2>1. inFlight'[k] = NoRecord \/ (inFlight'[k] = d.file[k] /\ k \in unwritten')
    BY <1>0, <1>4, OutcomeCases DEF Finished, Becomes, finishCampaign, EmptyFile, DiskType
  <2>2. d.file[k] # NoRecord => d.file[k].cmd \in Starts
    BY DEF ProgressRecord, DiskType
  <2>3. RecordOK(k)'
    BY <1>2, <2>1, <2>2 DEF RecordOK
  <2> QED BY <1>1, <2>3 DEF RecordInv
<1> QED BY <1>0, <1>3, <1>4

\* In every step the entries stay right.
LEMMA RecordStep ==
    TypeOK /\ OneRunPerCampaign /\ RecordInv /\ [Next]_vars => RecordInv'
<1> SUFFICES ASSUME TypeOK, OneRunPerCampaign, RecordInv, [Next]_vars
             PROVE  RecordInv'
    OBVIOUS
<1>0. ASSUME NEW c \in Starts, Live(c), inFlight[CampaignOf[c]] # NoRecord,
             CampaignOf[c] \notin unwritten
      PROVE  inFlight[CampaignOf[c]].cmd = c
    BY <1>0 DEF RecordInv, RecordOK
<1> USE DEF disk
<1>1. ASSUME NEW c \in Starts, CommandStep(c) PROVE RecordInv'
  <2>1. CASE StartCampaign(c)
    <3> DEFINE k == CampaignOf[c]
               new == beginCampaign(inFlight, c)
    <3>1. PICK d \in Begun(Disk, c) :
              Iterate(c, 0, runningCampaigns \cup {k}, cancelledCampaigns \ {k}, d)
      BY <2>1 DEF StartCampaign
    <3>2. d \in DiskType /\ Disk \in DiskType
      BY DiskTyped, BegunType
    <3>3. /\ \A j \in Campaigns : j # k => new[j] = inFlight[j]
          /\ new[k] = [cmd |-> c, processed |-> 0, succeeded |-> {}]
      BY DEF beginCampaign, TypeOK
    <3>4. Disk.file = inFlight /\ Disk.missed = unwritten
      BY DEF Disk
    <3>5. \A j \in Campaigns : j # k =>
              /\ d.file[j] \in {inFlight[j], NoRecord}
              /\ j \in unwritten => j \in d.missed \/ d.file[j] = NoRecord
      BY <3>1, <3>2, <3>3, <3>4, OutcomeElsewhere DEF Begun
    <3>6. d.file[k] # NoRecord =>
              /\ CampaignOf[d.file[k].cmd] = k
              /\ d.file[k].cmd = c \/ pc[d.file[k].cmd] # "queued"
              /\ k \notin d.missed => /\ d.file[k].cmd = c
                                     /\ 0 <= d.file[k].processed
                                     /\ d.file[k].succeeded \subseteq succeeded[c]
      <4>1. CASE d.file = new
        BY <3>3, <4>1
      <4>2. CASE d.file = inFlight /\ k \in d.missed
        BY <4>2 DEF RecordInv, RecordOK
      <4>3. CASE d.file = EmptyFile
        BY <4>3 DEF EmptyFile
      <4> QED BY <3>1, <3>4, <4>1, <4>2, <4>3, OutcomeCases DEF Begun
    <3>7. \A b \in Starts : Live(b) /\ CampaignOf[b] = k => b = c
      BY <2>1, OneRunPointwise DEF StartCampaign, IsRunning
    <3>8. 0 \in 0 .. Total /\ UNCHANGED succeeded
      BY <2>1 DEF StartCampaign
    <3> HIDE DEF new
    <3> QED BY <3>1, <3>2, <3>5, <3>6, <3>7, <3>8, IterateRecord
  <2>2. CASE RejectStart(c) \/ BlockStart(c) \/ DropStart(c) \/ BlockReported(c)
    BY <2>2, RecordFrame
       DEF RejectStart, BlockStart, DropStart, BlockReported, RecordInv, Live,
           InLoop, TypeOK
  <2>3. CASE AckAnswered(c) \/ AckFailed(c) \/ ErrorReported(c)
    BY <2>3, RecordFrame
       DEF AckAnswered, AckFailed, ErrorReported, run, RecordInv, Live
  <2> QED BY <1>1, <2>1, <2>2, <2>3 DEF CommandStep
<1>2. ASSUME NEW c \in Starts, RunStep(c) PROVE RecordInv'
  <2>1. CASE Deliver(c) \/ FinalReported(c)
    BY <2>1, RecordFrame
       DEF Deliver, FinalReported, RecordInv, Live, InLoop, TypeOK
  <2>2. ASSUME NEW ok \in BOOLEAN, SendReturns(c, ok) PROVE RecordInv'
    <3> DEFINE k == CampaignOf[c]
               done == IF ok THEN succeeded[c] \cup {cur[c]} ELSE succeeded[c]
    <3>1. /\ Live(c) /\ pc' = [pc EXCEPT ![c] = "progress"] /\ UNCHANGED cur
          /\ succeeded' = [succeeded EXCEPT ![c] = done]
      BY <2>2 DEF SendReturns, Live, InLoop
    <3>2. PICK d \in Updated(Disk, k, cur[c], done) : Becomes(d)
      BY <2>2 DEF SendReturns
    <3>3. /\ Disk.file = inFlight /\ Disk.missed = unwritten /\ Disk \in DiskType
          /\ inFlight' = d.file /\ unwritten' = d.missed
      BY <3>2, DiskTyped DEF Disk, Becomes
    <3>4. succeeded'[c] = done /\ pc'[c] = "progress" /\ cur'[c] = cur[c]
      BY <3>1 DEF TypeOK
    <3>5. succeeded[c] \subseteq done
      OBVIOUS
    <3> HIDE DEF done
    <3> DEFINE new == updateCampaign(Disk.file, k, cur[c], done)
    <3>6. d \in Outcomes(Disk, new, k, {})
      BY <3>2 DEF Updated
    <3>7. new = updateCampaign(inFlight, k, cur[c], done)
      BY <3>3 DEF updateCampaign
    <3> HIDE DEF new
    <3>8. \/ d.file = new /\ d.missed = Disk.missed \ {}
          \/ d.file = Disk.file /\ d.missed = Disk.missed \cup {k}
          \/ d.file = EmptyFile /\ d.missed = {}
      BY <3>6, OutcomeCases
    <3>9. ASSUME NEW j \in Campaigns, j # k PROVE RecordOK(j)'
      <4>1. new[j] = inFlight[j]
        BY <3>9, <3>7 DEF updateCampaign, TypeOK
      <4>2. /\ inFlight'[j] \in {inFlight[j], NoRecord}
            /\ j \in unwritten => j \in unwritten' \/ inFlight'[j] = NoRecord
        <5> QED BY <3>3, <3>8, <3>9, <4>1 DEF EmptyFile
      <4>3. RecordOK(j)
        BY DEF RecordInv
      <4>4. \A b \in Starts : CampaignOf[b] = j =>
                b # c /\ pc'[b] = pc[b] /\ succeeded'[b] = succeeded[b]
        BY <3>1, <3>9 DEF TypeOK
      <4> QED BY <3>1, <4>2, <4>3, <4>4, RecordFrame DEF Live
    <3>10. RecordOK(k)'
      <4>1. CASE inFlight'[k] = NoRecord
        BY <4>1 DEF RecordOK
      <4>2. ASSUME inFlight'[k] # NoRecord, inFlight[k] # NoRecord,
                   inFlight'[k].cmd = inFlight[k].cmd, k \in unwritten'
            PROVE  RecordOK(k)'
        <5>1. inFlight[k].cmd \in Starts /\ CampaignOf[inFlight[k].cmd] = k
              /\ pc[inFlight[k].cmd] # "queued"
          BY <4>2 DEF TypeOK, ProgressRecord, RecordInv, RecordOK
        <5>2. \A b \in Starts : pc[b] # "queued" => pc'[b] # "queued"
          BY <3>1 DEF TypeOK
        <5> QED BY <4>2, <5>1, <5>2 DEF RecordOK
      <4>3. CASE d.file = inFlight /\ d.missed = unwritten \cup {k}
        BY <3>3, <4>1, <4>2, <4>3
      <4>4. CASE d.file = updateCampaign(inFlight, k, cur[c], done) /\ d.missed = unwritten
        <5>1. CASE inFlight[k] = NoRecord
          BY <3>3, <4>1, <4>4, <5>1 DEF updateCampaign
        <5>2. CASE inFlight[k] # NoRecord
          <6>1. inFlight'[k] = [cmd |-> inFlight[k].cmd, processed |-> cur[c],
                                succeeded |-> done]
            BY <3>3, <4>4, <5>2 DEF updateCampaign, TypeOK
          <6>2. CASE k \in unwritten
            BY <3>3, <4>1, <4>2, <4>4, <5>2, <6>1, <6>2
          <6>3. CASE k \notin unwritten
            <7>1. inFlight'[k] = [cmd |-> c, processed |-> cur[c], succeeded |-> done]
              BY <3>1, <5>2, <6>1, <6>3, <1>0
            <7>2. \A b \in Starts : Live(b)' => Live(b)
              BY <3>1 DEF Live, TypeOK
            <7>3. \A b \in Starts : Live(b) /\ CampaignOf[b] = k => b = c
              BY <3>1, OneRunPointwise
            <7> QED BY <3>4, <7>1, <7>2, <7>3 DEF RecordOK, InLoop, TypeOK
          <6> QED BY <6>2, <6>3
        <5> QED BY <5>1, <5>2
      <4>5. CASE d.file = EmptyFile
        BY <3>3, <4>1, <4>5 DEF EmptyFile
      <4>6. unwritten \ {} = unwritten
        OBVIOUS
      <4>8. \/ /\ d.file = updateCampaign(inFlight, k, cur[c], done)
               /\ d.missed = unwritten \ {}
            \/ d.file = inFlight /\ d.missed = unwritten \cup {k}
            \/ d.file = EmptyFile
        BY <3>3, <3>8, <3>7
      <4> QED BY <4>3, <4>4, <4>5, <4>6, <4>8
    <3> QED BY <3>9, <3>10 DEF RecordInv
  <2>3. ASSUME pc[c] \in {"progress", "delay"},
               Iterate(c, cur[c], runningCampaigns, cancelledCampaigns, Disk),
               UNCHANGED succeeded
        PROVE  RecordInv'
    <3>1. Live(c)
      BY <2>3 DEF Live, InLoop
    <3>2. \A d \in Starts : Live(d) /\ CampaignOf[d] = CampaignOf[c] => d = c
      BY <3>1, OneRunPointwise
    <3>3. Disk \in DiskType /\ Disk.file = inFlight /\ Disk.missed = unwritten
      BY DiskTyped DEF Disk
    <3>4. inFlight[CampaignOf[c]] # NoRecord =>
              /\ CampaignOf[inFlight[CampaignOf[c]].cmd] = CampaignOf[c]
              /\ pc[inFlight[CampaignOf[c]].cmd] # "queued"
              /\ CampaignOf[c] \notin unwritten =>
                    /\ inFlight[CampaignOf[c]].cmd = c
                    /\ cur[c] <= inFlight[CampaignOf[c]].processed
                    /\ inFlight[CampaignOf[c]].succeeded \subseteq succeeded[c]
      BY <2>3, <3>1, <1>0 DEF RecordInv, RecordOK
    <3>5. cur[c] \in 0 .. Total
      BY DEF TypeOK
    <3> QED BY <2>3, <3>2, <3>3, <3>4, <3>5, IterateRecord
  <2>4. CASE ProgressReported(c)
    <3>1. CASE cur[c] < Total
      <4>1. /\ pc[c] = "progress" /\ pc' = [pc EXCEPT ![c] = "delay"]
            /\ UNCHANGED <<cur, succeeded, disk>>
        BY <2>4, <3>1 DEF ProgressReported
      <4>2. \A d \in Starts : d # c => pc'[d] = pc[d]
        BY <4>1 DEF TypeOK
      <4>3. pc'[c] = "delay"
        BY <4>1 DEF TypeOK
      <4> QED BY <4>1, <4>2, <4>3, RecordFrame DEF RecordInv, Live, InLoop
    <3>2. CASE cur[c] = Total
      BY <2>3, <2>4, <3>2 DEF ProgressReported
    <3> QED BY <2>4, <3>1, <3>2 DEF ProgressReported
  <2>5. CASE DelayElapsed(c)
    BY <2>3, <2>5 DEF DelayElapsed
  <2> QED BY <1>2, <2>1, <2>2, <2>4, <2>5 DEF RunStep
<1>3. CASE \E k \in Campaigns : CancelCampaign(k)
    BY <1>3, RecordFrame DEF CancelCampaign, run, RecordInv, Live
<1>4. CASE ReporterStep
  <2>1. UNCHANGED run
    BY <1>4 DEF ReporterStep, VisitOrphan, OrphanReported, OrphanKept
  <2>2. ASSUME NEW r \in closing, OrphanReported(r), NEW k \in Campaigns
        PROVE  /\ inFlight'[k] \in {inFlight[k], NoRecord}
               /\ k \in unwritten => k \in unwritten' \/ inFlight'[k] = NoRecord
    <3> DEFINE j == CampaignOf[r.cmd]
    <3>1. j \in Campaigns
      BY DEF TypeOK, ProgressRecord
    <3>2. PICK d \in Finished(Disk, j) : Becomes(d)
      BY <2>2 DEF OrphanReported
    <3>3. /\ Disk.file = inFlight /\ Disk.missed = unwritten /\ Disk \in DiskType
          /\ inFlight' = d.file /\ unwritten' = d.missed
      BY <3>2, DiskTyped DEF Disk, Becomes
    <3>4. finishCampaign(inFlight, j)[k] = IF k = j THEN NoRecord ELSE inFlight[k]
      BY DEF finishCampaign, TypeOK
    <3> HIDE DEF j
    <3>5. CASE k = j
      BY <3>2, <3>3, <3>4, <3>5, OutcomeCases DEF Finished, EmptyFile
    <3>6. CASE k # j
      <4>1. d \in Outcomes(Disk, finishCampaign(inFlight, j), j, {j})
        BY <3>2, <3>3 DEF Finished
      <4>2. finishCampaign(inFlight, j)[k] = Disk.file[k]
        BY <3>3, <3>4, <3>6
      <4>3. /\ d.file[k] \in {Disk.file[k], NoRecord}
            /\ k \in Disk.missed => k \in d.missed \/ d.file[k] = NoRecord
        BY <3>1, <3>3, <3>6, <4>1, <4>2, OutcomeElsewhere
      <4> QED BY <3>3, <4>3
    <3> QED BY <3>5, <3>6
  <2>3. CASE (\E r \in orphans : VisitOrphan(r)) \/ (\E r \in closing : OrphanKept(r))
    BY <2>1, <2>3, RecordFrame DEF VisitOrphan, OrphanKept, run, RecordInv, Live
  <2>4. CASE \E r \in closing : OrphanReported(r)
    BY <2>1, <2>2, <2>4, RecordFrame DEF run, RecordInv, Live
  <2> QED BY <1>4, <2>3, <2>4 DEF ReporterStep
<1>5. CASE SessionStep
  <2>1. CASE BootRuntime \/ BootFailed \/ StartAgentRunner \/ StopSession
    BY <2>1, RecordFrame
       DEF BootRuntime, BootFailed, StartAgentRunner, StopSession, run,
           RecordInv, Live
  <2>2. CASE Crash \/ TornCrash
    <3>1. \A k \in Campaigns :
              /\ inFlight'[k] \in {inFlight[k], NoRecord}
              /\ k \in unwritten => k \in unwritten' \/ inFlight'[k] = NoRecord
      BY <2>2 DEF Crash, TornCrash, EmptyFile
    <3>2. \A c \in Starts : /\ cur'[c] = cur[c] /\ succeeded'[c] = succeeded[c]
                            /\ pc'[c] = Remains(c)
      BY <2>2 DEF Crash, TornCrash, ProcessDies
    <3> QED BY <3>1, <3>2, RecordFrame DEF Remains, RecordInv, Live, InLoop
  <2> QED BY <1>5, <2>1, <2>2 DEF SessionStep
<1>6. CASE UNCHANGED vars
    BY <1>6, RecordFrame DEF vars, run, RecordInv, Live
<1> QED BY <1>1, <1>2, <1>3, <1>4, <1>5, <1>6 DEF Next

\* Whenever the process dies, an entry of the in-flight file whose writes went through
\* tells the truth about its campaign: no success it counts is invented, and at most
\* one recipient was sent the message without being counted as processed.
THEOREM RecordsAreHonest == Spec => []HonestRecords
<1>1. ASSUME Init PROVE RecordInv /\ OneRunPerCampaign /\ SendInv
  <2>1. runningCampaigns = {} /\ \A c \in Starts : ~ Live(c)
    BY <1>1 DEF Init, Live, InLoop
  <2>2. \A c \in Starts, r \in Recipients : deliveries[c][r] = 0
    BY <1>1 DEF Init
  <2> QED BY <1>1, <2>1, <2>2, OneRunPointwise
          DEF Init, EmptyFile, RecordInv, RecordOK, SendInv
<1>2. TypeOK /\ RecordInv /\ SendInv => HonestRecords
  <2> SUFFICES ASSUME TypeOK, RecordInv, SendInv, NEW k \in Campaigns,
                      inFlight[k] # NoRecord, CampaignOf[inFlight[k].cmd] \notin unwritten
               PROVE  Honest(inFlight[k])
    BY DEF HonestRecords, Records
  <2>1. /\ inFlight[k].cmd \in Starts /\ inFlight[k].processed \in 0 .. Total
        /\ inFlight[k].succeeded \subseteq Recipients
    BY DEF TypeOK, ProgressRecord
  <2>2. /\ cur[inFlight[k].cmd] <= inFlight[k].processed + 1
        /\ inFlight[k].succeeded \subseteq succeeded[inFlight[k].cmd]
    BY DEF RecordInv, RecordOK
  <2> QED BY <2>1, <2>2 DEF SendInv, Honest, TypeOK, Recipients
<1> QED BY <1>1, <1>2, TypeCorrect, SendStep, OneRunStep, RecordStep, PTL DEF Spec

-----------------------------------------------------------------------------
(* Cancellation *)

\* A step that clears no mark, tells nobody and starts no run keeps CancelInv.
LEMMA CancelFrame ==
    ASSUME CancelInv, told' = told,
           cancelledCampaigns \subseteq cancelledCampaigns',
           UNCHANGED wasCancelled,
           \A c \in told : /\ Live(c)' => Live(c)
                           /\ pc'[c] \in {"queued", "final"} => pc'[c] = pc[c]
    PROVE  CancelInv'
BY DEF CancelInv

\* A loop head reads the marks before it clears its own.
LEMMA IterateCancel ==
    ASSUME TypeOK, OneRunPerCampaign, CancelInv, NEW c \in Starts, NEW i,
           NEW active, NEW store, NEW cancelled,
           \/ Live(c) /\ cancelled = cancelledCampaigns
           \/ /\ pc[c] = "queued" /\ CampaignOf[c] \notin runningCampaigns
              /\ cancelled = cancelledCampaigns \ {CampaignOf[c]},
           Iterate(c, i, active, cancelled, store), told' = told
    PROVE  CancelInv'
<1> SUFFICES ASSUME NEW d \in told
             PROVE  /\ pc'[d] # "queued"
                    /\ Live(d)' => CampaignOf[d] \in cancelledCampaigns'
                    /\ pc'[d] = "final" => wasCancelled'[d]
    BY DEF CancelInv
<1>1. d \in Starts
    BY DEF TypeOK
<1>2. CASE d # c
  <2>1. pc'[d] = pc[d] /\ wasCancelled'[d] = wasCancelled[d]
    BY <1>1, <1>2 DEF Iterate, SendRecipient, LeaveLoop, TypeOK
  <2>2. Live(d) => CampaignOf[d] # CampaignOf[c]
    BY <1>1, <1>2, OneRunPointwise
  <2>3. Live(d) => CampaignOf[d] \in cancelledCampaigns'
    BY <2>2 DEF CancelInv, Iterate, Retire
  <2> QED BY <2>1, <2>3 DEF CancelInv, Live
<1>3. CASE d = c
  <2>1. Live(c) /\ CampaignOf[c] \in cancelled
    BY <1>3 DEF CancelInv
  <2>2. LeaveLoop(c, i, cancelled)
    BY <2>1 DEF Iterate, SendRecipient
  <2>3. pc'[c] = "final" /\ wasCancelled'[c]
    BY <2>1, <2>2 DEF LeaveLoop, TypeOK
  <2> QED BY <1>3, <2>3 DEF Live, InLoop
<1> QED BY <1>2, <1>3

\* A run that was told to stop keeps its mark until it left the loop.
LEMMA CancelStep ==
    TypeOK /\ OneRunPerCampaign /\ CancelInv /\ [Next]_vars => CancelInv'
<1> SUFFICES ASSUME TypeOK, OneRunPerCampaign, CancelInv, [Next]_vars
             PROVE  CancelInv'
    OBVIOUS
<1>0. told \subseteq Starts
    BY DEF TypeOK
<1>1. ASSUME NEW c \in Starts, CommandStep(c) PROVE CancelInv'
  <2>1. CASE StartCampaign(c)
    BY <2>1, IterateCancel DEF StartCampaign, IsRunning
  <2>2. CASE RejectStart(c) \/ BlockStart(c) \/ DropStart(c) \/ BlockReported(c)
    BY <1>0, <2>2, CancelFrame
       DEF RejectStart, BlockStart, DropStart, BlockReported, marks, Live,
           InLoop, TypeOK
  <2>3. CASE AckAnswered(c) \/ AckFailed(c) \/ ErrorReported(c)
    BY <2>3, CancelFrame DEF AckAnswered, AckFailed, ErrorReported, run, marks, Live
  <2> QED BY <1>1, <2>1, <2>2, <2>3 DEF CommandStep
<1>2. ASSUME NEW c \in Starts, RunStep(c) PROVE CancelInv'
  <2>1. CASE Deliver(c) \/ FinalReported(c)
    BY <1>0, <2>1, CancelFrame
       DEF Deliver, FinalReported, marks, Live, InLoop, TypeOK
  <2>2. ASSUME NEW ok \in BOOLEAN, SendReturns(c, ok) PROVE CancelInv'
    BY <1>0, <2>2, CancelFrame DEF SendReturns, marks, Live, InLoop, TypeOK
  <2>3. CASE ProgressReported(c)
    <3>1. CASE cur[c] < Total
      BY <1>0, <2>3, <3>1, CancelFrame
         DEF ProgressReported, marks, Live, InLoop, TypeOK
    <3>2. CASE cur[c] = Total
      BY <2>3, <3>2, IterateCancel DEF ProgressReported, Live, InLoop, TypeOK
    <3> QED BY <2>3, <3>1, <3>2 DEF ProgressReported
  <2>4. CASE DelayElapsed(c)
    BY <2>4, IterateCancel DEF DelayElapsed, Live, InLoop
  <2> QED BY <1>2, <2>1, <2>2, <2>3, <2>4 DEF RunStep
<1>3. ASSUME NEW k \in Campaigns, CancelCampaign(k) PROVE CancelInv'
    BY <1>3 DEF CancelCampaign, run, CancelInv, Live, InLoop
<1>4. CASE ReporterStep
    BY <1>4, CancelFrame
       DEF ReporterStep, VisitOrphan, OrphanReported, OrphanKept, run, marks, Live
<1>5. CASE SessionStep
  <2>1. CASE BootRuntime \/ BootFailed \/ StartAgentRunner
    BY <2>1, CancelFrame
       DEF BootRuntime, BootFailed, StartAgentRunner, run, marks, Live
  <2>2. CASE StopSession
    <3>1. \A c \in Starts : Live(c) => CampaignOf[c] \in runningCampaigns
      BY OneRunPointwise
    <3> QED BY <2>2, <3>1 DEF StopSession, run, CancelInv, Live, InLoop
  <2>3. CASE Crash \/ TornCrash
    <3>1. \A c \in Starts : pc'[c] = Remains(c)
      BY <2>3 DEF Crash, TornCrash, ProcessDies
    <3>2. told' = told
      BY <2>3 DEF Crash, TornCrash, ProcessDies
    <3> QED BY <1>0, <3>1, <3>2 DEF Remains, CancelInv, Live, InLoop
  <2> QED BY <1>5, <2>1, <2>2, <2>3 DEF SessionStep
<1>6. CASE UNCHANGED vars
    BY <1>6, CancelFrame DEF vars, run, marks, Live
<1> QED BY <1>1, <1>2, <1>3, <1>4, <1>5, <1>6 DEF Next

\* Once a run was told to stop, by a cancel command, a logout or a revocation, it
\* never starts another send, though the next login clears the global flag.
THEOREM CancellationSticks == Spec => CancelSticks
<1>1. ASSUME Init PROVE CancelInv /\ OneRunPerCampaign
  <2>1. runningCampaigns = {} /\ \A c \in Starts : ~ Live(c)
    BY <1>1 DEF Init, Live, InLoop
  <2> QED BY <1>1, <2>1, OneRunPointwise DEF Init, CancelInv
<1>2. ASSUME TypeOK, CancelInv, [Next]_vars, NEW c \in told, pc'[c] = "sending"
      PROVE  pc[c] = "sending"
  <2>1. c \in Starts
    BY <1>2 DEF TypeOK
  <2>2. pc[c] # "queued" /\ (Live(c) => CampaignOf[c] \in cancelledCampaigns)
    BY <1>2 DEF CancelInv
  <2>3. ASSUME NEW d \in Starts, CommandStep(d) PROVE pc[c] = "sending"
    <3>1. CASE StartCampaign(d)
      BY <1>2, <2>1, <2>2, <3>1
         DEF StartCampaign, Iterate, SendRecipient, LeaveLoop, TypeOK
    <3>2. CASE RejectStart(d) \/ BlockStart(d) \/ DropStart(d) \/ BlockReported(d)
      BY <1>2, <2>1, <3>2
         DEF RejectStart, BlockStart, DropStart, BlockReported, TypeOK
    <3>3. CASE AckAnswered(d) \/ AckFailed(d) \/ ErrorReported(d)
      BY <1>2, <3>3 DEF AckAnswered, AckFailed, ErrorReported, run
    <3> QED BY <2>3, <3>1, <3>2, <3>3 DEF CommandStep
  <2>4. ASSUME NEW d \in Starts, RunStep(d) PROVE pc[c] = "sending"
    <3>1. CASE Deliver(d) \/ FinalReported(d)
      BY <1>2, <2>1, <3>1 DEF Deliver, FinalReported, TypeOK
    <3>2. ASSUME NEW ok \in BOOLEAN, SendReturns(d, ok) PROVE pc[c] = "sending"
      BY <1>2, <2>1, <3>2 DEF SendReturns, TypeOK
    <3>3. CASE ProgressReported(d)
      BY <1>2, <2>1, <2>2, <3>3
         DEF ProgressReported, Iterate, SendRecipient, LeaveLoop, TypeOK
    <3>4. CASE DelayElapsed(d)
      BY <1>2, <2>1, <2>2, <3>4
         DEF DelayElapsed, Iterate, SendRecipient, LeaveLoop, Live, InLoop, TypeOK
    <3> QED BY <2>4, <3>1, <3>2, <3>3, <3>4 DEF RunStep
  <2>5. CASE \E k \in Campaigns : CancelCampaign(k)
    BY <1>2, <2>5 DEF CancelCampaign, run
  <2>6. CASE ReporterStep
    BY <1>2, <2>6 DEF ReporterStep, VisitOrphan, OrphanReported, OrphanKept, run
  <2>7. CASE SessionStep
    <3>1. CASE BootRuntime \/ BootFailed \/ StartAgentRunner \/ StopSession
      BY <1>2, <3>1 DEF BootRuntime, BootFailed, StartAgentRunner, StopSession, run
    <3>2. CASE Crash \/ TornCrash
      BY <1>2, <2>1, <3>2 DEF Crash, TornCrash, ProcessDies, Remains, Live, InLoop
    <3> QED BY <2>7, <3>1, <3>2 DEF SessionStep
  <2>8. CASE UNCHANGED vars
    BY <1>2, <2>8 DEF vars, run
  <2> QED BY <1>2, <2>3, <2>4, <2>5, <2>6, <2>7, <2>8 DEF Next
<1>3. TypeOK /\ CancelInv /\ [Next]_vars =>
          [\A c \in told : pc'[c] = "sending" => pc[c] = "sending"]_vars
    BY <1>2
<1> QED BY <1>1, <1>3, TypeCorrect, OneRunStep, CancelStep, PTL
        DEF Spec, CancelSticks

-----------------------------------------------------------------------------
(* Success *)

\* A step that changes nobody's loop, raises no flag and ends no run keeps WholeInv.
LEMMA WholeFrame ==
    ASSUME WholeInv, told \subseteq told',
           \/ cancelAllCampaigns' => cancelAllCampaigns
           \/ \A c \in Starts : Live(c)' => c \in told',
           UNCHANGED <<cur, wasCancelled>>,
           \A c \in Starts : (Live(c)' => Live(c)) /\ (pc'[c] = "final" => pc[c] = "final")
    PROVE  WholeInv'
BY DEF WholeInv

\* A loop head reads the flag: a run goes on only if it is down, and leaves without a
\* mark of its own at the end of its list, or at its start.
LEMMA IterateWhole ==
    ASSUME TypeOK, CancelInv, WholeInv, NEW c \in Starts, NEW i \in 0 .. Total,
           NEW active, NEW cancelled, NEW store,
           i = 0 \/ (Live(c) /\ cancelled = cancelledCampaigns),
           Iterate(c, i, active, cancelled, store),
           UNCHANGED <<cancelAllCampaigns, told>>
    PROVE  WholeInv'
<1>1. \A b \in Starts : b # c =>
          /\ pc'[b] = pc[b] /\ cur'[b] = cur[b] /\ wasCancelled'[b] = wasCancelled[b]
          /\ Live(b)' <=> Live(b)
  BY DEF Iterate, SendRecipient, LeaveLoop, TypeOK, Live
<1>2. CASE SendRecipient(c, i, cancelled)
  <2>1. pc'[c] = "sending" /\ ~ cancelAllCampaigns'
    BY <1>2 DEF SendRecipient, TypeOK
  <2> QED BY <1>1, <2>1 DEF WholeInv
<1>3. CASE LeaveLoop(c, i, cancelled)
  <2>1. /\ pc'[c] = "final" /\ cur'[c] = i
        /\ wasCancelled'[c] <=> CampaignOf[c] \in cancelled
        /\ i = Total \/ cancelAllCampaigns \/ CampaignOf[c] \in cancelled
    BY <1>3 DEF LeaveLoop, TypeOK
  <2>2. ~ wasCancelled'[c] => i \in {0, Total}
    BY <2>1 DEF CancelInv, WholeInv
  <2> QED BY <1>1, <2>1, <2>2 DEF WholeInv, Live, InLoop
<1> QED BY <1>2, <1>3 DEF Iterate

\* No step lets an unmarked run leave its loop early.
LEMMA WholeStep ==
    TypeOK /\ CancelInv /\ WholeInv /\ [Next]_vars => WholeInv'
<1> SUFFICES ASSUME TypeOK, CancelInv, WholeInv, [Next]_vars PROVE WholeInv'
    OBVIOUS
<1>1. ASSUME NEW c \in Starts, CommandStep(c) PROVE WholeInv'
  <2>1. CASE StartCampaign(c)
    <3>1. 0 \in 0 .. Total /\ UNCHANGED <<cancelAllCampaigns, told>>
      BY <2>1 DEF StartCampaign, session
    <3> QED BY <2>1, <3>1, IterateWhole DEF StartCampaign
  <2>2. CASE RejectStart(c) \/ BlockStart(c) \/ DropStart(c) \/ BlockReported(c)
    BY <2>2, WholeFrame
       DEF RejectStart, BlockStart, DropStart, BlockReported, session, Live, InLoop, TypeOK
  <2>3. CASE AckAnswered(c) \/ AckFailed(c) \/ ErrorReported(c)
    BY <2>3, WholeFrame DEF AckAnswered, AckFailed, ErrorReported, session, run, Live
  <2> QED BY <1>1, <2>1, <2>2, <2>3 DEF CommandStep
<1>2. ASSUME NEW c \in Starts, RunStep(c) PROVE WholeInv'
  <2>1. CASE Deliver(c) \/ FinalReported(c)
    BY <2>1, WholeFrame DEF Deliver, FinalReported, session, Live, InLoop, TypeOK
  <2>2. ASSUME NEW ok \in BOOLEAN, SendReturns(c, ok) PROVE WholeInv'
    BY <2>2, WholeFrame DEF SendReturns, session, Live, InLoop, TypeOK
  <2>3. CASE ProgressReported(c)
    <3>1. CASE cur[c] < Total
      BY <2>3, <3>1, WholeFrame DEF ProgressReported, session, Live, InLoop, TypeOK
    <3>2. CASE cur[c] = Total
      <4>1. Live(c) /\ Total \in 0 .. Total /\ UNCHANGED <<cancelAllCampaigns, told>>
        BY <2>3 DEF ProgressReported, session, Live, InLoop
      <4> QED BY <2>3, <3>2, <4>1, IterateWhole DEF ProgressReported, TypeOK
    <3> QED BY <2>3, <3>1, <3>2 DEF ProgressReported
  <2>4. CASE DelayElapsed(c)
    <3>1. Live(c) /\ cur[c] \in 0 .. Total /\ UNCHANGED <<cancelAllCampaigns, told>>
      BY <2>4 DEF DelayElapsed, session, Live, InLoop, TypeOK
    <3> QED BY <2>4, <3>1, IterateWhole DEF DelayElapsed
  <2> QED BY <1>2, <2>1, <2>2, <2>3, <2>4 DEF RunStep
<1>3. CASE \E k \in Campaigns : CancelCampaign(k)
    BY <1>3, WholeFrame DEF CancelCampaign, session, run, Live
<1>4. CASE ReporterStep
    BY <1>4, WholeFrame
       DEF ReporterStep, VisitOrphan, OrphanReported, OrphanKept, session, run, Live
<1>5. CASE SessionStep
  <2>1. CASE BootRuntime \/ BootFailed \/ StartAgentRunner
    <3>1. (cancelAllCampaigns' => cancelAllCampaigns) /\ UNCHANGED <<told, run>>
      <4>1. CASE BootRuntime
        <5>1. cancelAllCampaigns' \in {FALSE, cancelAllCampaigns}
          BY <4>1 DEF BootRuntime
        <5>2. cancelAllCampaigns' => cancelAllCampaigns
          BY <5>1, Zenon
        <5> QED BY <4>1, <5>2 DEF BootRuntime
      <4>2. CASE BootFailed
        BY <4>2 DEF BootFailed
      <4>3. CASE StartAgentRunner
        BY <4>3 DEF StartAgentRunner
      <4> QED BY <2>1, <4>1, <4>2, <4>3
    <3> QED BY <3>1, WholeFrame DEF run, Live
  <2>2. CASE StopSession
    <3>1. told \subseteq told' /\ UNCHANGED run /\ \A c \in Starts : Live(c) => c \in told'
      BY <2>2 DEF StopSession
    <3> QED BY <3>1, WholeFrame DEF run, Live
  <2>3. CASE Crash \/ TornCrash
    <3>1. /\ ~ cancelAllCampaigns' /\ UNCHANGED <<told, cur, wasCancelled>>
          /\ \A c \in Starts : ~ Live(c)' /\ pc'[c] # "final"
      BY <2>3 DEF Crash, TornCrash, ProcessDies, Remains, Live, InLoop
    <3> QED BY <3>1 DEF WholeInv
  <2> QED BY <1>5, <2>1, <2>2, <2>3 DEF SessionStep
<1>6. CASE UNCHANGED vars
    BY <1>6, WholeFrame DEF vars, session, run, Live
<1> QED BY <1>1, <1>2, <1>3, <1>4, <1>5, <1>6 DEF Next

\* A step that reports no end keeps SuccessInv if what is over stays as it is.
LEMMA SuccessFrame ==
    ASSUME SuccessInv,
           \A c \in Starts : received'[c] \subseteq received[c] \cup {"interrupted"},
           \A c \in Starts : pc[c] = "done" =>
               /\ pc'[c] = "done" /\ deliveries'[c] = deliveries[c]
               /\ c \in told' => c \in told
    PROVE  SuccessInv'
<1>1. ASSUME NEW c \in Starts
      PROVE  {"success", "failure"} \cap received'[c]
                 \subseteq {"success", "failure"} \cap received[c]
  OBVIOUS
<1>2. ASSUME NEW c \in Starts, {"success", "failure"} \cap received'[c] # {}
      PROVE  pc'[c] = "done"
  BY <1>1, <1>2 DEF SuccessInv
<1>3. ASSUME NEW c \in Starts, "success" \in received'[c]
      PROVE  c \notin told' /\ (SentToAll(c) \/ SentToNobody(c))'
  <2>1. "success" \in received[c]
    BY <1>1, <1>3
  <2>2. pc[c] = "done" /\ c \notin told /\ (SentToAll(c) \/ SentToNobody(c))
    BY <2>1 DEF SuccessInv
  <2> QED BY <2>2 DEF SentToAll, SentToNobody
<1> QED BY <1>2, <1>3 DEF SuccessInv

\* The final report is a success only of a run that was not told to stop and whose
\* sends all left.
LEMMA FinalSuccess ==
    ASSUME TypeOK, SendInv, CancelInv, WholeInv, SuccessInv, NEW c \in Starts,
           FinalReported(c)
    PROVE  SuccessInv'
<1>1. /\ pc[c] = "final" /\ pc' = [pc EXCEPT ![c] = "done"]
      /\ UNCHANGED <<deliveries, told>>
  BY DEF FinalReported
<1>2. \A b \in Starts : b # c => received'[b] = received[b] /\ pc'[b] = pc[b]
  BY <1>1 DEF FinalReported, Closed, TypeOK
<1>3. pc'[c] = "done"
  BY <1>1 DEF TypeOK
<1>4. "success" \notin received[c]
  BY <1>1 DEF SuccessInv
<1>5. "success" \in received'[c] => successState(c)
  BY <1>4 DEF FinalReported, Closed, TypeOK
<1>6. successState(c) => c \notin told /\ (SentToAll(c) \/ SentToNobody(c))
  <2> SUFFICES ASSUME successState(c)
               PROVE  c \notin told /\ (SentToAll(c) \/ SentToNobody(c))
    OBVIOUS
  <2>1. ~ wasCancelled[c] /\ succeeded[c] = 1 .. cur[c]
    BY DEF successState
  <2>2. c \notin told
    BY <1>1, <2>1 DEF CancelInv
  <2>3. cur[c] \in {0, Total}
    BY <1>1, <2>1 DEF WholeInv
  <2>4. CASE cur[c] = Total
    BY <2>1, <2>2, <2>4 DEF SendInv, SentToAll, Recipients
  <2>5. CASE cur[c] = 0
    BY <2>2, <2>5 DEF SendInv, SentToNobody, Recipients
  <2> QED BY <2>2, <2>3, <2>4, <2>5
<1>7. \A b \in Starts : (SentToAll(b) <=> SentToAll(b)') /\ (SentToNobody(b) <=> SentToNobody(b)')
  BY <1>1 DEF SentToAll, SentToNobody
<1>8. ASSUME NEW b \in Starts
      PROVE  /\ {"success", "failure"} \cap received'[b] # {} => pc'[b] = "done"
             /\ "success" \in received'[b] =>
                   b \notin told' /\ (SentToAll(b) \/ SentToNobody(b))'
  <2>1. CASE b = c
    BY <1>1, <1>3, <1>5, <1>6, <1>7, <2>1
  <2>2. CASE b # c
    BY <1>1, <1>2, <1>7, <2>2 DEF SuccessInv
  <2> QED BY <2>1, <2>2
<1> QED BY <1>8 DEF SuccessInv

\* No step makes an untruth of a success.
LEMMA SuccessStep ==
    TypeOK /\ SendInv /\ CancelInv /\ WholeInv /\ SuccessInv /\ [Next]_vars => SuccessInv'
<1> SUFFICES ASSUME TypeOK, SendInv, CancelInv, WholeInv, SuccessInv, [Next]_vars
             PROVE  SuccessInv'
    OBVIOUS
<1>1. ASSUME NEW c \in Starts, CommandStep(c) PROVE SuccessInv'
  <2>1. CASE StartCampaign(c)
    BY <2>1, SuccessFrame
       DEF StartCampaign, Iterate, SendRecipient, LeaveLoop, TypeOK
  <2>2. CASE RejectStart(c) \/ BlockStart(c) \/ DropStart(c) \/ BlockReported(c)
    BY <2>2, SuccessFrame DEF RejectStart, BlockStart, DropStart, BlockReported, TypeOK
  <2>3. CASE AckAnswered(c) \/ AckFailed(c) \/ ErrorReported(c)
    BY <2>3, SuccessFrame DEF AckAnswered, AckFailed, ErrorReported, run
  <2> QED BY <1>1, <2>1, <2>2, <2>3 DEF CommandStep
<1>2. ASSUME NEW c \in Starts, RunStep(c) PROVE SuccessInv'
  <2>1. CASE Deliver(c)
    BY <2>1, SuccessFrame DEF Deliver, TypeOK
  <2>2. CASE FinalReported(c)
    BY <2>2, FinalSuccess
  <2>3. ASSUME NEW ok \in BOOLEAN, SendReturns(c, ok) PROVE SuccessInv'
    BY <2>3, SuccessFrame DEF SendReturns, TypeOK
  <2>4. CASE ProgressReported(c) \/ DelayElapsed(c)
    BY <2>4, SuccessFrame
       DEF ProgressReported, DelayElapsed, Iterate, SendRecipient, LeaveLoop, TypeOK
  <2> QED BY <1>2, <2>1, <2>2, <2>3, <2>4 DEF RunStep
<1>3. CASE \E k \in Campaigns : CancelCampaign(k)
    BY <1>3, SuccessFrame DEF CancelCampaign, run, Live, InLoop
<1>4. ASSUME ReporterStep PROVE SuccessInv'
  <2>1. ASSUME NEW r \in closing, OrphanReported(r) PROVE SuccessInv'
    <3>1. \A c \in Starts : received'[c] \subseteq received[c] \cup {"interrupted"}
      BY <2>1 DEF OrphanReported, Closed, TypeOK
    <3> QED BY <2>1, <3>1, SuccessFrame DEF OrphanReported, run
  <2>2. CASE (\E r \in orphans : VisitOrphan(r)) \/ (\E r \in closing : OrphanKept(r))
    BY <2>2, SuccessFrame DEF VisitOrphan, OrphanKept, run
  <2> QED BY <1>4, <2>1, <2>2 DEF ReporterStep
<1>5. CASE SessionStep
  <2>1. CASE BootRuntime \/ BootFailed \/ StartAgentRunner \/ StopSession
    BY <2>1, SuccessFrame
       DEF BootRuntime, BootFailed, StartAgentRunner, StopSession, run, Live, InLoop
  <2>2. CASE Crash \/ TornCrash
    BY <2>2, SuccessFrame DEF Crash, TornCrash, ProcessDies, Remains, Live, InLoop
  <2> QED BY <1>5, <2>1, <2>2 DEF SessionStep
<1>6. CASE UNCHANGED vars
    BY <1>6, SuccessFrame DEF vars, run
<1> QED BY <1>1, <1>2, <1>3, <1>4, <1>5, <1>6 DEF Next

\* A campaign the cloud is told was a success was never told to stop, and was sent to
\* everyone on its list or, if it began under the flag a logout left, to nobody: the
\* end of a run that was cut short is never taken for one.
THEOREM SuccessIsTrue == Spec => []SuccessIsWhole
<1>1. ASSUME Init
      PROVE  SendInv /\ OneRunPerCampaign /\ CancelInv /\ WholeInv /\ SuccessInv
  <2>1. runningCampaigns = {} /\ \A c \in Starts : ~ Live(c)
    BY <1>1 DEF Init, Live, InLoop
  <2>2. SendInv
    BY <1>1 DEF Init, SendInv, Recipients
  <2> QED BY <1>1, <2>1, <2>2, OneRunPointwise DEF Init, CancelInv, WholeInv, SuccessInv
<1>2. SuccessInv => SuccessIsWhole
    BY DEF SuccessInv, SuccessIsWhole
<1> QED BY <1>1, <1>2, TypeCorrect, SendStep, OneRunStep, CancelStep, WholeStep,
           SuccessStep, PTL DEF Spec

-----------------------------------------------------------------------------
(* The trace a death leaves *)

\* A step that begins no run and leaves the records of live and dead runs alone,
\* but of those the cloud has the report of, keeps TraceInv.
LEMMA TraceFrame ==
    ASSUME TraceInv,
           \A c \in Starts :
               /\ Live(c)' => Live(c)
               /\ pc'[c] = "queued" => pc[c] = "queued"
               /\ pc'[c] = "dead" => Live(c) \/ pc[c] = "dead"
               /\ Interrupted(c) => Interrupted(c)'
               /\ Recorded(c) => \/ Recorded(c)' 
                                 \/ ~ Live(c)' /\ (pc'[c] = "dead" => Interrupted(c)'),
           \A r \in orphans' \cup closing' :
               /\ r.cmd \in Starts
               /\ r \in orphans \cup closing \/ pc'[r.cmd] # "queued",
           \A r \in closing' : r \in closing \/ ~ Live(r.cmd)'
    PROVE  TraceInv'
<1>1. ASSUME NEW c \in Starts
      PROVE  /\ Live(c)' => Recorded(c)'
             /\ pc'[c] = "dead" => Interrupted(c)' \/ Recorded(c)'
  BY DEF TraceInv
<1>2. \A r \in orphans' \cup closing' : pc'[r.cmd] # "queued"
  BY DEF TraceInv
<1>3. \A r \in closing' : ~ Live(r.cmd)'
  BY DEF TraceInv
<1> QED BY <1>1, <1>2, <1>3 DEF TraceInv

\* What the reporter has listed are records of commands.
LEMMA ListedCommands ==
    ASSUME TypeOK PROVE \A r \in orphans \cup closing : r.cmd \in Starts
BY DEF TypeOK, ProgressRecord

\* A loop head leaves its run recorded or out of the loop, and no other campaign's
\* record is touched.
LEMMA IterateTrace ==
    ASSUME StartedOnce, MaxFaults = 0, TypeOK, TraceInv, NEW c \in Starts, NEW i,
           NEW active, NEW cancelled, NEW d \in DiskType,
           \A k \in Campaigns : k # CampaignOf[c] => d.file[k] = inFlight[k],
           d.file[CampaignOf[c]] # NoRecord /\ d.file[CampaignOf[c]].cmd = c,
           Live(c) \/ pc[c] = "queued",
           Iterate(c, i, active, cancelled, d),
           UNCHANGED <<orphans, closing, received>>
    PROVE  TraceInv'
<1>1. \A b \in Starts : b # c => pc'[b] = pc[b] /\ CampaignOf[b] # CampaignOf[c]
  BY DEF Iterate, SendRecipient, LeaveLoop, TypeOK, StartedOnce
<1>2. pc'[c] \in {"sending", "final"}
  BY DEF Iterate, SendRecipient, LeaveLoop, TypeOK
<1>3. \A k \in Campaigns : k # CampaignOf[c] => inFlight'[k] = inFlight[k]
  <2>1. CASE Becomes(d)
    BY <2>1 DEF Becomes
  <2>2. CASE Retire(c, active, cancelled, d)
    <3>1. PICK e \in Finished(d, CampaignOf[c]) : Becomes(e)
      BY <2>2 DEF Retire
    <3>2. e.file = finishCampaign(d.file, CampaignOf[c])
      BY <3>1, FaultlessWrite DEF Finished, DiskType
    <3> QED BY <3>1, <3>2 DEF Becomes, finishCampaign, DiskType
  <2> QED BY <2>1, <2>2 DEF Iterate
<1>4. pc'[c] = "sending" => inFlight' = d.file
  BY DEF Iterate, SendRecipient, LeaveLoop, Becomes, TypeOK
<1>5. \A r \in closing : r.cmd # c
  BY DEF TraceInv
<1>6. \A b \in Starts : Interrupted(b)' <=> Interrupted(b)
  BY DEF Interrupted
<1>7. ASSUME NEW b \in Starts
      PROVE  /\ Live(b)' => Recorded(b)'
             /\ pc'[b] = "dead" => Interrupted(b)' \/ Recorded(b)'
  <2>1. CASE b = c
    BY <1>2, <1>4, <2>1 DEF Recorded, Live, InLoop
  <2>2. CASE b # c
    BY <1>1, <1>3, <1>6, <2>2 DEF TraceInv, Recorded, Live
  <2> QED BY <2>1, <2>2
<1>8. \A r \in orphans \cup closing : r.cmd \in Starts
  BY ListedCommands
<1>9. \A r \in orphans \cup closing : pc'[r.cmd] # "queued"
  BY <1>1, <1>2, <1>8 DEF TraceInv
<1>10. \A r \in closing : ~ Live(r.cmd)'
  BY <1>1, <1>5, <1>8 DEF TraceInv, Live
<1> QED BY <1>7, <1>9, <1>10 DEF TraceInv

\* Of campaigns started once, and with a file all of whose writes go through, no step loses the
\* trace of a run.
LEMMA TraceStep ==
    ASSUME StartedOnce, MaxFaults = 0
    PROVE  TypeOK /\ CursorInv /\ OneRunPerCampaign /\ RecordInv /\ TraceInv
               /\ [Next]_vars => TraceInv'
<1> SUFFICES ASSUME TypeOK, CursorInv, OneRunPerCampaign, RecordInv, TraceInv, [Next]_vars
             PROVE  TraceInv'
    OBVIOUS
<1>0. \A r \in orphans \cup closing : r.cmd \in Starts
    BY ListedCommands
<1> USE DEF disk
<1>1. ASSUME NEW c \in Starts, CommandStep(c) PROVE TraceInv'
  <2>1. CASE StartCampaign(c)
    <3> DEFINE new == beginCampaign(inFlight, c)
    <3>1. PICK d \in Begun(Disk, c) :
              Iterate(c, 0, runningCampaigns \cup {CampaignOf[c]},
                      cancelledCampaigns \ {CampaignOf[c]}, d)
      BY <2>1 DEF StartCampaign
    <3>2. d \in DiskType /\ d.file = new
      <4>1. Disk.faults \in Nat /\ Disk.file = inFlight
        BY DEF Disk, TypeOK
      <4>2. d.file = new
        BY <3>1, <4>1, FaultlessWrite DEF Begun
      <4> QED BY <4>2, DiskTyped, BegunType
    <3>3. new[CampaignOf[c]] = [cmd |-> c, processed |-> 0, succeeded |-> {}]
      BY DEF beginCampaign, TypeOK
    <3>4. new[CampaignOf[c]] \in ProgressRecord
      BY <3>3 DEF ProgressRecord
    <3>5. new[CampaignOf[c]] # NoRecord /\ new[CampaignOf[c]].cmd = c
      BY <3>3, <3>4, RecordAssumption
    <3>6. \A k \in Campaigns : k # CampaignOf[c] => new[k] = inFlight[k]
      BY DEF beginCampaign, TypeOK
    <3>7. pc[c] = "queued" /\ UNCHANGED <<orphans, closing, received>>
      BY <2>1 DEF StartCampaign, reporter
    <3> HIDE DEF new
    <3> QED BY <3>1, <3>2, <3>5, <3>6, <3>7, IterateTrace
  <2>2. CASE RejectStart(c) \/ BlockStart(c) \/ DropStart(c) \/ BlockReported(c)
    BY <1>0, <2>2, TraceFrame
       DEF RejectStart, BlockStart, DropStart, BlockReported, reporter, disk, Live,
           InLoop, TypeOK, Interrupted, Recorded
  <2>3. CASE AckAnswered(c) \/ AckFailed(c) \/ ErrorReported(c)
    BY <1>0, <2>3, TraceFrame
       DEF AckAnswered, AckFailed, ErrorReported, run, reporter, disk, Live,
           Interrupted, Recorded
  <2> QED BY <1>1, <2>1, <2>2, <2>3 DEF CommandStep
<1>2. ASSUME NEW c \in Starts, RunStep(c) PROVE TraceInv'
  <2>1. CASE Deliver(c)
    BY <1>0, <2>1, TraceFrame
       DEF Deliver, reporter, disk, Live, InLoop, TypeOK, Interrupted, Recorded
  <2>2. CASE FinalReported(c)
    <3>1. \/ received' = received
          \/ \E x : received' = [received EXCEPT ![c] = @ \cup {x}]
      BY <2>2 DEF FinalReported, Closed
    <3>2. received \in [Starts -> SUBSET Report]
      BY DEF TypeOK
    <3>3. \A d \in Starts : received[d] \subseteq received'[d]
      BY <3>1, <3>2
    <3> QED BY <1>0, <2>2, <3>3, TraceFrame
            DEF FinalReported, reporter, disk, Live, InLoop, TypeOK, Interrupted, Recorded
  <2>3. ASSUME NEW ok \in BOOLEAN, SendReturns(c, ok) PROVE TraceInv'
    <3> DEFINE k == CampaignOf[c]
               done == IF ok THEN succeeded[c] \cup {cur[c]} ELSE succeeded[c]
    <3>1. /\ Live(c) /\ pc' = [pc EXCEPT ![c] = "progress"]
          /\ succeeded' = [succeeded EXCEPT ![c] = done]
          /\ UNCHANGED <<orphans, closing, received>>
      BY <2>3 DEF SendReturns, Live, InLoop, reporter
    <3>6. inFlight' = updateCampaign(inFlight, k, cur[c], done)
      <4>1. PICK d \in Updated(Disk, k, cur[c], done) : Becomes(d)
        BY <2>3 DEF SendReturns
      <4>2. Disk.faults \in Nat /\ Disk.file = inFlight
        BY DEF Disk, TypeOK
      <4>3. d.file = updateCampaign(inFlight, k, cur[c], done)
        BY <4>1, <4>2, FaultlessWrite DEF Updated
      <4> QED BY <4>1, <4>3 DEF Becomes
    <3>2. done \in SUBSET Recipients /\ cur[c] \in 0 .. Total
      BY <3>1 DEF TypeOK, CursorInv
    <3>3. ASSUME NEW d \in Starts, Recorded(d) PROVE Recorded(d)'
      <4>1. [cmd |-> inFlight[k].cmd, processed |-> cur[c], succeeded |-> done]
                \in ProgressRecord
            \/ d # c
        BY <3>1, <3>2, <3>3 DEF Recorded, ProgressRecord, TypeOK
      <4>2. CASE d = c
        BY <3>1, <3>3, <3>6, <4>1, <4>2, RecordAssumption
           DEF updateCampaign, Recorded, TypeOK
      <4>3. CASE d # c
        BY <3>1, <3>3, <3>6, <4>3 DEF updateCampaign, Recorded, TypeOK, StartedOnce
      <4> QED BY <4>2, <4>3
    <3> HIDE DEF done
    <3>4. \A d \in Starts : (Live(d)' <=> Live(d)) /\ (d # c => pc'[d] = pc[d])
      BY <3>1 DEF Live, InLoop, TypeOK
    <3>5. pc'[c] = "progress"
      BY <3>1 DEF TypeOK
    <3> QED BY <1>0, <3>1, <3>3, <3>4, <3>5, TraceFrame DEF Interrupted
  <2>4. ASSUME Live(c), NEW i,
               Iterate(c, i, runningCampaigns, cancelledCampaigns, Disk),
               UNCHANGED <<orphans, closing, received>>
        PROVE  TraceInv'
    <3>1. Recorded(c)
      BY <2>4 DEF TraceInv
    <3>2. Disk \in DiskType /\ Disk.file = inFlight
      BY DiskTyped DEF Disk
    <3> QED BY <2>4, <3>1, <3>2, IterateTrace DEF Recorded
  <2>5. CASE ProgressReported(c)
    <3>1. CASE cur[c] < Total
      BY <1>0, <2>5, <3>1, TraceFrame
         DEF ProgressReported, reporter, Live, InLoop, TypeOK, Interrupted, Recorded
    <3>2. CASE cur[c] = Total
      BY <2>4, <2>5, <3>2 DEF ProgressReported, reporter, Live, InLoop, TypeOK
    <3> QED BY <2>5, <3>1, <3>2 DEF ProgressReported
  <2>6. CASE DelayElapsed(c)
    BY <2>4, <2>6 DEF DelayElapsed, reporter, Live, InLoop
  <2> QED BY <1>2, <2>1, <2>2, <2>3, <2>5, <2>6 DEF RunStep
<1>3. CASE \E k \in Campaigns : CancelCampaign(k)
    BY <1>0, <1>3, TraceFrame
       DEF CancelCampaign, run, reporter, Live, Interrupted, Recorded
<1>4. ASSUME ReporterStep PROVE TraceInv'
  <2>1. ASSUME NEW r \in orphans, VisitOrphan(r) PROVE TraceInv'
    <3>1. ~ IsRunning(CampaignOf[r.cmd]) => ~ Live(r.cmd)
      BY <1>0, OneRunPointwise DEF IsRunning
    <3>2. /\ closing' \subseteq closing \cup {r} /\ orphans' \subseteq orphans
          /\ r \in closing' => r \in closing \/ ~ Live(r.cmd)
          /\ UNCHANGED <<pc, inFlight, received>>
      BY <2>1, <3>1 DEF VisitOrphan, run
    <3> QED BY <1>0, <3>2, TraceFrame DEF Live, Interrupted, Recorded
  <2>2. ASSUME NEW r \in closing, OrphanReported(r) PROVE TraceInv'
    <3>1. r.cmd \in Starts /\ ~ Live(r.cmd)
      BY <1>0 DEF TraceInv
    <3>2. \A d \in Starts : received[d] \subseteq received'[d]
      BY <2>2, <3>1 DEF OrphanReported, Closed, TypeOK
    <3>3. Interrupted(r.cmd)'
      BY <2>2, <3>1 DEF OrphanReported, Closed, TypeOK, Interrupted
    <3>4. \A d \in Starts : d # r.cmd => (Recorded(d)' <=> Recorded(d))
      <4>1. PICK e \in Finished(Disk, CampaignOf[r.cmd]) : Becomes(e)
        BY <2>2 DEF OrphanReported
      <4>2. e.file = finishCampaign(inFlight, CampaignOf[r.cmd])
        <5>1. Disk.faults \in Nat /\ Disk.file = inFlight
          BY DEF Disk, TypeOK
        <5> QED BY <4>1, <5>1, FaultlessWrite DEF Finished
      <4>3. inFlight' = finishCampaign(inFlight, CampaignOf[r.cmd])
        BY <4>1, <4>2 DEF Becomes
      <4> QED BY <3>1, <4>3 DEF finishCampaign, Recorded, StartedOnce, TypeOK
    <3>5. UNCHANGED pc /\ orphans' \cup closing' \subseteq orphans \cup closing
          /\ closing' \subseteq closing
      BY <2>2 DEF OrphanReported, run
    <3> QED BY <1>0, <3>1, <3>2, <3>3, <3>4, <3>5, TraceFrame DEF Live, Interrupted
  <2>3. ASSUME NEW r \in closing, OrphanKept(r) PROVE TraceInv'
    BY <1>0, <2>3, TraceFrame DEF OrphanKept, run, Live, Interrupted, Recorded
  <2> QED BY <1>4, <2>1, <2>2, <2>3 DEF ReporterStep
<1>5. CASE SessionStep
  <2>1. CASE BootRuntime \/ BootFailed \/ StopSession
    BY <1>0, <2>1, TraceFrame
       DEF BootRuntime, BootFailed, StopSession, run, reporter, Live, Interrupted,
           Recorded
  <2>2. CASE StartAgentRunner
    <3>1. ASSUME NEW r \in Records
          PROVE  /\ r.cmd \in Starts /\ pc[r.cmd] # "queued"
                 /\ ~ IsRunning(CampaignOf[r.cmd]) => ~ Live(r.cmd)
      <4>1. PICK k \in Campaigns : r = inFlight[k] /\ r # NoRecord
        BY DEF Records
      <4>2. r.cmd \in Starts
        BY <4>1 DEF TypeOK, ProgressRecord
      <4>3. pc[r.cmd] # "queued"
        BY <4>1 DEF RecordInv, RecordOK
      <4> QED BY <4>2, <4>3, OneRunPointwise DEF IsRunning
    <3>2. /\ UNCHANGED <<pc, inFlight, received>>
          /\ orphans' \cup closing' \subseteq orphans \cup closing \cup Records
          /\ \A r \in closing' : \/ r \in closing
                                 \/ r \in Records /\ ~ IsRunning(CampaignOf[r.cmd])
      BY <2>2 DEF StartAgentRunner, reporter, run
    <3> QED BY <1>0, <3>1, <3>2, TraceFrame DEF Live, Interrupted, Recorded
  <2>3. CASE Crash
    <3>1. /\ orphans' = {} /\ closing' = {} /\ UNCHANGED <<inFlight, received>>
          /\ \A c \in Starts : pc'[c] = Remains(c)
      BY <2>3 DEF Crash, ProcessDies
    <3> QED BY <3>1, TraceFrame DEF Remains, Live, InLoop, Interrupted, Recorded
  <2>4. ~ TornCrash
    BY DEF TornCrash, TypeOK
  <2> QED BY <1>5, <2>1, <2>2, <2>3, <2>4 DEF SessionStep
<1>6. CASE UNCHANGED vars
    BY <1>0, <1>6, TraceFrame DEF vars, run, reporter, Live, Interrupted, Recorded
<1> QED BY <1>1, <1>2, <1>3, <1>4, <1>5, <1>6 DEF Next

\* Where it all begins.
LEMMA TraceInit ==
    Init => TraceInv /\ RecordInv /\ OneRunPerCampaign
<1> SUFFICES ASSUME Init PROVE TraceInv /\ RecordInv /\ OneRunPerCampaign
    OBVIOUS
<1>1. runningCampaigns = {} /\ \A c \in Starts : ~ Live(c)
    BY DEF Init, Live, InLoop
<1> QED BY <1>1, OneRunPointwise DEF Init, EmptyFile, RecordInv, RecordOK, TraceInv

\* While a run is in its loop its record is on disk, provided that a campaign is
\* started once and no write of the file fails.  Without the first the report of an earlier
\* run deletes the record of the new one.
THEOREM RecordsCoverRuns ==
    ASSUME StartedOnce, MaxFaults = 0
    PROVE  Spec => []RecordCoversRun
<1>1. TraceInv => RecordCoversRun
    BY DEF TraceInv, RecordCoversRun, Recorded
<1>2. TypeOK /\ CursorInv /\ OneRunPerCampaign /\ RecordInv /\ TraceInv
          /\ [Next]_vars => TraceInv'
    BY TraceStep
<1> QED BY <1>1, <1>2, TraceInit, TypeCorrect, OneRunStep, RecordStep, PTL DEF Spec

\* A run that died is on disk until the cloud was told, with the same provisos.
THEOREM DeathsLeaveTraces ==
    ASSUME StartedOnce, MaxFaults = 0
    PROVE  Spec => []DeathLeavesTrace
<1>1. TraceInv => DeathLeavesTrace
    BY DEF TraceInv, DeathLeavesTrace, Recorded, Records
<1>2. TypeOK /\ CursorInv /\ OneRunPerCampaign /\ RecordInv /\ TraceInv
          /\ [Next]_vars => TraceInv'
    BY TraceStep
<1> QED BY <1>1, <1>2, TraceInit, TypeCorrect, OneRunStep, RecordStep, PTL DEF Spec

-----------------------------------------------------------------------------
(* The contract *)

\* A step that sends nothing, begins no run and resumes none ends some runs, or
\* stutters.
LEMMA ContractEnd ==
    ASSUME UNCHANGED deliveries,
           \A c \in Starts : /\ pc'[c] = "queued" => pc[c] = "queued"
                             /\ Live(c)' => Live(c)
    PROVE  Contract!End
<1>1. Status' \in [Starts -> {"waiting", "active", "over"}]
  BY DEF Status
<1>2. ASSUME NEW c \in Starts PROVE Status'[c] \in {Status[c], "over"}
  BY DEF Status, Live, InLoop
<1> QED BY <1>1, <1>2 DEF Contract!End

\* A loop head ends its run, goes on with it, or begins it.
LEMMA ContractIterate ==
    ASSUME TypeOK, OneRunPerCampaign, NEW c \in Starts, NEW i,
           NEW active, NEW store, NEW cancelled,
           \/ Live(c)
           \/ pc[c] = "queued" /\ CampaignOf[c] \notin runningCampaigns,
           Iterate(c, i, active, cancelled, store), UNCHANGED deliveries
    PROVE  Contract!Begin(c) \/ Contract!End
<1>1. \A d \in Starts \ {c} : pc'[d] = pc[d]
  BY DEF Iterate, SendRecipient, LeaveLoop, TypeOK
<1>2. pc'[c] \in {"sending", "final"}
  BY DEF Iterate, SendRecipient, LeaveLoop, TypeOK
<1>3. CASE Live(c) \/ pc'[c] = "final"
  BY <1>1, <1>2, <1>3, ContractEnd DEF Live, InLoop
<1>4. CASE pc[c] = "queued" /\ pc'[c] = "sending"
  <2>1. CampaignOf[c] \notin runningCampaigns
    BY <1>4 DEF Live, InLoop
  <2>2. \A d \in Starts : CampaignOf[d] = CampaignOf[c] => Status[d] # "active"
    BY <2>1, OneRunPointwise DEF Status
  <2>3. Status[c] = "waiting"
    BY <1>4 DEF Status
  <2>4. ASSUME NEW d \in Starts
        PROVE  Status'[d] = IF d = c THEN "active" ELSE Status[d]
    BY <1>1, <1>4 DEF Status, Live, InLoop
  <2>5. Status' = [Status EXCEPT ![c] = "active"]
    BY <2>4 DEF Status
  <2> QED BY <2>2, <2>3, <2>5 DEF Contract!Begin
<1> QED BY <1>2, <1>3, <1>4

\* Only a run in its loop sends, and to a recipient after all those it sent to.
LEMMA ContractSend ==
    ASSUME TypeOK, CursorInv, SendInv, NEW c \in Starts, Deliver(c)
    PROVE  Contract!Send(c, cur[c])
<1>1. cur[c] \in Recipients /\ deliveries[c][cur[c]] = 0
  BY DEF Deliver, CursorInv, Live, InLoop, SendInv
<1>2. \A q \in Recipients : q >= cur[c] => deliveries[c][q] = 0
  BY <1>1, CampaignAssumption DEF SendInv, Recipients
<1>3. Status[c] = "active"
  BY DEF Deliver, Status, Live, InLoop
<1>4. UNCHANGED Status
  BY DEF Deliver, Status, Live, InLoop, TypeOK
<1>5. deliveries' = [deliveries EXCEPT ![c][cur[c]] = 1]
  BY <1>1 DEF Deliver
<1>6. Contract!Recipients = Recipients
  BY DEF Contract!Recipients, Recipients
<1> QED BY <1>1, <1>2, <1>3, <1>4, <1>5, <1>6 DEF Contract!Send

LEMMA ContractStep ==
    TypeOK /\ CursorInv /\ SendInv /\ OneRunPerCampaign /\ [Next]_vars =>
        [Contract!Next]_(Contract!vars)
<1> SUFFICES ASSUME TypeOK, CursorInv, SendInv, OneRunPerCampaign, [Next]_vars
             PROVE  Contract!Next \/ UNCHANGED <<Status, deliveries>>
  BY DEF Contract!vars
<1>0. ASSUME Contract!End PROVE Contract!Next
  BY <1>0 DEF Contract!Next
<1>1. ASSUME NEW c \in Starts, CommandStep(c) PROVE Contract!Next
  <2>1. CASE StartCampaign(c)
    BY <1>0, <2>1, ContractIterate DEF StartCampaign, IsRunning, Contract!Next
  <2>2. CASE RejectStart(c) \/ BlockStart(c) \/ DropStart(c) \/ BlockReported(c)
    BY <1>0, <2>2, ContractEnd
       DEF RejectStart, BlockStart, DropStart, BlockReported, Live, InLoop, TypeOK
  <2>3. CASE AckAnswered(c) \/ AckFailed(c) \/ ErrorReported(c)
    BY <1>0, <2>3, ContractEnd DEF AckAnswered, AckFailed, ErrorReported, run, Live
  <2> QED BY <1>1, <2>1, <2>2, <2>3 DEF CommandStep
<1>2. ASSUME NEW c \in Starts, RunStep(c) PROVE Contract!Next
  <2>1. CASE Deliver(c)
    <3>1. cur[c] \in Contract!Recipients
      BY <2>1 DEF Deliver, CursorInv, Live, InLoop, Contract!Recipients, Recipients
    <3> QED BY <2>1, <3>1, ContractSend DEF Contract!Next
  <2>2. CASE FinalReported(c)
    BY <1>0, <2>2, ContractEnd DEF FinalReported, Live, InLoop, TypeOK
  <2>3. ASSUME NEW ok \in BOOLEAN, SendReturns(c, ok) PROVE Contract!Next
    BY <1>0, <2>3, ContractEnd DEF SendReturns, Live, InLoop, TypeOK
  <2>4. CASE ProgressReported(c)
    <3>1. CASE cur[c] < Total
      BY <1>0, <2>4, <3>1, ContractEnd
         DEF ProgressReported, Live, InLoop, TypeOK
    <3>2. CASE cur[c] = Total
      BY <1>0, <2>4, <3>2, ContractIterate
         DEF ProgressReported, Live, InLoop, TypeOK, Contract!Next
    <3> QED BY <2>4, <3>1, <3>2 DEF ProgressReported
  <2>5. CASE DelayElapsed(c)
    BY <1>0, <2>5, ContractIterate DEF DelayElapsed, Live, InLoop, Contract!Next
  <2> QED BY <1>2, <2>1, <2>2, <2>3, <2>4, <2>5 DEF RunStep
<1>3. CASE \E k \in Campaigns : CancelCampaign(k)
  BY <1>0, <1>3, ContractEnd DEF CancelCampaign, run, Live
<1>4. CASE ReporterStep
  BY <1>0, <1>4, ContractEnd
     DEF ReporterStep, VisitOrphan, OrphanReported, OrphanKept, run, Live
<1>5. CASE SessionStep
  <2>1. CASE BootRuntime \/ BootFailed \/ StartAgentRunner \/ StopSession
    BY <1>0, <2>1, ContractEnd
       DEF BootRuntime, BootFailed, StartAgentRunner, StopSession, run, Live
  <2>2. CASE Crash \/ TornCrash
    BY <1>0, <2>2, ContractEnd
       DEF Crash, TornCrash, ProcessDies, Remains, Live, InLoop
  <2> QED BY <1>5, <2>1, <2>2 DEF SessionStep
<1>6. CASE UNCHANGED vars
  BY <1>6 DEF vars, run, Status, Live
<1> QED BY <1>1, <1>2, <1>3, <1>4, <1>5, <1>6 DEF Next

\* Whatever commands, crashes, logouts and restarts do, the executor implements
\* the contract of CampaignContract.
THEOREM ImplementsContract == Spec => MeetsContract
<1>1. ASSUME Init PROVE Contract!Init /\ SendInv /\ OneRunPerCampaign
  <2>1. runningCampaigns = {} /\ \A c \in Starts : ~ Live(c)
    BY <1>1 DEF Init, Live, InLoop
  <2>2. OneRunPerCampaign
    BY <2>1, OneRunPointwise
  <2>3. SendInv
    BY <1>1 DEF Init, SendInv, Recipients
  <2>4. Contract!Init
    BY <1>1 DEF Init, Status, Contract!Init, Contract!Recipients, Recipients
  <2> QED BY <2>2, <2>3, <2>4
<1> QED BY <1>1, TypeCorrect, SendStep, OneRunStep, ContractStep, PTL
        DEF Spec, MeetsContract, Contract!Spec
=============================================================================
