------------------------------ MODULE Campaign ------------------------------
(***************************************************************************)
(* A bulk campaign on the desktop agent: the START_CAMPAIGN and            *)
(* CANCEL_CAMPAIGN commands of command-executor.ts, the in-flight record   *)
(* of campaign-progress.ts and the boot-time reporter of agent-runner.ts.  *)
(*                                                                         *)
(* Node runs one callback at a time, so an action is the code between two  *)
(* awaits.  The dynamic imports the executor awaits name modules that      *)
(* server.ts and agent-runner.ts load statically: they resolve in          *)
(* microtasks, before any other callback, and are no interleaving point.   *)
(* The process may die between any two actions; its memory goes, the       *)
(* record on disk stays.                                                   *)
(***************************************************************************)
EXTENDS Naturals

CONSTANTS
    Starts,       \* the START_CAMPAIGN commands the cloud may queue
    Campaigns,    \* the campaign ids
    CampaignOf,   \* the campaign a start command is for
    Total,        \* length of the recipient list
    NoRecord,     \* a campaign without an entry in in-flight.json
    MaxFaults     \* bound on the writes of in-flight.json that fail or are cut short

ASSUME CampaignAssumption ==
    /\ CampaignOf \in [Starts -> Campaigns]
    /\ Total \in Nat \ {0}
    /\ MaxFaults \in Nat

VARIABLES
    \* the agent process
    running,             \* agent-runner: the runner is started
    booting,             \* some bootRuntime may be waiting for initializeZalo
    cancelAllCampaigns,  \* command-executor's module variables
    runningCampaigns,
    cancelledCampaigns,
    pc,                  \* where the run of each start command is
    cur,                 \* its recipient index (recipients handled or in hand)
    succeeded,           \* the recipients whose send returned success
    wasCancelled,        \* what the finished loop read in cancelledCampaigns
    ack,                 \* the poll step's own report about the command
    orphans,             \* records reportInterruptedCampaigns has yet to visit
    closing,             \* records whose interruption it is reporting
    \* disk and outside world
    inFlight,            \* in-flight.json
    received,            \* what the cloud was told of the end of each run
    \* history
    deliveries,          \* how often each recipient was sent the message
    told,                \* runs that were told to stop
    unwritten,           \* campaigns whose entry missed a write of its run
    faults               \* the number of writes that failed or were cut short

session  == <<running, booting, cancelAllCampaigns>>
marks    == <<runningCampaigns, cancelledCampaigns>>
run      == <<pc, cur, succeeded, wasCancelled>>
reporter == <<orphans, closing>>
disk     == <<inFlight, unwritten, faults>>
vars     == <<session, marks, run, ack, reporter, disk, received, deliveries,
              told>>

Recipients == 1 .. Total

\* sending: sendMessage awaited, nothing left yet;  delivered: it left, the
\* answer is awaited;  done: nothing of it is left to do, whether it was rejected,
\* blocked, dropped or run;  dead: the process died while it was in its loop.
InLoop == {"sending", "delivered", "progress", "delay"}
Phases == InLoop \cup {"queued", "blocked", "final", "done", "dead"}

\* CampaignProgressRecord; successCount is the size of "succeeded", the
\* failures are the other processed recipients.  cancelledCount is always 0
\* when the record is written: cancelled iterations skip updateCampaign.
ProgressRecord == [cmd : Starts, processed : 0 .. Total,
                   succeeded : SUBSET Recipients]

ASSUME RecordAssumption == NoRecord \notin ProgressRecord

\* What the cloud is told of how a run ended.  The counts of a report are those of
\* the record, or of the whole list; reports of a start that was refused are left out.
Report == {"interrupted", "success", "failure"}

Live(c)  == pc[c] \in InLoop
Records  == {inFlight[k] : k \in Campaigns} \ {NoRecord}
\* Mutant: the guard against a second run is forgotten.
IsRunningForgotten(k) == k \in {}

IsRunning(k) == k \in runningCampaigns

-----------------------------------------------------------------------------
(* in-flight.json *)

EmptyFile == [k \in Campaigns |-> NoRecord]

beginCampaign(file, c) ==
    [file EXCEPT ![CampaignOf[c]] =
        [cmd |-> c, processed |-> 0, succeeded |-> {}]]

\* Mutant: a failed send is not counted as processed.
updateCampaignOnSuccess(file, k, n, ok) ==
    IF file[k] = NoRecord \/ n \notin ok
    THEN file
    ELSE [file EXCEPT ![k] = [cmd |-> file[k].cmd, processed |-> n,
                              succeeded |-> ok]]

\* A patch of an entry that is gone is dropped; the entry keeps its command.
updateCampaign(file, k, n, ok) ==
    IF file[k] = NoRecord
    THEN file
    ELSE [file EXCEPT ![k] = [cmd |-> file[k].cmd, processed |-> n,
                              succeeded |-> ok]]

finishCampaign(file, k) == [file EXCEPT ![k] = NoRecord]

\* The file with what is known of its faults.
Disk == [file |-> inFlight, missed |-> unwritten, faults |-> faults]
Becomes(d) == inFlight' = d.file /\ unwritten' = d.missed /\ faults' = d.faults

\* writeAll swallows an exception: the file keeps what it held, or was truncated
\* already and no longer parses, which readAll takes for an empty one.  Removing or
\* updating an entry that is not there writes nothing.  "mended" are the campaigns
\* whose entry is right once the write went through.
Outcomes(d, new, k, mended) ==
    {[file |-> new, missed |-> d.missed \ mended, faults |-> d.faults]} \cup
    IF d.faults < MaxFaults /\ (new # d.file \/ d.file[k] # NoRecord)
    THEN {[file |-> d.file, missed |-> d.missed \cup {k}, faults |-> d.faults + 1],
          [file |-> EmptyFile, missed |-> {}, faults |-> d.faults + 1]}
    ELSE {}

Begun(d, c) ==
    Outcomes(d, beginCampaign(d.file, c), CampaignOf[c], {CampaignOf[c]})
Updated(d, k, n, ok) == Outcomes(d, updateCampaign(d.file, k, n, ok), k, {})
Finished(d, k) == Outcomes(d, finishCampaign(d.file, k), k, {k})

-----------------------------------------------------------------------------
(* The send loop *)

\* Mutant: the loop only looks at the global flag.
SendRecipientUnlessAll(c, i, cancelled) ==
    /\ i < Total
    /\ ~ cancelAllCampaigns
    /\ pc' = [pc EXCEPT ![c] = "sending"]
    /\ cur' = [cur EXCEPT ![c] = i + 1]
    /\ UNCHANGED wasCancelled

\* One iteration's head with recipient i + 1: the flags are read, and the
\* send is under way before anything else can run.
SendRecipient(c, i, cancelled) ==
    /\ i < Total
    /\ ~ (cancelAllCampaigns \/ CampaignOf[c] \in cancelled)
    /\ pc' = [pc EXCEPT ![c] = "sending"]
    /\ cur' = [cur EXCEPT ![c] = i + 1]
    /\ UNCHANGED wasCancelled

\* Mutant: the mark is cleared before it is read.
LeaveLoopCleared(c, i, cancelled) ==
    /\ i = Total \/ cancelAllCampaigns \/ CampaignOf[c] \in cancelled
    /\ pc' = [pc EXCEPT ![c] = "final"]
    /\ cur' = [cur EXCEPT ![c] = i]
    /\ wasCancelled' = [wasCancelled EXCEPT ![c] = FALSE]

\* Mutant: a cancelled run waits where it is instead of leaving.
LeaveLoopAtEnd(c, i, cancelled) ==
    /\ i = Total
    /\ pc' = [pc EXCEPT ![c] = "final"]
    /\ cur' = [cur EXCEPT ![c] = i]
    /\ wasCancelled' = [wasCancelled EXCEPT ![c] = CampaignOf[c] \in cancelled]

\* The list is exhausted, or a cancelled iteration is followed, with no await,
\* by cancelled iterations to the end of it: the loop is over.
LeaveLoop(c, i, cancelled) ==
    /\ i = Total \/ cancelAllCampaigns \/ CampaignOf[c] \in cancelled
    /\ pc' = [pc EXCEPT ![c] = "final"]
    /\ cur' = [cur EXCEPT ![c] = i]
    /\ wasCancelled' = [wasCancelled EXCEPT ![c] = CampaignOf[c] \in cancelled]

\* The rest of the step that leaves the loop: the sets and the record.
Retire(c, active, cancelled, d) ==
    /\ runningCampaigns' = active \ {CampaignOf[c]}
    /\ cancelledCampaigns' = cancelled \ {CampaignOf[c]}
    /\ \E e \in Finished(d, CampaignOf[c]) : Becomes(e)

Iterate(c, i, active, cancelled, d) ==
    \/ /\ SendRecipient(c, i, cancelled)
       /\ runningCampaigns' = active
       /\ cancelledCampaigns' = cancelled
       /\ Becomes(d)
    \/ /\ LeaveLoop(c, i, cancelled)
       /\ Retire(c, active, cancelled, d)

-----------------------------------------------------------------------------
(* Commands *)

\* runPollStep fetched a start command of a campaign that runs already.
RejectStart(c) ==
    /\ running /\ pc[c] = "queued"
    /\ IsRunning(CampaignOf[c])
    /\ pc' = [pc EXCEPT ![c] = "done"]
    /\ ack' = [ack EXCEPT ![c] = "error"]
    /\ UNCHANGED <<session, marks, cur, succeeded, wasCancelled, reporter,
                   disk, received, deliveries, told>>

\* The compliance guard refuses the campaign (quiet hours, batch size): the
\* poll step still acknowledges the command as running.
BlockStart(c) ==
    /\ running /\ pc[c] = "queued"
    /\ ~ IsRunning(CampaignOf[c])
    /\ pc' = [pc EXCEPT ![c] = "blocked"]
    /\ ack' = [ack EXCEPT ![c] = "running"]
    /\ UNCHANGED <<session, marks, cur, succeeded, wasCancelled, reporter,
                   disk, received, deliveries, told>>

StartCampaign(c) ==
    /\ running /\ pc[c] = "queued"
    /\ ~ IsRunning(CampaignOf[c])
    /\ ack' = [ack EXCEPT ![c] = "running"]
    /\ \E d \in Begun(Disk, c) :
          Iterate(c, 0, runningCampaigns \cup {CampaignOf[c]},
                  cancelledCampaigns \ {CampaignOf[c]}, d)
    /\ UNCHANGED <<session, succeeded, reporter, received, deliveries, told>>

\* The cloud handed the command out, but the reply was lost or found the
\* runner stopped: nobody executes it.
DropStart(c) ==
    /\ pc[c] = "queued"
    /\ pc' = [pc EXCEPT ![c] = "done"]
    /\ UNCHANGED <<session, marks, cur, succeeded, wasCancelled, ack, reporter,
                   disk, received, deliveries, told>>

CancelCampaign(k) ==
    /\ running
    /\ IsRunning(k)
    /\ cancelledCampaigns' = cancelledCampaigns \cup {k}
    /\ told' = told \cup {c \in Starts : Live(c) /\ CampaignOf[c] = k}
    /\ UNCHANGED <<session, runningCampaigns, run, ack, reporter, disk,
                   received, deliveries>>

\* The poll step's report {success: true, status: running} is answered.
AckAnswered(c) ==
    /\ ack[c] = "running"
    /\ ack' = [ack EXCEPT ![c] = "none"]
    /\ UNCHANGED <<session, marks, run, reporter, disk, received,
                   deliveries, told>>

\* It throws: the catch meant for execution errors reports a failure instead.
AckFailed(c) ==
    /\ ack[c] = "running"
    /\ ack' = [ack EXCEPT ![c] = IF running THEN "error" ELSE "none"]
    /\ UNCHANGED <<session, marks, run, reporter, disk, received,
                   deliveries, told>>

\* The report of a failed execution, or of a refusal by the compliance guard, arrives
\* or is lost: nothing here depends on it.
ErrorReported(c) ==
    /\ ack[c] = "error"
    /\ ack' = [ack EXCEPT ![c] = "none"]
    /\ UNCHANGED <<session, marks, run, reporter, disk, received, deliveries,
                   told>>

BlockReported(c) ==
    /\ pc[c] = "blocked"
    /\ pc' = [pc EXCEPT ![c] = "done"]
    /\ UNCHANGED <<session, marks, cur, succeeded, wasCancelled, ack, reporter,
                   disk, received, deliveries, told>>

-----------------------------------------------------------------------------
(* The background run *)

\* External: the channel hands the message to Zalo.
Deliver(c) ==
    /\ pc[c] = "sending"
    /\ pc' = [pc EXCEPT ![c] = "delivered"]
    /\ deliveries' = [deliveries EXCEPT ![c][cur[c]] = @ + 1]
    /\ UNCHANGED <<session, marks, cur, succeeded, wasCancelled, ack, reporter,
                   disk, received, told>>

\* Mutant: a failed send is tried again.
SendReturnsRetrying(c, ok) ==
    /\ pc[c] = "delivered" \/ (pc[c] = "sending" /\ ~ ok)
    /\ pc' = [pc EXCEPT ![c] = IF ok THEN "progress" ELSE "sending"]
    /\ LET done == IF ok THEN succeeded[c] \cup {cur[c]} ELSE succeeded[c]
       IN  /\ succeeded' = [succeeded EXCEPT ![c] = done]
           /\ \E d \in Updated(Disk, CampaignOf[c], cur[c], done) : Becomes(d)
    /\ UNCHANGED <<session, marks, cur, wasCancelled, ack, reporter, received,
                   deliveries, told>>

\* sendMessage returns or throws (a failure may hide a delivery): the result
\* is committed to disk before the progress report leaves.
SendReturns(c, ok) ==
    /\ pc[c] = "delivered" \/ (pc[c] = "sending" /\ ~ ok)
    /\ LET done == IF ok THEN succeeded[c] \cup {cur[c]} ELSE succeeded[c]
       IN  /\ succeeded' = [succeeded EXCEPT ![c] = done]
           /\ \E d \in Updated(Disk, CampaignOf[c], cur[c], done) : Becomes(d)
    /\ pc' = [pc EXCEPT ![c] = "progress"]
    /\ UNCHANGED <<session, marks, cur, wasCancelled, ack, reporter, received,
                   deliveries, told>>

\* The progress report ends, well or badly: a delay follows, except after the
\* last recipient.
ProgressReported(c) ==
    /\ pc[c] = "progress"
    /\ \/ /\ cur[c] < Total
          /\ pc' = [pc EXCEPT ![c] = "delay"]
          /\ UNCHANGED <<marks, cur, wasCancelled, disk>>
       \/ /\ cur[c] = Total
          /\ Iterate(c, Total, runningCampaigns, cancelledCampaigns, Disk)
    /\ UNCHANGED <<session, succeeded, ack, reporter, received, deliveries, told>>

DelayElapsed(c) ==
    /\ pc[c] = "delay"
    /\ Iterate(c, cur[c], runningCampaigns, cancelledCampaigns, Disk)
    /\ UNCHANGED <<session, succeeded, ack, reporter, received, deliveries, told>>

Closed(c, report) == received' = [received EXCEPT ![c] = @ \cup {report}]

\* The final report arrives, or fails and is only logged.  It counts the whole list
\* as processed, and calls it a success unless a send failed (anyFailed) or the run
\* had a mark of its own: wasCancelled ignores cancelAllCampaigns.
successState(c) == succeeded[c] = 1 .. cur[c] /\ ~ wasCancelled[c]

FinalReported(c) ==
    /\ pc[c] = "final"
    /\ pc' = [pc EXCEPT ![c] = "done"]
    /\ \/ Closed(c, IF successState(c) THEN "success" ELSE "failure")
       \/ UNCHANGED received
    /\ UNCHANGED <<session, marks, cur, succeeded, wasCancelled, ack, reporter,
                   disk, deliveries, told>>

-----------------------------------------------------------------------------
(* Session and process *)

\* SessionCoordinator.activate resets the cancellation, an attempt of the
\* resume at process start leaves it; bootRuntime then stops the runner and
\* waits for initializeZalo.
BootRuntime ==
    /\ cancelAllCampaigns' \in {FALSE, cancelAllCampaigns}
    /\ running' = FALSE
    /\ booting' = TRUE
    /\ UNCHANGED <<marks, run, ack, reporter, disk, received, deliveries,
                   told>>

\* The waiting boot failed, or found the runner started.
BootFailed ==
    /\ booting
    /\ booting' = FALSE
    /\ UNCHANGED <<running, cancelAllCampaigns, marks, run, ack, reporter,
                   disk, received, deliveries, told>>

\* Mutant: the reporter takes every record for an orphan.
StartAgentRunnerBlind ==
    /\ booting /\ ~ running
    /\ booting' \in BOOLEAN
    /\ running' = TRUE
    /\ closing' = closing \cup Records
    /\ UNCHANGED <<cancelAllCampaigns, marks, run, ack, orphans, disk,
                   received, deliveries, told>>

\* startAgentRunner; reportInterruptedCampaigns lists the records and reports
\* the first one whose campaign does not run in this process.  Another boot may
\* still be waiting.
StartAgentRunner ==
    /\ booting /\ ~ running
    /\ booting' \in BOOLEAN
    /\ running' = TRUE
    /\ \/ \E r \in Records :
             /\ ~ IsRunning(CampaignOf[r.cmd])
             /\ closing' = closing \cup {r}
             /\ orphans' = orphans \cup (Records \ {r})
       \/ /\ \A r \in Records : IsRunning(CampaignOf[r.cmd])
          /\ UNCHANGED reporter
    /\ UNCHANGED <<cancelAllCampaigns, marks, run, ack, disk, received,
                   deliveries, told>>

VisitOrphan(r) ==
    /\ r \in orphans
    /\ orphans' = orphans \ {r}
    /\ closing' = IF IsRunning(CampaignOf[r.cmd]) THEN closing
                  ELSE closing \cup {r}
    /\ UNCHANGED <<session, marks, run, ack, disk, received, deliveries,
                   told>>

\* The interruption was reported: the entry of that campaign id is deleted.
OrphanReported(r) ==
    /\ r \in closing
    /\ closing' = closing \ {r}
    /\ Closed(r.cmd, "interrupted")
    /\ \E d \in Finished(Disk, CampaignOf[r.cmd]) : Becomes(d)
    /\ UNCHANGED <<session, marks, run, ack, orphans, deliveries, told>>

\* Mutant: the record goes even when its report failed.
OrphanForgotten(r) ==
    /\ r \in closing
    /\ closing' = closing \ {r}
    /\ \E d \in Finished(Disk, CampaignOf[r.cmd]) : Becomes(d)
    /\ UNCHANGED <<session, marks, run, ack, orphans, received, deliveries,
                   told>>

\* The report failed: the record is kept for the next start of the runner.
OrphanKept(r) ==
    /\ r \in closing
    /\ closing' = closing \ {r}
    /\ UNCHANGED <<session, marks, run, ack, orphans, disk, received,
                   deliveries, told>>

\* stopAndDeleteSessionFiles (logout, revocation): every running campaign is
\* marked, the runner stops; a boot that waits is not withdrawn.
StopSession ==
    /\ cancelAllCampaigns' = TRUE
    /\ cancelledCampaigns' = cancelledCampaigns \cup runningCampaigns
    /\ running' = FALSE
    /\ told' = told \cup {c \in Starts : Live(c)}
    /\ UNCHANGED <<booting, runningCampaigns, run, ack, reporter, disk,
                   received, deliveries>>

\* Mutant: a run is resumed with the recipient it had in hand.
RemainsResumed(c) == IF pc[c] = "delivered" THEN "sending" ELSE pc[c]

\* What the death of the process leaves of a run.
Remains(c) ==
    CASE Live(c)                      -> "dead"
      [] pc[c] \in {"final", "blocked"} -> "done"
      [] OTHER                        -> pc[c]

ProcessDies ==
    /\ running' = FALSE /\ booting' = FALSE /\ cancelAllCampaigns' = FALSE
    /\ runningCampaigns' = {} /\ cancelledCampaigns' = {}
    /\ pc' = [c \in Starts |-> Remains(c)]
    /\ ack' = [c \in Starts |-> "none"]
    /\ orphans' = {} /\ closing' = {}
    /\ UNCHANGED <<cur, succeeded, wasCancelled, received, deliveries, told>>

Crash == ProcessDies /\ UNCHANGED disk

\* The process dies inside writeFileSync: the file no longer parses, and
\* readAll takes it for an empty one.
TornCrash ==
    /\ faults < MaxFaults
    /\ (\E c \in Starts : Live(c)) \/ closing # {}
    /\ ProcessDies
    /\ inFlight' = EmptyFile /\ unwritten' = {} /\ faults' = faults + 1

-----------------------------------------------------------------------------
Init ==
    /\ running = FALSE /\ booting = FALSE /\ cancelAllCampaigns = FALSE
    /\ runningCampaigns = {} /\ cancelledCampaigns = {}
    /\ pc = [c \in Starts |-> "queued"]
    /\ cur = [c \in Starts |-> 0]
    /\ succeeded = [c \in Starts |-> {}]
    /\ wasCancelled = [c \in Starts |-> FALSE]
    /\ ack = [c \in Starts |-> "none"]
    /\ orphans = {} /\ closing = {}
    /\ inFlight = EmptyFile /\ unwritten = {} /\ faults = 0
    /\ received = [c \in Starts |-> {}]
    /\ deliveries = [c \in Starts |-> [r \in Recipients |-> 0]]
    /\ told = {}

CommandStep(c) ==
    \/ RejectStart(c) \/ BlockStart(c) \/ StartCampaign(c) \/ DropStart(c)
    \/ AckAnswered(c) \/ AckFailed(c) \/ ErrorReported(c) \/ BlockReported(c)

RunStep(c) ==
    \/ Deliver(c)
    \/ \E ok \in BOOLEAN : SendReturns(c, ok)
    \/ ProgressReported(c) \/ DelayElapsed(c) \/ FinalReported(c)

ReporterStep ==
    \/ \E r \in orphans : VisitOrphan(r)
    \/ \E r \in closing : OrphanReported(r) \/ OrphanKept(r)

SessionStep ==
    \/ BootRuntime \/ BootFailed \/ StartAgentRunner \/ StopSession
    \/ Crash \/ TornCrash

Next ==
    \/ \E c \in Starts : CommandStep(c) \/ RunStep(c)
    \/ \E k \in Campaigns : CancelCampaign(k)
    \/ ReporterStep
    \/ SessionStep

Spec == Init /\ [][Next]_vars

\* A run's awaits end: sends and reports return or throw, delays elapse.
FairSpec == Spec /\ \A c \in Starts : WF_vars(RunStep(c))

\* Besides, the application is opened again and again, its boots succeed again
\* and again, and a report that is tried again and again arrives.
Revisited(c) == \E r \in orphans : r.cmd = c /\ VisitOrphan(r)
Reported(c)  == \E r \in closing : r.cmd = c /\ OrphanReported(r)
RestartSpec ==
    /\ FairSpec
    /\ WF_vars(BootRuntime) /\ SF_vars(StartAgentRunner)
    /\ \A c \in Starts : SF_vars(Revisited(c)) /\ SF_vars(Reported(c))

-----------------------------------------------------------------------------
TypeOK ==
    /\ running \in BOOLEAN /\ booting \in BOOLEAN
    /\ cancelAllCampaigns \in BOOLEAN
    /\ runningCampaigns \subseteq Campaigns
    /\ cancelledCampaigns \subseteq Campaigns
    /\ pc \in [Starts -> Phases]
    /\ cur \in [Starts -> 0 .. Total]
    /\ succeeded \in [Starts -> SUBSET Recipients]
    /\ wasCancelled \in [Starts -> BOOLEAN]
    /\ ack \in [Starts -> {"none", "running", "error"}]
    /\ orphans \subseteq ProgressRecord /\ closing \subseteq ProgressRecord
    /\ inFlight \in [Campaigns -> ProgressRecord \cup {NoRecord}]
    /\ received \in [Starts -> SUBSET Report]
    /\ deliveries \in [Starts -> [Recipients -> Nat]]
    /\ told \subseteq Starts /\ unwritten \subseteq Campaigns
    /\ faults \in Nat

\* Nobody is sent a campaign message twice by one command: not by a failed
\* send, a restarted runner, a restarted process or an interruption report
\* (agent-runner.ts: "never resume").
AtMostOneSend ==
    \A c \in Starts, r \in Recipients : deliveries[c][r] <= 1

\* runningCampaigns is exactly the campaigns with a run in its loop, and no
\* campaign has two: a campaign is neither started twice nor locked for ever.
OneRunPerCampaign ==
    /\ runningCampaigns = {CampaignOf[c] : c \in {d \in Starts : Live(d)}}
    /\ \A c, d \in Starts :
          Live(c) /\ Live(d) /\ CampaignOf[c] = CampaignOf[d] => c = d

\* What in-flight.json tells of a command is true at any moment the process may
\* die: the successes it counts left, and nobody beyond the one recipient after
\* "processed" was sent anything.  Excepted is the entry that missed a write since its
\* run began it: a failed update leaves it behind, and after a failed begin a run
\* patches the entry of the run before it.
Honest(rec) ==
    /\ \A r \in rec.succeeded : deliveries[rec.cmd][r] = 1
    /\ \A r \in Recipients :
          r > rec.processed + 1 => deliveries[rec.cmd][r] = 0

HonestRecords ==
    \A rec \in Records : CampaignOf[rec.cmd] \notin unwritten => Honest(rec)

\* A run that was told to stop starts no other send, whatever re-login resets
\* in the meantime.
CancelSticks ==
    [][\A c \in told : pc'[c] = "sending" => pc[c] = "sending"]_vars

\* A command reported as a success was never told to stop, and sent to everyone on
\* its list, or to nobody: a run that was cut short is never called a success.
SentToAll(c)    == \A r \in Recipients : deliveries[c][r] = 1
SentToNobody(c) == \A r \in Recipients : deliveries[c][r] = 0
SuccessIsWhole ==
    \A c \in Starts : "success" \in received[c] =>
        c \notin told /\ (SentToAll(c) \/ SentToNobody(c))

\* A success counts the whole list as processed, but not everyone on it was sent to:
\* this does not hold of a campaign started while cancelAllCampaigns is still set.  A
\* logout during the initializeZalo of a resume sets it, and the resume leaves it set.
SuccessIsComplete ==
    \A c \in Starts : "success" \in received[c] => SentToAll(c)

\* While a run is in its loop, the entry of its campaign is its own: the only
\* trace a death would leave (command-executor.ts, before beginCampaign).  It holds
\* of campaigns started once; started again, the report of an earlier, dead run
\* deletes the record of the new one.
RecordCoversRun ==
    \A c \in Starts :
        Live(c) => /\ inFlight[CampaignOf[c]] # NoRecord
                   /\ inFlight[CampaignOf[c]].cmd = c

\* A run that died in its loop is on disk until the cloud has its report.
Interrupted(c) == "interrupted" \in received[c]
DeathLeavesTrace ==
    \A c \in Starts :
        pc[c] = "dead" => Interrupted(c) \/ \E rec \in Records : rec.cmd = c

\* Only a command whose process died in the middle of it is reported as
\* interrupted (agent-runner.ts: a campaign that really runs must not be touched).
\* It does not hold of two campaigns, as the list is older than an awaited report; nor
\* when the write failed that was to remove the entry of a run that is over.
OnlyTheDeadAreInterrupted ==
    \A c \in Starts : Interrupted(c) => pc[c] = "dead"

\* A run told to stop leaves its loop.
ToldRunStops == \A c \in Starts : c \in told ~> ~ Live(c)

\* An interrupted run is reported to the cloud in the end.
InterruptionReported == \A c \in Starts : pc[c] = "dead" ~> Interrupted(c)

\* A run is over once it left its loop, died, or was never begun.
Status == [c \in Starts |-> IF pc[c] = "queued" THEN "waiting"
                            ELSE IF Live(c) THEN "active" ELSE "over"]

Contract == INSTANCE CampaignContract WITH status <- Status, sent <- deliveries

\* The executor implements the contract.
MeetsContract == Contract!Spec
-----------------------------------------------------------------------------
(* The inductive invariant behind the theorems of CampaignProofs. *)

\* A run in its loop has a recipient in hand.
CursorInv == \A c \in Starts : Live(c) => cur[c] \in Recipients

SendInv ==
    \A c \in Starts :
        /\ \A r \in Recipients :
              /\ deliveries[c][r] \in {0, 1}
              /\ r > cur[c] => deliveries[c][r] = 0
              /\ r \in succeeded[c] => deliveries[c][r] = 1
        /\ pc[c] = "queued" => cur[c] = 0
        /\ pc[c] = "sending" => deliveries[c][cur[c]] = 0
        /\ pc[c] = "delivered" => deliveries[c][cur[c]] = 1

\* The record of a campaign is that of its live run or of a dead one, and lags
\* at most by the recipient in hand.
RecordOK(k) ==
    inFlight[k] # NoRecord =>
        LET rec == inFlight[k]
        IN  /\ CampaignOf[rec.cmd] = k
            /\ pc[rec.cmd] # "queued"
            /\ k \notin unwritten =>
                /\ pc[rec.cmd] \in InLoop \cup {"dead"}
                /\ \A c \in Starts : Live(c) /\ CampaignOf[c] = k => c = rec.cmd
                /\ cur[rec.cmd] <= rec.processed + 1
                /\ pc[rec.cmd] \in {"progress", "delay"} =>
                      cur[rec.cmd] <= rec.processed
                /\ rec.succeeded \subseteq succeeded[rec.cmd]

RecordInv == \A k \in Campaigns : RecordOK(k)

CancelInv ==
    \A c \in told :
        /\ pc[c] # "queued"
        /\ Live(c) => CampaignOf[c] \in cancelledCampaigns
        /\ pc[c] = "final" => wasCancelled[c]

\* The cancellation of all campaigns marks every run in its loop.  So a run that leaves
\* its loop without a mark comes to the end of its list or was never begun.
WholeInv ==
    \A c \in Starts :
        /\ Live(c) /\ c \notin told => ~ cancelAllCampaigns
        /\ pc[c] = "final" /\ ~ wasCancelled[c] => cur[c] \in {0, Total}

\* A final report closes a command, and what made it a success stays true.
SuccessInv ==
    \A c \in Starts :
        /\ {"success", "failure"} \cap received[c] # {} => pc[c] = "done"
        /\ "success" \in received[c] =>
              c \notin told /\ (SentToAll(c) \/ SentToNobody(c))

IInv == /\ TypeOK /\ CursorInv /\ SendInv /\ OneRunPerCampaign /\ RecordInv
        /\ CancelInv /\ WholeInv /\ SuccessInv

\* Every campaign is started by one command.
StartedOnce == \A c, d \in Starts : CampaignOf[c] = CampaignOf[d] => c = d

Recorded(c) == inFlight[CampaignOf[c]] # NoRecord /\ inFlight[CampaignOf[c]].cmd = c

\* Of campaigns started once: a run has its record until it left the loop or was
\* reported, and what the reporter deletes belongs to no run in its loop.
TraceInv ==
    /\ \A c \in Starts :
          /\ Live(c) => Recorded(c)
          /\ pc[c] = "dead" => Interrupted(c) \/ Recorded(c)
    /\ \A r \in orphans \cup closing : pc[r.cmd] # "queued"
    /\ \A r \in closing : ~ Live(r.cmd)
=============================================================================
