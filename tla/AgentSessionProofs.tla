-------------------------- MODULE AgentSessionProofs --------------------------
(***************************************************************************)
(* What AgentSession guarantees for every set of operations, whoever their *)
(* users are.                                                              *)
(***************************************************************************)
EXTENDS AgentSession, TLAPS

USE SessionAssumption
USE DEF Credentials

-----------------------------------------------------------------------------
(* Types *)

\* The helpers keep the runner's variables well typed.
LEMMA RunnerTypes ==
    ASSUME TypeOK
    PROVE  /\ StopRunner => /\ runner' \in Credentials /\ pollingTimer' \in Credentials
                            /\ loop' \in [Ops -> {"none", "timer", "polling", "waiting"}]
           /\ \A o \in Ops : Continue(o) =>
                 /\ pollingTimer' \in Credentials
                 /\ loop' \in [Ops -> {"none", "timer", "polling", "waiting"}]
BY DEF TypeOK, StopRunner, Continue

\* A revocation that starts keeps the types.
LEMMA RevocationTypes ==
    ASSUME TypeOK, RevokeStarts
    PROVE  /\ epoch' \in Ops /\ published' \in [Ops -> Nat]
           /\ rev' \in [Ops -> {"none", "stopping", "done"}]
BY DEF TypeOK, RevokeStarts

\* Every step keeps the types.
LEMMA TypeStep == TypeOK /\ [Next]_vars => TypeOK'
<1> SUFFICES ASSUME TypeOK, [Next]_vars PROVE TypeOK'
    OBVIOUS
<1> USE DEF cloudAndDisk, requests, revocation
<1>1. ASSUME NEW o \in Ops, OpStep(o) PROVE TypeOK'
  <2>1. CASE SyncWithExisting(o)
    BY <2>1 DEF SyncWithExisting, Begins, TypeOK
  <2>2. ASSUME NEW forced \in BOOLEAN, SyncReplacing(o, forced) PROVE TypeOK'
    BY <2>2, RunnerTypes DEF SyncReplacing, Begins, StopRuntime, TypeOK
  <2>3. ASSUME NEW forced \in BOOLEAN, SyncWithoutSession(o, forced)
        PROVE  TypeOK'
    BY <2>3 DEF SyncWithoutSession, Begins, TypeOK
  <2>4. CASE HeartbeatAccepted(o)
    BY <2>4, RunnerTypes DEF HeartbeatAccepted, Activate, Boot, StopRuntime, TypeOK
  <2>5. CASE SessionRefused(o)
    BY <2>5, RunnerTypes DEF SessionRefused, StopRuntime, TypeOK
  <2>6. CASE OpFails(o)
    BY <2>6 DEF OpFails, TypeOK
  <2>7. CASE SessionDeleted(o)
    <3>1. held[o] \in Credentials
      BY DEF TypeOK
    <3> QED BY <2>7, <3>1 DEF SessionDeleted, TypeOK
  <2>8. CASE Registered(o)
    BY <2>8, RunnerTypes
       DEF Registered, Registers, Activate, Boot, StopRuntime, TypeOK
  <2>9. CASE RegisterLost(o)
    BY <2>9 DEF RegisterLost, Registers, TypeOK
  <2>10. CASE Booted(o)
    BY <2>10 DEF Booted, TypeOK
  <2>11. CASE BootFails(o)
    BY <2>11 DEF BootFails, TypeOK
  <2>12. CASE ResumeRetries(o)
    BY <2>12, RunnerTypes DEF ResumeRetries, Boot, StopRuntime, TypeOK
  <2>13. CASE LogoutBegins(o)
    BY <2>13, RunnerTypes DEF LogoutBegins, Begins, StopRuntime, TypeOK
  <2>14. CASE DeviceDisabled(o)
    BY <2>14, RunnerTypes DEF DeviceDisabled, StopRuntime, TypeOK
  <2> QED BY <1>1, <2>1, <2>2, <2>3, <2>4, <2>5, <2>6, <2>7, <2>8, <2>9,
             <2>10, <2>11, <2>12, <2>13, <2>14 DEF OpStep
<1>2. ASSUME NEW o \in Ops, LoopStep(o) PROVE TypeOK'
  <2>1. CASE PollFires(o)
    BY <2>1 DEF PollFires, TypeOK
  <2>2. CASE PollEnds(o)
    BY <2>2, RunnerTypes DEF PollEnds, TypeOK
  <2>3. CASE PollRefused(o)
    <3>1. loop' \in [Ops -> {"none", "timer", "polling", "waiting"}]
      BY <2>3 DEF PollRefused, TypeOK
    <3>2. waitsOn' \in [Ops -> Credentials]
      BY <2>3 DEF PollRefused, TypeOK
    <3> QED BY <2>3, <3>1, <3>2, RevocationTypes DEF PollRefused, TypeOK
  <2>4. CASE RevocationAwaited(o)
    BY <2>4, RunnerTypes DEF RevocationAwaited, TypeOK
  <2> QED BY <1>2, <2>1, <2>2, <2>3, <2>4 DEF LoopStep
<1>3. ASSUME NEW e \in Ops, SessionRevoked(e) PROVE TypeOK'
    BY <1>3 DEF SessionRevoked, TypeOK
<1>4. CASE RequestStep
  <2>1. CASE HeartbeatSent
    <3>1. runner \in Ops
      BY <2>1 DEF HeartbeatSent, TypeOK
    <3> QED BY <2>1, <3>1 DEF HeartbeatSent, TypeOK
  <2>2. CASE SyncPassBegins
    BY <2>2 DEF SyncPassBegins, TypeOK
  <2>3. CASE SyncPassRefused
    BY <2>3, RunnerTypes, RevocationTypes DEF SyncPassRefused, TypeOK
  <2>4. ASSUME NEW d \in Ops, HeartbeatRefused(d) PROVE TypeOK'
    BY <2>4, RunnerTypes, RevocationTypes
       DEF HeartbeatRefused, HandleCloudFailure, TypeOK
  <2> QED BY <1>4, <2>1, <2>2, <2>3, <2>4 DEF RequestStep
<1>5. ASSUME NEW d \in active, TakenOver(d) PROVE TypeOK'
    BY <1>5 DEF TakenOver, TypeOK
<1>6. CASE UNCHANGED vars
    BY <1>6 DEF vars, TypeOK
<1> QED BY <1>1, <1>2, <1>3, <1>4, <1>5, <1>6 DEF Next

\* The type invariant: the credentials at work are always those of a device
\* that some operation registered.
THEOREM TypeCorrect == Spec => []TypeOK
<1>1. Init => TypeOK
  <2> SUFFICES ASSUME Init PROVE TypeOK
    OBVIOUS
  <2>1. disk \in Credentials /\ active \subseteq Ops
    BY DEF Init
  <2>2. held \in [Ops -> Credentials] /\ waitsOn \in [Ops -> Credentials]
    BY <2>1 DEF Init
  <2>3. pc \in [Ops -> {"idle", "heartbeat", "stopping", "replacing", "leaving",
                        "register", "replace", "disable", "boot", "retry",
                        "done"}]
    BY DEF Init
  <2>4. published \in [Ops -> Nat]
    BY DEF Init
  <2> QED BY <2>1, <2>2, <2>3, <2>4 DEF Init, TypeOK
<1> QED BY <1>1, TypeStep, PTL DEF Spec
-----------------------------------------------------------------------------
(* Revocation *)

\* A revocation that starts is that of the current session, and the first.
LEMMA RevocationStarts ==
    ASSUME TypeOK, RevokeStarts
    PROVE  /\ epoch' = epoch /\ published' = published
           /\ \A e \in Ops : rev'[e] = IF e = epoch /\ Revokes THEN "stopping"
                                       ELSE rev[e]
BY DEF TypeOK, RevokeStarts, Revokes

\* Operations and polls begin and end no revocation.
LEMMA RevocationFrame ==
    ASSUME TypeOK, NEW o \in Ops,
           \/ OpStep(o) \/ PollFires(o) \/ PollEnds(o) \/ RevocationAwaited(o)
    PROVE  rev' = rev /\ published' = published
<1>1. CASE OpStep(o)
    BY <1>1 DEF OpStep, SyncWithExisting, SyncReplacing, SyncWithoutSession,
        HeartbeatAccepted, SessionRefused, OpFails, SessionDeleted, Registered,
        RegisterLost, Booted, BootFails, ResumeRetries, LogoutBegins,
        DeviceDisabled, Activate, revocation
<1>2. CASE PollFires(o) \/ PollEnds(o) \/ RevocationAwaited(o)
    BY <1>2 DEF PollFires, PollEnds, RevocationAwaited, revocation
<1> QED BY <1>1, <1>2

\* Only the end of a revocation tells Flutter.
LEMMA ToldStep == TypeOK /\ ToldInv /\ [Next]_vars => ToldInv'
<1> SUFFICES ASSUME TypeOK, ToldInv, [Next]_vars PROVE ToldInv'
    OBVIOUS
<1>1. ASSUME RevokeStarts PROVE ToldInv'
    BY <1>1, RevocationStarts DEF ToldInv, Revokes, TypeOK
<1>2. ASSUME rev' = rev, published' = published PROVE ToldInv'
    BY <1>2 DEF ToldInv
<1>3. ASSUME NEW o \in Ops, OpStep(o) \/ LoopStep(o) PROVE ToldInv'
    BY <1>1, <1>2, <1>3, RevocationFrame DEF LoopStep, PollRefused
<1>4. ASSUME NEW e \in Ops, SessionRevoked(e) PROVE ToldInv'
    BY <1>4 DEF SessionRevoked, ToldInv, TypeOK
<1>5. CASE RequestStep
    BY <1>1, <1>2, <1>5
       DEF RequestStep, HeartbeatSent, SyncPassBegins, SyncPassRefused,
           HeartbeatRefused, HandleCloudFailure, revocation
<1>6. CASE (\E d \in active : TakenOver(d)) \/ UNCHANGED vars
    BY <1>2, <1>6 DEF TakenOver, vars, revocation
<1> QED BY <1>3, <1>4, <1>5, <1>6 DEF Next

\* However many loops, heartbeats and passes find out that the device was revoked,
\* and however they interleave with requests, Flutter is told once per session.
THEOREM TellsOnce == Spec => []ToldOnce
<1>1. Init => ToldInv
    BY DEF Init, ToldInv
<1>2. ToldInv => ToldOnce
  <2> SUFFICES ASSUME ToldInv, NEW e \in Ops PROVE published[e] <= 1
    BY DEF ToldOnce
  <2>1. published[e] = 0 \/ published[e] = 1
    BY DEF ToldInv
  <2> QED BY <2>1
<1> QED BY <1>1, <1>2, TypeCorrect, ToldStep, PTL DEF Spec

-----------------------------------------------------------------------------
(* Activation *)

\* Once an operation is past its boot it stays there, and nothing but activation
\* makes a session current.
LEMMA EpochStep == TypeOK /\ EpochInv /\ [Next]_vars => EpochInv'
<1> SUFFICES ASSUME TypeOK, EpochInv, [Next]_vars PROVE EpochInv'
    OBVIOUS
<1> USE DEF Activated, cloudAndDisk, requests, revocation
<1>0. /\ pc \in [Ops -> {"idle", "heartbeat", "stopping", "replacing", "leaving",
                         "register", "replace", "disable", "boot", "retry",
                         "done"}]
      /\ runner \in Credentials /\ epoch \in Ops
    BY DEF TypeOK
<1>1. ASSUME NEW o \in Ops, OpStep(o) PROVE EpochInv'
  <2>0. rev' = rev
    BY <1>1, RevocationFrame
  <2>1. ASSUME pc[o] # "done", runner' \in {runner, None}, epoch' = epoch,
               \/ pc[o] \notin Activated
               \/ pc'[o] \in Activated,
               \A p \in Ops : p # o => pc'[p] = pc[p]
        PROVE  EpochInv'
    BY <1>0, <2>0, <2>1 DEF EpochInv
  <2>2. CASE SyncWithExisting(o) \/ LogoutBegins(o)
    BY <1>0, <2>1, <2>2
       DEF SyncWithExisting, LogoutBegins, Begins, StopRuntime, StopRunner
  <2>3. ASSUME NEW forced \in BOOLEAN,
               SyncReplacing(o, forced) \/ SyncWithoutSession(o, forced)
        PROVE  EpochInv'
    BY <1>0, <2>1, <2>3
       DEF SyncReplacing, SyncWithoutSession, Begins, StopRuntime, StopRunner
  <2>4. CASE SessionRefused(o) \/ OpFails(o) \/ SessionDeleted(o)
             \/ RegisterLost(o) \/ DeviceDisabled(o)
    BY <1>0, <2>1, <2>4
       DEF SessionRefused, OpFails, SessionDeleted, RegisterLost, Registers,
           DeviceDisabled, StopRuntime, StopRunner
  <2>5. CASE BootFails(o) \/ ResumeRetries(o)
    BY <1>0, <2>1, <2>5
       DEF BootFails, ResumeRetries, Boot, StopRuntime, StopRunner
  <2>6. CASE Booted(o)
    BY <1>0, <2>0, <2>6 DEF Booted, EpochInv
  <2>7. CASE HeartbeatAccepted(o) \/ Registered(o)
    <3>1. /\ epoch' = o /\ runner' = None
          /\ pc' = [pc EXCEPT ![o] = "boot"]
      BY <2>7 DEF HeartbeatAccepted, Registered, Activate, Boot, StopRuntime,
                  StopRunner
    <3> QED BY <1>0, <2>0, <3>1 DEF EpochInv
  <2> QED BY <1>1, <2>2, <2>3, <2>4, <2>5, <2>6, <2>7 DEF OpStep
<1>2. ASSUME pc' = pc, runner' \in {runner, None}, RevokeStarts PROVE EpochInv'
    BY <1>0, <1>2, RevocationStarts DEF EpochInv
<1>3. ASSUME pc' = pc, runner' \in {runner, None}, epoch' = epoch, rev' = rev
      PROVE  EpochInv'
    BY <1>0, <1>3 DEF EpochInv
<1>4. ASSUME NEW o \in Ops, LoopStep(o) PROVE EpochInv'
    BY <1>2, <1>3, <1>4
       DEF LoopStep, PollFires, PollEnds, PollRefused, RevocationAwaited
<1>5. ASSUME NEW e \in Ops, SessionRevoked(e) PROVE EpochInv'
    BY <1>0, <1>5 DEF SessionRevoked, EpochInv, TypeOK
<1>6. CASE RequestStep
    BY <1>2, <1>3, <1>6
       DEF RequestStep, HeartbeatSent, SyncPassBegins, SyncPassRefused,
           HeartbeatRefused, HandleCloudFailure, StopRunner
<1>7. CASE (\E d \in active : TakenOver(d)) \/ UNCHANGED vars
    BY <1>3, <1>7 DEF TakenOver, vars
<1> QED BY <1>1, <1>4, <1>5, <1>6, <1>7 DEF Next
-----------------------------------------------------------------------------
(* The runtime and the disk *)

\* An operation that overlaps with nothing is the only one at work.
LEMMA OpAlone ==
    ASSUME TypeOK, AloneInv, NEW o \in Ops, OpStep(o), clean'
    PROVE  /\ \A p \in Ops : p # o => ~ Busy(p) /\ pc'[p] = pc[p]
           /\ ~ RevokePending
           /\ pc[o] = "idle" \/ Busy(o)
<1>1. \A p \in Ops : p # o => pc'[p] = pc[p]
    BY DEF TypeOK, OpStep, SyncWithExisting, SyncReplacing, SyncWithoutSession,
        HeartbeatAccepted, SessionRefused, OpFails, SessionDeleted, Registered,
        RegisterLost, Booted, BootFails, ResumeRetries, LogoutBegins,
        DeviceDisabled, Activate, Boot
<1>2. CASE Begins(o)
    BY <1>1, <1>2 DEF Begins, AnyBusy
<1>3. CASE ~ Begins(o)
  <2>1. Busy(o)
    BY <1>3 DEF OpStep, SyncWithExisting, SyncReplacing, SyncWithoutSession,
        HeartbeatAccepted, SessionRefused, OpFails, SessionDeleted, Registered,
        Registers, RegisterLost, Booted, BootFails, ResumeRetries, LogoutBegins,
        DeviceDisabled, Busy
  <2> QED BY <1>1, <2>1 DEF AloneInv, AnyBusy
<1> QED BY <1>2, <1>3

\* Then what it does decides alone.
LEMMA OpRuntime ==
    ASSUME TypeOK, EpochInv, AloneInv, RuntimeInv, NEW o \in Ops, OpStep(o), clean'
    PROVE  RuntimeInv'
<1> USE DEF cloudAndDisk, requests, revocation
<1>0. /\ pc \in [Ops -> {"idle", "heartbeat", "stopping", "replacing", "leaving",
                         "register", "replace", "disable", "boot", "retry",
                         "done"}]
      /\ runner \in Credentials /\ held \in [Ops -> Credentials] /\ epoch \in Ops
      /\ rev \in [Ops -> {"none", "stopping", "done"}]
    BY DEF TypeOK
<1>1. /\ \A p \in Ops : p # o => ~ Busy(p) /\ pc'[p] = pc[p]
      /\ ~ RevokePending
      /\ pc[o] = "idle" \/ Busy(o)
    BY OpAlone
<1>2. \A p \in Ops : p # o => pc'[p] \notin Stopped
    BY <1>1 DEF Busy, Stopped
<1>3. rev' = rev /\ ~ RevokePending'
    BY <1>1, RevocationFrame DEF RevokePending
<1>4. runner # o
    BY <1>1 DEF EpochInv, Busy
<1>5. ASSUME runner' = None, syncTimer' = FALSE,
             pc'[o] \in {"boot", "retry"} =>
                 disk' = held'[o] /\ rev[epoch'] = "none"
      PROVE  RuntimeInv'
    BY <1>2, <1>3, <1>5 DEF RuntimeInv, Matches, Stopped
<1>6. ASSUME runner' = runner, syncTimer' = syncTimer, disk' = disk, epoch' = epoch,
             \A p \in Ops : p # o => held'[p] = held[p],
             pc'[o] \notin Stopped
      PROVE  RuntimeInv'
    <2>1. Matches'
      BY <1>0, <1>4, <1>6 DEF RuntimeInv, Matches
    <2> QED BY <1>2, <1>3, <1>6, <2>1 DEF RuntimeInv, Stopped
<1>7. StopRuntime => runner' = None /\ syncTimer' = FALSE
    BY DEF StopRuntime, StopRunner
<1>8. CASE SyncWithExisting(o)
    BY <1>0, <1>6, <1>8 DEF SyncWithExisting, Stopped
<1>9. ASSUME NEW forced \in BOOLEAN, SyncReplacing(o, forced) PROVE RuntimeInv'
    BY <1>0, <1>5, <1>7, <1>9 DEF SyncReplacing
<1>10. ASSUME NEW forced \in BOOLEAN, SyncWithoutSession(o, forced)
       PROVE  RuntimeInv'
    BY <1>0, <1>6, <1>10 DEF SyncWithoutSession, Stopped
<1>11. CASE HeartbeatAccepted(o) \/ Registered(o)
  <2>1. rev[o] = "none"
    BY <1>11 DEF HeartbeatAccepted, Registered, Registers, EpochInv, Activated
  <2>2. PICK creds \in Credentials : Activate(o, creds)
    BY <1>0, <1>11 DEF HeartbeatAccepted, Registered
  <2>3. StopRuntime /\ disk' = held'[o] /\ epoch' = o
    BY <1>0, <2>2 DEF Activate, Boot
  <2> QED BY <1>5, <1>7, <2>1, <2>3
<1>12. CASE SessionRefused(o) \/ DeviceDisabled(o)
    BY <1>0, <1>5, <1>7, <1>12 DEF SessionRefused, DeviceDisabled
<1>13. CASE OpFails(o) \/ RegisterLost(o)
    BY <1>0, <1>6, <1>13 DEF OpFails, RegisterLost, Registers, Stopped
<1>14. CASE SessionDeleted(o)
  <2>1. runner = None /\ syncTimer = FALSE
    BY <1>0, <1>14 DEF SessionDeleted, RuntimeInv, Matches, Stopped, TypeOK
  <2> QED BY <1>0, <1>5, <1>14, <2>1 DEF SessionDeleted
<1>15. CASE Booted(o)
  <2>1. runner = None /\ disk = held[o] /\ rev[epoch] = "none"
    BY <1>15 DEF Booted, RuntimeInv, Stopped
  <2>2. runner' = o /\ syncTimer' = TRUE /\ pc'[o] = "done"
    BY <1>0, <1>15, <2>1 DEF Booted
  <2> QED BY <1>2, <1>3, <1>15, <2>1, <2>2
          DEF Booted, RuntimeInv, Matches, Stopped
<1>16. CASE BootFails(o) \/ ResumeRetries(o)
  <2>1. /\ runner = None /\ syncTimer = FALSE
        /\ disk = held[o] /\ rev[epoch] = "none"
    BY <1>16 DEF BootFails, ResumeRetries, RuntimeInv, Matches, Stopped, TypeOK
  <2> QED BY <1>5, <1>7, <1>16, <2>1 DEF BootFails, ResumeRetries, Boot
<1>17. CASE LogoutBegins(o)
  <2>1. CASE disk # None
    BY <1>0, <1>6, <1>17, <2>1 DEF LogoutBegins, Stopped
  <2>2. CASE disk = None
    BY <1>0, <1>5, <1>7, <1>17, <2>2 DEF LogoutBegins
  <2> QED BY <2>1, <2>2
<1> QED BY <1>8, <1>9, <1>10, <1>11, <1>12, <1>13, <1>14, <1>15, <1>16, <1>17
        DEF OpStep

\* A step that leaves operations, runtime, files and revocations alone.
LEMMA RuntimeFrame ==
    ASSUME AloneInv /\ RuntimeInv,
           pc' = pc, held' = held, disk' = disk, runner' = runner,
           syncTimer' = syncTimer, epoch' = epoch, rev' = rev
    PROVE  AloneInv' /\ RuntimeInv'
BY DEF AloneInv, RuntimeInv, Matches, AnyBusy, Busy, RevokePending

\* A revocation noticed while no request is served stops what runs.
LEMMA RuntimeRevoked ==
    ASSUME ~ AnyBusy, pc' = pc, runner' = None, syncTimer' = FALSE
    PROVE  AloneInv' /\ RuntimeInv'
<1>1. \A o \in Ops : pc'[o] \in {"idle", "done"}
    BY DEF AnyBusy, Busy
<1> QED BY <1>1 DEF AloneInv, RuntimeInv, Matches, AnyBusy, Busy, Stopped

\* As long as nothing overlaps, every step keeps runtime and disk in agreement.
LEMMA CleanStep ==
    TypeOK /\ EpochInv /\ CleanInv /\ [Next]_vars => CleanInv'
<1> SUFFICES ASSUME TypeOK, EpochInv, CleanInv, [Next]_vars, clean'
             PROVE  AloneInv' /\ RuntimeInv'
    BY DEF CleanInv
<1> USE DEF cloudAndDisk, requests, revocation
<1>1. ASSUME NEW o \in Ops, OpStep(o) PROVE AloneInv' /\ RuntimeInv'
  <2>1. clean
    BY <1>1 DEF OpStep, SyncWithExisting, SyncReplacing, SyncWithoutSession,
        Begins, HeartbeatAccepted, SessionRefused, OpFails, SessionDeleted,
        Registered, RegisterLost, Booted, BootFails, ResumeRetries, LogoutBegins,
        DeviceDisabled, TypeOK
  <2>2. AloneInv /\ RuntimeInv
    BY <2>1 DEF CleanInv
  <2>3. /\ \A p \in Ops : p # o => ~ Busy(p) /\ pc'[p] = pc[p]
        /\ ~ RevokePending
    BY <1>1, <2>2, OpAlone
  <2>4. AloneInv'
    BY <1>1, <2>3, RevocationFrame DEF AloneInv, AnyBusy, Busy, RevokePending
  <2> QED BY <1>1, <2>2, <2>4, OpRuntime
<1>2. \A e \in Ops : rev[e] \in {"none", "stopping", "done"}
    BY DEF TypeOK
<1>3. AloneInv /\ RuntimeInv /\ ~ Revokes => runner = None /\ syncTimer = FALSE
    BY <1>2 DEF RuntimeInv, Matches, Revokes, TypeOK
<1>4. ASSUME NEW o \in Ops, LoopStep(o) PROVE AloneInv' /\ RuntimeInv'
  <2>1. CASE PollFires(o) \/ PollEnds(o) \/ RevocationAwaited(o)
    BY <2>1, RuntimeFrame DEF PollFires, PollEnds, RevocationAwaited, CleanInv
  <2>2. CASE PollRefused(o)
    <3>1. clean /\ ~ AnyBusy
      BY <2>2 DEF PollRefused, TypeOK
    <3> QED BY <1>3, <2>2, <3>1, RuntimeRevoked DEF PollRefused, CleanInv
  <2> QED BY <1>4, <2>1, <2>2 DEF LoopStep
<1>5. ASSUME NEW e \in Ops, SessionRevoked(e) PROVE AloneInv' /\ RuntimeInv'
  <2>1. AloneInv /\ RuntimeInv /\ RevokePending
    BY <1>5 DEF SessionRevoked, CleanInv, RevokePending
  <2>2. ~ AnyBusy /\ runner = None /\ syncTimer = FALSE
    BY <2>1 DEF AloneInv, RuntimeInv, Matches, TypeOK
  <2> QED BY <1>5, <2>2, RuntimeRevoked DEF SessionRevoked
<1>6. CASE RequestStep
  <2>1. CASE HeartbeatSent \/ SyncPassBegins
    BY <2>1, RuntimeFrame DEF HeartbeatSent, SyncPassBegins, CleanInv
  <2>2. CASE SyncPassRefused
    <3>1. clean /\ ~ AnyBusy
      BY <2>2 DEF SyncPassRefused, TypeOK
    <3> QED BY <1>3, <2>2, <3>1, RuntimeRevoked
            DEF SyncPassRefused, StopRunner, CleanInv
  <2>3. ASSUME NEW d \in Ops, HeartbeatRefused(d) PROVE AloneInv' /\ RuntimeInv'
    <3>1. clean /\ ~ AnyBusy
      BY <2>3 DEF HeartbeatRefused, HandleCloudFailure, TypeOK
    <3> QED BY <1>3, <2>3, <3>1, RuntimeRevoked
            DEF HeartbeatRefused, HandleCloudFailure, StopRunner, CleanInv
  <2> QED BY <1>6, <2>1, <2>2, <2>3 DEF RequestStep
<1>7. CASE (\E d \in active : TakenOver(d)) \/ UNCHANGED vars
    BY <1>7, RuntimeFrame DEF TakenOver, vars, CleanInv
<1> QED BY <1>1, <1>4, <1>5, <1>6, <1>7 DEF Next

\* As long as requests, the resume and revocations do not overlap, whatever their
\* order and outcome, the runner at rest works with the credentials on disk, and
\* runs exactly while the background sync does.
THEOREM RuntimeAgrees == Spec => []RuntimeMatchesDisk
<1>1. Init => EpochInv /\ CleanInv
  <2> SUFFICES ASSUME Init PROVE EpochInv /\ CleanInv
    OBVIOUS
  <2>1. \A o \in Ops : /\ rev[o] = "none"
                       /\ pc[o] = IF o # Resume THEN "idle"
                                  ELSE IF disk = None THEN "done" ELSE "boot"
    BY DEF Init
  <2>2. EpochInv
    BY <2>1 DEF Init, EpochInv, Activated
  <2>3. AloneInv
    BY <2>1 DEF AloneInv, Busy, AnyBusy, RevokePending
  <2>4. RuntimeInv
    BY <2>1 DEF Init, RuntimeInv, Matches, RevokePending
  <2> QED BY <2>2, <2>3, <2>4 DEF CleanInv
<1>2. CleanInv => RuntimeMatchesDisk
    BY DEF CleanInv, RuntimeInv, Matches, RuntimeMatchesDisk
<1> QED BY <1>1, <1>2, TypeCorrect, EpochStep, CleanStep, PTL DEF Spec
===============================================================================
