---------------------------- MODULE AgentSession ----------------------------
(***************************************************************************)
(* The CRM session of the desktop agent: SessionCoordinator and the        *)
(* runtime it boots and stops (session-coordinator.ts,                     *)
(* session-runtime.ts), with the poll loop and heartbeat of                *)
(* agent-runner.ts and the passes of sync-worker.ts, which notice that the *)
(* cloud revoked the device.                                               *)
(*                                                                         *)
(* An operation is one /local/auth/sync (forced or not) or                 *)
(* /local/auth/logout request, or the resume at process start.             *)
(* Operations, loops and requests interleave at their awaits.  A device is *)
(* named by the operation that registered it; devices and their secrets    *)
(* are the credentials.  The token is saved and deleted with them and is   *)
(* not told apart.                                                         *)
(***************************************************************************)
EXTENDS Naturals

CONSTANTS
    Ops,       \* operations
    Resume,    \* the resume, and the device an earlier process registered
    UserOf,    \* the CRM user of an operation
    None

ASSUME SessionAssumption ==
    /\ Resume \in Ops /\ None \notin Ops

VARIABLES
    pc,            \* where each operation is
    held,          \* the credentials it works with
    disk,          \* device-secret.json
    runner,        \* the operation whose boot started the runner, if it runs
    loop,          \* the poll loop each boot started
    pollingTimer,  \* whose loop the stored timer handle belongs to
    waitsOn,       \* the revocation a loop awaits
    beat,          \* credentials of a heartbeat in flight
    syncTimer,     \* the background sync is started
    pass,          \* credentials of a sync pass in flight
    epoch,         \* the last operation that activated a session
    rev,           \* the revocation of each session; revokePromise is null
                   \* when that of the current one is "none"
    active,        \* cloud: the devices it has not revoked
    \* history
    published,     \* session.revoked events of each session
    loggedOut,     \* devices whose logout completed
    clean          \* no two operations or revocations ever overlapped

vars == <<pc, held, disk, runner, loop, pollingTimer, waitsOn, beat,
          syncTimer, pass, epoch, rev, active, published, loggedOut, clean>>

cloudAndDisk == <<disk, active>>
requests     == <<beat, pass, waitsOn>>
revocation   == <<epoch, rev, published>>

Credentials == Ops \cup {None}

Busy(o)       == pc[o] \notin {"idle", "done"}
AnyBusy       == \E o \in Ops : Busy(o)
RevokePending == \E o \in Ops : rev[o] = "stopping"

-----------------------------------------------------------------------------
(* Helpers: the runner *)

\* stopAgentRunner clears the timer it holds the handle of, and no other.
StopRunner ==
    /\ runner' = None
    /\ loop' = [o \in Ops |-> IF o = pollingTimer /\ loop[o] = "timer"
                              THEN "none" ELSE loop[o]]
    /\ pollingTimer' = None

\* Mutant: only the background sync is stopped.
StopRuntimeSyncOnly ==
    /\ UNCHANGED <<runner, loop, pollingTimer>>
    /\ syncTimer' = FALSE

\* The synchronous part of stopRuntime; stopZaloListener is then awaited.
StopRuntime == StopRunner /\ syncTimer' = FALSE

\* bootRuntime up to its await of initializeZalo.
Boot(o) ==
    /\ pc' = [pc EXCEPT ![o] = "boot"]
    /\ StopRuntime

\* activate saves the credentials, forgets the last revocation and boots.
Activate(o, creds) ==
    /\ disk' = creds
    /\ held' = [held EXCEPT ![o] = creds]
    /\ epoch' = o
    /\ Boot(o)

\* A loop goes on, whoever started the runner that runs now.
Continue(o) ==
    IF runner # None
    THEN /\ loop' = [loop EXCEPT ![o] = "timer"]
         /\ pollingTimer' = o
    ELSE /\ loop' = [loop EXCEPT ![o] = "none"]
         /\ UNCHANGED pollingTimer

-----------------------------------------------------------------------------
(* Operations *)

\* A request starts to work.  "clean" notes whether it is alone.
Begins(o) ==
    /\ pc[o] = "idle"
    /\ clean' = (clean /\ ~ AnyBusy /\ ~ RevokePending)

\* verifyIdentity answered: the credentials of the same user are tried.
SyncWithExisting(o) ==
    /\ Begins(o)
    /\ disk # None /\ UserOf[disk] = UserOf[o]
    /\ pc' = [pc EXCEPT ![o] = "heartbeat"]
    /\ held' = [held EXCEPT ![o] = disk]
    /\ UNCHANGED <<cloudAndDisk, runner, loop, pollingTimer, requests,
                   syncTimer, revocation, loggedOut>>

\* Those of another user, or any of them by a forced request, are given up.
SyncReplacing(o, forced) ==
    /\ Begins(o)
    /\ disk # None /\ (forced \/ UserOf[disk] # UserOf[o])
    /\ pc' = [pc EXCEPT ![o] = IF forced THEN "replacing" ELSE "stopping"]
    /\ StopRuntime
    /\ UNCHANGED <<held, cloudAndDisk, requests, revocation, loggedOut>>

SyncWithoutSession(o, forced) ==
    /\ Begins(o)
    /\ disk = None
    /\ pc' = [pc EXCEPT ![o] = IF forced THEN "replace" ELSE "register"]
    /\ UNCHANGED <<held, cloudAndDisk, runner, loop, pollingTimer, requests,
                   syncTimer, revocation, loggedOut>>

\* The heartbeat of an existing session was accepted.
HeartbeatAccepted(o) ==
    /\ pc[o] = "heartbeat" /\ held[o] \in active
    /\ Activate(o, held[o])
    /\ UNCHANGED <<active, requests, rev, published, loggedOut, clean>>

SessionRefused(o) ==
    /\ pc[o] = "heartbeat" /\ held[o] \notin active
    /\ pc' = [pc EXCEPT ![o] = "stopping"]
    /\ StopRuntime
    /\ UNCHANGED <<held, cloudAndDisk, requests, revocation, loggedOut, clean>>

\* Network trouble, at any await of a request: it fails.
OpFails(o) ==
    /\ pc[o] \in {"heartbeat", "register", "replace"}
    /\ pc' = [pc EXCEPT ![o] = "done"]
    /\ UNCHANGED <<held, cloudAndDisk, runner, loop, pollingTimer, requests,
                   syncTimer, revocation, loggedOut, clean>>

\* stopZaloListener ended: the session files go.
SessionDeleted(o) ==
    /\ \/ /\ pc[o] = "stopping"
          /\ pc' = [pc EXCEPT ![o] = "register"]
          /\ UNCHANGED loggedOut
       \/ /\ pc[o] = "replacing"
          /\ pc' = [pc EXCEPT ![o] = "replace"]
          /\ UNCHANGED loggedOut
       \/ /\ pc[o] = "leaving"
          /\ pc' = [pc EXCEPT ![o] = "done"]
          /\ loggedOut' = loggedOut \cup ({held[o]} \ {None})
    /\ disk' = None
    /\ UNCHANGED <<held, active, runner, loop, pollingTimer, requests,
                   syncTimer, revocation, clean>>

\* External: one device per user is active; a plain registration is refused
\* while there is one, a forced one revokes it.
Registers(o) ==
    /\ pc[o] \in {"register", "replace"}
    /\ pc[o] = "register" => \A d \in active : UserOf[d] # UserOf[o]
    /\ active' = {d \in active : UserOf[d] # UserOf[o]} \cup {o}

Registered(o) ==
    /\ Registers(o)
    /\ Activate(o, o)
    /\ UNCHANGED <<requests, rev, published, loggedOut, clean>>

\* The device was registered, but the answer was lost.
RegisterLost(o) ==
    /\ Registers(o)
    /\ pc' = [pc EXCEPT ![o] = "done"]
    /\ UNCHANGED <<held, disk, runner, loop, pollingTimer, requests,
                   syncTimer, revocation, loggedOut, clean>>

\* initializeZalo ended: startAgentRunner starts the runner if none runs.
Booted(o) ==
    /\ pc[o] = "boot"
    /\ pc' = [pc EXCEPT ![o] = "done"]
    /\ syncTimer' = TRUE
    /\ IF runner = None
       THEN /\ runner' = o
            /\ loop' = [loop EXCEPT ![o] = "timer"]
            /\ pollingTimer' = o
       ELSE UNCHANGED <<runner, loop, pollingTimer>>
    /\ UNCHANGED <<held, cloudAndDisk, requests, revocation, loggedOut, clean>>

\* initializeZalo threw: the request fails, the resume may try again later.
BootFails(o) ==
    /\ pc[o] = "boot"
    /\ \/ pc' = [pc EXCEPT ![o] = "done"]
       \/ o = Resume /\ pc' = [pc EXCEPT ![o] = "retry"]
    /\ UNCHANGED <<held, cloudAndDisk, runner, loop, pollingTimer, requests,
                   syncTimer, revocation, loggedOut, clean>>

\* The resume's next attempt, with the credentials it read at process start.
ResumeRetries(o) ==
    /\ pc[o] = "retry"
    /\ Boot(o)
    /\ UNCHANGED <<held, cloudAndDisk, requests, revocation, loggedOut, clean>>

LogoutBegins(o) ==
    /\ Begins(o)
    /\ held' = [held EXCEPT ![o] = disk]
    /\ IF disk # None
       THEN /\ pc' = [pc EXCEPT ![o] = "disable"]
            /\ UNCHANGED <<runner, loop, pollingTimer, syncTimer>>
       ELSE pc' = [pc EXCEPT ![o] = "leaving"] /\ StopRuntime
    /\ UNCHANGED <<cloudAndDisk, requests, revocation, loggedOut>>

\* disable answered or failed: only a warning is logged.
DeviceDisabled(o) ==
    /\ pc[o] = "disable"
    /\ active' \in {active, active \ {held[o]}}
    /\ pc' = [pc EXCEPT ![o] = "leaving"]
    /\ StopRuntime
    /\ UNCHANGED <<held, disk, requests, revocation, loggedOut, clean>>

-----------------------------------------------------------------------------
(* Revocation *)

\* Mutant: revoke does not remember that it was called.
RevokesAlways == TRUE

\* revoke(): the first call since the last activation starts the work.
Revokes == rev[epoch] = "none"

RevokeStarts ==
    /\ rev' = [rev EXCEPT ![epoch] = IF Revokes THEN "stopping" ELSE @]
    /\ UNCHANGED <<epoch, published>>

\* Mutant: only the revocation stops the runner.
HandleCloudFailureLazily ==
    /\ IF Revokes THEN StopRuntime
       ELSE UNCHANGED <<runner, loop, pollingTimer, syncTimer>>
    /\ RevokeStarts
    /\ clean' = (clean /\ ~ AnyBusy)

\* The agent runner got 403 DEVICE_REVOKED: it stops itself, then revokes.
HandleCloudFailure ==
    /\ StopRunner
    /\ syncTimer' = (syncTimer /\ ~ Revokes)
    /\ RevokeStarts
    /\ clean' = (clean /\ ~ AnyBusy)

\* stopZaloListener ended: the files go and session.revoked is published.
SessionRevoked(e) ==
    /\ rev[e] = "stopping"
    /\ rev' = [rev EXCEPT ![e] = "done"]
    /\ published' = [published EXCEPT ![e] = @ + 1]
    /\ disk' = None
    /\ UNCHANGED <<pc, held, active, runner, loop, pollingTimer, requests,
                   syncTimer, epoch, loggedOut, clean>>

-----------------------------------------------------------------------------
(* Poll loops, heartbeats and sync passes *)

\* A handle that fired is as good as none.
PollFires(o) ==
    /\ loop[o] = "timer"
    /\ loop' = [loop EXCEPT ![o] = IF runner # None THEN "polling" ELSE "none"]
    /\ pollingTimer' = IF pollingTimer = o THEN None ELSE pollingTimer
    /\ UNCHANGED <<pc, held, cloudAndDisk, runner, requests, syncTimer,
                   revocation, loggedOut, clean>>

\* No command, a command executed and reported, or network trouble.
PollEnds(o) ==
    /\ loop[o] = "polling"
    /\ Continue(o)
    /\ UNCHANGED <<pc, held, cloudAndDisk, runner, requests, syncTimer,
                   revocation, loggedOut, clean>>

\* A request of the step is refused: the loop awaits the revocation.
PollRefused(o) ==
    /\ loop[o] = "polling" /\ held[o] \notin active
    /\ runner' = None /\ pollingTimer' = None
    /\ loop' = [p \in Ops |->
                   CASE p = o -> "waiting"
                     [] p = pollingTimer /\ loop[p] = "timer" -> "none"
                     [] OTHER -> loop[p]]
    /\ waitsOn' = [waitsOn EXCEPT ![o] = epoch]
    /\ syncTimer' = (syncTimer /\ ~ Revokes)
    /\ RevokeStarts
    /\ clean' = (clean /\ ~ AnyBusy)
    /\ UNCHANGED <<pc, held, cloudAndDisk, beat, pass, loggedOut>>

RevocationAwaited(o) ==
    /\ loop[o] = "waiting" /\ rev[waitsOn[o]] = "done"
    /\ Continue(o)
    /\ waitsOn' = [waitsOn EXCEPT ![o] = None]
    /\ UNCHANGED <<pc, held, cloudAndDisk, runner, beat, pass, syncTimer,
                   revocation, loggedOut, clean>>

\* Bound: one heartbeat and one sync pass in flight are told apart; a new one
\* takes the place of an older one, which then ended without refusal.
HeartbeatSent ==
    /\ runner # None
    /\ beat' = held[runner]
    /\ UNCHANGED <<pc, held, cloudAndDisk, runner, loop, pollingTimer, waitsOn,
                   syncTimer, pass, revocation, loggedOut, clean>>

\* 403 DEVICE_REVOKED.  Any other failure of a heartbeat only logs a warning.
HeartbeatRefused(d) ==
    /\ beat = d /\ d # None /\ d \notin active
    /\ beat' = None
    /\ HandleCloudFailure
    /\ UNCHANGED <<pc, held, cloudAndDisk, waitsOn, pass, loggedOut>>

\* processSyncQueue works with the credentials on disk.
SyncPassBegins ==
    /\ syncTimer /\ disk # None
    /\ pass' = disk
    /\ UNCHANGED <<pc, held, cloudAndDisk, runner, loop, pollingTimer, waitsOn,
                   beat, syncTimer, revocation, loggedOut, clean>>

\* 403 DEVICE_REVOKED: the sync worker stops itself, then revokes.
SyncPassRefused ==
    /\ pass # None /\ pass \notin active
    /\ pass' = None
    /\ syncTimer' = FALSE
    /\ IF Revokes THEN StopRunner ELSE UNCHANGED <<runner, loop, pollingTimer>>
    /\ RevokeStarts
    /\ clean' = (clean /\ ~ AnyBusy)
    /\ UNCHANGED <<pc, held, cloudAndDisk, waitsOn, beat, loggedOut>>

\* External: another PC of the user takes the place of the active device.
TakenOver(d) ==
    /\ d \in active
    /\ active' = active \ {d}
    /\ UNCHANGED <<pc, held, disk, runner, loop, pollingTimer, requests,
                   syncTimer, revocation, loggedOut, clean>>

-----------------------------------------------------------------------------
\* The process starts with what an earlier one left on disk and in the cloud;
\* the resume reads the credentials before any request is served.
Init ==
    /\ disk \in {Resume, None}
    /\ active \in SUBSET {Resume}
    /\ held = [o \in Ops |-> IF o = Resume THEN disk ELSE None]
    /\ pc = [o \in Ops |-> IF o # Resume THEN "idle"
                           ELSE IF disk = None THEN "done" ELSE "boot"]
    /\ runner = None /\ pollingTimer = None
    /\ loop = [o \in Ops |-> "none"]
    /\ waitsOn = [o \in Ops |-> None]
    /\ beat = None /\ pass = None /\ syncTimer = FALSE
    /\ epoch = Resume
    /\ rev = [o \in Ops |-> "none"]
    /\ published = [o \in Ops |-> 0]
    /\ loggedOut = {} /\ clean = TRUE

OpStep(o) ==
    \/ SyncWithExisting(o)
    \/ \E forced \in BOOLEAN :
          SyncReplacing(o, forced) \/ SyncWithoutSession(o, forced)
    \/ HeartbeatAccepted(o) \/ SessionRefused(o) \/ OpFails(o)
    \/ SessionDeleted(o) \/ Registered(o) \/ RegisterLost(o)
    \/ Booted(o) \/ BootFails(o) \/ ResumeRetries(o)
    \/ LogoutBegins(o) \/ DeviceDisabled(o)

LoopStep(o) ==
    \/ PollFires(o) \/ PollEnds(o) \/ PollRefused(o) \/ RevocationAwaited(o)

RequestStep ==
    \/ HeartbeatSent \/ SyncPassBegins \/ SyncPassRefused
    \/ \E d \in Ops : HeartbeatRefused(d)

Next ==
    \/ \E o \in Ops : OpStep(o) \/ LoopStep(o) \/ SessionRevoked(o)
    \/ RequestStep
    \/ \E d \in active : TakenOver(d)

Spec == Init /\ [][Next]_vars

\* The heartbeat timer fires and the cloud is reached again and again.
FairSpec ==
    /\ Spec
    /\ WF_vars(HeartbeatSent)
    /\ \A o \in Ops : SF_vars(HeartbeatRefused(o))

-----------------------------------------------------------------------------
TypeOK ==
    /\ pc \in [Ops -> {"idle", "heartbeat", "stopping", "replacing", "leaving",
                       "register", "replace", "disable", "boot", "retry",
                       "done"}]
    /\ held \in [Ops -> Credentials]
    /\ disk \in Credentials /\ runner \in Credentials
    /\ loop \in [Ops -> {"none", "timer", "polling", "waiting"}]
    /\ pollingTimer \in Credentials
    /\ waitsOn \in [Ops -> Credentials]
    /\ beat \in Credentials /\ pass \in Credentials /\ syncTimer \in BOOLEAN
    /\ epoch \in Ops
    /\ rev \in [Ops -> {"none", "stopping", "done"}]
    /\ active \subseteq Ops
    /\ published \in [Ops -> Nat]
    /\ loggedOut \subseteq Ops /\ clean \in BOOLEAN

\* However many loops, heartbeats and passes find out that the device was
\* revoked, Flutter is told once per session (revoke is idempotent).
ToldOnce == \A e \in Ops : published[e] <= 1

\* As long as operations do not overlap, the runner at rest works with the
\* credentials on disk, and runs exactly while the background sync does.
AtRest == ~ AnyBusy /\ ~ RevokePending
RuntimeMatchesDisk ==
    clean /\ AtRest => /\ runner # None => disk = held[runner]
                       /\ syncTimer <=> runner # None

\* A runner whose device was revoked does not go on for ever, even if it was
\* started by a boot that outlived the revocation of its session.
RevokedRunnerStops ==
    \A o \in Ops : (runner = o /\ held[o] \notin active) ~> runner # o

\* A completed logout leaves no runner of its device behind
\* (zalo-bot-service README: logout stops the runtime and deletes the files).
\* It does not hold: a boot that waits for initializeZalo outlives the logout.
LogoutStopsRuntime ==
    runner # None => held[runner] \notin loggedOut

\* Only a session whose own device was revoked loses its files to a revocation
\* (zalo-bot-service README: only 403 DEVICE_REVOKED revokes the session).
\* It does not hold: a forced sync may activate a new session in between.
OnlyRevokedSessionsGo ==
    [][\A e \in Ops : rev[e] = "stopping" /\ rev'[e] = "done" =>
           disk \notin active]_vars
-----------------------------------------------------------------------------
(* The inductive invariants behind the theorems of AgentSessionProofs. *)

\* Each revocation that ended told Flutter.
ToldInv ==
    \A e \in Ops : published[e] = IF rev[e] = "done" THEN 1 ELSE 0

\* Only a session that was activated is current or revoked, and only a boot that
\* ended has started the runner.
Activated == {"boot", "retry", "done"}
EpochInv ==
    /\ \A o \in Ops : pc[o] \notin Activated => o # epoch /\ rev[o] = "none"
    /\ runner # None => pc[runner] = "done"

Matches == /\ runner # None => disk = held[runner]
           /\ syncTimer <=> runner # None

\* Phases in which the operation has stopped the runtime.
Stopped == {"stopping", "replacing", "leaving", "boot", "retry"}

\* Operations and revocations follow each other.
AloneInv ==
    /\ \A o, p \in Ops : Busy(o) /\ Busy(p) => o = p
    /\ AnyBusy => ~ RevokePending

\* What each of them, alone, finds and leaves.
RuntimeInv ==
    /\ Matches
    /\ RevokePending => runner = None
    /\ runner # None => rev[epoch] = "none"
    /\ \A o \in Ops : pc[o] \in Stopped => runner = None
    /\ \A o \in Ops : pc[o] \in {"boot", "retry"} =>
          disk = held[o] /\ rev[epoch] = "none"

CleanInv == clean => AloneInv /\ RuntimeInv

IInv == TypeOK /\ ToldInv /\ EpochInv /\ CleanInv
=============================================================================
