---------------------------- MODULE ChatbotConfig ----------------------------
(***************************************************************************)
(* The configuration of the local bot (ChatbotConfigSync, ChatbotCloudApi, *)
(* chatbot_config_snapshot): one row of the machine's database, fetched    *)
(* from the cloud at every start of the runtime, every minute and on the   *)
(* operator's request.  Every start makes a new sync object; the fetches   *)
(* of an older one, of another user perhaps, still save what they bring.   *)
(***************************************************************************)
EXTENDS Naturals

CONSTANTS
    Users,      \* operators who sign in on this machine
    Refused,    \* <<user, version>>: what validateConfigSnapshot refuses
    Fetches,    \* bound: fetches in flight at a time
    MaxEdits,   \* bound: versions a user publishes
    MaxStarts,  \* bound: starts of the runtime
    None        \* no user, no row, no answer

ASSUME ConfigAssumption ==
    /\ None \notin Users
    /\ MaxEdits \in Nat /\ MaxStarts \in Nat

VARIABLES
    up,        \* the user of the running runtime, or None
    starts,    \* starts so far: the current sync object
    timer,     \* its interval is set
    shown,     \* its status.configVersion
    stored,    \* the row of chatbot_config_snapshot
    readable,  \* getConfigSnapshot accepts the row
    cloud,     \* per user, the version the cloud has
    fetch      \* fetches in flight: the sync object that awaits, the answer

vars == <<up, starts, timer, shown, stored, readable, cloud, fetch>>

Latest(u)   == <<u, cloud[u]>>
NoFetch     == [of |-> 0, user |-> None, answer |-> None]

\* validateConfigSnapshot and isConfigSnapshot: settings, rules and scope have
\* the forms and ranges this build knows.
Valid(answer) == answer # None /\ answer \notin Refused

\* getConfigSnapshot: a row an older build wrote may be unreadable.
Snapshot == IF readable THEN stored ELSE None

-----------------------------------------------------------------------------
\* syncNow: fetchConfig is awaited.
Fetch(p, n, u) ==
    /\ fetch[p] = NoFetch
    /\ fetch' = [fetch EXCEPT ![p] = [of |-> n, user |-> u, answer |-> None]]

\* startLocalChatbotRuntime stops what runs and starts a sync object, which
\* shows the cached version and fetches at once.
StartRuntime(u, p) ==
    /\ starts < MaxStarts
    /\ starts' = starts + 1
    /\ up' = u /\ timer' = TRUE /\ shown' = Snapshot
    /\ Fetch(p, starts + 1, u)
    /\ UNCHANGED <<stored, readable, cloud>>

StopRuntime ==
    /\ up # None
    /\ up' = None /\ timer' = FALSE
    /\ UNCHANGED <<starts, shown, stored, readable, cloud, fetch>>

\* The interval fires.
TimerFires(p) ==
    /\ timer /\ Fetch(p, starts, up)
    /\ UNCHANGED <<up, starts, timer, shown, stored, readable, cloud>>

\* POST of the operator to the chatbot sync endpoint.
SyncAsked(p) ==
    /\ up # None /\ Fetch(p, starts, up)
    /\ UNCHANGED <<up, starts, timer, shown, stored, readable, cloud>>

-----------------------------------------------------------------------------
\* The operator edits the configuration at the cloud.
Edits(u) ==
    /\ cloud[u] < MaxEdits
    /\ cloud' = [cloud EXCEPT ![u] = @ + 1]
    /\ UNCHANGED <<up, starts, timer, shown, stored, readable, fetch>>

\* The cloud answers with the version it has now.
CloudAnswers(p) ==
    /\ fetch[p] # NoFetch /\ fetch[p].answer = None
    /\ fetch' = [fetch EXCEPT ![p].answer = Latest(fetch[p].user)]
    /\ UNCHANGED <<up, starts, timer, shown, stored, readable, cloud>>

\* Mutant: the row goes only forward by its version, whoever published it.
SavesForward(p) ==
    LET answer == fetch[p].answer IN
    /\ Valid(answer)
    /\ stored' = IF stored # None /\ stored[2] > answer[2] THEN stored ELSE answer
    /\ readable' = TRUE
    /\ shown' = IF fetch[p].of = starts THEN answer ELSE shown
    /\ fetch' = [fetch EXCEPT ![p] = NoFetch]
    /\ UNCHANGED <<up, starts, timer, cloud>>

\* saveConfigSnapshot replaces the row, whichever object and user fetched it;
\* only the awaiting object's status changes.
Saves(p) ==
    LET answer == fetch[p].answer IN
    /\ Valid(answer)
    /\ stored' = answer /\ readable' = TRUE
    /\ shown' = IF fetch[p].of = starts THEN answer ELSE shown
    /\ fetch' = [fetch EXCEPT ![p] = NoFetch]
    /\ UNCHANGED <<up, starts, timer, cloud>>

\* Mutant: the first failure ends the interval.
FetchFailsStopping(p) ==
    /\ fetch[p] # NoFetch
    /\ fetch' = [fetch EXCEPT ![p] = NoFetch]
    /\ timer' = (timer /\ fetch[p].of # starts)
    /\ UNCHANGED <<up, starts, shown, stored, readable, cloud>>

\* No answer within 12 s, or a snapshot the store refuses: the row stays.
FetchFails(p) ==
    /\ fetch[p] # NoFetch
    /\ fetch' = [fetch EXCEPT ![p] = NoFetch]
    /\ UNCHANGED <<up, starts, timer, shown, stored, readable, cloud>>

\* The process dies; the next one may be another build, which does not accept
\* the row.
Crash ==
    /\ up' = None /\ timer' = FALSE /\ shown' = None
    /\ fetch' = [p \in Fetches |-> NoFetch]
    /\ readable' \in {readable, FALSE}
    /\ UNCHANGED <<starts, stored, cloud>>

Init ==
    /\ up = None /\ starts = 0 /\ timer = FALSE /\ shown = None
    /\ stored = None /\ readable = TRUE
    /\ cloud = [u \in Users |-> 0]
    /\ fetch = [p \in Fetches |-> NoFetch]

FetchStep(p) ==
    \/ TimerFires(p) \/ SyncAsked(p)
    \/ CloudAnswers(p) \/ Saves(p) \/ FetchFails(p)

Next ==
    \/ \E u \in Users : Edits(u) \/ \E p \in Fetches : StartRuntime(u, p)
    \/ \E p \in Fetches : FetchStep(p)
    \/ StopRuntime \/ Crash

Spec == Init /\ [][Next]_vars

\* The interval fires, every fetch ends by its 12 s limit, and of the fetches
\* of a runtime that stays up some are answered and saved.
Ours(p) == fetch[p].of = starts /\ up # None
FairSpec ==
    /\ Spec
    /\ SF_vars(\E p \in Fetches : TimerFires(p))
    /\ \A p \in Fetches : WF_vars(Saves(p) \/ FetchFails(p))
    /\ SF_vars(\E p \in Fetches : Ours(p) /\ CloudAnswers(p))
    /\ SF_vars(\E p \in Fetches : Ours(p) /\ Saves(p))

-----------------------------------------------------------------------------
\* However fetches of earlier starts and users, crashes, failures and rows of
\* another build come first: once a runtime stays up and its user's last version
\* is acceptable, the bot answers by that version, and the status shows it
\* (chatbot-store.ts:222-226, "self-heals on the next cloud sync").
CurrentInTheEnd ==
    <>[](up # None /\ Valid(Latest(up))
            => Snapshot = Latest(up) /\ shown = Latest(up))
=============================================================================
