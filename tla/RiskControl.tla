---------------------------- MODULE RiskControl ----------------------------
(***************************************************************************)
(* The risk control of the backend: the settings the operator pushes       *)
(* (risk-control-store.ts), kept in a file and laid over the configuration *)
(* that the environment gives, and the decision whether an operation may   *)
(* go ahead (compliance.ts), which reads that configuration and the clock. *)
(*                                                                         *)
(* The day has Day ticks.  What sanitize leaves of an input is one of      *)
(* Inputs: a function from some fields to valid values.                    *)
(***************************************************************************)
EXTENDS Integers

CONSTANTS
    Day,        \* the ticks of a day
    Env,        \* config as the environment gives it
    Inputs,     \* what the operator sets
    MaxWrites   \* bound: settings written, writes torn

Times == {"quietStart", "quietEnd"}

\* The mode is the environment's own; times are times of the day.
ASSUME RiskAssumption ==
    /\ Day \in Nat \ {0}
    /\ {"mode", "groups", "friends"} \cup Times \subseteq DOMAIN Env
    /\ "torn" \notin DOMAIN Env
    /\ \A p \in Inputs : DOMAIN p \subseteq DOMAIN Env \ {"mode"}
    /\ \A f \in Times :
          /\ Env[f] \in 0 .. Day - 1
          /\ \A p \in Inputs : f \in DOMAIN p => p[f] \in 0 .. Day - 1
    /\ MaxWrites \in Nat

VARIABLES
    config,   \* the live configuration
    disk,     \* risk-control.json: some fields, or Garbage
    clock,
    word,     \* history: what the operator was last told is set
    lost,     \* history: the fields that were in a file when it was torn
    writes

riskVars == <<config, disk, clock, word, lost, writes>>

Garbage == [torn |-> TRUE]
NoFields == [f \in {} |-> TRUE]

\* The fields of f laid over those of g.
Over(f, g) == [x \in DOMAIN f \cup DOMAIN g |-> IF x \in DOMAIN f THEN f[x] ELSE g[x]]

\* readRiskControlSettings: without a file, or with one that cannot be parsed, nothing.
Read(d) == IF d = Garbage THEN NoFields ELSE d

-----------------------------------------------------------------------------
(* The settings *)

\* Mutant: what is in the file already is replaced.
WriteSettingsOver(p) ==
    /\ writes < MaxWrites
    /\ disk' = p
    /\ config' = Over(disk', config)
    /\ word' = Over(p, word)
    /\ lost' = lost \ DOMAIN p
    /\ writes' = writes + 1
    /\ UNCHANGED clock

\* writeRiskControlSettings: merged with what is in the file, saved, applied.
WriteSettings(p) ==
    /\ writes < MaxWrites
    /\ disk' = Over(p, Read(disk))
    /\ config' = Over(disk', config)
    /\ word' = Over(p, word)
    /\ lost' = lost \ DOMAIN p
    /\ writes' = writes + 1
    /\ UNCHANGED clock

\* The write fails half-way: the operator is told so, the file is gone.
WriteTorn ==
    /\ writes < MaxWrites
    /\ disk' = Garbage
    /\ lost' = DOMAIN word
    /\ writes' = writes + 1
    /\ UNCHANGED <<config, clock, word>>

\* The process starts: the file over the environment.
Load == config' = Over(Read(disk), Env)

Tick ==
    /\ clock' = (clock + 1) % Day
    /\ UNCHANGED <<config, disk, word, lost, writes>>

RiskInit ==
    /\ config = Env /\ disk = NoFields
    /\ clock = 0
    /\ word = NoFields /\ lost = {} /\ writes = 0

-----------------------------------------------------------------------------
(* The decision *)

Replies == {"live_chat_reply", "chatbot_reply"}
FriendActions == {"friend_by_phone", "friend_by_group"}
GroupActions == {"scan_group_members", "join_groups", "invite_to_group", "create_groups"}
PersonalActions == FriendActions \cup GroupActions
Messages == {"bulk_message_by_phone", "bulk_message_to_group", "bulk_message_to_friends"}

\* ZaloActionType; nothing refuses another name.
Actions == Replies \cup PersonalActions \cup Messages \cup {"other"}

\* The switch an action is under.
Switch(action) ==
    IF action \in FriendActions THEN "friends"
    ELSE IF action \in GroupActions THEN "groups" ELSE "none"

\* Mutant: a range over midnight is taken for one within the day.
QuietSameDay(c, now) == now >= c.quietStart /\ now < c.quietEnd

\* isQuietHours.
Quiet(c, now) ==
    IF c.quietStart <= c.quietEnd
    THEN now >= c.quietStart /\ now < c.quietEnd
    ELSE now >= c.quietStart \/ now < c.quietEnd

\* Reports, failures, quiet hours and the daily limit stop everything but a test.
Stopped(c, r, now) ==
    /\ ~ r.test
    /\ \/ r.reports >= c.stopOnReports
       \/ r.failures > c.maxFailures
       \/ Quiet(c, now)
       \/ r.sent >= c.dailyLimit

\* What the channel and its switches forbid.
Barred(c, r) ==
    /\ r.action \in PersonalActions
    /\ \/ /\ c.mode = "personal_zca"
          /\ \/ ~ c.personal
             \/ r.action \in FriendActions /\ ~ c.friends
             \/ r.action \in GroupActions /\ ~ c.groups
             \/ ~ r.test /\ c.approval /\ r.count > c.threshold
       \/ c.mode = "official_oa" /\ ~ r.test

\* A test of a personal action, and messages without consent, are let through before
\* the size of the batch is looked at.
Waived(c, r) ==
    \/ r.test /\ r.action \in PersonalActions /\ c.mode = "personal_zca"
    \/ r.action = "bulk_message_by_phone" /\ ~ r.consent
    \/ /\ r.action \in {"bulk_message_to_group", "bulk_message_to_friends"}
       /\ ~ r.consent /\ ~ r.interaction

\* evaluateCompliance.
Allowed(c, r, now) ==
    /\ ~ Stopped(c, r, now)
    /\ \/ r.action \in Replies
       \/ ~ Barred(c, r) /\ (Waived(c, r) \/ r.count <= c.maxBatch)

-----------------------------------------------------------------------------
\* What the operator was told is set is what the decisions go by, over any sequence of
\* partial settings and restarts, but for what a torn file took along.
OperatorsWordHolds ==
    \A f \in DOMAIN word : f \in lost \/ config[f] = word[f]

\* What makes it inductive: what was told is in the file, and what was not is as the
\* environment has it.
SettingsInv ==
    /\ clock \in 0 .. Day - 1
    /\ DOMAIN config = DOMAIN Env
    /\ lost \subseteq DOMAIN word /\ DOMAIN word \subseteq DOMAIN Env \ {"mode"}
    /\ disk # Garbage => DOMAIN disk \subseteq DOMAIN word
    /\ \A f \in DOMAIN word \ lost :
          /\ disk # Garbage /\ f \in DOMAIN disk
          /\ disk[f] = word[f] /\ config[f] = word[f]
    /\ \A f \in DOMAIN Env \ DOMAIN word : config[f] = Env[f]
    /\ \A f \in Times :
          /\ config[f] \in 0 .. Day - 1
          /\ disk # Garbage /\ f \in DOMAIN disk => disk[f] \in 0 .. Day - 1
=============================================================================
