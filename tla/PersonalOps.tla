---------------------------- MODULE PersonalOps ----------------------------
(***************************************************************************)
(* The operations on a personal account that the HTTP server offers        *)
(* (server.ts, personal-zca-channel.ts): each asks the risk control once,  *)
(* as soon as its body is read, then calls Zalo, and in the end drops the  *)
(* list it has changed from the cache.  The channel accepts friends of its *)
(* own accord as well.  Lists of groups and of friends are cached for a    *)
(* minute and fetched meanwhile.                                           *)
(*                                                                         *)
(* One account; the lists of another are cached apart.  A list is the      *)
(* number of changes made to it.  Which account, and how members of groups *)
(* are read, is left out.                                                  *)
(***************************************************************************)
EXTENDS RiskControl

CONSTANTS
    Ops,         \* requests that change something, and friend events
    Gets,        \* requests for a list
    Batches,     \* the targetCount of a send
    MaxChanges,  \* bound: changes of a list
    MaxRestarts  \* bound: restarts

VARIABLES
    zalo,      \* the lists as Zalo has them
    cache,     \* groupsCache, friendsCache
    op,        \* the operations under way
    get,       \* the lists being fetched
    excused,   \* history: the lists whose cached copy may be out of date
    restarts

vars == <<riskVars, zalo, cache, op, get, excused, restarts>>

Lists == {"groups", "friends"}
Empty == [there |-> FALSE, fresh |-> FALSE, at |-> 0]
Idle == [pc |-> "idle", kind |-> "none", under |-> "none"]
NoGet == [pc |-> "idle", list |-> "none", at |-> 0]

\* What a handler tells the risk control: what its body says, and counters of zero.
Request(action, count, consent, interaction, test) ==
    [action |-> action, count |-> count, consent |-> consent, interaction |-> interaction,
     test |-> test, sent |-> 0, failures |-> 0, reports |-> 0]

\* Of a handler whose body says no more, one target.
Plain(action) == Request(action, 1, FALSE, FALSE, FALSE)

\* The list an operation changes.
Changed(kind) ==
    CASE kind \in {"create", "join", "leave"} -> "groups"
      [] kind \in {"accept", "auto"} -> "friends"
      [] OTHER -> "none"

-----------------------------------------------------------------------------
(* The operations *)

\* A handler that goes ahead awaits the login of the accounts, then Zalo; under is the
\* switch of the action it has named.
GoesAhead(o, kind, under) ==
    /\ op[o].pc = "idle"
    /\ op' = [op EXCEPT ![o] = [pc |-> "call", kind |-> kind, under |-> under]]
    /\ UNCHANGED <<riskVars, zalo, cache, get, excused, restarts>>

CreateGroup(o) ==
    /\ GoesAhead(o, "create", "groups")
    /\ Allowed(config, Plain("create_groups"), clock)

JoinGroup(o) ==
    /\ GoesAhead(o, "join", "groups")
    /\ Allowed(config, Plain("join_groups"), clock)

InviteToGroup(o) ==
    /\ GoesAhead(o, "invite", "groups")
    /\ Allowed(config, Plain("invite_to_group"), clock)

\* The body names the action, by default friend_by_phone.
SendFriendRequest(o) ==
    \E action \in Actions :
        /\ GoesAhead(o, "befriend", Switch(action))
        /\ Allowed(config, Plain(action), clock)

\* The body names the action, by default bulk_message_to_friends, and all else.
SendMessage(o) ==
    \E action \in Actions :
        /\ GoesAhead(o, "send", Switch(action))
        /\ \E n \in Batches, consent, interaction \in BOOLEAN :
              Allowed(config, Request(action, n, consent, interaction, FALSE), clock)

\* A test is let through in the quiet hours too; the channel answers it itself.
SendTest(o) ==
    /\ op[o].pc = "idle"
    /\ \E action \in Actions, n \in Batches, consent, interaction \in BOOLEAN :
          Allowed(config, Request(action, n, consent, interaction, TRUE), clock)
    /\ op' = [op EXCEPT ![o] = [Idle EXCEPT !.pc = "answer", !.kind = "test"]]
    /\ UNCHANGED <<riskVars, zalo, cache, get, excused, restarts>>

\* Leaving a group and accepting a friend are not asked for.
LeaveGroup(o) == GoesAhead(o, "leave", "none")
AcceptFriend(o) == GoesAhead(o, "accept", "none")

\* A friend request comes: the channel accepts it if the switch is on, at any hour.
AutoAccept(o) == config["friends"] /\ GoesAhead(o, "auto", "friends")

\* Zalo does what it is called for.
TakesEffect(o) ==
    LET l == Changed(op[o].kind)
    IN  /\ op[o].pc = "call"
        /\ IF l = "none" THEN UNCHANGED zalo
           ELSE zalo[l] < MaxChanges /\ zalo' = [zalo EXCEPT ![l] = @ + 1]
        /\ op' = [op EXCEPT ![o].pc = "answer"]
        /\ UNCHANGED <<riskVars, cache, get, excused, restarts>>

\* Mutant: only the creation of a group drops the list.
AnsweredKeeping(o) ==
    LET l == Changed(op[o].kind)
        own == op[o].kind = "auto"
    IN  /\ op[o].pc = "answer"
        /\ op' = [op EXCEPT ![o] = Idle]
        /\ IF op[o].kind = "create" THEN cache' = [cache EXCEPT ![l] = Empty]
           ELSE cache' = cache
        /\ excused' = IF own THEN excused \cup {l} ELSE excused \ {l}
        /\ UNCHANGED <<riskVars, zalo, get, restarts>>

\* ... and answers: the list that has changed is dropped, unless the channel did it of
\* its own accord.
Answered(o) ==
    LET l == Changed(op[o].kind)
        own == op[o].kind = "auto"
    IN  /\ op[o].pc = "answer"
        /\ op' = [op EXCEPT ![o] = Idle]
        /\ IF l = "none" \/ own THEN cache' = cache
           ELSE cache' = [cache EXCEPT ![l] = Empty]
        /\ excused' = IF own THEN excused \cup {l} ELSE excused \ {l}
        /\ UNCHANGED <<riskVars, zalo, get, restarts>>

\* The call fails, whether or not Zalo did it: the cache is left as it is.
Fails(o) ==
    /\ op[o].pc \in {"call", "answer"}
    /\ op' = [op EXCEPT ![o] = Idle]
    /\ excused' = IF op[o].pc = "answer" THEN excused \cup ({Changed(op[o].kind)} \ {"none"})
                  ELSE excused
    /\ UNCHANGED <<riskVars, zalo, cache, get, restarts>>

-----------------------------------------------------------------------------
(* The lists *)

\* A list that is not cached, or no longer fresh, is fetched.
Fetch(g, l) ==
    /\ get[g].pc = "idle" /\ ~ cache[l].fresh
    /\ get' = [get EXCEPT ![g] = [pc |-> "fetch", list |-> l, at |-> 0]]
    /\ UNCHANGED <<riskVars, zalo, cache, op, excused, restarts>>

\* Zalo has the list read; the details of its groups are awaited after that.
Reads(g) ==
    /\ get[g].pc = "fetch"
    /\ get' = [get EXCEPT ![g].pc = "details", ![g].at = zalo[get[g].list]]
    /\ UNCHANGED <<riskVars, zalo, cache, op, excused, restarts>>

\* The list is cached, whatever was dropped meanwhile.
Caches(g) ==
    LET l == get[g].list
    IN  /\ get[g].pc = "details"
        /\ cache' = [cache EXCEPT ![l] = [there |-> TRUE, fresh |-> TRUE, at |-> get[g].at]]
        /\ excused' = IF get[g].at < zalo[l] THEN excused \cup {l} ELSE excused \ {l}
        /\ get' = [get EXCEPT ![g] = NoGet]
        /\ UNCHANGED <<riskVars, zalo, op, restarts>>

\* A fetch fails: an old copy serves, if there is one, and is not made fresh.
FetchFails(g) ==
    /\ get[g].pc # "idle"
    /\ get' = [get EXCEPT ![g] = NoGet]
    /\ UNCHANGED <<riskVars, zalo, cache, op, excused, restarts>>

\* CACHE_TTL_MS is over.
Expires(l) ==
    /\ cache[l].fresh
    /\ cache' = [cache EXCEPT ![l].fresh = FALSE]
    /\ UNCHANGED <<riskVars, zalo, op, get, excused, restarts>>

\* A list is changed from elsewhere.  Of a group an event may tell, upon which the list
\* is dropped; that of a friend is only passed on.
Elsewhere(l) ==
    /\ zalo[l] < MaxChanges
    /\ zalo' = [zalo EXCEPT ![l] = @ + 1]
    /\ excused' = excused \cup {l}
    /\ UNCHANGED <<riskVars, cache, op, get, restarts>>

GroupEvent ==
    /\ cache["groups"].there
    /\ cache' = [cache EXCEPT !["groups"] = Empty]
    /\ excused' = excused \ {"groups"}
    /\ UNCHANGED <<riskVars, zalo, op, get, restarts>>

-----------------------------------------------------------------------------
Restart ==
    /\ restarts < MaxRestarts
    /\ Load
    /\ cache' = [l \in Lists |-> Empty]
    /\ op' = [o \in Ops |-> Idle]
    /\ get' = [g \in Gets |-> NoGet]
    /\ excused' = {}
    /\ restarts' = restarts + 1
    /\ UNCHANGED <<disk, clock, word, lost, writes, zalo>>

Init ==
    /\ RiskInit
    /\ zalo = [l \in Lists |-> 0]
    /\ cache = [l \in Lists |-> Empty]
    /\ op = [o \in Ops |-> Idle]
    /\ get = [g \in Gets |-> NoGet]
    /\ excused = {} /\ restarts = 0

Settings == (\E p \in Inputs : WriteSettings(p)) \/ WriteTorn \/ Tick

Next ==
    \/ Settings /\ UNCHANGED <<zalo, cache, op, get, excused, restarts>>
    \/ \E o \in Ops :
          \/ CreateGroup(o) \/ JoinGroup(o) \/ InviteToGroup(o) \/ LeaveGroup(o)
          \/ SendFriendRequest(o) \/ AcceptFriend(o) \/ AutoAccept(o)
          \/ SendMessage(o) \/ SendTest(o)
          \/ TakesEffect(o) \/ Answered(o) \/ Fails(o)
    \/ \E g \in Gets :
          (\E l \in Lists : Fetch(g, l)) \/ Reads(g) \/ Caches(g) \/ FetchFails(g)
    \/ \E l \in Lists : Expires(l) \/ Elsewhere(l)
    \/ GroupEvent \/ Restart

Spec == Init /\ [][Next]_vars

-----------------------------------------------------------------------------
\* A setting as the operator was told it is.
Told(f) ==
    IF f \in lost THEN config[f] ELSE IF f \in DOMAIN word THEN word[f] ELSE Env[f]

\* The quiet hours as a set of times: the ticks from the start on until the end.
QuietTimes ==
    {(Told("quietStart") + d) % Day :
        d \in {d \in 0 .. Day - 1 : d < (Told("quietEnd") + Day - Told("quietStart")) % Day}}

\* What asks is let through to Zalo only outside the quiet hours, and what names an action
\* only with the switch on that the operator was last told for it; the channel accepts a
\* friend only with that of the friends on.  No sequence of settings and restarts leaves
\* a decision to another configuration.
AdmittedAsTold ==
    [][\A o \in Ops :
          op[o].pc = "idle" /\ op'[o].pc = "call" =>
              /\ op'[o].kind \notin {"leave", "accept", "auto"} => clock \notin QuietTimes
              /\ op'[o].under # "none" => Told(op'[o].under)]_vars

\* Nobody is befriended but with the switch for friends on.  This does not hold: the
\* switch is that of the action the body names, and a friend request may name another.
FriendsSwitchHolds ==
    [][\A o \in Ops :
          op[o].pc = "idle" /\ op'[o].pc = "call" /\ op'[o].kind = "befriend" =>
              Told("friends")]_vars

\* A cached list that is fresh shows every operation that was answered.  Excepted are a
\* copy that was out of date when it was cached, changes from elsewhere, operations
\* whose answer was lost, and the friends the channel accepts of its own accord.
CacheShowsAnswered ==
    \A l \in Lists :
        cache[l].fresh /\ l \notin excused
            /\ (\A o \in Ops : op[o].pc = "answer" => Changed(op[o].kind) # l)
        => cache[l].at = zalo[l]

Kinds ==
    {"none", "create", "join", "invite", "leave", "befriend", "accept", "auto", "send", "test"}
Operation ==
    [pc : {"idle", "call", "answer"}, kind : Kinds, under : {"friends", "groups", "none"}]

TypeOK ==
    /\ zalo \in [Lists -> Nat]
    /\ cache \in [Lists -> [there : BOOLEAN, fresh : BOOLEAN, at : Nat]]
    /\ op \in [Ops -> Operation]
    /\ get \in [Gets -> [pc : {"idle", "fetch", "details"}, list : Lists \cup {"none"},
                         at : Nat]]

\* With it: what was read of a list is not newer than the list.
ListsInv ==
    /\ TypeOK
    /\ \A g \in Gets :
          /\ get[g].pc # "idle" => get[g].list \in Lists
          /\ get[g].pc = "details" => get[g].at <= zalo[get[g].list]
    /\ CacheShowsAnswered
=============================================================================
