-------------------------- MODULE PersonalOpsProofs --------------------------
(***************************************************************************)
(* What the risk control and the list caches guarantee for any settings,   *)
(* operations, lists and restarts.                                         *)
(***************************************************************************)
EXTENDS PersonalOps, TLAPS

-----------------------------------------------------------------------------
(* Settings *)

\* No settings are taken for a torn file.
LEMMA FieldsAreNotGarbage ==
    ASSUME NEW d, DOMAIN d \subseteq DOMAIN Env PROVE d # Garbage
<1>1. DOMAIN Garbage = {"torn"}
  BY DEF Garbage
<1> QED BY <1>1, RiskAssumption

\* What is read of the file.
LEMMA ReadFields ==
    ASSUME SettingsInv
    PROVE  /\ disk # Garbage => Read(disk) = disk
           /\ disk = Garbage => DOMAIN Read(disk) = {}
           /\ DOMAIN Read(disk) \subseteq DOMAIN word
BY DEF Read, NoFields, SettingsInv

\* Settings pushed are merged with the file and with the configuration.
LEMMA WriteStep ==
    ASSUME SettingsInv, NEW p \in Inputs, WriteSettings(p) PROVE SettingsInv'
<1>1. /\ DOMAIN p \subseteq DOMAIN Env \ {"mode"}
      /\ \A f \in Times : f \in DOMAIN p => p[f] \in 0 .. Day - 1
  BY RiskAssumption
<1>2. /\ disk' = Over(p, Read(disk)) /\ config' = Over(disk', config) /\ word' = Over(p, word)
      /\ lost' = lost \ DOMAIN p /\ clock' = clock
  BY DEF WriteSettings
<1>3. /\ DOMAIN disk' = DOMAIN p \cup DOMAIN Read(disk)
      /\ \A x \in DOMAIN p : disk'[x] = p[x]
      /\ \A x \in DOMAIN Read(disk) \ DOMAIN p : disk'[x] = Read(disk)[x]
  BY <1>2 DEF Over
<1>4. /\ DOMAIN config' = DOMAIN disk' \cup DOMAIN config
      /\ \A x \in DOMAIN disk' : config'[x] = disk'[x]
      /\ \A x \in DOMAIN config \ DOMAIN disk' : config'[x] = config[x]
  BY <1>2 DEF Over
<1>5. /\ DOMAIN word' = DOMAIN p \cup DOMAIN word
      /\ \A x \in DOMAIN p : word'[x] = p[x]
      /\ \A x \in DOMAIN word \ DOMAIN p : word'[x] = word[x]
  BY <1>2 DEF Over
<1>6. DOMAIN disk' \subseteq DOMAIN word' /\ DOMAIN word' \subseteq DOMAIN Env \ {"mode"}
  BY <1>1, <1>3, <1>5, ReadFields DEF SettingsInv
<1>7. disk' # Garbage
  BY <1>6, FieldsAreNotGarbage
<1>8. ASSUME NEW f \in DOMAIN word' \ lost'
      PROVE  f \in DOMAIN disk' /\ disk'[f] = word'[f] /\ config'[f] = word'[f]
  <2>1. CASE f \in DOMAIN p
    BY <1>3, <1>4, <1>5, <2>1
  <2>2. CASE f \notin DOMAIN p
    <3>1. f \in DOMAIN word \ lost
      BY <1>2, <1>5, <1>8, <2>2
    <3>2. Read(disk) = disk /\ f \in DOMAIN disk /\ disk[f] = word[f]
      BY <3>1, ReadFields DEF SettingsInv
    <3> QED BY <1>3, <1>4, <1>5, <2>2, <3>1, <3>2
  <2> QED BY <2>1, <2>2
<1>9. ASSUME NEW f \in DOMAIN Env \ DOMAIN word' PROVE config'[f] = Env[f]
  BY <1>4, <1>5, <1>6 DEF SettingsInv
<1>10. ASSUME NEW f \in Times
       PROVE  /\ f \in DOMAIN disk' => disk'[f] \in 0 .. Day - 1
              /\ config'[f] \in 0 .. Day - 1
  <2>1. f \in DOMAIN config /\ config[f] \in 0 .. Day - 1
    BY RiskAssumption DEF SettingsInv
  <2>2. f \in DOMAIN Read(disk) => Read(disk)[f] \in 0 .. Day - 1
    BY ReadFields DEF SettingsInv
  <2> QED BY <1>1, <1>3, <1>4, <2>1, <2>2
<1>11. DOMAIN config' = DOMAIN Env
  BY <1>4, <1>6, <1>3, ReadFields DEF SettingsInv
<1>12. lost' \subseteq DOMAIN word'
  BY <1>2, <1>5 DEF SettingsInv
<1>13. clock' \in 0 .. Day - 1
  BY <1>2 DEF SettingsInv
<1> QED BY <1>6, <1>7, <1>8, <1>9, <1>10, <1>11, <1>12, <1>13 DEF SettingsInv

\* The process starts with the file over the environment.
LEMMA LoadStep ==
    ASSUME SettingsInv, Load, UNCHANGED <<disk, clock, word, lost>>
    PROVE  SettingsInv'
<1>1. /\ DOMAIN config' = DOMAIN Read(disk) \cup DOMAIN Env
      /\ \A x \in DOMAIN Read(disk) : config'[x] = Read(disk)[x]
      /\ \A x \in DOMAIN Env \ DOMAIN Read(disk) : config'[x] = Env[x]
  BY DEF Load, Over
<1>2. DOMAIN config' = DOMAIN Env
  BY <1>1, ReadFields DEF SettingsInv
<1>3. \A f \in DOMAIN word \ lost : config'[f] = word[f]
  BY <1>1, ReadFields DEF SettingsInv
<1>4. \A f \in DOMAIN Env \ DOMAIN word : config'[f] = Env[f]
  BY <1>1, ReadFields
<1>5. \A f \in Times : config'[f] \in 0 .. Day - 1
  <2>1. \A f \in Times : f \in DOMAIN Read(disk) => Read(disk)[f] \in 0 .. Day - 1
    BY ReadFields DEF SettingsInv
  <2> QED BY <1>1, <2>1, RiskAssumption
<1> QED BY <1>2, <1>3, <1>4, <1>5 DEF SettingsInv

\* What remains of a step leaves the settings alone.
LEMMA SettingsStep == SettingsInv /\ [Next]_vars => SettingsInv'
<1> SUFFICES ASSUME SettingsInv, [Next]_vars PROVE SettingsInv'
  OBVIOUS
<1>1. ASSUME NEW p \in Inputs, WriteSettings(p) PROVE SettingsInv'
  BY <1>1, WriteStep
<1>2. CASE WriteTorn
  BY <1>2 DEF WriteTorn, SettingsInv
<1>3. CASE Tick
  <2>1. clock' \in 0 .. Day - 1
    BY <1>3, RiskAssumption DEF Tick, SettingsInv
  <2> QED BY <1>3, <2>1 DEF Tick, SettingsInv
<1>4. CASE Restart
  BY <1>4, LoadStep DEF Restart
<1>5. ASSUME NEW o \in Ops,
             \/ CreateGroup(o) \/ JoinGroup(o) \/ InviteToGroup(o) \/ LeaveGroup(o)
             \/ SendFriendRequest(o) \/ AcceptFriend(o) \/ AutoAccept(o)
             \/ SendMessage(o) \/ SendTest(o)
             \/ TakesEffect(o) \/ Answered(o) \/ Fails(o)
      PROVE  SettingsInv'
  <2>1. UNCHANGED riskVars
    BY <1>5 DEF CreateGroup, JoinGroup, InviteToGroup, LeaveGroup, SendFriendRequest,
                AcceptFriend, AutoAccept, SendMessage, SendTest, GoesAhead, TakesEffect,
                Answered, Fails
  <2> QED BY <2>1 DEF riskVars, SettingsInv
<1>6. CASE \/ \E g \in Gets :
                 (\E l \in Lists : Fetch(g, l)) \/ Reads(g) \/ Caches(g) \/ FetchFails(g)
           \/ \E l \in Lists : Expires(l) \/ Elsewhere(l)
           \/ GroupEvent \/ UNCHANGED vars
  <2>1. UNCHANGED riskVars
    BY <1>6 DEF Fetch, Reads, Caches, FetchFails, Expires, Elsewhere, GroupEvent, vars
  <2> QED BY <2>1 DEF riskVars, SettingsInv
<1> QED BY <1>1, <1>2, <1>3, <1>4, <1>5, <1>6 DEF Next, Settings

\* At the start the environment is all there is.
LEMMA SettingsInit == Init => SettingsInv
<1>1. DOMAIN NoFields = {} /\ NoFields # Garbage
  BY FieldsAreNotGarbage DEF NoFields
<1> QED BY <1>1, RiskAssumption DEF Init, RiskInit, SettingsInv

\* Whatever is pushed and however often the process starts, the live configuration has
\* every field as the operator was last told, but for those a torn file took along.
THEOREM SettingsPrevail == Spec => []OperatorsWordHolds
<1>1. SettingsInv => OperatorsWordHolds
  BY DEF SettingsInv, OperatorsWordHolds
<1> QED BY <1>1, SettingsInit, SettingsStep, PTL DEF Spec

-----------------------------------------------------------------------------
(* Lists *)

\* An operation that is over.
LEMMA IdleType == Idle \in Operation
BY DEF Idle, Operation, Kinds

\* A handler that goes ahead, or is answered, or fails.
LEMMA ListsOp ==
    ASSUME ListsInv, NEW o \in Ops,
           \/ CreateGroup(o) \/ JoinGroup(o) \/ InviteToGroup(o) \/ LeaveGroup(o)
           \/ SendFriendRequest(o) \/ AcceptFriend(o) \/ AutoAccept(o)
           \/ SendMessage(o) \/ SendTest(o)
           \/ TakesEffect(o) \/ Answered(o) \/ Fails(o)
    PROVE  ListsInv'
<1> DEFINE l == Changed(op[o].kind)
<1>1. l \in Lists \cup {"none"} /\ "none" \notin Lists
  BY DEF Changed, Lists
<1>2. ASSUME NEW kind \in Kinds, NEW under \in {"friends", "groups", "none"},
             GoesAhead(o, kind, under)
      PROVE  ListsInv'
  <2>1. TypeOK'
    <3>1. [pc |-> "call", kind |-> kind, under |-> under] \in Operation
      BY DEF Operation
    <3>2. op' \in [Ops -> Operation]
      BY <1>2, <3>1 DEF GoesAhead, ListsInv, TypeOK
    <3> QED BY <1>2, <3>2 DEF GoesAhead, ListsInv, TypeOK
  <2>2. CacheShowsAnswered'
    <3> SUFFICES ASSUME NEW k \in Lists, cache[k].fresh, k \notin excused,
                        \A q \in Ops : op'[q].pc = "answer" => Changed(op'[q].kind) # k
                 PROVE  cache[k].at = zalo[k]
      BY <1>2 DEF GoesAhead, CacheShowsAnswered
    <3>1. \A q \in Ops : op[q].pc = "answer" => q # o /\ op'[q] = op[q]
      BY <1>2 DEF GoesAhead, ListsInv, TypeOK
    <3> QED BY <3>1 DEF ListsInv, CacheShowsAnswered
  <2> QED BY <1>2, <2>1, <2>2 DEF GoesAhead, ListsInv
<1>3. CASE \/ CreateGroup(o) \/ JoinGroup(o) \/ InviteToGroup(o) \/ LeaveGroup(o)
          \/ SendFriendRequest(o) \/ AcceptFriend(o) \/ AutoAccept(o) \/ SendMessage(o)
  <2>1. \A action : Switch(action) \in {"friends", "groups", "none"}
    BY DEF Switch
  <2> QED BY <1>2, <1>3, <2>1
          DEF CreateGroup, JoinGroup, InviteToGroup, LeaveGroup, SendFriendRequest,
              AcceptFriend, AutoAccept, SendMessage, Kinds
<1>7. CASE SendTest(o)
  <2> DEFINE test == [Idle EXCEPT !.pc = "answer", !.kind = "test"]
  <2>1. test \in Operation
    BY DEF Idle, Operation, Kinds
  <2>2. op' = [op EXCEPT ![o] = test] /\ UNCHANGED <<zalo, cache, get, excused>>
        /\ op[o].pc = "idle"
    BY <1>7 DEF SendTest
  <2>3. test.pc = "answer" /\ test.kind = "test"
    BY DEF Idle
  <2> HIDE DEF test
  <2>4. TypeOK'
    BY <2>1, <2>2 DEF ListsInv, TypeOK
  <2>5. CacheShowsAnswered'
    <3> SUFFICES ASSUME NEW k \in Lists, cache[k].fresh, k \notin excused,
                        \A q \in Ops : op'[q].pc = "answer" => Changed(op'[q].kind) # k
                 PROVE  cache[k].at = zalo[k]
      BY <2>2 DEF CacheShowsAnswered
    <3>1. \A q \in Ops : op[q].pc = "answer" => q # o /\ op'[q] = op[q]
      BY <2>2 DEF ListsInv, TypeOK
    <3> QED BY <3>1 DEF ListsInv, CacheShowsAnswered
  <2> QED BY <2>2, <2>4, <2>5 DEF ListsInv
<1>4. CASE TakesEffect(o)
  <2>1. /\ op[o].pc = "call" /\ op' = [op EXCEPT ![o].pc = "answer"]
        /\ cache' = cache /\ get' = get /\ excused' = excused
        /\ IF l = "none" THEN zalo' = zalo ELSE zalo' = [zalo EXCEPT ![l] = @ + 1]
    BY <1>4 DEF TakesEffect
  <2>2. op'[o].pc = "answer" /\ op'[o].kind = op[o].kind
    BY <2>1 DEF ListsInv, TypeOK, Operation
  <2>3. \A k \in Lists : zalo'[k] \in Nat /\ zalo[k] <= zalo'[k] /\ (k # l => zalo'[k] = zalo[k])
    BY <1>1, <2>1 DEF ListsInv, TypeOK
  <2>4. TypeOK'
    <3>1. zalo' \in [Lists -> Nat]
      BY <2>1, <1>1 DEF ListsInv, TypeOK
    <3>2. op' \in [Ops -> Operation]
      <4>1. [op[o] EXCEPT !.pc = "answer"] \in Operation
        BY DEF ListsInv, TypeOK, Operation
      <4> QED BY <2>1, <4>1 DEF ListsInv, TypeOK
    <3> QED BY <2>1, <3>1, <3>2 DEF ListsInv, TypeOK
  <2>5. CacheShowsAnswered'
    <3> SUFFICES ASSUME NEW k \in Lists, cache[k].fresh, k \notin excused,
                        \A q \in Ops : op'[q].pc = "answer" => Changed(op'[q].kind) # k
                 PROVE  cache[k].at = zalo'[k]
      BY <2>1 DEF CacheShowsAnswered
    <3>1. k # l
      BY <2>2
    <3>2. \A q \in Ops : op[q].pc = "answer" => op'[q] = op[q]
      BY <2>1 DEF ListsInv, TypeOK
    <3> QED BY <2>3, <3>1, <3>2 DEF ListsInv, CacheShowsAnswered
  <2>6. \A g \in Gets : get[g].pc = "details" => get[g].at <= zalo'[get[g].list]
    BY <2>3 DEF ListsInv, TypeOK
  <2> QED BY <2>1, <2>4, <2>5, <2>6 DEF ListsInv
<1>5. CASE Answered(o)
  <2>1. /\ op' = [op EXCEPT ![o] = Idle] /\ zalo' = zalo /\ get' = get
        /\ \/ cache' = cache /\ (l = "none" \/ op[o].kind = "auto")
           \/ cache' = [cache EXCEPT ![l] = Empty] /\ l # "none"
        /\ excused' = IF op[o].kind = "auto" THEN excused \cup {l} ELSE excused \ {l}
    BY <1>5 DEF Answered
  <2>2. TypeOK'
    <3>1. cache' \in [Lists -> [there : BOOLEAN, fresh : BOOLEAN, at : Nat]]
      <4> DEFINE Copy == [there : BOOLEAN, fresh : BOOLEAN, at : Nat]
      <4>1. Empty \in Copy
        BY DEF Empty
      <4>2. cache \in [Lists -> Copy]
        BY DEF ListsInv, TypeOK
      <4> HIDE DEF Copy
      <4>3. cache' \in [Lists -> Copy]
        BY <2>1, <4>1, <4>2
      <4> QED BY <4>3 DEF Copy
    <3>2. op' \in [Ops -> Operation]
      BY <2>1, IdleType DEF ListsInv, TypeOK
    <3> QED BY <2>1, <3>1, <3>2 DEF ListsInv, TypeOK
  <2>3. CacheShowsAnswered'
    <3> SUFFICES ASSUME NEW k \in Lists, cache'[k].fresh, k \notin excused',
                        \A q \in Ops : op'[q].pc = "answer" => Changed(op'[q].kind) # k
                 PROVE  cache'[k].at = zalo[k]
      BY <2>1 DEF CacheShowsAnswered
    <3>1. k # l
      <4>1. CASE cache' = cache /\ (l = "none" \/ op[o].kind = "auto")
        BY <1>1, <2>1, <4>1
      <4>2. CASE cache' = [cache EXCEPT ![l] = Empty] /\ l # "none"
        <5>1. DOMAIN cache = Lists
          BY DEF ListsInv, TypeOK
        <5> QED BY <4>2, <5>1 DEF Empty
      <4> QED BY <2>1, <4>1, <4>2
    <3>3. cache'[k] = cache[k] /\ k \notin excused
      <4>1. k \notin excused
        BY <2>1, <3>1
      <4>2. cache'[k] = cache[k]
        BY <2>1, <3>1 DEF ListsInv, TypeOK
      <4> QED BY <4>1, <4>2
    <3>2. \A q \in Ops : q # o => op'[q] = op[q]
      BY <2>1 DEF ListsInv, TypeOK
    <3> QED BY <3>1, <3>2, <3>3 DEF ListsInv, CacheShowsAnswered
  <2> QED BY <2>1, <2>2, <2>3 DEF ListsInv
<1>6. CASE Fails(o)
  <2>1. /\ op' = [op EXCEPT ![o] = Idle] /\ zalo' = zalo /\ get' = get /\ cache' = cache
        /\ op[o].pc = "answer" => excused' = excused \cup ({l} \ {"none"})
        /\ op[o].pc # "answer" => excused' = excused
    BY <1>6 DEF Fails
  <2>2. op' \in [Ops -> Operation]
    BY <2>1, IdleType DEF ListsInv, TypeOK
  <2>3. CacheShowsAnswered'
    <3> SUFFICES ASSUME NEW k \in Lists, cache[k].fresh, k \notin excused',
                        \A q \in Ops : op'[q].pc = "answer" => Changed(op'[q].kind) # k
                 PROVE  cache[k].at = zalo[k]
      BY <2>1 DEF CacheShowsAnswered
    <3>1. k \notin excused /\ (op[o].pc = "answer" => l # k)
      BY <1>1, <2>1
    <3>2. \A q \in Ops : q # o => op'[q] = op[q]
      BY <2>1 DEF ListsInv, TypeOK
    <3> QED BY <3>1, <3>2 DEF ListsInv, CacheShowsAnswered
  <2> QED BY <2>1, <2>2, <2>3 DEF ListsInv, TypeOK
<1> QED BY <1>3, <1>4, <1>5, <1>6, <1>7

\* A list is fetched.
LEMMA ListsGet ==
    ASSUME ListsInv, NEW g \in Gets,
           \/ \E l \in Lists : Fetch(g, l)
           \/ Reads(g) \/ Caches(g) \/ FetchFails(g)
    PROVE  ListsInv'
<1>1. ASSUME NEW l \in Lists, Fetch(g, l) PROVE ListsInv'
  BY <1>1 DEF Fetch, ListsInv, TypeOK, CacheShowsAnswered
<1>2. CASE Reads(g)
  <2>1. get' = [get EXCEPT ![g].pc = "details", ![g].at = zalo[get[g].list]]
        /\ get[g].list \in Lists /\ zalo[get[g].list] \in Nat
    BY <1>2 DEF Reads, ListsInv, TypeOK
  <2>2. get' \in [Gets -> [pc : {"idle", "fetch", "details"}, list : Lists \cup {"none"},
                          at : Nat]]
    <3> DEFINE Read1 == [get EXCEPT ![g].pc = "details"]
               Fetches == [pc : {"idle", "fetch", "details"}, list : Lists \cup {"none"},
                           at : Nat]
    <3>1. Read1 \in [Gets -> Fetches]
      <4>1. get[g] \in Fetches /\ get \in [Gets -> Fetches]
        BY DEF ListsInv, TypeOK
      <4>2. [get[g] EXCEPT !.pc = "details"] \in Fetches
        BY <4>1
      <4> HIDE DEF Fetches
      <4> QED BY <4>1, <4>2
    <3>2. get' = [Read1 EXCEPT ![g].at = zalo[get[g].list]]
      BY <2>1 DEF ListsInv, TypeOK
    <3>3. ASSUME NEW h \in Gets PROVE [Read1[h] EXCEPT !.at = zalo[get[g].list]] \in Fetches
      <4>1. Read1[h] \in Fetches
        BY <3>1
      <4> HIDE DEF Read1
      <4> QED BY <2>1, <4>1
    <3> HIDE DEF Read1, Fetches
    <3> QED BY <3>1, <3>2, <3>3 DEF Fetches
  <2>3. \A h \in Gets : h # g => get'[h] = get[h]
    BY <2>1 DEF ListsInv, TypeOK
  <2>4. get'[g].list = get[g].list /\ get'[g].at = zalo[get[g].list]
    BY <2>1 DEF ListsInv, TypeOK
  <2>5. UNCHANGED <<riskVars, zalo, cache, op, excused>>
    BY <1>2 DEF Reads
  <2>6. CacheShowsAnswered'
    BY <2>5 DEF ListsInv, CacheShowsAnswered
  <2>7. ASSUME NEW h \in Gets
        PROVE  /\ get'[h].pc # "idle" => get'[h].list \in Lists
               /\ get'[h].pc = "details" => get'[h].at <= zalo[get'[h].list]
    <3>1. CASE h = g
      BY <2>1, <2>4, <3>1
    <3>2. CASE h # g
      <4>1. get'[h] = get[h]
        BY <2>3, <3>2
      <4> QED BY <4>1 DEF ListsInv
    <3> QED BY <3>1, <3>2
  <2> QED BY <2>2, <2>5, <2>6, <2>7 DEF ListsInv, TypeOK
<1>3. CASE Caches(g)
  <2> DEFINE l == get[g].list
             copy == [there |-> TRUE, fresh |-> TRUE, at |-> get[g].at]
  <2>1. /\ l \in Lists /\ get[g].at \in Nat /\ zalo[l] \in Nat /\ get[g].at <= zalo[l]
        /\ cache' = [cache EXCEPT ![l] = copy] /\ get' = [get EXCEPT ![g] = NoGet]
        /\ excused' = IF get[g].at < zalo[l] THEN excused \cup {l} ELSE excused \ {l}
        /\ zalo' = zalo /\ op' = op
    BY <1>3 DEF Caches, ListsInv, TypeOK
  <2>2. TypeOK'
    <3>1. cache' \in [Lists -> [there : BOOLEAN, fresh : BOOLEAN, at : Nat]]
      BY <2>1 DEF ListsInv, TypeOK
    <3>2. get' \in [Gets -> [pc : {"idle", "fetch", "details"}, list : Lists \cup {"none"},
                            at : Nat]]
      BY <2>1 DEF ListsInv, TypeOK, NoGet
    <3> QED BY <2>1, <3>1, <3>2 DEF ListsInv, TypeOK
  <2>3. CacheShowsAnswered'
    <3> SUFFICES ASSUME NEW k \in Lists, cache'[k].fresh, k \notin excused',
                        \A q \in Ops : op[q].pc = "answer" => Changed(op[q].kind) # k
                 PROVE  cache'[k].at = zalo[k]
      BY <2>1 DEF CacheShowsAnswered
    <3>1. CASE k = l
      <4>1. cache'[l] = copy
        BY <2>1 DEF ListsInv, TypeOK
      <4>2. ~ get[g].at < zalo[l]
        BY <2>1, <3>1
      <4> QED BY <2>1, <3>1, <4>1, <4>2
    <3>2. CASE k # l
      <4>1. cache'[k] = cache[k] /\ k \notin excused
        BY <2>1, <3>2 DEF ListsInv, TypeOK
      <4> QED BY <4>1 DEF ListsInv, CacheShowsAnswered
    <3> QED BY <3>1, <3>2
  <2>4. \A h \in Gets : get'[h].pc # "idle" => h # g /\ get'[h] = get[h]
    BY <2>1 DEF ListsInv, TypeOK, NoGet
  <2> QED BY <2>1, <2>2, <2>3, <2>4 DEF ListsInv
<1>4. CASE FetchFails(g)
  <2>1. get' \in [Gets -> [pc : {"idle", "fetch", "details"}, list : Lists \cup {"none"},
                          at : Nat]]
    BY <1>4 DEF FetchFails, ListsInv, TypeOK, NoGet
  <2>2. \A h \in Gets : get'[h].pc # "idle" => h # g /\ get'[h] = get[h]
    BY <1>4 DEF FetchFails, ListsInv, TypeOK, NoGet
  <2> QED BY <1>4, <2>1, <2>2 DEF FetchFails, ListsInv, TypeOK, CacheShowsAnswered
<1> QED BY <1>1, <1>2, <1>3, <1>4

\* A cached list changes otherwise, or goes.
LEMMA ListsElse ==
    ASSUME ListsInv, (\E l \in Lists : Expires(l) \/ Elsewhere(l)) \/ GroupEvent \/ Restart
    PROVE  ListsInv'
<1>1. ASSUME NEW l \in Lists, Expires(l) PROVE ListsInv'
  <2>1. UNCHANGED <<riskVars, zalo, op, get, excused, restarts>>
    BY <1>1 DEF Expires
  <2>2. cache' = [cache EXCEPT ![l].fresh = FALSE]
    BY <1>1 DEF Expires
  <2>3. ASSUME NEW k \in Lists
        PROVE  /\ cache'[k] \in [there : BOOLEAN, fresh : BOOLEAN, at : Nat]
               /\ cache'[k].at = cache[k].at /\ (cache'[k].fresh => cache[k].fresh)
    <3>1. cache[k] \in [there : BOOLEAN, fresh : BOOLEAN, at : Nat]
      BY DEF ListsInv, TypeOK
    <3>2. CASE k = l
      <4>1. cache'[k] = [cache[k] EXCEPT !.fresh = FALSE]
        BY <2>2, <3>2 DEF ListsInv, TypeOK
      <4> QED BY <3>1, <4>1
    <3>3. CASE k # l
      <4>1. cache'[k] = cache[k]
        BY <2>2, <3>3 DEF ListsInv, TypeOK
      <4> QED BY <3>1, <4>1
    <3> QED BY <3>2, <3>3
  <2>4. cache' \in [Lists -> [there : BOOLEAN, fresh : BOOLEAN, at : Nat]]
    <3>1. cache' = [k \in Lists |-> cache'[k]]
      BY <2>2 DEF ListsInv, TypeOK
    <3> QED BY <2>3, <3>1
  <2>5. CacheShowsAnswered'
    BY <2>1, <2>3 DEF ListsInv, CacheShowsAnswered
  <2> QED BY <2>1, <2>4, <2>5 DEF ListsInv, TypeOK, riskVars
<1>2. ASSUME NEW l \in Lists, Elsewhere(l) PROVE ListsInv'
  <2>1. zalo' = [zalo EXCEPT ![l] = @ + 1] /\ excused' = excused \cup {l}
        /\ UNCHANGED <<cache, op, get>>
    BY <1>2 DEF Elsewhere
  <2>2. zalo' \in [Lists -> Nat]
    BY <2>1 DEF ListsInv, TypeOK
  <2>3. \A k \in Lists : /\ zalo[k] \in Nat /\ zalo'[k] \in Nat /\ zalo[k] <= zalo'[k]
                         /\ k # l => zalo'[k] = zalo[k]
    BY <2>1 DEF ListsInv, TypeOK
  <2>4. \A g \in Gets : get[g].pc = "details" => get[g].at <= zalo'[get[g].list]
    BY <2>3 DEF ListsInv, TypeOK
  <2> QED BY <2>1, <2>2, <2>3, <2>4 DEF ListsInv, TypeOK, CacheShowsAnswered
<1>3. CASE GroupEvent
  BY <1>3 DEF GroupEvent, ListsInv, TypeOK, CacheShowsAnswered, Lists, Empty
<1>4. CASE Restart
  BY <1>4, IdleType DEF Restart, ListsInv, TypeOK, CacheShowsAnswered, Empty, Idle, NoGet
<1> QED BY <1>1, <1>2, <1>3, <1>4

\* Nothing is cached at the start.
LEMMA ListsInit == Init => ListsInv
BY IdleType DEF Init, ListsInv, TypeOK, CacheShowsAnswered, Empty, Idle, NoGet

\* Every step keeps it.
LEMMA ListsStep == ListsInv /\ [Next]_vars => ListsInv'
<1> SUFFICES ASSUME ListsInv, [Next]_vars PROVE ListsInv'
  OBVIOUS
<1>1. CASE Settings /\ UNCHANGED <<zalo, cache, op, get, excused, restarts>>
  BY <1>1 DEF ListsInv, TypeOK, CacheShowsAnswered
<1>2. CASE UNCHANGED vars
  BY <1>2 DEF vars, ListsInv, TypeOK, CacheShowsAnswered
<1> QED BY <1>1, <1>2, ListsOp, ListsGet, ListsElse DEF Next

\* However operations, fetches, events and restarts interleave, a fresh cached list shows
\* every operation that was answered, but for the excused.
THEOREM AnsweredIsShown == Spec => []CacheShowsAnswered
<1>1. ListsInv => CacheShowsAnswered
  BY DEF ListsInv
<1> QED BY <1>1, ListsInit, ListsStep, PTL DEF Spec

-----------------------------------------------------------------------------
(* The decision *)

\* Every field is as the operator was told.
LEMMA ConfigAsTold ==
    ASSUME SettingsInv, NEW f \in DOMAIN Env PROVE Told(f) = config[f]
BY DEF SettingsInv, Told

\* A time that is less than two days is brought back into the day.
LEMMA OneDayBack ==
    ASSUME NEW n \in Nat \ {0}, NEW x \in 0 .. 2 * n - 1
    PROVE  x % n = IF x < n THEN x ELSE x - n
<1>1. CASE x < n
  BY <1>1
<1>2. CASE x >= n
  <2>1. x - n \in 0 .. n - 1
    BY <1>2
  <2> QED BY <1>2, <2>1
<1> QED BY <1>1, <1>2

\* isQuietHours refuses every time of the quiet hours, over midnight or not.
LEMMA QuietIsQuiet ==
    ASSUME SettingsInv, clock \in QuietTimes PROVE Quiet(config, clock)
<1> DEFINE s == config["quietStart"]
           e == config["quietEnd"]
<1>1. /\ Day \in Nat \ {0} /\ clock \in 0 .. Day - 1
      /\ s \in 0 .. Day - 1 /\ e \in 0 .. Day - 1
      /\ Told("quietStart") = s /\ Told("quietEnd") = e
  BY ConfigAsTold, RiskAssumption DEF SettingsInv, Times
<1>2. PICK d \in 0 .. Day - 1 : d < (e + Day - s) % Day /\ clock = (s + d) % Day
  BY <1>1 DEF QuietTimes
<1> HIDE DEF s, e
<1>3. (e + Day - s) % Day = IF e + Day - s < Day THEN e + Day - s ELSE e - s
  <2> DEFINE x == e + Day - s
  <2>1. x \in 0 .. 2 * Day - 1
    BY <1>1
  <2>2. x - Day = e - s
    BY <1>1
  <2> HIDE DEF x
  <2>3. x % Day = IF x < Day THEN x ELSE x - Day
    BY <1>1, <2>1, OneDayBack
  <2>4. x % Day = IF x < Day THEN x ELSE e - s
    BY <2>2, <2>3
  <2> QED BY <2>4 DEF x
<1>4. (s + d) % Day = IF s + d < Day THEN s + d ELSE s + d - Day
  <2> DEFINE x == s + d
  <2>1. x \in 0 .. 2 * Day - 1
    BY <1>1
  <2> HIDE DEF x
  <2>2. x % Day = IF x < Day THEN x ELSE x - Day
    BY <1>1, <2>1, OneDayBack
  <2> QED BY <1>1, <2>1, <2>2 DEF x
<1>5. IF s <= e THEN clock >= s /\ clock < e ELSE clock >= s \/ clock < e
  BY <1>1, <1>2, <1>3, <1>4
<1> QED BY <1>5 DEF Quiet, s, e

\* What begins has asked, unless it is one that does not.
LEMMA Begins ==
    ASSUME TypeOK, [Next]_vars, NEW o \in Ops, op[o].pc = "idle", op'[o].pc = "call"
    PROVE  \/ CreateGroup(o) \/ JoinGroup(o) \/ InviteToGroup(o) \/ LeaveGroup(o)
           \/ SendFriendRequest(o) \/ AcceptFriend(o) \/ AutoAccept(o) \/ SendMessage(o)
<1>1. op \in [Ops -> Operation]
  BY DEF TypeOK
<1>2. op' # op
  OBVIOUS
<1>3. PICK q \in Ops :
          \/ CreateGroup(q) \/ JoinGroup(q) \/ InviteToGroup(q) \/ LeaveGroup(q)
          \/ SendFriendRequest(q) \/ AcceptFriend(q) \/ AutoAccept(q) \/ SendMessage(q)
          \/ SendTest(q) \/ TakesEffect(q) \/ Answered(q) \/ Fails(q) \/ Restart
  <2>1. ASSUME Settings /\ UNCHANGED <<zalo, cache, op, get, excused, restarts>> PROVE FALSE
    BY <1>2, <2>1
  <2>2. ASSUME NEW g \in Gets, (\E l \in Lists : Fetch(g, l)) \/ Reads(g) \/ Caches(g)
                                  \/ FetchFails(g)
        PROVE  FALSE
    BY <1>2, <2>2 DEF Fetch, Reads, Caches, FetchFails
  <2>3. ASSUME (\E l \in Lists : Expires(l) \/ Elsewhere(l)) \/ GroupEvent
                   \/ UNCHANGED vars
        PROVE  FALSE
    BY <1>2, <2>3 DEF Expires, Elsewhere, GroupEvent, vars
  <2> QED BY <2>1, <2>2, <2>3 DEF Next
<1>4. ~ Restart
  BY DEF Restart, Idle
<1>5. ASSUME SendTest(q) \/ TakesEffect(q) \/ Answered(q) \/ Fails(q) PROVE FALSE
  <2> DEFINE test == [Idle EXCEPT !.pc = "answer", !.kind = "test"]
  <2>1. \/ op' = [op EXCEPT ![q].pc = "answer"]
        \/ op' = [op EXCEPT ![q] = Idle]
        \/ op' = [op EXCEPT ![q] = test]
    BY <1>5 DEF SendTest, TakesEffect, Answered, Fails
  <2>2. test.pc = "answer" /\ Idle.pc = "idle"
    BY DEF Idle
  <2> HIDE DEF test
  <2> QED BY <1>1, <2>1, <2>2 DEF Operation
<1>6. ASSUME NEW kind, NEW under, GoesAhead(q, kind, under) PROVE q = o
  BY <1>1, <1>6 DEF GoesAhead
<1>7. q = o
  BY <1>3, <1>4, <1>5, <1>6
  DEF CreateGroup, JoinGroup, InviteToGroup, LeaveGroup, SendFriendRequest, AcceptFriend,
      AutoAccept, SendMessage
<1> QED BY <1>3, <1>4, <1>5, <1>7

\* What goes ahead is of the kind, and under the switch, of its handler.
LEMMA GoesAs ==
    ASSUME TypeOK, NEW o \in Ops, NEW kind, NEW under, GoesAhead(o, kind, under)
    PROVE  op'[o].kind = kind /\ op'[o].under = under
BY DEF GoesAhead, TypeOK

\* What is let through names an action whose switch is on, outside the quiet hours but
\* for a test.
LEMMA AllowedUnder ==
    ASSUME config["mode"] = "personal_zca", NEW r, Allowed(config, r, clock)
    PROVE  /\ ~ r.test => ~ Quiet(config, clock)
           /\ Switch(r.action) = "friends" => config["friends"]
           /\ Switch(r.action) = "groups" => config["groups"]
BY DEF Allowed, Stopped, Barred, Switch, FriendActions, GroupActions, PersonalActions, Replies

\* On a personal account an operation is let through outside the quiet hours and with the
\* switch of what it names on, as the operator was last told, whatever the settings were
\* meanwhile; and friends are accepted unasked only with their switch on.
THEOREM DecisionsGoByTheWord ==
    ASSUME Env["mode"] = "personal_zca" PROVE Spec => AdmittedAsTold
<1> DEFINE Admitted ==
        \A o \in Ops :
            op[o].pc = "idle" /\ op'[o].pc = "call" =>
                /\ op'[o].kind \notin {"leave", "accept", "auto"} => clock \notin QuietTimes
                /\ op'[o].under # "none" => Told(op'[o].under)
<1>1. ASSUME SettingsInv, TypeOK, [Next]_vars PROVE Admitted
  <2> SUFFICES ASSUME NEW o \in Ops, op[o].pc = "idle", op'[o].pc = "call"
               PROVE  /\ op'[o].kind \notin {"leave", "accept", "auto"} =>
                             clock \notin QuietTimes
                      /\ op'[o].under # "none" => Told(op'[o].under)
    OBVIOUS
  <2>1. config["mode"] = "personal_zca"
    BY <1>1, RiskAssumption DEF SettingsInv
  <2>2. Told("groups") = config["groups"] /\ Told("friends") = config["friends"]
    BY <1>1, ConfigAsTold, RiskAssumption
  <2>3. ASSUME NEW r, Allowed(config, r, clock), ~ r.test, op'[o].under = Switch(r.action)
        PROVE  /\ clock \notin QuietTimes
               /\ op'[o].under # "none" => Told(op'[o].under)
    <3>1. ~ Quiet(config, clock)
      BY <2>1, <2>3, AllowedUnder
    <3>2. op'[o].under = "none" \/ op'[o].under = "friends" \/ op'[o].under = "groups"
      BY <2>3 DEF Switch
    <3>3. /\ op'[o].under = "friends" => config["friends"]
          /\ op'[o].under = "groups" => config["groups"]
      BY <2>1, <2>3, AllowedUnder
    <3> QED BY <1>1, <2>2, <3>1, <3>2, <3>3, QuietIsQuiet
  <2>4. CASE CreateGroup(o) \/ JoinGroup(o) \/ InviteToGroup(o)
    <3>1. PICK action \in GroupActions :
              Allowed(config, Plain(action), clock) /\ op'[o].under = "groups"
      BY <1>1, <2>4, GoesAs DEF CreateGroup, JoinGroup, InviteToGroup, GroupActions
    <3>2. Switch(action) = "groups"
      BY DEF Switch, GroupActions, FriendActions
    <3>3. Plain(action).action = action /\ ~ Plain(action).test
      BY DEF Plain, Request
    <3> QED BY <2>3, <3>1, <3>2, <3>3
  <2>5. CASE SendFriendRequest(o)
    <3>1. PICK action \in Actions :
              Allowed(config, Plain(action), clock) /\ op'[o].under = Switch(action)
      BY <1>1, <2>5, GoesAs DEF SendFriendRequest
    <3>2. Plain(action).action = action /\ ~ Plain(action).test
      BY DEF Plain, Request
    <3> QED BY <2>3, <3>1, <3>2
  <2>6. CASE SendMessage(o)
    <3>1. PICK action \in Actions, n \in Batches, consent \in BOOLEAN,
               interaction \in BOOLEAN :
              /\ Allowed(config, Request(action, n, consent, interaction, FALSE), clock)
              /\ op'[o].under = Switch(action)
      BY <1>1, <2>6, GoesAs DEF SendMessage
    <3> DEFINE r == Request(action, n, consent, interaction, FALSE)
    <3>2. r.action = action /\ ~ r.test
      BY DEF Request
    <3> HIDE DEF r
    <3>3. Allowed(config, r, clock)
      BY <3>1 DEF r
    <3> QED BY <2>3, <3>1, <3>2, <3>3
  <2>7. CASE LeaveGroup(o) \/ AcceptFriend(o)
    <3>1. op'[o].kind \in {"leave", "accept"} /\ op'[o].under = "none"
      BY <1>1, <2>7, GoesAs DEF LeaveGroup, AcceptFriend
    <3> QED BY <3>1
  <2>8. CASE AutoAccept(o)
    <3>1. op'[o].kind = "auto" /\ op'[o].under = "friends" /\ config["friends"]
      BY <1>1, <2>8, GoesAs DEF AutoAccept
    <3> QED BY <2>2, <3>1
  <2> QED BY <1>1, <2>4, <2>5, <2>6, <2>7, <2>8, Begins
<1>2. ListsInv => TypeOK
  BY DEF ListsInv
<1>3. Init => SettingsInv /\ ListsInv
  BY SettingsInit, ListsInit
<1> QED BY <1>1, <1>2, <1>3, SettingsStep, ListsStep, PTL DEF Spec, AdmittedAsTold
=============================================================================
