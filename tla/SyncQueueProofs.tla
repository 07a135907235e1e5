--------------------------- MODULE SyncQueueProofs ---------------------------
(***************************************************************************)
(* What the sync queue guarantees for every set of rows, any number of     *)
(* passes, entries, faults and starts.                                     *)
(***************************************************************************)
EXTENDS SyncQueue, FiniteSetTheorems, TLAPS

-----------------------------------------------------------------------------
(* The loop of a pass *)

\* What the loop does to its pass: it is over, or awaits the cloud for one of the
\* entries it had before it, with the row as it is.
LEMMA GoOnPass ==
    ASSUME TypeOK, NEW p \in Passes, NEW todo \in SUBSET Work, NEW q, NEW c,
           NEW run, GoOn(p, todo, q, c, run)
    PROVE  /\ pass' = [pass EXCEPT ![p] = pass'[p]]
           /\ \/ pass'[p] = Idle /\ running' = FALSE
              \/ /\ pass'[p].pc \in {"groups", "report"}
                 /\ pass'[p].cur \in todo
                 /\ pass'[p].todo \subseteq todo
                 /\ pass'[p].read = version[pass'[p].cur.item]
                 /\ pass'[p].pc = "groups" => pass'[p].cur.item \in Group
                 /\ enabled /\ running' = run
<1> DEFINE waiting == {w \in todo : Waits(w.item, c)}
<1>1. ASSUME NEW w \in waiting, enabled,
             pass' = [pass EXCEPT ![p] =
                     [pc |-> IF AsksGroups(w.item, c) THEN "groups" ELSE "report",
                      todo |-> {v \in todo : w.id < v.id}, cur |-> w,
                      read |-> version[w.item]]],
             running' = run
      PROVE  /\ pass' = [pass EXCEPT ![p] = pass'[p]]
             /\ pass'[p].pc \in {"groups", "report"}
             /\ pass'[p].cur \in todo
             /\ pass'[p].todo \subseteq todo
             /\ pass'[p].read = version[pass'[p].cur.item]
             /\ pass'[p].pc = "groups" => pass'[p].cur.item \in Group
  BY <1>1 DEF TypeOK, AsksGroups
<1>2. ASSUME pass' = [pass EXCEPT ![p] = Idle]
      PROVE  pass' = [pass EXCEPT ![p] = pass'[p]] /\ pass'[p] = Idle
  BY <1>2 DEF TypeOK
<1> QED BY <1>1, <1>2 DEF GoOn

\* The loop acknowledges no entry of a 1:1 thread whose row is there.
LEMMA GoOnQueue ==
    ASSUME NEW p, NEW todo \in SUBSET Work, NEW q, NEW c, NEW run,
           GoOn(p, todo, q, c, run)
    PROVE  /\ \A k \in DOMAIN queue' : k \in DOMAIN q /\ queue'[k] = q[k]
           /\ \A k \in DOMAIN q :
                 (\A w \in todo : w.id = k => w.item \in Private \cap rows)
                     => k \in DOMAIN queue'
<1> DEFINE waiting == {w \in todo : Waits(w.item, c)}
<1>0. \A w \in todo : w.item \in Private \cap rows => w \in waiting
  BY DEF Waits
<1>1. ASSUME NEW w \in waiting, \A v \in waiting : w.id <= v.id,
             queue' = Without(q, Ids({v \in todo : v.id < w.id}))
      PROVE  /\ \A k \in DOMAIN queue' : k \in DOMAIN q /\ queue'[k] = q[k]
             /\ \A k \in DOMAIN q :
                   (\A v \in todo : v.id = k => v.item \in Private \cap rows)
                       => k \in DOMAIN queue'
  <2>1. /\ DOMAIN queue' = DOMAIN q \ Ids({v \in todo : v.id < w.id})
        /\ \A k \in DOMAIN queue' : queue'[k] = q[k]
    BY <1>1 DEF Without
  <2>2. ASSUME NEW v \in todo, v.id < w.id
        PROVE  v.item \notin Private \cap rows
    <3>1. v.id \in Nat /\ w.id \in Nat
      BY DEF Work
    <3> QED BY <1>0, <1>1, <2>2, <3>1
  <2>3. ASSUME NEW k \in DOMAIN q, k \notin DOMAIN queue'
        PROVE  \E v \in todo : v.id = k /\ v.item \notin Private \cap rows
    BY <2>1, <2>2, <2>3 DEF Ids
  <2> QED BY <2>1, <2>3
<1>2. ASSUME waiting = {}, queue' = Without(q, Ids(todo))
      PROVE  /\ \A k \in DOMAIN queue' : k \in DOMAIN q /\ queue'[k] = q[k]
             /\ \A k \in DOMAIN q :
                   (\A v \in todo : v.id = k => v.item \in Private \cap rows)
                       => k \in DOMAIN queue'
  <2>1. /\ DOMAIN queue' = DOMAIN q \ Ids(todo)
        /\ \A k \in DOMAIN queue' : queue'[k] = q[k]
    BY <1>2 DEF Without
  <2>2. ASSUME NEW k \in DOMAIN q, k \notin DOMAIN queue'
        PROVE  \E v \in todo : v.id = k /\ v.item \notin Private \cap rows
    BY <1>0, <1>2, <2>1, <2>2 DEF Ids
  <2> QED BY <2>1, <2>2
<1>3. CASE queue' = q
  BY <1>3
<1> QED BY <1>1, <1>2, <1>3 DEF GoOn

-----------------------------------------------------------------------------
(* Types *)

\* A part of a well-typed queue is well typed.
LEMMA SubQueueType ==
    ASSUME TypeOK, NEW q, NEW r, q \in [DOMAIN q -> Entry], DOMAIN q \subseteq 1 .. last,
           r = [k \in DOMAIN r |-> r[k]],
           \A k \in DOMAIN r : k \in DOMAIN q /\ r[k] = q[k]
    PROVE  DOMAIN r \subseteq 1 .. last /\ r \in [DOMAIN r -> Entry]
OBVIOUS

\* The loop leaves a queue, whatever it was given.
LEMMA GoOnIsQueue ==
    ASSUME NEW p, NEW todo, NEW q, NEW c, NEW run, GoOn(p, todo, q, c, run),
           q = [k \in DOMAIN q |-> q[k]]
    PROVE  queue' = [k \in DOMAIN queue' |-> queue'[k]]
BY DEF GoOn, Without

LEMMA GoOnType ==
    ASSUME TypeOK, NEW p \in Passes, NEW todo \in SUBSET Work,
           NEW q, q \in [DOMAIN q -> Entry], DOMAIN q \subseteq 1 .. last,
           NEW c, NEW run \in BOOLEAN, GoOn(p, todo, q, c, run)
    PROVE  /\ DOMAIN queue' \subseteq 1 .. last
           /\ queue' \in [DOMAIN queue' -> Entry]
           /\ running' \in BOOLEAN
           /\ pass' \in [Passes -> [pc : {"idle", "groups", "report", "revoked"},
                                    todo : SUBSET Work, cur : Work \cup {NoWork},
                                    read : Nat]]
<1>1. DOMAIN queue' \subseteq 1 .. last /\ queue' \in [DOMAIN queue' -> Entry]
  BY GoOnQueue, GoOnIsQueue, SubQueueType
<1>2. running' \in BOOLEAN
  BY DEF GoOn
<1>3. pass' \in [Passes -> [pc : {"idle", "groups", "report", "revoked"},
                            todo : SUBSET Work, cur : Work \cup {NoWork}, read : Nat]]
  <2>1. ASSUME NEW w \in todo
        PROVE  [pc |-> IF AsksGroups(w.item, c) THEN "groups" ELSE "report",
                todo |-> {v \in todo : w.id < v.id}, cur |-> w,
                read |-> version[w.item]]
                   \in [pc : {"idle", "groups", "report", "revoked"},
                        todo : SUBSET Work, cur : Work \cup {NoWork}, read : Nat]
    BY DEF TypeOK, Work
  <2>2. Idle \in [pc : {"idle", "groups", "report", "revoked"},
                  todo : SUBSET Work, cur : Work \cup {NoWork}, read : Nat]
    BY DEF Idle
  <2> DEFINE Passing == [pc : {"idle", "groups", "report", "revoked"},
                         todo : SUBSET Work, cur : Work \cup {NoWork}, read : Nat]
  <2>3. \E new \in Passing : pass' = [pass EXCEPT ![p] = new]
    <3> HIDE DEF Passing
    <3>1. CASE pass' = [pass EXCEPT ![p] = Idle]
      BY <2>2, <3>1 DEF Passing
    <3>2. ASSUME NEW w \in todo,
                 pass' = [pass EXCEPT ![p] =
                     [pc |-> IF AsksGroups(w.item, c) THEN "groups" ELSE "report",
                      todo |-> {v \in todo : w.id < v.id}, cur |-> w,
                      read |-> version[w.item]]]
          PROVE  \E new \in Passing : pass' = [pass EXCEPT ![p] = new]
      BY <2>1, <3>2 DEF Passing
    <3> QED BY <3>1, <3>2 DEF GoOn
  <2>4. pass \in [Passes -> Passing]
    BY DEF TypeOK
  <2> HIDE DEF Passing
  <2>5. pass' \in [Passes -> Passing]
    BY <2>3, <2>4
  <2> QED BY <2>5 DEF Passing
<1> QED BY <1>1, <1>2, <1>3

\* A queue without some of its entries is well typed.
LEMMA WithoutType ==
    ASSUME TypeOK, NEW ks
    PROVE  /\ Without(queue, ks) \in [DOMAIN Without(queue, ks) -> Entry]
           /\ DOMAIN Without(queue, ks) \subseteq 1 .. last
BY DEF Without, TypeOK

\* The queue the loop goes on with after an entry is done.
LEMMA DoneType ==
    ASSUME TypeOK, NEW p \in Passes, NEW c, Done(p, c)
    PROVE  /\ DOMAIN queue' \subseteq 1 .. last
           /\ queue' \in [DOMAIN queue' -> Entry]
           /\ running' \in BOOLEAN
           /\ pass' \in [Passes -> [pc : {"idle", "groups", "report", "revoked"},
                                    todo : SUBSET Work, cur : Work \cup {NoWork},
                                    read : Nat]]
<1>1. pass[p].todo \in SUBSET Work /\ running \in BOOLEAN
  BY DEF TypeOK
<1>2. CASE enabled
  BY <1>1, <1>2, WithoutType, GoOnType DEF Done
<1>3. CASE ~ enabled
  <2>1. /\ queue \in [DOMAIN queue -> Entry] /\ DOMAIN queue \subseteq 1 .. last
        /\ GoOn(p, pass[p].todo, queue, c, running)
    BY <1>3 DEF Done, TypeOK
  <2> QED BY <1>1, <2>1, GoOnType
<1> QED BY <1>2, <1>3

\* The entries a pass reads, and what a failed request makes of the queue.
LEMMA FetchedType == TypeOK => Fetched \in SUBSET Work
BY DEF TypeOK, Fetched, Work, Entry

LEMMA TypeStep == TypeOK /\ WorkInv /\ [Next]_vars => TypeOK'
<1> SUFFICES ASSUME TypeOK, WorkInv, [Next]_vars PROVE TypeOK'
  OBVIOUS
<1>1. ASSUME NEW p \in Passes, Tick(p) PROVE TypeOK'
  <2>1. Fetched \in SUBSET Work
    BY FetchedType
  <2> QED BY <1>1, <2>1, GoOnType DEF Tick, TypeOK
<1>2. ASSUME NEW p \in Passes, Reported(p) PROVE TypeOK'
  <2>1. got' \in [Items -> SUBSET Nat]
    BY <1>2 DEF Reported, Receives, TypeOK
  <2> QED BY <1>2, <2>1, DoneType DEF Reported, TypeOK
<1>3. ASSUME NEW p \in Passes, NEW gs \in SUBSET Group, GroupsKnown(p, gs) PROVE TypeOK'
  <2>1. CASE pass[p].cur.item \in gs
    <3>1. pass' = [pass EXCEPT ![p].pc = "report"]
      BY <1>3, <2>1 DEF GroupsKnown
    <3>2. pass' \in [Passes -> [pc : {"idle", "groups", "report", "revoked"},
                              todo : SUBSET Work, cur : Work \cup {NoWork},
                              read : Nat]]
      BY <3>1 DEF TypeOK
    <3> QED BY <1>3, <2>1, <3>2 DEF GroupsKnown, TypeOK
  <2>2. CASE pass[p].cur.item \notin gs
    <3>1. Done(p, cache')
      BY <1>3, <2>2 DEF GroupsKnown
    <3> HIDE DEF Done
    <3> QED BY <1>3, <3>1, DoneType DEF GroupsKnown, TypeOK
  <2> QED BY <2>1, <2>2
<1>4. ASSUME NEW p \in Passes, RevocationHandled(p) \/ Revoked(p) PROVE TypeOK'
  <2>1. Idle \in [pc : {"idle", "groups", "report", "revoked"},
                  todo : SUBSET Work, cur : Work \cup {NoWork}, read : Nat]
    BY DEF Idle
  <2>2. [Idle EXCEPT !.pc = "revoked"] \in
            [pc : {"idle", "groups", "report", "revoked"},
             todo : SUBSET Work, cur : Work \cup {NoWork}, read : Nat]
    BY DEF Idle
  <2>3. CASE RevocationHandled(p)
    BY <2>1, <2>3 DEF RevocationHandled, store, TypeOK
  <2>4. CASE Revoked(p)
    BY <2>2, <2>4 DEF Revoked, store, TypeOK
  <2> QED BY <1>4, <2>3, <2>4
<1>5. ASSUME NEW k \in 1 .. MaxActions, RetryDue(k) PROVE TypeOK'
  <2>1. queue' \in [DOMAIN queue' -> Entry] /\ DOMAIN queue' = DOMAIN queue
    BY <1>5 DEF RetryDue, TypeOK, Entry
  <2> QED BY <1>5, <2>1 DEF RetryDue, worker, TypeOK
<1>6. ASSUME NEW i \in Items, Change(i) \/ DeleteRow(i) PROVE TypeOK'
  <2>1. CASE Change(i)
    <3>1. version' \in [Items -> Nat] /\ last' \in Nat
      BY <2>1 DEF Change, Enqueue, TypeOK
    <3>2. DOMAIN queue' = DOMAIN queue \cup {last + 1}
      BY <2>1 DEF Change, Enqueue
    <3>3. queue' \in [DOMAIN queue' -> Entry]
      BY <2>1 DEF Change, Enqueue, TypeOK, Entry
    <3>4. DOMAIN queue' \subseteq 1 .. last'
      BY <2>1, <3>2 DEF Change, Enqueue, TypeOK
    <3> QED BY <2>1, <3>1, <3>3, <3>4 DEF Change, worker, TypeOK
  <2>2. CASE DeleteRow(i)
    BY <2>2 DEF DeleteRow, worker, TypeOK
  <2> QED BY <1>6, <2>1, <2>2
<1>7. ASSUME NEW p \in Passes, Arrives(p) PROVE TypeOK'
  <2>1. got' \in [Items -> SUBSET Nat]
    BY <1>7 DEF Arrives, Receives, TypeOK
  <2> QED BY <1>7, <2>1 DEF Arrives, store, worker, TypeOK
<1>8. CASE Start \/ Stop \/ CacheExpires
  <2>1. CASE Start
    BY <2>1 DEF Start, store, TypeOK
  <2>2. CASE Stop \/ CacheExpires
    BY <2>2 DEF Stop, CacheExpires, store, TypeOK
  <2> QED BY <1>8, <2>1, <2>2
<1>9. ASSUME NEW p \in Passes, Fails(p) PROVE TypeOK'
  <2> DEFINE w == pass[p].cur
             q == [k \in DOMAIN queue |->
                     IF k = w.id
                     THEN [queue[k] EXCEPT !.retries = @ + 1,
                              !.wait = IF w.retries >= MaxRetries THEN "parked"
                                       ELSE "later"]
                     ELSE queue[k]]
  <2>1. DOMAIN q = DOMAIN queue /\ q \in [DOMAIN q -> Entry]
    <3>1. ASSUME NEW k \in DOMAIN queue PROVE q[k] \in Entry
      <4>1. queue[k] \in Entry
        BY DEF TypeOK
      <4> DEFINE e == queue[k]
                 wait == IF w.retries >= MaxRetries THEN "parked" ELSE "later"
      <4>2. e.item \in Items /\ e.retries \in Nat /\ wait \in {"parked", "later"}
        BY <4>1 DEF Entry
      <4>3. CASE k = w.id
        <5>1. q[k] = [item |-> e.item, retries |-> e.retries + 1, wait |-> wait]
          BY <4>1, <4>3 DEF Entry
        <5> HIDE DEF e, wait, q
        <5> QED BY <4>2, <5>1 DEF Entry
      <4>4. CASE k # w.id
        BY <4>1, <4>4
      <4> QED BY <4>3, <4>4
    <3> QED BY <3>1
  <2>2. GoOn(p, pass[p].todo, q, cache, running)
    BY <1>9 DEF Fails
  <2>3. DOMAIN q \subseteq 1 .. last /\ q \in [DOMAIN q -> Entry]
    BY <2>1 DEF TypeOK
  <2>4. UNCHANGED <<rows, version, last, enabled, got, starts>>
    BY <1>9 DEF Fails
  <2>5. pass[p].todo \in SUBSET Work /\ running \in BOOLEAN
    BY DEF TypeOK
  <2> HIDE DEF q
  <2>6. /\ DOMAIN queue' \subseteq 1 .. last
        /\ queue' \in [DOMAIN queue' -> Entry]
        /\ running' \in BOOLEAN
        /\ pass' \in [Passes -> [pc : {"idle", "groups", "report", "revoked"},
                                 todo : SUBSET Work, cur : Work \cup {NoWork},
                                 read : Nat]]
    BY <2>2, <2>3, <2>5, GoOnType
  <2> QED BY <2>4, <2>6 DEF TypeOK
<1>10. CASE Crash
  BY <1>10 DEF Crash, store, Idle, TypeOK
<1>11. CASE UNCHANGED vars
  BY <1>11 DEF vars, store, worker, TypeOK
<1> QED BY <1>1, <1>2, <1>3, <1>4, <1>5, <1>6, <1>7, <1>8, <1>9, <1>10, <1>11
        DEF Next, Pass, Works, Retry, Other, Fault

-----------------------------------------------------------------------------
(* What the passes have in hand *)

\* An id names the same entry for ever, or none any more.
LEMMA NamesKept ==
    ASSUME TypeOK, last' \in Nat, last' >= last,
           \A k \in DOMAIN queue' :
               k \in 1 .. last => k \in DOMAIN queue /\ queue'[k].item = queue[k].item,
           NEW w, Names(w)
    PROVE  Names(w)'
BY DEF Names, TypeOK

\* A step in which every pass goes on with what it had keeps WorkInv.
LEMMA WorkFrame ==
    ASSUME TypeOK, WorkInv, last' \in Nat, last' >= last,
           \A k \in DOMAIN queue' :
               k \in 1 .. last => k \in DOMAIN queue /\ queue'[k].item = queue[k].item,
           \A p \in Passes :
               /\ Awaits(p)' => /\ Awaits(p) /\ pass'[p].cur = pass[p].cur
               /\ pass'[p].pc = "groups" => pass[p].pc = "groups"
               /\ pass'[p].todo \subseteq pass[p].todo
    PROVE  WorkInv'
<1>0. ASSUME NEW w, Names(w) PROVE Names(w)'
  BY <1>0, NamesKept
<1>1. ASSUME NEW p \in Passes
      PROVE  (/\ Awaits(p) => pass[p].cur \in Work /\ Names(pass[p].cur)
              /\ pass[p].pc = "groups" => pass[p].cur.item \in Group
              /\ \A w \in pass[p].todo : Names(w))'
  <2>1. (Awaits(p) => pass[p].cur \in Work /\ Names(pass[p].cur))'
    BY <1>0 DEF WorkInv, Names
  <2>2. (pass[p].pc = "groups" => pass[p].cur.item \in Group)'
    BY DEF WorkInv, Awaits
  <2>3. (\A w \in pass[p].todo : Names(w))'
    BY <1>0 DEF WorkInv, Names
  <2> QED BY <2>1, <2>2, <2>3
<1> QED BY <1>1 DEF WorkInv

\* So does the loop of a pass over entries it has.
LEMMA GoOnWork ==
    ASSUME TypeOK, WorkInv, NEW p \in Passes, NEW todo \in SUBSET Work,
           \A w \in todo : Names(w),
           NEW q, DOMAIN q \subseteq DOMAIN queue,
           \A k \in DOMAIN q : q[k].item = queue[k].item,
           NEW c, NEW run, GoOn(p, todo, q, c, run), UNCHANGED last
    PROVE  WorkInv'
<1>1. \A k \in DOMAIN queue' : k \in DOMAIN queue /\ queue'[k].item = queue[k].item
  BY GoOnQueue
<1>2. ASSUME NEW w, Names(w) PROVE Names(w)'
  BY <1>1, <1>2, NamesKept DEF TypeOK
<1>3. ASSUME NEW d \in Passes, d # p
      PROVE  pass'[d] = pass[d]
  BY <1>3, GoOnPass DEF TypeOK
<1>4. ASSUME NEW d \in Passes
      PROVE  (/\ Awaits(d) => pass[d].cur \in Work /\ Names(pass[d].cur)
              /\ pass[d].pc = "groups" => pass[d].cur.item \in Group
              /\ \A w \in pass[d].todo : Names(w))'
  <2>1. CASE d # p
    BY <1>2, <1>3, <2>1 DEF WorkInv, Awaits, Names
  <2>2. CASE d = p /\ pass'[p] = Idle
    BY <2>2 DEF Idle, Awaits
  <2>3. CASE /\ d = p /\ pass'[p].cur \in todo /\ pass'[p].todo \subseteq todo
             /\ pass'[p].pc = "groups" => pass'[p].cur.item \in Group
    BY <1>2, <2>3 DEF Names
  <2> QED BY <2>1, <2>2, <2>3, GoOnPass
<1> QED BY <1>4 DEF WorkInv

\* The queue the loop goes on with after an entry is done is a part of the queue.
LEMMA DoneWork ==
    ASSUME TypeOK, WorkInv, NEW p \in Passes, NEW c, Done(p, c), UNCHANGED last
    PROVE  WorkInv'
<1> DEFINE q == IF enabled THEN Without(queue, {pass[p].cur.id}) ELSE queue
<1>1. DOMAIN q \subseteq DOMAIN queue /\ \A k \in DOMAIN q : q[k].item = queue[k].item
  BY DEF Without
<1>2. GoOn(p, pass[p].todo, q, c, running)
  BY DEF Done
<1>3. pass[p].todo \in SUBSET Work /\ \A w \in pass[p].todo : Names(w)
  BY DEF TypeOK, WorkInv
<1> HIDE DEF q
<1> QED BY <1>1, <1>2, <1>3, GoOnWork

\* What is fetched is what the queue has.
LEMMA FetchedNames == TypeOK => \A w \in Fetched : Names(w)
BY DEF TypeOK, Fetched, Names

\* What a failed request makes of the queue: no entry is lost.
FailedQueue(p) ==
    [k \in DOMAIN queue |->
        IF k = pass[p].cur.id
        THEN [queue[k] EXCEPT !.retries = @ + 1,
                              !.wait = IF pass[p].cur.retries >= MaxRetries
                                       THEN "parked" ELSE "later"]
        ELSE queue[k]]

LEMMA FailedItems ==
    ASSUME TypeOK, NEW p
    PROVE  /\ DOMAIN FailedQueue(p) = DOMAIN queue
           /\ \A k \in DOMAIN queue : FailedQueue(p)[k].item = queue[k].item
<1>1. DOMAIN FailedQueue(p) = DOMAIN queue
  BY DEF FailedQueue
<1>2. ASSUME NEW k \in DOMAIN queue PROVE FailedQueue(p)[k].item = queue[k].item
  <2>1. queue[k] \in Entry
    BY DEF TypeOK
  <2> QED BY <2>1 DEF FailedQueue, Entry
<1> QED BY <1>1, <1>2

LEMMA WorkStep == TypeOK /\ WorkInv /\ [Next]_vars => WorkInv'
<1> SUFFICES ASSUME TypeOK, WorkInv, [Next]_vars PROVE WorkInv'
  OBVIOUS
<1>0. last \in Nat /\ last >= last
  BY DEF TypeOK
<1>1. ASSUME NEW p \in Passes, Tick(p) PROVE WorkInv'
  BY <1>1, FetchedType, FetchedNames, GoOnWork DEF Tick
<1>2. ASSUME NEW p \in Passes, Reported(p) PROVE WorkInv'
  BY <1>2, DoneWork DEF Reported
<1>3. ASSUME NEW p \in Passes, NEW gs \in SUBSET Group, GroupsKnown(p, gs) PROVE WorkInv'
  <2>1. CASE pass[p].cur.item \in gs
    <3>1. /\ pass[p].pc = "groups" /\ pass' = [pass EXCEPT ![p].pc = "report"]
          /\ UNCHANGED <<queue, last>>
      BY <1>3, <2>1 DEF GroupsKnown
    <3>2. \A d \in Passes : /\ pass'[d].cur = pass[d].cur /\ pass'[d].todo = pass[d].todo
                            /\ d # p => pass'[d] = pass[d]
                            /\ d = p => pass'[d].pc = "report"
      BY <3>1 DEF TypeOK
    <3>3. \A d \in Passes : /\ Awaits(d)' => Awaits(d)
                            /\ pass'[d].pc = "groups" => pass[d].pc = "groups"
      BY <3>1, <3>2 DEF Awaits
    <3> QED BY <1>0, <3>1, <3>2, <3>3, WorkFrame
  <2>2. CASE pass[p].cur.item \notin gs
    BY <1>3, <2>2, DoneWork DEF GroupsKnown
  <2> QED BY <2>1, <2>2
<1>4. ASSUME NEW p \in Passes, RevocationHandled(p) \/ Revoked(p) PROVE WorkInv'
  <2>1. /\ UNCHANGED <<queue, last>>
        /\ \A d \in Passes : d # p => pass'[d] = pass[d]
        /\ pass'[p].todo = {} /\ pass'[p].pc \in {"idle", "revoked"}
    BY <1>4 DEF RevocationHandled, Revoked, store, Idle, TypeOK
  <2>2. \A d \in Passes : /\ Awaits(d)' => Awaits(d) /\ pass'[d].cur = pass[d].cur
                          /\ pass'[d].pc = "groups" => pass[d].pc = "groups"
                          /\ pass'[d].todo \subseteq pass[d].todo
    BY <2>1 DEF Awaits
  <2> QED BY <1>0, <2>1, <2>2, WorkFrame
<1>5. ASSUME NEW k \in 1 .. MaxActions, RetryDue(k) PROVE WorkInv'
  <2>1. \A j \in DOMAIN queue' : j \in DOMAIN queue /\ queue'[j].item = queue[j].item
    BY <1>5 DEF RetryDue, TypeOK, Entry
  <2> QED BY <1>0, <1>5, <2>1, WorkFrame DEF RetryDue, worker, Awaits
<1>6. ASSUME NEW i \in Items, Change(i) PROVE WorkInv'
  <2>1. /\ last' = last + 1 /\ UNCHANGED pass
        /\ \A k \in DOMAIN queue' :
              k \in 1 .. last => k \in DOMAIN queue /\ queue'[k] = queue[k]
    BY <1>6 DEF Change, Enqueue, worker, TypeOK
  <2> QED BY <1>0, <2>1, WorkFrame DEF Awaits
<1>7. ASSUME NEW p \in Passes, Fails(p) PROVE WorkInv'
  <2>1. GoOn(p, pass[p].todo, FailedQueue(p), cache, running) /\ UNCHANGED last
    BY <1>7 DEF Fails, FailedQueue
  <2>2. pass[p].todo \in SUBSET Work /\ \A w \in pass[p].todo : Names(w)
    BY DEF TypeOK, WorkInv
  <2> QED BY <2>1, <2>2, FailedItems, GoOnWork
<1>8. CASE Start \/ Stop \/ CacheExpires \/ (\E i \in Items : DeleteRow(i))
           \/ (\E p \in Passes : Arrives(p))
  <2>1. UNCHANGED <<queue, last, pass>>
    BY <1>8 DEF Start, Stop, CacheExpires, DeleteRow, Arrives, store, worker
  <2> QED BY <1>0, <2>1, WorkFrame DEF Awaits
<1>9. CASE Crash
  BY <1>9 DEF Crash, Idle, WorkInv, Awaits
<1>10. CASE UNCHANGED vars
  BY <1>0, <1>10, WorkFrame DEF vars, store, worker, Awaits
<1> QED BY <1>1, <1>2, <1>3, <1>4, <1>5, <1>6, <1>7, <1>8, <1>9, <1>10
        DEF Next, Pass, Works, Retry, Other, Fault

\* Every variable keeps its type, and what a pass has in hand its entry.
THEOREM TypeCorrect == Spec => [](TypeOK /\ WorkInv)
<1>1. ASSUME Init PROVE TypeOK /\ WorkInv
  <2>1. Idle \in [pc : {"idle", "groups", "report", "revoked"},
                  todo : SUBSET Work, cur : Work \cup {NoWork}, read : Nat]
    BY DEF Idle
  <2>2. /\ version \in [Items -> Nat]
        /\ last \in Nat /\ starts \in Nat /\ rows \subseteq Items
        /\ enabled \in BOOLEAN /\ running \in BOOLEAN
    BY <1>1 DEF Init
  <2>g. got \in [Items -> SUBSET Nat]
    <3>1. {0} \in SUBSET Nat
      OBVIOUS
    <3> QED BY <1>1, <3>1 DEF Init
  <2>3. DOMAIN queue = {} /\ queue \in [DOMAIN queue -> Entry]
    BY <1>1 DEF Init
  <2>4. TypeOK
    BY <1>1, <2>1, <2>2, <2>g, <2>3 DEF Init, TypeOK
  <2>5. WorkInv
    BY <1>1 DEF Init, WorkInv, Awaits, Idle
  <2> QED BY <2>4, <2>5
<1> QED BY <1>1, TypeStep, WorkStep, PTL DEF Spec

-----------------------------------------------------------------------------
(* What is acknowledged *)

\* A step in which the passes go on with what they had, the cloud learns and no entry
\* is lost keeps AckInv.
LEMMA AckFrame ==
    ASSUME TypeOK, AckInv, rows' \subseteq rows, UNCHANGED version,
           \A i \in Items : got[i] \subseteq got'[i],
           \A k \in DOMAIN queue : k \in DOMAIN queue' /\ queue'[k].item = queue[k].item,
           \A p \in Passes :
               Awaits(p)' => /\ Awaits(p) /\ pass'[p].cur = pass[p].cur
                             /\ pass'[p].read = pass[p].read
    PROVE  AckInv'
<1> SUFFICES ASSUME NEW i \in Private \cap rows', version'[i] \notin got'[i]
             PROVE  \E k \in DOMAIN queue' :
                        /\ queue'[k].item = i
                        /\ \A p \in Passes :
                              Awaits(p)' /\ pass'[p].cur.id = k =>
                                  pass'[p].read = version'[i]
  BY DEF AckInv
<1>1. i \in Private \cap rows /\ version[i] \notin got[i]
  BY DEF TypeOK, Items
<1>2. PICK k \in DOMAIN queue :
          /\ queue[k].item = i
          /\ \A p \in Passes :
                Awaits(p) /\ pass[p].cur.id = k => pass[p].read = version[i]
  BY <1>1 DEF AckInv
<1> QED BY <1>2

\* The loop of a pass goes on after an entry is gone only if it was not needed: its
\* row is not that of a 1:1 thread, or the cloud has it as it was read.
LEMMA GoOnAck ==
    ASSUME TypeOK, WorkInv, AckInv, NEW p \in Passes, NEW todo \in SUBSET Work,
           \A w \in todo : Names(w),
           NEW q, DOMAIN q \subseteq DOMAIN queue,
           \A k \in DOMAIN q : q[k].item = queue[k].item,
           \A i \in Items : got[i] \subseteq got'[i],
           \A k \in DOMAIN queue :
               \/ k \in DOMAIN q
               \/ queue[k].item \notin Private
               \/ /\ Awaits(p) /\ k = pass[p].cur.id
                  /\ pass[p].read \in got'[queue[k].item],
           NEW c, NEW run, GoOn(p, todo, q, c, run), UNCHANGED <<rows, version, last>>
    PROVE  AckInv'
<1> SUFFICES ASSUME NEW i \in Private \cap rows, version[i] \notin got'[i]
             PROVE  \E k \in DOMAIN queue' :
                        /\ queue'[k].item = i
                        /\ \A d \in Passes :
                              Awaits(d)' /\ pass'[d].cur.id = k =>
                                  pass'[d].read = version[i]
  BY DEF AckInv
<1>1. i \in Items /\ version[i] \notin got[i]
  BY DEF TypeOK, Items
<1>2. PICK k \in DOMAIN queue :
          /\ queue[k].item = i
          /\ \A d \in Passes :
                Awaits(d) /\ pass[d].cur.id = k => pass[d].read = version[i]
  BY <1>1 DEF AckInv
<1>3. k \in DOMAIN q
  BY <1>1, <1>2
<1>4. \A w \in todo : w.id = k => w.item = i
  BY <1>2 DEF Names
<1>5. k \in DOMAIN queue' /\ queue'[k] = q[k]
  BY <1>3, <1>4, GoOnQueue
<1>6. queue'[k].item = i
  BY <1>2, <1>3, <1>5
<1>7. ASSUME NEW d \in Passes, Awaits(d)', pass'[d].cur.id = k
      PROVE  pass'[d].read = version[i]
  <2>1. CASE d # p
    <3>1. pass'[d] = pass[d]
      BY <2>1, GoOnPass DEF TypeOK
    <3> QED BY <1>2, <1>7, <3>1 DEF Awaits
  <2>2. CASE d = p
    <3>1. pass'[p] # Idle
      BY <1>7, <2>2 DEF Awaits, Idle
    <3>2. pass'[p].cur \in todo /\ pass'[p].read = version[pass'[p].cur.item]
      BY <3>1, GoOnPass
    <3> QED BY <1>4, <1>7, <2>2, <3>2
  <2> QED BY <2>1, <2>2
<1> QED BY <1>5, <1>6, <1>7

\* A report brings the cloud what the pass has read.
LEMMA ReceivesGot ==
    ASSUME TypeOK, WorkInv, NEW p \in Passes, Awaits(p), Receives(p)
    PROVE  /\ \A i \in Items : got[i] \subseteq got'[i]
           /\ pass[p].read \in got'[pass[p].cur.item]
<1>1. pass[p].cur.item \in Items
  BY DEF TypeOK, WorkInv, Work
<1> QED BY <1>1 DEF Receives, TypeOK

\* An entry is acknowledged after a report of its row, or without one for a group.
LEMMA DoneAck ==
    ASSUME TypeOK, WorkInv, AckInv, NEW p \in Passes, Awaits(p),
           NEW c, Done(p, c), UNCHANGED <<rows, version, last>>,
           \A i \in Items : got[i] \subseteq got'[i],
           \/ pass[p].cur.item \notin Private
           \/ pass[p].read \in got'[pass[p].cur.item]
    PROVE  AckInv'
<1> DEFINE q == IF enabled THEN Without(queue, {pass[p].cur.id}) ELSE queue
<1>1. /\ DOMAIN q \subseteq DOMAIN queue /\ \A k \in DOMAIN q : q[k].item = queue[k].item
      /\ \A k \in DOMAIN queue : k \in DOMAIN q \/ k = pass[p].cur.id
  BY DEF Without
<1>2. GoOn(p, pass[p].todo, q, c, running)
  BY DEF Done
<1>3. pass[p].todo \in SUBSET Work /\ \A w \in pass[p].todo : Names(w)
  BY DEF TypeOK, WorkInv
<1>4. pass[p].cur.id \in DOMAIN queue =>
          queue[pass[p].cur.id].item = pass[p].cur.item
  BY DEF WorkInv, Names
<1>5. \A k \in DOMAIN queue :
          \/ k \in DOMAIN q
          \/ queue[k].item \notin Private
          \/ /\ Awaits(p) /\ k = pass[p].cur.id
             /\ pass[p].read \in got'[queue[k].item]
  BY <1>1, <1>4
<1> HIDE DEF q
<1> QED BY <1>1, <1>2, <1>3, <1>5, GoOnAck

LEMMA AckStep == TypeOK /\ WorkInv /\ AckInv /\ [Next]_vars => AckInv'
<1> SUFFICES ASSUME TypeOK, WorkInv, AckInv, [Next]_vars PROVE AckInv'
  OBVIOUS
<1>0. \A i \in Items : got[i] \subseteq got[i]
  BY DEF TypeOK
<1>1. ASSUME NEW p \in Passes, Tick(p) PROVE AckInv'
  BY <1>0, <1>1, FetchedType, FetchedNames, GoOnAck DEF Tick
<1>2. ASSUME NEW p \in Passes, Reported(p) PROVE AckInv'
  BY <1>2, ReceivesGot, DoneAck DEF Reported, Awaits
<1>3. ASSUME NEW p \in Passes, NEW gs \in SUBSET Group, GroupsKnown(p, gs) PROVE AckInv'
  <2>1. CASE pass[p].cur.item \in gs
    <3>1. /\ pass[p].pc = "groups" /\ pass' = [pass EXCEPT ![p].pc = "report"]
          /\ UNCHANGED <<queue, rows, version, got>>
      BY <1>3, <2>1 DEF GroupsKnown
    <3>2. \A d \in Passes : /\ Awaits(d)' => Awaits(d)
                            /\ pass'[d].cur = pass[d].cur /\ pass'[d].read = pass[d].read
      BY <3>1 DEF TypeOK, Awaits
    <3> QED BY <1>0, <3>1, <3>2, AckFrame
  <2>2. CASE pass[p].cur.item \notin gs
    <3>1. pass[p].cur.item \notin Private /\ Awaits(p)
      BY <1>3, SyncAssumption DEF GroupsKnown, WorkInv, Awaits
    <3> QED BY <1>0, <1>3, <2>2, <3>1, DoneAck DEF GroupsKnown
  <2> QED BY <2>1, <2>2
<1>4. ASSUME NEW p \in Passes, RevocationHandled(p) \/ Revoked(p) PROVE AckInv'
  <2>1. /\ UNCHANGED <<queue, rows, version, got>>
        /\ \A d \in Passes : d # p => pass'[d] = pass[d]
        /\ pass'[p].pc \in {"idle", "revoked"}
    BY <1>4 DEF RevocationHandled, Revoked, store, Idle, TypeOK
  <2>2. \A d \in Passes : Awaits(d)' => /\ Awaits(d) /\ pass'[d].cur = pass[d].cur
                                        /\ pass'[d].read = pass[d].read
    BY <2>1 DEF Awaits
  <2> QED BY <1>0, <2>1, <2>2, AckFrame
<1>5. ASSUME NEW k \in 1 .. MaxActions, RetryDue(k) PROVE AckInv'
  <2>1. \A j \in DOMAIN queue : j \in DOMAIN queue' /\ queue'[j].item = queue[j].item
    BY <1>5 DEF RetryDue, TypeOK, Entry
  <2> QED BY <1>0, <1>5, <2>1, AckFrame DEF RetryDue, worker, Awaits
<1>6. ASSUME NEW i \in Items, Change(i) PROVE AckInv'
  <2>1. /\ version' = [version EXCEPT ![i] = @ + 1] /\ UNCHANGED <<rows, got, pass>>
        /\ DOMAIN queue' = DOMAIN queue \cup {last + 1}
        /\ queue'[last + 1].item = i
        /\ \A k \in DOMAIN queue : k # last + 1 => queue'[k] = queue[k]
    BY <1>6 DEF Change, Enqueue, worker
  <2>2. last + 1 \notin DOMAIN queue /\ last + 1 \notin 1 .. last
    BY DEF TypeOK
  <2>3. \A p \in Passes : Awaits(p) => pass[p].cur.id # last + 1
    BY <2>2 DEF WorkInv, Names
  <2>4. ASSUME NEW j \in Private \cap rows, version'[j] \notin got[j]
        PROVE  \E k \in DOMAIN queue' :
                   /\ queue'[k].item = j
                   /\ \A p \in Passes :
                         Awaits(p) /\ pass[p].cur.id = k => pass[p].read = version'[j]
    <3>1. CASE j = i
      BY <2>1, <2>3, <3>1
    <3>2. CASE j # i
      <4>1. version'[j] = version[j]
        BY <2>1, <3>2 DEF TypeOK
      <4>2. PICK k \in DOMAIN queue :
                /\ queue[k].item = j
                /\ \A p \in Passes :
                      Awaits(p) /\ pass[p].cur.id = k => pass[p].read = version[j]
        BY <2>4, <4>1 DEF AckInv
      <4> QED BY <2>1, <2>2, <4>1, <4>2
    <3> QED BY <3>1, <3>2
  <2> QED BY <2>1, <2>4 DEF AckInv, Awaits
<1>7. ASSUME NEW p \in Passes, Fails(p) PROVE AckInv'
  <2>1. /\ GoOn(p, pass[p].todo, FailedQueue(p), cache, running)
        /\ UNCHANGED <<rows, version, last, got>>
    BY <1>7 DEF Fails, FailedQueue
  <2>2. pass[p].todo \in SUBSET Work /\ \A w \in pass[p].todo : Names(w)
    BY DEF TypeOK, WorkInv
  <2> QED BY <1>0, <2>1, <2>2, FailedItems, GoOnAck
<1>8. ASSUME NEW p \in Passes, Arrives(p) PROVE AckInv'
  <2>1. \A i \in Items : got[i] \subseteq got'[i]
    BY <1>8, ReceivesGot DEF Arrives, Awaits
  <2> QED BY <1>8, <2>1, AckFrame DEF Arrives, store, worker, Awaits
<1>9. CASE Start \/ Stop \/ CacheExpires \/ (\E i \in Items : DeleteRow(i))
  <2>1. UNCHANGED <<version, queue, got, pass>> /\ rows' \subseteq rows
    BY <1>9 DEF Start, Stop, CacheExpires, DeleteRow, store, worker
  <2> QED BY <1>0, <2>1, AckFrame DEF Awaits
<1>10. CASE Crash
  <2>1. UNCHANGED <<version, queue, got, rows>> /\ \A p \in Passes : ~ Awaits(p)'
    BY <1>10 DEF Crash, store, Idle, Awaits
  <2> QED BY <1>0, <2>1, AckFrame
<1>11. CASE UNCHANGED vars
  BY <1>0, <1>11, AckFrame DEF vars, store, worker, Awaits
<1> QED BY <1>1, <1>2, <1>3, <1>4, <1>5, <1>6, <1>7, <1>8, <1>9, <1>10, <1>11
        DEF Next, Pass, Works, Retry, Other, Fault

\* No change of a 1:1 thread is acknowledged for a state of the row that came after it
\* was read, however many passes overlap and whatever fails, stops or dies.
THEOREM NothingIsForgotten == Spec => []AckedIsDelivered
<1>1. ASSUME Init PROVE AckInv
  <2>1. \A i \in Items : version[i] = 0 /\ got[i] = {0}
    BY <1>1 DEF Init
  <2> QED BY <2>1 DEF AckInv, Items
<1>2. AckInv => AckedIsDelivered
  BY DEF AckInv, AckedIsDelivered
<1> QED BY <1>1, <1>2, TypeCorrect, AckStep, PTL DEF Spec

-----------------------------------------------------------------------------
(* The contract *)

\* A step in which rows only move on, the cloud learns no more than there is, and a
\* pass keeps what it has in hand or reads a row anew, keeps GotInv.
LEMMA GotFrame ==
    ASSUME TypeOK, WorkInv, GotInv,
           \A i \in Items : version'[i] \in Nat /\ version'[i] >= version[i],
           \A i \in Items : got'[i] \subseteq 0 .. version[i],
           \A p \in Passes :
               Awaits(p)' =>
                   \/ Awaits(p) /\ pass'[p].cur = pass[p].cur /\ pass'[p].read = pass[p].read
                   \/ /\ pass'[p].cur.item \in Items
                      /\ pass'[p].read = version[pass'[p].cur.item]
    PROVE  GotInv'
<1>0. version \in [Items -> Nat] /\ \A p \in Passes : pass[p].read \in Nat
  BY DEF TypeOK
<1>1. ASSUME NEW i \in Items PROVE got'[i] \subseteq 0 .. version'[i]
  BY <1>0
<1>2. ASSUME NEW p \in Passes, Awaits(p)'
      PROVE  pass'[p].read <= version'[pass'[p].cur.item]
  <2>1. CASE Awaits(p) /\ pass'[p].cur = pass[p].cur /\ pass'[p].read = pass[p].read
    <3>1. pass[p].cur.item \in Items
      BY <2>1 DEF WorkInv, Work
    <3>2. pass[p].read <= version[pass[p].cur.item]
      BY <2>1 DEF GotInv
    <3> QED BY <1>0, <2>1, <3>1, <3>2
  <2>2. CASE /\ pass'[p].cur.item \in Items
             /\ pass'[p].read = version[pass'[p].cur.item]
    BY <1>0, <2>2
  <2> QED BY <1>2, <2>1, <2>2
<1> QED BY <1>1, <1>2 DEF GotInv, Awaits

\* The loop of a pass keeps GotInv.
LEMMA GoOnGot ==
    ASSUME TypeOK, WorkInv, GotInv, NEW p \in Passes, NEW todo \in SUBSET Work,
           NEW q, NEW c, NEW run, GoOn(p, todo, q, c, run), UNCHANGED version,
           \A i \in Items : got'[i] \subseteq 0 .. version[i]
    PROVE  GotInv'
<1>1. \A i \in Items : version'[i] \in Nat /\ version'[i] >= version[i]
  BY DEF TypeOK
<1>2. ASSUME NEW d \in Passes, Awaits(d)'
      PROVE  \/ Awaits(d) /\ pass'[d].cur = pass[d].cur /\ pass'[d].read = pass[d].read
             \/ /\ pass'[d].cur.item \in Items
                /\ pass'[d].read = version[pass'[d].cur.item]
  <2>1. CASE d # p
    <3>1. pass'[d] = pass[d]
      BY <2>1, GoOnPass DEF TypeOK
    <3> QED BY <1>2, <3>1 DEF Awaits
  <2>2. CASE d = p
    <3>1. pass'[p] # Idle
      BY <1>2, <2>2 DEF Awaits, Idle
    <3>2. pass'[p].cur \in todo /\ pass'[p].read = version[pass'[p].cur.item]
      BY <3>1, GoOnPass
    <3> QED BY <2>2, <3>2 DEF Work
  <2> QED BY <2>1, <2>2
<1> QED BY <1>1, <1>2, GotFrame

\* The cloud is brought one item.
Learns ==
    \E i \in Items : \E v \in 0 .. version[i] : got' = [got EXCEPT ![i] = @ \cup {v}]

\* A report brings the cloud a state the row was in.
LEMMA ReceivesKnown ==
    ASSUME TypeOK, WorkInv, GotInv, NEW p \in Passes, Awaits(p), Receives(p)
    PROVE  /\ Learns
           /\ \A i \in Items : got'[i] \subseteq 0 .. version[i]
<1> DEFINE i == pass[p].cur.item
           v == pass[p].read
<1>1. i \in Items /\ v \in Nat /\ version[i] \in Nat
  BY DEF TypeOK, WorkInv, Work
<1>2. v \in 0 .. version[i]
  BY <1>1 DEF GotInv
<1>3. got' = [got EXCEPT ![i] = @ \cup {v}]
  BY DEF Receives
<1> HIDE DEF i, v
<1>4. \A j \in Items : got'[j] \subseteq 0 .. version[j]
  BY <1>1, <1>2, <1>3 DEF TypeOK, GotInv
<1> QED BY <1>1, <1>2, <1>3, <1>4 DEF Learns

LEMMA GotStep == TypeOK /\ WorkInv /\ GotInv /\ [Next]_vars => GotInv'
<1> SUFFICES ASSUME TypeOK, WorkInv, GotInv, [Next]_vars PROVE GotInv'
  OBVIOUS
<1>0. /\ \A i \in Items : got[i] \subseteq 0 .. version[i]
      /\ \A i \in Items : version[i] \in Nat /\ version[i] >= version[i]
  BY DEF TypeOK, GotInv
<1>t. \A p \in Passes : pass[p].todo \in SUBSET Work
  BY DEF TypeOK
<1>1. ASSUME NEW p \in Passes, Tick(p) PROVE GotInv'
  BY <1>0, <1>1, FetchedType, GoOnGot DEF Tick
<1>2. ASSUME NEW p \in Passes, Reported(p) PROVE GotInv'
  <2>1. \A i \in Items : got'[i] \subseteq 0 .. version[i]
    BY <1>2, ReceivesKnown DEF Reported, Awaits
  <2> QED BY <1>2, <1>t, <2>1, GoOnGot DEF Reported, Done
<1>3. ASSUME NEW p \in Passes, NEW gs \in SUBSET Group, GroupsKnown(p, gs) PROVE GotInv'
  <2>1. CASE pass[p].cur.item \in gs
    <3>1. /\ pass[p].pc = "groups" /\ pass' = [pass EXCEPT ![p].pc = "report"]
          /\ UNCHANGED <<version, got>>
      BY <1>3, <2>1 DEF GroupsKnown
    <3>2. \A d \in Passes : /\ Awaits(d)' => Awaits(d)
                            /\ pass'[d].cur = pass[d].cur /\ pass'[d].read = pass[d].read
      BY <3>1 DEF TypeOK, Awaits
    <3> QED BY <1>0, <3>1, <3>2, GotFrame
  <2>2. CASE pass[p].cur.item \notin gs
    BY <1>0, <1>3, <1>t, <2>2, GoOnGot DEF GroupsKnown, Done
  <2> QED BY <2>1, <2>2
<1>4. ASSUME NEW p \in Passes, RevocationHandled(p) \/ Revoked(p) PROVE GotInv'
  <2>1. /\ UNCHANGED <<version, got>>
        /\ \A d \in Passes : d # p => pass'[d] = pass[d]
        /\ pass'[p].pc \in {"idle", "revoked"}
    BY <1>4 DEF RevocationHandled, Revoked, store, Idle, TypeOK
  <2>2. \A d \in Passes : Awaits(d)' => /\ Awaits(d) /\ pass'[d].cur = pass[d].cur
                                        /\ pass'[d].read = pass[d].read
    BY <2>1 DEF Awaits
  <2> QED BY <1>0, <2>1, <2>2, GotFrame
<1>5. ASSUME NEW i \in Items, Change(i) PROVE GotInv'
  <2>1. version' = [version EXCEPT ![i] = @ + 1] /\ UNCHANGED <<got, pass>>
    BY <1>5 DEF Change, worker
  <2>2. \A j \in Items : version'[j] \in Nat /\ version'[j] >= version[j]
    BY <2>1 DEF TypeOK
  <2> QED BY <1>0, <2>1, <2>2, GotFrame DEF Awaits
<1>6. ASSUME NEW p \in Passes, Fails(p) PROVE GotInv'
  <2>1. /\ GoOn(p, pass[p].todo, FailedQueue(p), cache, running)
        /\ UNCHANGED <<version, got>>
    BY <1>6 DEF Fails, FailedQueue
  <2> QED BY <1>0, <1>t, <2>1, GoOnGot
<1>7. ASSUME NEW p \in Passes, Arrives(p) PROVE GotInv'
  <2>1. \A i \in Items : got'[i] \subseteq 0 .. version[i]
    BY <1>7, ReceivesKnown DEF Arrives, Awaits
  <2> QED BY <1>0, <1>7, <2>1, GotFrame DEF Arrives, store, worker, Awaits
<1>8. CASE \/ Start \/ Stop \/ CacheExpires \/ (\E i \in Items : DeleteRow(i))
           \/ \E k \in 1 .. MaxActions : RetryDue(k)
  <2>1. UNCHANGED <<version, got, pass>>
    BY <1>8 DEF Start, Stop, CacheExpires, DeleteRow, RetryDue, store, worker
  <2> QED BY <1>0, <2>1, GotFrame DEF Awaits
<1>9. CASE Crash
  <2>1. UNCHANGED <<version, got>> /\ \A p \in Passes : ~ Awaits(p)'
    BY <1>9 DEF Crash, store, Idle, Awaits
  <2> QED BY <1>0, <2>1, GotFrame
<1>10. CASE UNCHANGED vars
  BY <1>0, <1>10, GotFrame DEF vars, store, worker, Awaits
<1> QED BY <1>1, <1>2, <1>3, <1>4, <1>5, <1>6, <1>7, <1>8, <1>9, <1>10
        DEF Next, Pass, Works, Retry, Other, Fault

\* A step that adds no entry, in which one item at most arrives, settles: an item of a
\* 1:1 thread without an entry has arrived as it is.
LEMMA Settles ==
    ASSUME TypeOK, AckInv', UNCHANGED <<rows, version>>,
           \A k \in DOMAIN queue' : k \in DOMAIN queue /\ queue'[k].item = queue[k].item,
           UNCHANGED got \/ Learns
    PROVE  Contract!Settle
<1>1. Owed' \subseteq Owed
  BY DEF Owed
<1>2. ASSUME NEW i \in (Owed \ Owed') \cap Private \cap rows
      PROVE  version[i] \in got'[i]
  <2>1. \A k \in DOMAIN queue' : queue'[k].item # i
    BY <1>2 DEF Owed
  <2> QED BY <1>2, <2>1 DEF AckInv
<1> QED BY <1>1, <1>2 DEF Contract!Settle, Learns

\* So does the loop of a pass.
LEMMA GoOnSettles ==
    ASSUME TypeOK, AckInv', UNCHANGED <<rows, version>>,
           NEW p, NEW todo \in SUBSET Work, NEW q, NEW c, NEW run,
           GoOn(p, todo, q, c, run),
           DOMAIN q \subseteq DOMAIN queue,
           \A k \in DOMAIN q : q[k].item = queue[k].item,
           UNCHANGED got \/ Learns
    PROVE  Contract!Settle
<1>1. \A k \in DOMAIN queue' : k \in DOMAIN q /\ queue'[k] = q[k]
  BY GoOnQueue
<1> QED BY <1>1, Settles

LEMMA ContractStep ==
    TypeOK /\ WorkInv /\ AckInv /\ GotInv /\ [Next]_vars => [Contract!Next]_(Contract!vars)
<1> SUFFICES ASSUME TypeOK, WorkInv, AckInv, GotInv, [Next]_vars
             PROVE  Contract!Next \/ UNCHANGED Contract!vars
  OBVIOUS
<1>a. AckInv' /\ GotInv'
  BY AckStep, GotStep
<1>t. \A p \in Passes : pass[p].todo \in SUBSET Work
  BY DEF TypeOK
<1>d. ASSUME NEW p \in Passes, NEW c, Done(p, c), UNCHANGED <<rows, version>>,
             UNCHANGED got \/ Learns
      PROVE  Contract!Settle
  <2> DEFINE q == IF enabled THEN Without(queue, {pass[p].cur.id}) ELSE queue
  <2>1. DOMAIN q \subseteq DOMAIN queue /\ \A k \in DOMAIN q : q[k].item = queue[k].item
    BY DEF Without
  <2>2. GoOn(p, pass[p].todo, q, c, running)
    BY <1>d DEF Done
  <2> HIDE DEF q
  <2> QED BY <1>a, <1>d, <1>t, <2>1, <2>2, GoOnSettles
<1>1. ASSUME NEW p \in Passes, Tick(p) PROVE Contract!Settle
  <2>1. GoOn(p, Fetched, queue, cache, TRUE) /\ UNCHANGED <<rows, version, got>>
    BY <1>1 DEF Tick
  <2> QED BY <1>a, <2>1, FetchedType, GoOnSettles
<1>2. ASSUME NEW p \in Passes, Reported(p) PROVE Contract!Settle
  <2>1. Learns
    BY <1>2, ReceivesKnown DEF Reported, Awaits
  <2> QED BY <1>2, <1>d, <2>1 DEF Reported
<1>3. ASSUME NEW p \in Passes, NEW gs \in SUBSET Group, GroupsKnown(p, gs)
      PROVE  Contract!Settle
  <2>1. CASE UNCHANGED queue
    BY <1>3, <1>a, <2>1, Settles DEF GroupsKnown
  <2>2. CASE pass[p].cur.item \notin gs
    BY <1>3, <1>d, <2>2 DEF GroupsKnown
  <2> QED BY <1>3, <2>1, <2>2 DEF GroupsKnown
<1>4. ASSUME NEW k \in 1 .. MaxActions, RetryDue(k) PROVE Contract!Settle
  <2>1. \A j \in DOMAIN queue' : j \in DOMAIN queue /\ queue'[j].item = queue[j].item
    BY <1>4 DEF RetryDue, TypeOK, Entry
  <2> QED BY <1>4, <1>a, <2>1, Settles DEF RetryDue
<1>5. ASSUME NEW i \in Items, Change(i) PROVE Contract!Change(i)
  <2>1. /\ DOMAIN queue' = DOMAIN queue \cup {last + 1} /\ queue'[last + 1].item = i
        /\ \A k \in DOMAIN queue : queue'[k] = queue[k]
    BY <1>5 DEF Change, Enqueue, TypeOK
  <2>2. Owed' = Owed \cup {i}
    BY <2>1 DEF Owed
  <2> QED BY <1>5, <2>2 DEF Change, Contract!Change
<1>6. ASSUME NEW i \in Items, DeleteRow(i) PROVE Contract!Delete(i)
  BY <1>6 DEF DeleteRow, Contract!Delete, Owed
<1>7. ASSUME NEW p \in Passes, Fails(p) PROVE Contract!Settle
  <2>1. /\ GoOn(p, pass[p].todo, FailedQueue(p), cache, running)
        /\ UNCHANGED <<rows, version, got>>
    BY <1>7 DEF Fails, FailedQueue
  <2> QED BY <1>a, <1>t, <2>1, FailedItems, GoOnSettles
<1>8. ASSUME NEW p \in Passes, Arrives(p) PROVE Contract!Settle
  <2>1. Learns
    BY <1>8, ReceivesKnown DEF Arrives, Awaits
  <2> QED BY <1>8, <1>a, <2>1, Settles DEF Arrives, store
<1>9. CASE \/ Start \/ Stop \/ CacheExpires \/ Crash \/ UNCHANGED vars
           \/ \E p \in Passes : RevocationHandled(p) \/ Revoked(p)
  <2>1. UNCHANGED <<rows, version, queue, got>>
    BY <1>9 DEF Start, Stop, CacheExpires, Crash, RevocationHandled, Revoked, vars, store
  <2> QED BY <2>1 DEF Contract!vars, Owed
<1> QED BY <1>1, <1>2, <1>3, <1>4, <1>5, <1>6, <1>7, <1>8, <1>9
        DEF Next, Pass, Works, Retry, Other, Fault, Contract!Next

\* With its overlapping passes, retries, stops and crashes the queue implements the
\* contract of the sync: a changed row is owed at once, and one of a 1:1 thread until the
\* row as it is has arrived at the cloud.
THEOREM ImplementsContract == Spec => MeetsContract
<1>1. ASSUME Init PROVE Contract!Init /\ AckInv /\ GotInv
  <2>1. \A i \in Items : version[i] = 0 /\ got[i] = {0}
    BY <1>1 DEF Init
  <2>2. \A p \in Passes : ~ Awaits(p)
    BY <1>1 DEF Init, Idle, Awaits
  <2>3. Owed = {}
    BY <1>1 DEF Init, Owed
  <2>4. Contract!Init
    BY <1>1, <2>3 DEF Init, Contract!Init
  <2>5. AckInv /\ GotInv
    BY <2>1, <2>2 DEF AckInv, GotInv, Items
  <2> QED BY <2>4, <2>5
<1> QED BY <1>1, TypeCorrect, AckStep, GotStep, ContractStep, PTL
        DEF Spec, MeetsContract, Contract!Spec

-----------------------------------------------------------------------------
(* How many passes there are *)

\* Passes that are under way are finitely many.
LEMMA UnderFinite == IsFiniteSet(Under) /\ Cardinality(Under) \in Nat
<1>1. IsFiniteSet(Under)
  BY SyncAssumption, FS_Subset DEF Under
<1> QED BY <1>1, FS_CardinalityType

\* A pass that is over makes room for another.
LEMMA UnderLess ==
    ASSUME NEW p \in Under, Under' = Under \ {p}
    PROVE  Cardinality(Under') = Cardinality(Under) - 1
BY UnderFinite, FS_RemoveElement

\* The loop notes the end of its pass.
LEMMA GoOnEnds ==
    ASSUME TypeOK, NEW p \in Passes, NEW todo \in SUBSET Work, NEW q, NEW c,
           NEW run \in BOOLEAN, GoOn(p, todo, q, c, run)
    PROVE  /\ \A d \in Passes : d # p => pass'[d] = pass[d]
           /\ \/ pass'[p] = Idle /\ running' = FALSE
              \/ pass'[p].pc \in {"groups", "report"} /\ running' = run
<1>1. \A d \in Passes : d # p => pass'[d] = pass[d]
  BY GoOnPass DEF TypeOK
<1>2. CASE pass' = [pass EXCEPT ![p] = Idle] /\ running' = FALSE
  BY <1>1, <1>2 DEF TypeOK
<1>3. ASSUME NEW w \in todo,
             pass' = [pass EXCEPT ![p] =
                     [pc |-> IF AsksGroups(w.item, c) THEN "groups" ELSE "report",
                      todo |-> {v \in todo : w.id < v.id}, cur |-> w,
                      read |-> version[w.item]]],
             running' = run
      PROVE  pass'[p].pc \in {"groups", "report"} /\ running' = run
  BY <1>3 DEF TypeOK
<1> QED BY <1>1, <1>2, <1>3 DEF GoOn

\* The loop of a pass under way either goes on or ends it.
LEMMA GoOnBound ==
    ASSUME TypeOK, BoundInv, NEW p \in Passes, pass[p].pc # "idle",
           NEW todo \in SUBSET Work, NEW q, NEW c, GoOn(p, todo, q, c, running),
           UNCHANGED <<enabled, starts>>
    PROVE  BoundInv'
<1>0. running \in BOOLEAN
  BY DEF TypeOK
<1>1. \A d \in Passes : d # p => pass'[d] = pass[d]
  BY <1>0, GoOnEnds
<1>2. CASE pass'[p] = Idle /\ running' = FALSE
  <2>1. p \in Under /\ Under' = Under \ {p}
    BY <1>1, <1>2 DEF Under, Idle
  <2>2. Cardinality(Under') = Cardinality(Under) - 1
    BY <2>1, UnderLess
  <2> QED BY <1>2, <2>2, UnderFinite DEF BoundInv, TypeOK
<1>3. CASE pass'[p].pc \in {"groups", "report"} /\ running' = running
  <2>1. Under' = Under
    BY <1>1, <1>3 DEF Under
  <2> QED BY <1>3, <2>1 DEF BoundInv
<1> QED BY <1>0, <1>2, <1>3, GoOnEnds

\* So does the acknowledgement of an entry.
LEMMA DoneBound ==
    ASSUME TypeOK, BoundInv, NEW p \in Passes, pass[p].pc # "idle",
           NEW c, Done(p, c), UNCHANGED <<enabled, starts>>
    PROVE  BoundInv'
<1>1. pass[p].todo \in SUBSET Work
  BY DEF TypeOK
<1> QED BY <1>1, GoOnBound DEF Done

LEMMA BoundStep == TypeOK /\ BoundInv /\ [Next]_vars => BoundInv'
<1> SUFFICES ASSUME TypeOK, BoundInv, [Next]_vars PROVE BoundInv'
  OBVIOUS
<1>1. ASSUME NEW p \in Passes, Tick(p) PROVE BoundInv'
  <2>1. /\ p \notin Under /\ enabled /\ ~ running /\ UNCHANGED <<enabled, starts>>
        /\ GoOn(p, Fetched, queue, cache, TRUE)
    BY <1>1 DEF Tick, Under
  <2>2. \A d \in Passes : d # p => pass'[d] = pass[d]
    BY <2>1, FetchedType, GoOnEnds
  <2>3. CASE pass'[p] = Idle /\ running' = FALSE
    <3>1. Under' = Under
      BY <2>1, <2>2, <2>3 DEF Under, Idle
    <3> QED BY <2>1, <2>3, <3>1 DEF BoundInv
  <2>4. CASE pass'[p].pc \in {"groups", "report"} /\ running' = TRUE
    <3>1. Under' = Under \cup {p}
      BY <2>1, <2>2, <2>4 DEF Under
    <3>2. Cardinality(Under') = Cardinality(Under) + 1
      BY <2>1, <3>1, UnderFinite, FS_AddElement
    <3> QED BY <2>1, <2>4, <3>2, UnderFinite DEF BoundInv, TypeOK
  <2> QED BY <2>1, <2>3, <2>4, FetchedType, GoOnEnds
<1>2. ASSUME NEW p \in Passes, Reported(p) PROVE BoundInv'
  BY <1>2, DoneBound DEF Reported
<1>3. ASSUME NEW p \in Passes, NEW gs \in SUBSET Group, GroupsKnown(p, gs)
      PROVE  BoundInv'
  <2>1. CASE pass[p].cur.item \in gs
    <3>1. /\ pass[p].pc = "groups" /\ pass' = [pass EXCEPT ![p].pc = "report"]
          /\ UNCHANGED <<enabled, running, starts>>
      BY <1>3, <2>1 DEF GroupsKnown
    <3>2. Under' = Under
      BY <3>1 DEF Under, TypeOK
    <3> QED BY <3>1, <3>2 DEF BoundInv
  <2>2. CASE pass[p].cur.item \notin gs
    BY <1>3, <2>2, DoneBound DEF GroupsKnown
  <2> QED BY <2>1, <2>2
<1>4. ASSUME NEW p \in Passes, RevocationHandled(p) PROVE BoundInv'
  <2>1. p \in Under /\ Under' = Under \ {p}
    BY <1>4 DEF RevocationHandled, Under, Idle, TypeOK
  <2>2. Cardinality(Under') = Cardinality(Under) - 1
    BY <2>1, UnderLess
  <2> QED BY <1>4, <2>2, UnderFinite DEF RevocationHandled, BoundInv, TypeOK
<1>5. ASSUME NEW p \in Passes, Revoked(p) PROVE BoundInv'
  <2>1. Under' = Under
    BY <1>5 DEF Revoked, Under, Idle, TypeOK
  <2> QED BY <1>5, <2>1 DEF Revoked, BoundInv
<1>6. ASSUME NEW p \in Passes, Fails(p) PROVE BoundInv'
  <2>1. /\ GoOn(p, pass[p].todo, FailedQueue(p), cache, running)
        /\ pass[p].pc # "idle" /\ UNCHANGED <<enabled, starts>>
    BY <1>6 DEF Fails, FailedQueue
  <2>2. pass[p].todo \in SUBSET Work
    BY DEF TypeOK
  <2> QED BY <2>1, <2>2, GoOnBound
<1>7. CASE Start
  <2>1. /\ Under' = Under /\ ~ enabled /\ enabled' = TRUE /\ UNCHANGED running
        /\ starts' = starts + 1
    BY <1>7 DEF Start, Under
  <2> QED BY <2>1, UnderFinite DEF BoundInv, TypeOK
<1>8. CASE Stop
  <2>1. Under' = Under /\ enabled' = FALSE /\ running' = FALSE /\ UNCHANGED starts
    BY <1>8 DEF Stop, Under
  <2> QED BY <2>1 DEF BoundInv
<1>9. CASE Crash
  <2>1. Under' = {} /\ enabled' = FALSE /\ running' = FALSE /\ starts' = 0
    BY <1>9 DEF Crash, Under, Idle
  <2> QED BY <2>1, FS_EmptySet DEF BoundInv
<1>10. CASE \/ CacheExpires \/ (\E k \in 1 .. MaxActions : RetryDue(k))
            \/ (\E i \in Items : Change(i) \/ DeleteRow(i))
            \/ (\E p \in Passes : Arrives(p)) \/ UNCHANGED vars
  <2>1. Under' = Under /\ UNCHANGED <<enabled, running, starts>>
    BY <1>10 DEF CacheExpires, RetryDue, Change, DeleteRow, Arrives, vars, worker, Under
  <2> QED BY <2>1 DEF BoundInv
<1> QED BY <1>1, <1>2, <1>3, <1>4, <1>5, <1>6, <1>7, <1>8, <1>9, <1>10
        DEF Next, Pass, Works, Retry, Other, Fault

\* However often the worker is stopped and started, no more passes are under way than
\* it was started times since the process began.
THEOREM PassesAreBounded == Spec => []PassesBounded
<1>1. ASSUME Init PROVE BoundInv
  <2>1. Under = {} /\ starts = 0 /\ enabled = FALSE /\ running = FALSE
    BY <1>1 DEF Init, Under, Idle
  <2> QED BY <2>1, FS_EmptySet DEF BoundInv
<1>2. BoundInv => PassesBounded
  BY DEF BoundInv, PassesBounded, Under
<1> QED BY <1>1, <1>2, TypeCorrect, BoundStep, PTL DEF Spec
=============================================================================
