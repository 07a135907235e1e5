----------------------------- MODULE SyncQueue -----------------------------
(***************************************************************************)
(* The background sync worker (sync-worker.ts): a durable queue of what    *)
(* changed in the local chat store, and passes over it that report the     *)
(* rows to the cloud.                                                      *)
(*                                                                         *)
(* A pass works on the entries that were due when it began and awaits the  *)
(* cloud once or twice for each.  Stopping the worker forgets that a pass  *)
(* is under way: after a start the next tick begins another one.  An item  *)
(* is a message or a conversation; that a message not sent yet is          *)
(* acknowledged without a report belongs to ChatMessages.  Every report is *)
(* answered in the end, or fails: fetch gives up after its own timeout.    *)
(***************************************************************************)
EXTENDS Integers, FiniteSets

CONSTANTS
    Private,     \* items of 1:1 threads
    Group,       \* items of group threads, one for each group
    Passes,
    MaxRetries,  \* MAX_RETRY_COUNT
    MaxActions,  \* bound: entries enqueued
    MaxFaults,   \* bound: failed requests, revocations, crashes
    MaxStarts    \* bound: starts of the worker

Items == Private \cup Group
None == 0

ASSUME SyncAssumption ==
    /\ Private \cap Group = {}
    /\ IsFiniteSet(Passes)
    /\ MaxRetries \in Nat /\ MaxActions \in Nat /\ MaxFaults \in Nat /\ MaxStarts \in Nat

VARIABLES
    rows,     \* the items there are
    version,  \* how often an item changed
    queue,    \* sync_queue: by id, the item, the retries, and when it is due
    last,     \* the last id
    enabled,  \* _enabled, and the timer
    running,  \* _isRunning
    cache,    \* managedGroupCache: whether it is fresh, and its groups
    pass,     \* the passes under way
    got,      \* the cloud: the states of an item that have arrived
    starts,   \* history: starts since the process began
    faults

store == <<rows, version, queue, last>>
worker == <<enabled, running, cache, pass>>
vars == <<store, worker, got, starts, faults>>

Stale == [fresh |-> FALSE, groups |-> {}]
NoWork == [id |-> None, item |-> None, retries |-> 0]
Idle == [pc |-> "idle", todo |-> {}, cur |-> NoWork, read |-> 0]

-----------------------------------------------------------------------------
(* The queue *)

\* enqueueSyncAction.
Enqueue(i) ==
    /\ last < MaxActions
    /\ last' = last + 1
    /\ queue' = [k \in DOMAIN queue \cup {last + 1} |->
                    IF k = last + 1 THEN [item |-> i, retries |-> 0, wait |-> "due"]
                    ELSE queue[k]]

\* markSyncActionComplete of several entries.
Without(q, ks) == [k \in DOMAIN q \ ks |-> q[k]]

\* Whatever changes a row enqueues it.
Change(i) ==
    /\ i \in rows
    /\ version' = [version EXCEPT ![i] = @ + 1]
    /\ Enqueue(i)
    /\ UNCHANGED <<rows, worker, got, starts>>

\* deleteMessage; the entries of the row stay.
DeleteRow(i) ==
    /\ i \in rows
    /\ rows' = rows \ {i}
    /\ UNCHANGED <<version, queue, last, worker, got, starts>>

\* The time of a retry comes.  That of a parked entry is a year away.
RetryDue(k) ==
    /\ k \in DOMAIN queue /\ queue[k].wait = "later"
    /\ queue' = [queue EXCEPT ![k].wait = "due"]
    /\ UNCHANGED <<rows, version, last, worker, got, starts>>

-----------------------------------------------------------------------------
(* A pass *)

\* An item the loop awaits the cloud for, with the cache c: one whose row exists,
\* in a 1:1 thread, or in a group that is managed as far as the cache knows, or
\* that has to be asked for.
AsksGroups(i, c) == i \in Group /\ ~ c.fresh
Waits(i, c) == i \in rows /\ (i \in Private \/ AsksGroups(i, c) \/ i \in c.groups)

Ids(work) == {w.id : w \in work}

\* Mutant: the end of a pass is not noted.
GoOnUnended(p, todo, q, c, run) ==
    LET waiting == {w \in todo : Waits(w.item, c)}
    IN  \/ \E w \in waiting :
              /\ enabled
              /\ \A v \in waiting : w.id <= v.id
              /\ queue' = Without(q, Ids({v \in todo : v.id < w.id}))
              /\ pass' = [pass EXCEPT ![p] =
                     [pc |-> IF AsksGroups(w.item, c) THEN "groups" ELSE "report",
                      todo |-> {v \in todo : w.id < v.id}, cur |-> w,
                      read |-> version[w.item]]]
              /\ running' = run
        \/ /\ ~ enabled \/ waiting = {}
           /\ queue' = IF enabled THEN Without(q, Ids(todo)) ELSE q
           /\ pass' = [pass EXCEPT ![p] = Idle]
           /\ running' = run

\* The loop of processSyncQueue up to its next await: what needs no report is
\* acknowledged, and a row is read as it is now.  At the end of the entries, or
\* with the worker stopped, the pass is over.
GoOn(p, todo, q, c, run) ==
    LET waiting == {w \in todo : Waits(w.item, c)}
    IN  \/ \E w \in waiting :
              /\ enabled
              /\ \A v \in waiting : w.id <= v.id
              /\ queue' = Without(q, Ids({v \in todo : v.id < w.id}))
              /\ pass' = [pass EXCEPT ![p] =
                     [pc |-> IF AsksGroups(w.item, c) THEN "groups" ELSE "report",
                      todo |-> {v \in todo : w.id < v.id}, cur |-> w,
                      read |-> version[w.item]]]
              /\ running' = run
        \/ /\ ~ enabled \/ waiting = {}
           /\ queue' = IF enabled THEN Without(q, Ids(todo)) ELSE q
           /\ pass' = [pass EXCEPT ![p] = Idle]
           /\ running' = FALSE

\* The entries due, as the pass reads them.
Fetched == {[id |-> k, item |-> queue[k].item, retries |-> queue[k].retries] :
               k \in {k \in DOMAIN queue : queue[k].wait = "due"}}

\* Mutant: a pass begins whether or not one is under way.
TickAgain(p) ==
    /\ pass[p].pc = "idle" /\ enabled
    /\ Fetched # {}
    /\ GoOn(p, Fetched, queue, cache, TRUE)
    /\ UNCHANGED <<rows, version, last, enabled, cache, got, starts>>

\* The interval fires.
Tick(p) ==
    /\ pass[p].pc = "idle" /\ enabled /\ ~ running
    /\ Fetched # {}
    /\ GoOn(p, Fetched, queue, cache, TRUE)
    /\ UNCHANGED <<rows, version, last, enabled, cache, got, starts>>

\* The loop goes on after an entry is done; with the worker stopped it is kept.
Done(p, c) ==
    LET id == pass[p].cur.id
    IN  GoOn(p, pass[p].todo, IF enabled THEN Without(queue, {id}) ELSE queue, c, running)

\* isGroupManaged has the managed groups: a row of one is reported.
GroupsKnown(p, gs) ==
    /\ pass[p].pc = "groups"
    /\ cache' = [fresh |-> TRUE, groups |-> gs]
    /\ IF pass[p].cur.item \in gs
       THEN /\ pass' = [pass EXCEPT ![p].pc = "report"]
            /\ UNCHANGED <<queue, running>>
       ELSE Done(p, cache')
    /\ UNCHANGED <<rows, version, last, enabled, got, starts>>

\* The cloud receives the row as the pass read it.  The payload says nothing of when
\* that was: what the cloud makes of an older state that comes last, is not known here.
Receives(p) == got' = [got EXCEPT ![pass[p].cur.item] = @ \cup {pass[p].read}]

\* ... which the worker may never come to know.
Arrives(p) ==
    /\ pass[p].pc = "report"
    /\ Receives(p)
    /\ UNCHANGED <<store, worker, starts>>

\* Mutant: the row is acknowledged by its item, with the entries queued meanwhile.
ReportedByItem(p) ==
    /\ pass[p].pc = "report"
    /\ Receives(p)
    /\ GoOn(p, pass[p].todo,
            IF enabled
            THEN Without(queue, {k \in DOMAIN queue : queue[k].item = pass[p].cur.item})
            ELSE queue, cache, running)
    /\ UNCHANGED <<rows, version, last, enabled, cache, starts>>

\* A report is answered, and the entry acknowledged.
Reported(p) ==
    /\ pass[p].pc = "report"
    /\ Receives(p)
    /\ Done(p, cache)
    /\ UNCHANGED <<rows, version, last, enabled, cache, starts>>

\* Mutant: an entry out of retries is given up, not parked.
FailsForgotten(p) ==
    LET w == pass[p].cur
        kept == {k \in DOMAIN queue : k # w.id \/ w.retries < MaxRetries}
    IN  /\ pass[p].pc \in {"groups", "report"}
        /\ GoOn(p, pass[p].todo,
                [k \in kept |->
                    IF k = w.id THEN [queue[k] EXCEPT !.retries = @ + 1, !.wait = "later"]
                    ELSE queue[k]],
                cache, running)
        /\ UNCHANGED <<rows, version, last, enabled, cache, got, starts>>

\* A request fails: the entry is tried again later, or parked for a year, if it is
\* still there.
Fails(p) ==
    LET w == pass[p].cur
        wait == IF w.retries >= MaxRetries THEN "parked" ELSE "later"
    IN  /\ pass[p].pc \in {"groups", "report"}
        /\ GoOn(p, pass[p].todo,
                [k \in DOMAIN queue |->
                    IF k = w.id THEN [queue[k] EXCEPT !.retries = @ + 1, !.wait = wait]
                    ELSE queue[k]],
                cache, running)
        /\ UNCHANGED <<rows, version, last, enabled, cache, got, starts>>

\* A request is answered with DEVICE_REVOKED: the worker is stopped, the handler of
\* the session awaited.
Revoked(p) ==
    /\ pass[p].pc \in {"groups", "report"}
    /\ enabled' = FALSE /\ running' = FALSE
    /\ pass' = [pass EXCEPT ![p] = [Idle EXCEPT !.pc = "revoked"]]
    /\ UNCHANGED <<store, cache, got, starts>>

RevocationHandled(p) ==
    /\ pass[p].pc = "revoked"
    /\ pass' = [pass EXCEPT ![p] = Idle]
    /\ running' = FALSE
    /\ UNCHANGED <<store, enabled, cache, got, starts>>

-----------------------------------------------------------------------------
(* The worker *)

\* startBackgroundSync.
Start ==
    /\ ~ enabled /\ starts < MaxStarts
    /\ enabled' = TRUE
    /\ starts' = starts + 1
    /\ UNCHANGED <<store, running, cache, pass, got>>

\* stopBackgroundSync: the passes under way are not told.
Stop ==
    /\ enabled
    /\ enabled' = FALSE /\ running' = FALSE
    /\ UNCHANGED <<store, cache, pass, got, starts>>

CacheExpires ==
    /\ cache.fresh
    /\ cache' = Stale
    /\ UNCHANGED <<store, enabled, running, pass, got, starts>>

\* The process dies with its requests.
Crash ==
    /\ enabled' = FALSE /\ running' = FALSE /\ cache' = Stale /\ starts' = 0
    /\ pass' = [p \in Passes |-> Idle]
    /\ UNCHANGED <<store, got>>

-----------------------------------------------------------------------------
Init ==
    /\ rows = Items /\ version = [i \in Items |-> 0]
    /\ queue = [k \in {} |-> None] /\ last = 0
    /\ enabled = FALSE /\ running = FALSE /\ cache = Stale
    /\ pass = [p \in Passes |-> Idle]
    /\ got = [i \in Items |-> {0}]
    /\ starts = 0 /\ faults = 0

Works(p) ==
    \/ Reported(p)
    \/ \E gs \in SUBSET Group : GroupsKnown(p, gs)
    \/ RevocationHandled(p)

Pass == \E p \in Passes : Tick(p) \/ Works(p)
Retry == \E k \in 1 .. MaxActions : RetryDue(k)
Other ==
    \/ \E i \in Items : Change(i) \/ DeleteRow(i)
    \/ \E p \in Passes : Arrives(p)
    \/ Start \/ Stop \/ CacheExpires

Fault ==
    \/ \E p \in Passes : Revoked(p) \/ Fails(p)
    \/ Crash

Next ==
    \/ (Pass \/ Retry \/ Other) /\ UNCHANGED faults
    \/ faults < MaxFaults /\ Fault /\ faults' = faults + 1

Spec == Init /\ [][Next]_vars

\* The interval fires while it is set, requests come to an end, time passes.
Fairness ==
    /\ WF_vars(Pass /\ UNCHANGED faults)
    /\ WF_vars(Retry /\ UNCHANGED faults)
FairSpec == Spec /\ Fairness

-----------------------------------------------------------------------------
Work == [id : Nat, item : Items, retries : Nat]
Entry == [item : Items, retries : Nat, wait : {"due", "later", "parked"}]

TypeOK ==
    /\ rows \subseteq Items
    /\ version \in [Items -> Nat] /\ got \in [Items -> SUBSET Nat]
    /\ last \in Nat /\ DOMAIN queue \subseteq 1 .. last
    /\ queue \in [DOMAIN queue -> Entry]
    /\ enabled \in BOOLEAN /\ running \in BOOLEAN
    /\ pass \in [Passes -> [pc : {"idle", "groups", "report", "revoked"},
                           todo : SUBSET Work, cur : Work \cup {NoWork}, read : Nat]]
    /\ starts \in Nat

\* A change of a 1:1 thread is in the queue until the row as it is has arrived at the
\* cloud: whatever stops, fails, dies or overlaps, no entry is acknowledged for a
\* state of the row that came after it was read.
AckedIsDelivered ==
    \A i \in Private \cap rows :
        version[i] \notin got[i] => \E k \in DOMAIN queue : queue[k].item = i

\* The states of a row arrive in their order.  This does not hold: of two passes under
\* way, one may read a row before a change and report it after the other has reported
\* the change, and with the entry acknowledged no later report corrects it.
ArrivesInOrder ==
    [][\A i \in Items : \A v \in got'[i] \ got[i] : \A u \in got[i] : u < v]_vars

\* Stopping and starting while passes are under way adds at most one pass for each
\* start: without a stop there is never a second one.
PassesBounded == Cardinality({p \in Passes : pass[p].pc # "idle"}) <= starts

\* With the worker on for good and faults that end, the queue is emptied but for
\* what is parked.
QueueDrains ==
    <>[] enabled => []<> (\A k \in DOMAIN queue : queue[k].wait = "parked")

\* The abstract specification: an item is owed while it has an entry.
Owed == {queue[k].item : k \in DOMAIN queue}

Contract == INSTANCE SyncContract WITH Tracked <- Private, owed <- Owed

\* The queue, its overlapping passes, its retries and its crashes implement the
\* contract of the sync: a change is owed at once, and of a 1:1 thread no longer only
\* in a step after which the row as it is has arrived at the cloud; nothing arrives
\* but states the row was in, of one item in a step.
MeetsContract == Contract!Spec
-----------------------------------------------------------------------------
(* The inductive invariants behind the theorems of SyncQueueProofs. *)

Awaits(p) == pass[p].pc \in {"groups", "report"}

\* The entry a pass has in hand is still that of its item, or gone: ids are not used
\* twice.
Names(w) ==
    /\ w.id \in 1 .. last
    /\ w.id \in DOMAIN queue => queue[w.id].item = w.item

WorkInv ==
    \A p \in Passes :
        /\ Awaits(p) => pass[p].cur \in Work /\ Names(pass[p].cur)
        /\ pass[p].pc = "groups" => pass[p].cur.item \in Group
        /\ \A w \in pass[p].todo : Names(w)

\* Of a change the cloud lacks there is an entry that no pass has in hand with an
\* older state of the row.
AckInv ==
    \A i \in Private \cap rows :
        version[i] \notin got[i] =>
            \E k \in DOMAIN queue :
                /\ queue[k].item = i
                /\ \A p \in Passes :
                      Awaits(p) /\ pass[p].cur.id = k => pass[p].read = version[i]

\* Neither the cloud nor a pass has what a row has not been.
GotInv ==
    /\ \A i \in Items : got[i] \subseteq 0 .. version[i]
    /\ \A p \in Passes : Awaits(p) => pass[p].read <= version[pass[p].cur.item]

Under == {p \in Passes : pass[p].pc # "idle"}

\* A worker that may begin a pass has been started once more than passes are under
\* way.
BoundInv ==
    /\ ~ enabled => ~ running
    /\ Cardinality(Under) <= starts
    /\ enabled /\ ~ running => Cardinality(Under) < starts

IInv == TypeOK /\ WorkInv /\ AckInv /\ GotInv /\ BoundInv
=============================================================================
