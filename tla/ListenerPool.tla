---------------------------- MODULE ListenerPool ----------------------------
(***************************************************************************)
(* The pool of personal Zalo accounts (personal-zca-channel.ts): the       *)
(* credentials files it is loaded from, the sessions with Zalo and their   *)
(* websocket listeners, the sends that log an account in again, the QR     *)
(* logins of server.ts, the health monitor and the boot and the logout of  *)
(* session-runtime.ts.                                                     *)
(*                                                                         *)
(* Every call to the channel first awaits ensureLoginPool, which lists the *)
(* files anew until one listing is over: calls that come meanwhile list    *)
(* them too.  A login has two awaits, zalo.login and fetchAccountInfo, and *)
(* each login is a session of its own; a session that is replaced in the   *)
(* pool lives on in the calls that hold it.  The scan of the directory     *)
(* itself is assumed to succeed.                                           *)
(***************************************************************************)
EXTENDS Naturals, FiniteSets, Sequences

CONSTANTS
    Accounts,
    Sends,       \* sendMessage calls
    Scans,       \* QR logins
    Boot,        \* initializeZalo of bootRuntime
    Relogins,    \* relogins under way
    MaxSessions, \* bound: logins that succeed
    MaxRelogins, \* RELOGIN_MAX_IN_WINDOW
    MaxMishaps   \* bound: closed connections, deletions, logouts, crashes

Ops == Sends \cup Scans \cup {Boot} \cup Relogins
Sessions == 1 .. MaxSessions
None == 0

ASSUME PoolAssumption ==
    /\ MaxSessions \in Nat /\ MaxRelogins \in Nat /\ MaxMishaps \in Nat
    /\ None \notin Ops \cup Accounts /\ Boot \notin Sends \cup Scans \cup Relogins
    /\ Sends \cap Relogins = {} /\ Scans \cap Relogins = {} /\ Sends \cap Scans = {}

VARIABLES
    files,        \* accounts with a credentials file
    initialized,  \* poolInitialized
    pool,         \* accountPool: the session of an account, or None
    failed,       \* failedAccounts
    session,      \* the instances: account, listenerRunning, expired
    history,      \* reloginHistory: per attempt, whether it began a relogin
    shared,       \* reloginInFlight
    op,           \* the calls under way
    monitor,      \* the health monitor runs
    sockets,      \* Zalo: sessions with an open websocket
    used,         \* sessions so far
    deleted,      \* history: accounts deleted while no login of them was under way
    cut,          \* history: accounts deleted while a login of them was
    mishaps

memory == <<initialized, pool, failed, session, history, shared, op, monitor>>
vars == <<files, memory, sockets, used, deleted, cut, mishaps>>

Pooled(a) == pool[a] # None
NoSession == [account |-> None, running |-> FALSE, expired |-> FALSE]
Idle == [pc |-> "idle", todo |-> {}, cur |-> None, for |-> None, on |-> None]

\* Calls with a login of a under way, or about to begin.
Logging(a) == {k \in Ops : \/ op[k].pc \in {"login", "info"} /\ op[k].cur = a
                           \/ op[k].pc = "login" /\ a \in op[k].todo
                           \/ op[k].pc = "info" /\ a \in op[k].todo}
Loading(k) == k \in Sends \cup {Boot}

-----------------------------------------------------------------------------
(* Listeners *)

\* startListenerForInstance and stopListenerForInstance, on several sessions.
CanStart(n) == ~ session[n].running /\ ~ session[n].expired
Start(ns) ==
    /\ session' = [n \in Sessions |-> IF n \in ns /\ CanStart(n)
                                      THEN [session[n] EXCEPT !.running = TRUE]
                                      ELSE session[n]]
    /\ sockets' = sockets \cup {n \in ns : CanStart(n)}

Stopped(ss, ns) == [n \in Sessions |-> IF n \in ns THEN [ss[n] EXCEPT !.running = FALSE]
                                       ELSE ss[n]]
Running(ns) == {n \in ns : session[n].running}

\* Mutant: the account is marked expired, its listener not stopped.
ExpireOnly(ns) ==
    /\ session' = [n \in Sessions |-> IF n \in ns
                       THEN [session[n] EXCEPT !.expired = TRUE] ELSE session[n]]
    /\ UNCHANGED sockets

\* A dead session: the listener is stopped, the account marked expired.
Expire(ns) ==
    /\ session' = [n \in Sessions |-> IF n \in ns
                       THEN [session[n] EXCEPT !.running = FALSE, !.expired = TRUE]
                       ELSE session[n]]
    /\ sockets' = sockets \ Running(ns)

Live == {pool[a] : a \in {a \in Accounts : Pooled(a)}}

\* Mutant: the session in the pool is not torn down first.
AddInstanceOver(a, n) ==
    /\ pool' = [pool EXCEPT ![a] = n]
    /\ session' = [session EXCEPT ![n] = [account |-> a, running |-> TRUE,
                                          expired |-> FALSE]]
    /\ sockets' = sockets \cup {n}

\* addAccountInstance after its await: the session of the account in the pool is
\* stopped and replaced, and the listener of the new one started.
AddInstance(a, n) ==
    /\ pool' = [pool EXCEPT ![a] = n]
    /\ session' = [Stopped(session, {pool[a]}) EXCEPT
                       ![n] = [account |-> a, running |-> TRUE, expired |-> FALSE]]
    /\ sockets' = (sockets \ Running({pool[a]} \ {None})) \cup {n}

-----------------------------------------------------------------------------
(* Loading the pool, and the calls that wait for it *)

\* The loop of ensureLoginPool goes on: a file that is gone is a failed account.
NextFile(k, todo, fail) ==
    /\ failed' = fail \cup (todo \ files)
    /\ IF todo \cap files = {}
       THEN /\ initialized' = TRUE
            /\ op' = [op EXCEPT ![k].pc = "loaded", ![k].todo = {}, ![k].cur = None]
       ELSE /\ \E a \in todo \cap files :
                  op' = [op EXCEPT ![k].pc = "login", ![k].cur = a,
                                   ![k].todo = (todo \cap files) \ {a}]
            /\ UNCHANGED initialized

\* A call enters the channel, for an account or for any.
Enter(k, a) ==
    /\ Loading(k) /\ op[k].pc = "idle"
    /\ IF initialized
       THEN /\ op' = [op EXCEPT ![k].pc = "loaded", ![k].for = a]
            /\ UNCHANGED <<failed, initialized>>
       ELSE IF files = {}
       THEN /\ initialized' = TRUE
            /\ op' = [op EXCEPT ![k].pc = "loaded", ![k].for = a]
            /\ UNCHANGED failed
       ELSE \E b \in files :
            /\ op' = [op EXCEPT ![k] = [pc |-> "login", todo |-> files \ {b}, cur |-> b,
                                        for |-> a, on |-> None]]
            /\ UNCHANGED <<failed, initialized>>
    /\ UNCHANGED <<files, pool, session, history, shared, monitor, sockets, used,
                   deleted, cut>>

\* zalo.login, or the scan of a QR code, succeeds: a session of its own.
LoginSucceeds(k) ==
    /\ op[k].pc \in {"login", "scan"} /\ used < MaxSessions
    /\ used' = used + 1
    /\ op' = [op EXCEPT ![k].pc = "info", ![k].on = used + 1]
    /\ files' = IF k \in Scans THEN files \cup {op[k].cur} ELSE files
    /\ deleted' = IF k \in Scans THEN deleted \ {op[k].cur} ELSE deleted
    /\ UNCHANGED <<cut, initialized, pool, failed, session, history, shared, monitor,
                   sockets>>

\* loadCredentialsFile: zalo.login throws.
LoadFails(k) ==
    /\ Loading(k) /\ op[k].pc = "login"
    /\ NextFile(k, op[k].todo, failed \cup {op[k].cur})
    /\ UNCHANGED <<files, pool, session, history, shared, monitor, sockets, used,
                   deleted, cut>>

\* loadCredentialsFile: the account is added, and the next file read.
LoadAdds(k) ==
    /\ Loading(k) /\ op[k].pc = "info"
    /\ AddInstance(op[k].cur, op[k].on)
    /\ NextFile(k, op[k].todo, failed \ {op[k].cur})
    /\ UNCHANGED <<files, history, shared, monitor, used, deleted, cut>>

\* bootRuntime: the listeners of the pool are started, then the monitor.
BootReturns ==
    /\ op[Boot].pc = "loaded"
    /\ Start(Live)
    /\ op' = [op EXCEPT ![Boot].pc = "done"]
    /\ monitor' = TRUE
    /\ UNCHANGED <<files, initialized, pool, failed, history, shared, used,
                   deleted, cut>>

-----------------------------------------------------------------------------
(* Sends and the relogin *)

\* sendMessage takes the session of its account; without one the call fails.
Select(k) ==
    /\ k \in Sends /\ op[k].pc = "loaded"
    /\ op' = [op EXCEPT ![k].pc = IF Pooled(op[k].for) THEN "wire" ELSE "done",
                        ![k].on = pool[op[k].for]]
    /\ UNCHANGED <<files, initialized, pool, failed, session, history, shared,
                   monitor, sockets, used, deleted, cut>>

\* Zalo takes the message, or refuses it for another reason.
SendReturns(k, success) ==
    /\ k \in Sends /\ op[k].pc \in {"wire", "retry"}
    /\ op' = [op EXCEPT ![k].pc = "done"]
    /\ history' = IF success THEN [history EXCEPT ![op[k].for] = <<>>] ELSE history
    /\ UNCHANGED <<files, initialized, pool, failed, session, shared, monitor,
                   sockets, used, deleted, cut>>

Trips(a) == Len(history[a]) >= MaxRelogins

\* Mutant: no relogin is shared.
SessionDeadAlone(k) ==
    LET a == op[k].for
    IN  /\ k \in Sends /\ op[k].pc = "wire"
        /\ history' = [history EXCEPT ![a] = Append(@, TRUE)]
        /\ IF Trips(a) \/ a \notin files
           THEN /\ Expire({op[k].on}) /\ UNCHANGED shared
                /\ op' = [op EXCEPT ![k].pc = "done"]
           ELSE /\ \E r \in Relogins :
                      /\ op[r].pc = "idle"
                      /\ shared' = [shared EXCEPT ![a] = r]
                      /\ op' = [op EXCEPT ![r].pc = "login", ![r].cur = a,
                                          ![k].pc = "waits", ![k].cur = r]
                /\ UNCHANGED <<session, sockets>>
        /\ UNCHANGED <<files, initialized, pool, failed, monitor, used, deleted,
                       cut>>

\* The session is dead.  The attempt is recorded; beyond the budget, or without a
\* file, the call gives up and marks its session expired; else it waits for the
\* relogin of the account, which it begins if none is under way.
SessionDead(k) ==
    LET a == op[k].for
        first == shared[a] = None
    IN  /\ k \in Sends /\ op[k].pc = "wire"
        /\ history' = [history EXCEPT ![a] = Append(@, ~ Trips(a) /\ first)]
        /\ IF Trips(a) \/ (first /\ a \notin files)
           THEN /\ Expire({op[k].on}) /\ UNCHANGED shared
                /\ op' = [op EXCEPT ![k].pc = "done"]
           ELSE /\ IF first
                   THEN \E r \in Relogins :
                        /\ op[r].pc = "idle"
                        /\ shared' = [shared EXCEPT ![a] = r]
                        /\ op' = [op EXCEPT ![r].pc = "login", ![r].cur = a,
                                            ![k].pc = "waits", ![k].cur = r]
                   ELSE /\ op' = [op EXCEPT ![k].pc = "waits", ![k].cur = shared[a]]
                        /\ UNCHANGED shared
                /\ UNCHANGED <<session, sockets>>
        /\ UNCHANGED <<files, initialized, pool, failed, monitor, used, deleted,
                       cut>>

\* The second attempt finds the session dead.
RetryDead(k) ==
    /\ k \in Sends /\ op[k].pc = "retry"
    /\ Expire({op[k].on})
    /\ op' = [op EXCEPT ![k].pc = "done"]
    /\ UNCHANGED <<files, initialized, pool, failed, history, shared, monitor, used,
                   deleted, cut>>

Waiting(r) == {k \in Sends : op[k].pc = "waits" /\ op[k].cur = r}

\* A relogin is over: its waiting calls go to pc, with the session n; whatever
\* relogin of the account is shared is forgotten.
ReloginOver(r, pc, n) ==
    /\ op' = [k \in Ops |->
                 IF k = r THEN Idle
                 ELSE IF k \in Waiting(r)
                      THEN [op[k] EXCEPT !.pc = pc, !.on = IF n = None THEN @ ELSE n]
                      ELSE op[k]]
    /\ shared' = [shared EXCEPT ![op[r].cur] = None]

ReloginSucceeds(r) ==
    /\ r \in Relogins /\ op[r].pc = "info"
    /\ AddInstance(op[r].cur, op[r].on)
    /\ failed' = failed \ {op[r].cur}
    /\ ReloginOver(r, "retry", op[r].on)
    /\ UNCHANGED <<files, initialized, history, monitor, used, deleted, cut>>

\* zalo.login throws: the calls mark the sessions they hold expired.
ReloginFails(r) ==
    /\ r \in Relogins /\ op[r].pc = "login"
    /\ Expire({op[k].on : k \in Waiting(r)})
    /\ ReloginOver(r, "done", None)
    /\ UNCHANGED <<files, initialized, pool, failed, history, monitor, used, deleted,
                   cut>>

\* The oldest attempt leaves the window.
WindowMoves(a) ==
    /\ history[a] # <<>>
    /\ history' = [history EXCEPT ![a] = Tail(@)]
    /\ UNCHANGED <<files, initialized, pool, failed, session, shared, op, monitor,
                   sockets, used, deleted, cut>>

-----------------------------------------------------------------------------
(* QR logins *)

ScanBegins(k, a) ==
    /\ k \in Scans /\ op[k].pc = "idle"
    /\ op' = [op EXCEPT ![k].pc = "scan", ![k].cur = a]
    /\ UNCHANGED <<files, initialized, pool, failed, session, history, shared,
                   monitor, sockets, used, deleted, cut>>

ScanAdds(k) ==
    /\ k \in Scans /\ op[k].pc = "info"
    /\ AddInstance(op[k].cur, op[k].on)
    /\ failed' = failed \ {op[k].cur}
    /\ op' = [op EXCEPT ![k].pc = "done"]
    /\ UNCHANGED <<files, initialized, history, shared, monitor, used, deleted,
                   cut>>

-----------------------------------------------------------------------------
(* The monitor, Zalo, and what ends a session *)

\* shouldRecoverZaloListener: an account that is not expired has no listener.
NeedsRecovery == \E n \in Live : CanStart(n)

\* The check of ListenerHealthMonitor.
Check ==
    /\ monitor /\ initialized /\ NeedsRecovery
    /\ Start(Live)
    /\ UNCHANGED <<files, initialized, pool, failed, history, shared, op, monitor,
                   used, deleted, cut>>

\* The closed handler: a kicked session is stopped and expired, another closed
\* connection is for the monitor to start again.
Closed(n, kicked) ==
    /\ n \in sockets
    /\ sockets' = sockets \ {n}
    /\ session' = [session EXCEPT ![n].running = FALSE, ![n].expired = @ \/ kicked]
    /\ UNCHANGED <<files, initialized, pool, failed, history, shared, op, monitor,
                   used, deleted, cut>>

\* Zalo closes one of two connections of an account.
Duplicate(n) ==
    /\ \E m \in sockets \ {n} : session[m].account = session[n].account
    /\ Closed(n, TRUE)

\* Mutant: the credentials file is kept.
DeleteKeepsFile(a) ==
    /\ a \in failed \/ Pooled(a)
    /\ IF a \in failed
       THEN failed' = failed \ {a} /\ UNCHANGED <<pool, session, sockets, history, shared>>
       ELSE /\ session' = Stopped(session, {pool[a]})
            /\ sockets' = sockets \ Running({pool[a]})
            /\ pool' = [pool EXCEPT ![a] = None]
            /\ history' = [history EXCEPT ![a] = <<>>]
            /\ shared' = [shared EXCEPT ![a] = None]
            /\ UNCHANGED failed
    /\ deleted' = IF Logging(a) = {} /\ ~ (a \in failed /\ Pooled(a))
                  THEN deleted \cup {a} ELSE deleted
    /\ cut' = IF Logging(a) = {} THEN cut ELSE cut \cup {a}
    /\ UNCHANGED <<files, initialized, op, monitor, used>>

\* deleteAccount: a failed account is forgotten with its file; that of the pool
\* is stopped and removed.  A relogin under way goes on, but is no longer shared.
Delete(a) ==
    /\ a \in failed \/ Pooled(a)
    /\ files' = files \ {a}
    /\ IF a \in failed
       THEN failed' = failed \ {a} /\ UNCHANGED <<pool, session, sockets, history, shared>>
       ELSE /\ session' = Stopped(session, {pool[a]})
            /\ sockets' = sockets \ Running({pool[a]})
            /\ pool' = [pool EXCEPT ![a] = None]
            /\ history' = [history EXCEPT ![a] = <<>>]
            /\ shared' = [shared EXCEPT ![a] = None]
            /\ UNCHANGED failed
    /\ deleted' = IF Logging(a) = {} /\ ~ (a \in failed /\ Pooled(a))
                  THEN deleted \cup {a} ELSE deleted
    /\ cut' = IF Logging(a) = {} THEN cut ELSE cut \cup {a}
    /\ UNCHANGED <<initialized, op, monitor, used>>

\* The runtime stops: the monitor, then the listeners of the pool.
Logout ==
    /\ op[Boot].pc = "done"
    /\ monitor' = FALSE
    /\ session' = Stopped(session, Live)
    /\ sockets' = sockets \ Running(Live)
    /\ op' = [op EXCEPT ![Boot] = Idle]
    /\ UNCHANGED <<files, initialized, pool, failed, history, shared, used, deleted,
                   cut>>

Crash ==
    /\ initialized' = FALSE /\ failed' = {} /\ monitor' = FALSE
    /\ pool' = [a \in Accounts |-> None]
    /\ session' = [n \in Sessions |-> NoSession]
    /\ history' = [a \in Accounts |-> <<>>]
    /\ shared' = [a \in Accounts |-> None]
    /\ op' = [k \in Ops |-> IF op[k].pc = "done" THEN op[k] ELSE Idle]
    /\ sockets' = {}
    /\ UNCHANGED <<files, used, deleted, cut>>

-----------------------------------------------------------------------------
Init ==
    /\ files \in SUBSET Accounts
    /\ initialized = FALSE /\ failed = {} /\ monitor = FALSE
    /\ pool = [a \in Accounts |-> None]
    /\ session = [n \in Sessions |-> NoSession]
    /\ history = [a \in Accounts |-> <<>>]
    /\ shared = [a \in Accounts |-> None]
    /\ op = [k \in Ops |-> Idle]
    /\ sockets = {} /\ used = 0 /\ deleted = {} /\ cut = {} /\ mishaps = 0

Step ==
    \/ \E k \in Ops :
          \/ \E a \in Accounts : Enter(k, a) \/ ScanBegins(k, a)
          \/ LoginSucceeds(k) \/ LoadFails(k) \/ LoadAdds(k)
          \/ Select(k) \/ SessionDead(k) \/ RetryDead(k)
          \/ \E success \in BOOLEAN : SendReturns(k, success)
          \/ ReloginSucceeds(k) \/ ReloginFails(k) \/ ScanAdds(k)
    \/ BootReturns
    \/ Check
    \/ \E n \in sockets : Duplicate(n)

Mishap ==
    \/ \E n \in sockets, kicked \in BOOLEAN : Closed(n, kicked)
    \/ \E a \in Accounts : Delete(a) \/ WindowMoves(a)
    \/ Logout
    \/ Crash

Next ==
    \/ Step /\ UNCHANGED mishaps
    \/ mishaps < MaxMishaps /\ Mishap /\ mishaps' = mishaps + 1

Spec == Init /\ [][Next]_vars

-----------------------------------------------------------------------------
\* A session has a websocket exactly if it is marked running, and it is then that
\* of its account in the pool, not expired: no replaced, expired or deleted session
\* keeps listening.
ListenersArePooled ==
    \A n \in Sessions : n \in sockets <=>
        session[n].running /\ ~ session[n].expired /\ pool[session[n].account] = n

\* Zalo never sees two connections of an account from here, which would end one
\* with code 3000: whatever logs in again meanwhile, the session in the pool is
\* torn down first.
OneListener ==
    \A m, n \in sockets : session[m].account = session[n].account => m = n

\* A burst of sends on a dead session logs the account in once at a time, and none
\* of them waits for a relogin that is over; unless the account is deleted.
ReloginShared ==
    /\ \A r \in Relogins : op[r].pc # "idle" =>
           op[r].cur \in cut \/ shared[op[r].cur] = r
    /\ \A k \in Sends : op[k].pc = "waits" => op[op[k].cur].pc # "idle"

\* A deleted account comes back by a QR login only, if no login of it was under
\* way when it was deleted.
DeletedStaysDeleted == \A a \in deleted : ~ Pooled(a) /\ a \notin failed

\* What makes them inductive.  The calls: one that logs in knows its account, and the
\* session it got is in no one else's hands.
Pcs == {"idle", "login", "info", "scan", "loaded", "wire", "waits", "retry", "done"}
Calls == [pc : Pcs, todo : SUBSET Accounts, cur : Accounts \cup Relogins \cup {None},
          for : Accounts \cup {None}, on : 0 .. MaxSessions]

TypeOK ==
    /\ files \subseteq Accounts /\ deleted \subseteq Accounts /\ used \in 0 .. MaxSessions
    /\ pool \in [Accounts -> 0 .. used]
    /\ session \in [Sessions -> [account : Accounts \cup {None}, running : BOOLEAN,
                                 expired : BOOLEAN]]
    /\ sockets \subseteq Sessions
    /\ shared \in [Accounts -> Relogins \cup {None}]
    /\ op \in [Ops -> Calls]

CallOK(k) ==
    /\ op[k].pc = "idle" => op[k] = Idle
    /\ op[k].pc \in {"login", "info", "scan"} => op[k].cur \in Accounts
    /\ op[k].pc = "scan" => k \in Scans /\ op[k].todo = {}
    /\ k \in Sends /\ op[k].pc # "idle" => op[k].for \in Accounts
    /\ k \in Relogins => op[k].pc \in {"idle", "login", "info"}
    /\ op[k].pc = "info" =>
          /\ op[k].on \in 1 .. used
          /\ \A a \in Accounts : pool[a] # op[k].on
          /\ \A j \in Ops : op[j].pc = "info" /\ op[j].on = op[k].on => j = k

CallsInv == \A k \in Ops : CallOK(k)

\* The sessions: one in the pool is of its account.
SessionsInv ==
    /\ \A a \in Accounts : Pooled(a) => session[pool[a]].account = a
    /\ \A n \in Sessions : session[n].running => session[n].account \in Accounts
    /\ ListenersArePooled

\* The relogins: one that is shared is under way, for its account.
SharedInv ==
    /\ \A a \in Accounts : shared[a] # None =>
          op[shared[a]].pc # "idle" /\ op[shared[a]].cur = a
    /\ \A k \in Sends : op[k].pc = "waits" => op[k].cur \in Relogins
    /\ ReloginShared

\* The deleted: no file, and no login, brings one back.
DeletedInv ==
    /\ \A a \in deleted : a \notin files /\ Logging(a) = {}
    /\ DeletedStaysDeleted

IInv == TypeOK /\ CallsInv /\ SessionsInv /\ SharedInv /\ DeletedInv

\* The breaker opens after MaxRelogins relogins.  It does not hold: it counts the
\* sends that share one.
BreakerCountsRelogins ==
    [][\A a \in Accounts : Len(history[a]) = MaxRelogins /\ Len(history'[a]) > MaxRelogins =>
          \A i \in 1 .. MaxRelogins : history[a][i]]_vars
=============================================================================
