------------------------- MODULE ListenerPoolProofs -------------------------
(***************************************************************************)
(* What the account pool guarantees for any accounts, calls, relogins,     *)
(* budgets and mishaps: at most one websocket listens for an account,      *)
(* relogins are shared, and a deleted account stays deleted.               *)
(***************************************************************************)
EXTENDS ListenerPool, TLAPS

-----------------------------------------------------------------------------
(* Sessions *)

\* The sessions in the pool are sessions.
LEMMA PooledAreSessions ==
    ASSUME TypeOK
    PROVE  /\ 1 .. used \subseteq Sessions /\ None \notin Sessions
           /\ \A a \in Accounts : Pooled(a) => pool[a] \in Sessions
<1>1. used \in Nat /\ used <= MaxSessions /\ MaxSessions \in Nat
  BY PoolAssumption DEF TypeOK
<1>2. \A a \in Accounts : pool[a] \in 0 .. used
  BY DEF TypeOK
<1> QED BY <1>1, <1>2 DEF Sessions, None, Pooled

\* Listeners that are started are those of the pool.
LEMMA StartKeeps ==
    ASSUME TypeOK, SessionsInv, Start(Live), UNCHANGED <<pool, used>>
    PROVE  /\ session' \in [Sessions -> [account : Accounts \cup {None}, running : BOOLEAN,
                                         expired : BOOLEAN]]
           /\ sockets' \subseteq Sessions
           /\ SessionsInv'
<1>1. /\ session' = [n \in Sessions |-> IF n \in Live /\ CanStart(n)
                                        THEN [session[n] EXCEPT !.running = TRUE]
                                        ELSE session[n]]
      /\ sockets' = sockets \cup {n \in Live : CanStart(n)}
  BY DEF Start
<1>2. Live \subseteq Sessions
  BY PooledAreSessions DEF Live
<1>3. \A n \in Live : \E a \in Accounts : pool[a] = n /\ session[n].account = a
  BY DEF Live, Pooled, SessionsInv
<1>4. session' \in [Sessions -> [account : Accounts \cup {None}, running : BOOLEAN,
                                 expired : BOOLEAN]]
  BY <1>1 DEF TypeOK
<1>5. \A n \in Sessions : /\ session'[n].account = session[n].account
                          /\ session'[n].expired = session[n].expired
                          /\ session'[n].running <=>
                                session[n].running \/ (n \in Live /\ CanStart(n))
  BY <1>1 DEF TypeOK
<1>6. \A n \in Sessions : n \in sockets' <=> n \in sockets \/ (n \in Live /\ CanStart(n))
  BY <1>1
<1>7. \A a \in Accounts : Pooled(a) => pool[a] \in Sessions
  BY PooledAreSessions
<1>8. ListenersArePooled'
  BY <1>3, <1>5, <1>6 DEF SessionsInv, ListenersArePooled, CanStart
<1>9. \A n \in Sessions : session'[n].running => session'[n].account \in Accounts
  BY <1>3, <1>5 DEF SessionsInv
<1> QED BY <1>1, <1>2, <1>4, <1>5, <1>7, <1>8, <1>9 DEF SessionsInv, TypeOK, Pooled

\* Listeners that are stopped are closed, whatever sessions they are of, and whether or
\* not the session expires and the account leaves the pool.
LEMMA StopKeeps ==
    ASSUME TypeOK, SessionsInv, NEW ns,
           session' \in [Sessions -> [account : Accounts \cup {None}, running : BOOLEAN,
                                      expired : BOOLEAN]],
           \A n \in Sessions : session'[n].account = session[n].account,
           \A n \in Sessions : n \in ns => ~ session'[n].running,
           \A n \in Sessions : n \notin ns => session'[n] = session[n],
           \A n \in Sessions : n \in sockets' <=> n \in sockets /\ n \notin ns,
           \A a \in Accounts : pool'[a] = pool[a] \/ (pool'[a] = None /\ pool[a] \in ns)
    PROVE  SessionsInv'
<1>1. \A a \in Accounts : Pooled(a) => pool[a] \in Sessions
  BY PooledAreSessions
<1>2. \A a \in Accounts : pool'[a] # None => pool'[a] = pool[a]
  OBVIOUS
<1>3. \A a \in Accounts : pool'[a] # None => session'[pool'[a]].account = a
  BY <1>1, <1>2 DEF SessionsInv, Pooled
<1>4. \A n \in Sessions : session'[n].running => session'[n].account \in Accounts
  BY DEF SessionsInv
<1>5. ASSUME NEW n \in Sessions
      PROVE  n \in sockets' <=> /\ session'[n].running /\ ~ session'[n].expired
                                /\ pool'[session'[n].account] = n
  <2>1. CASE n \in ns
    BY <2>1
  <2>2. CASE n \notin ns
    <3>1. session'[n] = session[n] /\ (n \in sockets' <=> n \in sockets) /\ n # None
      BY <2>2 DEF Sessions, None
    <3>2. session[n].running =>
             (pool'[session[n].account] = n <=> pool[session[n].account] = n)
      BY <2>2, <3>1 DEF SessionsInv
    <3> QED BY <3>1, <3>2 DEF SessionsInv, ListenersArePooled
  <2> QED BY <2>1, <2>2
<1> QED BY <1>3, <1>4, <1>5 DEF SessionsInv, ListenersArePooled, Pooled

\* A session that is added takes the place of the one of its account.
LEMMA AddKeeps ==
    ASSUME TypeOK, SessionsInv, NEW a \in Accounts, NEW n \in 1 .. used,
           \A b \in Accounts : pool[b] # n, AddInstance(a, n), used' = used
    PROVE  /\ pool' \in [Accounts -> 0 .. used]
           /\ pool'[a] = n /\ \A b \in Accounts \ {a} : pool'[b] = pool[b]
           /\ session' \in [Sessions -> [account : Accounts \cup {None}, running : BOOLEAN,
                                         expired : BOOLEAN]]
           /\ sockets' \subseteq Sessions
           /\ SessionsInv'
<1>1. /\ pool' = [pool EXCEPT ![a] = n]
      /\ session' = [Stopped(session, {pool[a]}) EXCEPT
                         ![n] = [account |-> a, running |-> TRUE, expired |-> FALSE]]
      /\ sockets' = (sockets \ Running({pool[a]} \ {None})) \cup {n}
  BY DEF AddInstance
<1>2. n \in Sessions /\ n # None
  BY PooledAreSessions
<1>3. pool' \in [Accounts -> 0 .. used] /\ pool'[a] = n
      /\ \A b \in Accounts \ {a} : pool'[b] = pool[b]
  BY <1>1 DEF TypeOK
<1>4. /\ session'[n] = [account |-> a, running |-> TRUE, expired |-> FALSE]
      /\ session' \in [Sessions -> [account : Accounts \cup {None}, running : BOOLEAN,
                                    expired : BOOLEAN]]
      /\ \A m \in Sessions \ {n} : /\ session'[m].account = session[m].account
                                   /\ session'[m].expired = session[m].expired
                                   /\ session'[m].running <=>
                                         session[m].running /\ m # pool[a]
  <2> DEFINE SessionSet == [account : Accounts \cup {None}, running : BOOLEAN, expired : BOOLEAN]
             ss == Stopped(session, {pool[a]})
             new == [account |-> a, running |-> TRUE, expired |-> FALSE]
  <2>1. ASSUME NEW m \in Sessions
        PROVE  /\ ss[m] \in SessionSet
               /\ ss[m].account = session[m].account /\ ss[m].expired = session[m].expired
               /\ ss[m].running <=> session[m].running /\ m # pool[a]
    <3>1. session[m] \in SessionSet
      BY DEF TypeOK
    <3>2. ss[m] = IF m \in {pool[a]} THEN [session[m] EXCEPT !.running = FALSE] ELSE session[m]
      BY DEF Stopped
    <3> HIDE DEF ss
    <3>3. CASE m = pool[a]
      <4>1. ss[m] = [session[m] EXCEPT !.running = FALSE]
        BY <3>2, <3>3
      <4> QED BY <3>1, <3>3, <4>1
    <3>4. CASE m # pool[a]
      BY <3>1, <3>2, <3>4
    <3> QED BY <3>3, <3>4
  <2>2. DOMAIN ss = Sessions /\ ss = [m \in Sessions |-> ss[m]]
    BY DEF Stopped
  <2>3. new \in SessionSet
    OBVIOUS
  <2>4. session' = [ss EXCEPT ![n] = new]
    BY <1>1
  <2> HIDE DEF ss, new, SessionSet
  <2>5. session'[n] = new /\ \A m \in Sessions \ {n} : session'[m] = ss[m]
    BY <1>2, <2>2, <2>4
  <2>6. session' \in [Sessions -> SessionSet]
    BY <2>1, <2>2, <2>3, <2>4
  <2>7. session'[n] = [account |-> a, running |-> TRUE, expired |-> FALSE]
        /\ session' \in [Sessions -> [account : Accounts \cup {None}, running : BOOLEAN,
                                      expired : BOOLEAN]]
    BY <2>5, <2>6 DEF new, SessionSet
  <2>8. \A m \in Sessions \ {n} : /\ session'[m].account = session[m].account
                                  /\ session'[m].expired = session[m].expired
                                  /\ session'[m].running <=>
                                         session[m].running /\ m # pool[a]
    BY <2>1, <2>5
  <2> QED BY <2>7, <2>8
<1>5. \A m \in Sessions : m \in sockets' <=>
          m = n \/ (m \in sockets /\ ~ (m = pool[a] /\ session[m].running))
  BY <1>1, <1>2 DEF Running, Sessions, None
<1>6. \A b \in Accounts : Pooled(b) => pool[b] \in Sessions
  BY PooledAreSessions
<1>7. \A b \in Accounts : pool'[b] # None => session'[pool'[b]].account = b
  BY <1>2, <1>3, <1>4, <1>6 DEF SessionsInv, Pooled
<1>8. \A m \in Sessions : session'[m].running => session'[m].account \in Accounts
  BY <1>4 DEF SessionsInv
<1>9. ASSUME NEW m \in Sessions
      PROVE  m \in sockets' <=> /\ session'[m].running /\ ~ session'[m].expired
                                /\ pool'[session'[m].account] = m
  <2>1. CASE m = n
    BY <1>3, <1>4, <1>5, <2>1
  <2>2. CASE m # n
    <3>1. m \in sockets <=> /\ session[m].running /\ ~ session[m].expired
                            /\ pool[session[m].account] = m
      BY DEF SessionsInv, ListenersArePooled
    <3>2. m = pool[a] => session[m].account = a
      BY <1>2 DEF SessionsInv, Pooled, Sessions, None
    <3>3. session[m].running => session[m].account \in Accounts
      BY DEF SessionsInv
    <3>4. m \in sockets' <=> m \in sockets /\ ~ (m = pool[a] /\ session[m].running)
      BY <1>5, <2>2
    <3>5. /\ session'[m].account = session[m].account
          /\ session'[m].expired = session[m].expired
          /\ session'[m].running <=> session[m].running /\ m # pool[a]
      BY <1>4, <2>2
    <3>6. session[m].running /\ m # pool[a] =>
             (pool'[session[m].account] = m <=> pool[session[m].account] = m)
      BY <1>3, <2>2, <3>3
    <3> QED BY <3>1, <3>4, <3>5, <3>6
  <2> QED BY <2>1, <2>2
<1>10. sockets' \subseteq Sessions
  BY <1>1, <1>2 DEF TypeOK
<1> QED BY <1>3, <1>4, <1>7, <1>8, <1>9, <1>10 DEF SessionsInv, ListenersArePooled, Pooled

-----------------------------------------------------------------------------
(* Calls *)

\* One call goes on, and with it no relogin begins or ends.
LEMMA OneCall ==
    ASSUME IInv, NEW k \in Ops,
           \A j \in Ops \ {k} : op'[j] = op[j],
           k \in Relogins => /\ op[k].pc # "idle" /\ op'[k].pc # "idle"
                            /\ op'[k].cur = op[k].cur,
           op'[k].pc = "waits" => /\ op'[k].cur \in Relogins
                                  /\ op[op'[k].cur].pc # "idle",
           CallOK(k)',
           used' \in Nat, used <= used',
           \A j \in Ops \ {k} : op[j].pc = "info" =>
               /\ \A a \in Accounts : pool'[a] # op[j].on
               /\ op'[k].pc = "info" => op'[k].on # op[j].on,
           shared' = shared, cut \subseteq cut'
    PROVE  CallsInv' /\ SharedInv'
<1>1. used \in Nat
  BY DEF IInv, TypeOK
<1>2. ASSUME NEW j \in Ops, j # k PROVE CallOK(j)'
  <2>1. CallOK(j) /\ op'[j] = op[j]
    BY <1>2 DEF IInv, CallsInv
  <2>2. op[j].pc = "info" =>
           op'[j].on \in 1 .. used' /\ \A a \in Accounts : pool'[a] # op'[j].on
    BY <1>1, <1>2, <2>1 DEF CallOK
  <2>3. op[j].pc = "info" =>
           \A i \in Ops : op'[i].pc = "info" /\ op'[i].on = op'[j].on => i = j
    BY <1>2, <2>1 DEF CallOK
  <2> QED BY <2>1, <2>2, <2>3 DEF CallOK
<1>3. \A r \in Relogins : /\ op'[r].cur = op[r].cur
                          /\ op'[r].pc # "idle" <=> op[r].pc # "idle"
  BY DEF Ops
<1>4. \A a \in Accounts : shared[a] # None => shared[a] \in Relogins
  BY DEF IInv, TypeOK
<1>5. ASSUME NEW j \in Sends, op'[j].pc = "waits"
      PROVE  op'[j].cur \in Relogins /\ op'[op'[j].cur].pc # "idle"
  <2>1. CASE j = k
    BY <1>3, <1>5, <2>1
  <2>2. CASE j # k
    <3>1. op'[j] = op[j]
      BY <2>2 DEF Ops
    <3>2. op[j].cur \in Relogins /\ op[op[j].cur].pc # "idle"
      BY <1>5, <3>1 DEF IInv, SharedInv, ReloginShared
    <3> QED BY <1>3, <3>1, <3>2
  <2> QED BY <2>1, <2>2
<1>6. \A a \in Accounts : shared'[a] # None =>
          op'[shared'[a]].pc # "idle" /\ op'[shared'[a]].cur = a
  BY <1>3, <1>4 DEF IInv, SharedInv
<1>7. \A r \in Relogins : op'[r].pc # "idle" =>
          op'[r].cur \in cut' \/ shared'[op'[r].cur] = r
  BY <1>3 DEF IInv, SharedInv, ReloginShared
<1> QED BY <1>2, <1>5, <1>6, <1>7 DEF CallsInv, SharedInv, ReloginShared

\* Nothing brings a deleted account back.
LEMMA StaysDeleted ==
    ASSUME IInv, NEW k \in Ops,
           \A j \in Ops \ {k} : op'[j] = op[j],
           deleted' \subseteq deleted,
           \A a \in deleted' : /\ a \notin files' /\ a \notin failed' /\ pool'[a] = None
                               /\ op'[k].pc \in {"login", "info"} =>
                                     a # op'[k].cur /\ a \notin op'[k].todo
    PROVE  DeletedInv'
<1> SUFFICES ASSUME NEW a \in deleted' PROVE Logging(a)' = {}
  BY DEF DeletedInv, DeletedStaysDeleted, Pooled
<1>1. Logging(a) = {}
  BY DEF IInv, DeletedInv
<1>2. ASSUME NEW j \in Ops, op'[j].pc \in {"login", "info"}
      PROVE  a # op'[j].cur /\ a \notin op'[j].todo
  BY <1>1, <1>2 DEF Logging
<1> QED BY <1>2 DEF Logging

\* No one logs a deleted account in.
LEMMA NotLogging ==
    ASSUME IInv, NEW a \in deleted, NEW k \in Ops
    PROVE  /\ a \notin files /\ a \notin failed /\ pool[a] = None
           /\ op[k].pc \in {"login", "info"} => a # op[k].cur /\ a \notin op[k].todo
BY DEF IInv, DeletedInv, DeletedStaysDeleted, Logging, Pooled

\* The sessions are as they were.
LEMMA SessionsKept ==
    ASSUME IInv, UNCHANGED <<pool, session, sockets>> PROVE SessionsInv'
BY DEF IInv, SessionsInv, ListenersArePooled, Pooled

\* A call that is no relogin, waits for none, and has no login under way.
LEMMA Elsewhere ==
    ASSUME IInv, NEW k \in Ops \ Relogins,
           op' \in [Ops -> Calls], \A j \in Ops \ {k} : op'[j] = op[j],
           op'[k].pc \in {"loaded", "wire", "done"} \/ op'[k] = Idle,
           k \in Sends => op'[k].for \in Accounts,
           UNCHANGED <<files, pool, used, shared, deleted, cut>>,
           failed' \subseteq failed
    PROVE  CallsInv' /\ SharedInv' /\ DeletedInv'
<1>1. Idle.pc = "idle"
  BY DEF Idle
<1>2. CallOK(k)'
  BY <1>1 DEF CallOK
<1>3. used' \in Nat /\ used <= used'
  BY PoolAssumption DEF IInv, TypeOK
<1>4. \A j \in Ops \ {k} : op[j].pc = "info" => \A a \in Accounts : pool'[a] # op[j].on
  BY DEF IInv, CallsInv, CallOK
<1>5. CallsInv' /\ SharedInv'
  BY <1>1, <1>2, <1>3, <1>4, OneCall
<1>6. DeletedInv'
  BY <1>1, NotLogging, StaysDeleted
<1> QED BY <1>5, <1>6

\* Who is no relogin.
LEMMA Distinct ==
    /\ \A k \in Ops : Loading(k) => k \notin Relogins
    /\ Boot \in Ops \ Relogins /\ Boot \notin Sends
    /\ Sends \subseteq Ops \ Relogins /\ Scans \subseteq Ops \ Relogins
BY PoolAssumption DEF Loading, Ops

\* A call enters: it is done with loading, or begins with a file.
LEMMA EnterStep ==
    ASSUME IInv, NEW k \in Ops, NEW a \in Accounts, Enter(k, a) PROVE IInv'
<1>1. k \notin Relogins
  BY Distinct DEF Enter
<1>2. op[k] = Idle /\ op[k] \in Calls
  BY DEF Enter, IInv, CallsInv, CallOK, TypeOK
<1>3. /\ UNCHANGED <<files, pool, session, history, shared, monitor, sockets, used,
                     deleted, cut, failed>>
  BY DEF Enter
<1>4. CASE op' = [op EXCEPT ![k].pc = "loaded", ![k].for = a]
  <2>1. /\ op' \in [Ops -> Calls] /\ \A j \in Ops \ {k} : op'[j] = op[j]
        /\ op'[k].pc = "loaded" /\ op'[k].for = a
    BY <1>2, <1>4 DEF IInv, TypeOK, Calls, Pcs, Idle
  <2>2. CallsInv' /\ SharedInv' /\ DeletedInv'
    BY <1>1, <1>3, <2>1, Elsewhere
  <2> QED BY <1>3, <2>1, <2>2, SessionsKept DEF IInv, TypeOK
<1>5. ASSUME NEW b \in files,
             op' = [op EXCEPT ![k] = [pc |-> "login", todo |-> files \ {b}, cur |-> b,
                                      for |-> a, on |-> None]]
      PROVE  IInv'
  <2> DEFINE c == [pc |-> "login", todo |-> files \ {b}, cur |-> b, for |-> a, on |-> None]
  <2>1. c \in Calls
    <3>1. files \ {b} \in SUBSET Accounts /\ b \in Accounts /\ None \in 0 .. MaxSessions
      BY PoolAssumption DEF IInv, TypeOK, None
    <3> QED BY <3>1 DEF Calls, Pcs
  <2>2. op' \in [Ops -> Calls] /\ op'[k] = c /\ \A j \in Ops \ {k} : op'[j] = op[j]
    BY <1>5, <2>1 DEF IInv, TypeOK
  <2>3. b \in Accounts
    BY DEF IInv, TypeOK
  <2>4. CallOK(k)'
    BY <1>1, <2>1, <2>2, <2>3 DEF CallOK
  <2>5. CallsInv' /\ SharedInv'
    <3>1. used' \in Nat /\ used <= used'
      BY <1>3, PoolAssumption DEF IInv, TypeOK
    <3>2. \A j \in Ops \ {k} : op[j].pc = "info" =>
             \A d \in Accounts : pool'[d] # op[j].on
      BY <1>3 DEF IInv, CallsInv, CallOK
    <3> QED BY <1>1, <1>3, <2>1, <2>2, <2>4, <3>1, <3>2, OneCall
  <2>6. DeletedInv'
    BY <1>3, <2>1, <2>2, NotLogging, StaysDeleted
  <2> QED BY <1>3, <2>2, <2>5, <2>6, SessionsKept DEF IInv, TypeOK
<1> QED BY <1>4, <1>5 DEF Enter

\* A QR login begins.
LEMMA ScanBeginsStep ==
    ASSUME IInv, NEW k \in Ops, NEW a \in Accounts, ScanBegins(k, a) PROVE IInv'
<1>1. k \in Scans /\ k \notin Relogins /\ k \notin Sends
  BY PoolAssumption, Distinct DEF ScanBegins
<1>2. op[k] = Idle /\ op[k] \in Calls
  BY DEF ScanBegins, IInv, CallsInv, CallOK, TypeOK
<1>3. op' = [op EXCEPT ![k].pc = "scan", ![k].cur = a]
      /\ UNCHANGED <<files, initialized, pool, failed, session, history, shared, monitor,
                     sockets, used, deleted, cut>>
  BY DEF ScanBegins
<1>4. /\ op' \in [Ops -> Calls] /\ \A j \in Ops \ {k} : op'[j] = op[j]
      /\ op'[k].pc = "scan" /\ op'[k].cur = a /\ op'[k].todo = {}
  <2> DEFINE c == [Idle EXCEPT !.pc = "scan", !.cur = a]
  <2>1. op' = [op EXCEPT ![k] = c]
    BY <1>2, <1>3 DEF IInv, TypeOK
  <2>2. c \in Calls /\ c.pc = "scan" /\ c.cur = a /\ c.todo = {}
    BY <1>2 DEF Calls, Pcs, Idle
  <2> HIDE DEF c
  <2> QED BY <2>1, <2>2 DEF IInv, TypeOK
<1>5. CallOK(k)'
  BY <1>1, <1>4 DEF CallOK
<1>6. CallsInv' /\ SharedInv'
  <2>1. used' \in Nat /\ used <= used'
    BY <1>3, PoolAssumption DEF IInv, TypeOK
  <2>2. \A j \in Ops \ {k} : op[j].pc = "info" => \A d \in Accounts : pool'[d] # op[j].on
    BY <1>3 DEF IInv, CallsInv, CallOK
  <2> QED BY <1>1, <1>3, <1>4, <1>5, <2>1, <2>2, OneCall
<1>7. DeletedInv'
  BY <1>3, <1>4, NotLogging, StaysDeleted
<1> QED BY <1>3, <1>4, <1>6, <1>7, SessionsKept DEF IInv, TypeOK

\* A login succeeds: the session is new.
LEMMA LoginSucceedsStep ==
    ASSUME IInv, NEW k \in Ops, LoginSucceeds(k) PROVE IInv'
<1>1. /\ op[k].pc \in {"login", "scan"} /\ used < MaxSessions /\ used' = used + 1
      /\ op' = [op EXCEPT ![k].pc = "info", ![k].on = used + 1]
      /\ UNCHANGED <<pool, session, sockets, shared, cut, failed>>
      /\ files' = IF k \in Scans THEN files \cup {op[k].cur} ELSE files
      /\ deleted' = IF k \in Scans THEN deleted \ {op[k].cur} ELSE deleted
  BY DEF LoginSucceeds
<1>2. used \in Nat /\ used + 1 \in 0 .. MaxSessions /\ op[k] \in Calls /\ CallOK(k)
  BY <1>1, PoolAssumption DEF IInv, TypeOK, CallsInv
<1>3. /\ op' \in [Ops -> Calls] /\ \A j \in Ops \ {k} : op'[j] = op[j]
      /\ op'[k].pc = "info" /\ op'[k].on = used + 1
      /\ op'[k].cur = op[k].cur /\ op'[k].todo = op[k].todo /\ op'[k].for = op[k].for
  <2> DEFINE c == [op[k] EXCEPT !.pc = "info", !.on = used + 1]
  <2>1. c \in Calls /\ op' = [op EXCEPT ![k] = c]
    BY <1>1, <1>2 DEF Calls, Pcs, IInv, TypeOK
  <2>2. /\ c.pc = "info" /\ c.on = used + 1
        /\ c.cur = op[k].cur /\ c.todo = op[k].todo /\ c.for = op[k].for
    BY <1>2 DEF Calls
  <2> HIDE DEF c
  <2> QED BY <2>1, <2>2 DEF IInv, TypeOK
<1>4. \A j \in Ops \ {k} : op[j].pc = "info" =>
          op[j].on \in 1 .. used /\ \A a \in Accounts : pool'[a] # op[j].on
  BY <1>1 DEF IInv, CallsInv, CallOK
<1>5. \A a \in Accounts : pool'[a] # used + 1 /\ pool'[a] \in 0 .. used'
  BY <1>1, <1>2 DEF IInv, TypeOK
<1>6. CallOK(k)'
  BY <1>1, <1>2, <1>3, <1>4, <1>5 DEF CallOK
<1>7. CallsInv' /\ SharedInv'
  BY <1>1, <1>2, <1>3, <1>4, <1>6, OneCall
<1>8. DeletedInv'
  <2>1. k \notin Scans => op[k].pc = "login"
    BY <1>1, <1>2 DEF CallOK
  <2>2. op[k].pc = "scan" => op[k].todo = {}
    BY <1>2 DEF CallOK
  <2> QED BY <1>1, <1>3, <2>1, <2>2, NotLogging, StaysDeleted
<1>9. files' \subseteq Accounts
  BY <1>1, <1>2 DEF IInv, TypeOK, CallOK
<1> QED BY <1>1, <1>2, <1>3, <1>5, <1>7, <1>8, <1>9, SessionsKept DEF IInv, TypeOK

\* The loading goes on with a file that is there, or is over.
LEMMA FileStep ==
    ASSUME IInv, NEW k \in Ops, NEW fail, NextFile(k, op[k].todo, fail)
    PROVE  /\ op' \in [Ops -> Calls] /\ \A j \in Ops \ {k} : op'[j] = op[j]
           /\ op'[k].for = op[k].for
           /\ \/ op'[k].pc = "loaded"
              \/ /\ op'[k].pc = "login" /\ op'[k].cur \in op[k].todo \cap files
                 /\ op'[k].todo \subseteq op[k].todo
           /\ failed' = fail \cup (op[k].todo \ files)
<1> DEFINE todo == op[k].todo
<1>1. op[k] \in Calls /\ todo \subseteq Accounts /\ op \in [Ops -> Calls]
  BY DEF IInv, TypeOK, Calls
<1>2. ASSUME op' = [op EXCEPT ![k].pc = "loaded", ![k].todo = {}, ![k].cur = None]
      PROVE  /\ op' \in [Ops -> Calls] /\ \A j \in Ops \ {k} : op'[j] = op[j]
             /\ op'[k].for = op[k].for /\ op'[k].pc = "loaded"
  <2> DEFINE c == [op[k] EXCEPT !.pc = "loaded", !.todo = {}, !.cur = None]
  <2>1. op' = [op EXCEPT ![k] = c]
    BY <1>1, <1>2
  <2>2. c \in Calls /\ c.pc = "loaded" /\ c.for = op[k].for
    BY <1>1 DEF Calls, Pcs
  <2> HIDE DEF c
  <2> QED BY <1>1, <2>1, <2>2
<1>3. ASSUME NEW a \in todo \cap files,
             op' = [op EXCEPT ![k].pc = "login", ![k].cur = a,
                              ![k].todo = (todo \cap files) \ {a}]
      PROVE  /\ op' \in [Ops -> Calls] /\ \A j \in Ops \ {k} : op'[j] = op[j]
             /\ op'[k].for = op[k].for /\ op'[k].pc = "login" /\ op'[k].cur = a
             /\ op'[k].todo \subseteq todo
  <2> DEFINE rest == (todo \cap files) \ {a}
             c == [op[k] EXCEPT !.pc = "login", !.cur = a, !.todo = rest]
  <2>1. op' = [op EXCEPT ![k] = c]
    BY <1>1, <1>3
  <2>2. rest \subseteq todo /\ rest \subseteq Accounts /\ a \in Accounts
    BY <1>1
  <2> HIDE DEF rest
  <2>3. c \in Calls /\ c.pc = "login" /\ c.for = op[k].for /\ c.cur = a /\ c.todo = rest
    BY <1>1, <2>2 DEF Calls, Pcs
  <2> HIDE DEF c
  <2> QED BY <1>1, <2>1, <2>2, <2>3
<1>4. failed' = fail \cup (todo \ files)
  BY DEF NextFile
<1>5. \/ op' = [op EXCEPT ![k].pc = "loaded", ![k].todo = {}, ![k].cur = None]
      \/ \E a \in todo \cap files :
            op' = [op EXCEPT ![k].pc = "login", ![k].cur = a,
                             ![k].todo = (todo \cap files) \ {a}]
  BY DEF NextFile
<1> QED BY <1>2, <1>3, <1>4, <1>5

\* A loading call that has no session in hand any more.
LEMMA Loads ==
    ASSUME IInv, NEW k \in Ops, Loading(k), op[k].pc \in {"login", "info"},
           NEW fail, fail \subseteq failed \cup {op[k].cur},
           NextFile(k, op[k].todo, fail),
           UNCHANGED <<files, used, shared, deleted, cut>>,
           \A j \in Ops \ {k} : op[j].pc = "info" => \A a \in Accounts : pool'[a] # op[j].on,
           \A a \in Accounts \ {op[k].cur} : pool'[a] = pool[a]
    PROVE  op' \in [Ops -> Calls] /\ CallsInv' /\ SharedInv' /\ DeletedInv'
<1>1. /\ op' \in [Ops -> Calls] /\ \A j \in Ops \ {k} : op'[j] = op[j]
      /\ op'[k].for = op[k].for
      /\ \/ op'[k].pc = "loaded"
         \/ /\ op'[k].pc = "login" /\ op'[k].cur \in op[k].todo \cap files
            /\ op'[k].todo \subseteq op[k].todo
      /\ failed' = fail \cup (op[k].todo \ files)
  BY FileStep
<1>2. k \notin Relogins /\ op[k] \in Calls /\ CallOK(k) /\ files \subseteq Accounts
  BY Distinct DEF IInv, TypeOK, CallsInv
<1>3. CallOK(k)'
  BY <1>1, <1>2 DEF CallOK
<1>4. used' \in Nat /\ used <= used'
  BY PoolAssumption DEF IInv, TypeOK
<1>5. op'[k].pc \notin {"info", "waits"}
  BY <1>1
<1>6. CallsInv' /\ SharedInv'
  BY <1>1, <1>2, <1>3, <1>4, <1>5, OneCall
<1>7. \A a \in deleted : pool'[a] = None
  <2>1. \A a \in deleted : a # op[k].cur /\ pool[a] = None
    BY NotLogging
  <2> QED BY <2>1 DEF IInv, TypeOK
<1>8. DeletedInv'
  BY <1>1, <1>7, NotLogging, StaysDeleted
<1> QED BY <1>1, <1>6, <1>8

LEMMA LoadFailsStep ==
    ASSUME IInv, NEW k \in Ops, LoadFails(k) PROVE IInv'
<1>1. /\ Loading(k) /\ op[k].pc = "login"
      /\ NextFile(k, op[k].todo, failed \cup {op[k].cur})
      /\ UNCHANGED <<files, pool, session, sockets, used, shared, deleted, cut>>
  BY DEF LoadFails
<1>2. \A j \in Ops \ {k} : op[j].pc = "info" => \A a \in Accounts : pool'[a] # op[j].on
  BY <1>1 DEF IInv, CallsInv, CallOK
<1>3. op' \in [Ops -> Calls] /\ CallsInv' /\ SharedInv' /\ DeletedInv'
  BY <1>1, <1>2, Loads
<1> QED BY <1>1, <1>3, SessionsKept DEF IInv, TypeOK

LEMMA LoadAddsStep ==
    ASSUME IInv, NEW k \in Ops, LoadAdds(k) PROVE IInv'
<1> DEFINE a == op[k].cur
           n == op[k].on
<1>1. /\ Loading(k) /\ op[k].pc = "info" /\ AddInstance(a, n)
      /\ NextFile(k, op[k].todo, failed \ {a})
      /\ UNCHANGED <<files, used, shared, deleted, cut>>
  BY DEF LoadAdds
<1>2. /\ a \in Accounts /\ n \in 1 .. used /\ \A b \in Accounts : pool[b] # n
      /\ \A j \in Ops : op[j].pc = "info" /\ op[j].on = n => j = k
  BY <1>1 DEF IInv, CallsInv, CallOK
<1>3. /\ pool' \in [Accounts -> 0 .. used]
      /\ pool'[a] = n /\ \A b \in Accounts \ {a} : pool'[b] = pool[b]
      /\ session' \in [Sessions -> [account : Accounts \cup {None}, running : BOOLEAN,
                                    expired : BOOLEAN]]
      /\ sockets' \subseteq Sessions
      /\ SessionsInv'
  BY <1>1, <1>2, AddKeeps DEF IInv
<1>4. \A j \in Ops \ {k} : op[j].pc = "info" => \A b \in Accounts : pool'[b] # op[j].on
  BY <1>2, <1>3 DEF IInv, CallsInv, CallOK
<1>5. op' \in [Ops -> Calls] /\ CallsInv' /\ SharedInv' /\ DeletedInv'
  BY <1>1, <1>3, <1>4, Loads
<1> QED BY <1>1, <1>3, <1>5 DEF IInv, TypeOK

LEMMA ScanAddsStep ==
    ASSUME IInv, NEW k \in Ops, ScanAdds(k) PROVE IInv'
<1> DEFINE a == op[k].cur
           n == op[k].on
<1>1. /\ k \in Scans /\ op[k].pc = "info" /\ AddInstance(a, n)
      /\ failed' = failed \ {a} /\ op' = [op EXCEPT ![k].pc = "done"]
      /\ UNCHANGED <<files, used, shared, deleted, cut>>
  BY DEF ScanAdds
<1>2. /\ a \in Accounts /\ n \in 1 .. used /\ \A b \in Accounts : pool[b] # n
      /\ \A j \in Ops : op[j].pc = "info" /\ op[j].on = n => j = k
  BY <1>1 DEF IInv, CallsInv, CallOK
<1>3. /\ pool' \in [Accounts -> 0 .. used]
      /\ pool'[a] = n /\ \A b \in Accounts \ {a} : pool'[b] = pool[b]
      /\ session' \in [Sessions -> [account : Accounts \cup {None}, running : BOOLEAN,
                                    expired : BOOLEAN]]
      /\ sockets' \subseteq Sessions
      /\ SessionsInv'
  BY <1>1, <1>2, AddKeeps DEF IInv
<1>4. \A j \in Ops \ {k} : op[j].pc = "info" => \A b \in Accounts : pool'[b] # op[j].on
  BY <1>2, <1>3 DEF IInv, CallsInv, CallOK
<1>5. /\ op' \in [Ops -> Calls] /\ \A j \in Ops \ {k} : op'[j] = op[j]
      /\ op'[k].pc = "done"
  BY <1>1 DEF IInv, TypeOK, Calls, Pcs
<1>6. k \notin Relogins /\ k \notin Sends
  BY <1>1, PoolAssumption
<1>7. CallOK(k)'
  BY <1>5, <1>6 DEF CallOK
<1>8. used' \in Nat /\ used <= used'
  BY <1>1, PoolAssumption DEF IInv, TypeOK
<1>9. CallsInv' /\ SharedInv'
  BY <1>1, <1>4, <1>5, <1>6, <1>7, <1>8, OneCall
<1>10. \A d \in deleted : pool'[d] = None
  <2>1. \A d \in deleted : d # a /\ pool[d] = None
    BY <1>1, NotLogging
  <2> QED BY <1>3, <2>1 DEF IInv, TypeOK
<1>11. DeletedInv'
  BY <1>1, <1>5, <1>10, NotLogging, StaysDeleted
<1> QED BY <1>1, <1>3, <1>5, <1>9, <1>11 DEF IInv, TypeOK

-----------------------------------------------------------------------------
(* Sends *)

LEMMA SelectStep ==
    ASSUME IInv, NEW k \in Ops, Select(k) PROVE IInv'
<1> DEFINE c == [op[k] EXCEPT !.pc = IF Pooled(op[k].for) THEN "wire" ELSE "done",
                              !.on = pool[op[k].for]]
<1>1. /\ k \in Sends /\ op[k].pc = "loaded" /\ op' = [op EXCEPT ![k] = c]
      /\ UNCHANGED <<files, pool, failed, session, sockets, used, shared, deleted, cut>>
  BY DEF Select, IInv, TypeOK
<1>2. k \in Ops \ Relogins /\ op[k] \in Calls /\ op[k].for \in Accounts
  BY <1>1, Distinct DEF IInv, TypeOK, CallsInv, CallOK
<1>3. pool[op[k].for] \in 0 .. MaxSessions
  BY <1>2, PoolAssumption DEF IInv, TypeOK
<1>4. c \in Calls /\ c.pc \in {"wire", "done"} /\ c.for = op[k].for
  BY <1>2, <1>3 DEF Calls, Pcs
<1> HIDE DEF c
<1>5. /\ op' \in [Ops -> Calls] /\ \A j \in Ops \ {k} : op'[j] = op[j]
      /\ op'[k].pc \in {"wire", "done"} /\ op'[k].for \in Accounts
  BY <1>1, <1>2, <1>4 DEF IInv, TypeOK
<1>6. CallsInv' /\ SharedInv' /\ DeletedInv'
  BY <1>1, <1>2, <1>5, Elsewhere
<1> QED BY <1>1, <1>5, <1>6, SessionsKept DEF IInv, TypeOK

\* A send that is over.
LEMMA SendOver ==
    ASSUME IInv, NEW k \in Sends, op[k].pc # "idle", op' = [op EXCEPT ![k].pc = "done"],
           UNCHANGED <<files, pool, failed, used, shared, deleted, cut>>
    PROVE  op' \in [Ops -> Calls] /\ CallsInv' /\ SharedInv' /\ DeletedInv'
<1>1. k \in Ops \ Relogins
  BY Distinct
<1>2. op[k].for \in Accounts
  BY <1>1 DEF IInv, CallsInv, CallOK
<1>3. /\ op' \in [Ops -> Calls] /\ \A j \in Ops \ {k} : op'[j] = op[j]
      /\ op'[k].pc = "done" /\ op'[k].for = op[k].for
  <2>1. op[k] \in Calls /\ op \in [Ops -> Calls]
    BY <1>1 DEF IInv, TypeOK
  <2>2. [op[k] EXCEPT !.pc = "done"] \in Calls
    BY <2>1 DEF Calls, Pcs
  <2>3. op[k].for = [op[k] EXCEPT !.pc = "done"].for /\ [op[k] EXCEPT !.pc = "done"].pc = "done"
    BY <2>1 DEF Calls
  <2> QED BY <1>1, <2>1, <2>2, <2>3
<1> QED BY <1>1, <1>2, <1>3, Elsewhere

LEMMA SendReturnsStep ==
    ASSUME IInv, NEW k \in Ops, NEW success \in BOOLEAN, SendReturns(k, success) PROVE IInv'
<1>1. /\ k \in Sends /\ op[k].pc # "idle" /\ op' = [op EXCEPT ![k].pc = "done"]
      /\ UNCHANGED <<files, pool, failed, session, sockets, used, shared, deleted, cut>>
  BY DEF SendReturns
<1>2. op' \in [Ops -> Calls] /\ CallsInv' /\ SharedInv' /\ DeletedInv'
  BY <1>1, SendOver
<1> QED BY <1>1, <1>2, SessionsKept DEF IInv, TypeOK

\* Sessions that expire.
LEMMA ExpireKeeps ==
    ASSUME IInv, NEW ns, Expire(ns), pool' = pool
    PROVE  /\ session' \in [Sessions -> [account : Accounts \cup {None}, running : BOOLEAN,
                                         expired : BOOLEAN]]
           /\ sockets' \subseteq Sessions
           /\ SessionsInv'
<1>1. /\ session' = [n \in Sessions |-> IF n \in ns
                         THEN [session[n] EXCEPT !.running = FALSE, !.expired = TRUE]
                         ELSE session[n]]
      /\ sockets' = sockets \ Running(ns)
  BY DEF Expire
<1>2. session' \in [Sessions -> [account : Accounts \cup {None}, running : BOOLEAN,
                                 expired : BOOLEAN]]
  BY <1>1 DEF IInv, TypeOK
<1>3. /\ \A n \in Sessions : session'[n].account = session[n].account
      /\ \A n \in Sessions : n \in ns => ~ session'[n].running
      /\ \A n \in Sessions : n \notin ns => session'[n] = session[n]
  BY <1>1 DEF IInv, TypeOK
<1>4. \A n \in Sessions : n \in sockets' <=> n \in sockets /\ n \notin ns
  BY <1>1 DEF Running, IInv, SessionsInv, ListenersArePooled
<1>5. SessionsInv'
  BY <1>2, <1>3, <1>4, StopKeeps DEF IInv
<1> QED BY <1>1, <1>2, <1>5 DEF IInv, TypeOK

LEMMA RetryDeadStep ==
    ASSUME IInv, NEW k \in Ops, RetryDead(k) PROVE IInv'
<1>1. /\ k \in Sends /\ op[k].pc # "idle" /\ op' = [op EXCEPT ![k].pc = "done"]
      /\ Expire({op[k].on})
      /\ UNCHANGED <<files, pool, failed, used, shared, deleted, cut>>
  BY DEF RetryDead
<1>2. op' \in [Ops -> Calls] /\ CallsInv' /\ SharedInv' /\ DeletedInv'
  BY <1>1, SendOver
<1>3. /\ session' \in [Sessions -> [account : Accounts \cup {None}, running : BOOLEAN,
                                    expired : BOOLEAN]]
      /\ sockets' \subseteq Sessions
      /\ SessionsInv'
  BY <1>1, ExpireKeeps
<1> QED BY <1>1, <1>2, <1>3 DEF IInv, TypeOK

\* A dead session: given up, or a relogin is shared or begun.
LEMMA SessionDeadStep ==
    ASSUME IInv, NEW k \in Ops, SessionDead(k) PROVE IInv'
<1> DEFINE a == op[k].for
<1>1. /\ k \in Sends /\ op[k].pc = "wire" /\ a \in Accounts
      /\ UNCHANGED <<files, pool, failed, used, deleted, cut>>
      /\ k \in Ops \ Relogins /\ op[k] \in Calls
  BY Distinct DEF SessionDead, IInv, TypeOK, CallsInv, CallOK
<1>2. CASE /\ Expire({op[k].on}) /\ UNCHANGED shared
           /\ op' = [op EXCEPT ![k].pc = "done"]
  <2>1. op' \in [Ops -> Calls] /\ CallsInv' /\ SharedInv' /\ DeletedInv'
    BY <1>1, <1>2, SendOver
  <2>2. /\ session' \in [Sessions -> [account : Accounts \cup {None}, running : BOOLEAN,
                                      expired : BOOLEAN]]
        /\ sockets' \subseteq Sessions
        /\ SessionsInv'
    BY <1>1, <1>2, ExpireKeeps
  <2> QED BY <1>1, <1>2, <2>1, <2>2 DEF IInv, TypeOK
<1>3. CASE /\ shared[a] # None
           /\ op' = [op EXCEPT ![k].pc = "waits", ![k].cur = shared[a]]
           /\ UNCHANGED <<shared, session, sockets>>
  <2>1. shared[a] \in Relogins /\ op[shared[a]].pc # "idle"
    BY <1>1, <1>3 DEF IInv, TypeOK, SharedInv
  <2> DEFINE c == [op[k] EXCEPT !.pc = "waits", !.cur = shared[a]]
  <2>2. op' = [op EXCEPT ![k] = c]
    BY <1>1, <1>3 DEF IInv, TypeOK
  <2>3. c \in Calls /\ c.pc = "waits" /\ c.cur = shared[a] /\ c.for = a
    BY <1>1, <2>1 DEF Calls, Pcs
  <2> HIDE DEF c
  <2>4. /\ op' \in [Ops -> Calls] /\ \A j \in Ops \ {k} : op'[j] = op[j]
        /\ op'[k].pc = "waits" /\ op'[k].cur = shared[a] /\ op'[k].for = a
    BY <1>1, <2>2, <2>3 DEF IInv, TypeOK
  <2>5. CallOK(k)'
    BY <1>1, <2>4 DEF CallOK
  <2>6. used' \in Nat /\ used <= used'
    BY <1>1, PoolAssumption DEF IInv, TypeOK
  <2>7. \A j \in Ops \ {k} : op[j].pc = "info" => \A d \in Accounts : pool'[d] # op[j].on
    BY <1>1 DEF IInv, CallsInv, CallOK
  <2>8. CallsInv' /\ SharedInv'
    BY <1>1, <1>3, <2>1, <2>4, <2>5, <2>6, <2>7, OneCall
  <2>9. DeletedInv'
    BY <1>1, <2>4, NotLogging, StaysDeleted
  <2> QED BY <1>1, <1>3, <2>4, <2>8, <2>9, SessionsKept DEF IInv, TypeOK
<1>4. ASSUME NEW r \in Relogins, op[r].pc = "idle", shared[a] = None, a \in files,
             shared' = [shared EXCEPT ![a] = r],
             op' = [op EXCEPT ![r].pc = "login", ![r].cur = a,
                              ![k].pc = "waits", ![k].cur = r],
             UNCHANGED <<session, sockets>>
      PROVE  IInv'
  <2> DEFINE cr == [op[r] EXCEPT !.pc = "login", !.cur = a]
             ck == [op[k] EXCEPT !.pc = "waits", !.cur = r]
  <2>1. r \in Ops /\ r # k /\ op[r] \in Calls /\ op[r] = Idle
    BY <1>1, <1>4 DEF Ops, IInv, TypeOK, CallsInv, CallOK
  <2>2. op' = [op EXCEPT ![r] = cr, ![k] = ck]
    BY <1>1, <1>4, <2>1 DEF IInv, TypeOK
  <2>3. cr \in Calls /\ cr.pc = "login" /\ cr.cur = a /\ cr.todo = {}
    <3>1. op[r].todo = {}
      BY <2>1 DEF Idle
    <3> QED BY <1>1, <2>1, <3>1 DEF Calls, Pcs
  <2>4. ck \in Calls /\ ck.pc = "waits" /\ ck.cur = r /\ ck.for = a
    BY <1>1 DEF Calls, Pcs
  <2> HIDE DEF cr, ck
  <2>5. /\ op' \in [Ops -> Calls] /\ \A j \in Ops \ {k, r} : op'[j] = op[j]
        /\ op'[k].pc = "waits" /\ op'[k].cur = r /\ op'[k].for = a
        /\ op'[r].pc = "login" /\ op'[r].cur = a /\ op'[r].todo = {}
    BY <1>1, <2>1, <2>2, <2>3, <2>4 DEF IInv, TypeOK
  <2>6. shared' \in [Accounts -> Relogins \cup {None}] /\ shared'[a] = r
        /\ \A d \in Accounts \ {a} : shared'[d] = shared[d]
    BY <1>1, <1>4 DEF IInv, TypeOK
  <2>7. CallsInv'
    <3> SUFFICES ASSUME NEW j \in Ops PROVE CallOK(j)'
      BY DEF CallsInv
    <3>1. CASE j \in {k, r}
      BY <1>1, <2>1, <2>5, <3>1, PoolAssumption DEF CallOK, Idle
    <3>2. CASE j \notin {k, r}
      <4>1. CallOK(j) /\ op'[j] = op[j]
        BY <2>5, <3>2 DEF IInv, CallsInv
      <4>2. \A i \in Ops : op'[i].pc = "info" => op[i].pc = "info" /\ op'[i] = op[i]
        BY <2>5
      <4> QED BY <1>1, <4>1, <4>2 DEF CallOK
    <3> QED BY <3>1, <3>2
  <2>8. SharedInv'
    <3>1. \A d \in Accounts : shared'[d] # None =>
             op'[shared'[d]].pc # "idle" /\ op'[shared'[d]].cur = d
      <4> SUFFICES ASSUME NEW d \in Accounts, d # a, shared'[d] # None
                   PROVE  op'[shared'[d]].pc # "idle" /\ op'[shared'[d]].cur = d
        BY <2>5, <2>6
      <4>1. shared'[d] = shared[d] /\ shared[d] \in Relogins
            /\ op[shared[d]].pc # "idle" /\ op[shared[d]].cur = d
        BY <2>6 DEF IInv, SharedInv, TypeOK
      <4>2. shared[d] # r /\ shared[d] # k /\ shared[d] \in Ops
        BY <1>1, <1>4, <4>1 DEF Ops
      <4> QED BY <2>5, <4>1, <4>2
    <3>2. ASSUME NEW s \in Relogins, op'[s].pc # "idle"
          PROVE  op'[s].cur \in cut' \/ shared'[op'[s].cur] = s
      <4>1. CASE s = r
        BY <2>5, <2>6, <4>1
      <4>2. CASE s # r
        <5>1. op'[s] = op[s] /\ s \in Ops
          BY <1>1, <2>5, <4>2 DEF Ops
        <5>2. op[s].cur \in cut \/ shared[op[s].cur] = s
          BY <3>2, <5>1 DEF IInv, SharedInv, ReloginShared
        <5>3. op[s].cur \in Accounts
          BY <3>2, <5>1 DEF IInv, CallsInv, CallOK
        <5>4. s # None
          BY PoolAssumption, <5>1
        <5>5. shared[op[s].cur] = s => op[s].cur # a
          BY <1>4, <5>4
        <5> QED BY <1>1, <2>6, <5>1, <5>2, <5>3, <5>5
      <4> QED BY <4>1, <4>2
    <3>3. ASSUME NEW j \in Sends, op'[j].pc = "waits"
          PROVE  op'[j].cur \in Relogins /\ op'[op'[j].cur].pc # "idle"
      <4>1. CASE j = k
        BY <2>5, <4>1
      <4>2. CASE j # k
        <5>1. j \in Ops /\ op'[j] = op[j]
          BY <2>5, <4>2, PoolAssumption DEF Ops
        <5>2. op[j].cur \in Relogins /\ op[op[j].cur].pc # "idle"
          BY <3>3, <5>1 DEF IInv, SharedInv, ReloginShared
        <5>3. op[j].cur \in Ops /\ op[j].cur # k /\ op[j].cur # r
          BY <1>1, <1>4, <5>2 DEF Ops
        <5> QED BY <2>5, <5>1, <5>2, <5>3
      <4> QED BY <4>1, <4>2
    <3> QED BY <3>1, <3>2, <3>3 DEF SharedInv, ReloginShared
  <2>9. DeletedInv'
    <3> SUFFICES ASSUME NEW d \in deleted PROVE Logging(d)' = {}
      BY <1>1, NotLogging DEF DeletedInv, DeletedStaysDeleted, Pooled
    <3>1. d # a
      BY <1>4, NotLogging, <1>1
    <3>2. \A j \in Ops : op'[j].pc \in {"login", "info"} =>
             d # op'[j].cur /\ d \notin op'[j].todo
      BY <2>5, <3>1, NotLogging
    <3> QED BY <3>2 DEF Logging
  <2> QED BY <1>1, <1>4, <2>5, <2>6, <2>7, <2>8, <2>9, SessionsKept DEF IInv, TypeOK
<1> QED BY <1>2, <1>3, <1>4 DEF SessionDead

-----------------------------------------------------------------------------
(* Relogins *)

\* A relogin is over, with a session added or none.
LEMMA ReloginOverKeeps ==
    ASSUME IInv, NEW r \in Relogins, op[r].pc \in {"login", "info"},
           NEW pc \in {"retry", "done"}, NEW n \in 0 .. MaxSessions, ReloginOver(r, pc, n),
           UNCHANGED <<files, used, deleted, cut>>, failed' \subseteq failed,
           \A j \in Ops \ {r} : op[j].pc = "info" => \A a \in Accounts : pool'[a] # op[j].on,
           \A a \in Accounts \ {op[r].cur} : pool'[a] = pool[a]
    PROVE  /\ op' \in [Ops -> Calls] /\ shared' \in [Accounts -> Relogins \cup {None}]
           /\ CallsInv' /\ SharedInv' /\ DeletedInv'
<1> DEFINE a == op[r].cur
           After(k) == [op[k] EXCEPT !.pc = pc, !.on = IF n = None THEN @ ELSE n]
<1>1. /\ op' = [k \in Ops |-> IF k = r THEN Idle
                              ELSE IF k \in Waiting(r) THEN After(k) ELSE op[k]]
      /\ shared' = [shared EXCEPT ![a] = None]
  BY DEF ReloginOver
<1>2. /\ r \in Ops /\ a \in Accounts /\ op[r].pc # "idle" /\ r \notin Waiting(r)
      /\ Waiting(r) \subseteq Ops
  BY PoolAssumption DEF Ops, Waiting, IInv, CallsInv, CallOK
<1>3. Idle \in Calls /\ Idle.pc = "idle" /\ Idle.todo = {}
  BY PoolAssumption DEF Idle, Calls, Pcs, None
<1>4. ASSUME NEW k \in Waiting(r)
      PROVE  /\ After(k) \in Calls /\ After(k).pc = pc
             /\ After(k).for = op[k].for /\ After(k).todo = op[k].todo
  <2>1. op[k] \in Calls
    BY <1>2 DEF IInv, TypeOK
  <2> QED BY <2>1 DEF Calls, Pcs
<1> HIDE DEF After
<1>5. /\ op' \in [Ops -> Calls] /\ op'[r] = Idle
      /\ \A k \in Waiting(r) : op'[k] = After(k)
      /\ \A k \in Ops : k # r /\ k \notin Waiting(r) => op'[k] = op[k]
  BY <1>1, <1>2, <1>3, <1>4 DEF IInv, TypeOK
<1>6. /\ shared' \in [Accounts -> Relogins \cup {None}] /\ shared'[a] = None
      /\ \A d \in Accounts \ {a} : shared'[d] = shared[d]
  BY <1>1, <1>2 DEF IInv, TypeOK
<1>7. \A k \in Ops : op'[k].pc \in {"login", "info"} => op'[k] = op[k] /\ k # r
  BY <1>3, <1>4, <1>5
<1>8. CallsInv'
  <2> SUFFICES ASSUME NEW k \in Ops PROVE CallOK(k)'
    BY DEF CallsInv
  <2>1. CASE k = r
    BY <1>3, <1>5, <2>1, PoolAssumption DEF CallOK
  <2>2. CASE k \in Waiting(r)
    <3>1. k \in Sends /\ op[k].pc = "waits" /\ k \notin Relogins /\ CallOK(k)
      BY <2>2, PoolAssumption DEF Waiting, IInv, CallsInv
    <3>2. op'[k].pc = pc /\ op'[k].for = op[k].for
      BY <1>4, <1>5, <2>2
    <3> QED BY <3>1, <3>2 DEF CallOK
  <2>3. CASE k # r /\ k \notin Waiting(r)
    <3>1. op'[k] = op[k] /\ CallOK(k)
      BY <1>5, <2>3 DEF IInv, CallsInv
    <3>2. \A j \in Ops : op'[j].pc = "info" => op[j].pc = "info" /\ op'[j] = op[j]
      BY <1>7
    <3>3. op[k].pc = "info" => \A d \in Accounts : pool'[d] # op[k].on
      BY <2>3
    <3> QED BY <3>1, <3>2, <3>3 DEF CallOK
  <2> QED BY <2>1, <2>2, <2>3
<1>9. SharedInv'
  <2>1. ASSUME NEW d \in Accounts, shared'[d] # None
        PROVE  op'[shared'[d]].pc # "idle" /\ op'[shared'[d]].cur = d
    <3>1. d # a /\ shared'[d] = shared[d]
      BY <1>6, <2>1
    <3>2. shared[d] \in Relogins /\ op[shared[d]].pc # "idle" /\ op[shared[d]].cur = d
      BY <2>1, <3>1 DEF IInv, TypeOK, SharedInv
    <3>3. shared[d] \in Ops /\ shared[d] # r /\ shared[d] \notin Waiting(r)
      BY <3>1, <3>2, PoolAssumption DEF Ops, Waiting
    <3> QED BY <1>5, <3>1, <3>2, <3>3
  <2>2. ASSUME NEW s \in Relogins, op'[s].pc # "idle"
        PROVE  op'[s].cur \in cut' \/ shared'[op'[s].cur] = s
    <3>1. s \in Ops /\ s # r /\ s \notin Waiting(r) /\ s # None
      BY <1>3, <1>5, <2>2, PoolAssumption DEF Ops, Waiting
    <3>2. op'[s] = op[s]
      BY <1>5, <3>1
    <3>3. op[s].cur \in cut \/ shared[op[s].cur] = s
      BY <2>2, <3>2 DEF IInv, SharedInv, ReloginShared
    <3>4. op[s].cur \in Accounts
      BY <2>2, <3>1, <3>2 DEF IInv, CallsInv, CallOK
    <3>5. CASE op[s].cur = a
      <4>1. a \in cut \/ shared[a] = r
        BY <1>2 DEF IInv, SharedInv, ReloginShared
      <4> QED BY <3>1, <3>2, <3>3, <3>5, <4>1
    <3>6. CASE op[s].cur # a
      BY <1>6, <3>2, <3>3, <3>4, <3>6
    <3> QED BY <3>5, <3>6
  <2>3. ASSUME NEW k \in Sends, op'[k].pc = "waits"
        PROVE  op'[k].cur \in Relogins /\ op'[op'[k].cur].pc # "idle"
    <3>1. k \in Ops /\ k # r
      BY PoolAssumption DEF Ops
    <3>2. k \notin Waiting(r)
      BY <1>4, <1>5, <2>3
    <3>3. op'[k] = op[k]
      BY <1>5, <3>1, <3>2
    <3>4. op[k].cur \in Relogins /\ op[op[k].cur].pc # "idle" /\ op[k].cur # r
      BY <2>3, <3>2, <3>3 DEF IInv, SharedInv, ReloginShared, Waiting
    <3>5. op[k].cur \in Ops /\ op[k].cur \notin Waiting(r)
      BY <3>4, PoolAssumption DEF Ops, Waiting
    <3> QED BY <1>5, <3>3, <3>4, <3>5
  <2> QED BY <2>1, <2>2, <2>3 DEF SharedInv, ReloginShared
<1>10. DeletedInv'
  <2> SUFFICES ASSUME NEW d \in deleted
               PROVE  d \notin files /\ d \notin failed' /\ pool'[d] = None /\ Logging(d)' = {}
    BY DEF DeletedInv, DeletedStaysDeleted, Pooled
  <2>1. d \in Accounts /\ d # a /\ d \notin files /\ d \notin failed /\ pool[d] = None
    BY <1>2, NotLogging DEF IInv, TypeOK
  <2>2. \A k \in Ops : op'[k].pc \in {"login", "info"} => d # op'[k].cur /\ d \notin op'[k].todo
    BY <1>7, NotLogging
  <2> QED BY <2>1, <2>2 DEF Logging
<1> QED BY <1>5, <1>6, <1>8, <1>9, <1>10

LEMMA ReloginFailsStep ==
    ASSUME IInv, NEW r \in Ops, ReloginFails(r) PROVE IInv'
<1>1. /\ r \in Relogins /\ op[r].pc = "login"
      /\ Expire({op[k].on : k \in Waiting(r)}) /\ ReloginOver(r, "done", None)
      /\ UNCHANGED <<files, pool, failed, used, deleted, cut>>
  BY DEF ReloginFails
<1>2. \A j \in Ops \ {r} : op[j].pc = "info" => \A a \in Accounts : pool'[a] # op[j].on
  BY <1>1 DEF IInv, CallsInv, CallOK
<1>3. None \in 0 .. MaxSessions
  BY PoolAssumption DEF None
<1>4. /\ op' \in [Ops -> Calls] /\ shared' \in [Accounts -> Relogins \cup {None}]
      /\ CallsInv' /\ SharedInv' /\ DeletedInv'
  BY <1>1, <1>2, <1>3, ReloginOverKeeps
<1>5. /\ session' \in [Sessions -> [account : Accounts \cup {None}, running : BOOLEAN,
                                    expired : BOOLEAN]]
      /\ sockets' \subseteq Sessions
      /\ SessionsInv'
  BY <1>1, ExpireKeeps
<1> QED BY <1>1, <1>4, <1>5 DEF IInv, TypeOK

LEMMA ReloginSucceedsStep ==
    ASSUME IInv, NEW r \in Ops, ReloginSucceeds(r) PROVE IInv'
<1> DEFINE a == op[r].cur
           n == op[r].on
<1>1. /\ r \in Relogins /\ op[r].pc = "info" /\ AddInstance(a, n)
      /\ failed' = failed \ {a} /\ ReloginOver(r, "retry", n)
      /\ UNCHANGED <<files, used, deleted, cut>>
  BY DEF ReloginSucceeds
<1>2. /\ a \in Accounts /\ n \in 1 .. used /\ \A b \in Accounts : pool[b] # n
      /\ \A j \in Ops : op[j].pc = "info" /\ op[j].on = n => j = r
  BY <1>1 DEF IInv, CallsInv, CallOK
<1>3. n \in 0 .. MaxSessions
  BY <1>2, PoolAssumption DEF IInv, TypeOK
<1>4. /\ pool' \in [Accounts -> 0 .. used]
      /\ pool'[a] = n /\ \A b \in Accounts \ {a} : pool'[b] = pool[b]
      /\ session' \in [Sessions -> [account : Accounts \cup {None}, running : BOOLEAN,
                                    expired : BOOLEAN]]
      /\ sockets' \subseteq Sessions
      /\ SessionsInv'
  BY <1>1, <1>2, AddKeeps DEF IInv
<1>5. \A j \in Ops \ {r} : op[j].pc = "info" => \A b \in Accounts : pool'[b] # op[j].on
  BY <1>2, <1>4 DEF IInv, CallsInv, CallOK
<1>6. /\ op' \in [Ops -> Calls] /\ shared' \in [Accounts -> Relogins \cup {None}]
      /\ CallsInv' /\ SharedInv' /\ DeletedInv'
  BY <1>1, <1>3, <1>4, <1>5, ReloginOverKeeps
<1> QED BY <1>1, <1>4, <1>6 DEF IInv, TypeOK

-----------------------------------------------------------------------------
(* The monitor, Zalo, and what ends a session *)

\* No call moves.
LEMMA NoCall ==
    ASSUME IInv, UNCHANGED <<op, pool, used, shared, cut, files, failed, deleted>>
    PROVE  CallsInv' /\ SharedInv' /\ DeletedInv'
BY DEF IInv, CallsInv, CallOK, SharedInv, ReloginShared, DeletedInv, DeletedStaysDeleted,
       Logging, Pooled

LEMMA CheckStep == ASSUME IInv, Check PROVE IInv'
<1>1. Start(Live) /\ UNCHANGED <<op, pool, used, shared, cut, files, failed, deleted>>
  BY DEF Check
<1>2. /\ session' \in [Sessions -> [account : Accounts \cup {None}, running : BOOLEAN,
                                    expired : BOOLEAN]]
      /\ sockets' \subseteq Sessions
      /\ SessionsInv'
  BY <1>1, StartKeeps DEF IInv
<1>3. CallsInv' /\ SharedInv' /\ DeletedInv'
  BY <1>1, NoCall
<1> QED BY <1>1, <1>2, <1>3 DEF IInv, TypeOK

LEMMA WindowMovesStep == ASSUME IInv, NEW a \in Accounts, WindowMoves(a) PROVE IInv'
<1>1. UNCHANGED <<op, pool, used, shared, cut, files, failed, deleted, session, sockets>>
  BY DEF WindowMoves
<1>2. CallsInv' /\ SharedInv' /\ DeletedInv'
  BY <1>1, NoCall
<1> QED BY <1>1, <1>2, SessionsKept DEF IInv, TypeOK

LEMMA ClosedStep ==
    ASSUME IInv, NEW n \in sockets, NEW kicked \in BOOLEAN, Closed(n, kicked) PROVE IInv'
<1>1. /\ sockets' = sockets \ {n}
      /\ session' = [session EXCEPT ![n].running = FALSE, ![n].expired = @ \/ kicked]
      /\ UNCHANGED <<op, pool, used, shared, cut, files, failed, deleted>>
  BY DEF Closed
<1> DEFINE c == [session[n] EXCEPT !.running = FALSE, !.expired = @ \/ kicked]
<1>2. n \in Sessions /\ session' = [session EXCEPT ![n] = c]
  BY <1>1 DEF IInv, TypeOK
<1>3. /\ c \in [account : Accounts \cup {None}, running : BOOLEAN, expired : BOOLEAN]
      /\ c.account = session[n].account /\ ~ c.running
  BY <1>2 DEF IInv, TypeOK
<1> HIDE DEF c
<1>4. /\ session' \in [Sessions -> [account : Accounts \cup {None}, running : BOOLEAN,
                                    expired : BOOLEAN]]
      /\ \A m \in Sessions : session'[m].account = session[m].account
      /\ \A m \in Sessions : m \in {n} => ~ session'[m].running
      /\ \A m \in Sessions : m \notin {n} => session'[m] = session[m]
  BY <1>2, <1>3 DEF IInv, TypeOK
<1>5. \A m \in Sessions : m \in sockets' <=> m \in sockets /\ m \notin {n}
  BY <1>1
<1>6. SessionsInv'
  BY <1>1, <1>4, <1>5, StopKeeps DEF IInv
<1>7. CallsInv' /\ SharedInv' /\ DeletedInv'
  BY <1>1, NoCall
<1> QED BY <1>1, <1>4, <1>6, <1>7 DEF IInv, TypeOK

\* Sessions whose listeners are stopped, and whose account may leave the pool.
LEMMA StoppedKeeps ==
    ASSUME IInv, NEW ns, session' = Stopped(session, ns), sockets' = sockets \ Running(ns),
           \A a \in Accounts : pool'[a] = pool[a] \/ (pool'[a] = None /\ pool[a] \in ns)
    PROVE  /\ session' \in [Sessions -> [account : Accounts \cup {None}, running : BOOLEAN,
                                         expired : BOOLEAN]]
           /\ sockets' \subseteq Sessions
           /\ SessionsInv'
<1>1. /\ session' \in [Sessions -> [account : Accounts \cup {None}, running : BOOLEAN,
                                    expired : BOOLEAN]]
      /\ \A n \in Sessions : session'[n].account = session[n].account
      /\ \A n \in Sessions : n \in ns => ~ session'[n].running
      /\ \A n \in Sessions : n \notin ns => session'[n] = session[n]
  BY DEF Stopped, IInv, TypeOK
<1>2. \A n \in Sessions : n \in sockets' <=> n \in sockets /\ n \notin ns
  BY DEF Running, IInv, SessionsInv, ListenersArePooled
<1>3. SessionsInv'
  BY <1>1, <1>2, StopKeeps DEF IInv
<1> QED BY <1>1, <1>3 DEF IInv, TypeOK

\* The boot returns, or the runtime stops.
LEMMA BootMoves ==
    ASSUME IInv, op[Boot].pc # "idle",
           op' = [op EXCEPT ![Boot].pc = "done"] \/ op' = [op EXCEPT ![Boot] = Idle],
           UNCHANGED <<files, pool, failed, used, shared, deleted, cut>>
    PROVE  op' \in [Ops -> Calls] /\ CallsInv' /\ SharedInv' /\ DeletedInv'
<1>1. Boot \in Ops \ Relogins /\ Boot \notin Sends
  BY Distinct
<1>2. Idle \in Calls
  BY PoolAssumption DEF Idle, Calls, Pcs, None
<1>3. /\ op' \in [Ops -> Calls] /\ \A j \in Ops \ {Boot} : op'[j] = op[j]
      /\ op'[Boot].pc = "done" \/ op'[Boot] = Idle
  <2>0. op \in [Ops -> Calls]
    BY DEF IInv, TypeOK
  <2>1. [op[Boot] EXCEPT !.pc = "done"] \in Calls /\ [op[Boot] EXCEPT !.pc = "done"].pc = "done"
    <3>1. op[Boot] \in Calls
      BY <1>1, <2>0
    <3> QED BY <3>1 DEF Calls, Pcs
  <2>2. CASE op' = [op EXCEPT ![Boot] = Idle]
    BY <1>1, <1>2, <2>0, <2>2
  <2>3. CASE op' = [op EXCEPT ![Boot].pc = "done"]
    BY <1>1, <2>0, <2>1, <2>3
  <2> QED BY <2>2, <2>3
<1> QED BY <1>1, <1>3, Elsewhere

LEMMA BootReturnsStep == ASSUME IInv, BootReturns PROVE IInv'
<1>1. /\ op[Boot].pc # "idle" /\ op' = [op EXCEPT ![Boot].pc = "done"] /\ Start(Live)
      /\ UNCHANGED <<files, pool, failed, used, shared, deleted, cut>>
  BY DEF BootReturns
<1>2. op' \in [Ops -> Calls] /\ CallsInv' /\ SharedInv' /\ DeletedInv'
  BY <1>1, BootMoves
<1>3. /\ session' \in [Sessions -> [account : Accounts \cup {None}, running : BOOLEAN,
                                    expired : BOOLEAN]]
      /\ sockets' \subseteq Sessions
      /\ SessionsInv'
  BY <1>1, StartKeeps DEF IInv
<1> QED BY <1>1, <1>2, <1>3 DEF IInv, TypeOK

LEMMA LogoutStep == ASSUME IInv, Logout PROVE IInv'
<1>1. /\ op[Boot].pc # "idle" /\ op' = [op EXCEPT ![Boot] = Idle]
      /\ session' = Stopped(session, Live) /\ sockets' = sockets \ Running(Live)
      /\ UNCHANGED <<files, pool, failed, used, shared, deleted, cut>>
  BY DEF Logout
<1>2. op' \in [Ops -> Calls] /\ CallsInv' /\ SharedInv' /\ DeletedInv'
  BY <1>1, BootMoves
<1>3. /\ session' \in [Sessions -> [account : Accounts \cup {None}, running : BOOLEAN,
                                    expired : BOOLEAN]]
      /\ sockets' \subseteq Sessions
      /\ SessionsInv'
  BY <1>1, StoppedKeeps
<1> QED BY <1>1, <1>2, <1>3 DEF IInv, TypeOK

\* An account is deleted: a relogin of it goes on unshared, and is noted in cut.
LEMMA DeleteStep == ASSUME IInv, NEW a \in Accounts, Delete(a) PROVE IInv'
<1>1. /\ files' = files \ {a} /\ UNCHANGED <<op, used>>
      /\ deleted' = IF Logging(a) = {} /\ ~ (a \in failed /\ Pooled(a))
                    THEN deleted \cup {a} ELSE deleted
      /\ cut' = IF Logging(a) = {} THEN cut ELSE cut \cup {a}
      /\ \/ /\ a \in failed /\ failed' = failed \ {a}
            /\ UNCHANGED <<pool, session, sockets, shared>>
         \/ /\ a \notin failed /\ failed' = failed
            /\ session' = Stopped(session, {pool[a]})
            /\ sockets' = sockets \ Running({pool[a]})
            /\ pool' = [pool EXCEPT ![a] = None]
            /\ shared' = [shared EXCEPT ![a] = None]
  BY DEF Delete
<1>2. /\ pool' \in [Accounts -> 0 .. used]
      /\ \A b \in Accounts : pool'[b] = pool[b] \/ (b = a /\ pool'[b] = None)
      /\ shared' \in [Accounts -> Relogins \cup {None}]
      /\ \A b \in Accounts : shared'[b] = shared[b] \/ (b = a /\ shared'[b] = None)
  <2>1. None \in 0 .. used
    BY PoolAssumption DEF IInv, TypeOK, None
  <2> QED BY <1>1, <2>1 DEF IInv, TypeOK
<1>3. /\ session' \in [Sessions -> [account : Accounts \cup {None}, running : BOOLEAN,
                                    expired : BOOLEAN]]
      /\ sockets' \subseteq Sessions
      /\ SessionsInv'
  <2>1. CASE UNCHANGED <<pool, session, sockets>>
    BY <2>1, SessionsKept DEF IInv, TypeOK
  <2>2. CASE session' = Stopped(session, {pool[a]}) /\ sockets' = sockets \ Running({pool[a]})
    <3>1. \A b \in Accounts : pool'[b] = pool[b] \/ (pool'[b] = None /\ pool[b] \in {pool[a]})
      BY <1>2
    <3> DEFINE ns == {pool[a]}
    <3>2. /\ session' = Stopped(session, ns) /\ sockets' = sockets \ Running(ns)
          /\ \A b \in Accounts : pool'[b] = pool[b] \/ (pool'[b] = None /\ pool[b] \in ns)
      BY <2>2, <3>1
    <3> HIDE DEF ns
    <3> QED BY <3>2, StoppedKeeps
  <2> QED BY <1>1, <2>1, <2>2
<1>4. CallsInv'
  <2> SUFFICES ASSUME NEW k \in Ops PROVE CallOK(k)'
    BY DEF CallsInv
  <2>1. CallOK(k)
    BY DEF IInv, CallsInv
  <2>2. op[k].pc = "info" => \A b \in Accounts : pool'[b] # op[k].on
    <3>1. None \notin 1 .. used
      BY DEF None
    <3> QED BY <1>2, <2>1, <3>1 DEF CallOK
  <2> QED BY <1>1, <2>1, <2>2 DEF CallOK
<1>5. SharedInv'
  <2>1. \A b \in Accounts : shared'[b] # None =>
            op[shared'[b]].pc # "idle" /\ op[shared'[b]].cur = b
    BY <1>2 DEF IInv, SharedInv
  <2>2. ASSUME NEW r \in Relogins, op[r].pc # "idle"
        PROVE  op[r].cur \in cut' \/ shared'[op[r].cur] = r
    <3>1. r \in Ops /\ op[r].cur \in Accounts /\ op[r].pc \in {"login", "info"}
      BY <2>2 DEF Ops, IInv, CallsInv, CallOK
    <3>2. op[r].cur \in cut \/ shared[op[r].cur] = r
      BY <2>2 DEF IInv, SharedInv, ReloginShared
    <3>3. CASE op[r].cur = a
      <4>1. r \in Logging(a)
        BY <3>1, <3>3 DEF Logging
      <4> QED BY <1>1, <3>3, <4>1
    <3>4. CASE op[r].cur # a
      BY <1>1, <1>2, <3>1, <3>2, <3>4
    <3> QED BY <3>3, <3>4
  <2> QED BY <1>1, <2>1, <2>2 DEF IInv, SharedInv, ReloginShared
<1>6. DeletedInv'
  <2> SUFFICES ASSUME NEW d \in deleted'
               PROVE  /\ d \notin files' /\ d \notin failed' /\ pool'[d] = None
                      /\ Logging(d) = {}
    BY <1>1 DEF DeletedInv, DeletedStaysDeleted, Pooled, Logging
  <2>1. CASE d \in deleted
    <3>1. d \in Accounts /\ d \notin files /\ d \notin failed /\ pool[d] = None
          /\ Logging(d) = {}
      BY <2>1 DEF IInv, TypeOK, DeletedInv, DeletedStaysDeleted, Pooled
    <3> QED BY <1>1, <1>2, <3>1
  <2>2. CASE d \notin deleted
    <3>1. d = a /\ Logging(a) = {} /\ ~ (a \in failed /\ Pooled(a))
      BY <1>1, <2>2
    <3>2. pool'[a] = None /\ a \notin failed'
      BY <1>1, <3>1 DEF Pooled, IInv, TypeOK
    <3> QED BY <1>1, <3>1, <3>2
  <2> QED BY <2>1, <2>2
<1>7. deleted' \subseteq Accounts /\ files' \subseteq Accounts
  BY <1>1 DEF IInv, TypeOK
<1> QED BY <1>1, <1>2, <1>3, <1>4, <1>5, <1>6, <1>7 DEF IInv, TypeOK

LEMMA CrashStep == ASSUME IInv, Crash PROVE IInv'
<1>1. /\ failed' = {} /\ pool' = [a \in Accounts |-> None]
      /\ session' = [n \in Sessions |-> NoSession] /\ sockets' = {}
      /\ shared' = [a \in Accounts |-> None]
      /\ op' = [k \in Ops |-> IF op[k].pc = "done" THEN op[k] ELSE Idle]
      /\ UNCHANGED <<files, used, deleted, cut>>
  BY DEF Crash
<1>2. Idle \in Calls /\ Idle.pc = "idle" /\ None \in 0 .. used
  BY PoolAssumption DEF Idle, Calls, Pcs, None, IInv, TypeOK
<1>3. op' \in [Ops -> Calls] /\ pool' \in [Accounts -> 0 .. used]
  BY <1>1, <1>2 DEF IInv, TypeOK
<1>4. \A k \in Ops : op'[k] = Idle \/ (op[k].pc = "done" /\ op'[k] = op[k])
  BY <1>1
<1>5. CallsInv'
  <2> SUFFICES ASSUME NEW k \in Ops PROVE CallOK(k)'
    BY DEF CallsInv
  <2>1. CallOK(k)
    BY DEF IInv, CallsInv
  <2> QED BY <1>2, <1>4, <2>1 DEF CallOK
<1>6. SharedInv'
  <2>1. \A r \in Relogins : op'[r].pc = "idle"
    <3> SUFFICES ASSUME NEW r \in Relogins PROVE op'[r].pc = "idle"
      OBVIOUS
    <3>1. r \in Ops /\ op[r].pc # "done"
      BY DEF Ops, IInv, CallsInv, CallOK
    <3> QED BY <1>2, <1>4, <3>1
  <2>2. \A k \in Sends : op'[k].pc # "waits"
    BY <1>2, <1>4 DEF Ops
  <2> QED BY <1>1, <2>1, <2>2 DEF SharedInv, ReloginShared
<1>7. DeletedInv'
  <2>1. \A d \in deleted : d \in Accounts /\ d \notin files
    BY DEF IInv, TypeOK, DeletedInv
  <2>2. \A k \in Ops : op'[k].pc \notin {"login", "info"}
    BY <1>2, <1>4
  <2> QED BY <1>1, <2>1, <2>2 DEF DeletedInv, DeletedStaysDeleted, Pooled, Logging
<1>8. /\ session' \in [Sessions -> [account : Accounts \cup {None}, running : BOOLEAN,
                                    expired : BOOLEAN]]
      /\ \A n \in Sessions : ~ session'[n].running
  BY <1>1 DEF NoSession
<1>9. SessionsInv'
  BY <1>1, <1>8 DEF SessionsInv, ListenersArePooled, Pooled
<1> QED BY <1>1, <1>3, <1>5, <1>6, <1>7, <1>8, <1>9 DEF IInv, TypeOK

-----------------------------------------------------------------------------
(* The pool *)

LEMMA InitInv == Init => IInv
<1> SUFFICES ASSUME Init PROVE IInv
  OBVIOUS
<1>1. Idle \in Calls /\ Idle.pc = "idle" /\ Idle.todo = {}
  BY PoolAssumption DEF Idle, Calls, Pcs, None
<1>2. TypeOK
  BY <1>1, PoolAssumption DEF Init, TypeOK, NoSession, None
<1>3. CallsInv
  BY <1>1 DEF Init, CallsInv, CallOK
<1>4. SessionsInv
  BY DEF Init, SessionsInv, ListenersArePooled, Pooled, NoSession
<1>5. SharedInv
  BY <1>1 DEF Init, SharedInv, ReloginShared, Ops
<1>6. DeletedInv
  BY DEF Init, DeletedInv, DeletedStaysDeleted
<1> QED BY <1>2, <1>3, <1>4, <1>5, <1>6 DEF IInv

LEMMA Inductive == IInv /\ [Next]_vars => IInv'
<1> SUFFICES ASSUME IInv, [Next]_vars PROVE IInv'
  OBVIOUS
<1>1. ASSUME NEW k \in Ops, NEW a \in Accounts, Enter(k, a) \/ ScanBegins(k, a) PROVE IInv'
  BY <1>1, EnterStep, ScanBeginsStep
<1>2. ASSUME NEW k \in Ops, LoginSucceeds(k) \/ LoadFails(k) \/ LoadAdds(k) \/ ScanAdds(k)
      PROVE  IInv'
  BY <1>2, LoginSucceedsStep, LoadFailsStep, LoadAddsStep, ScanAddsStep
<1>3. ASSUME NEW k \in Ops,
             \/ Select(k) \/ SessionDead(k) \/ RetryDead(k)
             \/ \E success \in BOOLEAN : SendReturns(k, success)
      PROVE  IInv'
  BY <1>3, SelectStep, SessionDeadStep, RetryDeadStep, SendReturnsStep
<1>4. ASSUME NEW k \in Ops, ReloginSucceeds(k) \/ ReloginFails(k) PROVE IInv'
  BY <1>4, ReloginSucceedsStep, ReloginFailsStep
<1>5. CASE BootReturns \/ Check
  BY <1>5, BootReturnsStep, CheckStep
<1>6. ASSUME NEW n \in sockets, Duplicate(n) PROVE IInv'
  BY <1>6, ClosedStep DEF Duplicate
<1>7. ASSUME Mishap PROVE IInv'
  BY <1>7, ClosedStep, DeleteStep, WindowMovesStep, LogoutStep, CrashStep DEF Mishap
<1>8. CASE UNCHANGED vars
  <2>1. UNCHANGED <<op, pool, used, shared, cut, files, failed, deleted, session, sockets>>
    BY <1>8 DEF vars, memory
  <2>2. CallsInv' /\ SharedInv' /\ DeletedInv'
    BY <2>1, NoCall
  <2> QED BY <2>1, <2>2, SessionsKept DEF IInv, TypeOK
<1> QED BY <1>1, <1>2, <1>3, <1>4, <1>5, <1>6, <1>7, <1>8 DEF Next, Step

LEMMA PoolInvariant == Spec => []IInv
BY InitInv, Inductive, PTL DEF Spec

\* The pool, the sessions and the calls have their types in every state.
THEOREM TypeCorrect == Spec => []TypeOK
<1>1. IInv => TypeOK
  BY DEF IInv
<1> QED BY <1>1, PoolInvariant, PTL

\* Whatever logs in, is replaced, expires or is deleted, exactly the running sessions of
\* the pool listen.
THEOREM OnlyPooledListen == Spec => []ListenersArePooled
<1>1. IInv => ListenersArePooled
  BY DEF IInv, SessionsInv
<1> QED BY <1>1, PoolInvariant, PTL

\* Hence Zalo never sees two connections of one account.
THEOREM NoSecondListener == Spec => []OneListener
<1>1. IInv => OneListener
  BY DEF IInv, TypeOK, SessionsInv, ListenersArePooled, OneListener
<1> QED BY <1>1, PoolInvariant, PTL

\* The sends of a burst share one relogin, and none waits for one that is over.
THEOREM BurstsShareRelogins == Spec => []ReloginShared
<1>1. IInv => ReloginShared
  BY DEF IInv, SharedInv
<1> QED BY <1>1, PoolInvariant, PTL

\* An account that is deleted while no login of it is under way stays deleted.
THEOREM DeletionLasts == Spec => []DeletedStaysDeleted
<1>1. IInv => DeletedStaysDeleted
  BY DEF IInv, DeletedInv
<1> QED BY <1>1, PoolInvariant, PTL
=============================================================================
