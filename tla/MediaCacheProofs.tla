-------------------------- MODULE MediaCacheProofs --------------------------
(***************************************************************************)
(* What the media cache guarantees for any attachments, sizes, limits and  *)
(* faults: what is offered has its file, and a pass that ends leaves the   *)
(* cache within its limit.                                                 *)
(***************************************************************************)
EXTENDS MediaCache, SequenceTheorems, FiniteSetTheorems, TLAPS

\* A file has one row, but those that are sent.
LEMMA OneFile ==
    ASSUME NEW a \in Attachments, NEW b \in Attachments, a # b, File(a) = File(b)
    PROVE  a \in Sent /\ b \in Sent
<1>1. a \in Sent => File(a) \in Own
  BY DEF File, Own
<1>2. b \in Sent => File(b) \in Own
  BY DEF File, Own
<1> QED BY <1>1, <1>2, MediaAssumption DEF File, Attachments

\* The rows change: what was sent stays so, and a row that is offered now was offered as
\* it is, or has its file, or one that was sent again.
LEMMA RowsServed ==
    ASSUME ServedInv, files' = files, torn \subseteq torn',
           \A a \in Attachments : rows[a].status # "none" => rows'[a].status # "none",
           \A a \in Offered' : \/ rows'[a] = rows[a] \/ File(a) \in files
                               \/ a \in Sent /\ SentAgain(a),
           worker.pc = "unlinked" /\ Head(worker.todo) \in Offered' =>
               UNCHANGED worker \/ Head(worker.todo) \in torn'
    PROVE  /\ OfferedIsServed'
           /\ \A a \in Sent : File(a) \in files' \/ rows'[a].status # "none" \/ SentAgain(a)'
<1>1. \A a \in Sent : SentAgain(a) => SentAgain(a)'
  BY DEF SentAgain, Attachments, File
<1>2. ASSUME NEW a \in Offered'
      PROVE  \/ File(a) \in files' \/ a \in torn'
             \/ worker'.pc = "unlinked" /\ a = Head(worker'.todo)
             \/ a \in Sent /\ SentAgain(a)'
  <2>1. CASE rows'[a] = rows[a]
    <3>1. a \in Offered
      BY <2>1 DEF Offered
    <3> QED BY <1>1, <3>1 DEF ServedInv, OfferedIsServed
  <2>2. CASE File(a) \in files
    BY <2>2
  <2>3. CASE a \in Sent /\ SentAgain(a)
    BY <1>1, <2>3
  <2> QED BY <2>1, <2>2, <2>3
<1>3. OfferedIsServed'
  BY <1>2 DEF OfferedIsServed, File
<1> QED BY <1>1, <1>3 DEF ServedInv, Attachments

\* The pass goes on.
LEMMA GoOnKeeps ==
    ASSUME ServedInv, NEW rs \in [Attachments -> RowSet], NEW fs, NEW todo,
           GoOn(rs, fs, todo), worker.pc # "unlinked", UNCHANGED <<files, torn>>,
           \A a \in Attachments : rows[a].status # "none" => rs[a].status # "none",
           \A a \in Attachments : rs[a].status = "ready" => rs[a] = rows[a] \/ File(a) \in files
    PROVE  ServedInv'
<1>1. worker'.pc \in {"download", "idle", "evict"}
      /\ worker' = [pc |-> worker'.pc, todo |-> worker'.todo, max |-> worker'.max]
  <2>1. CASE todo # <<>>
    <3>1. worker' = [pc |-> "download", todo |-> todo, max |-> worker.max]
      BY <2>1 DEF GoOn
    <3> QED BY <3>1
  <2>2. CASE todo = <<>>
    <3> DEFINE due == Due(Evictable(rs, fs), limit)
    <3>1. worker' = [pc |-> IF due = <<>> THEN "idle" ELSE "evict", todo |-> due,
                     max |-> limit]
      BY <2>2 DEF GoOn
    <3> HIDE DEF due
    <3> QED BY <3>1
  <2> QED BY <2>1, <2>2
<1>2. rows' = rs \/ rows' = [rs EXCEPT ![Head(todo)].status = "downloading"]
  BY DEF GoOn
<1>3. rows' \in [Attachments -> RowSet]
  BY <1>2 DEF RowSet
<1>4. \A a \in Attachments : \/ rows'[a] = rs[a]
                             \/ rows'[a].status = "downloading"
  BY <1>2 DEF RowSet
<1>5. \A a \in Attachments : rows[a].status # "none" => rows'[a].status # "none"
  BY <1>4
<1>6. \A a \in Offered' : rows'[a] = rows[a] \/ File(a) \in files
  BY <1>4 DEF Offered
<1>7. OfferedIsServed' /\ \A a \in Sent : \/ File(a) \in files' \/ rows'[a].status # "none"
                                          \/ SentAgain(a)'
  BY <1>5, <1>6, RowsServed
<1> QED BY <1>1, <1>3, <1>7 DEF ServedInv, TypeOK, File

\* What a pass has in hand.
LEMMA InHand ==
    ASSUME OrderInv, worker.pc # "idle"
    PROVE  /\ Head(worker.todo) \in Attachments /\ rows[Head(worker.todo)].status # "none"
           /\ worker.pc \in {"download", "downloaded"} => Head(worker.todo) \in Received
<1>1. worker.todo \in Seq(Attachments) /\ worker.todo # <<>>
  BY DEF OrderInv
<1>2. Head(worker.todo) \in Attachments /\ Head(worker.todo) \in ToSet(worker.todo)
  BY <1>1 DEF ToSet
<1> QED BY <1>2 DEF OrderInv

\* The pass: one step per action.
LEMMA WorkerStep == ASSUME ServedInv, OrderInv, Worker PROVE ServedInv'
<1> DEFINE a == Head(worker.todo)
<1>0. /\ rows \in [Attachments -> RowSet]
      /\ worker = [pc |-> worker.pc, todo |-> worker.todo, max |-> worker.max]
  BY DEF ServedInv, TypeOK
<1>1. CASE Begin
  <2>1. GoOn(rows, fetched, Pending) /\ worker.pc # "unlinked" /\ UNCHANGED <<files, torn>>
    BY <1>1 DEF Begin
  <2> QED BY <1>0, <2>1, GoOnKeeps
<1>2. CASE Downloaded
  <2>1. /\ worker.pc = "download" /\ files' = files \cup {a} /\ rows' = rows /\ torn' = torn
        /\ worker' = [worker EXCEPT !.pc = "downloaded"]
    BY <1>2 DEF Downloaded, table
  <2>2. /\ worker' = [pc |-> "downloaded", todo |-> worker.todo, max |-> worker.max]
        /\ worker'.pc = "downloaded" /\ worker'.todo = worker.todo /\ worker'.max = worker.max
    BY <1>0, <2>1
  <2>3. OfferedIsServed'
    BY <2>1, <2>2 DEF ServedInv, OfferedIsServed, Offered, SentAgain, File
  <2> QED BY <2>1, <2>2, <2>3 DEF ServedInv, TypeOK, SentAgain, File
<1>3. CASE Recorded
  <2> DEFINE there == rows[a].status # "deleted"
             rs == IF there THEN [rows EXCEPT ![a] = Row("ready", "cache")] ELSE rows
             fs == IF there THEN Append(fetched, a) ELSE fetched
  <2>1. GoOn(rs, fs, Tail(worker.todo)) /\ worker.pc = "downloaded" /\ UNCHANGED <<files, torn>>
    BY <1>3 DEF Recorded
  <2>2. a \in Received /\ File(a) \in files
    <3>1. a \in Received /\ a \in files
      BY <2>1, InHand DEF ServedInv
    <3> QED BY <3>1, MediaAssumption DEF File
  <2>3. Row("ready", "cache") \in RowSet /\ Row("ready", "cache").status = "ready"
    BY DEF RowSet, Row
  <2> HIDE DEF a
  <2>4. rs \in [Attachments -> RowSet]
    BY <1>0, <2>3
  <2>5. \A b \in Attachments : rs[b] = rows[b] \/ (b = a /\ rs[b].status = "ready")
    BY <1>0, <2>3
  <2> HIDE DEF rs, fs
  <2> QED BY <2>1, <2>2, <2>4, <2>5, GoOnKeeps
<1>4. CASE Failed
  <2> DEFINE rs == IF rows[a].status = "deleted" THEN rows
                   ELSE [rows EXCEPT ![a].status = "failed"]
  <2>1. GoOn(rs, fetched, Tail(worker.todo)) /\ worker.pc = "download"
        /\ UNCHANGED <<files, torn>>
    BY <1>4 DEF Failed
  <2> HIDE DEF a
  <2>2. rs \in [Attachments -> RowSet]
    BY <1>0 DEF RowSet
  <2>3. \A b \in Attachments : rs[b] = rows[b] \/ rs[b].status = "failed"
    BY <1>0 DEF RowSet
  <2> HIDE DEF rs
  <2> QED BY <2>1, <2>2, <2>3, GoOnKeeps
<1>5. CASE Unlink
  <2>1. /\ worker.pc = "evict" /\ files \ {File(a)} \subseteq files'
        /\ rows' = rows /\ torn' = torn
        /\ worker' = [worker EXCEPT !.pc = "unlinked"]
    BY <1>5 DEF Unlink, table
  <2>2. /\ worker' = [pc |-> "unlinked", todo |-> worker.todo, max |-> worker.max]
        /\ worker'.pc = "unlinked" /\ worker'.todo = worker.todo /\ worker'.max = worker.max
    BY <1>0, <2>1
  <2>3. a \in Attachments /\ rows[a].status # "none"
    BY <2>1, InHand
  <2>4. \A b \in Sent : SentAgain(b)' <=> SentAgain(b)
    BY <2>1 DEF SentAgain, File
  <2>5. ASSUME NEW b \in Attachments, b # a, File(b) = File(a)
        PROVE  b \in Sent /\ SentAgain(b)
    BY <2>3, <2>5, OneFile DEF SentAgain
  <2>6. ASSUME NEW b \in Offered
        PROVE  \/ File(b) \in files' \/ b \in torn' \/ b = a
               \/ b \in Sent /\ SentAgain(b)
    <3>1. b \in Attachments /\ worker.pc # "unlinked"
      BY <2>1 DEF Offered
    <3> QED BY <2>1, <2>5, <3>1 DEF ServedInv, OfferedIsServed
  <2>7. Offered' = Offered
    BY <2>1 DEF Offered
  <2>8. OfferedIsServed'
    BY <2>2, <2>4, <2>6, <2>7 DEF OfferedIsServed, File
  <2>9. ASSUME NEW b \in Sent
        PROVE  \/ File(b) \in files' \/ rows'[b].status # "none" \/ SentAgain(b)'
    <3>1. b \in Attachments
      BY DEF Attachments
    <3>2. CASE b = a
      BY <2>1, <2>3, <3>2
    <3>3. CASE b # a /\ File(b) = File(a)
      BY <2>4, <2>5, <3>1, <3>3
    <3>4. CASE File(b) # File(a)
      BY <2>1, <2>4, <3>4 DEF ServedInv
    <3> QED BY <3>2, <3>3, <3>4
  <2> QED BY <2>1, <2>2, <2>8, <2>9 DEF ServedInv, TypeOK, File
<1>6. CASE Forget
  <2> DEFINE rest == Tail(worker.todo)
             pc == IF rest = <<>> THEN "idle" ELSE "evict"
  <2>1. /\ worker.pc = "unlinked" /\ UNCHANGED <<files, torn>>
        /\ rows' = IF rows[a].status = "deleted" THEN rows
                   ELSE [rows EXCEPT ![a] = Row("pending", "")]
        /\ worker' = [worker EXCEPT !.pc = pc, !.todo = rest]
    BY <1>6 DEF Forget
  <2>2. pc \in {"idle", "evict"}
    OBVIOUS
  <2> HIDE DEF pc, rest
  <2>3. /\ worker' = [pc |-> pc, todo |-> rest, max |-> worker.max]
        /\ worker'.pc = pc /\ worker'.todo = rest /\ worker'.max = worker.max
    BY <1>0, <2>1
  <2>4. Row("pending", "") \in RowSet /\ Row("pending", "").status = "pending"
    BY DEF RowSet, Row
  <2>5. rows' \in [Attachments -> RowSet]
    BY <1>0, <2>1, <2>4
  <2>6. \A b \in Attachments : \/ rows'[b] = rows[b] /\ (b = a => rows[b].status = "deleted")
                               \/ rows'[b].status = "pending"
    BY <1>0, <2>1, <2>4
  <2>7. OfferedIsServed' /\ \A b \in Sent : \/ File(b) \in files' \/ rows'[b].status # "none"
                                            \/ SentAgain(b)'
    <3>1. a \notin Offered'
      BY <2>6 DEF Offered
    <3>2. \A b \in Offered' : rows'[b] = rows[b]
      BY <2>6 DEF Offered
    <3>3. \A b \in Attachments : rows[b].status # "none" => rows'[b].status # "none"
      BY <2>6
    <3> QED BY <2>1, <3>1, <3>2, <3>3, RowsServed
  <2> QED BY <2>2, <2>3, <2>5, <2>7 DEF ServedInv, TypeOK, File
<1> QED BY <1>1, <1>2, <1>3, <1>4, <1>5, <1>6 DEF Worker

LEMMA RestartStep == ASSUME ServedInv, Restart PROVE ServedInv'
<1>1. /\ rows' = [a \in Attachments |->
                     IF rows[a].status = "downloading"
                     THEN [rows[a] EXCEPT !.status = "pending"] ELSE rows[a]]
      /\ worker' = Idle /\ files' = files
      /\ torn' = IF worker.pc = "unlinked" THEN torn \cup {Head(worker.todo)} ELSE torn
  BY DEF Restart
<1>2. worker' = [pc |-> worker'.pc, todo |-> worker'.todo, max |-> worker'.max]
      /\ worker'.pc = "idle"
  BY <1>1 DEF Idle
<1>3. rows' \in [Attachments -> RowSet]
  BY <1>1 DEF ServedInv, TypeOK, RowSet
<1>4. \A a \in Attachments : rows'[a] = rows[a] \/ rows'[a].status = "pending"
  BY <1>1 DEF ServedInv, TypeOK, RowSet
<1>5. /\ \A a \in Offered' : rows'[a] = rows[a]
      /\ \A a \in Attachments : rows[a].status # "none" => rows'[a].status # "none"
  BY <1>4 DEF Offered
<1>6. torn \subseteq torn' /\ (worker.pc = "unlinked" => Head(worker.todo) \in torn')
  BY <1>1
<1>7. OfferedIsServed' /\ \A a \in Sent : \/ File(a) \in files' \/ rows'[a].status # "none"
                                          \/ SentAgain(a)'
  BY <1>1, <1>5, <1>6, RowsServed
<1> QED BY <1>2, <1>3, <1>7 DEF ServedInv, TypeOK, File

LEMMA ServedInit == Init => ServedInv
<1> SUFFICES ASSUME Init PROVE ServedInv
  OBVIOUS
<1>1. \A a \in Attachments : rows[a].status = "none"
  BY DEF Init, Row
<1>2. \A a \in Sent : File(a) \in files
  BY DEF Init, Own, File
<1>3. OfferedIsServed
  BY <1>1 DEF OfferedIsServed, Offered
<1> QED BY <1>2, <1>3 DEF Init, ServedInv, TypeOK, RowSet, Row, Idle

\* Messages come, are sent and go.
LEMMA MessageStep ==
    ASSUME ServedInv, NEW a \in Attachments, Receive(a) \/ Send(a) \/ DeleteMessage(a)
    PROVE  ServedInv'
<1>1. PICK r \in {Row("pending", ""), Row("ready", "own"), Row("deleted", "")} :
          /\ rows' = [rows EXCEPT ![a] = r] /\ UNCHANGED <<files, worker, torn>>
          /\ r.status = "ready" => a \in Sent /\ rows[a].status = "none"
  <2>1. CASE Receive(a)
    BY <2>1 DEF Receive, Row
  <2>2. CASE Send(a)
    BY <2>2 DEF Send
  <2>3. CASE DeleteMessage(a)
    BY <2>3 DEF DeleteMessage, Row
  <2> QED BY <2>1, <2>2, <2>3
<1>2. r \in RowSet /\ r.status # "none"
  <2>1. CASE r = Row("pending", "")
    BY <2>1 DEF Row, RowSet
  <2>2. CASE r = Row("ready", "own")
    BY <2>2 DEF Row, RowSet
  <2>3. CASE r = Row("deleted", "")
    BY <2>3 DEF Row, RowSet
  <2> QED BY <1>1, <2>1, <2>2, <2>3
<1>3. /\ rows' \in [Attachments -> RowSet]
      /\ rows'[a] = r /\ \A b \in Attachments : b # a => rows'[b] = rows[b]
  BY <1>1, <1>2 DEF ServedInv, TypeOK
<1>4. \A b \in Attachments : rows[b].status # "none" => rows'[b].status # "none"
  BY <1>2, <1>3
<1>5. \A b \in Offered' : \/ rows'[b] = rows[b] \/ File(b) \in files
                          \/ b \in Sent /\ SentAgain(b)
  BY <1>1, <1>3 DEF Offered, ServedInv
<1>6. OfferedIsServed' /\ \A b \in Sent : \/ File(b) \in files' \/ rows'[b].status # "none"
                                          \/ SentAgain(b)'
  BY <1>1, <1>4, <1>5, RowsServed
<1> QED BY <1>1, <1>3, <1>6 DEF ServedInv, TypeOK, File

LEMMA ServedStep == ASSUME ServedInv, OrderInv, [Next]_vars PROVE ServedInv'
<1>1. ASSUME UNCHANGED <<rows, files, worker, torn>> PROVE ServedInv'
  BY <1>1 DEF ServedInv, TypeOK, OfferedIsServed, Offered, SentAgain, File
<1>2. ASSUME NEW a \in Attachments, GrowsOld(a) PROVE ServedInv'
  BY <1>1, <1>2 DEF GrowsOld
<1>3. ASSUME NEW l \in Limits, Configure(l) \/ ConfigureUnsaved(l) PROVE ServedInv'
  BY <1>1, <1>3 DEF Configure, ConfigureUnsaved, table
<1>4. CASE UNCHANGED vars
  BY <1>1, <1>4 DEF vars, table
<1> QED BY <1>2, <1>3, <1>4, MessageStep, WorkerStep, RestartStep DEF Next

-----------------------------------------------------------------------------
(* Sequences that are built step by step *)

\* A set of naturals that is not empty has a least member.
LEMMA Least ==
    ASSUME NEW T \in SUBSET Nat, T # {}
    PROVE  \E x \in T : \A y \in T : x <= y
<1> DEFINE below == {k \in Nat : \A y \in T : k <= y}
           c == Cardinality(below)
<1>1. PICK z \in T : TRUE
  OBVIOUS
<1>2. z \in Nat /\ below \in SUBSET (0 .. z) /\ 0 \in below
  BY <1>1
<1>3. IsFiniteSet(0 .. z)
  BY <1>2, FS_Interval
<1>4. IsFiniteSet(below) /\ c \in Nat /\ c # 0
  <2> HIDE DEF below
  <2> QED BY <1>2, <1>3, FS_Subset, FS_CardinalityType, FS_EmptySet
<1>5. c - 1 \in below
  <2> SUFFICES ASSUME c - 1 \notin below PROVE FALSE
    OBVIOUS
  <2>1. PICK y \in T : y < c - 1
    BY <1>4
  <2>2. below \in SUBSET (0 .. c - 2)
    BY <1>4, <2>1
  <2>3. IsFiniteSet(0 .. c - 2) /\ Cardinality(0 .. c - 2) = c - 1
    <3> HIDE DEF c
    <3> DEFINE d == c - 2
    <3>1. d \in Int /\ 0 \in Int /\ (IF 0 > d THEN 0 ELSE d - 0 + 1) = c - 1
      BY <1>4
    <3> HIDE DEF d
    <3>2. IsFiniteSet(0 .. d) /\ Cardinality(0 .. d) = IF 0 > d THEN 0 ELSE d - 0 + 1
      BY <3>1, FS_Interval
    <3> QED BY <3>1, <3>2 DEF d
  <2> HIDE DEF below
  <2>4. Cardinality(below) <= c - 1
    BY <2>2, <2>3, FS_Subset
  <2> QED BY <1>4, <2>4
<1>6. c \notin below
  <2> SUFFICES ASSUME c \in below PROVE FALSE
    OBVIOUS
  <2>1. 0 .. c \in SUBSET below
    BY <1>4
  <2>2. Cardinality(0 .. c) = c + 1
    BY <1>4, FS_Interval
  <2> HIDE DEF below
  <2>3. Cardinality(0 .. c) <= c
    BY <1>4, <2>1, FS_Subset
  <2> QED BY <1>4, <2>2, <2>3
<1> HIDE DEF c
<1>7. PICK y \in T : y < c
  BY <1>4, <1>6
<1>8. \A x \in T : c - 1 <= x
  BY <1>5
<1>9. y = c - 1
  BY <1>4, <1>7, <1>8
<1> QED BY <1>8, <1>9

\* A function on 0 .. n by its first value and a step.
StepsBy(f, n, X, x, step) ==
    /\ f \in [0 .. n -> X]
    /\ f[0] = x /\ \A i \in 1 .. n : f[i] = step[<<f[i - 1], i>>]

\* There is one for any first value and any step.
LEMMA Recursion ==
    ASSUME NEW n \in Nat, NEW X, NEW x \in X, NEW step \in [X \X Nat -> X]
    PROVE  \E f : StepsBy(f, n, X, x, step)
<1> DEFINE Has(k) == \E f \in [0 .. k -> X] :
               f[0] = x /\ \A i \in 1 .. k : f[i] = step[<<f[i - 1], i>>]
           bad == {k \in Nat : ~ Has(k)}
<1>1. Has(0)
  <2> DEFINE f == [i \in 0 .. 0 |-> x]
  <2>1. f \in [0 .. 0 -> X] /\ f[0] = x /\ 1 .. 0 = {}
    OBVIOUS
  <2> QED BY <2>1
<1>2. ASSUME NEW k \in Nat, Has(k) PROVE Has(k + 1)
  <2>1. PICK f \in [0 .. k -> X] : f[0] = x /\ \A i \in 1 .. k : f[i] = step[<<f[i - 1], i>>]
    BY <1>2
  <2> DEFINE g == [i \in 0 .. k + 1 |-> IF i <= k THEN f[i] ELSE step[<<f[k], k + 1>>]]
  <2>2. step[<<f[k], k + 1>>] \in X
    BY <2>1
  <2>3. g \in [0 .. k + 1 -> X]
    BY <2>1, <2>2
  <2>4. g[0] = x
    BY <2>1
  <2>5. ASSUME NEW i \in 1 .. k + 1 PROVE g[i] = step[<<g[i - 1], i>>]
    <3>1. CASE i <= k
      BY <2>1, <3>1
    <3>2. CASE i = k + 1
      <4>1. g[i] = step[<<f[k], k + 1>>] /\ i - 1 = k /\ k \in 0 .. k + 1
        BY <3>2
      <4>2. g[i - 1] = f[k]
        BY <4>1
      <4> HIDE DEF g
      <4> QED BY <3>2, <4>1, <4>2
    <3> QED BY <3>1, <3>2
  <2> HIDE DEF g
  <2> QED BY <2>3, <2>4, <2>5
<1> HIDE DEF Has
<1>3. bad = {}
  <2> SUFFICES ASSUME bad # {} PROVE FALSE
    OBVIOUS
  <2>1. PICK m \in bad : \A k \in bad : m <= k
    BY Least
  <2>2. m # 0 /\ m - 1 \in Nat /\ m - 1 \notin bad
    BY <1>1, <2>1
  <2>3. Has(m - 1 + 1)
    BY <1>2, <2>2
  <2> QED BY <2>1, <2>3
<1>4. Has(n)
  BY <1>3
<1> QED BY <1>4 DEF Has, StepsBy

\* A sequence with one more at its end, or one less at its front.
LEMMA AppendFacts ==
    ASSUME NEW S, NEW s \in Seq(S), NEW e \in S
    PROVE  /\ Append(s, e) \in Seq(S) /\ ToSet(Append(s, e)) = ToSet(s) \cup {e}
           /\ IsInjective(s) /\ e \notin ToSet(s) => IsInjective(Append(s, e))
<1> DEFINE t == Append(s, e)
<1>1. /\ t \in Seq(S) /\ Len(t) = Len(s) + 1 /\ Len(s) \in Nat /\ t[Len(s) + 1] = e
      /\ \A i \in 1 .. Len(s) : t[i] = s[i]
  OBVIOUS
<1>2. DOMAIN s = 1 .. Len(s) /\ DOMAIN t = 1 .. Len(s) + 1
  BY <1>1
<1> HIDE DEF t
<1>3. ToSet(t) = ToSet(s) \cup {e}
  <2>1. ToSet(s) = {s[i] : i \in 1 .. Len(s)} /\ ToSet(t) = {t[i] : i \in 1 .. Len(s) + 1}
    BY <1>2 DEF ToSet
  <2> QED BY <1>1, <2>1
<1>4. ASSUME IsInjective(s), e \notin ToSet(s) PROVE IsInjective(t)
  <2>1. \A i \in 1 .. Len(s) : s[i] # e
    BY <1>2, <1>4 DEF ToSet
  <2> QED BY <1>1, <1>2, <1>4, <2>1 DEF IsInjective
<1> QED BY <1>1, <1>3, <1>4 DEF t

\* What a filtered sequence consists of.
LEMMA OnlyFacts ==
    ASSUME NEW S, NEW s \in Seq(S), NEW set
    PROVE  /\ Only(s, set) \in Seq(S) /\ ToSet(Only(s, set)) = ToSet(s) \cap set
           /\ IsInjective(s) => IsInjective(Only(s, set))
<1> DEFINE n == Len(s)
           Def(f) == [i \in 0 .. n |->
                         IF i = 0 THEN <<>>
                         ELSE IF s[i] \in set THEN Append(f[i - 1], s[i]) ELSE f[i - 1]]
           kept == CHOOSE f : f = Def(f)
<1>1. n \in Nat /\ \A i \in 1 .. n : s[i] \in S
  OBVIOUS
<1>2. \E f : f = Def(f)
  <2> DEFINE step == [p \in Seq(S) \X Nat |->
                         IF p[2] \in 1 .. n /\ s[p[2]] \in set THEN Append(p[1], s[p[2]]) ELSE p[1]]
  <2>1. step \in [Seq(S) \X Nat -> Seq(S)]
    BY <1>1
  <2>2. PICK f \in [0 .. n -> Seq(S)] :
            f[0] = <<>> /\ \A i \in 1 .. n : f[i] = step[<<f[i - 1], i>>]
    <3> HIDE DEF step
    <3>1. <<>> \in Seq(S) /\ n \in Nat
      BY <1>1
    <3> HIDE DEF n
    <3>2. \E f : StepsBy(f, n, Seq(S), <<>>, step)
      BY <2>1, <3>1, Recursion
    <3> QED BY <3>2 DEF StepsBy
  <2>3. ASSUME NEW i \in 1 .. n
        PROVE  f[i] = IF s[i] \in set THEN Append(f[i - 1], s[i]) ELSE f[i - 1]
    <3>1. <<f[i - 1], i>> \in Seq(S) \X Nat
      <4> HIDE DEF step
      <4>1. i - 1 \in 0 .. n /\ i \in Nat
        BY <1>1
      <4>2. f[i - 1] \in Seq(S)
        BY <2>2, <4>1
      <4> QED BY <4>1, <4>2
    <3> QED BY <2>2, <3>1
  <2>4. f = Def(f)
    <3> DEFINE g == Def(f)
    <3>1. g = [i \in 0 .. n |-> g[i]] /\ g[0] = <<>>
      BY <1>1
    <3>2. \A i \in 1 .. n :
              g[i] = IF s[i] \in set THEN Append(f[i - 1], s[i]) ELSE f[i - 1]
      BY <1>1
    <3>3. f = [i \in 0 .. n |-> f[i]]
      BY <2>2
    <3> HIDE DEF g, step, n, Def
    <3>4. \A i \in 0 .. n : f[i] = g[i]
      <4>1. \A i \in 0 .. n : i = 0 \/ i \in 1 .. n
        BY <1>1 DEF n
      <4> QED BY <2>2, <2>3, <3>1, <3>2, <4>1
    <3> QED BY <3>1, <3>3, <3>4 DEF g
  <2> QED BY <2>4
<1>3. kept = Def(kept)
  <2> HIDE DEF Def
  <2> QED BY <1>2
<1>4. Only(s, set) = kept[n]
  BY DEF Only
<1> HIDE DEF kept
<1>5. kept[0] = <<>> /\ \A i \in 1 .. n :
          kept[i] = IF s[i] \in set THEN Append(kept[i - 1], s[i]) ELSE kept[i - 1]
  <2> DEFINE g == Def(kept)
  <2>1. /\ g[0] = <<>>
        /\ \A i \in 1 .. n :
               g[i] = IF s[i] \in set THEN Append(kept[i - 1], s[i]) ELSE kept[i - 1]
    BY <1>1
  <2> HIDE DEF g
  <2> QED BY <1>3, <2>1 DEF g
<1> DEFINE Good(i) == /\ kept[i] \in Seq(S) /\ ToSet(kept[i]) = {s[j] : j \in 1 .. i} \cap set
                      /\ IsInjective(s) => IsInjective(kept[i])
           bad == {i \in 0 .. n : ~ Good(i)}
<1>6. Good(0)
  <2>1. ToSet(<<>>) = {} /\ IsInjective(<<>>)
    BY DEF ToSet, IsInjective
  <2>2. {s[j] : j \in 1 .. 0} = {}
    OBVIOUS
  <2> QED BY <1>5, <2>1, <2>2
<1>7. ASSUME NEW i \in 1 .. n, Good(i - 1) PROVE Good(i)
  <2> DEFINE t == kept[i - 1]
  <2>1. t \in Seq(S) /\ ToSet(t) = {s[j] : j \in 1 .. i - 1} \cap set
        /\ (IsInjective(s) => IsInjective(t)) /\ s[i] \in S
    BY <1>1, <1>7
  <2>2. {s[j] : j \in 1 .. i} = {s[j] : j \in 1 .. i - 1} \cup {s[i]}
    BY <1>1
  <2>3. CASE s[i] \notin set
    BY <1>1, <1>5, <2>1, <2>2, <2>3
  <2>4. CASE s[i] \in set
    <3>1. kept[i] = Append(t, s[i])
      BY <1>5, <2>4
    <3>2. ToSet(Append(t, s[i])) = ToSet(t) \cup {s[i]} /\ Append(t, s[i]) \in Seq(S)
      BY <2>1, AppendFacts
    <3>3. IsInjective(s) => s[i] \notin ToSet(t)
      <4>1. ASSUME IsInjective(s), NEW j \in 1 .. i - 1 PROVE s[j] # s[i]
        BY <1>1, <4>1 DEF IsInjective
      <4> QED BY <2>1, <4>1
    <3>4. IsInjective(s) => IsInjective(Append(t, s[i]))
      BY <2>1, <3>3, AppendFacts
    <3> HIDE DEF t
    <3> QED BY <2>1, <2>2, <2>4, <3>1, <3>2, <3>4
  <2> QED BY <2>3, <2>4
<1> HIDE DEF Good
<1>8. bad = {}
  <2> SUFFICES ASSUME bad # {} PROVE FALSE
    OBVIOUS
  <2>1. PICK m \in bad : \A k \in bad : m <= k
    <3>1. bad \in SUBSET Nat
      BY <1>1
    <3> HIDE DEF bad
    <3> QED BY <3>1, Least
  <2>2. m # 0 /\ m \in 1 .. n /\ m - 1 \in 0 .. n /\ m - 1 \notin bad
    BY <1>1, <1>6, <2>1
  <2> QED BY <1>7, <2>1, <2>2
<1>9. Good(n)
  BY <1>1, <1>8
<1>10. ToSet(s) = {s[j] : j \in 1 .. n}
  BY <1>1 DEF ToSet
<1> QED BY <1>4, <1>9, <1>10 DEF Good
\* The size of some attachments.
LEMMA Sizes ==
    ASSUME NEW T \in SUBSET Attachments
    PROVE  /\ SizeOf(T) \in Nat
           /\ \A U \in SUBSET T : SizeOf(U) <= SizeOf(T)
           /\ \A a \in T : SizeOf(T \ {a}) = SizeOf(T) - Size(a)
<1>1. \A a \in Attachments : Size(a) \in Nat
  BY MediaAssumption DEF Size
<1> DEFINE B(a) == {a} \X (1 .. Size(a))
<1>2. ASSUME NEW a \in Attachments
      PROVE  IsFiniteSet(B(a)) /\ Cardinality(B(a)) = Size(a)
  <2>1. IsFiniteSet({a}) /\ Cardinality({a}) = 1
    BY FS_Singleton
  <2>2. IsFiniteSet(1 .. Size(a)) /\ Cardinality(1 .. Size(a)) = Size(a)
    BY <1>1, FS_Interval
  <2>3. Cardinality(B(a)) = Cardinality({a}) * Cardinality(1 .. Size(a)) /\ IsFiniteSet(B(a))
    <3> DEFINE V == {a}
               W == 1 .. Size(a)
    <3> HIDE DEF V, W
    <3>1. Cardinality(V \X W) = Cardinality(V) * Cardinality(W) /\ IsFiniteSet(V \X W)
      BY <2>1, <2>2, FS_Product DEF V, W
    <3> QED BY <3>1 DEF V, W
  <2> QED BY <1>1, <2>1, <2>2, <2>3
<1>3. ASSUME NEW U \in SUBSET Attachments PROVE IsFiniteSet(BytesOf(U))
  <2>1. IsFiniteSet(U)
    BY MediaAssumption, FS_Subset
  <2> DEFINE f == [a \in U |-> B(a)]
  <2>2. IsFiniteSet({f[a] : a \in U})
    <3> DEFINE V == {f[a] : a \in U}
    <3>1. f \in Surjection(U, V)
      BY DEF Surjection
    <3> HIDE DEF V, f
    <3> QED BY <2>1, <3>1, FS_Surjection DEF V
  <2>3. {f[a] : a \in U} = {B(a) : a \in U}
    OBVIOUS
  <2>4. \A t \in {B(a) : a \in U} : IsFiniteSet(t)
    BY <1>2
  <2> QED BY <2>2, <2>3, <2>4, FS_UNION DEF BytesOf
<1>4. ASSUME NEW U \in SUBSET T PROVE SizeOf(U) <= SizeOf(T)
  <2>1. BytesOf(U) \in SUBSET BytesOf(T)
    BY DEF BytesOf
  <2> QED BY <1>3, <2>1, FS_Subset DEF SizeOf
<1>5. ASSUME NEW a \in T PROVE SizeOf(T \ {a}) = SizeOf(T) - Size(a)
  <2>1. BytesOf(T \ {a}) = BytesOf(T) \ B(a)
    BY DEF BytesOf
  <2>2. BytesOf(T) \cap B(a) = B(a)
    BY DEF BytesOf
  <2>3. Cardinality(BytesOf(T) \ B(a)) = Cardinality(BytesOf(T)) - Cardinality(B(a))
    <3> DEFINE V == BytesOf(T)
               W == B(a)
    <3>1. IsFiniteSet(V) /\ V \cap W = W
      BY <1>3, <2>2
    <3> HIDE DEF V, W
    <3>2. Cardinality(V \ W) = Cardinality(V) - Cardinality(V \cap W)
      BY <3>1, FS_Difference
    <3> QED BY <3>1, <3>2 DEF V, W
  <2> QED BY <1>2, <2>1, <2>3 DEF SizeOf
<1>6. SizeOf(T) \in Nat
  BY <1>3, FS_CardinalityType DEF SizeOf
<1> QED BY <1>4, <1>5, <1>6

LEMMA NoSize == SizeOf({}) = 0
<1>1. BytesOf({}) = {}
  BY DEF BytesOf
<1> QED BY <1>1, FS_EmptySet DEF SizeOf

\* What cleanup removes leaves no more than the limit.
LEMMA DueFacts ==
    ASSUME NEW s \in Seq(Attachments), IsInjective(s), NEW max \in Nat
    PROVE  /\ Due(s, max) \in Seq(Attachments) /\ ToSet(Due(s, max)) \subseteq ToSet(s)
           /\ SizeOf(ToSet(s) \ ToSet(Due(s, max))) <= max
<1> DEFINE n == Len(s)
           R == ToSet(s)
           X == [due : Seq(Attachments), total : Int]
           Walked(left, i) == IF s[i] \in old \/ left.total > max
                              THEN [due |-> Append(left.due, s[i]),
                                    total |-> left.total - Size(s[i])]
                              ELSE left
           none == [due |-> <<>>, total |-> SizeOf(R)]
           Def(f) == [i \in 0 .. n |-> IF i = 0 THEN none ELSE Walked(f[i - 1], i)]
           walk == CHOOSE f : f = Def(f)
           D(i) == ToSet(walk[i].due)
<1>1. /\ n \in Nat /\ DOMAIN s = 1 .. n /\ R = {s[i] : i \in 1 .. n}
      /\ \A i \in 1 .. n : s[i] \in Attachments /\ Size(s[i]) \in Nat
      /\ R \in SUBSET Attachments /\ SizeOf(R) \in Nat
  <2>1. n \in Nat /\ DOMAIN s = 1 .. n /\ \A i \in 1 .. n : s[i] \in Attachments
    OBVIOUS
  <2>2. R = {s[i] : i \in 1 .. n}
    BY <2>1 DEF ToSet
  <2>3. \A a \in Attachments : Size(a) \in Nat
    BY MediaAssumption DEF Size
  <2>4. R \in SUBSET Attachments
    BY <2>1, <2>2
  <2> QED BY <2>1, <2>2, <2>3, <2>4, Sizes
<1>2. Due(s, max) = walk[n].due
  BY DEF Due
<1> HIDE DEF n, R
<1>3. none \in X
  BY <1>1
<1>4. ASSUME NEW left \in X, NEW i \in 1 .. n PROVE Walked(left, i) \in X
  <2>1. Append(left.due, s[i]) \in Seq(Attachments)
    BY <1>1
  <2>2. left.total - Size(s[i]) \in Int
    BY <1>1
  <2> QED BY <2>1, <2>2
<1> HIDE DEF Walked, none, X
<1>5. \E f : f = Def(f) /\ f \in [0 .. n -> X]
  <2> DEFINE step == [p \in X \X Nat |-> IF p[2] \in 1 .. n THEN Walked(p[1], p[2]) ELSE p[1]]
  <2>1. step \in [X \X Nat -> X]
    BY <1>4
  <2>2. PICK f \in [0 .. n -> X] :
            f[0] = none /\ \A i \in 1 .. n : f[i] = step[<<f[i - 1], i>>]
    <3> HIDE DEF step
    <3>1. \E f : StepsBy(f, n, X, none, step)
      BY <1>1, <1>3, <2>1, Recursion
    <3> QED BY <3>1 DEF StepsBy
  <2>3. ASSUME NEW i \in 1 .. n PROVE f[i] = Walked(f[i - 1], i)
    <3>1. <<f[i - 1], i>> \in X \X Nat
      <4> HIDE DEF step
      <4>1. i - 1 \in 0 .. n /\ i \in Nat
        BY <1>1
      <4>2. f[i - 1] \in X
        BY <2>2, <4>1
      <4> QED BY <4>1, <4>2
    <3> QED BY <2>2, <3>1
  <2>4. f = Def(f)
    <3> DEFINE g == Def(f)
    <3>1. g = [i \in 0 .. n |-> g[i]] /\ g[0] = none
      BY <1>1
    <3>2. \A i \in 1 .. n : g[i] = Walked(f[i - 1], i)
      BY <1>1
    <3>3. f = [i \in 0 .. n |-> f[i]]
      BY <2>2
    <3> HIDE DEF g, step, Def
    <3>4. \A i \in 0 .. n : f[i] = g[i]
      <4>1. \A i \in 0 .. n : i = 0 \/ i \in 1 .. n
        BY <1>1
      <4> QED BY <2>2, <2>3, <3>1, <3>2, <4>1
    <3> QED BY <3>1, <3>3, <3>4 DEF g
  <2> QED BY <2>2, <2>4
<1>6. walk = Def(walk)
  <2> HIDE DEF Def
  <2> QED BY <1>5
<1> HIDE DEF walk
<1>7. walk[0] = none /\ \A i \in 1 .. n : walk[i] = Walked(walk[i - 1], i)
  <2> DEFINE g == Def(walk)
  <2>1. g[0] = none /\ \A i \in 1 .. n : g[i] = Walked(walk[i - 1], i)
    BY <1>1
  <2> HIDE DEF g
  <2> QED BY <1>6, <2>1 DEF g
<1> HIDE DEF Def
<1> DEFINE Good(i) == /\ walk[i] \in X /\ D(i) \subseteq {s[j] : j \in 1 .. i}
                      /\ walk[i].total = SizeOf(R \ D(i))
                      /\ walk[i].total <= max \/ D(i) = {s[j] : j \in 1 .. i}
           bad == {i \in 0 .. n : ~ Good(i)}
<1>8. Good(0)
  <2>1. ToSet(<<>>) = {} /\ {s[j] : j \in 1 .. 0} = {} /\ R \ {} = R
    BY DEF ToSet
  <2>2. D(0) = {} /\ walk[0].total = SizeOf(R)
    BY <1>7, <2>1 DEF none
  <2> HIDE DEF D
  <2> QED BY <1>3, <1>7, <2>1, <2>2
<1>9. ASSUME NEW i \in 1 .. n, Good(i - 1) PROVE Good(i)
  <2> DEFINE left == walk[i - 1]
             due == s[i] \in old \/ left.total > max
  <2>1. i - 1 \in Nat /\ i \in Nat /\ left \in X /\ walk[i] = Walked(left, i)
    BY <1>1, <1>7, <1>9
  <2>2. left.due \in Seq(Attachments) /\ left.total \in Int
    BY <2>1 DEF X
  <2>3. {s[j] : j \in 1 .. i} = {s[j] : j \in 1 .. i - 1} \cup {s[i]}
    BY <2>1
  <2>4. s[i] \in R \ D(i - 1) /\ s[i] \in Attachments /\ Size(s[i]) \in Nat
    <3>1. \A j \in 1 .. i - 1 : s[j] # s[i]
      BY <1>1 DEF IsInjective
    <3>2. D(i - 1) \subseteq {s[j] : j \in 1 .. i - 1}
      BY <1>9
    <3> HIDE DEF D
    <3> QED BY <1>1, <3>1, <3>2
  <2>5. R \ D(i - 1) \in SUBSET Attachments
    BY <1>1
  <2>6. /\ walk[i].total = IF due THEN left.total - Size(s[i]) ELSE left.total
        /\ D(i) = IF due THEN D(i - 1) \cup {s[i]} ELSE D(i - 1)
    <3>1. ToSet(Append(left.due, s[i])) = ToSet(left.due) \cup {s[i]}
      BY <2>2, <2>4, AppendFacts
    <3>2. CASE due
      <4>1. Walked(left, i) = [due |-> Append(left.due, s[i]), total |-> left.total - Size(s[i])]
        BY <3>2 DEF Walked
      <4>2. walk[i].total = left.total - Size(s[i]) /\ walk[i].due = Append(left.due, s[i])
        BY <2>1, <4>1
      <4> QED BY <3>1, <3>2, <4>2
    <3>3. CASE ~ due
      <4>1. walk[i] = left
        BY <2>1, <3>3 DEF Walked
      <4> QED BY <3>3, <4>1
    <3> QED BY <3>2, <3>3
  <2>7. /\ left.total = SizeOf(R \ D(i - 1)) /\ D(i - 1) \subseteq {s[j] : j \in 1 .. i - 1}
        /\ left.total <= max \/ D(i - 1) = {s[j] : j \in 1 .. i - 1}
    BY <1>9
  <2>8. left.total > max => due
    OBVIOUS
  <2>9. walk[i] \in X
    BY <1>4, <2>1
  <2> HIDE DEF D, due, left
  <2>10. SizeOf(R \ D(i - 1)) \in Nat
    BY <2>5, Sizes
  <2>11. D(i) \subseteq {s[j] : j \in 1 .. i}
    BY <2>3, <2>6, <2>7
  <2>12. CASE due
    <3>1. R \ D(i) = (R \ D(i - 1)) \ {s[i]}
      BY <2>6, <2>12
    <3>2. SizeOf(R \ D(i)) = SizeOf(R \ D(i - 1)) - Size(s[i])
      <4> DEFINE T == R \ D(i - 1)
      <4>1. T \in SUBSET Attachments /\ s[i] \in T
        BY <2>4, <2>5
      <4> HIDE DEF T
      <4>2. SizeOf(T \ {s[i]}) = SizeOf(T) - Size(s[i])
        BY <4>1, Sizes
      <4> QED BY <3>1, <4>2 DEF T
    <3>3. walk[i].total = SizeOf(R \ D(i))
      BY <2>6, <2>7, <2>12, <3>2
    <3>4. walk[i].total <= max \/ D(i) = {s[j] : j \in 1 .. i}
      <4>1. CASE left.total <= max
        BY <2>4, <2>6, <2>7, <2>10, <2>12, <4>1
      <4>2. CASE D(i - 1) = {s[j] : j \in 1 .. i - 1}
        BY <2>3, <2>6, <2>12, <4>2
      <4> QED BY <2>7, <4>1, <4>2
    <3> QED BY <2>9, <2>11, <3>3, <3>4
  <2>13. CASE ~ due
    BY <2>6, <2>7, <2>8, <2>9, <2>10, <2>11, <2>13
  <2> QED BY <2>12, <2>13
<1> HIDE DEF Good
<1>10. bad = {}
  <2> SUFFICES ASSUME bad # {} PROVE FALSE
    OBVIOUS
  <2>1. PICK m \in bad : \A k \in bad : m <= k
    <3>1. bad \in SUBSET Nat
      BY <1>1
    <3> HIDE DEF bad
    <3> QED BY <3>1, Least
  <2>2. m # 0 /\ m \in 1 .. n /\ m - 1 \in 0 .. n /\ m - 1 \notin bad
    BY <1>1, <1>8, <2>1
  <2> QED BY <1>9, <2>1, <2>2
<1>11. Good(n)
  BY <1>1, <1>10
<1>12. walk[n].due \in Seq(Attachments) /\ D(n) \subseteq R
  BY <1>1, <1>11 DEF Good, X
<1> HIDE DEF D
<1>13. SizeOf(R \ D(n)) <= max
  <2>1. CASE walk[n].total <= max
    BY <1>11, <2>1 DEF Good
  <2>2. CASE D(n) = {s[j] : j \in 1 .. n}
    <3>1. R \ D(n) = {}
      BY <1>1, <2>2
    <3>2. SizeOf(R \ D(n)) = 0
      BY <3>1, NoSize
    <3> QED BY <3>2
  <2> QED BY <1>11, <2>1, <2>2 DEF Good
<1> QED BY <1>2, <1>12, <1>13 DEF D, R

LEMMA Members == ASSUME NEW S, NEW s \in Seq(S) PROVE ToSet(s) \subseteq S
BY DEF ToSet

\* A sequence without its first element, or up to some element.
LEMMA TailFacts ==
    ASSUME NEW S, NEW s \in Seq(S), s # <<>>
    PROVE  /\ Tail(s) \in Seq(S) /\ Head(s) \in S
           /\ ToSet(s) = {Head(s)} \cup ToSet(Tail(s))
           /\ IsInjective(s) => IsInjective(Tail(s)) /\ Head(s) \notin ToSet(Tail(s))
<1> DEFINE t == Tail(s)
           n == Len(s)
<1>1. /\ n \in Nat /\ n # 0 /\ t \in Seq(S) /\ Len(t) = n - 1 /\ Head(s) = s[1] /\ Head(s) \in S
      /\ \A i \in 1 .. n - 1 : t[i] = s[i + 1]
  OBVIOUS
<1>2. DOMAIN s = 1 .. n /\ DOMAIN t = 1 .. n - 1
  BY <1>1
<1> HIDE DEF t, n
<1>3. ToSet(s) = {s[i] : i \in 1 .. n} /\ ToSet(t) = {t[i] : i \in 1 .. n - 1}
  BY <1>2 DEF ToSet
<1>4. ToSet(t) \subseteq ToSet(s) /\ Head(s) \in ToSet(s)
  <2>1. ASSUME NEW i \in 1 .. n - 1 PROVE t[i] \in ToSet(s)
    <3>1. i + 1 \in 1 .. n /\ t[i] = s[i + 1]
      BY <1>1
    <3> QED BY <1>3, <3>1
  <2>2. 1 \in 1 .. n
    BY <1>1
  <2> QED BY <1>1, <1>3, <2>1, <2>2
<1>5. ASSUME NEW i \in 1 .. n PROVE s[i] \in {Head(s)} \cup ToSet(t)
  <2>1. CASE i = 1
    BY <1>1, <2>1
  <2>2. CASE i # 1
    <3>1. i - 1 \in 1 .. n - 1 /\ i - 1 + 1 = i
      BY <1>1, <2>2
    <3> QED BY <1>1, <1>3, <3>1
  <2> QED BY <2>1, <2>2
<1>6. ASSUME IsInjective(s) PROVE IsInjective(t) /\ Head(s) \notin ToSet(t)
  <2>1. \A i, j \in 1 .. n : s[i] = s[j] => i = j
    BY <1>2, <1>6 DEF IsInjective
  <2>2. \A i \in 1 .. n - 1 : i + 1 \in 1 .. n /\ i + 1 # 1 /\ 1 \in 1 .. n
    BY <1>1
  <2>3. IsInjective(t)
    BY <1>1, <1>2, <2>1, <2>2 DEF IsInjective
  <2> QED BY <1>1, <1>3, <2>1, <2>2, <2>3
<1> QED BY <1>1, <1>3, <1>4, <1>5, <1>6 DEF t

LEMMA PrefixFacts ==
    ASSUME NEW S, NEW s \in Seq(S), NEW k \in 0 .. Len(s)
    PROVE  /\ SubSeq(s, 1, k) \in Seq(S) /\ ToSet(SubSeq(s, 1, k)) \subseteq ToSet(s)
           /\ IsInjective(s) => IsInjective(SubSeq(s, 1, k))
<1> DEFINE t == SubSeq(s, 1, k)
<1>1. /\ t \in Seq(S) /\ Len(t) = k /\ Len(s) \in Nat /\ k \in Nat /\ k <= Len(s)
      /\ \A i \in 1 .. k : t[i] = s[i]
  BY SubSeqProperties
<1>2. DOMAIN s = 1 .. Len(s) /\ DOMAIN t = 1 .. k
  BY <1>1
<1> HIDE DEF t
<1>3. ToSet(t) \subseteq ToSet(s)
  <2>1. ToSet(s) = {s[i] : i \in 1 .. Len(s)} /\ ToSet(t) = {t[i] : i \in 1 .. k}
    BY <1>2 DEF ToSet
  <2> QED BY <1>1, <2>1
<1>4. IsInjective(s) => IsInjective(t)
  BY <1>1, <1>2 DEF IsInjective
<1> QED BY <1>1, <1>3, <1>4 DEF t

\* Two sequences that share nothing.
LEMMA ConcatFacts ==
    ASSUME NEW S, NEW s \in Seq(S), NEW t \in Seq(S)
    PROVE  /\ s \o t \in Seq(S) /\ ToSet(s \o t) = ToSet(s) \cup ToSet(t)
           /\ IsInjective(s) /\ IsInjective(t) /\ ToSet(s) \cap ToSet(t) = {} =>
                  IsInjective(s \o t)
<1> DEFINE u == s \o t
           m == Len(s)
           n == Len(t)
<1>1. /\ m \in Nat /\ n \in Nat /\ u \in Seq(S) /\ Len(u) = m + n
      /\ \A i \in 1 .. m + n : u[i] = IF i <= m THEN s[i] ELSE t[i - m]
  BY ConcatProperties
<1>2. DOMAIN s = 1 .. m /\ DOMAIN t = 1 .. n /\ DOMAIN u = 1 .. m + n
  BY <1>1
<1> HIDE DEF u, m, n
<1>3. /\ ToSet(s) = {s[i] : i \in 1 .. m} /\ ToSet(t) = {t[i] : i \in 1 .. n}
      /\ ToSet(u) = {u[i] : i \in 1 .. m + n}
  BY <1>2 DEF ToSet
<1>4. \A i \in 1 .. m : i \in 1 .. m + n /\ i <= m
  BY <1>1
<1>5. \A i \in 1 .. n : i + m \in 1 .. m + n /\ ~ (i + m <= m) /\ i + m - m = i
  BY <1>1
<1>6. \A i \in 1 .. m + n : IF i <= m THEN i \in 1 .. m ELSE i - m \in 1 .. n
  BY <1>1
<1>7. ToSet(u) = ToSet(s) \cup ToSet(t)
  <2>1. ToSet(s) \subseteq ToSet(u)
    BY <1>1, <1>3, <1>4
  <2>2. ToSet(t) \subseteq ToSet(u)
    <3>1. ASSUME NEW i \in 1 .. n PROVE t[i] \in ToSet(u)
      <4>1. u[i + m] = t[i]
        BY <1>1, <1>5
      <4> QED BY <1>3, <1>5, <4>1
    <3> QED BY <1>3, <3>1
  <2>3. ToSet(u) \subseteq ToSet(s) \cup ToSet(t)
    BY <1>1, <1>3, <1>6
  <2> QED BY <2>1, <2>2, <2>3
<1>8. ASSUME IsInjective(s), IsInjective(t), ToSet(s) \cap ToSet(t) = {},
             NEW i \in 1 .. m + n, NEW j \in 1 .. m + n, u[i] = u[j]
      PROVE  i = j
  <2>1. /\ u[i] = IF i <= m THEN s[i] ELSE t[i - m]
        /\ u[j] = IF j <= m THEN s[j] ELSE t[j - m]
    BY <1>1
  <2>2. CASE i <= m /\ j <= m
    BY <1>2, <1>6, <1>8, <2>1, <2>2 DEF IsInjective
  <2>3. CASE ~ (i <= m) /\ ~ (j <= m)
    <3>1. i - m = j - m
      BY <1>2, <1>6, <1>8, <2>1, <2>3 DEF IsInjective
    <3> QED BY <1>1, <3>1
  <2>4. CASE i <= m /\ ~ (j <= m)
    BY <1>3, <1>6, <1>8, <2>1, <2>4
  <2>5. CASE ~ (i <= m) /\ j <= m
    BY <1>3, <1>6, <1>8, <2>1, <2>5
  <2> QED BY <2>2, <2>3, <2>4, <2>5
<1>9. IsInjective(s) /\ IsInjective(t) /\ ToSet(s) \cap ToSet(t) = {} => IsInjective(u)
  BY <1>2, <1>8 DEF IsInjective
<1> QED BY <1>1, <1>7, <1>9 DEF u

-----------------------------------------------------------------------------
(* The size limit *)

\* What cleanup walks through: every row that is ready, once.
LEMMA EvictableFacts ==
    ASSUME arrived \in Seq(Attachments), IsInjective(arrived),
           NEW rs, NEW fs \in Seq(Attachments), IsInjective(fs)
    PROVE  /\ Evictable(rs, fs) \in Seq(Attachments) /\ IsInjective(Evictable(rs, fs))
           /\ \A a \in ToSet(Evictable(rs, fs)) : rs[a].status = "ready"
           /\ \A a \in Received \cap ToSet(fs) :
                  rs[a].status = "ready" => a \in ToSet(Evictable(rs, fs))
<1> DEFINE own == {a \in Sent : rs[a].status = "ready" /\ rs[a].path # ""}
           cached == {a \in Received : rs[a].status = "ready"}
           s == Only(arrived, own)
           t == Only(fs, cached)
<1>1. own \cap cached = {}
  BY MediaAssumption
<1>2. Evictable(rs, fs) = s \o t
  BY DEF Evictable
<1>3. \A a \in Received \cap ToSet(fs) : rs[a].status = "ready" => a \in ToSet(fs) \cap cached
  OBVIOUS
<1>7. \A a \in own \cup cached : rs[a].status = "ready"
  OBVIOUS
<1> HIDE DEF own, cached
<1>4. s \in Seq(Attachments) /\ IsInjective(s) /\ ToSet(s) \subseteq own
  BY OnlyFacts
<1>5. t \in Seq(Attachments) /\ IsInjective(t) /\ ToSet(t) = ToSet(fs) \cap cached
  BY OnlyFacts
<1> HIDE DEF s, t
<1>6. /\ s \o t \in Seq(Attachments) /\ ToSet(s \o t) = ToSet(s) \cup ToSet(t)
      /\ IsInjective(s \o t)
  BY <1>1, <1>4, <1>5, ConcatFacts
<1> QED BY <1>2, <1>3, <1>4, <1>5, <1>6, <1>7

\* The downloads a pass begins with: rows without a file, each once.
LEMMA PendingFacts ==
    ASSUME OrderInv
    PROVE  /\ Pending \in Seq(Attachments) /\ IsInjective(Pending)
           /\ ToSet(Pending) \cap ToSet(fetched) = {} /\ ToSet(Pending) \subseteq Received
           /\ \A a \in ToSet(Pending) : rows[a].status # "none"
<1> DEFINE set == {a \in Received : rows[a].path = "" /\ rows[a].status \in {"pending", "failed"}}
           all == Only(arrived, set)
           k == IF Len(all) < Batch THEN Len(all) ELSE Batch
<1>1. all \in Seq(Attachments) /\ IsInjective(all) /\ ToSet(all) \subseteq set
  <2>1. arrived \in Seq(Attachments) /\ IsInjective(arrived)
    BY DEF OrderInv
  <2> HIDE DEF set
  <2> QED BY <2>1, OnlyFacts
<1>2. /\ set \cap ToSet(fetched) = {} /\ set \subseteq Received
      /\ \A a \in set : rows[a].status # "none"
  BY DEF OrderInv
<1>3. Pending = SubSeq(all, 1, k)
  BY DEF Pending
<1> HIDE DEF all
<1>4. k \in 0 .. Len(all)
  <2>1. Len(all) \in Nat /\ Batch \in Nat
    <3>1. Len(all) \in Nat
      <4>1. all \in Seq(Attachments)
        BY <1>1
      <4> QED BY <4>1, LenProperties
    <3> QED BY <3>1, MediaAssumption
  <2> QED BY <2>1
<1> HIDE DEF set, k
<1>5. /\ SubSeq(all, 1, k) \in Seq(Attachments) /\ IsInjective(SubSeq(all, 1, k))
      /\ ToSet(SubSeq(all, 1, k)) \subseteq ToSet(all)
  BY <1>1, <1>4, PrefixFacts
<1> QED BY <1>1, <1>2, <1>3, <1>5

WithinLimit == worker.pc = "idle" => CachedBytes <= worker.max

\* A pass that goes on, or ends.
LEMMA GoOnLimits ==
    ASSUME NEW rs \in [Attachments -> RowSet], NEW fs \in Seq(Attachments),
           NEW todo \in Seq(Attachments), GoOn(rs, fs, todo),
           IsInjective(fs), IsInjective(todo), ToSet(todo) \cap ToSet(fs) = {},
           \A a \in Received : rs[a].status = "ready" /\ rs[a].path = "cache" => a \in ToSet(fs),
           \A a \in ToSet(fs) : rs[a].status = "ready",
           \A a \in ToSet(arrived) \cup ToSet(todo) : rs[a].status # "none",
           ToSet(todo) \subseteq Received, OrderInv, LimitInv,
           arrived' = arrived, fetched' = fs, UNCHANGED <<limit, saved>>
    PROVE  OrderInv' /\ LimitInv' /\ WithinLimit'
<1>1. CASE todo # <<>>
  <2> DEFINE h == Head(todo)
  <2>1. h \in Attachments /\ h \in ToSet(todo)
    BY <1>1, TailFacts
  <2>2. worker' = [pc |-> "download", todo |-> todo, max |-> worker.max]
        /\ (rows' = rs \/ rows' = [rs EXCEPT ![h].status = "downloading"])
    BY <1>1 DEF GoOn
  <2>3. worker'.pc = "download" /\ worker'.todo = todo /\ worker'.max = worker.max
    BY <2>2
  <2> HIDE DEF h
  <2>4. /\ \A a \in Attachments : a # h => rows'[a] = rs[a]
        /\ rows'[h] = rs[h] \/ rows'[h].status = "downloading"
    BY <2>1, <2>2 DEF RowSet
  <2>5. h \notin ToSet(fs)
    BY <2>1
  <2>6. ToSet(fs) \subseteq Attachments /\ ToSet(arrived) \subseteq Attachments
    BY DEF OrderInv, ToSet
  <2>7. \A a \in ToSet(fs) : rows'[a].status = "ready"
    BY <2>4, <2>5, <2>6
  <2>8. \A a \in ToSet(arrived) : rows'[a].status # "none"
    BY <2>4, <2>6
  <2>9. Cached' \subseteq ToSet(fs)
    BY <2>4 DEF Cached, Attachments
  <2>12. \A a \in ToSet(todo) : rows'[a].status # "none"
    BY <2>4, MediaAssumption DEF Attachments
  <2>10. OrderInv'
    BY <1>1, <2>3, <2>7, <2>8, <2>9, <2>12 DEF OrderInv
  <2>11. LimitInv'
    BY <2>3 DEF LimitInv
  <2> QED BY <2>3, <2>10, <2>11 DEF WithinLimit
<1>2. CASE todo = <<>>
  <2> DEFINE s == Evictable(rs, fs)
             due == Due(s, limit)
  <2>1. rows' = rs /\ worker' = [pc |-> IF due = <<>> THEN "idle" ELSE "evict", todo |-> due,
                                 max |-> limit]
    BY <1>2 DEF GoOn
  <2>2. /\ s \in Seq(Attachments) /\ IsInjective(s)
        /\ \A a \in Received \cap ToSet(fs) : rs[a].status = "ready" => a \in ToSet(s)
        /\ \A a \in ToSet(s) : rs[a].status = "ready"
    BY EvictableFacts DEF OrderInv
  <2>3. limit \in Nat /\ limit \in Limits
    BY MediaAssumption DEF LimitInv
  <2> HIDE DEF s
  <2>4. /\ due \in Seq(Attachments) /\ SizeOf(ToSet(s) \ ToSet(due)) <= limit
        /\ ToSet(due) \subseteq ToSet(s)
    BY <2>2, <2>3, DueFacts
  <2> HIDE DEF due
  <2>5. /\ worker'.pc = (IF due = <<>> THEN "idle" ELSE "evict")
        /\ worker'.todo = due /\ worker'.max = limit
    BY <2>1
  <2>6. Cached' \subseteq ToSet(s) /\ Cached' \subseteq ToSet(fs)
    BY <2>1, <2>2 DEF Cached
  <2>7. SizeOf(Cached' \ ToSet(due)) <= limit
    <3> DEFINE T == ToSet(s) \ ToSet(due)
               U == Cached' \ ToSet(due)
    <3>1. T \in SUBSET Attachments /\ U \in SUBSET T
      BY <2>2, <2>6 DEF ToSet
    <3>2. SizeOf(T) \in Nat /\ SizeOf(U) <= SizeOf(T)
      <4> HIDE DEF T, U
      <4> QED BY <3>1, Sizes
    <3>3. SizeOf(U) \in Nat
      <4>1. U \in SUBSET Attachments
        BY <3>1
      <4> HIDE DEF U
      <4> QED BY <4>1, Sizes
    <3> QED BY <2>3, <2>4, <3>2, <3>3
  <2>8. OrderInv'
    BY <2>1, <2>2, <2>4, <2>5, <2>6 DEF OrderInv
  <2>9. LimitInv'
    BY <2>3, <2>5, <2>7 DEF LimitInv
  <2>10. WithinLimit'
    <3>1. CASE due = <<>>
      <4>1. Cached' \ ToSet(due) = Cached'
        BY <3>1 DEF ToSet
      <4> QED BY <2>5, <2>7, <4>1 DEF WithinLimit, CachedBytes
    <3>2. CASE due # <<>>
      BY <2>5, <3>2 DEF WithinLimit
    <3> QED BY <3>1, <3>2
  <2> QED BY <2>8, <2>9, <2>10
<1> QED BY <1>1, <1>2

\* Fewer files have no more bytes.
LEMMA LessIsLess ==
    ASSUME NEW T \in SUBSET Attachments, NEW U \in SUBSET T, NEW max \in Nat, SizeOf(T) <= max
    PROVE  SizeOf(U) <= max
<1>1. SizeOf(T) \in Nat /\ SizeOf(U) <= SizeOf(T)
  BY Sizes
<1>2. SizeOf(U) \in Nat
  <2>1. U \in SUBSET Attachments
    OBVIOUS
  <2> QED BY <2>1, Sizes
<1> QED BY <1>1, <1>2

\* The removal of a row from the orders.
LEMMA Removal ==
    ASSUME NEW s \in Seq(Attachments), IsInjective(s), NEW a
    PROVE  /\ Only(s, Attachments \ {a}) \in Seq(Attachments)
           /\ IsInjective(Only(s, Attachments \ {a}))
           /\ ToSet(Only(s, Attachments \ {a})) = ToSet(s) \ {a}
<1> DEFINE set == Attachments \ {a}
<1>1. ToSet(s) \cap set = ToSet(s) \ {a}
  BY DEF ToSet
<1> HIDE DEF set
<1>2. /\ Only(s, set) \in Seq(Attachments) /\ IsInjective(Only(s, set))
      /\ ToSet(Only(s, set)) = ToSet(s) \cap set
  BY OnlyFacts
<1> QED BY <1>1, <1>2 DEF set

\* The steps of a pass keep the invariants, and where it ends the cache is within the limit.
LEMMA PassLimits ==
    ASSUME ServedInv, OrderInv, LimitInv, Worker
    PROVE  OrderInv' /\ LimitInv' /\ WithinLimit'
<1> DEFINE a == Head(worker.todo)
           rest == Tail(worker.todo)
<1>0. /\ rows \in [Attachments -> RowSet]
      /\ worker = [pc |-> worker.pc, todo |-> worker.todo, max |-> worker.max]
  BY DEF ServedInv, TypeOK
<1>1. ASSUME worker.pc # "idle"
      PROVE  /\ a \in Attachments /\ rest \in Seq(Attachments)
             /\ ToSet(worker.todo) = {a} \cup ToSet(rest)
             /\ IsInjective(worker.todo) => IsInjective(rest) /\ a \notin ToSet(rest)
  <2>1. worker.todo \in Seq(Attachments) /\ worker.todo # <<>>
    BY <1>1 DEF OrderInv
  <2> QED BY <2>1, TailFacts
<1>2. CASE Begin
  <2>1. GoOn(rows, fetched, Pending) /\ UNCHANGED <<arrived, fetched, limit, saved>>
    BY <1>2 DEF Begin
  <2>2. \A b \in Received :
            rows[b].status = "ready" /\ rows[b].path = "cache" => b \in ToSet(fetched)
    BY DEF OrderInv, Cached
  <2>3. /\ fetched \in Seq(Attachments) /\ IsInjective(fetched)
        /\ \A b \in ToSet(fetched) : rows[b].status = "ready"
        /\ \A b \in ToSet(arrived) : rows[b].status # "none"
    BY DEF OrderInv
  <2> QED BY <1>0, <2>1, <2>2, <2>3, PendingFacts, GoOnLimits
<1>3. CASE Downloaded
  <2>1. /\ worker.pc = "download" /\ UNCHANGED <<rows, arrived, fetched, limit, saved>>
        /\ worker' = [worker EXCEPT !.pc = "downloaded"]
    BY <1>3 DEF Downloaded, table
  <2>2. worker'.pc = "downloaded" /\ worker'.todo = worker.todo /\ worker'.max = worker.max
    BY <1>0, <2>1
  <2>3. OrderInv'
    BY <2>1, <2>2 DEF OrderInv, Cached
  <2>4. LimitInv'
    BY <2>1, <2>2 DEF LimitInv
  <2> QED BY <2>2, <2>3, <2>4 DEF WithinLimit
<1>4. CASE Recorded
  <2> DEFINE there == rows[a].status # "deleted"
             rs == IF there THEN [rows EXCEPT ![a] = Row("ready", "cache")] ELSE rows
             fs == IF there THEN Append(fetched, a) ELSE fetched
  <2>1. /\ worker.pc = "downloaded" /\ GoOn(rs, fs, rest) /\ fetched' = fs
        /\ UNCHANGED <<arrived, limit, saved>>
    BY <1>4 DEF Recorded
  <2>2. /\ a \in Attachments /\ rest \in Seq(Attachments)
        /\ ToSet(worker.todo) = {a} \cup ToSet(rest)
        /\ IsInjective(worker.todo) /\ ToSet(worker.todo) \cap ToSet(fetched) = {}
        /\ IsInjective(rest) /\ a \notin ToSet(rest) /\ ToSet(rest) \subseteq Received
        /\ \A b \in ToSet(rest) : rows[b].status # "none"
    <3>1. worker.pc # "idle"
      BY <2>1
    <3>2. /\ IsInjective(worker.todo) /\ ToSet(worker.todo) \cap ToSet(fetched) = {}
          /\ ToSet(worker.todo) \subseteq Received
          /\ \A b \in ToSet(worker.todo) : rows[b].status # "none"
      BY <2>1 DEF OrderInv
    <3> HIDE DEF a, rest
    <3> QED BY <1>1, <3>1, <3>2
  <2> HIDE DEF a, rest
  <2>3. /\ fetched \in Seq(Attachments) /\ IsInjective(fetched) /\ a \notin ToSet(fetched)
        /\ ToSet(fetched) \subseteq Attachments /\ ToSet(arrived) \subseteq Attachments
    BY <2>2, Members DEF OrderInv
  <2>4. /\ fs \in Seq(Attachments) /\ IsInjective(fs)
        /\ ToSet(fs) = IF there THEN ToSet(fetched) \cup {a} ELSE ToSet(fetched)
    <3>1. CASE there
      BY <2>2, <2>3, <3>1, AppendFacts
    <3>2. CASE ~ there
      BY <2>3, <3>2
    <3> QED BY <3>1, <3>2
  <2>5. /\ rs \in [Attachments -> RowSet]
        /\ \A b \in Attachments : b # a => rs[b] = rows[b]
        /\ there => rs[a].status = "ready"
        /\ ~ there => rs = rows
    <3>1. Row("ready", "cache") \in RowSet /\ Row("ready", "cache").status = "ready"
      BY DEF Row, RowSet
    <3> QED BY <1>0, <2>2, <3>1
  <2>6. ToSet(rest) \cap ToSet(fs) = {}
    BY <2>2, <2>4
  <2> HIDE DEF rs, fs
  <2>7. \A b \in Received : rs[b].status = "ready" /\ rs[b].path = "cache" => b \in ToSet(fs)
    <3> SUFFICES ASSUME NEW b \in Received, rs[b].status = "ready", rs[b].path = "cache"
                 PROVE  b \in ToSet(fs)
      OBVIOUS
    <3>1. b \in Attachments
      BY DEF Attachments
    <3>2. CASE b = a /\ there
      BY <2>4, <3>2
    <3>3. CASE b # a \/ ~ there
      <4>1. rs[b] = rows[b]
        BY <2>5, <3>1, <3>3
      <4>2. b \in ToSet(fetched)
        BY <4>1 DEF OrderInv, Cached
      <4> QED BY <2>4, <4>2
    <3> QED BY <3>2, <3>3
  <2>8. \A b \in ToSet(fs) : rs[b].status = "ready"
    BY <2>3, <2>4, <2>5 DEF OrderInv
  <2>9. \A b \in ToSet(arrived) \cup ToSet(rest) : rs[b].status # "none"
    BY <2>2, <2>3, <2>5 DEF OrderInv, Attachments
  <2> QED BY <2>1, <2>2, <2>4, <2>5, <2>6, <2>7, <2>8, <2>9, GoOnLimits
<1>5. CASE Failed
  <2> DEFINE rs == IF rows[a].status = "deleted" THEN rows
                   ELSE [rows EXCEPT ![a].status = "failed"]
  <2>1. /\ worker.pc = "download" /\ GoOn(rs, fetched, rest)
        /\ UNCHANGED <<arrived, fetched, limit, saved>>
    BY <1>5 DEF Failed
  <2>2. /\ a \in Attachments /\ rest \in Seq(Attachments)
        /\ ToSet(worker.todo) = {a} \cup ToSet(rest)
        /\ IsInjective(worker.todo) /\ ToSet(worker.todo) \cap ToSet(fetched) = {}
        /\ IsInjective(rest) /\ ToSet(rest) \subseteq Received
        /\ \A b \in ToSet(rest) : rows[b].status # "none"
    <3>1. worker.pc # "idle"
      BY <2>1
    <3>2. /\ IsInjective(worker.todo) /\ ToSet(worker.todo) \cap ToSet(fetched) = {}
          /\ ToSet(worker.todo) \subseteq Received
          /\ \A b \in ToSet(worker.todo) : rows[b].status # "none"
      BY <2>1 DEF OrderInv
    <3> HIDE DEF a, rest
    <3> QED BY <1>1, <3>1, <3>2
  <2> HIDE DEF a, rest
  <2>3. /\ rs \in [Attachments -> RowSet]
        /\ \A b \in Attachments : b # a => rs[b] = rows[b]
        /\ rs[a] = rows[a] \/ rs[a].status = "failed"
    BY <1>0, <2>2 DEF RowSet
  <2> HIDE DEF rs
  <2>4. ToSet(fetched) \subseteq Attachments \ {a} /\ ToSet(arrived) \subseteq Attachments
    BY <2>2, Members DEF OrderInv
  <2>5. \A b \in Received : rs[b].status = "ready" /\ rs[b].path = "cache" => b \in ToSet(fetched)
    <3> SUFFICES ASSUME NEW b \in Received, rs[b].status = "ready", rs[b].path = "cache"
                 PROVE  b \in ToSet(fetched)
      OBVIOUS
    <3>1. b \in Attachments
      BY DEF Attachments
    <3>2. rs[b] = rows[b]
      BY <2>3, <3>1
    <3> QED BY <3>2 DEF OrderInv, Cached
  <2>6. \A b \in ToSet(fetched) : rs[b].status = "ready"
    BY <2>3, <2>4 DEF OrderInv
  <2>7. \A b \in ToSet(arrived) \cup ToSet(rest) : rs[b].status # "none"
    BY <2>2, <2>3, <2>4 DEF OrderInv, Attachments
  <2>8. fetched \in Seq(Attachments) /\ IsInjective(fetched) /\ ToSet(rest) \cap ToSet(fetched) = {}
    BY <2>2 DEF OrderInv
  <2> QED BY <2>1, <2>2, <2>3, <2>5, <2>6, <2>7, <2>8, GoOnLimits
<1>6. CASE Unlink
  <2>1. /\ worker.pc = "evict" /\ UNCHANGED <<rows, arrived, fetched, limit, saved>>
        /\ worker' = [worker EXCEPT !.pc = "unlinked"]
    BY <1>6 DEF Unlink, table
  <2>2. worker'.pc = "unlinked" /\ worker'.todo = worker.todo /\ worker'.max = worker.max
    BY <1>0, <2>1
  <2>3. OrderInv'
    BY <2>1, <2>2 DEF OrderInv, Cached
  <2>4. LimitInv'
    BY <2>1, <2>2 DEF LimitInv, Cached
  <2> QED BY <2>2, <2>3, <2>4 DEF WithinLimit
<1>7. CASE Forget
  <2> DEFINE pc == IF rest = <<>> THEN "idle" ELSE "evict"
  <2>1. /\ worker.pc = "unlinked" /\ UNCHANGED <<arrived, limit, saved>>
        /\ rows' = IF rows[a].status = "deleted" THEN rows
                   ELSE [rows EXCEPT ![a] = Row("pending", "")]
        /\ fetched' = Only(fetched, Attachments \ {a})
        /\ worker' = [worker EXCEPT !.pc = pc, !.todo = rest]
    BY <1>7 DEF Forget
  <2>2. a \in Attachments /\ rest \in Seq(Attachments) /\ ToSet(worker.todo) = {a} \cup ToSet(rest)
    <3>1. worker.pc # "idle"
      BY <2>1
    <3> HIDE DEF a, rest
    <3> QED BY <1>1, <3>1
  <2>3. pc \in {"idle", "evict"} /\ (pc = "idle" <=> rest = <<>>)
    OBVIOUS
  <2> HIDE DEF a, rest, pc
  <2>4. worker'.pc = pc /\ worker'.todo = rest /\ worker'.max = worker.max
    BY <1>0, <2>1
  <2>5. /\ \A b \in Attachments : b # a => rows'[b] = rows[b]
        /\ rows'[a].status \in {"deleted", "pending"}
    <3>1. Row("pending", "").status = "pending"
      BY DEF Row
    <3> QED BY <1>0, <2>1, <2>2, <3>1
  <2>6. fetched \in Seq(Attachments) /\ IsInjective(fetched)
    BY DEF OrderInv
  <2>7. /\ fetched' \in Seq(Attachments) /\ IsInjective(fetched')
        /\ ToSet(fetched') = ToSet(fetched) \ {a}
    BY <2>1, <2>6, Removal
  <2>8. Cached' \subseteq Cached \ {a} /\ Cached \subseteq Attachments
    BY <2>5 DEF Cached, Attachments
  <2>9. ToSet(fetched) \subseteq Attachments /\ ToSet(arrived) \subseteq Attachments
    BY DEF OrderInv, ToSet
  <2>10. OrderInv'
    <3>1. \A b \in ToSet(arrived) : rows'[b].status # "none"
      BY <2>5, <2>9 DEF OrderInv
    <3>2. \A b \in ToSet(fetched') : rows'[b].status = "ready"
      BY <2>5, <2>7, <2>9 DEF OrderInv
    <3>3. Cached' \subseteq ToSet(fetched')
      BY <2>7, <2>8 DEF OrderInv
    <3>4. \A b \in ToSet(rest) : rows'[b].status # "none"
      BY <2>2, <2>5, Members DEF OrderInv
    <3> QED BY <2>1, <2>2, <2>3, <2>4, <2>7, <3>1, <3>2, <3>3, <3>4 DEF OrderInv
  <2>11. worker.max \in Nat /\ SizeOf(Cached \ ToSet(worker.todo)) <= worker.max
    BY <2>1, MediaAssumption DEF LimitInv
  <2>12. SizeOf(Cached' \ ToSet(rest)) <= worker.max
    <3> DEFINE T == Cached \ ToSet(worker.todo)
               U == Cached' \ ToSet(rest)
    <3>1. T \in SUBSET Attachments /\ U \in SUBSET T
      BY <2>2, <2>8
    <3> HIDE DEF U, T
    <3>2. SizeOf(T) <= worker.max /\ worker.max \in Nat
      BY <2>11 DEF T
    <3>3. SizeOf(U) <= worker.max
      BY <3>1, <3>2, LessIsLess
    <3> QED BY <3>3 DEF U
  <2>13. LimitInv'
    BY <2>1, <2>3, <2>4, <2>12 DEF LimitInv
  <2>14. WithinLimit'
    <3>1. CASE rest = <<>>
      <4>1. Cached' \ ToSet(rest) = Cached'
        BY <3>1 DEF ToSet
      <4> QED BY <2>4, <2>12, <4>1 DEF WithinLimit, CachedBytes
    <3>2. CASE rest # <<>>
      BY <2>3, <2>4, <3>2 DEF WithinLimit
    <3> QED BY <3>1, <3>2
  <2> QED BY <2>10, <2>13, <2>14
<1> QED BY <1>2, <1>3, <1>4, <1>5, <1>6, <1>7 DEF Worker

\* Messages, limits and restarts keep the invariants too.
LEMMA TableLimits ==
    ASSUME ServedInv, OrderInv, LimitInv,
           \/ \E a \in Attachments : Receive(a) \/ Send(a) \/ DeleteMessage(a) \/ GrowsOld(a)
           \/ \E l \in Limits : Configure(l) \/ ConfigureUnsaved(l)
           \/ Restart
           \/ UNCHANGED vars
    PROVE  OrderInv' /\ LimitInv'
<1>0. /\ rows \in [Attachments -> RowSet]
      /\ arrived \in Seq(Attachments) /\ IsInjective(arrived)
      /\ fetched \in Seq(Attachments) /\ IsInjective(fetched)
      /\ ToSet(fetched) \subseteq Attachments /\ ToSet(arrived) \subseteq Attachments
      /\ ToSet(worker.todo) \subseteq Attachments /\ worker.max \in Nat
  BY Members, MediaAssumption DEF ServedInv, TypeOK, OrderInv, LimitInv
<1>1. ASSUME Cached' \subseteq Cached, UNCHANGED <<worker, limit, saved>> PROVE LimitInv'
  <2>1. CASE worker.pc \in {"evict", "unlinked"}
    <3> DEFINE T == Cached \ ToSet(worker.todo)
               U == Cached' \ ToSet(worker.todo)
    <3>1. T \in SUBSET Attachments /\ U \in SUBSET T
      BY <1>1 DEF Cached, Attachments
    <3> HIDE DEF U, T
    <3>2. SizeOf(T) <= worker.max
      BY <2>1 DEF LimitInv, T
    <3>3. SizeOf(U) <= worker.max
      BY <1>0, <3>1, <3>2, LessIsLess
    <3> QED BY <1>1, <3>3 DEF LimitInv, U
  <2>2. CASE worker.pc \notin {"evict", "unlinked"}
    BY <1>1, <2>2 DEF LimitInv
  <2> QED BY <2>1, <2>2
<1>2. ASSUME NEW a \in Attachments, Receive(a) \/ Send(a) PROVE OrderInv' /\ LimitInv'
  <2>1. /\ rows[a].status = "none" /\ arrived' = Append(arrived, a)
        /\ UNCHANGED <<fetched, limit, saved, worker>>
        /\ \/ rows' = [rows EXCEPT ![a] = Row("pending", "")]
           \/ rows' = [rows EXCEPT ![a] = Row("ready", "own")]
    BY <1>2 DEF Receive, Send
  <2>2. a \notin ToSet(arrived) /\ a \notin ToSet(fetched)
    BY <2>1 DEF OrderInv
  <2>3. /\ arrived' \in Seq(Attachments) /\ IsInjective(arrived')
        /\ ToSet(arrived') = ToSet(arrived) \cup {a}
    <3>1. arrived' = Append(arrived, a)
      BY <2>1
    <3> QED BY <1>0, <2>2, <3>1, AppendFacts
  <2>4. /\ \A b \in Attachments : b # a => rows'[b] = rows[b]
        /\ rows'[a].status # "none" /\ rows'[a].path # "cache"
    <3>1. /\ Row("pending", "").status = "pending" /\ Row("pending", "").path = ""
          /\ Row("ready", "own").status = "ready" /\ Row("ready", "own").path = "own"
      BY DEF Row
    <3> QED BY <1>0, <2>1, <3>1
  <2>5. Cached' \subseteq Cached
    BY <2>4 DEF Cached, Attachments
  <2>6. \A b \in ToSet(arrived') : rows'[b].status # "none"
    BY <1>0, <2>3, <2>4 DEF OrderInv
  <2>7. \A b \in ToSet(fetched) : rows'[b].status = "ready"
    BY <1>0, <2>2, <2>4 DEF OrderInv
  <2>9. \A b \in ToSet(worker.todo) : rows'[b].status # "none"
    BY <1>0, <2>4 DEF OrderInv
  <2>8. OrderInv'
    BY <2>1, <2>3, <2>5, <2>6, <2>7, <2>9 DEF OrderInv
  <2> QED BY <1>1, <2>1, <2>5, <2>8
<1>3. ASSUME NEW a \in Attachments, DeleteMessage(a) PROVE OrderInv' /\ LimitInv'
  <2>1. /\ arrived' = Only(arrived, Attachments \ {a})
        /\ fetched' = Only(fetched, Attachments \ {a})
        /\ rows' = [rows EXCEPT ![a] = Row("deleted", "")] /\ UNCHANGED <<limit, saved, worker>>
    BY <1>3 DEF DeleteMessage
  <2>2. /\ arrived' \in Seq(Attachments) /\ IsInjective(arrived')
        /\ ToSet(arrived') = ToSet(arrived) \ {a}
    BY <1>0, <2>1, Removal
  <2>3. /\ fetched' \in Seq(Attachments) /\ IsInjective(fetched')
        /\ ToSet(fetched') = ToSet(fetched) \ {a}
    BY <1>0, <2>1, Removal
  <2>4. /\ \A b \in Attachments : b # a => rows'[b] = rows[b]
        /\ rows'[a].status = "deleted"
    <3>1. Row("deleted", "").status = "deleted"
      BY DEF Row
    <3> QED BY <1>0, <2>1, <3>1
  <2>5. Cached' \subseteq Cached \ {a}
    BY <2>4 DEF Cached, Attachments
  <2>6. \A b \in ToSet(arrived') : rows'[b].status # "none"
    BY <1>0, <2>2, <2>4 DEF OrderInv
  <2>7. \A b \in ToSet(fetched') : rows'[b].status = "ready"
    BY <1>0, <2>3, <2>4 DEF OrderInv
  <2>8. Cached' \subseteq ToSet(fetched')
    BY <2>3, <2>5 DEF OrderInv
  <2>10. \A b \in ToSet(worker.todo) : rows'[b].status # "none"
    BY <1>0, <2>4 DEF OrderInv
  <2>9. OrderInv'
    BY <2>1, <2>2, <2>3, <2>6, <2>7, <2>8, <2>10 DEF OrderInv
  <2> QED BY <1>1, <2>1, <2>5, <2>9
<1>4. ASSUME UNCHANGED <<rows, arrived, fetched, worker>>, {limit', saved'} \subseteq Limits
      PROVE  OrderInv' /\ LimitInv'
  BY <1>4 DEF OrderInv, LimitInv, Cached
<1>5. ASSUME NEW a \in Attachments, GrowsOld(a) PROVE OrderInv' /\ LimitInv'
  <2>1. UNCHANGED <<rows, arrived, fetched, worker, limit, saved>>
    BY <1>5 DEF GrowsOld
  <2> QED BY <1>4, <2>1 DEF LimitInv
<1>6. ASSUME NEW l \in Limits, Configure(l) \/ ConfigureUnsaved(l) PROVE OrderInv' /\ LimitInv'
  <2>1. /\ UNCHANGED <<rows, arrived, fetched, worker>>
        /\ limit' = l /\ saved' \in {l, saved}
    BY <1>6 DEF Configure, ConfigureUnsaved, table
  <2> QED BY <1>4, <2>1 DEF LimitInv
<1>7. CASE Restart
  <2>1. /\ rows' = [a \in Attachments |->
                       IF rows[a].status = "downloading" THEN [rows[a] EXCEPT !.status = "pending"]
                       ELSE rows[a]]
        /\ UNCHANGED <<arrived, fetched, saved>> /\ limit' = saved /\ worker' = Idle
    BY <1>7 DEF Restart
  <2>2. worker'.pc = "idle" /\ worker'.todo = <<>> /\ worker'.max = Default
    BY <2>1 DEF Idle
  <2>3. \A a \in Attachments :
            IF rows[a].status = "downloading" THEN rows'[a].status = "pending"
            ELSE rows'[a] = rows[a]
    BY <1>0, <2>1 DEF RowSet
  <2>4. Cached' \subseteq Cached
    BY <2>3 DEF Cached, Attachments
  <2>5. \A b \in ToSet(arrived) : rows'[b].status # "none"
    BY <1>0, <2>3 DEF OrderInv
  <2>6. \A b \in ToSet(fetched) : rows'[b].status = "ready"
    BY <1>0, <2>3 DEF OrderInv
  <2>9. ToSet(worker'.todo) = {}
    BY <2>2 DEF ToSet
  <2>7. OrderInv'
    BY <2>1, <2>2, <2>4, <2>5, <2>6, <2>9 DEF OrderInv
  <2>8. LimitInv'
    BY <2>1, <2>2, MediaAssumption DEF LimitInv
  <2> QED BY <2>7, <2>8
<1>8. CASE UNCHANGED vars
  BY <1>4, <1>8 DEF vars, table, LimitInv
<1> QED BY <1>2, <1>3, <1>5, <1>6, <1>7, <1>8

LEMMA LimitInit == Init => OrderInv /\ LimitInv
<1> SUFFICES ASSUME Init PROVE OrderInv /\ LimitInv
  OBVIOUS
<1>1. <<>> \in Seq(Attachments) /\ IsInjective(<<>>) /\ ToSet(<<>>) = {}
  BY DEF ToSet, IsInjective
<1>2. /\ arrived = <<>> /\ fetched = <<>> /\ limit = Default /\ saved = Default
      /\ worker.pc = "idle" /\ worker.todo = <<>> /\ worker.max = Default
      /\ \A a \in Attachments : rows[a].status = "none"
  BY DEF Init, Idle, Row
<1>3. Cached = {}
  BY <1>2 DEF Cached, Attachments
<1> QED BY <1>1, <1>2, <1>3, MediaAssumption DEF OrderInv, LimitInv

-----------------------------------------------------------------------------
(* The theorems *)

CacheInv == ServedInv /\ OrderInv /\ LimitInv

LEMMA CacheInvStep == CacheInv /\ [Next]_vars => CacheInv'
<1> SUFFICES ASSUME CacheInv, [Next]_vars PROVE OrderInv' /\ LimitInv'
  BY ServedStep DEF CacheInv
<1> QED BY PassLimits, TableLimits DEF CacheInv, Next

\* However messages, limits, passes, evictions, failures and restarts interleave, an
\* attachment that is offered, received or sent, has its file, if that was not sent
\* more than once.
THEOREM OffersAreServed == Spec => []OfferedIsServed
<1>1. Init => CacheInv
  BY ServedInit, LimitInit DEF CacheInv
<1>2. CacheInv => OfferedIsServed
  BY DEF CacheInv, ServedInv
<1> QED BY <1>1, <1>2, CacheInvStep, PTL DEF Spec

\* Whatever arrives, is sent, deleted or configured between the awaits of a pass, one that
\* ends leaves the cache within the limit its cleanup was given.
THEOREM PassesKeepTheLimit == Spec => PassEndsWithinLimit
<1>1. Init => CacheInv
  BY ServedInit, LimitInit DEF CacheInv
<1>2. CacheInv /\ [Next]_vars => (Worker /\ worker'.pc = "idle" => CachedBytes' <= worker'.max)
  BY PassLimits DEF WithinLimit, CacheInv
<1> QED BY <1>1, <1>2, CacheInvStep, PTL DEF Spec, PassEndsWithinLimit
=============================================================================
