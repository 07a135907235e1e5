----------------------------- MODULE MediaCache -----------------------------
(***************************************************************************)
(* The media worker of the live chat (local-chat-media-worker.ts) and the  *)
(* attachments table it works on.  A pass downloads the oldest attachments *)
(* that have no file, then evicts what is too old or beyond the size       *)
(* limit.  Messages arrive, are sent and deleted between its awaits, the   *)
(* limits are changed, and the process dies.                               *)
(*                                                                         *)
(* Every message has one attachment.  The temporary file of a download and *)
(* the choice of a file name are left out; a download that does not end is *)
(* aborted after 20 s, which makes it a failure.                           *)
(***************************************************************************)
EXTENDS Integers, FiniteSets, Sequences, SequencesExt

CONSTANTS
    Received,   \* attachments of messages received, with a url to download
    Sent,       \* attachments of messages sent
    FileOf,     \* the operator's file each of those is: several may be the same one
    Bad,        \* those received whose download always fails
    Bytes,      \* the size of each download
    Batch,      \* downloads of a pass: the 5 of listPendingAttachments(5)
    Limits,     \* what the size limit is set to
    Default,    \* the limit there is without a settings file
    MaxFaults,  \* bound: failed downloads, writes and removals, crashes
    MaxIncidents \* bound: messages sent or deleted, attachments that become too old

Attachments == Received \cup Sent
Own == {FileOf[a] : a \in Sent}

ASSUME MediaAssumption ==
    /\ Received \cap Sent = {} /\ Received \cap Own = {} /\ Bad \subseteq Received
    /\ Bytes \in [Received -> Nat]
    /\ Batch \in Nat /\ Cardinality(Bad) < Batch
    /\ Limits \subseteq Nat /\ Default \in Limits
    /\ IsFiniteSet(Attachments)

VARIABLES
    rows,      \* attachments: status and localPath
    arrived,   \* the rows by createdAt
    fetched,   \* the cached rows by downloadedAt
    old,       \* the rows beyond the age limit
    files,     \* the files there are: in the cache, and of the operator
    saved,     \* media-cache.json
    limit,     \* maxCacheBytes
    worker,    \* the pass under way: what it has to do, the limit of its cleanup
    torn,      \* history: evicted by a pass that died before it noted so
    faults, incidents

table == <<rows, arrived, fetched, old>>
vars == <<table, files, saved, limit, worker, torn, faults, incidents>>

Row(status, path) == [status |-> status, path |-> path]
Idle == [pc |-> "idle", todo |-> <<>>, max |-> Default]

\* The subsequence of members of a set: SelectSeq as a recursive function, for the proofs.
Only(s, set) ==
    LET kept[i \in 0 .. Len(s)] ==
            IF i = 0 THEN <<>>
            ELSE LET before == kept[i - 1]
                 IN  IF s[i] \in set THEN Append(before, s[i]) ELSE before
    IN  kept[Len(s)]

\* The sum of some sizes is the number of bytes, those of different files told apart.
Size(a) == IF a \in Received THEN Bytes[a] ELSE 0
BytesOf(set) == UNION {{a} \X (1 .. Size(a)) : a \in set}
SizeOf(set) == Cardinality(BytesOf(set))

\* The file a row names, once it names one: a download is named by its attachment.
File(a) == IF a \in Sent THEN FileOf[a] ELSE a

\* The rows with a cacheUrl.
Offered == {a \in Attachments : rows[a].status = "ready" /\ rows[a].path # ""}

\* The rows that have a size: one that is sent has none.
Cached == {a \in Received : rows[a].status = "ready" /\ rows[a].path = "cache"}
CachedBytes == SizeOf(Cached)

-----------------------------------------------------------------------------
(* The messages *)

\* _insertAttachments of a message received: to be downloaded.
Receive(a) ==
    /\ a \in Received /\ rows[a].status = "none"
    /\ rows' = [rows EXCEPT ![a] = Row("pending", "")]
    /\ arrived' = Append(arrived, a)
    /\ UNCHANGED <<fetched, old, files, saved, limit, worker, torn, faults, incidents>>

\* _insertAttachments of a message sent: its path is that of the operator's file, which
\* other messages may have as well.
Send(a) ==
    /\ a \in Sent /\ rows[a].status = "none" /\ incidents < MaxIncidents
    /\ rows' = [rows EXCEPT ![a] = Row("ready", "own")]
    /\ arrived' = Append(arrived, a)
    /\ incidents' = incidents + 1
    /\ UNCHANGED <<fetched, old, files, saved, limit, worker, torn, faults>>

\* deleteMessage: the row goes, the file stays.
DeleteMessage(a) ==
    /\ incidents < MaxIncidents /\ rows[a].status \notin {"none", "deleted"}
    /\ incidents' = incidents + 1
    /\ rows' = [rows EXCEPT ![a] = Row("deleted", "")]
    /\ arrived' = Only(arrived, Attachments \ {a})
    /\ fetched' = Only(fetched, Attachments \ {a})
    /\ old' = old \ {a}
    /\ UNCHANGED <<files, saved, limit, worker, torn, faults>>

\* maxAgeDays pass since the download, or since the message was sent.
GrowsOld(a) ==
    /\ incidents < MaxIncidents
    /\ rows[a].status = "ready" /\ a \notin old
    /\ old' = old \cup {a}
    /\ incidents' = incidents + 1
    /\ UNCHANGED <<rows, arrived, fetched, files, saved, limit, worker, torn, faults>>

-----------------------------------------------------------------------------
(* The limits *)

\* handleLocalMediaCacheSettings: what is saved is applied.
Configure(l) ==
    /\ l # limit
    /\ saved' = l /\ limit' = l
    /\ UNCHANGED <<table, files, worker, torn, faults, incidents>>

\* ... and applied as well when it cannot be saved.
ConfigureUnsaved(l) ==
    /\ l # limit /\ faults < MaxFaults
    /\ limit' = l
    /\ faults' = faults + 1
    /\ UNCHANGED <<table, files, saved, worker, torn, incidents>>

-----------------------------------------------------------------------------
(* A pass: downloads *)

\* listPendingAttachments: the oldest with a url and no file.
Pending ==
    LET all == Only(arrived, {a \in Received : /\ rows[a].path = ""
                                               /\ rows[a].status \in {"pending", "failed"}})
    IN  SubSeq(all, 1, IF Len(all) < Batch THEN Len(all) ELSE Batch)

\* The ready rows with a path, by downloadedAt, which is empty for those sent.
Evictable(rs, fs) ==
    Only(arrived, {a \in Sent : rs[a].status = "ready" /\ rs[a].path # ""})
      \o Only(fs, {a \in Received : rs[a].status = "ready"})

\* Mutant: the size limit is for old rows only.
DueIfOld(s, max) ==
    LET walk[i \in 0 .. Len(s)] ==
            IF i = 0 THEN [due |-> <<>>, total |-> SizeOf(ToSet(s))]
            ELSE LET left == walk[i - 1]
                 IN  IF s[i] \in old /\ left.total > max
                     THEN [due |-> Append(left.due, s[i]), total |-> left.total - Size(s[i])]
                     ELSE left
    IN  walk[Len(s)].due

\* The rows cleanup does not skip: those too old, and as long as the total is beyond
\* the limit any row, its size zero or not.
Due(s, max) ==
    LET walk[i \in 0 .. Len(s)] ==
            IF i = 0 THEN [due |-> <<>>, total |-> SizeOf(ToSet(s))]
            ELSE LET left == walk[i - 1]
                 IN  IF s[i] \in old \/ left.total > max
                     THEN [due |-> Append(left.due, s[i]), total |-> left.total - Size(s[i])]
                     ELSE left
    IN  walk[Len(s)].due

\* The pass goes on with its next download, or with the cleanup, up to its next await.
\* What cleanup removes follows from the rows and the limit as it reads them.
\* The bound variables have one value each, which TLC thus computes once.
GoOn(rs, fs, todo) ==
    IF todo # <<>>
    THEN /\ rows' = IF rs[Head(todo)].status = "deleted" THEN rs
                    ELSE [rs EXCEPT ![Head(todo)].status = "downloading"]
         /\ worker' = [pc |-> "download", todo |-> todo, max |-> worker.max]
    ELSE \E s \in {Evictable(rs, fs)} : \E due \in {Due(s, limit)} :
             /\ rows' = rs
             /\ worker' = [pc |-> IF due = <<>> THEN "idle" ELSE "evict", todo |-> due,
                            max |-> limit]

\* The interval fires, or the worker starts: runOnce.
Begin ==
    /\ worker.pc = "idle"
    /\ GoOn(rows, fetched, Pending)
    /\ UNCHANGED <<arrived, fetched, old, files, saved, limit, torn, faults, incidents>>

\* The file of a download is in place.
Downloaded ==
    LET a == Head(worker.todo)
    IN  /\ worker.pc = "download" /\ a \notin Bad
        /\ files' = files \cup {a}
        /\ worker' = [worker EXCEPT !.pc = "downloaded"]
        /\ UNCHANGED <<table, saved, limit, torn, faults, incidents>>

\* ... and its row is ready.
Recorded ==
    LET a == Head(worker.todo)
        there == rows[a].status # "deleted"
        fs == IF there THEN Append(fetched, a) ELSE fetched
    IN  /\ worker.pc = "downloaded"
        /\ fetched' = fs
        /\ GoOn(IF there THEN [rows EXCEPT ![a] = Row("ready", "cache")] ELSE rows,
                fs, Tail(worker.todo))
        /\ UNCHANGED <<arrived, old, files, saved, limit, torn, faults, incidents>>

\* A download ends with an error, an HTTP status or the 20 s.
Failed ==
    LET a == Head(worker.todo)
        spurious == IF a \in Bad THEN 0 ELSE 1
    IN  /\ worker.pc = "download" /\ faults + spurious <= MaxFaults
        /\ GoOn(IF rows[a].status = "deleted" THEN rows
                ELSE [rows EXCEPT ![a].status = "failed"],
                fetched, Tail(worker.todo))
        /\ faults' = faults + spurious
        /\ UNCHANGED <<arrived, fetched, old, files, saved, limit, torn, incidents>>

-----------------------------------------------------------------------------
(* A pass: cleanup *)

\* The file of a row is removed, whoever it belongs to and whichever row it has
\* besides; an error is ignored.
Unlink ==
    /\ worker.pc = "evict"
    /\ \/ files' = files \ {File(Head(worker.todo))} /\ UNCHANGED faults
       \/ /\ File(Head(worker.todo)) \in files /\ faults < MaxFaults
          /\ faults' = faults + 1
          /\ UNCHANGED files
    /\ worker' = [worker EXCEPT !.pc = "unlinked"]
    /\ UNCHANGED <<table, saved, limit, torn, incidents>>

\* Mutant: the row keeps its path.
ForgetStatus ==
    LET a == Head(worker.todo)
        rest == Tail(worker.todo)
    IN  /\ worker.pc = "unlinked"
        /\ rows' = rows
        /\ fetched' = Only(fetched, Attachments \ {a})
        /\ old' = old \ {a}
        /\ worker' = [worker EXCEPT !.pc = IF rest = <<>> THEN "idle" ELSE "evict",
                                   !.todo = rest]
        /\ UNCHANGED <<arrived, files, saved, limit, torn, faults, incidents>>

\* ... and the row is pending again.
Forget ==
    LET a == Head(worker.todo)
        rest == Tail(worker.todo)
    IN  /\ worker.pc = "unlinked"
        /\ rows' = IF rows[a].status = "deleted" THEN rows
                   ELSE [rows EXCEPT ![a] = Row("pending", "")]
        /\ fetched' = Only(fetched, Attachments \ {a})
        /\ old' = old \ {a}
        /\ worker' = [worker EXCEPT !.pc = IF rest = <<>> THEN "idle" ELSE "evict",
                                   !.todo = rest]
        /\ UNCHANGED <<arrived, files, saved, limit, torn, faults, incidents>>

-----------------------------------------------------------------------------
\* Mutant: the downloads under way are not taken back.
RestartForgetful ==
    /\ faults < MaxFaults
    /\ limit' = saved
    /\ worker' = Idle
    /\ torn' = IF worker.pc = "unlinked" THEN torn \cup {Head(worker.todo)} ELSE torn
    /\ faults' = faults + 1
    /\ UNCHANGED <<table, files, saved, incidents>>

\* The process dies and starts again: the store takes the downloads under way back,
\* the saved limit is applied before the first pass.
Restart ==
    /\ faults < MaxFaults
    /\ rows' = [a \in Attachments |->
                   IF rows[a].status = "downloading" THEN [rows[a] EXCEPT !.status = "pending"]
                   ELSE rows[a]]
    /\ limit' = saved
    /\ worker' = Idle
    /\ torn' = IF worker.pc = "unlinked" THEN torn \cup {Head(worker.todo)} ELSE torn
    /\ faults' = faults + 1
    /\ UNCHANGED <<arrived, fetched, old, files, saved, incidents>>

Init ==
    /\ rows = [a \in Attachments |-> Row("none", "")]
    /\ arrived = <<>> /\ fetched = <<>> /\ old = {}
    /\ files = Own
    /\ saved = Default /\ limit = Default
    /\ worker = Idle
    /\ torn = {} /\ faults = 0 /\ incidents = 0

Worker == Begin \/ Downloaded \/ Recorded \/ Failed \/ Unlink \/ Forget

Next ==
    \/ Worker
    \/ \E a \in Attachments : Receive(a) \/ Send(a) \/ DeleteMessage(a) \/ GrowsOld(a)
    \/ \E l \in Limits : Configure(l) \/ ConfigureUnsaved(l)
    \/ Restart

Spec == Init /\ [][Next]_vars

\* The interval fires, and every download and file operation ends.
FairSpec == Spec /\ WF_vars(Worker)

-----------------------------------------------------------------------------
\* A row that offers a file has it: GET /local/media does not answer 404 for an
\* attachment, received or sent, whose cacheUrl is set.  Excepted are the moment between
\* the removal of a file and the update of its row, the rows of which a crash made it
\* permanent, and the files that were sent more than once: the eviction of one of their
\* rows takes the file from the others, and no code looks for those (SharedIsServed).
SentAgain(a) == \E b \in Sent \ {a} : rows[b].status # "none" /\ File(b) = File(a)
OfferedIsServed ==
    \A a \in Offered :
        \/ File(a) \in files
        \/ a \in torn
        \/ worker.pc = "unlinked" /\ a = Head(worker.todo)
        \/ a \in Sent /\ SentAgain(a)

\* Whatever arrives, is deleted or configured meanwhile, a pass that ends leaves the
\* rows within the limit its cleanup was given.
PassEndsWithinLimit ==
    [][Worker /\ worker'.pc = "idle" => CachedBytes' <= worker'.max]_vars

\* With every download within the limit and fewer than Batch of them bad, no attachment
\* is left behind: one that can be downloaded has its file in the end.
Fits == SizeOf({a \in Received : rows[a].status \notin {"none", "deleted"}}) <= limit
GoodIsFetched ==
    \A a \in Received \ Bad :
        <>[] Fits => (rows[a].status = "pending" ~> rows[a].status \in {"ready", "deleted"})

\* The age and the size limits are those of the cache: the files the operator sent are
\* not evicted.  It does not hold: a sent attachment's localPath is the operator's
\* own file, and cleanup takes every ready row.
OnlyCacheIsEvicted == Own \subseteq files

\* Nor does it hold of a file two messages were sent with, without any fault: what one
\* row gives up the other goes on offering.
SharedIsServed ==
    \A a \in Offered : \/ File(a) \in files
                       \/ a \in torn
                       \/ worker.pc = "unlinked" /\ a = Head(worker.todo)
-----------------------------------------------------------------------------
(* The inductive invariants behind the theorems of MediaCacheProofs. *)

\* What makes it inductive: a download that is over is in place.
RowSet == [status : {"none", "pending", "downloading", "ready", "failed", "deleted"},
           path : {"", "cache", "own"}]

TypeOK ==
    /\ rows \in [Attachments -> RowSet]
    /\ worker = [pc |-> worker.pc, todo |-> worker.todo, max |-> worker.max]

\* ... and no file of the operator is lost before it was sent.
ServedInv ==
    /\ TypeOK
    /\ worker.pc = "downloaded" => Head(worker.todo) \in files
    /\ \A a \in Sent : \/ File(a) \in files
                      \/ rows[a].status # "none" \/ SentAgain(a)
    /\ OfferedIsServed

\* Each row is in the orders once; what is cached is among the downloaded, which are all
\* ready, and what is still to be downloaded, received messages all, is not.
OrderInv ==
    /\ arrived \in Seq(Attachments) /\ fetched \in Seq(Attachments)
    /\ IsInjective(arrived) /\ IsInjective(fetched)
    /\ \A a \in ToSet(arrived) : rows[a].status # "none"
    /\ Cached \subseteq ToSet(fetched)
    /\ \A a \in ToSet(fetched) : rows[a].status = "ready"
    /\ worker.todo \in Seq(Attachments)
    /\ worker.pc # "idle" => worker.todo # <<>>
    /\ \A a \in ToSet(worker.todo) : rows[a].status # "none"
    /\ worker.pc \in {"download", "downloaded"} =>
           /\ IsInjective(worker.todo) /\ ToSet(worker.todo) \subseteq Received
           /\ ToSet(worker.todo) \cap ToSet(fetched) = {}

\* What a cleanup has not still to remove is within the limit it was given.
LimitInv ==
    /\ {limit, saved, worker.max} \subseteq Limits
    /\ worker.pc \in {"idle", "download", "downloaded", "evict", "unlinked"}
    /\ worker.pc \in {"evict", "unlinked"} =>
           SizeOf(Cached \ ToSet(worker.todo)) <= worker.max
=============================================================================
