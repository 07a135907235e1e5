---------------------------- MODULE ChatbotAudit ----------------------------
(***************************************************************************)
(* The durable audit queue of the local bot: recordAudit of                *)
(* chatbot-dispatcher.ts posts each audit as it is recorded, and           *)
(* flushPendingAudits (chatbot/index.ts) posts again what is still queued, *)
(* at every start of the runtime and every minute.  Live posts and passes  *)
(* overlap, and neither waits for the other.  The names leave those of     *)
(* ChatbotReply, which runs in the same process, to that module.           *)
(***************************************************************************)
EXTENDS Naturals, Sequences, SequencesExt

CONSTANTS
    Audits,    \* audits, each with its idempotency key
    Refused,   \* those the cloud refuses whenever they are posted
    Limit,     \* rows a pass lists
    Passes     \* bound: passes in flight at a time

ASSUME AuditAssumption ==
    /\ Refused \subseteq Audits
    /\ Limit \in Nat \ {0}

VARIABLES
    running, \* the runtime is started: chatbotStore is set, the timer runs
    queue,   \* chatbot_audit_queue, by created_at
    live,    \* the audit's own post
    rows,    \* the rows a pass has left, the first of them being posted
    cloud    \* audits the cloud received

auditVars == <<running, queue, live, rows, cloud>>

Recorded  == {a \in Audits : live[a] # "none"}
Queued    == ToSet(queue)

Delete(a) == RemoveFirst(queue, a)    \* the key is unique

-----------------------------------------------------------------------------
\* recordAudit: the row is inserted, then the post is awaited.
Record(a) ==
    /\ running /\ live[a] = "none"
    /\ live' = [live EXCEPT ![a] = "posting"]
    /\ queue' = Append(queue, a)
    /\ UNCHANGED <<running, rows, cloud>>

\* A post ends: the audit may have reached the cloud without an answer.
Post(a, reached, ok) ==
    /\ (ok => reached) /\ (reached => a \notin Refused)
    /\ cloud' = IF reached THEN cloud \cup {a} ELSE cloud

\* Mutant: the row goes whatever became of the post.
LiveReturnsForgetting(a, reached, ok) ==
    /\ live[a] = "posting"
    /\ Post(a, reached, ok)
    /\ live' = [live EXCEPT ![a] = "done"]
    /\ queue' = Delete(a)
    /\ UNCHANGED <<running, rows>>

\* deleteAudit after an answer; chatbotStore is null while the runtime is
\* stopped: the row stays.
LiveReturns(a, reached, ok) ==
    /\ live[a] = "posting"
    /\ Post(a, reached, ok)
    /\ live' = [live EXCEPT ![a] = "done"]
    /\ queue' = IF ok /\ running THEN Delete(a) ELSE queue
    /\ UNCHANGED <<running, rows>>

-----------------------------------------------------------------------------
\* listPendingAudits: the oldest rows.
Listed == SubSeq(queue, 1, IF Len(queue) < Limit THEN Len(queue) ELSE Limit)

\* The audit timer fires.
PassBegins(p) ==
    /\ running /\ rows[p] = <<>> /\ queue # <<>>
    /\ rows' = [rows EXCEPT ![p] = Listed]
    /\ UNCHANGED <<running, queue, live, cloud>>

\* Mutant: a row that cannot be posted ends the pass.
PassReturnsStopping(p, reached, ok) ==
    /\ rows[p] # <<>>
    /\ Post(Head(rows[p]), reached, ok)
    /\ queue' = IF ok THEN Delete(Head(rows[p])) ELSE queue
    /\ rows' = [rows EXCEPT ![p] = IF ok THEN Tail(rows[p]) ELSE <<>>]
    /\ UNCHANGED <<running, live>>

\* A pass holds its store and its list: it goes on when the runtime stops, and
\* posts rows that another post has deleted by now.
PassReturns(p, reached, ok) ==
    /\ rows[p] # <<>>
    /\ Post(Head(rows[p]), reached, ok)
    /\ queue' = IF ok THEN Delete(Head(rows[p])) ELSE queue
    /\ rows' = [rows EXCEPT ![p] = Tail(rows[p])]
    /\ UNCHANGED <<running, live>>

-----------------------------------------------------------------------------
RuntimeStops ==
    /\ running /\ running' = FALSE
    /\ UNCHANGED <<queue, live, rows, cloud>>

\* startLocalChatbotRuntime begins a pass.
RuntimeStarts(p) ==
    /\ rows[p] = <<>>
    /\ running' = TRUE
    /\ rows' = [rows EXCEPT ![p] = Listed]
    /\ UNCHANGED <<queue, live, cloud>>

ProcessDies ==
    /\ running' = FALSE
    /\ live' = [a \in Audits |-> IF live[a] = "posting" THEN "done" ELSE live[a]]
    /\ rows' = [p \in Passes |-> <<>>]
    /\ UNCHANGED <<queue, cloud>>

AuditInit ==
    /\ running = FALSE /\ queue = <<>>
    /\ live = [a \in Audits |-> "none"]
    /\ rows = [p \in Passes |-> <<>>]
    /\ cloud = {}

LiveStep(a) ==
    \/ Record(a)
    \/ \E reached, ok \in BOOLEAN : LiveReturns(a, reached, ok)

PassStep(p) ==
    \/ PassBegins(p) \/ RuntimeStarts(p)
    \/ \E reached, ok \in BOOLEAN : PassReturns(p, reached, ok)

AuditNext ==
    \/ \E a \in Audits : LiveStep(a)
    \/ \E p \in Passes : PassStep(p)
    \/ RuntimeStops \/ ProcessDies

AuditSpec == AuditInit /\ [][AuditNext]_auditVars

\* A stopped runtime is started again, the timer fires, a post ends, an
\* acceptable row that is posted again and again is answered, and the process
\* does not die again and again in the middle of a pass.
Restart(p)    == ~ running /\ RuntimeStarts(p)
PostEnds(p)   == \E reached, ok \in BOOLEAN : PassReturns(p, reached, ok)
Answered(a)   == \E p \in Passes :
    rows[p] # <<>> /\ Head(rows[p]) = a /\ PassReturns(p, TRUE, TRUE)
AuditFairSpec ==
    /\ AuditSpec
    /\ \A p \in Passes :
          /\ WF_auditVars(Restart(p)) /\ WF_auditVars(PostEnds(p))
          /\ SF_auditVars(PassBegins(p))
    /\ \A a \in Audits \ Refused : SF_auditVars(Answered(a))
    /\ <>[][~ ProcessDies]_auditVars

-----------------------------------------------------------------------------
AuditTypeOK ==
    /\ running \in BOOLEAN
    /\ queue \in Seq(Audits)
    /\ live \in [Audits -> {"none", "posting", "done"}]
    /\ rows \in [Passes -> Seq(Audits)]
    /\ cloud \subseteq Audits

\* A recorded audit stays queued until the cloud has it, whichever of live
\* post, passes, stop and crash come first; none is queued twice.
AuditKept ==
    /\ Recorded \subseteq Queued \cup cloud
    /\ IsInjective(queue)

\* Every audit the cloud does not refuse reaches it, past rows that it refuses
\* for ever and that no pass gives up (fewer than a pass lists).
AuditPosted == \A a \in Audits \ Refused : a \in Recorded ~> a \in cloud
=============================================================================
