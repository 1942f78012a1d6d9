------------------------------ MODULE RunWrite ------------------------------
(***************************************************************************)
(* _run_write of mcp_server.py: the two-phase (preview, confirm) life of a *)
(* write tool, run by worker threads over one OperationStore while Exchange *)
(* answers, errs or times out, previews age and the process restarts.      *)
(*                                                                         *)
(* A thread is a member of Reqs.  Its steps are cut where another thread   *)
(* can run in between: at every store call and every Exchange call.  The   *)
(* values it read before such a cut (`seen`) are the ones it uses after.   *)
(* A cancelled HTTP request does not stop its thread (to_thread.run_sync   *)
(* is not abandoned), so cancellation needs no action of its own.          *)
(*                                                                         *)
(* `applied` is the ledger of Exchange itself: how often each item of each *)
(* operation took effect.  `interrupted` remembers what a crash found      *)
(* executing.  No thread reads either.                                     *)
(***************************************************************************)
EXTENDS OperationStore

CONSTANTS
    Reqs,         \* worker threads, i.e. concurrent tool calls
    BatchTools,   \* tools that answer with one result row per item
    OneItem,      \* the item of a tool that is not a batch
    StoreFaults,  \* may the SQLite write of mark raise?
    MaxApplied    \* the ledger saturates here

ASSUME RunAssumption ==
    /\ BatchTools \subseteq Tools
    /\ OneItem \in Items
    /\ StoreFaults \in BOOLEAN
    /\ MaxApplied \in Nat \ {0, 1}

VARIABLES
    pc,       \* [Reqs -> where the thread is]
    ask,      \* [Reqs -> the row of a preview being built, and the rows that
              \*          were there when the call began]
    target,   \* [Reqs -> the operation being confirmed]
    seen,     \* [Reqs -> existing["status"] as the thread read it]
    work,     \* [Reqs -> items left to submit, items failed, status to mark]
    reply,    \* the answer given by the last step, NoReply if it gave none
    expired,  \* the previews older than the TTL
    applied,  \* [Ops -> [Items -> times applied by Exchange]]
    interrupted  \* the operations that were executing when a process died

threadVars == <<pc, ask, target, seen, work>>
vars == <<storeVars, threadVars, reply, expired, applied, interrupted>>

PCs == {"idle", "build", "connect", "claim", "reread", "execute", "mark",
        "report"}

ItemsOf(o) == IF info[o].tool \in BatchTools THEN Items ELSE {OneItem}

-----------------------------------------------------------------------------
(* A mistaken verdict, that takes a claimed write for a done one.          *)
VerdictOfExecuting(o) ==
    IF status[o] \in {"completed", "executing"} THEN "ok" ELSE "OPERATION_UNKNOWN"

(* What a caller is told.  A receipt repeats the row's status together     *)
(* with the verdict _receipt derives from status and result.               *)
Verdict(o) ==
    IF status[o] = "completed" THEN "ok"
    ELSE IF result[o].kind \in {"rejected", "ambiguous"}
            /\ status[o] \in {"failed", "unknown"}
         THEN result[o].kind
    ELSE IF result[o].kind = "batch" /\ status[o] \in {"failed", "partial"}
         THEN IF result[o].failed = Items THEN "BATCH_FAILED"
                                          ELSE "BATCH_PARTIAL_FAILURE"
    ELSE "OPERATION_UNKNOWN"

Receipt(o) == [kind |-> "receipt", op |-> o, status |-> status[o],
               verdict |-> Verdict(o)]
PreviewOf(o) == [kind |-> "preview", op |-> o, status |-> "pending",
                 verdict |-> "ok"]
Failure == [kind |-> "failure", op |-> NoOp, status |-> "none",
            verdict |-> "none"]
NoReply == [kind |-> "none", op |-> NoOp, status |-> "none",
            verdict |-> "none"]

NoWork == [left |-> {}, failed |-> {}, status |-> "none", result |-> NoResult]
NoAsk  == [row |-> NoInfo, earlier |-> {}]

Init ==
    /\ StoreInit
    /\ pc = [r \in Reqs |-> "idle"]
    /\ ask = [r \in Reqs |-> NoAsk]
    /\ target = [r \in Reqs |-> NoOp]
    /\ seen = [r \in Reqs |-> "none"]
    /\ work = [r \in Reqs |-> NoWork]
    /\ reply = NoReply
    /\ expired = {}
    /\ applied = [o \in Ops |-> [i \in Items |-> 0]]
    /\ interrupted = {}

(* The thread answers and is free for another call.                        *)
Answer(r, answer) ==
    /\ pc' = [pc EXCEPT ![r] = "idle"]
    /\ ask' = [ask EXCEPT ![r] = NoAsk]
    /\ target' = [target EXCEPT ![r] = NoOp]
    /\ seen' = [seen EXCEPT ![r] = "none"]
    /\ work' = [work EXCEPT ![r] = NoWork]
    /\ reply' = answer

GoTo(r, where) == pc' = [pc EXCEPT ![r] = where] /\ reply' = NoReply

(* _require_record_scope: same tool, same mailbox.                         *)
InScope(o, tool, mailbox) == info[o].tool = tool /\ info[o].mailbox = mailbox

(* _receipt and _preview_replay answer only after scope and, for rows of a *)
(* team directory, the caller's present read permission have been checked. *)
ReplayTo(r, o, tool, mailbox, answer) ==
    \/ InScope(o, tool, mailbox) /\ Answer(r, answer)
    \/ Answer(r, Failure)

-----------------------------------------------------------------------------
(* Calls without a confirm token.                                          *)

(* operation_id alone: read the receipt (an unknown id is a failure).      *)
QueryReceipt(r, o, tool, mailbox) ==
    /\ pc[r] = "idle"
    /\ IF o \in Rows THEN ReplayTo(r, o, tool, mailbox, Receipt(o))
                     ELSE Answer(r, Failure)
    /\ UNCHANGED <<storeVars, expired, applied, interrupted>>

StartPreview(r, tool, mailbox, key) ==
    /\ GoTo(r, "build")
    /\ ask' = [ask EXCEPT ![r] =
                 [row |-> [tool |-> tool, mailbox |-> mailbox, key |-> key],
                  earlier |-> Rows]]
    /\ UNCHANGED <<target, seen, work>>

(* No idempotency key: nothing to look up.                                 *)
AskPreview(r, tool, mailbox) ==
    /\ pc[r] = "idle"
    /\ StartPreview(r, tool, mailbox, NoKey)
    /\ UNCHANGED <<storeVars, expired, applied, interrupted>>

(* An idempotency key: the latest row of the key answers, unless it is an  *)
(* expired preview, which a new operation supersedes.                      *)
LookupKey(r, tool, mailbox, key) ==
    /\ pc[r] = "idle"
    /\ LET o == Latest(mailbox, key)
       IN  \/ /\ o = NoOp
              /\ StartPreview(r, tool, mailbox, key)
           \/ /\ o # NoOp
              /\ info[o].tool # tool
              /\ Answer(r, Failure)
           \/ /\ o # NoOp
              /\ status[o] # "pending"
              /\ ReplayTo(r, o, tool, mailbox, Receipt(o))
           \/ /\ o # NoOp
              /\ status[o] = "pending"
              /\ o \notin expired
              /\ ReplayTo(r, o, tool, mailbox, PreviewOf(o))
           \/ /\ o # NoOp
              /\ info[o].tool = tool
              /\ status[o] = "pending"
              /\ o \in expired
              /\ StartPreview(r, tool, mailbox, key)
    /\ UNCHANGED <<storeVars, expired, applied, interrupted>>

(* The read-only preview handler succeeded: insert and answer the token.   *)
CreatePreview(r, o) ==
    /\ pc[r] = "build"
    /\ Insert(o, ask[r].row, ask[r].earlier)
    /\ Answer(r, PreviewOf(o))
    /\ UNCHANGED <<expired, applied, interrupted>>

(* Connecting or the preview handler raised, or the INSERT did.            *)
PreviewFails(r) ==
    /\ pc[r] = "build"
    /\ Answer(r, Failure)
    /\ UNCHANGED <<storeVars, expired, applied, interrupted>>

-----------------------------------------------------------------------------
(* Calls with a confirm token.                                             *)

(* A mistaken list of the statuses a confirmation may not execute again.   *)
NotExecutableButExecuting == {"completed", "partial", "unknown"}

(* The statuses whose confirmation is answered by a receipt.               *)
NotExecutable == {"completed", "partial", "unknown", "executing"}

(* store.get and every check made on what it returned.  `matches` says     *)
(* whether token and business parameters are the preview's.                *)
ReadExisting(r, o, tool, mailbox, matches) ==
    /\ pc[r] = "idle"
    /\ o \in Rows
    /\ \/ /\ ~(InScope(o, tool, mailbox) /\ matches)
          /\ Answer(r, Failure)
       \/ /\ InScope(o, tool, mailbox) /\ matches
          /\ status[o] \in NotExecutable \/ result[o].kind = "batch"
          /\ ReplayTo(r, o, tool, mailbox, Receipt(o))
       \/ /\ InScope(o, tool, mailbox) /\ matches
          /\ status[o] \notin NotExecutable
          /\ result[o].kind # "batch"
          /\ \/ Answer(r, Failure)     \* expired, or the directory changed
             \/ /\ ~(status[o] = "pending" /\ o \in expired)
                /\ GoTo(r, "connect")
                /\ target' = [target EXCEPT ![r] = o]
                /\ seen' = [seen EXCEPT ![r] = status[o]]
                /\ UNCHANGED <<ask, work>>
    /\ UNCHANGED <<storeVars, expired, applied, interrupted>>

(* Connect to Exchange, then check the age of the preview once more, with  *)
(* the status that was read before the connection.                         *)
Connect(r) ==
    /\ pc[r] = "connect"
    /\ \/ Answer(r, Failure)
       \/ /\ ~(seen[r] = "pending" /\ target[r] \in expired)
          /\ GoTo(r, "claim")
          /\ UNCHANGED <<ask, target, seen, work>>
    /\ UNCHANGED <<storeVars, expired, applied, interrupted>>

Claim(r) ==
    /\ pc[r] = "claim"
    /\ BeginConfirm(target[r])
    /\ GoTo(r, "execute")
    /\ work' = [work EXCEPT ![r].left = ItemsOf(target[r])]
    /\ UNCHANGED <<ask, target, seen, expired, applied, interrupted>>

(* IDEMPOTENCY_KEY_CONSUMED is answered as such; CONFIRMATION_NOT_         *)
(* EXECUTABLE makes the thread read the row again for its receipt.         *)
ClaimRefused(r) ==
    /\ pc[r] = "claim"
    /\ ~CanClaim(target[r])
    /\ IF KeyConsumed(target[r])
       THEN Answer(r, Failure)
       ELSE GoTo(r, "reread") /\ UNCHANGED <<ask, target, seen, work>>
    /\ UNCHANGED <<storeVars, expired, applied, interrupted>>

(* store.get and _receipt, after a refused claim or after mark.            *)
Report(r) ==
    /\ pc[r] \in {"reread", "report"}
    /\ \/ Answer(r, Receipt(target[r]))
       \/ Answer(r, Failure)
    /\ UNCHANGED <<storeVars, expired, applied, interrupted>>

-----------------------------------------------------------------------------
(* The execution proper, getattr(client, tool_name)(...).                  *)

Times(n) == IF n < MaxApplied THEN n + 1 ELSE n

Apply(o, i) == applied' = [applied EXCEPT ![o][i] = Times(@)]

(* A mistake: an ambiguous error taken for a rejection.                    *)
RaisedStatusAlwaysFailed(kind) == "failed"

(* The status of a write whose handler raised: a definite rejection        *)
(* (is_definite_rejection) may be confirmed again, anything else may not.  *)
RaisedStatus(kind) == IF kind = "rejected" THEN "failed" ELSE "unknown"

(* The handler returned or raised: remember what mark has to write.        *)
Finish(r, newStatus, newResult) ==
    /\ GoTo(r, "mark")
    /\ work' = [work EXCEPT ![r] = [left |-> {}, failed |-> {},
                                    status |-> newStatus, result |-> newResult]]
    /\ UNCHANGED <<ask, target, seen>>

Raise(r, kind) == Finish(r, RaisedStatus(kind), [kind |-> kind, failed |-> {}])

(* An exception before anything was submitted.                             *)
RaiseBeforeSubmit(r) ==
    /\ pc[r] = "execute"
    /\ work[r].left = ItemsOf(target[r])
    /\ \E kind \in {"rejected", "ambiguous"} : Raise(r, kind)
    /\ UNCHANGED <<storeVars, expired, applied, interrupted>>

(* A tool with one effect submits it: it succeeds, or the answer is lost   *)
(* or unreadable and the effect may have happened or not.                  *)
SubmitOne(r) ==
    /\ pc[r] = "execute"
    /\ info[target[r]].tool \notin BatchTools
    /\ \/ /\ Apply(target[r], OneItem)
          /\ \/ Finish(r, "completed", [kind |-> "value", failed |-> {}])
             \/ Raise(r, "ambiguous")
       \/ /\ UNCHANGED applied
          /\ Raise(r, "ambiguous")
    /\ UNCHANGED <<storeVars, expired, interrupted>>

(* A batch tool submits one item.  Every exception becomes that item's     *)
(* success = False row, whether Exchange had applied the item or not.      *)
SubmitItem(r, i) ==
    /\ pc[r] = "execute"
    /\ info[target[r]].tool \in BatchTools
    /\ i \in work[r].left
    /\ \/ /\ Apply(target[r], i)
          /\ work' = [work EXCEPT ![r].left = @ \ {i}]
       \/ /\ Apply(target[r], i) \/ UNCHANGED applied
          /\ work' = [work EXCEPT ![r].left = @ \ {i}, ![r].failed = @ \cup {i}]
    /\ reply' = NoReply
    /\ UNCHANGED <<storeVars, pc, ask, target, seen, expired, interrupted>>

(* A mistake: only a batch that failed altogether is not completed.        *)
BatchStatusIgnoringPartial(failed) ==
    IF failed = Items THEN "failed" ELSE "completed"

(* _classify_write_result of a batch.                                      *)
BatchStatus(failed) ==
    IF failed = {} THEN "completed"
    ELSE IF failed = Items THEN "failed" ELSE "partial"

(* A mistake: the rows of failed items are dropped from the stored result. *)
BatchResultWithoutFailures(failed) == [kind |-> "batch", failed |-> {}]

BatchResult(failed) == [kind |-> "batch", failed |-> failed]

ReturnBatch(r) ==
    /\ pc[r] = "execute"
    /\ info[target[r]].tool \in BatchTools
    /\ work[r].left = {}
    /\ Finish(r, BatchStatus(work[r].failed), BatchResult(work[r].failed))
    /\ UNCHANGED <<storeVars, expired, applied, interrupted>>

(* A mistake: the exception handler answers without marking the row.       *)
MarkReturnedOnly(r) ==
    /\ pc[r] = "mark"
    /\ IF work[r].result.kind \in {"rejected", "ambiguous"}
       THEN Answer(r, Failure) /\ UNCHANGED storeVars
       ELSE /\ Mark(target[r], work[r].status, work[r].result)
            /\ GoTo(r, "report")
            /\ UNCHANGED <<ask, target, seen, work>>
    /\ UNCHANGED <<expired, applied, interrupted>>

(* store.mark; an exception was raised by the handler if the result is a   *)
(* failure record, and then the answer is that failure, not a receipt.     *)
MarkOutcome(r) ==
    /\ pc[r] = "mark"
    /\ Mark(target[r], work[r].status, work[r].result)
    /\ IF work[r].result.kind \in {"rejected", "ambiguous"}
       THEN Answer(r, Failure)
       ELSE GoTo(r, "report") /\ UNCHANGED <<ask, target, seen, work>>
    /\ UNCHANGED <<expired, applied, interrupted>>

(* The UPDATE of mark raises (disk full, database locked): _dispatch turns *)
(* it into a failure and the row stays executing.                          *)
MarkFails(r) ==
    /\ StoreFaults
    /\ pc[r] = "mark"
    /\ Answer(r, Failure)
    /\ UNCHANGED <<storeVars, expired, applied, interrupted>>

-----------------------------------------------------------------------------
(* The clock: previews outlive the TTL in the order they were created.     *)
Expire(o) ==
    /\ o \in Rows \ expired
    /\ \A m, n \in DOMAIN created :
          created[n] = o /\ m < n => created[m] \in expired
    /\ expired' = expired \cup {o}
    /\ reply' = NoReply
    /\ UNCHANGED <<storeVars, threadVars, applied, interrupted>>

(* The process dies with its threads and a new one opens the database.     *)
Restart ==
    /\ MigrateActiveToUnknown
    /\ pc' = [r \in Reqs |-> "idle"]
    /\ ask' = [r \in Reqs |-> NoAsk]
    /\ target' = [r \in Reqs |-> NoOp]
    /\ seen' = [r \in Reqs |-> "none"]
    /\ work' = [r \in Reqs |-> NoWork]
    /\ reply' = NoReply
    /\ interrupted' = interrupted \cup {o \in Ops : status[o] = "executing"}
    /\ UNCHANGED <<expired, applied>>

Call(r) ==
    \E tool \in Tools, mailbox \in Mailboxes :
        \/ AskPreview(r, tool, mailbox)
        \/ \E key \in Keys : LookupKey(r, tool, mailbox, key)
        \/ \E o \in Ops : QueryReceipt(r, o, tool, mailbox)
        \/ \E o \in Ops, matches \in BOOLEAN :
              ReadExisting(r, o, tool, mailbox, matches)

(* What a thread does once it has started a call.                          *)
Step(r) ==
    \/ \E o \in Ops : CreatePreview(r, o)
    \/ PreviewFails(r)
    \/ Connect(r)
    \/ Claim(r)
    \/ ClaimRefused(r)
    \/ Report(r)
    \/ RaiseBeforeSubmit(r)
    \/ SubmitOne(r)
    \/ \E i \in Items : SubmitItem(r, i)
    \/ ReturnBatch(r)
    \/ MarkOutcome(r)
    \/ MarkFails(r)

Next ==
    \/ \E r \in Reqs : Call(r) \/ Step(r)
    \/ \E o \in Ops : Expire(o)
    \/ Restart

Spec == Init /\ [][Next]_vars

(* Worker threads are scheduled and every OA, Exchange and SQLite call has *)
(* a timeout, so a started call goes on.  Nobody has to call or restart.   *)
FairSpec == Spec /\ \A r \in Reqs : WF_vars(Step(r))

-----------------------------------------------------------------------------
(* PROPERTIES                                                              *)

Works == [left : SUBSET Items, failed : SUBSET Items,
          status : Statuses \cup {"none"}, result : Results]

Asks == [row : Infos, earlier : SUBSET Ops] \cup {NoAsk}

Replies == [kind : {"none", "failure", "receipt", "preview"},
            op : Ops \cup {NoOp}, status : Statuses \cup {"none"},
            verdict : {"none", "ok", "rejected", "ambiguous", "BATCH_FAILED",
                       "BATCH_PARTIAL_FAILURE", "OPERATION_UNKNOWN"}]

ThreadTypeOK ==
    /\ pc \in [Reqs -> PCs]
    /\ ask \in [Reqs -> Asks]
    /\ target \in [Reqs -> Ops \cup {NoOp}]
    /\ seen \in [Reqs -> {"pending", "failed", "none"}]
    /\ work \in [Reqs -> Works]

(* Every column and every local variable of a thread holds a value of its  *)
(* type; among others a thread that goes on to execute has read a pending  *)
(* or failed row, and an answer about a row carries a status of the table. *)
TypeOK ==
    /\ StoreTypeOK
    /\ ThreadTypeOK
    /\ reply \in Replies
    /\ expired \subseteq Ops
    /\ applied \in [Ops -> [Items -> 0..MaxApplied]]
    /\ interrupted \subseteq Ops

Running(r) == pc[r] \in {"execute", "mark"}
IsSingle(o) == info[o].tool \notin BatchTools
Touched(o) == \E i \in Items : applied[o][i] > 0

(* One execution at a time: two threads never run the same operation, nor  *)
(* two operations of one key and mailbox, however their reads of the row   *)
(* and the claims interleave (begin_confirm's conditional UPDATE).         *)
ExclusiveExecution ==
    \A r, s \in Reqs :
        r # s /\ Running(r) /\ Running(s) =>
            /\ target[r] # target[s]
            /\ target[s] \notin Siblings(target[r])

(* A tool with one effect takes effect at most once per operation, and at  *)
(* most once per idempotency key and mailbox, across timeouts, definite    *)
(* rejections that are retried, superseded previews and restarts.          *)
AtMostOnce ==
    \A o \in Ops : IsSingle(o) =>
        /\ \A i \in Items : applied[o][i] <= 1
        /\ Touched(o) =>
             \A s \in Siblings(o) : IsSingle(s) => ~Touched(s)

(* What the row says of a single-effect write agrees with Exchange: a      *)
(* completed row was applied, a pending or failed one (the two statuses    *)
(* that may still be claimed) was not.                                     *)
SingleRowsTruthful ==
    \A o \in Rows : IsSingle(o) =>
        /\ status[o] = "completed" => applied[o][OneItem] = 1
        /\ status[o] \in {"pending", "failed"} => ~Touched(o)

(* A batch receipt never claims an item that Exchange did not apply: the   *)
(* items outside its failed rows took effect, also when an earlier attempt *)
(* left its result in the row and a later one was interrupted.             *)
BatchRowsTruthful ==
    \A o \in Rows : result[o].kind = "batch" =>
        \A i \in Items \ result[o].failed : applied[o][i] > 0

(* Final rows stay final: mark is an unconditional UPDATE, yet no late     *)
(* thread, claim or restart ever changes a completed, partial or unknown   *)
(* row again.                                                              *)
FinalIsFinal ==
    [][\A o \in Ops : status[o] \in {"completed", "partial", "unknown"} =>
          status'[o] = status[o] /\ result'[o] = result[o]]_vars

(* A receipt tells the truth when it is given: "ok" only for a write whose *)
(* every item was applied, and a failed single-effect write was not        *)
(* applied.                                                                *)
ReceiptsTruthful ==
    reply.kind = "receipt" =>
        /\ reply.verdict = "ok" =>
              \A i \in ItemsOf(reply.op) : applied[reply.op][i] > 0
        /\ IsSingle(reply.op) /\ reply.status = "failed" => ~Touched(reply.op)

(* What a crash interrupted stays interrupted: once an operation was       *)
(* executing when the process died, neither it nor another operation of    *)
(* its key and mailbox takes effect any more, although its client may      *)
(* confirm again, preview again under the key or hold older previews of it *)
(* (migrate_active_to_unknown and the NOT EXISTS of begin_confirm).        *)
InterruptedNeverResumes ==
    [][\A o \in interrupted : \A s \in {o} \cup Siblings(o) :
          applied'[s] = applied[s]]_vars

(* A claim is settled: while the store accepts writes, an executing        *)
(* operation leaves that status, by its thread or by a restart.            *)
ClaimsSettle ==
    \A o \in Ops : status[o] = "executing" ~> status[o] # "executing"

-----------------------------------------------------------------------------
(* Statements of the repository that the code does not keep.               *)

(* confirmation.py, begin_confirm: "claim pending or pre-submit failed     *)
(* operations"; mcp_server.py: "Replaying an executed batch could          *)
(* duplicate successful items."  So no item of a batch is submitted with   *)
(* effect by two executions of its operation.                              *)
BatchNotReplayed ==
    \A o \in Ops, i \in Items : applied[o][i] <= 1

(* tool_specs.py, idempotency_key: "a completed key returns its receipt".  *)
CompletedKeyAnswers ==
    reply.kind = "preview" =>
        \A s \in Siblings(reply.op) : status[s] # "completed"

(* mcp_server.py, _failure_record: "Persist root-cause details for later   *)
(* receipt replay."  So a receipt of an unknown outcome does not give the  *)
(* definite rejection of another attempt as its cause.                     *)
ReplayedCauseIsCurrent ==
    ~(reply.status = "unknown" /\ reply.verdict = "rejected")
=============================================================================
