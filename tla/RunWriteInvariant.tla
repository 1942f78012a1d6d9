-------------------------- MODULE RunWriteInvariant --------------------------
(***************************************************************************)
(* The inductive invariant of RunWrite.  It adds to the properties what    *)
(* the code relies on without saying so: a running thread owns its         *)
(* executing row, of the rows of one key at most one is in execution and   *)
(* then no other is consumed, and what a thread is about to mark agrees    *)
(* with the ledger of Exchange.                                            *)
(***************************************************************************)
EXTENDS RunWriteImplements

Outcomes == {"completed", "partial", "failed", "unknown"}

(* Only inserted rows are in the insertion order; nothing writes the       *)
(* status confirmed; a thread past its checks has the id of an inserted    *)
(* row, and what it is about to mark is an outcome.                        *)
Bound ==
    /\ \A o \in Ops : status[o] # "confirmed"
    /\ \A n \in DOMAIN created : created[n] \in Rows
    /\ \A r \in Reqs :
           /\ pc[r] \notin {"idle", "build"} => target[r] \in Rows
           /\ pc[r] = "mark" => work[r].status \in Outcomes

TypeInv == TypeOK /\ Bound

(* A running thread's row is executing, and it is the only one to run it.  *)
Ownership ==
    \A r \in Reqs : Running(r) =>
        /\ status[target[r]] = "executing"
        /\ \A s \in Reqs \ {r} : Running(s) => target[s] # target[r]

(* While a row is executing no row of its key is consumed otherwise.       *)
KeyExclusion ==
    \A o \in Rows : status[o] = "executing" => ~KeyConsumed(o)

(* The ledger against the rows: an id that was not handed out has no       *)
(* effects and no result; a completed row has all of them; and a single-effect operation *)
(* that took effect did so once and cannot be claimed again.               *)
Ledger ==
    \A o \in Ops :
        /\ status[o] = "absent" => ~Touched(o) /\ result[o] = NoResult
        /\ status[o] = "completed" => \A i \in ItemsOf(o) : applied[o][i] > 0
        /\ IsSingle(o) =>
              /\ \A i \in Items : applied[o][i] <= 1
              /\ Touched(o) => status[o] \in {"executing", "completed", "unknown"}

(* The ledger against a running thread of a single-effect tool: before it  *)
(* submits there is no effect, and it marks failed only if there is none,  *)
(* completed only if there is one.                                         *)
SingleRunOf(r) ==
    Running(r) /\ IsSingle(target[r]) =>
        /\ pc[r] = "execute" => ~Touched(target[r])
        /\ pc[r] = "mark" =>
              /\ work[r].status # "partial"
              /\ work[r].result.kind # "batch"
              /\ work[r].status = "failed" => ~Touched(target[r])
              /\ work[r].status = "completed" => applied[target[r]][OneItem] > 0

(* The ledger against a running batch: every item it has submitted is in   *)
(* its failed set or took effect, and so is every item of what it marks.   *)
BatchRunOf(r) ==
    Running(r) /\ ~IsSingle(target[r]) =>
        /\ pc[r] = "execute" =>
              \A i \in Items \ (work[r].left \cup work[r].failed) :
                  applied[target[r]][i] > 0
        /\ pc[r] = "mark" /\ work[r].result.kind = "batch" =>
              \A i \in Items \ work[r].result.failed : applied[target[r]][i] > 0
        /\ pc[r] = "mark" /\ work[r].status = "completed" =>
              \A i \in Items : applied[target[r]][i] > 0

SingleRun == \A r \in Reqs : SingleRunOf(r)
BatchRun  == \A r \in Reqs : BatchRunOf(r)

(* Of two single-effect rows of one key at most one took effect.           *)
OneRowOfKey ==
    \A o \in Rows : IsSingle(o) /\ Touched(o) =>
        \A s \in Siblings(o) : IsSingle(s) => ~Touched(s)

(* The receipt just given repeats the row as it is now.                    *)
ReplyCurrent ==
    reply.kind = "receipt" =>
        /\ reply.op \in Rows
        /\ reply.status = status[reply.op]
        /\ reply.verdict = "ok" => status[reply.op] = "completed"

(* Together inductive: what makes at-most-once execution hold step by step *)
(* in _run_write and begin_confirm, including their uncertain outcomes.    *)
IInv ==
    /\ TypeInv
    /\ Ownership
    /\ KeyExclusion
    /\ Ledger
    /\ SingleRun
    /\ BatchRun
    /\ OneRowOfKey
    /\ BatchRowsTruthful
    /\ ReplyCurrent
=============================================================================
