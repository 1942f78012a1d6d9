---------------------------- MODULE ToolRequests ----------------------------
(* Tool calls from their request to the audit record and the answer: each  *)
(* is a task of the event loop that passes the audit fallback and the      *)
(* audit and validation middlewares, and runs the tool in a worker thread  *)
(* (anyio.to_thread), while clients cancel calls.  What the thread does at *)
(* Exchange is in RunWrite, ItemWrites and the other modules.              *)
EXTENDS Naturals, FiniteSets, Sequences

CONSTANTS
    Calls,
    Tokens,       \* worker threads anyio lends at a time
    OAAnswers     \* what the OA service may answer to a lookup

(* An element of CtcInfArry: a JSON object or not, with its name (none:    *)
(* blank or no text) and mail address.                                     *)
Contact == [isDict : BOOLEAN, name : {"requester", "other", "none"},
            mail : {"valid", "invalid"}]
RequesterContact == [isDict |-> TRUE, name |-> "requester", mail |-> "valid"]

ASSUME TokensAssumption == Tokens \in Nat \ {0}
ASSUME OAAnswersAssumption ==
    \A a \in OAAnswers : a \in [usable : BOOLEAN, contacts : Seq(Contact)]

VARIABLES
    stage,        \* where the task of a call is
    thread,       \* where the worker thread of a call is
    cancelled,    \* the client has cancelled the call
    emitted,      \* _AUDIT_EMITTED, a ContextVar: one value per task
    assurance,    \* AUDIT_IDENTITY_STATE_KEY in the call's context
    answer,       \* what OA answered: a set of at most one (history)
    touched,      \* the thread has worked in a mailbox (history)
    outcome,      \* result or exception on its way out
    records,      \* the audit records of the call
    reply         \* what the client was told

reqVars == <<stage, thread, cancelled, emitted, assurance, answer, touched,
             outcome, records, reply>>

Assurances == {"not_verified", "oa_lookup_failed", "oa_name_mismatch", "oa_name_match"}

AuditStatuses == {"success", "failure", "rejected", "error"}
AuditRecord == [status : AuditStatuses, assurance : Assurances]

(* Results of a tool: ok; ok = False with a status that is no failure, one *)
(* of _tool_failure, one of an IDENTITY_ error; and what the framework     *)
(* makes of a call: an error result without structured content, an         *)
(* exception, a cancellation.                                              *)
ToolResults == {"ok", "executing", "failed", "identity"}
Outcomes == ToolResults \cup {"none", "toolError", "raised", "cancelled"}

FlagOfServer(c) == CHOOSE d \in Calls : TRUE
FlagOf(c) == c

_classify_result(o) ==
    IF o = "identity" THEN "rejected"
    ELSE IF o \in {"failed", "executing", "toolError"} THEN "failure" ELSE "success"

(* Status of the middleware's finally, and of the fallback's; there a      *)
(* cancelled call has neither a result nor raised = True.                  *)
MiddlewareStatus(o) ==
    IF o \in {"raised", "cancelled", "none"} THEN "error" ELSE _classify_result(o)
FallbackStatus(o) == IF o = "raised" THEN "error" ELSE _classify_result(o)

EnvelopeOfFailures(o) == IF o \in {"failed", "raised"} THEN "error" ELSE "result"
(* isError, set for ok = False unless the status is no failure.            *)
Envelope(o) ==
    IF o \in {"failed", "identity", "toolError", "raised"} THEN "error" ELSE "result"

IdentityOfFirst(a) ==
    IF ~a.usable THEN "not_verified"
    ELSE IF a.contacts = <<>> \/ ~a.contacts[1].isDict THEN "oa_lookup_failed"
    ELSE IF a.contacts[1].name # "requester" THEN "oa_name_mismatch"
    ELSE IF a.contacts[1].mail # "valid" THEN "oa_lookup_failed"
    ELSE "oa_name_match"
(* resolve_identity_by_lanid on OA's answer and what _resolve_mailbox      *)
(* notes of it; a timeout or an unusable response leave not_verified.      *)
Identity(a) ==
    IF ~a.usable THEN "not_verified"
    ELSE IF Len(a.contacts) # 1 \/ ~a.contacts[1].isDict THEN "oa_lookup_failed"
    ELSE IF a.contacts[1].name # "requester" THEN "oa_name_mismatch"
    ELSE IF a.contacts[1].mail # "valid" THEN "oa_lookup_failed"
    ELSE "oa_name_match"

(* What it raises before OA is asked, as noted: a blank LANID, a blank     *)
(* name, missing settings.                                                 *)
RefusedUnasked == {"oa_lookup_failed", "oa_name_mismatch", "not_verified"}

RequestInit ==
    /\ stage = [c \in Calls |-> "new"]
    /\ thread = [c \in Calls |-> "none"]
    /\ cancelled = [c \in Calls |-> FALSE]
    /\ emitted = [c \in Calls |-> FALSE]
    /\ assurance = [c \in Calls |-> "not_verified"]
    /\ answer = [c \in Calls |-> {}]
    /\ touched = [c \in Calls |-> FALSE]
    /\ outcome = [c \in Calls |-> "none"]
    /\ records = [c \in Calls |-> <<>>]
    /\ reply = [c \in Calls |-> "none"]

Emit(c, status, level) ==
    records' = [records EXCEPT ![c] = Append(@, [status |-> status, assurance |-> level])]

(* The middleware's finally, on whatever ends call_next.                   *)
LeaveMiddleware(c, o) ==
    /\ Emit(c, MiddlewareStatus(o), assurance[c])
    /\ emitted' = [emitted EXCEPT ![FlagOf(c)] = TRUE]
    /\ outcome' = [outcome EXCEPT ![c] = o]
    /\ stage' = [stage EXCEPT ![c] = "audited"]

(* audited_handler's finally, the envelope, and the client's answer.       *)
LeaveHandler(c, o) ==
    /\ IF emitted[FlagOf(c)] THEN UNCHANGED records
                             ELSE Emit(c, FallbackStatus(o), "not_verified")
    /\ emitted' = [emitted EXCEPT ![FlagOf(c)] = FALSE]
    /\ outcome' = [outcome EXCEPT ![c] = o]
    /\ reply' = [reply EXCEPT ![c] = IF cancelled[c] THEN "cancelled" ELSE Envelope(o)]
    /\ stage' = [stage EXCEPT ![c] = "ended"]

Begin(c) ==
    /\ stage[c] = "new"
    /\ emitted' = [emitted EXCEPT ![FlagOf(c)] = FALSE]
    /\ stage' = [stage EXCEPT ![c] = "handler"]
    /\ UNCHANGED <<thread, cancelled, assurance, answer, touched, outcome, records, reply>>

CancelledOr(c, others) == others \cup (IF cancelled[c] THEN {"cancelled"} ELSE {})

(* The framework ends the call before its middlewares.                     *)
EndEarly(c) ==
    /\ stage[c] = "handler"
    /\ \E o \in CancelledOr(c, {"toolError", "raised"}) : LeaveHandler(c, o)
    /\ UNCHANGED <<thread, cancelled, assurance, answer, touched>>

(* The audit middleware, then the validation: the tool is unknown or       *)
(* disabled or the arguments are no instance of its schema.                *)
Refuse(c) ==
    /\ stage[c] = "handler"
    /\ LeaveMiddleware(c, "failed")
    /\ UNCHANGED <<thread, cancelled, assurance, answer, touched, reply>>

Admit(c) ==
    /\ stage[c] = "handler"
    /\ stage' = [stage EXCEPT ![c] = "queued"]
    /\ UNCHANGED <<thread, cancelled, emitted, assurance, answer, touched, outcome,
                   records, reply>>

(* The client cancels: mcp answers at once and cancels the task's scope,   *)
(* which the task notices when it next waits.                              *)
Cancel(c) ==
    /\ stage[c] \in {"handler", "queued", "waiting", "audited"} /\ ~cancelled[c]
    /\ cancelled' = [cancelled EXCEPT ![c] = TRUE]
    /\ UNCHANGED <<stage, thread, emitted, assurance, answer, touched, outcome,
                   records, reply>>

HoldsTokenForever(c) == thread[c] # "none" /\ (stage[c] = "waiting" \/ cancelled[c])
(* The task gives its token back when its wait for the thread is over.     *)
HoldsToken(c) == stage[c] = "waiting"

StartThread(c) ==
    /\ stage[c] = "queued"
    /\ Cardinality({d \in Calls : HoldsToken(d)}) < Tokens
    /\ stage' = [stage EXCEPT ![c] = "waiting"]
    /\ thread' = [thread EXCEPT ![c] = "identity"]
    /\ UNCHANGED <<cancelled, emitted, assurance, answer, touched, outcome, records,
                   reply>>

LeaveQueue(c) ==
    /\ stage[c] = "queued" /\ cancelled[c]
    /\ LeaveMiddleware(c, "cancelled")
    /\ UNCHANGED <<thread, cancelled, assurance, answer, touched, reply>>

(* In the thread: every tool begins with _resolve_mailbox.                 *)
Resolve(c) ==
    /\ thread[c] = "identity"
    /\ \E level \in Assurances :
          /\ \/ level \in RefusedUnasked /\ UNCHANGED answer
             \/ \E a \in OAAnswers : /\ level = Identity(a)
                                     /\ answer' = [answer EXCEPT ![c] = {a}]
          /\ assurance' = [assurance EXCEPT ![c] = level]
          /\ IF level = "oa_name_match"
             THEN thread' = [thread EXCEPT ![c] = "tool"] /\ UNCHANGED outcome
             ELSE /\ thread' = [thread EXCEPT ![c] = "done"]
                  /\ outcome' = [outcome EXCEPT ![c] =
                        IF level = "not_verified" THEN "failed" ELSE "identity"]
    /\ UNCHANGED <<stage, cancelled, emitted, touched, records, reply>>

WorkInMailbox(c) ==
    /\ thread[c] = "tool" /\ ~touched[c]
    /\ touched' = [touched EXCEPT ![c] = TRUE]
    /\ UNCHANGED <<stage, thread, cancelled, emitted, assurance, answer, outcome,
                   records, reply>>

(* _dispatch turns every exception into a failure result.                  *)
FinishTool(c) ==
    /\ thread[c] = "tool"
    /\ \E o \in ToolResults \ {"identity"} : outcome' = [outcome EXCEPT ![c] = o]
    /\ thread' = [thread EXCEPT ![c] = "done"]
    /\ UNCHANGED <<stage, cancelled, emitted, assurance, answer, touched, records, reply>>

WaitOverOnCancel(c) == thread[c] = "done" \/ cancelled[c]
(* to_thread.run_sync waits shielded: abandon_on_cancel is not set.        *)
WaitOver(c) == thread[c] = "done"

(* The result passes the middleware, unless the framework raises or the    *)
(* cancellation is noticed first.                                          *)
Resume(c) ==
    /\ stage[c] = "waiting" /\ WaitOver(c)
    /\ \E o \in CancelledOr(c, {outcome[c], "raised"}) : LeaveMiddleware(c, o)
    /\ UNCHANGED <<thread, cancelled, assurance, answer, touched, reply>>

Return(c) ==
    /\ stage[c] = "audited"
    /\ \E o \in CancelledOr(c, {outcome[c]}) : LeaveHandler(c, o)
    /\ UNCHANGED <<thread, cancelled, assurance, answer, touched>>

(* What happens to a call once it has begun, whatever its client does.     *)
Proceed(c) ==
    \/ EndEarly(c) \/ Refuse(c) \/ Admit(c) \/ LeaveQueue(c) \/ StartThread(c)
    \/ Resolve(c) \/ WorkInMailbox(c) \/ FinishTool(c) \/ Resume(c) \/ Return(c)

RequestNext == \E c \in Calls : Begin(c) \/ Cancel(c) \/ Proceed(c)

RequestSpec == RequestInit /\ [][RequestNext]_reqVars

-----------------------------------------------------------------------------
RequestTypeOK ==
    /\ stage \in [Calls -> {"new", "handler", "queued", "waiting", "audited", "ended"}]
    /\ thread \in [Calls -> {"none", "identity", "tool", "done"}]
    /\ cancelled \in [Calls -> BOOLEAN]
    /\ emitted \in [Calls -> BOOLEAN]
    /\ assurance \in [Calls -> Assurances]
    /\ answer \in [Calls -> SUBSET OAAnswers]
    /\ touched \in [Calls -> BOOLEAN]
    /\ outcome \in [Calls -> Outcomes]
    /\ records \in [Calls -> Seq(AuditRecord)]
    /\ reply \in [Calls -> {"none", "result", "error", "cancelled"}]

(* Every call has exactly one audit record from its middleware on, and so  *)
(* when it has ended: refused, failed, cancelled in the queue or at work,  *)
(* or ended by the framework before the middleware, and whatever calls run *)
(* beside it.                                                              *)
AuditedOnce ==
    \A c \in Calls : Len(records[c]) = IF stage[c] \in {"audited", "ended"} THEN 1 ELSE 0

(* The record is the last word on a call: its thread does nothing after    *)
(* it, although the client may have gone long before.                      *)
NothingAfterRecord ==
    [][\A c \in Calls : records[c] # <<>> =>
          UNCHANGED <<thread[c], touched[c], assurance[c]>>]_reqVars

(* Work in a mailbox is attributed: its call is recorded as a matched      *)
(* identity and not as rejected, and OA did know exactly one contact, with *)
(* the requester's name and a valid address.                               *)
WorkIsAttributed ==
    \A c \in Calls : touched[c] =>
        /\ \E a \in answer[c] : a.usable /\ a.contacts = <<RequesterContact>>
        /\ \A i \in DOMAIN records[c] :
              /\ records[c][i].assurance = "oa_name_match"
              /\ records[c][i].status # "rejected"

(* The record, made inside, and isError, set outside, agree on what became *)
(* of the call.  They differ on ok = False with a status that is no failure *)
(* (the receipt of an executing or a pending row) alone: a failure for the *)
(* record and no error for the client.                                     *)
RecordMatchesReply ==
    \A c \in Calls : reply[c] \in {"result", "error"} =>
        (records[c][1].status = "success") =
            (reply[c] = "result" /\ outcome[c] # "executing")

(* Every call that has begun is answered, and recorded, although calls     *)
(* queue for threads and are cancelled.                                    *)
EveryCallEnds == \A c \in Calls : (stage[c] = "handler") ~> (stage[c] = "ended")
=============================================================================
