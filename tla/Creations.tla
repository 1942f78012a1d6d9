----------------------------- MODULE Creations -----------------------------
(* The tools that create an item: create_draft, create_event, create_task  *)
(* and create_contact in the employee's own folders.  RunWrite has the     *)
(* engine; here is what each tool does between claim and outcome, while    *)
(* Exchange refuses or does not answer, the message a draft answers is     *)
(* moved away, and an administrator turns sending off and on.              *)
EXTENDS Naturals

CONSTANTS Creates   \* operations

VARIABLES
    what,         \* per operation: what it creates
    state,        \*   status of its row
    place,        \*   where its call is
    made,         \*   how often Exchange has created the item (history)
    sendOn,       \* EWS_MCP_SEND_ENABLED
    allowed,      \* per operation: sending was on at a moment of its
                  \*   confirming call (history)
    original      \* the message to be answered can be read

createVars == <<what, state, place, made, sendOn, allowed, original>>

Kinds == {"draft", "answer", "event", "invitation", "task", "contact"}

CreateInit ==
    /\ what \in [Creates -> Kinds]
    /\ state = [k \in Creates |-> "none"]
    /\ place = [k \in Creates |-> "idle"]
    /\ made = [k \in Creates |-> 0]
    /\ sendOn \in BOOLEAN
    /\ allowed = [k \in Creates |-> FALSE]
    /\ original \in BOOLEAN

(* Exceptions: code of a ToolOperationError, whether Exchange's error is   *)
(* its cause, and whether that one is a definite rejection; errors of any  *)
(* other class have no code.                                               *)
Unknowable == {"CONTACT_RECEIPT_INCOMPLETE", "TASK_RECEIPT_INCOMPLETE"}
is_definite_rejectionOfCode(e) == e.code \notin Unknowable
is_definite_rejection(e) ==
    IF e.code = "" THEN e.definite
    ELSE e.code \notin Unknowable /\ (e.caused => e.definite)

(* A refusal of the tool itself; an error of Exchange, bare or as a cause. *)
Own(code) == [code |-> code, caused |-> FALSE, definite |-> FALSE]
Bare(definite) == [code |-> "", caused |-> FALSE, definite |-> definite]
Wrapped(definite) == [code |-> "CREATE_FAILED", caused |-> TRUE, definite |-> definite]

Ends(k, outcome) ==
    /\ state' = [state EXCEPT ![k] = outcome]
    /\ place' = [place EXCEPT ![k] = "idle"]
EndsRaising(k, e) == Ends(k, IF is_definite_rejection(e) THEN "failed" ELSE "unknown")

(* A preview: the folder of a draft or event is resolved, the original of  *)
(* an answer read; what raises leaves no row.                              *)
Preview(k) ==
    /\ place[k] = "idle" /\ state[k] = "none"
    /\ what[k] = "answer" => original
    /\ Ends(k, "pending")
    /\ UNCHANGED <<what, made, sendOn, allowed, original>>

ConfirmClaims(k) ==
    /\ place[k] = "idle" /\ state[k] \in {"pending", "failed"}
    /\ state' = [state EXCEPT ![k] = "executing"]
    /\ place' = [place EXCEPT ![k] = "prepare"]
    /\ allowed' = [allowed EXCEPT ![k] = sendOn]
    /\ UNCHANGED <<what, made, sendOn, original>>

PrepareSubmitting(k) ==
    /\ place' = [place EXCEPT ![k] = "submit"]
    /\ UNCHANGED state
(* After require_send an invitation goes out whatever the switch does.     *)
PrepareGated(k) ==
    IF what[k] = "invitation" /\ ~sendOn
    THEN EndsRaising(k, Own("SEND_DISABLED"))
    ELSE PrepareSubmitting(k)

(* What a confirming call does before it submits: the preview's reads      *)
(* again, the folder of a task or contact, require_send.                   *)
Prepare(k) ==
    /\ place[k] = "prepare"
    /\ what[k] = "answer" => original
    /\ PrepareGated(k)
    /\ UNCHANGED <<what, made, sendOn, allowed, original>>

PrepareFails(k) ==
    /\ place[k] = "prepare"
    /\ \/ what[k] = "answer" /\ EndsRaising(k, Own("ITEM_OUT_OF_SCOPE"))
       \/ \E definite \in BOOLEAN : EndsRaising(k, Bare(definite))
    /\ UNCHANGED <<what, made, sendOn, allowed, original>>

IncompleteAccepted(k) == Ends(k, "completed")
(* A receipt without id or changekey.  An event is reported with whatever  *)
(* ids it has; an answer's missing receipt is an AttributeError.           *)
Incomplete(k) ==
    CASE what[k] = "task" -> EndsRaising(k, Own("TASK_RECEIPT_INCOMPLETE"))
      [] what[k] = "contact" -> EndsRaising(k, Own("CONTACT_RECEIPT_INCOMPLETE"))
      [] what[k] = "answer" -> EndsRaising(k, Bare(FALSE))
      [] OTHER -> IncompleteAccepted(k)

(* save: the item is created and its receipt complete, incomplete or lost, *)
(* or it is not, with a definite rejection or without.                     *)
Submission(k) ==
    /\ place[k] = "submit"
    /\ \/ /\ made' = [made EXCEPT ![k] = @ + 1]
          /\ Ends(k, "completed") \/ Incomplete(k) \/ EndsRaising(k, Wrapped(FALSE))
       \/ /\ \E definite \in BOOLEAN : EndsRaising(k, Wrapped(definite))
          /\ UNCHANGED made
    /\ UNCHANGED <<what, sendOn, allowed, original>>

SwitchSending ==
    /\ sendOn' = ~sendOn
    /\ allowed' = [k \in Creates |-> allowed[k] \/ (place[k] # "idle" /\ sendOn')]
    /\ UNCHANGED <<what, state, place, made, original>>

MoveOriginal ==
    /\ original' = ~original
    /\ UNCHANGED <<what, state, place, made, sendOn, allowed>>

CreateNext ==
    \/ \E k \in Creates :
          \/ Preview(k) \/ ConfirmClaims(k) \/ Prepare(k) \/ PrepareFails(k)
          \/ Submission(k)
    \/ SwitchSending \/ MoveOriginal

CreateSpec == CreateInit /\ [][CreateNext]_createVars

-----------------------------------------------------------------------------
(* However often a caller confirms, at most one item comes of it: a row    *)
(* that may be confirmed again has created nothing, and a completed one    *)
(* exactly one item.                                                       *)
CreatedOnce ==
    \A k \in Creates :
        /\ state[k] \in {"none", "pending", "failed"} => made[k] = 0
        /\ state[k] = "completed" => made[k] = 1
        /\ made[k] <= 1

(* Nobody is invited unless sending was on at some moment of the           *)
(* confirming call; that it was on at the preview is not enough.           *)
InvitationsGated ==
    [][\A k \in Creates : made'[k] # made[k] /\ what[k] = "invitation" => allowed[k]]_createVars
=============================================================================
