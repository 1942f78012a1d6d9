----------------------------- MODULE ItemWrites -----------------------------
(* Tool handlers at work on one Exchange item that other people edit, move *)
(* and remove meanwhile.  A write handler runs twice: in the preview call  *)
(* it reads the item and returns what it found, in the confirm call it     *)
(* reads the item again and submits the change.  RunWrite models the       *)
(* engine around the two calls; here each operation goes through them.     *)
(* Every handler reads through _tool_item, which fetches twice: first the  *)
(* parent folder, then the content.                                        *)
EXTENDS Naturals

CONSTANTS
    Ops,          \* operations; a read tool uses one for its single call
    Tools,        \* the tools called in this instance
    MaxVersion,   \* bound: outsiders edit up to this changekey
    Absent        \* no item copy, no effect

DraftTools == {"update_draft", "send_draft", "delete_draft"}
EventTools == {"update_event", "respond_to_event", "cancel_event"}
ReadTools  == {"get_message", "get_event"}
AllTools   == DraftTools \cup EventTools \cup ReadTools
                \cup {"set_message_flag", "update_task"}

ASSUME ToolsAssumption == Tools \subseteq AllTools /\ MaxVersion \in Nat

VARIABLES
    item,         \* the item at Exchange; its folder is "gone" when its id is
    sendEnabled,  \* EWS_MCP_SEND_ENABLED
    tool,         \* per operation: the tool
    option,       \*   the parameter that decides what is submitted
    status,       \*   the row of the operation ("none": no row yet)
    pc,           \*   "idle", "resolve", "read", "submit"
    place,        \*   the folder the first fetch found
    copy,         \*   the item the second fetch returned
    shown,        \*   the item the preview (or the read tool) returned
    effect        \*   what Exchange applied, with the item it applied it to

vars == <<item, sendEnabled, tool, option, status, pc, place, copy, shown,
          effect>>
outside == <<item, sendEnabled>>

Folders == {"inbox", "drafts", "sent", "calendar", "tasks", "elsewhere", "gone"}
MAIL_FOLDERS == {"inbox", "drafts", "sent"}

(* role: the employee is author of the draft or organizer of the event     *)
(* ("owner"), attendee, or neither; to: recipients or attendees exist.     *)
Items == {x \in [version : Nat, folder : Folders,
                 class : {"message", "request", "event", "task"},
                 draft : BOOLEAN, series : BOOLEAN, to : BOOLEAN,
                 role : {"owner", "attendee", "stranger"}] :
             x.role = "attendee" => x.to}

ASSUME AbsentAssumption ==
    Absent \notin Items \cup [onto : Items, notice : BOOLEAN]

Plain(class, folder) ==
    [version |-> 0, folder |-> folder, class |-> class, draft |-> FALSE,
     series |-> FALSE, to |-> FALSE, role |-> "owner"]

InitItem ==
    \/ item \in {Plain("message", "inbox"), Plain("request", "inbox"),
                 Plain("task", "tasks"), Plain("event", "calendar")}
    \/ \E r \in {"owner", "stranger"}, b \in BOOLEAN :
          item = [Plain("message", "drafts") EXCEPT !.draft = TRUE, !.role = r, !.to = b]
    \/ \E r \in {"owner", "attendee", "stranger"}, b \in BOOLEAN :
          item = [Plain("event", "calendar") EXCEPT !.role = r, !.to = TRUE, !.series = b]

(* The folders a tool may read an item from.                               *)
Scope(t) ==
    CASE t \in DraftTools                        -> {"drafts"}
      [] t \in EventTools \cup {"get_event"}     -> {"calendar"}
      [] t = "update_task"                       -> {"tasks"}
      [] OTHER                                   -> MAIL_FOLDERS

(* update_event may notify attendees; update_draft may change no field.    *)
Options(t) ==
    CASE t = "update_event" -> {"plain", "notify"}
      [] t = "update_draft" -> {"plain", "blank"}
      [] OTHER              -> {"plain"}

(* What the handlers require of the item they have read.                   *)
DraftAdmits(x) == x.class = "message" /\ x.draft
SendAdmits(x)  == x.role = "owner" /\ x.to
EventAdmits(t, x) ==
    /\ x.class = "event"
    /\ t \in EventTools => ~x.series
    /\ t \in {"update_event", "cancel_event"} => x.role = "owner"
    /\ t = "respond_to_event" => x.role = "attendee"
FlagAdmits(x)  == x.class = "message"
TaskAdmits(x)  == x.class = "task"

Admits(t, x) ==
    /\ t \in DraftTools => DraftAdmits(x)
    /\ t = "send_draft" => SendAdmits(x)
    /\ t \in EventTools \cup {"get_event"} => EventAdmits(t, x)
    /\ t = "set_message_flag" => FlagAdmits(x)
    /\ t = "update_task" => TaskAdmits(x)

(* Exchange sends mail for these submissions: the draft itself, a response, *)
(* an update notification or a cancellation.                               *)
Reaches(t, opt, x) ==
    \/ t \in {"send_draft", "respond_to_event"}
    \/ opt = "notify"
    \/ t = "cancel_event" /\ x.to

NotifiesForgettingCancel(t, opt, x) ==
    t \in {"send_draft", "respond_to_event"} \/ opt = "notify"
(* Where the handlers ask for the send switch (require_send).              *)
Notifies(t, opt, x) ==
    \/ t \in {"send_draft", "respond_to_event"}
    \/ t = "update_event" /\ opt = "notify"
    \/ t = "cancel_event" /\ x.to

(* update_draft saves with NEVER_OVERWRITE; the other tools leave          *)
(* exchangelib's AutoResolve or name the item by its id alone.             *)
CanApplyAutoResolve(t, x, read) == x.folder # "gone"
CanApply(t, x, read) ==
    /\ x.folder # "gone"
    /\ t = "update_draft" => x.version = read.version

(* The item after the write.  A sent, trashed or cancelled item has lost   *)
(* its id, and so may an event that was declined.                          *)
AfterWrite(t, opt, x) ==
    CASE t \in {"send_draft", "delete_draft", "cancel_event"} ->
             {[x EXCEPT !.folder = "gone"]}
      [] t = "update_draft" ->
             {[x EXCEPT !.version = @ + 1, !.role = "owner", !.to = b] :
                  b \in IF opt = "blank" THEN {x.to} ELSE BOOLEAN}
      [] t = "respond_to_event" ->
             {[x EXCEPT !.version = @ + 1], [x EXCEPT !.folder = "gone"]}
      [] OTHER -> {[x EXCEPT !.version = @ + 1]}

ChangedSincePreviewNever(x, preview) == FALSE
(* update_draft compares changekey and body with the recorded version.     *)
ChangedSincePreview(x, preview) == preview # Absent /\ x.version # preview.version

Init ==
    /\ InitItem
    /\ sendEnabled \in BOOLEAN
    /\ tool = [o \in Ops |-> "none"]
    /\ option = [o \in Ops |-> "plain"]
    /\ status = [o \in Ops |-> "none"]
    /\ pc = [o \in Ops |-> "idle"]
    /\ place = [o \in Ops |-> "gone"]
    /\ copy = [o \in Ops |-> Absent]
    /\ shown = [o \in Ops |-> Absent]
    /\ effect = [o \in Ops |-> Absent]

-----------------------------------------------------------------------------
(* The calls.                                                              *)

Confirming(o) == status[o] = "executing"

(* The first call of an operation: a preview, or a read.                   *)
Ask(o, t, opt) ==
    /\ pc[o] = "idle" /\ status[o] = "none"
    /\ tool' = [tool EXCEPT ![o] = t]
    /\ option' = [option EXCEPT ![o] = opt]
    /\ pc' = [pc EXCEPT ![o] = "resolve"]
    /\ UNCHANGED <<outside, status, place, copy, shown, effect>>

(* A confirmation claims a pending or failed row and runs the handler      *)
(* again.                                                                  *)
Confirm(o) ==
    /\ pc[o] = "idle" /\ status[o] \in {"pending", "failed"}
    /\ status' = [status EXCEPT ![o] = "executing"]
    /\ pc' = [pc EXCEPT ![o] = "resolve"]
    /\ UNCHANGED <<outside, tool, option, place, copy, shown, effect>>

(* The call ends; only a confirmation leaves its outcome in the row, a     *)
(* failed preview leaves nothing.                                          *)
Return(o, outcome) ==
    /\ pc' = [pc EXCEPT ![o] = "idle"]
    /\ status' = [status EXCEPT ![o] = IF Confirming(o) THEN outcome ELSE @]
    /\ place' = [place EXCEPT ![o] = "gone"]
    /\ copy' = [copy EXCEPT ![o] = Absent]
    /\ tool' = [tool EXCEPT ![o] = IF Confirming(o) THEN @ ELSE "none"]
    /\ option' = [option EXCEPT ![o] = IF Confirming(o) THEN @ ELSE "plain"]

(* A ToolOperationError without a cause: nothing was submitted.            *)
Refuse(o) == Return(o, "failed") /\ UNCHANGED <<shown, effect>>

(* _tool_item, first fetch: does the item belong to the tool's folders?    *)
Resolve(o) ==
    /\ pc[o] = "resolve"
    /\ \/ /\ item.folder \in Scope(tool[o])
          /\ pc' = [pc EXCEPT ![o] = "read"]
          /\ place' = [place EXCEPT ![o] = item.folder]
          /\ UNCHANGED <<tool, option, status, copy, shown, effect>>
       \/ /\ item.folder \notin Scope(tool[o])
          /\ Refuse(o)
    /\ UNCHANGED outside

(* A fetch raises: a definite rejection or anything else.                  *)
FetchFails(o) ==
    /\ pc[o] \in {"resolve", "read"}
    /\ \E outcome \in {"failed", "unknown"} : Return(o, outcome)
    /\ UNCHANGED <<outside, shown, effect>>

ReadableAnywhere(x, folder) == x.folder # "gone"
(* _tool_item, second fetch: the parent folder must still be the same.     *)
Readable(x, folder) == x.folder = folder

Rejects(o) ==
    \/ ~Readable(item, place[o])
    \/ ~Admits(tool[o], item)
    \/ /\ tool[o] = "update_draft" /\ Confirming(o)
       /\ ChangedSincePreview(item, shown[o])

ReadRefused(o) ==
    /\ pc[o] = "read" /\ Rejects(o)
    /\ Refuse(o)
    /\ UNCHANGED outside

(* The item is read and passes: a read tool returns it, a preview is       *)
(* recorded, a confirmation goes on to submit.                             *)
Read(o) ==
    /\ pc[o] = "read" /\ ~Rejects(o)
    /\ IF Confirming(o)
       THEN /\ pc' = [pc EXCEPT ![o] = "submit"]
            /\ copy' = [copy EXCEPT ![o] = item]
            /\ UNCHANGED <<status, place, shown>>
       ELSE /\ pc' = [pc EXCEPT ![o] = "idle"]
            /\ status' = [status EXCEPT ![o] =
                   IF tool[o] \in ReadTools THEN "completed" ELSE "pending"]
            /\ shown' = [shown EXCEPT ![o] = item]
            /\ place' = [place EXCEPT ![o] = "gone"]
            /\ UNCHANGED copy
    /\ UNCHANGED <<outside, tool, option, effect>>

(* update_event, when the event has the requested values already: returned *)
(* before anything is shown or submitted, yet a preview call records a row.*)
NoDifference(o) ==
    /\ pc[o] = "read" /\ ~Rejects(o)
    /\ tool[o] = "update_event"
    /\ pc' = [pc EXCEPT ![o] = "idle"]
    /\ status' = [status EXCEPT ![o] =
           IF Confirming(o) THEN "completed" ELSE "pending"]
    /\ place' = [place EXCEPT ![o] = "gone"]
    /\ UNCHANGED <<outside, tool, option, copy, shown, effect>>

-----------------------------------------------------------------------------
(* The submission of a confirmed write.                                    *)

(* require_send: the switch is off, nothing is submitted.                  *)
SendDisabled(o) ==
    /\ pc[o] = "submit"
    /\ Notifies(tool[o], option[o], copy[o]) /\ ~sendEnabled
    /\ Refuse(o)
    /\ UNCHANGED outside

(* update_draft with no field to change and the author aligned already.    *)
Unchanging(o) ==
    tool[o] = "update_draft" /\ option[o] = "blank" /\ copy[o].role = "owner"

NothingToSave(o) ==
    /\ pc[o] = "submit" /\ Unchanging(o)
    /\ Return(o, "completed")
    /\ UNCHANGED <<outside, shown, effect>>

OutcomeOfAnswer(t, x, answer) ==
    CASE answer = "ok" -> "completed" [] answer = "rejected" -> "failed"
      [] answer = "lost" -> "unknown"
(* How the row ends.  A cancellation that raises is always uncertain: EWS  *)
(* may have cancelled the event before the notice was rejected.            *)
Outcome(t, x, answer) ==
    CASE answer = "ok"       -> "completed"
      [] answer = "rejected" ->
             IF t = "cancel_event" /\ x.to THEN "unknown" ELSE "failed"
      [] answer = "lost"     -> "unknown"

(* Exchange's answers: a rejection means that nothing was applied, except  *)
(* for the notices of a cancellation; a lost answer means nothing.         *)
Answers(o, applied) ==
    IF ~applied THEN {"rejected", "lost"}
    ELSE {"ok", "lost"} \cup
         (IF tool[o] = "cancel_event" /\ copy[o].to THEN {"rejected"} ELSE {})

Apply(o) ==
    /\ CanApply(tool[o], item, copy[o])
    /\ item' \in AfterWrite(tool[o], option[o], item)
    /\ effect' = [effect EXCEPT ![o] =
           [onto |-> item, notice |-> Reaches(tool[o], option[o], copy[o])]]

Submit(o) ==
    /\ pc[o] = "submit" /\ ~Unchanging(o)
    /\ Notifies(tool[o], option[o], copy[o]) => sendEnabled
    /\ \E applied \in BOOLEAN : \E answer \in Answers(o, applied) :
          /\ IF applied THEN Apply(o) ELSE UNCHANGED <<item, effect>>
          /\ Return(o, Outcome(tool[o], copy[o], answer))
    /\ UNCHANGED <<sendEnabled, shown>>

-----------------------------------------------------------------------------
(* Other people: Outlook, the other attendees, other tools.                *)
Edit ==
    /\ item.folder # "gone" /\ item.version < MaxVersion
    /\ \/ /\ item.draft
          /\ \E r \in {"owner", "stranger"}, b \in BOOLEAN :
                item' = [item EXCEPT !.version = @ + 1, !.role = r, !.to = b]
       \/ /\ item.class = "event" /\ item.role # "attendee"
          /\ \E b \in BOOLEAN : item' = [item EXCEPT !.version = @ + 1, !.to = b]
       \/ /\ ~item.draft /\ (item.class = "event" => item.role = "attendee")
          /\ item' = [item EXCEPT !.version = @ + 1]
    /\ UNCHANGED <<sendEnabled, tool, option, status, pc, place, copy, shown,
                   effect>>

Move ==
    /\ item.folder # "gone"
    /\ \E f \in {"inbox", "drafts", "elsewhere", "gone"} \ {item.folder} :
          item' = [item EXCEPT !.folder = f]
    /\ UNCHANGED <<sendEnabled, tool, option, status, pc, place, copy, shown,
                   effect>>

Handle(o) ==
    \/ \E t \in Tools : \E opt \in Options(t) : Ask(o, t, opt)
    \/ Confirm(o)
    \/ Resolve(o) \/ FetchFails(o) \/ ReadRefused(o) \/ Read(o)
    \/ NoDifference(o)
    \/ SendDisabled(o) \/ NothingToSave(o) \/ Submit(o)

Next == (\E o \in Ops : Handle(o)) \/ Edit \/ Move

Spec == Init /\ [][Next]_vars

-----------------------------------------------------------------------------
(* Every operation is in a state the handlers can be in.                   *)
TypeOK ==
    /\ item \in Items
    /\ sendEnabled \in BOOLEAN
    /\ tool \in [Ops -> Tools \cup {"none"}]
    /\ option \in [Ops -> {"plain", "notify", "blank"}]
    /\ status \in [Ops -> {"none", "pending", "executing", "completed",
                           "failed", "unknown"}]
    /\ pc \in [Ops -> {"idle", "resolve", "read", "submit"}]
    /\ place \in [Ops -> Folders]
    /\ copy \in [Ops -> Items \cup {Absent}]
    /\ shown \in [Ops -> Items \cup {Absent}]
    /\ effect \in [Ops -> [onto : Items, notice : BOOLEAN] \cup {Absent}]

(* A confirmed update_draft changes exactly the version its preview showed: *)
(* whoever edits the draft between preview and confirmation, between the    *)
(* two fetches, or between reading and saving, the edit is not overwritten. *)
DraftUpdateIsPreviewed ==
    \A o \in Ops : tool[o] = "update_draft" /\ effect[o] # Absent =>
        /\ shown[o] # Absent
        /\ effect[o].onto.version = shown[o].version

(* A row that may be claimed again stands for a write that was not applied, *)
(* whatever Exchange answered.                                              *)
FailedMeansUntouched ==
    \A o \in Ops : status[o] \in {"none", "pending", "failed"} =>
        effect[o] = Absent

(* What a tool returns or prepares to change was in the folders it may      *)
(* read when its content was fetched, although the item may move between    *)
(* the two fetches.                                                         *)
ShownInScope ==
    \A o \in Ops : \A x \in {shown[o], copy[o]} \ {Absent} :
        x.folder \in Scope(tool[o])

(* With the send switch off no tool reaches other people.                   *)
NoticesGated ==
    \A o \in Ops : effect[o] # Absent /\ effect[o].notice => sendEnabled

(* tool_specs.py of update_task: "using a checked change key".  Then at    *)
(* least the version that the confirming call has read is the one changed. *)
TaskChangeKeyChecked ==
    [][\A o \in Ops : tool[o] = "update_task" /\ effect'[o] # effect[o] =>
          effect'[o].onto.version = copy[o].version]_vars
=============================================================================
