-------------------------- MODULE ItemWritesProofs --------------------------
(* The safety of the handlers on one item, for any number of operations,   *)
(* any choice of tools and any number of outside edits.                    *)
EXTENDS ItemWrites, TLAPS

-----------------------------------------------------------------------------
(* The inductive invariant.                                                *)

(* Which rows, copies and options a running operation has.                 *)
Running(o) ==
    /\ tool[o] = "none" => status[o] = "none" /\ pc[o] = "idle"
    /\ option[o] \in Options(tool[o])
    /\ pc[o] # "idle" => status[o] \in {"none", "executing"}
    /\ status[o] = "executing" => pc[o] # "idle"
    /\ pc[o] = "submit" => status[o] = "executing" /\ copy[o] # Absent
    /\ pc[o] # "submit" => copy[o] = Absent
    /\ status[o] = "none" => shown[o] = Absent

(* What is changed by update_draft is what was previewed.                  *)
Previewed(o) == tool[o] = "update_draft" =>
    /\ status[o] # "none" => shown[o] # Absent
    /\ pc[o] = "submit" => copy[o].version = shown[o].version
    /\ effect[o] # Absent => effect[o].onto.version = shown[o].version

(* What a call holds was in the folders of its tool.                       *)
Scoped(o) ==
    /\ pc[o] = "read" => place[o] \in Scope(tool[o])
    /\ shown[o] # Absent => shown[o].folder \in Scope(tool[o])
    /\ copy[o] # Absent => copy[o].folder \in Scope(tool[o])

(* Only final rows have an effect, and only with the switch a notice.      *)
Settled(o) ==
    /\ effect[o] # Absent => status[o] \in {"completed", "unknown"}
    /\ effect[o] # Absent /\ effect[o].notice => sendEnabled

Local(o) == Running(o) /\ Previewed(o) /\ Scoped(o) /\ Settled(o)

ItemInv == TypeOK /\ \A o \in Ops : Local(o)

-----------------------------------------------------------------------------
(* Every write and every outside edit leaves an item.                      *)
LEMMA ChangedItems ==
    ASSUME NEW x \in Items
    PROVE  /\ [x EXCEPT !.version = @ + 1] \in Items
           /\ \A f \in Folders : [x EXCEPT !.folder = f] \in Items
           /\ \A r \in {"owner", "stranger"}, b \in BOOLEAN :
                 [x EXCEPT !.version = @ + 1, !.role = r, !.to = b] \in Items
           /\ x.role # "attendee" => \A b \in BOOLEAN :
                 [x EXCEPT !.version = @ + 1, !.to = b] \in Items
  <1>1. ASSUME NEW v \in Nat PROVE [x EXCEPT !.version = v] \in Items
    BY DEF Items
  <1>2. ASSUME NEW f \in Folders PROVE [x EXCEPT !.folder = f] \in Items
    BY DEF Items
  <1>3. ASSUME NEW v \in Nat, NEW r \in {"owner", "stranger"}, NEW b \in BOOLEAN
        PROVE  [x EXCEPT !.version = v, !.role = r, !.to = b] \in Items
    BY DEF Items
  <1>4. ASSUME NEW v \in Nat, x.role # "attendee", NEW b \in BOOLEAN
        PROVE  [x EXCEPT !.version = v, !.to = b] \in Items
    BY <1>4 DEF Items
  <1>5. x.version + 1 \in Nat
    BY DEF Items
  <1> QED
    BY <1>1, <1>2, <1>3, <1>4, <1>5, Zenon

LEMMA WrittenItems ==
    ASSUME NEW t, NEW opt, NEW x \in Items, NEW y \in AfterWrite(t, opt, x)
    PROVE  y \in Items
  <1>1. /\ [x EXCEPT !.version = @ + 1] \in Items
        /\ [x EXCEPT !.folder = "gone"] \in Items
        /\ \A b \in BOOLEAN :
              [x EXCEPT !.version = @ + 1, !.role = "owner", !.to = b] \in Items
    <2>1. "gone" \in Folders
      BY DEF Folders
    <2> QED
      BY <2>1, ChangedItems, Zenon
  <1>2. \/ y = [x EXCEPT !.version = @ + 1]
        \/ y = [x EXCEPT !.folder = "gone"]
        \/ \E b \in BOOLEAN :
              y = [x EXCEPT !.version = @ + 1, !.role = "owner", !.to = b]
    <2>1. x.to \in BOOLEAN
      BY DEF Items
    <2> QED
      BY <2>1 DEF AfterWrite
  <1> QED
    BY <1>1, <1>2, Zenon

LEMMA EditedItems ==
    ASSUME item \in Items, Edit \/ Move
    PROVE  item' \in Items
  <1>1. CASE Edit
    <2>1. \/ item' = [item EXCEPT !.version = @ + 1]
          \/ \E r \in {"owner", "stranger"}, b \in BOOLEAN :
                item' = [item EXCEPT !.version = @ + 1, !.role = r, !.to = b]
          \/ item.role # "attendee" /\ \E b \in BOOLEAN :
                item' = [item EXCEPT !.version = @ + 1, !.to = b]
      BY <1>1, Zenon DEF Edit
    <2> QED
      BY <2>1, ChangedItems, Zenon
  <1>2. CASE Move
    <2>1. \E f \in Folders : item' = [item EXCEPT !.folder = f]
      BY <1>2 DEF Move, Folders
    <2> QED
      BY <2>1, ChangedItems, Zenon
  <1> QED
    BY <1>1, <1>2

LEMMA ItemTypes ==
    ASSUME NEW x \in Items
    PROVE  /\ x.version \in Nat /\ x.folder \in Folders /\ x.to \in BOOLEAN
           /\ x # Absent
  BY AbsentAssumption DEF Items

LEMMA InitialItemTypes == InitItem => item \in Items
  <1> SUFFICES ASSUME InitItem PROVE item \in Items
    OBVIOUS
  <1>1. CASE item \in {Plain("message", "inbox"), Plain("request", "inbox"),
                      Plain("task", "tasks"), Plain("event", "calendar")}
    <2>1. ASSUME NEW c \in {"message", "request", "event", "task"}, NEW f \in Folders
          PROVE  Plain(c, f) \in Items
      BY DEF Plain, Items
    <2> QED
      BY <1>1, <2>1 DEF Folders
  <1>2. ASSUME NEW r \in {"owner", "stranger"}, NEW b \in BOOLEAN,
               item = [Plain("message", "drafts") EXCEPT
                         !.draft = TRUE, !.role = r, !.to = b]
        PROVE  item \in Items
    BY <1>2 DEF Plain, Items, Folders
  <1>3. ASSUME NEW r \in {"owner", "attendee", "stranger"}, NEW b \in BOOLEAN,
               item = [Plain("event", "calendar") EXCEPT
                         !.role = r, !.to = TRUE, !.series = b]
        PROVE  item \in Items
    BY <1>3 DEF Plain, Items, Folders
  <1> QED
    BY <1>1, <1>2, <1>3, Zenon DEF InitItem

LEMMA InitItemInv == Init => ItemInv
  <1> SUFFICES ASSUME Init PROVE ItemInv
    OBVIOUS
  <1> USE DEF Init
  <1>1. TypeOK
    BY InitialItemTypes DEF TypeOK, Folders
  <1>2. ASSUME NEW o \in Ops PROVE Local(o)
    BY DEF Local, Running, Previewed, Scoped, Settled, Options, DraftTools,
           EventTools, ReadTools
  <1> QED
    BY <1>1, <1>2 DEF ItemInv

(* The end of a call keeps the types and, with a fitting outcome, the rest. *)
LEMMA ReturnTypes ==
    ASSUME TypeOK, NEW o \in Ops, NEW outcome \in {"completed", "failed", "unknown"},
           Return(o, outcome)
    PROVE  /\ tool' \in [Ops -> Tools \cup {"none"}]
           /\ option' \in [Ops -> {"plain", "notify", "blank"}]
           /\ status' \in [Ops -> {"none", "pending", "executing", "completed",
                                   "failed", "unknown"}]
           /\ pc' \in [Ops -> {"idle", "resolve", "read", "submit"}]
           /\ place' \in [Ops -> Folders]
           /\ copy' \in [Ops -> Items \cup {Absent}]
  BY DEF TypeOK, Return, Folders

LEMMA NextTypes ==
    ASSUME TypeOK, \A o \in Ops : Running(o), [Next]_vars
    PROVE  TypeOK'
  <1> USE ToolsAssumption DEF TypeOK, outside
  <1>1. CASE UNCHANGED vars
    BY <1>1 DEF vars
  <1>2. ASSUME NEW o \in Ops, NEW t \in Tools, NEW opt \in Options(t), Ask(o, t, opt)
        PROVE  TypeOK'
    BY <1>2 DEF Ask, Options
  <1>3. ASSUME NEW o \in Ops, Confirm(o) PROVE TypeOK'
    BY <1>3 DEF Confirm
  <1>4. ASSUME NEW o \in Ops, Resolve(o) PROVE TypeOK'
    BY <1>4, ItemTypes, ReturnTypes DEF Resolve, Refuse
  <1>5. ASSUME NEW o \in Ops, FetchFails(o) PROVE TypeOK'
    BY <1>5, ReturnTypes DEF FetchFails
  <1>6. ASSUME NEW o \in Ops, ReadRefused(o) PROVE TypeOK'
    BY <1>6, ReturnTypes DEF ReadRefused, Refuse
  <1>7. ASSUME NEW o \in Ops, Read(o) PROVE TypeOK'
    BY <1>7 DEF Read, Folders
  <1>8. ASSUME NEW o \in Ops, NoDifference(o) PROVE TypeOK'
    BY <1>8 DEF NoDifference, Folders
  <1>9. ASSUME NEW o \in Ops, SendDisabled(o) PROVE TypeOK'
    BY <1>9, ReturnTypes DEF SendDisabled, Refuse
  <1>10. ASSUME NEW o \in Ops, NothingToSave(o) PROVE TypeOK'
    BY <1>10, ReturnTypes DEF NothingToSave
  <1>11. ASSUME NEW o \in Ops, Submit(o) PROVE TypeOK'
    <2>1. PICK applied \in BOOLEAN : \E answer \in Answers(o, applied) :
             /\ IF applied THEN Apply(o) ELSE UNCHANGED <<item, effect>>
             /\ Return(o, Outcome(tool[o], copy[o], answer))
      BY <1>11 DEF Submit
    <2>2. PICK answer \in Answers(o, applied) :
             /\ IF applied THEN Apply(o) ELSE UNCHANGED <<item, effect>>
             /\ Return(o, Outcome(tool[o], copy[o], answer))
      BY <2>1
    <2>3. Outcome(tool[o], copy[o], answer) \in {"completed", "failed", "unknown"}
      BY <2>2 DEF Answers, Outcome
    <2>4. item' \in Items
      BY <2>2, WrittenItems DEF Apply
    <2>5. effect' \in [Ops -> [onto : Items, notice : BOOLEAN] \cup {Absent}]
      <3>1. CASE ~applied
        BY <2>2, <3>1
      <3>2. CASE applied
        <4>1. Reaches(tool[o], option[o], copy[o]) \in BOOLEAN
          <5>1. copy[o] \in Items
            BY <1>11 DEF Submit, Running
          <5> QED
            BY <5>1, ItemTypes DEF Reaches
        <4> QED
          BY <2>2, <3>2, <4>1 DEF Apply
      <3> QED
        BY <3>1, <3>2
    <2> QED
      BY <1>11, <2>2, <2>3, <2>4, <2>5, ReturnTypes DEF Submit
  <1>12. CASE Edit
    BY <1>12, EditedItems DEF Edit
  <1>13. CASE Move
    BY <1>13, EditedItems DEF Move
  <1> QED
    BY <1>1, <1>2, <1>3, <1>4, <1>5, <1>6, <1>7, <1>8, <1>9, <1>10, <1>11,
       <1>12, <1>13 DEF Next, Handle

(* A step of one operation leaves the others as they are.                  *)
LEMMA OtherOps ==
    ASSUME NEW o \in Ops, NEW p \in Ops, ItemInv, sendEnabled' = sendEnabled,
           tool'[p] = tool[p], option'[p] = option[p], status'[p] = status[p],
           pc'[p] = pc[p], place'[p] = place[p], copy'[p] = copy[p],
           shown'[p] = shown[p], effect'[p] = effect[p]
    PROVE  Local(p)'
  BY DEF ItemInv, Local, Running, Previewed, Scoped, Settled

(* A call that ends without touching the item keeps the invariant, with    *)
(* any outcome.                                                            *)
LEMMA ReturnLocal ==
    ASSUME ItemInv, NEW o \in Ops, NEW p \in Ops, pc[o] # "idle",
           NEW outcome \in {"completed", "failed", "unknown"}, Return(o, outcome),
           UNCHANGED <<sendEnabled, shown, effect>>
    PROVE  Local(p)'
  <1>1. CASE p # o
    BY <1>1, OtherOps DEF Return, ItemInv, TypeOK
  <1>2. CASE p = o
    BY <1>2 DEF Return, Confirming, ItemInv, TypeOK, Local, Running, Previewed,
       Scoped, Settled, Options
  <1> QED
    BY <1>1, <1>2

LEMMA NextItemInv ==
    ASSUME ItemInv, [Next]_vars
    PROVE  ItemInv'
  <1> USE DEF outside
  <1>1. TypeOK /\ TypeOK'
    BY NextTypes DEF ItemInv, Local
  <1> SUFFICES ASSUME NEW p \in Ops PROVE Local(p)'
    BY <1>1 DEF ItemInv
  <1>2. CASE UNCHANGED vars
    BY <1>2 DEF vars, ItemInv, Local, Running, Previewed, Scoped, Settled
  <1>3. ASSUME NEW o \in Ops, NEW t \in Tools, NEW opt \in Options(t), Ask(o, t, opt)
        PROVE  Local(p)'
    <2>1. CASE p = o
      BY <1>1, <1>3, <2>1, ToolsAssumption DEF Ask, ItemInv, TypeOK, Local,
         Running, Previewed, Scoped, Settled, AllTools, DraftTools, EventTools,
         ReadTools
    <2>2. CASE p # o
      BY <1>1, <1>3, <2>2, OtherOps DEF Ask, TypeOK
    <2> QED BY <2>1, <2>2
  <1>4. ASSUME NEW o \in Ops, Confirm(o) PROVE Local(p)'
    <2>1. CASE p = o
      BY <1>1, <1>4, <2>1 DEF Confirm, ItemInv, TypeOK, Local, Running,
         Previewed, Scoped, Settled
    <2>2. CASE p # o
      BY <1>1, <1>4, <2>2, OtherOps DEF Confirm, TypeOK
    <2> QED BY <2>1, <2>2
  <1>5. ASSUME NEW o \in Ops, Resolve(o) PROVE Local(p)'
    <2>1. CASE item.folder \notin Scope(tool[o])
      BY <1>5, <2>1, ReturnLocal DEF Resolve, Refuse
    <2>2. CASE item.folder \in Scope(tool[o]) /\ p = o
      BY <1>1, <1>5, <2>2 DEF Resolve, ItemInv, TypeOK, Local, Running,
         Previewed, Scoped, Settled
    <2>3. CASE item.folder \in Scope(tool[o]) /\ p # o
      BY <1>1, <1>5, <2>3, OtherOps DEF Resolve, TypeOK
    <2> QED BY <2>1, <2>2, <2>3
  <1>6. ASSUME NEW o \in Ops, FetchFails(o) PROVE Local(p)'
    BY <1>6, ReturnLocal DEF FetchFails
  <1>7. ASSUME NEW o \in Ops, ReadRefused(o) PROVE Local(p)'
    BY <1>7, ReturnLocal DEF ReadRefused, Refuse
  <1>8. ASSUME NEW o \in Ops, Read(o) PROVE Local(p)'
    <2>1. item.folder \in Scope(tool[o]) /\ item \in Items /\ item # Absent
      BY <1>1, <1>8, ItemTypes DEF Read, Rejects, Readable, ItemInv, TypeOK,
         Local, Scoped
    <2>2. CASE Confirming(o) /\ p = o
      <3>1. tool[o] = "update_draft" =>
               shown[o] # Absent /\ item.version = shown[o].version
        BY <1>8, <2>2 DEF Read, Rejects, ChangedSincePreview, Confirming,
           ItemInv, Local, Previewed
      <3> QED
        BY <1>1, <1>8, <2>1, <2>2, <3>1 DEF Read, Confirming, ItemInv, TypeOK,
           Local, Running, Previewed, Scoped, Settled
    <2>3. CASE ~Confirming(o) /\ p = o
      BY <1>1, <1>8, <2>1, <2>3 DEF Read, Confirming, ItemInv, TypeOK, Local,
         Running, Previewed, Scoped, Settled
    <2>4. CASE p # o
      BY <1>1, <1>8, <2>4, OtherOps DEF Read, TypeOK
    <2> QED BY <2>2, <2>3, <2>4
  <1>9. ASSUME NEW o \in Ops, NoDifference(o) PROVE Local(p)'
    <2>1. CASE p = o
      BY <1>1, <1>9, <2>1 DEF NoDifference, Confirming, ItemInv, TypeOK, Local,
         Running, Previewed, Scoped, Settled
    <2>2. CASE p # o
      BY <1>1, <1>9, <2>2, OtherOps DEF NoDifference, TypeOK
    <2> QED BY <2>1, <2>2
  <1>10. ASSUME NEW o \in Ops, SendDisabled(o) PROVE Local(p)'
    BY <1>10, ReturnLocal DEF SendDisabled, Refuse
  <1>11. ASSUME NEW o \in Ops, NothingToSave(o) PROVE Local(p)'
    BY <1>11, ReturnLocal DEF NothingToSave
  <1>12. ASSUME NEW o \in Ops, Submit(o) PROVE Local(p)'
    <2>1. PICK applied \in BOOLEAN : \E answer \in Answers(o, applied) :
             /\ IF applied THEN Apply(o) ELSE UNCHANGED <<item, effect>>
             /\ Return(o, Outcome(tool[o], copy[o], answer))
      BY <1>12 DEF Submit
    <2>2. PICK answer \in Answers(o, applied) :
             /\ IF applied THEN Apply(o) ELSE UNCHANGED <<item, effect>>
             /\ Return(o, Outcome(tool[o], copy[o], answer))
      BY <2>1
    <2>3. Outcome(tool[o], copy[o], answer) \in {"completed", "failed", "unknown"}
      BY <2>2 DEF Answers, Outcome
    <2>4. CASE ~applied
      BY <1>12, <2>2, <2>3, <2>4, ReturnLocal DEF Submit
    <2>5. CASE applied /\ p # o
      BY <1>1, <1>12, <2>2, <2>5, OtherOps DEF Submit, Apply, Return, TypeOK
    <2>6. CASE applied /\ p = o
      <3>1. status[o] = "executing" /\ tool[o] # "none"
        BY <1>12 DEF Submit, ItemInv, Local, Running
      <3>2. status'[o] \in {"completed", "unknown"} /\ pc'[o] = "idle"
            /\ copy'[o] = Absent /\ tool'[o] = tool[o] /\ option'[o] = option[o]
        BY <1>1, <2>2, <2>6, <3>1 DEF Return, Answers, Outcome, Confirming, TypeOK
      <3>3. effect'[o] = [onto |-> item,
                          notice |-> Reaches(tool[o], option[o], copy[o])]
        BY <1>1, <2>2, <2>6 DEF Apply, TypeOK
      <3>4. tool[o] = "update_draft" =>
               shown[o] # Absent /\ effect'[o].onto.version = shown[o].version
        BY <1>1, <1>12, <2>2, <2>6, <3>1, <3>3 DEF Submit, Apply, CanApply,
           ItemInv, Local, Previewed
      <3>5. effect'[o].notice => sendEnabled
        <4>1. option[o] = "notify" => tool[o] = "update_event"
          BY DEF ItemInv, Local, Running, Options
        <4> QED
          BY <1>12, <3>3, <4>1 DEF Submit, Reaches, Notifies
      <3> QED
        BY <1>12, <2>6, <3>1, <3>2, <3>3, <3>4, <3>5 DEF Submit, ItemInv, Local,
           Running, Previewed, Scoped, Settled
    <2> QED BY <2>4, <2>5, <2>6
  <1>13. CASE Edit
    BY <1>13, OtherOps DEF Edit
  <1>14. CASE Move
    BY <1>14, OtherOps DEF Move
  <1> QED
    BY <1>2, <1>3, <1>4, <1>5, <1>6, <1>7, <1>8, <1>9, <1>10, <1>11, <1>12,
       <1>13, <1>14 DEF Next, Handle

-----------------------------------------------------------------------------
(* The inductive invariant holds.                                          *)
THEOREM ItemInvariance == Spec => []ItemInv
  <1>1. ItemInv /\ [Next]_vars => ItemInv'
    BY NextItemInv
  <1> QED
    BY <1>1, InitItemInv, PTL DEF Spec

(* Type correctness of the handlers on one item.                           *)
THEOREM ItemTypeCorrect == Spec => []TypeOK
  <1>1. ItemInv => TypeOK
    BY DEF ItemInv
  <1> QED
    BY <1>1, ItemInvariance, PTL

(* update_draft changes the version it previewed, whoever edits meanwhile. *)
THEOREM DraftsAsPreviewed == Spec => []DraftUpdateIsPreviewed
  <1>1. ItemInv => DraftUpdateIsPreviewed
    BY DEF ItemInv, Local, Running, Previewed, Settled, DraftUpdateIsPreviewed
  <1> QED
    BY <1>1, ItemInvariance, PTL

(* A row that may be claimed again left the item alone.                    *)
THEOREM ClaimableUntouched == Spec => []FailedMeansUntouched
  <1>1. ItemInv => FailedMeansUntouched
    BY DEF ItemInv, Local, Settled, FailedMeansUntouched
  <1> QED
    BY <1>1, ItemInvariance, PTL

(* Nothing from outside the folders of a tool is returned or changed.      *)
THEOREM InScope == Spec => []ShownInScope
  <1>1. ItemInv => ShownInScope
    BY DEF ItemInv, Local, Scoped, ShownInScope
  <1> QED
    BY <1>1, ItemInvariance, PTL

(* With the send switch off no tool reaches other people.                  *)
THEOREM SwitchGates == Spec => []NoticesGated
  <1>1. ItemInv => NoticesGated
    BY DEF ItemInv, Local, Settled, NoticesGated
  <1> QED
    BY <1>1, ItemInvariance, PTL
=============================================================================
