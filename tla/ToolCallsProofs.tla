-------------------------- MODULE ToolCallsProofs --------------------------
(***************************************************************************)
(* The safety theorems of three parts of a tool call, for every value of   *)
(* their constants: what the creating tools create (Creations), where the  *)
(* team tools go (TeamDirectories), and the audit record of the call       *)
(* (ToolRequests).  One section each, with its inductive invariant.        *)
(***************************************************************************)
EXTENDS Creations, TeamDirectories, ToolRequests, TLAPS

-----------------------------------------------------------------------------
(* Creations.  The argument: a call runs only while its row is executing,  *)
(* and until it has submitted, it has created nothing; what ends the call  *)
(* after Exchange created the item is never a definite rejection.          *)

CreateTypeOK ==
    /\ what \in [Creates -> Kinds]
    /\ state \in [Creates -> {"none", "pending", "executing", "completed", "failed", "unknown"}]
    /\ place \in [Creates -> {"idle", "prepare", "submit"}]
    /\ made \in [Creates -> Nat]
    /\ sendOn \in BOOLEAN
    /\ allowed \in [Creates -> BOOLEAN]
    /\ original \in BOOLEAN

(* A call runs exactly while its row is executing, and has submitted       *)
(* nothing yet.                                                            *)
RunningOf(k) ==
    /\ place[k] # "idle" <=> state[k] = "executing"
    /\ state[k] \in {"none", "pending", "failed", "executing"} => made[k] = 0
    /\ state[k] = "completed" => made[k] = 1
    /\ made[k] <= 1

(* A call that sees the switch on has seen it; one that submits an         *)
(* invitation saw it on.                                                   *)
GatedOf(k) ==
    /\ place[k] # "idle" /\ sendOn => allowed[k]
    /\ place[k] = "submit" /\ what[k] = "invitation" => allowed[k]

CreateInv ==
    /\ CreateTypeOK
    /\ \A k \in Creates : RunningOf(k) /\ GatedOf(k)

-----------------------------------------------------------------------------
(* An error that is_definite_rejection takes for one makes the row failed, *)
(* any other unknown.                                                      *)
LEMMA RaisedStatus ==
    ASSUME NEW k \in Creates, NEW e, EndsRaising(k, e)
    PROVE  \/ Ends(k, "failed") /\ is_definite_rejection(e)
           \/ Ends(k, "unknown") /\ ~is_definite_rejection(e)
  BY DEF EndsRaising

(* A receipt without ids is a completed event or an unknown outcome.       *)
LEMMA IncompleteStatus ==
    ASSUME NEW k \in Creates, Incomplete(k), what[k] \in Kinds
    PROVE  Ends(k, "completed") \/ Ends(k, "unknown")
  <1>1. ~is_definite_rejection(Own("TASK_RECEIPT_INCOMPLETE"))
    BY DEF is_definite_rejection, Own, Unknowable
  <1>2. ~is_definite_rejection(Own("CONTACT_RECEIPT_INCOMPLETE"))
    BY DEF is_definite_rejection, Own, Unknowable
  <1>3. ~is_definite_rejection(Bare(FALSE))
    BY DEF is_definite_rejection, Bare
  <1>4. CASE what[k] = "task"
    BY <1>1, <1>4, RaisedStatus DEF Incomplete
  <1>5. CASE what[k] = "contact"
    BY <1>2, <1>5, RaisedStatus DEF Incomplete
  <1>6. CASE what[k] = "answer"
    BY <1>3, <1>6, RaisedStatus DEF Incomplete
  <1>7. CASE what[k] \in {"draft", "event", "invitation"}
    BY <1>7 DEF Incomplete, IncompleteAccepted
  <1> QED
    BY <1>4, <1>5, <1>6, <1>7 DEF Kinds

(* An error of Exchange that comes after the creation is no definite       *)
(* rejection.                                                              *)
LEMMA LostAnswer == ~is_definite_rejection(Wrapped(FALSE))
  BY DEF is_definite_rejection, Wrapped, Unknowable

LEMMA CreateTypes == CreateTypeOK /\ [CreateNext]_createVars => CreateTypeOK'
  <1> SUFFICES ASSUME CreateTypeOK, [CreateNext]_createVars PROVE CreateTypeOK'
    OBVIOUS
  <1> USE DEF CreateTypeOK
  <1>1. CASE UNCHANGED createVars
    BY <1>1 DEF createVars
  <1>2. CASE SwitchSending \/ MoveOriginal
    BY <1>2 DEF SwitchSending, MoveOriginal
  <1>3. ASSUME NEW k \in Creates PROVE Preview(k) \/ ConfirmClaims(k) => CreateTypeOK'
    BY DEF Preview, ConfirmClaims, Ends
  <1>4. ASSUME NEW k \in Creates, Prepare(k) \/ PrepareFails(k) PROVE CreateTypeOK'
    BY <1>4, RaisedStatus
       DEF Prepare, PrepareFails, PrepareGated, PrepareSubmitting, Ends
  <1>5. ASSUME NEW k \in Creates, Submission(k) PROVE CreateTypeOK'
    <2>1. PICK s \in {"completed", "failed", "unknown"} : Ends(k, s)
      BY <1>5, RaisedStatus, IncompleteStatus DEF Submission
    <2>2. made' = made \/ made' = [made EXCEPT ![k] = @ + 1]
      BY <1>5 DEF Submission
    <2> QED
      BY <1>5, <2>1, <2>2 DEF Submission, Ends
  <1> QED
    BY <1>1, <1>2, <1>3, <1>4, <1>5 DEF CreateNext

LEMMA CreateStep == CreateInv /\ [CreateNext]_createVars => CreateInv'
  <1> SUFFICES ASSUME CreateInv, [CreateNext]_createVars PROVE CreateInv'
    OBVIOUS
  <1>1. CreateTypeOK /\ CreateTypeOK'
    BY CreateTypes DEF CreateInv
  <1> SUFFICES ASSUME NEW j \in Creates PROVE (RunningOf(j) /\ GatedOf(j))'
    BY <1>1 DEF CreateInv
  <1>2. RunningOf(j) /\ GatedOf(j)
    BY DEF CreateInv
  <1> USE DEF CreateTypeOK, RunningOf, GatedOf
  <1>3. CASE UNCHANGED createVars
    BY <1>2, <1>3 DEF createVars
  <1>4. CASE SwitchSending
    BY <1>1, <1>2, <1>4 DEF SwitchSending
  <1>5. CASE MoveOriginal
    BY <1>1, <1>2, <1>5 DEF MoveOriginal
  <1>6. ASSUME NEW k \in Creates, Preview(k) \/ ConfirmClaims(k)
        PROVE  (RunningOf(j) /\ GatedOf(j))'
    BY <1>1, <1>2, <1>6 DEF Preview, ConfirmClaims, Ends
  <1>7. ASSUME NEW k \in Creates, Prepare(k) PROVE (RunningOf(j) /\ GatedOf(j))'
    <2>1. CASE PrepareSubmitting(k) /\ (what[k] = "invitation" => sendOn)
      BY <1>1, <1>2, <1>7, <2>1 DEF Prepare, PrepareSubmitting
    <2>2. CASE EndsRaising(k, Own("SEND_DISABLED"))
      BY <1>1, <1>2, <1>7, <2>2, RaisedStatus DEF Prepare, Ends
    <2> QED
      BY <1>1, <1>7, <2>1, <2>2 DEF Prepare, PrepareGated
  <1>8. ASSUME NEW k \in Creates, PrepareFails(k) PROVE (RunningOf(j) /\ GatedOf(j))'
    <2>1. Ends(k, "failed") \/ Ends(k, "unknown")
      BY <1>8, RaisedStatus DEF PrepareFails
    <2> QED
      BY <1>1, <1>2, <1>8, <2>1 DEF PrepareFails, Ends
  <1>9. ASSUME NEW k \in Creates, Submission(k) PROVE (RunningOf(j) /\ GatedOf(j))'
    <2>0. place[k] = "submit" /\ UNCHANGED <<what, sendOn, allowed, original>>
      BY <1>9 DEF Submission
    <2>1. CASE made' = [made EXCEPT ![k] = @ + 1] /\ (Ends(k, "completed") \/ Ends(k, "unknown"))
      BY <1>1, <1>2, <2>0, <2>1 DEF Ends
    <2>2. CASE UNCHANGED made /\ (Ends(k, "failed") \/ Ends(k, "unknown"))
      BY <1>1, <1>2, <2>0, <2>2 DEF Ends
    <2>3. CASE made' = [made EXCEPT ![k] = @ + 1]
               /\ (Ends(k, "completed") \/ Incomplete(k) \/ EndsRaising(k, Wrapped(FALSE)))
      BY <1>1, <2>1, <2>3, RaisedStatus, IncompleteStatus, LostAnswer
    <2>4. CASE UNCHANGED made /\ \E definite \in BOOLEAN : EndsRaising(k, Wrapped(definite))
      BY <2>2, <2>4, RaisedStatus
    <2> QED
      BY <1>9, <2>3, <2>4 DEF Submission
  <1> QED
    BY <1>3, <1>4, <1>5, <1>6, <1>7, <1>8, <1>9 DEF CreateNext

(* The inductive invariant of the creating tools: RunningOf and GatedOf    *)
(* hold of every operation.                                                *)
THEOREM CreateInvariance == CreateSpec => []CreateInv
  <1>1. CreateInit => CreateInv
    BY DEF CreateInit, CreateInv, CreateTypeOK, RunningOf, GatedOf
  <1> QED
    BY <1>1, CreateStep, PTL DEF CreateSpec

(* CreatedOnce: confirming again creates no second item, whatever Exchange *)
(* answered and whatever its receipts lack.                                *)
THEOREM OneItem == CreateSpec => []CreatedOnce
  <1>1. CreateInv => CreatedOnce
    BY DEF CreateInv, RunningOf, CreatedOnce
  <1> QED
    BY <1>1, CreateInvariance, PTL

(* InvitationsGated: an invitation leaves only in a call that saw sending  *)
(* switched on.                                                            *)
THEOREM Gated == CreateSpec => InvitationsGated
  <1>1. ASSUME CreateInv, [CreateNext]_createVars, NEW j \in Creates,
               made'[j] # made[j], what[j] = "invitation"
        PROVE  allowed[j]
    <2>1. CreateTypeOK /\ GatedOf(j)
      BY <1>1 DEF CreateInv
    <2>2. CASE place[j] = "submit"
      BY <1>1, <2>1, <2>2 DEF GatedOf
    <2>3. ASSUME NEW k \in Creates, Submission(k) PROVE k = j
      BY <1>1, <2>1, <2>3 DEF Submission, CreateTypeOK
    <2>4. ASSUME NEW k \in Creates PROVE ~(Preview(k) \/ ConfirmClaims(k) \/ Prepare(k) \/ PrepareFails(k))
      BY <1>1 DEF Preview, ConfirmClaims, Prepare, PrepareFails
    <2>5. ~SwitchSending /\ ~MoveOriginal /\ ~UNCHANGED createVars
      BY <1>1 DEF SwitchSending, MoveOriginal, createVars
    <2> QED
      BY <1>1, <2>2, <2>3, <2>4, <2>5 DEF CreateNext, Submission
  <1>2. CreateInv /\ [CreateNext]_createVars =>
            [\A k \in Creates : made'[k] # made[k] /\ what[k] = "invitation" => allowed[k]]_createVars
    BY <1>1
  <1> QED
    BY <1>2, CreateInvariance, PTL DEF CreateSpec, InvitationsGated

-----------------------------------------------------------------------------
(* TeamDirectories.  The argument: a call works with the one target it     *)
(* resolved when it entered, whatever the administrator does since, and    *)
(* its row carries the identity of that target from the preview on.        *)

(* What a call has resolved, the employee was entitled to since it began.  *)
Granted(o) ==
    /\ at[o] # "idle" => Entitled(by[o], directory) \subseteq granted[o]
    /\ spec[o] # Absent => at[o] # "idle" /\ spec[o] \in granted[o]
    /\ at[o] \in {"claim", "bind", "save", "fetch"} => spec[o] # Absent

(* A claimed row is executed for the target of its preview.                *)
Verified(o) ==
    /\ kind[o] \in {"none", "find"} => row[o] = "none"
    /\ at[o] = "open" => row[o] = "none"
    /\ at[o] \in {"verify", "claim"} => row[o] \in {"pending", "failed"}
    /\ at[o] = "bind" => row[o] \in {"none", "executing"}
    /\ at[o] = "save" <=> row[o] = "executing" /\ at[o] # "bind"
    /\ at[o] = "fetch" => row[o] = "none"
    /\ at[o] = "claim" \/ row[o] = "executing" => spec[o] = previewed[o]

(* Where a contact has been created, and when there is none.               *)
Filed(o) ==
    /\ written[o] # Absent => written[o] = previewed[o]
    /\ row[o] \in {"none", "pending", "executing", "failed"} => written[o] = Absent

DirectoryInv ==
    /\ DirectoryTypeOK
    /\ \A o \in Ops : Granted(o) /\ Verified(o) /\ Filed(o)

-----------------------------------------------------------------------------
LEMMA InitDirectoryInv == DirectoryInit => DirectoryInv
  <1> SUFFICES ASSUME DirectoryInit PROVE DirectoryInv
    OBVIOUS
  <1> USE DirectoryAssumption DEF DirectoryInit
  <1>1. DirectoryTypeOK
    BY DEF DirectoryTypeOK, Directories
  <1>2. ASSUME NEW o \in Ops PROVE Granted(o) /\ Verified(o) /\ Filed(o)
    BY DEF Granted, Verified, Filed
  <1> QED
    BY <1>1, <1>2 DEF DirectoryInv

(* A step of one operation leaves the others as they are.                  *)
LEMMA OtherOps ==
    ASSUME NEW o \in Ops, NEW p \in Ops, DirectoryInv,
           directory' = directory, by' = by,
           at'[p] = at[p], kind'[p] = kind[p], spec'[p] = spec[p], row'[p] = row[p],
           previewed'[p] = previewed[p], written'[p] = written[p],
           granted'[p] = granted[p]
    PROVE  Granted(p)' /\ Verified(p)' /\ Filed(p)'
  BY DEF DirectoryInv, Granted, Verified, Filed, Entitled

LEMMA DirectoryTypes ==
    ASSUME DirectoryTypeOK, [DirectoryNext]_dirVars
    PROVE  DirectoryTypeOK'
  <1> USE DEF DirectoryTypeOK
  <1>1. CASE UNCHANGED dirVars
    BY <1>1 DEF dirVars, calls
  <1>2. ASSUME NEW o \in Ops, NEW k \in {"create", "find"}, Ask(o, k)
        PROVE  DirectoryTypeOK'
    BY <1>2 DEF Ask, BeginCall, Goto, Entitled, Directories
  <1>3. ASSUME NEW o \in Ops, Open(o) PROVE DirectoryTypeOK'
    BY <1>3 DEF Open, Authorized, Goto, EndCall, Directories
  <1>4. ASSUME NEW o \in Ops, Confirm(o) PROVE DirectoryTypeOK'
    BY <1>4 DEF Confirm, BeginCall, Goto, Entitled, Directories
  <1>5. ASSUME NEW o \in Ops, Verify(o) PROVE DirectoryTypeOK'
    BY <1>5 DEF Verify, Authorized, Goto, EndCall, Directories
  <1>6. ASSUME NEW o \in Ops, Claim(o) PROVE DirectoryTypeOK'
    BY <1>6 DEF Claim, Goto, EndCall
  <1>7. ASSUME NEW o \in Ops, Bind(o) PROVE DirectoryTypeOK'
    BY <1>7 DEF Bind, Goto, EndCall
  <1>8. ASSUME NEW o \in Ops, BindFails(o) PROVE DirectoryTypeOK'
    BY <1>8 DEF BindFails, Goto, EndCall
  <1>9. ASSUME NEW o \in Ops, Save(o) PROVE DirectoryTypeOK'
    BY <1>9 DEF Save, SaveOutcomes, Target, Goto, EndCall
  <1>10. ASSUME NEW o \in Ops, Fetch(o) PROVE DirectoryTypeOK'
    BY <1>10 DEF Fetch, Goto, EndCall
  <1>11. CASE Reconfigure
    BY <1>11 DEF Reconfigure, calls, Entitled, Directories
  <1>12. CASE Refile
    BY <1>12 DEF Refile, calls
  <1> QED
    BY <1>1, <1>2, <1>3, <1>4, <1>5, <1>6, <1>7, <1>8, <1>9, <1>10, <1>11,
       <1>12 DEF DirectoryNext

LEMMA NextDirectoryInv ==
    ASSUME DirectoryInv, [DirectoryNext]_dirVars
    PROVE  DirectoryInv'
  <1> USE DirectoryAssumption
  <1> DEFINE Local(o) == Granted(o) /\ Verified(o) /\ Filed(o)
  <1>1. DirectoryTypeOK /\ DirectoryTypeOK'
    BY DirectoryTypes DEF DirectoryInv
  <1> SUFFICES ASSUME NEW p \in Ops PROVE Local(p)'
    BY <1>1 DEF DirectoryInv
  <1> HIDE DEF Local
  <1>2. CASE UNCHANGED dirVars
    BY <1>2 DEF dirVars, calls, DirectoryInv, Local, Granted, Verified, Filed,
                Entitled
  <1>3. ASSUME NEW o \in Ops, NEW k \in {"create", "find"}, Ask(o, k)
        PROVE  Local(p)'
    <2>1. CASE p = o
      BY <1>1, <1>3, <2>1 DEF Ask, BeginCall, Goto, DirectoryInv, DirectoryTypeOK,
         Local, Granted, Verified, Filed, Entitled
    <2>2. CASE p # o
      BY <1>1, <1>3, <2>2, OtherOps DEF Ask, BeginCall, Goto, DirectoryTypeOK, Local
    <2> QED BY <2>1, <2>2
  <1>4. ASSUME NEW o \in Ops, Open(o) PROVE Local(p)'
    <2>1. CASE p = o
      BY <1>1, <1>4, <2>1 DEF Open, Authorized, Goto, EndCall, DirectoryInv,
         DirectoryTypeOK, Directories, Local, Granted, Verified, Filed, Entitled
    <2>2. CASE p # o
      BY <1>1, <1>4, <2>2, OtherOps DEF Open, Goto, EndCall, DirectoryTypeOK, Local
    <2> QED BY <2>1, <2>2
  <1>5. ASSUME NEW o \in Ops, Confirm(o) PROVE Local(p)'
    <2>1. CASE p = o
      BY <1>1, <1>5, <2>1 DEF Confirm, BeginCall, Goto, DirectoryInv,
         DirectoryTypeOK, Local, Granted, Verified, Filed, Entitled
    <2>2. CASE p # o
      BY <1>1, <1>5, <2>2, OtherOps DEF Confirm, BeginCall, Goto, DirectoryTypeOK, Local
    <2> QED BY <2>1, <2>2
  <1>6. ASSUME NEW o \in Ops, Verify(o) PROVE Local(p)'
    <2>1. CASE p = o
      BY <1>1, <1>6, <2>1 DEF Verify, Authorized, SameTarget, Goto, EndCall,
         DirectoryInv, DirectoryTypeOK, Directories, Local, Granted, Verified,
         Filed, Entitled
    <2>2. CASE p # o
      BY <1>1, <1>6, <2>2, OtherOps DEF Verify, Goto, EndCall, DirectoryTypeOK, Local
    <2> QED BY <2>1, <2>2
  <1>7. ASSUME NEW o \in Ops, Claim(o) PROVE Local(p)'
    <2>1. CASE p = o
      BY <1>1, <1>7, <2>1 DEF Claim, Goto, EndCall, DirectoryInv,
         DirectoryTypeOK, Local, Granted, Verified, Filed, Entitled
    <2>2. CASE p # o
      BY <1>1, <1>7, <2>2, OtherOps DEF Claim, Goto, EndCall, DirectoryTypeOK, Local
    <2> QED BY <2>1, <2>2
  <1>8. ASSUME NEW o \in Ops, Bind(o) PROVE Local(p)'
    <2>1. CASE p = o
      BY <1>1, <1>8, <2>1 DEF Bind, Goto, EndCall, DirectoryInv,
         DirectoryTypeOK, Local, Granted, Verified, Filed, Entitled
    <2>2. CASE p # o
      BY <1>1, <1>8, <2>2, OtherOps DEF Bind, Goto, EndCall, DirectoryTypeOK, Local
    <2> QED BY <2>1, <2>2
  <1>9. ASSUME NEW o \in Ops, BindFails(o) PROVE Local(p)'
    <2>1. CASE p = o
      BY <1>1, <1>9, <2>1 DEF BindFails, Goto, EndCall, DirectoryInv,
         DirectoryTypeOK, Local, Granted, Verified, Filed, Entitled
    <2>2. CASE p # o
      BY <1>1, <1>9, <2>2, OtherOps DEF BindFails, Goto, EndCall, DirectoryTypeOK, Local
    <2> QED BY <2>1, <2>2
  <1>10. ASSUME NEW o \in Ops, Save(o) PROVE Local(p)'
    <2>1. CASE p = o
      BY <1>1, <1>10, <2>1 DEF Save, SaveOutcomes, Target, Goto, EndCall,
         DirectoryInv, DirectoryTypeOK, Local, Granted, Verified, Filed, Entitled
    <2>2. CASE p # o
      BY <1>1, <1>10, <2>2, OtherOps DEF Save, Goto, EndCall, DirectoryTypeOK, Local
    <2> QED BY <2>1, <2>2
  <1>11. ASSUME NEW o \in Ops, Fetch(o) PROVE Local(p)'
    <2>1. CASE p = o
      BY <1>1, <1>11, <2>1 DEF Fetch, Goto, EndCall, DirectoryInv,
         DirectoryTypeOK, Local, Granted, Verified, Filed, Entitled
    <2>2. CASE p # o
      BY <1>1, <1>11, <2>2, OtherOps DEF Fetch, Goto, EndCall, DirectoryTypeOK, Local
    <2> QED BY <2>1, <2>2
  <1>12. CASE Reconfigure
    BY <1>1, <1>12 DEF Reconfigure, calls, DirectoryInv, Local, Granted,
       Verified, Filed
  <1>13. CASE Refile
    BY <1>1, <1>13 DEF Refile, calls, DirectoryInv, Local, Granted, Verified,
       Filed, Entitled
  <1> QED
    BY <1>2, <1>3, <1>4, <1>5, <1>6, <1>7, <1>8, <1>9, <1>10, <1>11, <1>12,
       <1>13 DEF DirectoryNext

-----------------------------------------------------------------------------
(* The inductive invariant holds: whatever the administrator does, a call  *)
(* works with the one target it resolved and was entitled to.              *)
THEOREM DirectoryInvariance == DirectorySpec => []DirectoryInv
  <1>1. DirectoryInit => DirectoryInv
    BY InitDirectoryInv
  <1>2. DirectoryInv /\ [DirectoryNext]_dirVars => DirectoryInv'
    BY NextDirectoryInv
  <1> QED
    BY <1>1, <1>2, PTL DEF DirectorySpec

(* Type correctness, and no call ends holding a target.                    *)
THEOREM DirectoryTypeCorrect == DirectorySpec => []DirectoryTypeOK
  <1>1. DirectoryInv => DirectoryTypeOK
    BY DEF DirectoryInv
  <1> QED
    BY <1>1, DirectoryInvariance, PTL

(* A contact is created in the target of its preview and nowhere else.     *)
THEOREM FiledAsPreviewed == DirectorySpec => []ContactGoesWherePreviewed
  <1>1. DirectoryInv => ContactGoesWherePreviewed
    BY DEF DirectoryInv, Filed, ContactGoesWherePreviewed
  <1> QED
    BY <1>1, DirectoryInvariance, PTL

(* A row that may be confirmed again created no contact.                   *)
THEOREM ClaimableIsClean == DirectorySpec => []ClaimableRowsWroteNothing
  <1>1. DirectoryInv => ClaimableRowsWroteNothing
    BY DEF DirectoryInv, Filed, ClaimableRowsWroteNothing
  <1> QED
    BY <1>1, DirectoryInvariance, PTL

(* Contacts are created and read only by members, in the target that the   *)
(* directory had during the call.                                          *)
THEOREM OnlyMembers == DirectorySpec => AccessGranted
  <1> DEFINE Access == \A o \in Ops :
                 /\ written'[o] # written[o] => written'[o] \in granted[o]
                 /\ disclosed'[o] # disclosed[o] => disclosed'[o] \in granted[o]
  <1>1. ASSUME DirectoryInv, DirectoryNext PROVE Access
    <2> SUFFICES ASSUME NEW p \in Ops
                 PROVE  /\ written'[p] # written[p] => written'[p] \in granted[p]
                        /\ disclosed'[p] # disclosed[p] => disclosed'[p] \in granted[p]
      OBVIOUS
    <2> USE DEF DirectoryInv, DirectoryTypeOK, Granted
    <2>1. ASSUME NEW o \in Ops, Save(o) PROVE Access
      BY <1>1, <2>1 DEF Save, Target
    <2>2. ASSUME NEW o \in Ops, Fetch(o) PROVE Access
      BY <1>1, <2>2 DEF Fetch
    <2>3. CASE UNCHANGED <<written, disclosed>>
      BY <2>3
    <2> QED
      BY <1>1, <2>1, <2>2, <2>3 DEF DirectoryNext, Ask, Open, Confirm, Verify,
         Claim, Bind, BindFails, Reconfigure, Refile, calls
  <1>2. DirectoryInv /\ [DirectoryNext]_dirVars => [Access]_dirVars
    BY <1>1
  <1> QED
    BY <1>2, DirectoryInvariance, PTL DEF DirectorySpec, AccessGranted

-----------------------------------------------------------------------------
(* ToolRequests.  The argument: the flag _AUDIT_EMITTED agrees with the    *)
(* records of the call at every point where the fallback or the middleware *)
(* reads it, and assurance is what a thread of the call has established.   *)

(* The flag says what the list of records says.                            *)
Flagged(c) ==
    /\ Len(records[c]) = IF stage[c] \in {"audited", "ended"} THEN 1 ELSE 0
    /\ emitted[c] <=> stage[c] = "audited"

(* The thread lives inside the wait of its task.                           *)
Nested(c) ==
    /\ stage[c] \in {"new", "handler", "queued"} => thread[c] = "none" /\ ~touched[c]
    /\ stage[c] \in {"audited", "ended"} => thread[c] \in {"none", "done"}
    /\ thread[c] \in {"none", "identity"} => ~touched[c]

Matched(a) ==
    a.usable /\ a.contacts = <<RequesterContact>>

(* A thread is past the identity only with a match, and leaves it so.      *)
Attributed(c) ==
    /\ thread[c] = "tool" \/ touched[c] =>
          assurance[c] = "oa_name_match" /\ \E a \in answer[c] : Matched(a)
    /\ touched[c] =>
          /\ outcome[c] # "identity"
          /\ \A i \in DOMAIN records[c] :
                records[c][i].assurance = "oa_name_match" /\ records[c][i].status # "rejected"

(* From the thread's result over the record to the reply.                  *)
Consistent(c) ==
    /\ stage[c] \in {"new", "handler", "queued"} \/ thread[c] \in {"identity", "tool"} =>
          outcome[c] = "none"
    /\ stage[c] = "waiting" /\ thread[c] = "done" => outcome[c] \in ToolResults
    /\ stage[c] = "audited" =>
          /\ outcome[c] # "none"
          /\ records[c][1].status = MiddlewareStatus(outcome[c])
    /\ outcome[c] = "cancelled" => cancelled[c]
    /\ stage[c] # "ended" => reply[c] = "none"
    /\ reply[c] \in {"result", "error"} =>
          (records[c][1].status = "success") =
              (reply[c] = "result" /\ outcome[c] # "executing")

RequestInv ==
    /\ RequestTypeOK
    /\ \A c \in Calls : Flagged(c) /\ Nested(c) /\ Attributed(c) /\ Consistent(c)

-----------------------------------------------------------------------------
(* A matched identity is one usable contact.                               *)
LEMMA MatchedIdentity ==
    ASSUME NEW a \in OAAnswers, Identity(a) = "oa_name_match" PROVE Matched(a)
  <1>1. /\ a.usable /\ Len(a.contacts) = 1 /\ a.contacts[1].isDict
        /\ a.contacts[1].name = "requester" /\ a.contacts[1].mail = "valid"
    BY DEF Identity
  <1>2. a.contacts \in Seq(Contact)
    BY OAAnswersAssumption
  <1>3. a.contacts[1] \in Contact
    BY <1>1, <1>2
  <1>4. a.contacts[1] = RequesterContact
    BY <1>1, <1>3 DEF Contact, RequesterContact
  <1>5. a.contacts = <<a.contacts[1]>>
    BY <1>1, <1>2
  <1> QED
    BY <1>1, <1>4, <1>5 DEF Matched

LEMMA Statuses ==
    ASSUME NEW o \in Outcomes
    PROVE  /\ MiddlewareStatus(o) \in AuditStatuses /\ FallbackStatus(o) \in AuditStatuses
           /\ MiddlewareStatus(o) = "rejected" => o = "identity"
           /\ MiddlewareStatus(o) = "success" <=> o = "ok"
           /\ o \in {"toolError", "raised"} => FallbackStatus(o) # "success"
           /\ Envelope(o) \in {"result", "error"}
           /\ o = "ok" => Envelope(o) = "result"
           /\ o # "none" /\ o # "cancelled" /\ Envelope(o) = "result" => o \in {"ok", "executing"}
  BY DEF MiddlewareStatus, FallbackStatus, _classify_result, AuditStatuses, Envelope,
         Outcomes, ToolResults

(* An emission adds one record to its call and none to another.            *)
LEMMA Emission ==
    ASSUME RequestTypeOK, NEW c \in Calls,
           NEW status \in AuditStatuses, NEW level \in Assurances,
           Emit(c, status, level)
    PROVE  /\ records' \in [Calls -> Seq(AuditRecord)]
           /\ \A d \in Calls : d # c => records'[d] = records[d]
           /\ Len(records[c]) = 0 =>
                 records'[c] = <<[status |-> status, assurance |-> level]>>
  <1> DEFINE r == [status |-> status, assurance |-> level]
  <1>1. r \in AuditRecord
    BY DEF AuditRecord
  <1>2. records \in [Calls -> Seq(AuditRecord)]
    BY DEF RequestTypeOK
  <1>3. records' = [records EXCEPT ![c] = Append(@, r)]
    BY DEF Emit
  <1> HIDE DEF r
  <1>4. Append(records[c], r) \in Seq(AuditRecord)
    BY <1>1, <1>2
  <1>5. records' \in [Calls -> Seq(AuditRecord)]
    BY <1>2, <1>3, <1>4
  <1>6. ASSUME Len(records[c]) = 0 PROVE records'[c] = <<r>>
    <2>1. records[c] = <<>>
      BY <1>2, <1>6
    <2>2. Append(<<>>, r) = <<r>>
      OBVIOUS
    <2> QED
      BY <1>2, <1>3, <2>1, <2>2
  <1> QED
    BY <1>2, <1>3, <1>5, <1>6 DEF r

LEMMA InitRequestInv == RequestInit => RequestInv
  <1> SUFFICES ASSUME RequestInit PROVE RequestInv
    OBVIOUS
  <1> USE DEF RequestInit
  <1>1. RequestTypeOK
    BY DEF RequestTypeOK, Assurances, Outcomes
  <1>2. ASSUME NEW c \in Calls
        PROVE  Flagged(c) /\ Nested(c) /\ Attributed(c) /\ Consistent(c)
    BY DEF Flagged, Nested, Attributed, Consistent
  <1> QED
    BY <1>1, <1>2 DEF RequestInv

(* A step of one call leaves the others as they are.                       *)
LEMMA OtherCalls ==
    ASSUME NEW d \in Calls, RequestInv,
           stage'[d] = stage[d], thread'[d] = thread[d], cancelled'[d] = cancelled[d],
           emitted'[d] = emitted[d], assurance'[d] = assurance[d], answer'[d] = answer[d],
           touched'[d] = touched[d], outcome'[d] = outcome[d], records'[d] = records[d],
           reply'[d] = reply[d]
    PROVE  Flagged(d)' /\ Nested(d)' /\ Attributed(d)' /\ Consistent(d)'
  BY DEF RequestInv, Flagged, Nested, Attributed, Consistent

-----------------------------------------------------------------------------
(* The middleware's finally, from wherever the call comes.                 *)
LEMMA MiddlewareStep ==
    ASSUME RequestInv, NEW c \in Calls, NEW o \in Outcomes \ {"none"},
           stage[c] \in {"handler", "queued", "waiting"},
           stage[c] = "waiting" => thread[c] = "done",
           o = "identity" => ~touched[c],
           o = "cancelled" => cancelled[c],
           LeaveMiddleware(c, o),
           UNCHANGED <<thread, cancelled, assurance, answer, touched, reply>>
    PROVE  RequestInv'
  <1> DEFINE r == [status |-> MiddlewareStatus(o), assurance |-> assurance[c]]
  <1> USE DEF LeaveMiddleware, FlagOf
  <1>1. RequestTypeOK /\ Flagged(c) /\ Nested(c) /\ Attributed(c) /\ Consistent(c)
    BY DEF RequestInv
  <1>2. o \in Outcomes /\ assurance[c] \in Assurances /\ Len(records[c]) = 0
    BY <1>1 DEF RequestTypeOK, Flagged
  <1>3. /\ records' \in [Calls -> Seq(AuditRecord)]
        /\ \A d \in Calls : d # c => records'[d] = records[d]
        /\ records'[c] = <<r>>
    BY <1>1, <1>2, Statuses, Emission
  <1>4. Len(<<r>>) = 1 /\ DOMAIN <<r>> = {1} /\ <<r>>[1] = r
    OBVIOUS
  <1>5. RequestTypeOK'
    BY <1>1, <1>3 DEF RequestTypeOK
  <1>6. /\ stage'[c] = "audited" /\ emitted'[c] = TRUE /\ outcome'[c] = o
        /\ \A d \in Calls : d # c => /\ stage'[d] = stage[d] /\ emitted'[d] = emitted[d]
                                    /\ outcome'[d] = outcome[d]
    BY <1>1 DEF RequestTypeOK
  <1>7. Flagged(c)'
    BY <1>3, <1>4, <1>6 DEF Flagged
  <1>8. Nested(c)'
    BY <1>1, <1>6 DEF Nested
  <1>9. Attributed(c)'
    BY <1>1, <1>3, <1>4, <1>6, Statuses DEF Attributed
  <1>10. Consistent(c)'
    BY <1>1, <1>3, <1>4, <1>6 DEF Consistent, Nested
  <1>11. ASSUME NEW d \in Calls
         PROVE  (Flagged(d) /\ Nested(d) /\ Attributed(d) /\ Consistent(d))'
    <2>1. CASE d = c
      BY <2>1, <1>7, <1>8, <1>9, <1>10
    <2>2. CASE d # c
      BY <2>2, <1>3, <1>6, OtherCalls
    <2> QED
      BY <2>1, <2>2
  <1> QED
    BY <1>5, <1>11 DEF RequestInv

(* The handler's finally and the answer, after the middleware or without   *)
(* it.                                                                     *)
LEMMA HandlerStep ==
    ASSUME RequestInv, NEW c \in Calls, NEW o \in Outcomes,
           stage[c] \in {"handler", "audited"},
           o = "cancelled" => cancelled[c],
           stage[c] = "handler" => o \in {"toolError", "raised", "cancelled"},
           stage[c] = "audited" => o \in {outcome[c], "cancelled"},
           LeaveHandler(c, o),
           UNCHANGED <<thread, cancelled, assurance, answer, touched>>
    PROVE  RequestInv'
  <1> DEFINE r == [status |-> FallbackStatus(o), assurance |-> "not_verified"]
  <1> USE DEF LeaveHandler, FlagOf
  <1>1. RequestTypeOK /\ Flagged(c) /\ Nested(c) /\ Attributed(c) /\ Consistent(c)
    BY DEF RequestInv
  <1>2. /\ stage'[c] = "ended" /\ emitted'[c] = FALSE /\ outcome'[c] = o
        /\ reply'[c] = IF cancelled[c] THEN "cancelled" ELSE Envelope(o)
        /\ \A d \in Calls : d # c => /\ stage'[d] = stage[d] /\ emitted'[d] = emitted[d]
                                    /\ outcome'[d] = outcome[d] /\ reply'[d] = reply[d]
    BY <1>1 DEF RequestTypeOK
  <1>3. CASE stage[c] = "handler"
    <2>1. ~emitted[c] /\ Len(records[c]) = 0 /\ "not_verified" \in Assurances
      BY <1>1, <1>3 DEF Flagged, Assurances
    <2>2. /\ records' \in [Calls -> Seq(AuditRecord)]
          /\ \A d \in Calls : d # c => records'[d] = records[d]
          /\ records'[c] = <<r>>
      BY <1>1, <2>1, Statuses, Emission
    <2>3. Len(<<r>>) = 1 /\ <<r>>[1].status = FallbackStatus(o)
      OBVIOUS
    <2>4. RequestTypeOK'
      BY <1>1, <2>2, Statuses DEF RequestTypeOK
    <2>5. Flagged(c)'
      BY <1>2, <2>2, <2>3 DEF Flagged
    <2>6. Nested(c)' /\ Attributed(c)'
      BY <1>1, <1>2, <1>3 DEF Nested, Attributed
    <2>7. Consistent(c)'
      BY <1>1, <1>2, <1>3, <2>2, <2>3, Statuses DEF Consistent, Nested, Outcomes, ToolResults, Envelope
    <2>8. ASSUME NEW d \in Calls, d # c
          PROVE  (Flagged(d) /\ Nested(d) /\ Attributed(d) /\ Consistent(d))'
      BY <2>8, <1>2, <2>2, OtherCalls
    <2> QED
      BY <2>4, <2>5, <2>6, <2>7, <2>8 DEF RequestInv
  <1>4. CASE stage[c] = "audited"
    <2>1. emitted[c] /\ records' = records
      BY <1>1, <1>4 DEF Flagged
    <2>2. RequestTypeOK'
      BY <1>1, <2>1, Statuses DEF RequestTypeOK
    <2>3. Flagged(c)'
      BY <1>1, <1>2, <1>4, <2>1 DEF Flagged
    <2>4. Nested(c)' /\ Attributed(c)'
      BY <1>1, <1>2, <1>4, <2>1 DEF Nested, Attributed
    <2>5. Consistent(c)'
      <3>1. reply'[c] \in {"result", "error"} => /\ ~cancelled[c] /\ o = outcome[c]
                                                /\ reply'[c] = Envelope(o)
        BY <1>2, <1>4, Statuses
      <3>2. records[c][1].status = MiddlewareStatus(outcome[c]) /\ outcome[c] # "none"
        BY <1>1, <1>4 DEF Consistent
      <3>3. reply'[c] \in {"result", "error"} =>
               (records[c][1].status = "success") =
                   (reply'[c] = "result" /\ o # "executing")
        BY <1>1, <3>1, <3>2, Statuses DEF Consistent
      <3> QED
        BY <1>1, <1>2, <1>4, <2>1, <3>3 DEF Consistent, Nested
    <2>6. ASSUME NEW d \in Calls, d # c
          PROVE  (Flagged(d) /\ Nested(d) /\ Attributed(d) /\ Consistent(d))'
      BY <2>6, <1>2, <2>1, OtherCalls
    <2> QED
      BY <2>2, <2>3, <2>4, <2>5, <2>6 DEF RequestInv
  <1> QED
    BY <1>3, <1>4

-----------------------------------------------------------------------------
(* The steps that make no record.                                          *)
LEMMA SilentStep ==
    ASSUME RequestInv, NEW c \in Calls,
           Begin(c) \/ Admit(c) \/ Cancel(c) \/ StartThread(c)
    PROVE  RequestInv'
  <1>1. RequestTypeOK /\ Flagged(c) /\ Nested(c) /\ Attributed(c) /\ Consistent(c)
    BY DEF RequestInv
  <1> USE DEF FlagOf
  <1>2. RequestTypeOK'
    BY <1>1 DEF RequestTypeOK, Begin, Admit, Cancel, StartThread
  <1>3. Flagged(c)' /\ Nested(c)'
    BY <1>1 DEF RequestTypeOK, Begin, Admit, Cancel, StartThread, Flagged, Nested
  <1>4. Attributed(c)'
    BY <1>1 DEF RequestTypeOK, Begin, Admit, Cancel, StartThread, Attributed, Nested
  <1>5. Consistent(c)'
    BY <1>1 DEF RequestTypeOK, Begin, Admit, Cancel, StartThread, Consistent
  <1>6. ASSUME NEW d \in Calls, d # c
        PROVE  (Flagged(d) /\ Nested(d) /\ Attributed(d) /\ Consistent(d))'
    BY <1>1, <1>6, OtherCalls DEF RequestTypeOK, Begin, Admit, Cancel, StartThread
  <1> QED
    BY <1>2, <1>3, <1>4, <1>5, <1>6 DEF RequestInv

(* The steps of a thread; its task waits.                                  *)
LEMMA ThreadStep ==
    ASSUME RequestInv, NEW c \in Calls,
           Resolve(c) \/ WorkInMailbox(c) \/ FinishTool(c)
    PROVE  RequestInv'
  <1>1. RequestTypeOK /\ Flagged(c) /\ Nested(c) /\ Attributed(c) /\ Consistent(c)
    BY DEF RequestInv
  <1>2. stage[c] = "waiting" /\ Len(records[c]) = 0 /\ records[c] = <<>>
    <2>1. thread[c] \notin {"none", "done"}
      BY DEF Resolve, WorkInMailbox, FinishTool
    <2>2. stage[c] = "waiting"
      BY <1>1, <2>1 DEF RequestTypeOK, Nested
    <2>3. Len(records[c]) = 0
      BY <1>1, <2>2 DEF Flagged
    <2> QED
      BY <1>1, <2>2, <2>3 DEF RequestTypeOK
  <1>3. UNCHANGED <<stage, cancelled, emitted, records, reply>>
    BY DEF Resolve, WorkInMailbox, FinishTool
  <1>4. CASE Resolve(c)
    <2>0. PICK level \in Assurances :
            /\ \/ level \in RefusedUnasked /\ UNCHANGED answer
               \/ \E a \in OAAnswers : /\ level = Identity(a)
                                       /\ answer' = [answer EXCEPT ![c] = {a}]
            /\ assurance' = [assurance EXCEPT ![c] = level]
            /\ IF level = "oa_name_match"
               THEN thread' = [thread EXCEPT ![c] = "tool"] /\ UNCHANGED outcome
               ELSE /\ thread' = [thread EXCEPT ![c] = "done"]
                    /\ outcome' = [outcome EXCEPT ![c] =
                          IF level = "not_verified" THEN "failed" ELSE "identity"]
      BY <1>4 DEF Resolve
    <2>1. PICK as \in SUBSET OAAnswers :
            /\ answer' = [answer EXCEPT ![c] = as]
            /\ level = "oa_name_match" => \E a \in as : Matched(a)
      <3>1. CASE level \in RefusedUnasked /\ UNCHANGED answer
        BY <1>1, <3>1 DEF RequestTypeOK, RefusedUnasked
      <3>2. CASE \E a \in OAAnswers : /\ level = Identity(a)
                                      /\ answer' = [answer EXCEPT ![c] = {a}]
        <4>1. PICK a \in OAAnswers : /\ level = Identity(a)
                                     /\ answer' = [answer EXCEPT ![c] = {a}]
          BY <3>2
        <4> QED
          BY <4>1, MatchedIdentity
      <3> QED
        BY <2>0, <3>1, <3>2
    <2>2. touched' = touched /\ thread[c] = "identity" /\ ~touched[c]
      BY <1>1, <1>4 DEF Resolve, Nested
    <2>3. RequestTypeOK'
      BY <1>1, <1>3, <2>0, <2>1, <2>2 DEF RequestTypeOK, Outcomes, ToolResults
    <2>4. Flagged(c)' /\ Nested(c)'
      BY <1>1, <1>2, <1>3, <2>0, <2>1, <2>2 DEF RequestTypeOK, Flagged, Nested
    <2>5. Attributed(c)'
      BY <1>1, <1>3, <2>0, <2>1, <2>2 DEF RequestTypeOK, Attributed
    <2>6. Consistent(c)'
      BY <1>1, <1>2, <1>3, <2>0, <2>1, <2>2 DEF RequestTypeOK, Consistent, ToolResults
    <2>7. ASSUME NEW d \in Calls, d # c
          PROVE  (Flagged(d) /\ Nested(d) /\ Attributed(d) /\ Consistent(d))'
      <3>1. /\ answer'[d] = answer[d] /\ assurance'[d] = assurance[d]
            /\ thread'[d] = thread[d] /\ outcome'[d] = outcome[d]
        BY <1>1, <2>0, <2>1, <2>7 DEF RequestTypeOK
      <3> QED
        BY <1>3, <2>2, <3>1, OtherCalls
    <2> QED
      BY <2>3, <2>4, <2>5, <2>6, <2>7 DEF RequestInv
  <1>5. CASE WorkInMailbox(c) \/ FinishTool(c)
    <2>1. UNCHANGED <<assurance, answer>> /\ thread[c] = "tool"
      BY <1>5 DEF WorkInMailbox, FinishTool
    <2>2. RequestTypeOK'
      BY <1>1, <1>5 DEF RequestTypeOK, WorkInMailbox, FinishTool, Outcomes, ToolResults
    <2>3. Flagged(c)' /\ Nested(c)'
      BY <1>1, <1>2, <1>3, <1>5 DEF RequestTypeOK, WorkInMailbox, FinishTool, Flagged, Nested
    <2>4. Attributed(c)'
      <3>1. outcome'[c] # "identity" \/ ~touched'[c]
        BY <1>1, <1>5 DEF RequestTypeOK, WorkInMailbox, FinishTool, Consistent, ToolResults
      <3>2. DOMAIN records'[c] = {}
        BY <1>2, <1>3
      <3> QED
        BY <1>1, <2>1, <3>1, <3>2 DEF Attributed
    <2>5. Consistent(c)'
      BY <1>1, <1>2, <1>3, <1>5
         DEF RequestTypeOK, WorkInMailbox, FinishTool, Consistent, ToolResults
    <2>6. ASSUME NEW d \in Calls, d # c
          PROVE  (Flagged(d) /\ Nested(d) /\ Attributed(d) /\ Consistent(d))'
      BY <1>1, <1>3, <1>5, <2>1, <2>6, OtherCalls DEF RequestTypeOK, WorkInMailbox, FinishTool
    <2> QED
      BY <2>2, <2>3, <2>4, <2>5, <2>6 DEF RequestInv
  <1> QED
    BY <1>4, <1>5

-----------------------------------------------------------------------------
LEMMA NextRequestInv == RequestInv /\ [RequestNext]_reqVars => RequestInv'
  <1> SUFFICES ASSUME RequestInv, [RequestNext]_reqVars PROVE RequestInv'
    OBVIOUS
  <1>1. RequestTypeOK
    BY DEF RequestInv
  <1>2. ASSUME NEW c \in Calls, Begin(c) \/ Admit(c) \/ Cancel(c) \/ StartThread(c)
        PROVE  RequestInv'
    BY <1>2, SilentStep
  <1>3. ASSUME NEW c \in Calls, Resolve(c) \/ WorkInMailbox(c) \/ FinishTool(c)
        PROVE  RequestInv'
    BY <1>3, ThreadStep
  <1>4. ASSUME NEW c \in Calls, EndEarly(c) PROVE RequestInv'
    <2>1. PICK o \in CancelledOr(c, {"toolError", "raised"}) : LeaveHandler(c, o)
      BY <1>4 DEF EndEarly
    <2>2. o \in Outcomes /\ o \in {"toolError", "raised", "cancelled"}
             /\ (o = "cancelled" => cancelled[c])
      BY DEF CancelledOr, Outcomes
    <2>3. stage[c] = "handler" /\ UNCHANGED <<thread, cancelled, assurance, answer, touched>>
      BY <1>4 DEF EndEarly
    <2> QED
      BY <2>1, <2>2, <2>3, HandlerStep
  <1>5. ASSUME NEW c \in Calls, Return(c) PROVE RequestInv'
    <2>1. PICK o \in CancelledOr(c, {outcome[c]}) : LeaveHandler(c, o)
      BY <1>5 DEF Return
    <2>2. Consistent(c)
      BY DEF RequestInv
    <2>3. o \in Outcomes /\ o \in {outcome[c], "cancelled"} /\ (o = "cancelled" => cancelled[c])
      BY <1>1, <2>2 DEF CancelledOr, Outcomes, RequestTypeOK, Consistent
    <2>4. stage[c] = "audited" /\ UNCHANGED <<thread, cancelled, assurance, answer, touched>>
      BY <1>5 DEF Return
    <2> QED
      BY <2>1, <2>3, <2>4, HandlerStep
  <1>6. ASSUME NEW c \in Calls, Refuse(c) PROVE RequestInv'
    <2>1. "failed" \in Outcomes \ {"none"}
      BY DEF Outcomes, ToolResults
    <2> QED
      BY <1>6, <2>1, MiddlewareStep DEF Refuse
  <1>7. ASSUME NEW c \in Calls, LeaveQueue(c) PROVE RequestInv'
    <2>1. "cancelled" \in Outcomes \ {"none"}
      BY DEF Outcomes
    <2> QED
      BY <1>7, <2>1, MiddlewareStep DEF LeaveQueue
  <1>8. ASSUME NEW c \in Calls, Resume(c) PROVE RequestInv'
    <2>1. PICK o \in CancelledOr(c, {outcome[c], "raised"}) : LeaveMiddleware(c, o)
      BY <1>8 DEF Resume
    <2>2. stage[c] = "waiting" /\ thread[c] = "done" /\ Attributed(c) /\ Consistent(c)
             /\ UNCHANGED <<thread, cancelled, assurance, answer, touched, reply>>
      BY <1>8 DEF Resume, WaitOver, RequestInv
    <2>3. /\ o \in Outcomes \ {"none"} /\ (o = "cancelled" => cancelled[c])
          /\ o = "identity" => ~touched[c]
      BY <2>2 DEF CancelledOr, Outcomes, ToolResults, Consistent, Attributed
    <2> QED
      BY <2>1, <2>2, <2>3, MiddlewareStep
  <1>9. CASE UNCHANGED reqVars
    <2>1. RequestTypeOK'
      BY <1>1, <1>9 DEF reqVars, RequestTypeOK
    <2>2. ASSUME NEW d \in Calls
          PROVE  (Flagged(d) /\ Nested(d) /\ Attributed(d) /\ Consistent(d))'
      BY <1>9, OtherCalls DEF reqVars
    <2> QED
      BY <2>1, <2>2 DEF RequestInv
  <1> QED
    BY <1>2, <1>3, <1>4, <1>5, <1>6, <1>7, <1>8, <1>9 DEF RequestNext, Proceed

(* The inductive invariant holds of every behaviour.                       *)
THEOREM RequestInvariance == RequestSpec => []RequestInv
  BY InitRequestInv, NextRequestInv, PTL DEF RequestSpec

(* Every variable keeps its type, for any calls, tokens and answers.       *)
THEOREM RequestTypeCorrect == RequestSpec => []RequestTypeOK
  <1>1. RequestInv => RequestTypeOK
    BY DEF RequestInv
  <1> QED
    BY <1>1, RequestInvariance, PTL

(* One audit record per call, from _emit_audit_record in the middleware or *)
(* in the fallback, never in both and never in neither.                    *)
THEOREM OneRecord == RequestSpec => []AuditedOnce
  <1>1. RequestInv => AuditedOnce
    BY DEF RequestInv, Flagged, AuditedOnce
  <1> QED
    BY <1>1, RequestInvariance, PTL

(* Work in a mailbox is recorded under a matched identity.                 *)
THEOREM WorkAttributed == RequestSpec => []WorkIsAttributed
  <1>1. RequestInv => WorkIsAttributed
    BY DEF RequestInv, Attributed, Matched, WorkIsAttributed
  <1> QED
    BY <1>1, RequestInvariance, PTL

(* The audit status and the client's isError tell the same story.          *)
THEOREM RecordAndReply == RequestSpec => []RecordMatchesReply
  <1>1. RequestInv => RecordMatchesReply
    BY DEF RequestInv, Consistent, RecordMatchesReply
  <1> QED
    BY <1>1, RequestInvariance, PTL

(* A thread does nothing after the record of its call: only a task whose   *)
(* thread has ended leaves the wait.                                       *)
THEOREM RecordCloses == RequestSpec => NothingAfterRecord
  <1>1. ASSUME RequestInv, [RequestNext]_reqVars, NEW c \in Calls, records[c] # <<>>
        PROVE  UNCHANGED <<thread[c], touched[c], assurance[c]>>
    <2>1. RequestTypeOK /\ Flagged(c) /\ Nested(c)
      BY <1>1 DEF RequestInv
    <2>2. Len(records[c]) # 0
      BY <1>1, <2>1 DEF RequestTypeOK
    <2>3. stage[c] \in {"audited", "ended"} /\ thread[c] \in {"none", "done"}
      BY <2>1, <2>2 DEF Flagged, Nested
    <2>4. CASE UNCHANGED reqVars
      BY <2>4 DEF reqVars
    <2>5. ASSUME NEW d \in Calls, StartThread(d) \/ Resolve(d) \/ WorkInMailbox(d) \/ FinishTool(d)
          PROVE  UNCHANGED <<thread[c], touched[c], assurance[c]>>
      <3>1. d # c
        BY <2>3, <2>5 DEF StartThread, Resolve, WorkInMailbox, FinishTool
      <3> QED
        BY <2>1, <2>5, <3>1
           DEF StartThread, Resolve, WorkInMailbox, FinishTool, RequestTypeOK
    <2>6. ASSUME NEW d \in Calls,
                 Begin(d) \/ Cancel(d) \/ EndEarly(d) \/ Refuse(d) \/ Admit(d)
                     \/ LeaveQueue(d) \/ Resume(d) \/ Return(d)
          PROVE  UNCHANGED <<thread[c], touched[c], assurance[c]>>
      BY <2>6 DEF Begin, Cancel, EndEarly, Refuse, Admit, LeaveQueue, Resume, Return
    <2> QED
      BY <1>1, <2>4, <2>5, <2>6 DEF RequestNext, Proceed
  <1>2. RequestInv /\ [RequestNext]_reqVars =>
            [\A c \in Calls : records[c] # <<>> =>
                UNCHANGED <<thread[c], touched[c], assurance[c]>>]_reqVars
    BY <1>1
  <1> QED
    BY <1>2, RequestInvariance, PTL DEF RequestSpec, NothingAfterRecord
=============================================================================
