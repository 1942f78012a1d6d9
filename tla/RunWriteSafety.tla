--------------------------- MODULE RunWriteSafety ---------------------------
(***************************************************************************)
(* The type and safety theorems of RunWrite, for any number of operations, *)
(* threads, tools, mailboxes, keys and items.  Type correctness comes      *)
(* first, one step per action.  For the rest, the steps of Next fall into  *)
(* six kinds, by what they do to the rows, the ledger and the running      *)
(* threads; there is one lemma for each kind.                              *)
(***************************************************************************)
EXTENDS RunWriteInvariant, FiniteSetTheorems, TLAPS

-----------------------------------------------------------------------------
(* Type correctness.                                                       *)

LEMMA InitTypeInv == Init => TypeInv
  <1> SUFFICES ASSUME Init PROVE TypeInv
    OBVIOUS
  <1> USE RunAssumption, ScopeAssumption DEF Init, StoreInit
  <1>1. StoreTypeOK
    BY DEF StoreTypeOK, Results, NoResult
  <1>2. ThreadTypeOK
    BY DEF ThreadTypeOK, PCs, Asks, NoAsk, NoWork, Works, Results, NoResult
  <1>3. reply \in Replies
    BY DEF Replies, NoReply
  <1>4. applied \in [Ops -> [Items -> 0..MaxApplied]]
    OBVIOUS
  <1> QED
    BY <1>1, <1>2, <1>3, <1>4 DEF TypeInv, TypeOK, Bound

(* Answering keeps the types of the thread's variables.                    *)
LEMMA AnswerTypes ==
    ASSUME NEW r \in Reqs, NEW a \in Replies, ThreadTypeOK, Bound, Answer(r, a),
           UNCHANGED storeVars
    PROVE  ThreadTypeOK' /\ reply' \in Replies /\ Bound'
  <1> USE DEF ThreadTypeOK, Answer
  <1>1. ThreadTypeOK'
    BY DEF PCs, Asks, NoAsk, NoWork, Works, Results, NoResult
  <1>2. Bound'
    BY DEF Bound, Rows, storeVars
  <1> QED
    BY <1>1, <1>2

(* A thread that only moves on, with its target and work unchanged or of   *)
(* the right kind, keeps the types as well.                                *)
LEMMA GoToTypes ==
    ASSUME NEW r \in Reqs, NEW where \in PCs, TypeInv, GoTo(r, where)
    PROVE  pc' \in [Reqs -> PCs] /\ reply' \in Replies
  BY DEF TypeInv, TypeOK, ThreadTypeOK, GoTo, Replies, NoReply

LEMMA AnswersAreReplies ==
    /\ Failure \in Replies
    /\ \A o \in Ops : PreviewOf(o) \in Replies
    /\ StoreTypeOK => \A o \in Rows : Receipt(o) \in Replies
  <1>1. Failure \in Replies /\ \A o \in Ops : PreviewOf(o) \in Replies
    BY DEF Failure, PreviewOf, Replies, Statuses
  <1>2. ASSUME StoreTypeOK, NEW o \in Rows PROVE Receipt(o) \in Replies
    <2>1. o \in Ops /\ status[o] \in Statuses
      BY <1>2 DEF Rows, StoreTypeOK
    <2>2. Verdict(o) \in {"ok", "rejected", "ambiguous", "BATCH_FAILED",
                          "BATCH_PARTIAL_FAILURE", "OPERATION_UNKNOWN"}
      BY DEF Verdict
    <2> QED
      BY <2>1, <2>2 DEF Receipt, Replies
  <1> QED
    BY <1>1, <1>2

(* The tuple of everything a call leaves alone.                            *)
LEMMA AnsweredStep ==
    ASSUME NEW r \in Reqs, NEW a \in Replies, TypeInv, Answer(r, a),
           UNCHANGED <<storeVars, expired, applied, interrupted>>
    PROVE  TypeInv'
  <1>1. ThreadTypeOK' /\ reply' \in Replies /\ Bound'
    BY AnswerTypes DEF TypeInv, TypeOK
  <1>2. StoreTypeOK' /\ (expired \subseteq Ops)'
        /\ (applied \in [Ops -> [Items -> 0..MaxApplied]])'
        /\ (interrupted \subseteq Ops)'
    BY DEF TypeInv, TypeOK, StoreTypeOK, storeVars
  <1> QED
    BY <1>1, <1>2 DEF TypeInv, TypeOK

(* find_by_idempotency_key returns an inserted row of that key and mailbox *)
(* (or none), and no row of the two comes after it in the order.           *)
LEMMA LatestIsLastRow ==
    ASSUME NEW mailbox, NEW key, StoreTypeOK,
           \A n \in DOMAIN created : created[n] \in Rows,
           Latest(mailbox, key) # NoOp
    PROVE  \E n \in DOMAIN created :
              /\ Latest(mailbox, key) = created[n]
              /\ created[n] \in Rows
              /\ info[created[n]].key = key
              /\ info[created[n]].mailbox = mailbox
              /\ \A m \in DOMAIN created :
                    /\ info[created[m]].key = key
                    /\ info[created[m]].mailbox = mailbox
                    => m <= n
  <1> DEFINE hits == {n \in DOMAIN created : /\ info[created[n]].key = key
                                             /\ info[created[n]].mailbox = mailbox}
             top == CHOOSE n \in hits : \A m \in hits : m <= n
  <1>1. hits # {} /\ Latest(mailbox, key) = created[top]
    BY DEF Latest
  <1>2. Len(created) \in Nat /\ DOMAIN created = 1..Len(created)
    BY DEF StoreTypeOK
  <1>3. \E n \in hits : \A m \in hits : m <= n
    <2> DEFINE above(n) == {m \in hits : n < m}
               family == {above(n) : n \in hits}
    <2>1. IsFiniteSet(hits) /\ hits \subseteq Nat
      <3>1. hits \subseteq 1..Len(created) /\ 0 \in Int /\ Len(created) \in Int
        BY <1>2
      <3>2. IsFiniteSet(1..Len(created))
        BY <3>1, FS_Interval
      <3> QED
        BY <3>1, <3>2, FS_Subset
    <2>2. family \subseteq FiniteSubsetsOf(hits)
      <3>1. ASSUME NEW n \in hits PROVE IsFiniteSet(above(n))
        BY <2>1, FS_Subset, above(n) \subseteq hits
      <3> QED
        BY <3>1 DEF FiniteSubsetsOf
    <2>3. family # {}
      BY <1>1
    <2>4. PICK s \in family :
             \A t \in family : <<t, s>> \notin StrictSubsetOrdering(hits)
      <3> HIDE DEF family
      <3> QED
        BY <2>2, <2>3, FS_StrictSubsetOrderingWellFounded, WFMin
    <2>5. PICK n \in hits : s = above(n)
      BY <2>4
    <2>6. ASSUME NEW m \in hits, n < m PROVE FALSE
      <3>1. above(m) \subseteq above(n) /\ m \in above(n) /\ m \notin above(m)
        BY <2>1, <2>6
      <3>2. above(m) \in SUBSET hits /\ above(n) \in SUBSET hits
        OBVIOUS
      <3>3. <<above(m), s>> \in StrictSubsetOrdering(hits)
        BY <2>5, <3>1, <3>2 DEF StrictSubsetOrdering
      <3> QED
        BY <2>4, <3>3
    <2>7. \A m \in hits : m <= n
      BY <2>1, <2>6
    <2> QED
      BY <2>7
  <1>4. top \in hits /\ \A m \in hits : m <= top
    BY <1>3
  <1> QED
    BY <1>1, <1>4

LEMMA CallTypeInv ==
    ASSUME NEW r \in Reqs, TypeInv, Call(r)
    PROVE  TypeInv'
  <1> PICK tool \in Tools, mailbox \in Mailboxes :
        \/ AskPreview(r, tool, mailbox)
        \/ \E key \in Keys : LookupKey(r, tool, mailbox, key)
        \/ \E o \in Ops : QueryReceipt(r, o, tool, mailbox)
        \/ \E o \in Ops, matches \in BOOLEAN :
              ReadExisting(r, o, tool, mailbox, matches)
    BY DEF Call
  <1>0. UNCHANGED <<storeVars, expired, applied, interrupted>>
    BY DEF AskPreview, LookupKey, QueryReceipt, ReadExisting
  <1>1. ASSUME NEW a \in Replies, Answer(r, a) PROVE TypeInv'
    BY <1>0, <1>1, AnsweredStep
  <1>2. ASSUME NEW key \in Keys \cup {NoKey}, StartPreview(r, tool, mailbox, key)
        PROVE  TypeInv'
    <2>1. pc' \in [Reqs -> PCs] /\ reply' \in Replies
      BY <1>2, GoToTypes DEF StartPreview, PCs
    <2>2. ask' \in [Reqs -> Asks]
      <3>1. [row |-> [tool |-> tool, mailbox |-> mailbox, key |-> key],
             earlier |-> Rows] \in Asks
        BY DEF Asks, Infos, Rows
      <3> QED
        BY <1>2, <3>1 DEF StartPreview, TypeInv, TypeOK, ThreadTypeOK
    <2>3. ThreadTypeOK'
      BY <1>2, <2>1, <2>2 DEF StartPreview, TypeInv, TypeOK, ThreadTypeOK
    <2>4. Bound'
      BY <1>0, <1>2 DEF StartPreview, GoTo, TypeInv, TypeOK, ThreadTypeOK, Bound,
                        Rows, storeVars
    <2> QED
      BY <1>0, <2>1, <2>3, <2>4 DEF TypeInv, TypeOK, StoreTypeOK, storeVars
  <1>3. CASE AskPreview(r, tool, mailbox)
    BY <1>2, <1>3 DEF AskPreview
  <1>4. ASSUME NEW o \in Rows, NEW a \in Replies,
               ReplayTo(r, o, tool, mailbox, a)
        PROVE  TypeInv'
    BY <1>1, <1>4, AnswersAreReplies DEF ReplayTo
  <1>5. ASSUME NEW o \in Ops, QueryReceipt(r, o, tool, mailbox) PROVE TypeInv'
    <2>1. CASE o \in Rows
      BY <1>4, <1>5, <2>1, AnswersAreReplies DEF QueryReceipt, TypeInv, TypeOK
    <2>2. CASE o \notin Rows
      BY <1>1, <1>5, <2>2, AnswersAreReplies DEF QueryReceipt
    <2> QED
      BY <2>1, <2>2
  <1>6. ASSUME NEW key \in Keys, LookupKey(r, tool, mailbox, key) PROVE TypeInv'
    <2> DEFINE o == Latest(mailbox, key)
    <2>1. CASE StartPreview(r, tool, mailbox, key)
      BY <1>2, <2>1
    <2>2. CASE Answer(r, Failure)
      BY <1>1, <2>2, AnswersAreReplies
    <2>3. CASE /\ o # NoOp
               /\ \/ ReplayTo(r, o, tool, mailbox, Receipt(o))
                  \/ ReplayTo(r, o, tool, mailbox, PreviewOf(o))
      <3>1. o \in Rows /\ o \in Ops
        BY <2>3, LatestIsLastRow DEF TypeInv, TypeOK, Bound, Rows
      <3> HIDE DEF o
      <3> QED
        BY <1>4, <2>3, <3>1, AnswersAreReplies DEF TypeInv, TypeOK
    <2> QED
      BY <1>6, <2>1, <2>2, <2>3 DEF LookupKey
  <1>7. ASSUME NEW o \in Ops, NEW matches \in BOOLEAN,
               ReadExisting(r, o, tool, mailbox, matches)
        PROVE  TypeInv'
    <2>1. o \in Rows /\ status[o] \in Statuses \cup {"absent"}
      BY <1>7 DEF ReadExisting, TypeInv, TypeOK, StoreTypeOK
    <2>2. CASE Answer(r, Failure)
      BY <1>1, <2>2, AnswersAreReplies
    <2>3. CASE ReplayTo(r, o, tool, mailbox, Receipt(o))
      BY <1>4, <2>1, <2>3, AnswersAreReplies DEF TypeInv, TypeOK
    <2>4. CASE /\ status[o] \notin NotExecutable
               /\ GoTo(r, "connect")
               /\ target' = [target EXCEPT ![r] = o]
               /\ seen' = [seen EXCEPT ![r] = status[o]]
               /\ UNCHANGED <<ask, work>>
      <3>1. pc' \in [Reqs -> PCs] /\ reply' \in Replies
        BY <2>4, GoToTypes DEF PCs
      <3>2. status[o] \in {"pending", "failed"}
        BY <2>1, <2>4 DEF Rows, Statuses, NotExecutable, TypeInv, Bound
      <3>3. ThreadTypeOK'
        BY <2>4, <3>1, <3>2 DEF TypeInv, TypeOK, ThreadTypeOK
      <3>4. Bound'
        BY <1>0, <2>1, <2>4 DEF GoTo, TypeInv, TypeOK, ThreadTypeOK, Bound, Rows,
                                storeVars
      <3> QED
        BY <1>0, <3>1, <3>3, <3>4 DEF TypeInv, TypeOK, StoreTypeOK, storeVars
    <2> QED
      BY <1>7, <2>2, <2>3, <2>4 DEF ReadExisting
  <1> QED
    BY <1>3, <1>5, <1>6, <1>7

(* The steps of a thread that leave the store alone and do not answer.     *)
LEMMA MovedStep ==
    ASSUME NEW r \in Reqs, NEW where \in PCs, TypeInv, GoTo(r, where),
           target[r] \in Rows, work' \in [Reqs -> Works],
           \A s \in Reqs \ {r} : work'[s] = work[s],
           where = "mark" => work'[r].status \in Outcomes,
           applied' \in [Ops -> [Items -> 0..MaxApplied]],
           UNCHANGED <<storeVars, ask, target, seen, expired, interrupted>>
    PROVE  TypeInv'
  <1>1. pc' \in [Reqs -> PCs] /\ reply' \in Replies
    BY GoToTypes
  <1>2. Bound'
    BY DEF GoTo, TypeInv, TypeOK, ThreadTypeOK, Bound, Rows, storeVars
  <1> QED
    BY <1>1, <1>2 DEF TypeInv, TypeOK, ThreadTypeOK, StoreTypeOK, storeVars

LEMMA ApplyTypes ==
    ASSUME NEW o \in Ops, NEW i \in Items, TypeInv,
           Apply(o, i) \/ UNCHANGED applied
    PROVE  applied' \in [Ops -> [Items -> 0..MaxApplied]]
  <1>1. \A n \in 0..MaxApplied : Times(n) \in 0..MaxApplied
    BY RunAssumption DEF Times
  <1> QED
    BY <1>1 DEF Apply, TypeInv, TypeOK

LEMMA FinishTypes ==
    ASSUME NEW r \in Reqs, NEW st \in Outcomes, NEW res \in Results,
           TypeInv, Finish(r, st, res), target[r] \in Rows,
           applied' \in [Ops -> [Items -> 0..MaxApplied]],
           UNCHANGED <<storeVars, expired, interrupted>>
    PROVE  TypeInv'
  <1>1. work' \in [Reqs -> Works] /\ work'[r].status = st
    BY DEF Finish, Works, Outcomes, Statuses, TypeInv, TypeOK, ThreadTypeOK
  <1> QED
    BY <1>1, MovedStep DEF Finish, PCs, TypeInv, TypeOK, ThreadTypeOK

LEMMA RaiseTypes ==
    ASSUME NEW r \in Reqs, NEW kind \in {"rejected", "ambiguous"}, TypeInv,
           Raise(r, kind), target[r] \in Rows,
           applied' \in [Ops -> [Items -> 0..MaxApplied]],
           UNCHANGED <<storeVars, expired, interrupted>>
    PROVE  TypeInv'
  BY FinishTypes DEF Raise, RaisedStatus, Outcomes, Results

LEMMA WorkUpdate ==
    ASSUME NEW r \in Reqs, work \in [Reqs -> Works],
           NEW left \in SUBSET Items, NEW failed \in SUBSET Items
    PROVE  /\ [work EXCEPT ![r].left = left] \in [Reqs -> Works]
           /\ [work EXCEPT ![r].left = left, ![r].failed = failed]
                 \in [Reqs -> Works]
  <1>1. /\ [work[r] EXCEPT !.left = left] \in Works
        /\ [work[r] EXCEPT !.left = left, !.failed = failed] \in Works
    <2>1. work[r] \in Works
      OBVIOUS
    <2> QED
      BY <2>1 DEF Works
  <1> QED
    BY <1>1

(* The order of created_at with one more row: a sequence of the old rows   *)
(* and the new one.                                                        *)
LEMMA CreatedWithTypes ==
    ASSUME NEW o \in Ops, created \in Seq(Ops), NEW n \in 1..(Len(created) + 1)
    PROVE  /\ CreatedWith(o, n) \in Seq(Ops)
           /\ \A m \in DOMAIN CreatedWith(o, n) :
                 \/ CreatedWith(o, n)[m] = o
                 \/ \E k \in DOMAIN created : CreatedWith(o, n)[m] = created[k]
  <1> DEFINE len == Len(created)
  <1>1. len \in Nat /\ created \in [1..len -> Ops]
    OBVIOUS
  <1>2. ASSUME NEW m \in 1..(len + 1)
        PROVE  \/ CreatedWith(o, n)[m] = o
               \/ \E k \in 1..len : CreatedWith(o, n)[m] = created[k]
    <2>1. CASE m < n
      BY <1>1, <2>1 DEF CreatedWith
    <2>2. CASE m = n
      BY <2>2 DEF CreatedWith
    <2>3. CASE m > n
      <3>1. m - 1 \in 1..len /\ CreatedWith(o, n)[m] = created[m - 1]
        BY <1>1, <2>3 DEF CreatedWith
      <3> QED
        BY <3>1
    <2> QED
      BY <1>1, <2>1, <2>2, <2>3
  <1>3. DOMAIN CreatedWith(o, n) = 1..(len + 1)
    BY DEF CreatedWith
  <1>4. CreatedWith(o, n) \in [1..(len + 1) -> Ops]
    BY <1>1, <1>2 DEF CreatedWith
  <1>5. CreatedWith(o, n) \in Seq(Ops)
    BY <1>1, <1>4
  <1> QED
    BY <1>1, <1>2, <1>3, <1>5

LEMMA StepTypeInv ==
    ASSUME NEW r \in Reqs, TypeInv, Step(r)
    PROVE  TypeInv'
  <1> USE DEF PCs
  <1>1. ASSUME NEW o \in Ops, CreatePreview(r, o) PROVE TypeInv'
    <2>0. PICK place \in 1..(Len(created) + 1) : created' = CreatedWith(o, place)
      BY <1>1 DEF CreatePreview, Insert
    <2>6. /\ created' \in Seq(Ops)
          /\ \A m \in DOMAIN created' :
                created'[m] = o \/ \E k \in DOMAIN created : created'[m] = created[k]
      BY <2>0, CreatedWithTypes DEF TypeInv, TypeOK, StoreTypeOK
    <2>1. StoreTypeOK'
      <3>1. ask[r].row \in Infos \cup {NoInfo}
        BY DEF TypeInv, TypeOK, ThreadTypeOK, Asks, NoAsk
      <3> QED
        BY <1>1, <2>6, <3>1 DEF CreatePreview, Insert, StoreTypeOK, TypeInv, TypeOK,
                                Statuses
    <2>2. ThreadTypeOK'
      BY <1>1 DEF CreatePreview, Answer, TypeInv, TypeOK, ThreadTypeOK, Asks, NoAsk,
                  NoWork, Works, Results, NoResult
    <2>3. reply' \in Replies
      BY <1>1, AnswersAreReplies DEF CreatePreview, Answer
    <2>4. (\A n \in DOMAIN created : created[n] \in Rows)'
      BY <1>1, <2>6 DEF CreatePreview, Insert, TypeInv, TypeOK, StoreTypeOK, Bound,
                        Rows
    <2>5. Bound'
      BY <1>1, <2>4 DEF CreatePreview, Insert, Answer, TypeInv, TypeOK,
                        StoreTypeOK, ThreadTypeOK, Bound, Rows
    <2> QED
      BY <1>1, <2>1, <2>2, <2>3, <2>5 DEF CreatePreview, TypeInv, TypeOK
  <1>2. CASE PreviewFails(r)
    BY <1>2, AnsweredStep, AnswersAreReplies DEF PreviewFails
  <1>3. CASE Connect(r)
    <2>1. CASE Answer(r, Failure)
      BY <1>3, <2>1, AnsweredStep, AnswersAreReplies DEF Connect
    <2>2. CASE GoTo(r, "claim") /\ UNCHANGED <<ask, target, seen, work>>
      BY <1>3, <2>2, MovedStep DEF Connect, TypeInv, TypeOK, ThreadTypeOK, Bound
    <2> QED
      BY <1>3, <2>1, <2>2 DEF Connect
  <1>4. CASE Claim(r)
    <2>1. target[r] \in Rows /\ target[r] \in Ops
      BY <1>4 DEF Claim, TypeInv, Bound, Rows
    <2>2. StoreTypeOK'
      BY <1>4, <2>1 DEF Claim, BeginConfirm, StoreTypeOK, TypeInv, TypeOK, Statuses
    <2>3. work' \in [Reqs -> Works]
      <3>1. ItemsOf(target[r]) \subseteq Items
        BY RunAssumption DEF ItemsOf
      <3> QED
        BY <1>4, <3>1, WorkUpdate DEF Claim, TypeInv, TypeOK, ThreadTypeOK
    <2>4. pc' \in [Reqs -> PCs] /\ reply' \in Replies
      BY <1>4, GoToTypes DEF Claim
    <2>5. Bound'
      BY <1>4, <2>1 DEF Claim, BeginConfirm, GoTo, TypeInv, TypeOK, StoreTypeOK,
                        ThreadTypeOK, Bound, Rows
    <2> QED
      BY <1>4, <2>2, <2>3, <2>4, <2>5 DEF Claim, TypeInv, TypeOK, ThreadTypeOK
  <1>5. CASE ClaimRefused(r)
    <2>1. CASE Answer(r, Failure)
      BY <1>5, <2>1, AnsweredStep, AnswersAreReplies DEF ClaimRefused
    <2>2. CASE GoTo(r, "reread") /\ UNCHANGED <<ask, target, seen, work>>
      BY <1>5, <2>2, MovedStep DEF ClaimRefused, TypeInv, TypeOK, ThreadTypeOK, Bound
    <2> QED
      BY <1>5, <2>1, <2>2 DEF ClaimRefused
  <1>6. CASE Report(r)
    <2>1. target[r] \in Rows
      BY <1>6 DEF Report, TypeInv, Bound
    <2> QED
      BY <1>6, <2>1, AnsweredStep, AnswersAreReplies DEF Report, TypeInv, TypeOK
  <1>7. CASE RaiseBeforeSubmit(r)
    BY <1>7, RaiseTypes DEF RaiseBeforeSubmit, TypeInv, TypeOK, Bound
  <1>8. CASE SubmitOne(r)
    <2>1. target[r] \in Rows /\ target[r] \in Ops
      BY <1>8 DEF SubmitOne, TypeInv, Bound, Rows
    <2>2. applied' \in [Ops -> [Items -> 0..MaxApplied]]
      BY <1>8, <2>1, ApplyTypes, RunAssumption DEF SubmitOne
    <2>3. CASE Finish(r, "completed", [kind |-> "value", failed |-> {}])
      BY <1>8, <2>1, <2>2, <2>3, FinishTypes DEF SubmitOne, Outcomes, Results
    <2>4. CASE Raise(r, "ambiguous")
      BY <1>8, <2>1, <2>2, <2>4, RaiseTypes DEF SubmitOne
    <2> QED
      BY <1>8, <2>3, <2>4 DEF SubmitOne
  <1>9. ASSUME NEW i \in Items, SubmitItem(r, i) PROVE TypeInv'
    <2>1. target[r] \in Rows /\ target[r] \in Ops
      BY <1>9 DEF SubmitItem, TypeInv, Bound, Rows
    <2>2. applied' \in [Ops -> [Items -> 0..MaxApplied]]
      BY <1>9, <2>1, ApplyTypes DEF SubmitItem
    <2>3. work' \in [Reqs -> Works]
      <3>1. work[r].left \subseteq Items /\ work[r].failed \subseteq Items
        BY DEF Works, TypeInv, TypeOK, ThreadTypeOK
      <3>2. /\ work[r].left \ {i} \in SUBSET Items
            /\ work[r].failed \cup {i} \in SUBSET Items
        BY <3>1
      <3>3. work \in [Reqs -> Works]
        BY DEF TypeInv, TypeOK, ThreadTypeOK
      <3>4. /\ [work EXCEPT ![r].left = work[r].left \ {i}] \in [Reqs -> Works]
            /\ [work EXCEPT ![r].left = work[r].left \ {i},
                            ![r].failed = work[r].failed \cup {i}]
                  \in [Reqs -> Works]
        BY <3>2, <3>3, WorkUpdate
      <3> QED
        BY <1>9, <3>4 DEF SubmitItem
    <2>4. Bound'
      BY <1>9 DEF SubmitItem, TypeInv, TypeOK, ThreadTypeOK, Bound, Rows, storeVars
    <2>5. reply' \in Replies
      BY <1>9 DEF SubmitItem, Replies, NoReply
    <2> QED
      BY <1>9, <2>2, <2>3, <2>4, <2>5
      DEF SubmitItem, TypeInv, TypeOK, ThreadTypeOK, StoreTypeOK, storeVars
  <1>10. CASE ReturnBatch(r)
    <2>1. work[r].failed \subseteq Items
      BY DEF TypeInv, TypeOK, ThreadTypeOK, Works
    <2>2. /\ BatchStatus(work[r].failed) \in Outcomes
          /\ BatchResult(work[r].failed) \in Results
      BY <2>1 DEF BatchStatus, BatchResult, Outcomes, Results
    <2> QED
      BY <1>10, <2>2, FinishTypes DEF ReturnBatch, TypeInv, TypeOK, Bound
  <1>11. CASE MarkOutcome(r)
    <2>1. /\ target[r] \in Ops /\ target[r] \in Rows
          /\ work[r].status \in Outcomes /\ work[r].result \in Results
      BY <1>11 DEF MarkOutcome, TypeInv, TypeOK, ThreadTypeOK, Works, Bound, Rows
    <2>2. StoreTypeOK'
      BY <1>11, <2>1 DEF MarkOutcome, Mark, StoreTypeOK, TypeInv, TypeOK,
                         Statuses, Outcomes
    <2>3. CASE Answer(r, Failure)
      <3>1. ThreadTypeOK'
        BY <2>3 DEF Answer, TypeInv, TypeOK, ThreadTypeOK, Asks, NoAsk, NoWork,
                    Works, Results, NoResult
      <3>2. Bound'
        BY <1>11, <2>1, <2>3 DEF MarkOutcome, Mark, Answer, TypeInv, TypeOK,
             StoreTypeOK, ThreadTypeOK, Bound, Rows, Outcomes
      <3> QED
        BY <1>11, <2>2, <2>3, <3>1, <3>2, AnswersAreReplies
        DEF MarkOutcome, Answer, TypeInv, TypeOK
    <2>4. CASE GoTo(r, "report") /\ UNCHANGED <<ask, target, seen, work>>
      <3>1. pc' \in [Reqs -> PCs] /\ reply' \in Replies
        BY <2>4, GoToTypes
      <3>2. Bound'
        BY <1>11, <2>1, <2>4 DEF MarkOutcome, Mark, GoTo, TypeInv, TypeOK,
             StoreTypeOK, ThreadTypeOK, Bound, Rows, Outcomes
      <3> QED
        BY <1>11, <2>2, <2>4, <3>1, <3>2
        DEF MarkOutcome, TypeInv, TypeOK, ThreadTypeOK
    <2> QED
      BY <1>11, <2>3, <2>4 DEF MarkOutcome
  <1>12. CASE MarkFails(r)
    BY <1>12, AnsweredStep, AnswersAreReplies DEF MarkFails
  <1> QED
    BY <1>1, <1>2, <1>3, <1>4, <1>5, <1>6, <1>7, <1>8, <1>9, <1>10, <1>11, <1>12
    DEF Step

LEMMA NextTypeInv == TypeInv /\ [Next]_vars => TypeInv'
  <1> SUFFICES ASSUME TypeInv, [Next]_vars PROVE TypeInv'
    OBVIOUS
  <1>1. ASSUME NEW r \in Reqs, Call(r) \/ Step(r) PROVE TypeInv'
    BY <1>1, CallTypeInv, StepTypeInv
  <1>2. ASSUME NEW o \in Ops, Expire(o) PROVE TypeInv'
    BY <1>2 DEF Expire, TypeInv, TypeOK, StoreTypeOK, ThreadTypeOK, Bound, Rows,
                storeVars, threadVars, Replies, NoReply
  <1>3. CASE Restart
    <2>1. StoreTypeOK'
      BY <1>3 DEF Restart, MigrateActiveToUnknown, StoreTypeOK, TypeInv, TypeOK,
                  Statuses
    <2>2. ThreadTypeOK' /\ reply' \in Replies
      BY <1>3 DEF Restart, ThreadTypeOK, PCs, Asks, NoAsk, NoWork, Works, Results,
                  NoResult, Replies, NoReply
    <2>3. Bound'
      BY <1>3 DEF Restart, MigrateActiveToUnknown, TypeInv, TypeOK, StoreTypeOK,
                  Bound, Rows
    <2> QED
      BY <1>3, <2>1, <2>2, <2>3 DEF Restart, TypeInv, TypeOK
  <1>4. CASE UNCHANGED vars
    BY <1>4 DEF vars, TypeInv, TypeOK, StoreTypeOK, ThreadTypeOK, Bound, Rows,
                storeVars, threadVars
  <1> QED
    BY <1>1, <1>2, <1>3, <1>4 DEF Next

(* Every variable of the store and of the threads keeps its type.          *)
THEOREM TypeCorrect == Spec => []TypeOK
  <1>1. TypeInv => TypeOK
    BY DEF TypeInv
  <1> QED
    BY <1>1, InitTypeInv, NextTypeInv, PTL DEF Spec

-----------------------------------------------------------------------------
(* The safety of the engine.                                               *)

(* The part of the invariant about rows, ledger and running threads.       *)
SafeInv ==
    /\ Ownership
    /\ KeyExclusion
    /\ Ledger
    /\ SingleRun
    /\ BatchRun
    /\ OneRowOfKey
    /\ BatchRowsTruthful

USE DEF Running

LEMMA InitIInv == Init => IInv
  <1> SUFFICES ASSUME Init PROVE IInv
    OBVIOUS
  <1>1. TypeInv
    BY InitTypeInv
  <1>2. \A r \in Reqs : ~Running(r)
    BY DEF Init
  <1>3. Rows = {} /\ \A o \in Ops : status[o] = "absent" /\ ~Touched(o)
    BY DEF Init, StoreInit, Rows, Touched
  <1>4. Ledger
    BY <1>3 DEF Init, StoreInit, Ledger
  <1> QED
    BY <1>1, <1>2, <1>3, <1>4 DEF IInv, Ownership, KeyExclusion, SingleRun,
       BatchRun, SingleRunOf, BatchRunOf, OneRowOfKey, BatchRowsTruthful,
       ReplyCurrent, Init, NoReply

-----------------------------------------------------------------------------
(* Steps that leave rows and ledger alone and start no execution.          *)
Quiet ==
    /\ UNCHANGED <<storeVars, applied>>
    /\ \A r \in Reqs : Running(r)' =>
          /\ Running(r)
          /\ pc'[r] = pc[r]
          /\ target'[r] = target[r]
          /\ work'[r] = work[r]

LEMMA QuietStep == SafeInv /\ Quiet => SafeInv'
  <1> SUFFICES ASSUME SafeInv, Quiet PROVE SafeInv'
    OBVIOUS
  <1> USE DEF Quiet, storeVars, SafeInv
  <1>1. Rows' = Rows /\ \A o : Siblings(o)' = Siblings(o)
    BY DEF Rows, Siblings
  <1>2. Ownership'
    BY DEF Ownership
  <1>3. KeyExclusion'
    BY <1>1 DEF KeyExclusion, KeyConsumed
  <1>4. Ledger'
    BY DEF Ledger, ItemsOf, IsSingle, Touched
  <1>5. SingleRun'
    BY DEF SingleRun, SingleRunOf, IsSingle, Touched
  <1>6. BatchRun'
    BY DEF BatchRun, BatchRunOf, IsSingle
  <1>7. OneRowOfKey' /\ BatchRowsTruthful'
    BY <1>1 DEF OneRowOfKey, BatchRowsTruthful, IsSingle, Touched
  <1> QED
    BY <1>2, <1>3, <1>4, <1>5, <1>6, <1>7

LEMMA AnswerIsQuiet ==
    ASSUME NEW r \in Reqs, NEW a, TypeInv, Answer(r, a),
           UNCHANGED <<storeVars, applied>>
    PROVE  Quiet
  BY DEF Answer, Quiet, TypeInv, TypeOK, ThreadTypeOK

(* A thread that goes on to a place where it does not run.                 *)
LEMMA GoToIsQuiet ==
    ASSUME NEW r \in Reqs, NEW where, where \notin {"execute", "mark"},
           TypeInv, GoTo(r, where), UNCHANGED <<storeVars, applied>>,
           \A s \in Reqs \ {r} : target'[s] = target[s] /\ work'[s] = work[s]
    PROVE  Quiet
  BY DEF GoTo, Quiet, TypeInv, TypeOK, ThreadTypeOK

LEMMA CallIsQuiet ==
    ASSUME NEW r \in Reqs, TypeInv, Call(r)
    PROVE  Quiet
  <1> PICK tool \in Tools, mailbox \in Mailboxes :
        \/ AskPreview(r, tool, mailbox)
        \/ \E key \in Keys : LookupKey(r, tool, mailbox, key)
        \/ \E o \in Ops : QueryReceipt(r, o, tool, mailbox)
        \/ \E o \in Ops, matches \in BOOLEAN :
              ReadExisting(r, o, tool, mailbox, matches)
    BY DEF Call
  <1>1. UNCHANGED <<storeVars, applied>>
    BY DEF AskPreview, LookupKey, QueryReceipt, ReadExisting
  <1>2. ASSUME NEW a, Answer(r, a) PROVE Quiet
    BY <1>1, <1>2, AnswerIsQuiet
  <1>3. ASSUME NEW o, NEW a, ReplayTo(r, o, tool, mailbox, a) PROVE Quiet
    BY <1>2, <1>3 DEF ReplayTo
  <1>4. ASSUME NEW key, StartPreview(r, tool, mailbox, key) PROVE Quiet
    BY <1>1, <1>4, GoToIsQuiet DEF StartPreview
  <1>5. CASE AskPreview(r, tool, mailbox)
    BY <1>4, <1>5 DEF AskPreview
  <1>6. CASE \E key \in Keys : LookupKey(r, tool, mailbox, key)
    BY <1>2, <1>3, <1>4, <1>6 DEF LookupKey
  <1>7. CASE \E o \in Ops : QueryReceipt(r, o, tool, mailbox)
    BY <1>2, <1>3, <1>7 DEF QueryReceipt
  <1>8. ASSUME NEW o \in Ops, NEW matches \in BOOLEAN,
               ReadExisting(r, o, tool, mailbox, matches)
        PROVE  Quiet
    <2>1. CASE /\ GoTo(r, "connect")
               /\ target' = [target EXCEPT ![r] = o]
               /\ UNCHANGED <<ask, work>>
      BY <1>1, <2>1, GoToIsQuiet DEF TypeInv, TypeOK, ThreadTypeOK
    <2> QED
      BY <1>2, <1>3, <1>8, <2>1 DEF ReadExisting
  <1> QED
    BY <1>5, <1>6, <1>7, <1>8

LEMMA QuietSteps ==
    ASSUME NEW r \in Reqs, TypeInv,
           \/ PreviewFails(r) \/ Connect(r) \/ ClaimRefused(r) \/ Report(r)
           \/ MarkFails(r)
    PROVE  Quiet
  <1>1. UNCHANGED <<storeVars, applied>>
    BY DEF PreviewFails, Connect, ClaimRefused, Report, MarkFails
  <1>2. ASSUME NEW a, Answer(r, a) PROVE Quiet
    BY <1>1, <1>2, AnswerIsQuiet
  <1>3. ASSUME NEW where \in {"claim", "reread"}, GoTo(r, where),
               UNCHANGED <<ask, target, seen, work>>
        PROVE  Quiet
    BY <1>1, <1>3, GoToIsQuiet
  <1> QED
    BY <1>2, <1>3 DEF PreviewFails, Connect, ClaimRefused, Report, MarkFails

-----------------------------------------------------------------------------
(* create_preview: a new pending row without effects.                      *)
LEMMA InsertStep ==
    ASSUME NEW r \in Reqs, NEW o \in Ops, TypeInv, SafeInv, CreatePreview(r, o)
    PROVE  SafeInv'
  <1> USE DEF CreatePreview, SafeInv, TypeInv, TypeOK, StoreTypeOK
  <1>1. /\ status[o] = "absent" /\ status' = [status EXCEPT ![o] = "pending"]
        /\ \A p \in Ops \ {o} : info'[p] = info[p] /\ status'[p] = status[p]
        /\ status'[o] = "pending" /\ result' = result /\ applied' = applied
    BY DEF Insert
  <1>2. \A s \in Reqs : Running(s)' =>
            /\ Running(s) /\ pc'[s] = pc[s] /\ target'[s] = target[s]
            /\ work'[s] = work[s] /\ target[s] \in Rows /\ target[s] # o
    BY <1>1 DEF Answer, ThreadTypeOK, Bound, Rows
  <1>3. Rows' = Rows \cup {o} /\ o \notin Rows /\ Rows \subseteq Ops
    BY <1>1 DEF Rows
  <1>4. \A p \in Rows : Siblings(p)' \subseteq Siblings(p) \cup {o}
    BY <1>1, <1>3 DEF Siblings
  <1>5. Ownership'
    <2>1. ASSUME NEW s \in Reqs, Running(s)'
          PROVE  /\ status'[target'[s]] = "executing"
                 /\ \A u \in Reqs \ {s} : Running(u)' => target'[u] # target'[s]
      <3>1. /\ Running(s) /\ target'[s] = target[s]
            /\ target[s] \in Ops \ {o}
        BY <1>2, <1>3, <2>1
      <3>2. status'[target'[s]] = "executing"
        BY <1>1, <3>1 DEF Ownership
      <3>3. ASSUME NEW u \in Reqs \ {s}, Running(u)'
            PROVE  target'[u] # target'[s]
        BY <1>2, <3>1, <3>3 DEF Ownership
      <3> QED
        BY <3>2, <3>3
    <2> QED
      BY <2>1 DEF Ownership
  <1>6. KeyExclusion'
    <2>1. ASSUME NEW p \in Rows', status'[p] = "executing" PROVE ~KeyConsumed(p)'
      <3>1. p \in Rows /\ p # o /\ status[p] = "executing"
        BY <1>1, <1>3, <2>1
      <3>2. \A s \in Siblings(p) : status[s] \notin Consumed /\ s \in Rows
        BY <3>1 DEF KeyExclusion, KeyConsumed, Siblings
      <3>3. "pending" \notin Consumed
        BY DEF Consumed, Claimable
      <3> QED
        BY <1>1, <1>3, <1>4, <3>1, <3>2, <3>3 DEF KeyConsumed, Consumed
    <2> QED
      BY <2>1 DEF KeyExclusion
  <1>7. ~Touched(o) /\ ~Touched(o)'
    BY <1>1 DEF Ledger, Touched
  <1>8. \A p \in Ops \ {o} : /\ IsSingle(p)' = IsSingle(p)
                             /\ ItemsOf(p)' = ItemsOf(p)
                             /\ Touched(p)' = Touched(p)
    BY <1>1 DEF IsSingle, ItemsOf, Touched
  <1>9. Ledger'
    <2>1. ASSUME NEW p \in Ops \ {o}
          PROVE  /\ status'[p] = "absent" => ~Touched(p)' /\ result'[p] = NoResult
                 /\ status'[p] = "completed" =>
                       \A i \in ItemsOf(p)' : applied'[p][i] > 0
                 /\ IsSingle(p)' =>
                       /\ \A i \in Items : applied'[p][i] <= 1
                       /\ Touched(p)' =>
                             status'[p] \in {"executing", "completed", "unknown"}
      BY <1>1, <1>8 DEF Ledger
    <2>2. \A i \in Items : applied'[o][i] <= 1
      BY <1>1, <1>7 DEF Touched
    <2> QED
      BY <1>1, <1>7, <2>1, <2>2 DEF Ledger
  <1>10. ASSUME NEW s \in Reqs, Running(s)'
         PROVE  /\ Running(s) /\ work'[s] = work[s] /\ pc'[s] = pc[s]
                /\ target'[s] = target[s] /\ applied' = applied
                /\ IsSingle(target[s])' = IsSingle(target[s])
                /\ Touched(target[s])' = Touched(target[s])
    BY <1>1, <1>2, <1>3, <1>8, <1>10
  <1>13. ASSUME NEW s \in Reqs PROVE SingleRunOf(s)'
    BY <1>10 DEF SingleRun, SingleRunOf
  <1>14. ASSUME NEW s \in Reqs PROVE BatchRunOf(s)'
    BY <1>10 DEF BatchRun, BatchRunOf
  <1>11. OneRowOfKey'
    <2>1. ASSUME NEW p \in Rows', IsSingle(p)', Touched(p)', NEW s \in Siblings(p)',
                 IsSingle(s)'
          PROVE  ~Touched(s)'
      <3>1. p \in Rows /\ p # o
        BY <1>3, <1>7, <2>1
      <3>2. CASE s = o
        BY <1>7, <3>2
      <3>3. CASE s # o
        <4>1. s \in Siblings(p) /\ s \in Rows
          BY <1>4, <3>1, <3>3 DEF Siblings
        <4> QED
          BY <1>3, <1>8, <2>1, <3>1, <3>3, <4>1 DEF OneRowOfKey
      <3> QED
        BY <3>2, <3>3
    <2> QED
      BY <2>1 DEF OneRowOfKey
  <1>12. BatchRowsTruthful'
    BY <1>1, <1>3 DEF BatchRowsTruthful, Ledger, NoResult
  <1> QED
    BY <1>5, <1>6, <1>9, <1>11, <1>12, <1>13, <1>14 DEF SingleRun, BatchRun

-----------------------------------------------------------------------------
(* begin_confirm: the one step that starts an execution.                   *)
LEMMA ClaimStep ==
    ASSUME NEW r \in Reqs, TypeInv, SafeInv, Claim(r)
    PROVE  SafeInv'
  <1> DEFINE t == target[r]
  <1> USE DEF Claim, SafeInv, TypeInv, TypeOK, StoreTypeOK, ThreadTypeOK
  <1>1. t \in Rows /\ t \in Ops /\ Rows \subseteq Ops
    BY DEF Bound, Rows
  <1>2. /\ status[t] \in Claimable /\ ~KeyConsumed(t)
        /\ status' = [status EXCEPT ![t] = "executing"]
        /\ UNCHANGED <<result, info, created, applied, target>>
        /\ pc'[r] = "execute" /\ work'[r].left = ItemsOf(t)
        /\ \A s \in Reqs \ {r} : pc'[s] = pc[s] /\ work'[s] = work[s]
    BY DEF BeginConfirm, CanClaim, GoTo, Works
  <1>3. \A s \in Reqs \ {r} : Running(s)' => Running(s) /\ target[s] # t
    BY <1>2 DEF Ownership, Claimable
  <1>4. Rows' = Rows /\ \A p : Siblings(p)' = Siblings(p)
    <2>1. Rows' = Rows
      BY <1>1, <1>2 DEF Rows
    <2> QED
      BY <1>2, <2>1 DEF Siblings
  <1>5. \A p \in Ops : /\ IsSingle(p)' = IsSingle(p)
                       /\ ItemsOf(p)' = ItemsOf(p)
                       /\ Touched(p)' = Touched(p)
    BY <1>2 DEF IsSingle, ItemsOf, Touched
  <1>6. Ownership'
    BY <1>1, <1>2, <1>3 DEF Ownership
  <1>7. KeyExclusion'
    <2>1. ASSUME NEW p \in Rows, status'[p] = "executing" PROVE ~KeyConsumed(p)'
      <3>1. CASE p = t
        <4>1. \A s \in Siblings(t) : s \in Ops \ {t} /\ status[s] \notin Consumed
          BY <1>2, <1>1 DEF KeyConsumed, Siblings
        <4> QED
          BY <1>2, <1>4, <3>1, <4>1 DEF KeyConsumed, Consumed
      <3>2. CASE p # t
        <4>1. status[p] = "executing" /\ p \in Ops /\ "executing" \in Consumed
          BY <1>1, <1>2, <2>1, <3>2 DEF Consumed, Statuses, Claimable
        <4>2. ASSUME t \in Siblings(p) PROVE FALSE
          <5>1. p \in Siblings(t)
            BY <3>2, <4>2 DEF Siblings
          <5> QED
            BY <1>2, <4>1, <5>1 DEF KeyConsumed
        <4>3. \A s \in Siblings(p) : s \in Ops /\ status[s] \notin Consumed
          BY <4>1, <1>1 DEF KeyExclusion, KeyConsumed, Siblings
        <4> QED
          BY <1>2, <1>4, <4>2, <4>3 DEF KeyConsumed, Consumed
      <3> QED
        BY <3>1, <3>2
    <2> QED
      BY <1>4, <2>1 DEF KeyExclusion
  <1>8. Ledger'
    BY <1>1, <1>2, <1>5 DEF Ledger
  <1>9. ASSUME NEW s \in Reqs PROVE SingleRunOf(s)' /\ BatchRunOf(s)'
    <2>1. CASE s = r
      <3>1. IsSingle(t) => ~Touched(t)
        BY <1>1, <1>2 DEF Ledger, Claimable
      <3>2. ~IsSingle(t) => ItemsOf(t) = Items
        BY DEF IsSingle, ItemsOf
      <3> QED
        BY <1>1, <1>2, <1>5, <2>1, <3>1, <3>2 DEF SingleRunOf, BatchRunOf
    <2>2. CASE s # r
      <3>1. SingleRunOf(s) /\ BatchRunOf(s)
        BY DEF SingleRun, BatchRun
      <3>2. target[s] \in Ops \/ ~Running(s)
        BY DEF Bound, Rows
      <3> QED
        BY <1>2, <1>3, <1>5, <2>2, <3>1, <3>2 DEF SingleRunOf, BatchRunOf
    <2> QED
      BY <2>1, <2>2
  <1>10. OneRowOfKey' /\ BatchRowsTruthful'
    <2>1. \A p \in Rows : Siblings(p) \subseteq Ops
      BY <1>1 DEF Siblings
    <2> QED
      BY <1>1, <1>2, <1>4, <1>5, <2>1 DEF OneRowOfKey, BatchRowsTruthful
  <1> QED
    BY <1>6, <1>7, <1>8, <1>9, <1>10 DEF SingleRun, BatchRun

-----------------------------------------------------------------------------
(* The steps of an execution up to mark: only the thread that owns the row *)
(* moves, and effects are only added to its own operation.                 *)
Advance(r) ==
    /\ pc[r] = "execute"
    /\ \A s \in Reqs \ {r} : pc'[s] = pc[s] /\ work'[s] = work[s]
    /\ UNCHANGED <<storeVars, target>>
    /\ \A o \in Ops \ {target[r]} : applied'[o] = applied[o]
    /\ \A i \in Items : applied[target[r]][i] > 0 => applied'[target[r]][i] > 0
    /\ IsSingle(target[r]) => \A i \in Items : applied'[target[r]][i] <= 1

LEMMA AdvanceStep ==
    ASSUME NEW r \in Reqs, TypeInv, SafeInv, Advance(r),
           SingleRunOf(r)', BatchRunOf(r)'
    PROVE  SafeInv'
  <1> DEFINE t == target[r]
  <1> USE DEF Advance, SafeInv, storeVars
  <1>1. t \in Rows /\ t \in Ops /\ status[t] = "executing" /\ Rows \subseteq Ops
    BY DEF Ownership, TypeInv, Bound, Rows
  <1>2. Rows' = Rows /\ \A p : Siblings(p)' = Siblings(p) /\ Siblings(p) \subseteq Rows
    BY DEF Rows, Siblings
  <1>3. \A p \in Ops : IsSingle(p)' = IsSingle(p) /\ ItemsOf(p)' = ItemsOf(p)
    BY DEF IsSingle, ItemsOf
  <1>4. \A p \in Ops \ {t} : Touched(p)' = Touched(p)
    BY DEF Touched
  <1>5. Ownership' /\ KeyExclusion'
    BY <1>2 DEF Ownership, KeyExclusion, KeyConsumed
  <1>6. Ledger'
    <2>1. ASSUME NEW p \in Ops \ {t}
          PROVE  /\ status'[p] = "absent" => ~Touched(p)' /\ result'[p] = NoResult
                 /\ status'[p] = "completed" =>
                       \A i \in ItemsOf(p)' : applied'[p][i] > 0
                 /\ IsSingle(p)' =>
                       /\ \A i \in Items : applied'[p][i] <= 1
                       /\ Touched(p)' =>
                             status'[p] \in {"executing", "completed", "unknown"}
      BY <1>3, <1>4 DEF Ledger
    <2> QED
      BY <1>1, <1>3, <2>1 DEF Ledger
  <1>7. ASSUME NEW s \in Reqs PROVE SingleRunOf(s)' /\ BatchRunOf(s)'
    <2>1. CASE s # r /\ Running(s)
      <3>1. target[s] \in Ops \ {t} /\ SingleRunOf(s) /\ BatchRunOf(s)
        BY <2>1 DEF Ownership, SingleRun, BatchRun, TypeInv, Bound, Rows
      <3> QED
        BY <1>3, <1>4, <2>1, <3>1 DEF SingleRunOf, BatchRunOf
    <2> QED
      BY <2>1 DEF SingleRunOf, BatchRunOf
  <1>8. OneRowOfKey'
    <2>1. ASSUME NEW p \in Siblings(t), IsSingle(p) PROVE ~Touched(p)
      <3>1. p \in Ops /\ status[p] \notin Consumed /\ status[p] \in Statuses
        BY <1>1, <1>2 DEF KeyExclusion, KeyConsumed, Rows, TypeInv, TypeOK, StoreTypeOK
      <3> QED
        BY <2>1, <3>1 DEF Ledger, Consumed, Claimable
    <2>2. ASSUME NEW p \in Rows, IsSingle(p), Touched(p)',
                 NEW s \in Siblings(p), IsSingle(s)
          PROVE  ~Touched(s)'
      <3>1. CASE p = t
        <4>1. s # t /\ s \in Ops
          BY <1>1, <3>1 DEF Siblings, Rows
        <4> QED
          BY <1>4, <2>1, <2>2, <3>1, <4>1
      <3>2. CASE s = t
        <4>1. p \in Siblings(t) /\ p # t /\ p \in Ops
          BY <1>1, <2>2, <3>2 DEF Siblings, Rows
        <4> QED
          BY <1>4, <2>1, <2>2, <4>1
      <3>3. CASE p # t /\ s # t
        <4>1. s \in Ops
          BY <1>1, <1>2
        <4> QED
          BY <1>1, <1>4, <2>2, <3>3, <4>1 DEF OneRowOfKey
      <3> QED
        BY <3>1, <3>2, <3>3
    <2> QED
      BY <1>1, <1>2, <1>3, <2>2 DEF OneRowOfKey
  <1>9. BatchRowsTruthful'
    BY <1>1, <1>2 DEF BatchRowsTruthful
  <1> QED
    BY <1>5, <1>6, <1>7, <1>8, <1>9 DEF SingleRun, BatchRun

(* What one more effect of item i does to the ledger.                      *)
LEMMA ApplyEffect ==
    ASSUME TypeInv, NEW o \in Ops, NEW i \in Items, Apply(o, i)
    PROVE  /\ \A p \in Ops \ {o} : applied'[p] = applied[p]
           /\ \A j \in Items \ {i} : applied'[o][j] = applied[o][j]
           /\ applied'[o][i] > 0
           /\ applied[o][i] = 0 => applied'[o][i] = 1
  <1>1. applied \in [Ops -> [Items -> 0..MaxApplied]]
    BY DEF TypeInv, TypeOK
  <1>2. applied' = [applied EXCEPT ![o] = [applied[o] EXCEPT ![i] = Times(applied[o][i])]]
    BY DEF Apply
  <1>3. \A n \in 0..MaxApplied : Times(n) > 0 /\ Times(0) = 1
    BY RunAssumption DEF Times
  <1> QED
    BY <1>1, <1>2, <1>3

LEMMA FinishEffect ==
    ASSUME TypeInv, NEW r \in Reqs, NEW st, NEW res, Finish(r, st, res)
    PROVE  /\ pc'[r] = "mark" /\ work'[r].status = st /\ work'[r].result = res
           /\ \A s \in Reqs \ {r} : pc'[s] = pc[s] /\ work'[s] = work[s]
           /\ target' = target
  BY DEF Finish, GoTo, TypeInv, TypeOK, ThreadTypeOK

LEMMA ExecuteSteps ==
    ASSUME NEW r \in Reqs, TypeInv, SafeInv,
           \/ RaiseBeforeSubmit(r)
           \/ SubmitOne(r)
           \/ \E i \in Items : SubmitItem(r, i)
           \/ ReturnBatch(r)
    PROVE  SafeInv'
  <1> DEFINE t == target[r]
  <1>1. pc[r] = "execute" /\ Running(r) /\ t \in Ops
    BY DEF RaiseBeforeSubmit, SubmitOne, SubmitItem, ReturnBatch, TypeInv, Bound, Rows
  <1>2. storeVars' = storeVars
    BY DEF RaiseBeforeSubmit, SubmitOne, SubmitItem, ReturnBatch
  <1>3. SingleRunOf(r) /\ BatchRunOf(r)
    BY DEF SafeInv, SingleRun, BatchRun
  <1>4. IsSingle(t) => ~Touched(t)
    BY <1>1, <1>3 DEF SingleRunOf
  <1>5. \A i \in Items : applied[t][i] \in Nat
    BY <1>1, RunAssumption DEF TypeInv, TypeOK
  <1>6. IsSingle(t) => \A i \in Items : applied[t][i] = 0
    BY <1>4, <1>5 DEF Touched
  <1>7. target' = target => (IsSingle(target[r])' <=> IsSingle(t))
    BY <1>2 DEF storeVars, IsSingle
  <1>8. ASSUME NEW kind \in {"rejected", "ambiguous"}, Raise(r, kind),
               UNCHANGED applied
        PROVE  SafeInv'
    <2>1. /\ pc'[r] = "mark" /\ target' = target
          /\ work'[r].status \in {"failed", "unknown"}
          /\ work'[r].result.kind \in {"rejected", "ambiguous"}
          /\ \A s \in Reqs \ {r} : pc'[s] = pc[s] /\ work'[s] = work[s]
      BY <1>8, FinishEffect DEF Raise, RaisedStatus
    <2>2. Advance(r)
      BY <1>1, <1>2, <1>6, <1>8, <2>1 DEF Advance
    <2>3. SingleRunOf(r)' /\ BatchRunOf(r)'
      BY <1>4, <1>7, <1>8, <2>1 DEF SingleRunOf, BatchRunOf, Touched
    <2> QED
      BY <2>2, <2>3, AdvanceStep
  <1>9. CASE RaiseBeforeSubmit(r)
    BY <1>8, <1>9 DEF RaiseBeforeSubmit
  <1>10. CASE SubmitOne(r)
    <2>1. CASE UNCHANGED applied /\ Raise(r, "ambiguous")
      BY <1>8, <2>1
    <2>2. CASE Apply(t, OneItem)
      <3>1. /\ pc'[r] = "mark" /\ target' = target
            /\ work'[r].status \in {"completed", "unknown"}
            /\ work'[r].result.kind \in {"value", "ambiguous"}
            /\ \A s \in Reqs \ {r} : pc'[s] = pc[s] /\ work'[s] = work[s]
        <4>1. CASE Raise(r, "ambiguous")
          BY <4>1, FinishEffect DEF Raise, RaisedStatus
        <4>2. CASE Finish(r, "completed", [kind |-> "value", failed |-> {}])
          BY <4>2, FinishEffect
        <4>3. Raise(r, "ambiguous") => Finish(r, "unknown",
                                              [kind |-> "ambiguous", failed |-> {}])
          BY DEF Raise, RaisedStatus
        <4> QED
          BY <1>10, <4>1, <4>2, <4>3, FinishEffect DEF SubmitOne, Finish
      <3>2. IsSingle(t)
        BY <1>10 DEF SubmitOne, IsSingle
      <3>3. /\ \A p \in Ops \ {t} : applied'[p] = applied[p]
            /\ \A j \in Items \ {OneItem} : applied'[t][j] = 0
            /\ applied'[t][OneItem] = 1
        BY <1>1, <1>6, <2>2, <3>2, ApplyEffect, RunAssumption
      <3>4. Advance(r)
        BY <1>1, <1>2, <1>5, <1>6, <3>1, <3>2, <3>3 DEF Advance
      <3>5. SingleRunOf(r)' /\ BatchRunOf(r)'
        BY <1>7, <3>1, <3>2, <3>3 DEF SingleRunOf, BatchRunOf
      <3> QED
        BY <3>4, <3>5, AdvanceStep
    <2> QED
      BY <1>10, <2>1, <2>2 DEF SubmitOne
  <1>11. ASSUME NEW i \in Items, SubmitItem(r, i) PROVE SafeInv'
    <2>1. ~IsSingle(t) /\ target' = target /\ pc' = pc
      BY <1>11 DEF SubmitItem, IsSingle
    <2>2. /\ \A p \in Ops \ {t} : applied'[p] = applied[p]
          /\ \A j \in Items : applied[t][j] > 0 => applied'[t][j] > 0
      <3>1. CASE UNCHANGED applied
        BY <3>1
      <3>2. CASE Apply(t, i)
        BY <1>1, <3>2, ApplyEffect
      <3> QED
        BY <1>11, <3>1, <3>2 DEF SubmitItem
    <2>3. /\ \A s \in Reqs \ {r} : work'[s] = work[s]
          /\ \/ /\ Apply(t, i)
                /\ work'[r].left = work[r].left \ {i}
                /\ work'[r].failed = work[r].failed
             \/ /\ work'[r].left = work[r].left \ {i}
                /\ work'[r].failed = work[r].failed \cup {i}
      BY <1>11 DEF SubmitItem, TypeInv, TypeOK, ThreadTypeOK, Works
    <2>4. Advance(r)
      BY <1>1, <1>2, <2>1, <2>2, <2>3 DEF Advance
    <2>5. SingleRunOf(r)'
      BY <1>7, <2>1 DEF SingleRunOf
    <2>6. \A j \in Items \ (work'[r].left \cup work'[r].failed) : applied'[t][j] > 0
      <3>1. Apply(t, i) => applied'[t][i] > 0
        BY <1>1, ApplyEffect
      <3> QED
        BY <1>1, <1>3, <2>1, <2>2, <2>3, <3>1 DEF BatchRunOf
    <2>7. BatchRunOf(r)'
      BY <1>1, <2>1, <2>6 DEF BatchRunOf
    <2> QED
      BY <2>4, <2>5, <2>7, AdvanceStep
  <1>12. CASE ReturnBatch(r)
    <2>1. ~IsSingle(t) /\ work[r].left = {} /\ applied' = applied
      BY <1>12 DEF ReturnBatch, IsSingle
    <2>2. /\ pc'[r] = "mark" /\ target' = target
          /\ work'[r].status = BatchStatus(work[r].failed)
          /\ work'[r].result = BatchResult(work[r].failed)
          /\ \A s \in Reqs \ {r} : pc'[s] = pc[s] /\ work'[s] = work[s]
      BY <1>12, FinishEffect DEF ReturnBatch
    <2>3. Advance(r)
      BY <1>1, <1>2, <2>1, <2>2 DEF Advance
    <2>4. SingleRunOf(r)'
      BY <1>7, <2>1, <2>2 DEF SingleRunOf
    <2>5. \A i \in Items \ work[r].failed : applied[t][i] > 0
      BY <1>1, <1>3, <2>1 DEF BatchRunOf
    <2>6. BatchStatus(work[r].failed) = "completed" => work[r].failed = {}
      BY DEF BatchStatus
    <2>7. BatchRunOf(r)'
      BY <2>1, <2>2, <2>5, <2>6 DEF BatchRunOf, BatchResult
    <2> QED
      BY <2>3, <2>4, <2>7, AdvanceStep
  <1> QED
    BY <1>9, <1>10, <1>11, <1>12

-----------------------------------------------------------------------------
(* mark writes by id, without a condition: it is the ownership of the row  *)
(* that makes it harmless.                                                 *)
LEMMA MarkStep ==
    ASSUME NEW r \in Reqs, TypeInv, SafeInv, MarkOutcome(r)
    PROVE  SafeInv'
  <1> DEFINE t == target[r]
  <1>1. /\ pc[r] = "mark" /\ Running(r) /\ t \in Rows /\ t \in Ops
        /\ status[t] = "executing" /\ work[r].status \in Outcomes
        /\ SingleRunOf(r) /\ BatchRunOf(r) /\ Rows \subseteq Ops
    BY DEF MarkOutcome, SafeInv, Ownership, SingleRun, BatchRun, TypeInv, Bound, Rows
  <1>2. /\ status' = [status EXCEPT ![t] = work[r].status]
        /\ result' = [result EXCEPT ![t] = work[r].result]
        /\ UNCHANGED <<info, created, applied>>
    BY DEF MarkOutcome, Mark
  <1>3. /\ status'[t] = work[r].status /\ result'[t] = work[r].result
        /\ \A p \in Ops \ {t} : status'[p] = status[p] /\ result'[p] = result[p]
    BY <1>1, <1>2 DEF TypeInv, TypeOK, StoreTypeOK
  <1>4. Rows' = Rows /\ \A p : Siblings(p)' = Siblings(p) /\ Siblings(p) \subseteq Rows
    <2>1. Rows' = Rows
      BY <1>1, <1>3 DEF Rows, Outcomes
    <2> QED
      BY <1>2, <2>1 DEF Siblings
  <1>5. \A p \in Ops : /\ IsSingle(p)' = IsSingle(p)
                       /\ ItemsOf(p)' = ItemsOf(p)
                       /\ Touched(p)' = Touched(p)
    BY <1>2 DEF IsSingle, ItemsOf, Touched
  <1>6. \A s \in Reqs : Running(s)' =>
            /\ s # r /\ Running(s) /\ pc'[s] = pc[s] /\ target'[s] = target[s]
            /\ work'[s] = work[s] /\ target[s] \in Ops \ {t}
    <2>1. ~Running(r)' /\ \A s \in Reqs \ {r} :
            pc'[s] = pc[s] /\ target'[s] = target[s] /\ work'[s] = work[s]
      BY DEF MarkOutcome, Answer, GoTo, TypeInv, TypeOK, ThreadTypeOK
    <2>2. \A s \in Reqs \ {r} : Running(s) => target[s] \in Ops \ {t}
      BY <1>1 DEF SafeInv, Ownership, TypeInv, Bound, Rows
    <2> QED
      BY <2>1, <2>2
  <1>7. Ownership'
    BY <1>3, <1>6 DEF SafeInv, Ownership
  <1>8. KeyExclusion'
    <2>1. ASSUME NEW p \in Rows, status'[p] = "executing" PROVE ~KeyConsumed(p)'
      <3>1. p \in Ops \ {t} /\ status[p] = "executing"
        BY <1>1, <1>3, <2>1 DEF Outcomes
      <3>2. \A s \in Siblings(p) : s \in Ops /\ status[s] \notin Consumed
        BY <1>1, <1>4, <3>1 DEF SafeInv, KeyExclusion, KeyConsumed
      <3>3. t \notin Siblings(p)
        BY <1>1, <3>2 DEF Consumed, Statuses, Claimable
      <3> QED
        BY <1>3, <1>4, <3>2, <3>3 DEF KeyConsumed, Consumed
    <2> QED
      BY <1>4, <2>1 DEF KeyExclusion
  <1>9. Ledger'
    <2>1. ASSUME NEW p \in Ops \ {t}
          PROVE  /\ status'[p] = "absent" => ~Touched(p)' /\ result'[p] = NoResult
                 /\ status'[p] = "completed" =>
                       \A i \in ItemsOf(p)' : applied'[p][i] > 0
                 /\ IsSingle(p)' =>
                       /\ \A i \in Items : applied'[p][i] <= 1
                       /\ Touched(p)' =>
                             status'[p] \in {"executing", "completed", "unknown"}
      BY <1>2, <1>3, <1>5 DEF SafeInv, Ledger
    <2>2. status'[t] = "completed" => \A i \in ItemsOf(t) : applied[t][i] > 0
      <3>1. CASE IsSingle(t)
        BY <1>1, <1>3, <3>1 DEF SingleRunOf, IsSingle, ItemsOf
      <3>2. CASE ~IsSingle(t)
        BY <1>1, <1>3, <3>2 DEF BatchRunOf, IsSingle, ItemsOf
      <3> QED
        BY <3>1, <3>2
    <2>3. IsSingle(t) =>
            /\ \A i \in Items : applied[t][i] <= 1
            /\ Touched(t) => status'[t] \in {"executing", "completed", "unknown"}
      BY <1>1, <1>3 DEF SafeInv, Ledger, SingleRunOf, Outcomes
    <2> QED
      BY <1>1, <1>2, <1>3, <1>5, <2>1, <2>2, <2>3 DEF Ledger, Outcomes
  <1>10. ASSUME NEW s \in Reqs PROVE SingleRunOf(s)' /\ BatchRunOf(s)'
    BY <1>2, <1>5, <1>6 DEF SafeInv, SingleRun, BatchRun, SingleRunOf, BatchRunOf
  <1>11. OneRowOfKey'
    BY <1>1, <1>4, <1>5 DEF SafeInv, OneRowOfKey
  <1>12. BatchRowsTruthful'
    <2>1. result'[t].kind = "batch" =>
            \A i \in Items \ result'[t].failed : applied[t][i] > 0
      BY <1>1, <1>3 DEF SingleRunOf, BatchRunOf
    <2> QED
      BY <1>1, <1>2, <1>3, <1>4, <2>1 DEF SafeInv, BatchRowsTruthful
  <1> QED
    BY <1>7, <1>8, <1>9, <1>10, <1>11, <1>12 DEF SafeInv, SingleRun, BatchRun

(* A restart leaves no thread and no executing or pending row.             *)
LEMMA RestartStep ==
    ASSUME TypeInv, SafeInv, Restart
    PROVE  SafeInv'
  <1> USE DEF SafeInv
  <1>1. /\ \A r \in Reqs : ~Running(r)'
        /\ UNCHANGED <<result, info, created, applied>>
        /\ \A o \in Ops :
              \/ status'[o] = status[o] /\ status[o] # "executing"
              \/ status'[o] = "unknown" /\ status[o] # "absent"
    BY DEF Restart, MigrateActiveToUnknown
  <1>2. Rows' = Rows /\ Rows \subseteq Ops
    BY <1>1 DEF Rows
  <1>3. \A o : Siblings(o)' = Siblings(o)
    BY <1>1, <1>2 DEF Siblings
  <1>4. KeyExclusion'
    BY <1>1, <1>2 DEF KeyExclusion
  <1>5. Ledger'
    BY <1>1 DEF Ledger, ItemsOf, IsSingle, Touched
  <1>6. OneRowOfKey' /\ BatchRowsTruthful'
    BY <1>1, <1>2, <1>3 DEF OneRowOfKey, BatchRowsTruthful, IsSingle, Touched
  <1> QED
    BY <1>1, <1>4, <1>5, <1>6 DEF Ownership, SingleRun, SingleRunOf, BatchRun,
       BatchRunOf

LEMMA NextSafeInv == TypeInv /\ SafeInv /\ [Next]_vars => SafeInv'
  <1> SUFFICES ASSUME TypeInv, SafeInv, [Next]_vars PROVE SafeInv'
    OBVIOUS
  <1>1. ASSUME NEW r \in Reqs, Call(r) PROVE SafeInv'
    BY <1>1, CallIsQuiet, QuietStep
  <1>2. ASSUME NEW r \in Reqs, Step(r) PROVE SafeInv'
    BY <1>2, QuietSteps, QuietStep, InsertStep, ClaimStep, ExecuteSteps, MarkStep
    DEF Step
  <1>3. ASSUME NEW o \in Ops, Expire(o) PROVE SafeInv'
    BY <1>3, QuietStep DEF Expire, Quiet, threadVars
  <1>4. CASE Restart
    BY <1>4, RestartStep
  <1>5. CASE UNCHANGED vars
    BY <1>5, QuietStep DEF vars, Quiet, threadVars
  <1> QED
    BY <1>1, <1>2, <1>3, <1>4, <1>5 DEF Next

-----------------------------------------------------------------------------
(* The answers.  A receipt is given in the step that reads the row, and    *)
(* the next step of any thread replaces it.                                *)
LEMMA ReceiptIsCurrent ==
    ASSUME NEW o \in Rows, UNCHANGED <<status, result>>, reply' = Receipt(o)
    PROVE  ReplyCurrent'
  <1>1. Verdict(o) = "ok" => status[o] = "completed"
    BY DEF Verdict
  <1> QED
    BY <1>1 DEF ReplyCurrent, Receipt, Rows

LEMMA NextReplyCurrent == TypeInv /\ ReplyCurrent /\ [Next]_vars => ReplyCurrent'
  <1> SUFFICES ASSUME TypeInv, ReplyCurrent, [Next]_vars PROVE ReplyCurrent'
    OBVIOUS
  <1>1. ASSUME reply'.kind # "receipt" PROVE ReplyCurrent'
    BY <1>1 DEF ReplyCurrent
  <1>2. /\ NoReply.kind # "receipt" /\ Failure.kind # "receipt"
        /\ \A o : PreviewOf(o).kind # "receipt"
    BY DEF NoReply, Failure, PreviewOf
  <1>3. ASSUME NEW r \in Reqs, NEW o \in Rows, Answer(r, Receipt(o)),
               UNCHANGED storeVars
        PROVE  ReplyCurrent'
    BY <1>3, ReceiptIsCurrent DEF Answer, storeVars
  <1>4. ASSUME NEW r \in Reqs, Call(r) PROVE ReplyCurrent'
    <2> PICK tool \in Tools, mailbox \in Mailboxes :
          \/ AskPreview(r, tool, mailbox)
          \/ \E key \in Keys : LookupKey(r, tool, mailbox, key)
          \/ \E o \in Ops : QueryReceipt(r, o, tool, mailbox)
          \/ \E o \in Ops, matches \in BOOLEAN :
                ReadExisting(r, o, tool, mailbox, matches)
      BY <1>4 DEF Call
    <2>1. UNCHANGED storeVars
      BY DEF AskPreview, LookupKey, QueryReceipt, ReadExisting
    <2>2. ASSUME NEW o \in Rows, ReplayTo(r, o, tool, mailbox, Receipt(o))
          PROVE  ReplyCurrent'
      BY <1>1, <1>2, <1>3, <2>1, <2>2 DEF ReplayTo, Answer
    <2>3. CASE AskPreview(r, tool, mailbox)
      BY <1>1, <1>2, <2>3 DEF AskPreview, StartPreview, GoTo
    <2>4. ASSUME NEW key \in Keys, LookupKey(r, tool, mailbox, key)
          PROVE  ReplyCurrent'
      <3> DEFINE o == Latest(mailbox, key)
      <3>1. CASE reply' \in {Failure, NoReply, PreviewOf(o)}
        BY <1>1, <1>2, <3>1
      <3>2. CASE o # NoOp /\ ReplayTo(r, o, tool, mailbox, Receipt(o))
        BY <2>2, <3>2, LatestIsLastRow DEF TypeInv, TypeOK, Bound
      <3> QED
        BY <2>4, <3>1, <3>2 DEF LookupKey, ReplayTo, StartPreview, Answer, GoTo
    <2>5. ASSUME NEW o \in Ops, QueryReceipt(r, o, tool, mailbox)
          PROVE  ReplyCurrent'
      BY <1>1, <1>2, <2>2, <2>5 DEF QueryReceipt, Answer
    <2>6. ASSUME NEW o \in Ops, NEW matches \in BOOLEAN,
                 ReadExisting(r, o, tool, mailbox, matches)
          PROVE  ReplyCurrent'
      BY <1>1, <1>2, <2>2, <2>6 DEF ReadExisting, Answer, GoTo
    <2> QED
      BY <2>3, <2>4, <2>5, <2>6
  <1>5. ASSUME NEW r \in Reqs, Step(r) PROVE ReplyCurrent'
    <2>1. CASE Report(r)
      <3>1. target[r] \in Rows
        BY <2>1 DEF Report, TypeInv, Bound
      <3> QED
        BY <1>1, <1>2, <1>3, <2>1, <3>1 DEF Report, Answer
    <2>2. ASSUME NEW o \in Ops, CreatePreview(r, o) PROVE ReplyCurrent'
      BY <1>1, <1>2, <2>2 DEF CreatePreview, Answer
    <2>3. ASSUME NEW i \in Items, SubmitItem(r, i) PROVE ReplyCurrent'
      BY <1>1, <1>2, <2>3 DEF SubmitItem
    <2>4. CASE \/ PreviewFails(r) \/ Connect(r) \/ Claim(r) \/ ClaimRefused(r)
               \/ MarkOutcome(r) \/ MarkFails(r)
      <3>1. reply' \in {Failure, NoReply}
        BY <2>4 DEF PreviewFails, Connect, Claim, ClaimRefused, MarkOutcome,
                    MarkFails, Answer, GoTo
      <3> QED
        BY <1>1, <1>2, <3>1
    <2>5. CASE RaiseBeforeSubmit(r) \/ SubmitOne(r) \/ ReturnBatch(r)
      <3>1. reply' = NoReply
        BY <2>5 DEF RaiseBeforeSubmit, SubmitOne, ReturnBatch, Raise, Finish, GoTo
      <3> QED
        BY <1>1, <1>2, <3>1
    <2> QED
      BY <1>5, <2>1, <2>2, <2>3, <2>4, <2>5 DEF Step
  <1>6. CASE Restart \/ \E o \in Ops : Expire(o)
    BY <1>1, <1>2, <1>6 DEF Restart, Expire
  <1>7. CASE UNCHANGED vars
    BY <1>7 DEF vars, storeVars, ReplyCurrent, Rows
  <1> QED
    BY <1>4, <1>5, <1>6, <1>7 DEF Next

-----------------------------------------------------------------------------
(* The invariant that everything below follows from: ownership of running  *)
(* rows, exclusion within a key, and their agreement with the ledger.      *)
THEOREM Invariance == Spec => []IInv
  <1>1. Init => IInv
    BY InitIInv
  <1>2. IInv /\ [Next]_vars => IInv'
    <2>1. IInv <=> TypeInv /\ SafeInv /\ ReplyCurrent
      BY DEF IInv, SafeInv
    <2> QED
      BY <2>1, NextTypeInv, NextSafeInv, NextReplyCurrent DEF IInv, SafeInv
  <1> QED
    BY <1>1, <1>2, PTL DEF Spec

(* No two threads ever run one operation or one key: the conditional       *)
(* UPDATE of begin_confirm is enough, whatever the threads read before.    *)
THEOREM Exclusion == Spec => []ExclusiveExecution
  <1>1. IInv => ExclusiveExecution
    <2> SUFFICES ASSUME IInv, NEW r \in Reqs, NEW s \in Reqs, r # s,
                        Running(r), Running(s)
                 PROVE  /\ target[r] # target[s]
                        /\ target[s] \notin Siblings(target[r])
      BY DEF ExclusiveExecution
    <2>1. /\ status[target[r]] = "executing" /\ status[target[s]] = "executing"
          /\ target[r] # target[s] /\ target[r] \in Rows
      BY DEF IInv, Ownership, TypeInv, Bound
    <2>2. "executing" \in Consumed
      BY DEF Consumed, Statuses, Claimable
    <2> QED
      BY <2>1, <2>2 DEF IInv, KeyExclusion, KeyConsumed
  <1> QED
    BY <1>1, Invariance, PTL

(* A single-effect write takes effect at most once, per operation and per  *)
(* idempotency key of a mailbox, in spite of retries and restarts.         *)
THEOREM OnceAtMost == Spec => []AtMostOnce
  <1>1. IInv => AtMostOnce
    BY DEF IInv, Ledger, OneRowOfKey, AtMostOnce, Rows
  <1> QED
    BY <1>1, Invariance, PTL

(* The rows of single-effect writes agree with what Exchange did.          *)
THEOREM SingleTruth == Spec => []SingleRowsTruthful
  <1>1. IInv => SingleRowsTruthful
    <2> SUFFICES ASSUME IInv, NEW o \in Rows, IsSingle(o)
                 PROVE  /\ status[o] = "completed" => applied[o][OneItem] = 1
                        /\ status[o] \in {"pending", "failed"} => ~Touched(o)
      BY DEF SingleRowsTruthful
    <2>1. o \in Ops /\ ItemsOf(o) = {OneItem} /\ OneItem \in Items
      BY RunAssumption DEF Rows, IsSingle, ItemsOf
    <2>2. applied[o][OneItem] \in Nat
      BY <2>1, RunAssumption DEF IInv, TypeInv, TypeOK
    <2> QED
      BY <2>1, <2>2 DEF IInv, Ledger
  <1> QED
    BY <1>1, Invariance, PTL

(* A stored batch result claims no item that Exchange did not apply.       *)
THEOREM BatchTruth == Spec => []BatchRowsTruthful
  <1>1. IInv => BatchRowsTruthful
    BY DEF IInv
  <1> QED
    BY <1>1, Invariance, PTL

(* A receipt is true of Exchange when it is given.                         *)
THEOREM ReceiptTruth == Spec => []ReceiptsTruthful
  <1>1. IInv => ReceiptsTruthful
    <2> SUFFICES ASSUME IInv, reply.kind = "receipt"
                 PROVE  /\ reply.verdict = "ok" =>
                              \A i \in ItemsOf(reply.op) : applied[reply.op][i] > 0
                        /\ IsSingle(reply.op) /\ reply.status = "failed" =>
                              ~Touched(reply.op)
      BY DEF ReceiptsTruthful
    <2>1. reply.op \in Ops
      BY DEF IInv, ReplyCurrent, Rows
    <2> QED
      BY <2>1 DEF IInv, ReplyCurrent, Ledger
  <1> QED
    BY <1>1, Invariance, PTL

(* Who changes a row, and what may be in it before: a claim changes a      *)
(* pending or failed row, mark and a restart change active ones.           *)
LEMMA RowSteps ==
    ASSUME IInv, [Next]_vars, NEW o \in Ops,
           status[o] \in {"completed", "partial", "unknown"}
    PROVE  status'[o] = status[o] /\ result'[o] = result[o]
  <1>0. status \in [Ops -> Statuses \cup {"absent"}] /\ result \in [Ops -> Results]
    BY DEF IInv, TypeInv, TypeOK, StoreTypeOK
  <1>1. CASE UNCHANGED storeVars
    BY <1>1 DEF storeVars
  <1>2. ASSUME NEW r \in Reqs, NEW p \in Ops, CreatePreview(r, p)
        PROVE  status'[o] = status[o] /\ result'[o] = result[o]
    BY <1>0, <1>2 DEF CreatePreview, Insert
  <1>3. ASSUME NEW r \in Reqs, Claim(r)
        PROVE  status'[o] = status[o] /\ result'[o] = result[o]
    BY <1>0, <1>3 DEF Claim, BeginConfirm, CanClaim, Claimable
  <1>4. ASSUME NEW r \in Reqs, MarkOutcome(r)
        PROVE  status'[o] = status[o] /\ result'[o] = result[o]
    <2>1. status[target[r]] = "executing"
      BY <1>4 DEF MarkOutcome, IInv, Ownership
    <2> QED
      BY <1>0, <1>4, <2>1 DEF MarkOutcome, Mark
  <1>5. CASE Restart
    BY <1>0, <1>5 DEF Restart, MigrateActiveToUnknown
  <1>6. ASSUME NEW r \in Reqs, Call(r) \/ Step(r)
        PROVE  \/ UNCHANGED storeVars
               \/ \E p \in Ops : CreatePreview(r, p)
               \/ Claim(r) \/ MarkOutcome(r)
    <2>1. Call(r) => UNCHANGED storeVars
      BY DEF Call, AskPreview, LookupKey, QueryReceipt, ReadExisting
    <2>2. \/ PreviewFails(r) \/ Connect(r) \/ ClaimRefused(r) \/ Report(r)
          \/ RaiseBeforeSubmit(r) \/ SubmitOne(r) \/ ReturnBatch(r) \/ MarkFails(r)
          \/ \E i \in Items : SubmitItem(r, i)
          => UNCHANGED storeVars
      BY DEF PreviewFails, Connect, ClaimRefused, Report, RaiseBeforeSubmit,
             SubmitOne, SubmitItem, ReturnBatch, MarkFails
    <2> QED
      BY <1>6, <2>1, <2>2 DEF Step
  <1>7. (\E p \in Ops : Expire(p)) \/ UNCHANGED vars => UNCHANGED storeVars
    BY DEF Expire, vars
  <1> QED
    BY <1>1, <1>2, <1>3, <1>4, <1>5, <1>6, <1>7 DEF Next

(* No step changes a completed, partial or unknown row again, although     *)
(* mark updates by id alone and threads outlive what they read.            *)
THEOREM Finality == Spec => FinalIsFinal
  <1>1. IInv /\ [Next]_vars =>
          [\A o \in Ops : status[o] \in {"completed", "partial", "unknown"} =>
              status'[o] = status[o] /\ result'[o] = result[o]]_vars
    BY RowSteps
  <1> QED
    BY <1>1, Invariance, PTL DEF Spec, FinalIsFinal

(* An effect belongs to a row that is executing, and is submitted by the   *)
(* thread that claimed it.                                                 *)
LEMMA EffectsInsideClaims ==
    ASSUME IInv, [Next]_vars, NEW o \in Ops, applied'[o] # applied[o]
    PROVE  /\ status[o] = "executing"
           /\ \E r \in Reqs : pc[r] = "execute" /\ target[r] = o
  <1>1. PICK r \in Reqs : SubmitOne(r) \/ \E i \in Items : SubmitItem(r, i)
    BY DEF Next, Call, AskPreview, LookupKey, QueryReceipt, ReadExisting, Step,
           CreatePreview, PreviewFails, Connect, Claim, ClaimRefused, Report,
           RaiseBeforeSubmit, ReturnBatch, MarkOutcome, MarkFails, Expire,
           Restart, vars
  <1>2. pc[r] = "execute" /\ target[r] \in Ops
    BY <1>1 DEF SubmitOne, SubmitItem, IInv, TypeInv, Bound, Rows
  <1>3. PICK i \in Items : Apply(target[r], i)
    BY <1>1, RunAssumption DEF SubmitOne, SubmitItem
  <1>4. target[r] = o
    BY <1>2, <1>3, ApplyEffect DEF IInv
  <1> QED
    BY <1>2, <1>4 DEF IInv, Ownership

-----------------------------------------------------------------------------
(* What a restart interrupts.  The interrupted operations are unknown rows *)
(* for good, which excludes every row of their key.                        *)
InterruptedAreUnknown == \A o \in interrupted : status[o] = "unknown"

LEMMA NextInterrupted ==
    ASSUME IInv, InterruptedAreUnknown, [Next]_vars
    PROVE  InterruptedAreUnknown'
  <1>1. \A o \in interrupted : o \in Ops /\ status'[o] = "unknown"
    BY RowSteps DEF InterruptedAreUnknown, IInv, TypeInv, TypeOK
  <1>2. CASE Restart
    <2>1. \A o \in Ops : status[o] = "executing" => status'[o] = "unknown"
      BY <1>2 DEF Restart, MigrateActiveToUnknown
    <2> QED
      BY <1>1, <1>2, <2>1 DEF InterruptedAreUnknown, Restart
  <1>3. CASE UNCHANGED interrupted
    BY <1>1, <1>3 DEF InterruptedAreUnknown
  <1>4. ASSUME NEW r \in Reqs, Call(r) \/ Step(r) PROVE UNCHANGED interrupted
    <2>1. Call(r) => UNCHANGED interrupted
      BY DEF Call, AskPreview, LookupKey, QueryReceipt, ReadExisting
    <2>2. Step(r) => UNCHANGED interrupted
      BY DEF Step, CreatePreview, PreviewFails, Connect, Claim, ClaimRefused, Report,
             RaiseBeforeSubmit, SubmitOne, SubmitItem, ReturnBatch, MarkOutcome,
             MarkFails
    <2> QED
      BY <1>4, <2>1, <2>2
  <1>5. (\E o \in Ops : Expire(o)) \/ UNCHANGED vars => UNCHANGED interrupted
    BY DEF Expire, vars
  <1> QED
    BY <1>2, <1>3, <1>4, <1>5 DEF Next

(* No operation that was executing when a process died, and no other one   *)
(* of its key, ever takes effect again: its row is unknown, so its key is  *)
(* consumed and no row of the key can be executing.                        *)
THEOREM InterruptedStaysClosed == Spec => InterruptedNeverResumes
  <1>1. Init => InterruptedAreUnknown
    BY DEF Init, InterruptedAreUnknown
  <1>2. IInv /\ InterruptedAreUnknown /\ [Next]_vars => InterruptedAreUnknown'
    BY NextInterrupted
  <1>3. IInv /\ InterruptedAreUnknown /\ [Next]_vars =>
          [\A o \in interrupted : \A s \in {o} \cup Siblings(o) :
              applied'[s] = applied[s]]_vars
    <2> SUFFICES ASSUME IInv, InterruptedAreUnknown, [Next]_vars,
                        NEW o \in interrupted, NEW s \in {o} \cup Siblings(o),
                        applied'[s] # applied[s]
                 PROVE  FALSE
      OBVIOUS
    <2>1. o \in Ops /\ s \in Ops /\ status[o] = "unknown"
      BY DEF InterruptedAreUnknown, IInv, TypeInv, TypeOK, Siblings, Rows
    <2>2. status[s] = "executing"
      BY <2>1, EffectsInsideClaims
    <2>3. s \in Siblings(o) /\ s \in Rows /\ o \in Rows
      BY <2>1, <2>2 DEF Rows
    <2>4. o \in Siblings(s)
      BY <2>3 DEF Siblings
    <2>5. "unknown" \in Consumed
      BY DEF Consumed, Statuses, Claimable
    <2> QED
      BY <2>1, <2>2, <2>3, <2>4, <2>5 DEF IInv, KeyExclusion, KeyConsumed
  <1> QED
    BY <1>1, <1>2, <1>3, Invariance, PTL DEF Spec, InterruptedNeverResumes
=============================================================================
