------------------------- MODULE RunWriteRefinement -------------------------
(***************************************************************************)
(* RunWrite implements OnceOnly for every value of the constants: each     *)
(* step of Next is a step of OnceOnly on one intent, an interruption, or   *)
(* leaves every intent as it is.                                           *)
(***************************************************************************)
EXTENDS RunWriteSafety

USE DEF Running

(* The other rows of a single-effect row's intent are its siblings.        *)
LEMMA CompanionsAreSiblings ==
    ASSUME NEW t \in Rows, NEW o \in Members(IntentOf(t)) \ {t}
    PROVE  o \in Siblings(t)
  BY ScopeAssumption DEF Members, IntentOf, Siblings, Rows

LEMMA IntentsOfRows ==
    ASSUME TypeInv, NEW t \in Rows
    PROVE  IntentOf(t) \in AllIntents
  BY DEF IntentOf, AllIntents, TypeInv, TypeOK, StoreTypeOK, Infos, NoInfo, Rows

-----------------------------------------------------------------------------
(* The mapped variables, and what a step that touches nobody's intent is.  *)
Phases == [i \in AllIntents |-> PhaseOf(i)]
Dones  == [i \in AllIntents |-> DoneOf(i)]
Unmoved == Phases' = Phases /\ Dones' = Dones

(* A step that changes the status of one row t at most, and the ledger of  *)
(* t at most, leaves the other intents alone.                              *)
OnlyRow(t) ==
    /\ t \in Rows /\ status'[t] # "absent"
    /\ \A o \in Ops \ {t} : status'[o] = status[o] /\ applied'[o] = applied[o]
    /\ info' = info

LEMMA OtherIntents ==
    ASSUME NEW t, OnlyRow(t), NEW i, t \notin Members(i)
    PROVE  PhaseOf(i)' = PhaseOf(i) /\ DoneOf(i)' = DoneOf(i)
  <1>1. /\ Members(i)' = Members(i)
        /\ \A o \in Members(i) : /\ status'[o] = status[o]
                                 /\ applied'[o] = applied[o]
    BY DEF OnlyRow, Members, IsSingle, IntentOf, Rows
  <1>2. PhaseOf(i)' = PhaseOf(i)
    BY <1>1 DEF PhaseOf
  <1>3. DoneOf(i)' = DoneOf(i)
    BY <1>1 DEF DoneOf, Touched
  <1> QED
    BY <1>2, <1>3

(* A batch row belongs to no intent.                                       *)
LEMMA BatchSteps ==
    ASSUME NEW t, OnlyRow(t), ~IsSingle(t)
    PROVE  Unmoved
  <1>1. \A i : t \notin Members(i)
    BY DEF Members
  <1> QED
    BY <1>1, OtherIntents DEF Unmoved, Phases, Dones

(* While one row of an intent executes, or can be claimed, no other row of *)
(* it is consumed or took effect.                                          *)
LEMMA LoneRow ==
    ASSUME IInv, NEW t \in Rows, IsSingle(t), ~KeyConsumed(t),
           NEW o \in Members(IntentOf(t)) \ {t}
    PROVE  o \in Ops /\ status[o] \in Claimable /\ ~Touched(o)
  <1>1. o \in Siblings(t) /\ o \in Ops /\ status[o] # "absent" /\ IsSingle(o)
    BY CompanionsAreSiblings DEF Members
  <1>2. status[o] \in Claimable
    BY <1>1 DEF KeyConsumed, Consumed, IInv, TypeInv, TypeOK, StoreTypeOK
  <1> QED
    BY <1>1, <1>2 DEF IInv, Ledger, Claimable

(* The phase of an intent with a row that is not alone in it.              *)
LEMMA PhaseByRow ==
    ASSUME NEW i, NEW t \in Members(i),
           \A o \in Members(i) \ {t} : status[o] \in Claimable
    PROVE  PhaseOf(i) = IF status[t] = "executing" THEN "running"
                        ELSE IF status[t] \in Consumed THEN "settled" ELSE "open"
  <1> DEFINE statuses == {status[o] : o \in Members(i)}
  <1>1. status[t] \in statuses /\ \A x \in statuses : x \in Claimable \/ x = status[t]
    OBVIOUS
  <1>2. "executing" \in statuses <=> status[t] = "executing"
    BY <1>1 DEF Claimable
  <1>3. statuses \cap Consumed # {} <=> status[t] \in Consumed
    BY <1>1 DEF Claimable, Consumed
  <1> HIDE DEF statuses
  <1> QED
    BY <1>2, <1>3 DEF PhaseOf, statuses

LEMMA DoneByRow ==
    ASSUME NEW i, NEW t \in Members(i),
           \A o \in Members(i) \ {t} : ~Touched(o)
    PROVE  DoneOf(i) = IF Touched(t) THEN {<<t, applied[t][OneItem]>>} ELSE {}
  BY DEF DoneOf

(* A step on one single-effect row, seen from its intent.                  *)
LEMMA RowStep ==
    ASSUME IInv, NEW t, OnlyRow(t), IsSingle(t), ~KeyConsumed(t)
    PROVE  /\ IntentOf(t) \in AllIntents
           /\ PhaseOf(IntentOf(t)) =
                 IF status[t] = "executing" THEN "running"
                 ELSE IF status[t] \in Consumed THEN "settled" ELSE "open"
           /\ PhaseOf(IntentOf(t))' =
                 IF status'[t] = "executing" THEN "running"
                 ELSE IF status'[t] \in Consumed THEN "settled" ELSE "open"
           /\ DoneOf(IntentOf(t)) =
                 IF Touched(t) THEN {<<t, applied[t][OneItem]>>} ELSE {}
           /\ DoneOf(IntentOf(t))' =
                 IF Touched(t)' THEN {<<t, applied'[t][OneItem]>>} ELSE {}
           /\ Phases' = [Phases EXCEPT ![IntentOf(t)] = PhaseOf(IntentOf(t))']
           /\ Dones' = [Dones EXCEPT ![IntentOf(t)] = DoneOf(IntentOf(t))']
  <1> DEFINE i == IntentOf(t)
  <1>1. t \in Rows /\ t \in Ops /\ i \in AllIntents
    BY IntentsOfRows DEF OnlyRow, IInv, Rows
  <1>2. t \in Members(i) /\ i' = i
    BY <1>1 DEF Members, OnlyRow, IntentOf, Rows
  <1>3. \A o \in Members(i) \ {t} : o \in Ops /\ status[o] \in Claimable /\ ~Touched(o)
    BY <1>1, LoneRow
  <1>4. /\ Members(i)' = Members(i)
        /\ \A o \in Members(i) \ {t} : status'[o] \in Claimable /\ ~Touched(o)'
    BY <1>1, <1>2, <1>3 DEF OnlyRow, Members, IsSingle, IntentOf, Rows, Touched
  <1>5. /\ PhaseOf(i) = IF status[t] = "executing" THEN "running"
                        ELSE IF status[t] \in Consumed THEN "settled" ELSE "open"
        /\ DoneOf(i) = IF Touched(t) THEN {<<t, applied[t][OneItem]>>} ELSE {}
    BY <1>2, <1>3, PhaseByRow, DoneByRow
  <1>6. PhaseOf(i)' = IF status'[t] = "executing" THEN "running"
                      ELSE IF status'[t] \in Consumed THEN "settled" ELSE "open"
    <2> DEFINE statuses == {status'[o] : o \in Members(i)}
    <2>1. status'[t] \in statuses /\ \A x \in statuses : x \in Claimable \/ x = status'[t]
      BY <1>2, <1>4
    <2>2. "executing" \in statuses <=> status'[t] = "executing"
      BY <2>1 DEF Claimable
    <2>3. statuses \cap Consumed # {} <=> status'[t] \in Consumed
      BY <2>1 DEF Claimable, Consumed
    <2> HIDE DEF statuses
    <2> QED
      BY <1>2, <1>4, <2>2, <2>3 DEF PhaseOf, statuses
  <1>7. DoneOf(i)' = IF Touched(t)' THEN {<<t, applied'[t][OneItem]>>} ELSE {}
    BY <1>2, <1>4 DEF DoneOf
  <1>8. \A j \in AllIntents \ {i} : t \notin Members(j)
    BY DEF Members
  <1>9. /\ Phases' = [Phases EXCEPT ![i] = PhaseOf(i)']
        /\ Dones' = [Dones EXCEPT ![i] = DoneOf(i)']
    BY <1>1, <1>2, <1>8, OtherIntents DEF Phases, Dones
  <1> QED
    BY <1>1, <1>2, <1>5, <1>6, <1>7, <1>9

-----------------------------------------------------------------------------
LEMMA InitRefines == Init => Once!Init
  <1> SUFFICES ASSUME Init PROVE Once!Init
    OBVIOUS
  <1>1. \A i : Members(i) = {}
    BY DEF Init, StoreInit, Members
  <1>2. \A i : PhaseOf(i) = "open" /\ DoneOf(i) = {}
    BY <1>1 DEF PhaseOf, DoneOf
  <1> QED
    BY <1>2 DEF Once!Init

LEMMA UnmovedStutters == Unmoved => UNCHANGED Once!vars
  BY DEF Unmoved, Phases, Dones, Once!vars

(* Steps that change no status, no identity of a row and no effect.        *)
LEMMA QuietRefines == UNCHANGED <<status, info, applied>> => Unmoved
  <1> SUFFICES ASSUME UNCHANGED <<status, info, applied>> PROVE Unmoved
    OBVIOUS
  <1>1. \A i : Members(i)' = Members(i)
    BY DEF Members, IsSingle, IntentOf
  <1>2. \A i : PhaseOf(i)' = PhaseOf(i) /\ DoneOf(i)' = DoneOf(i)
    BY <1>1 DEF PhaseOf, DoneOf, Touched
  <1> QED
    BY <1>2 DEF Unmoved, Phases, Dones

(* A new pending row is a new way to run an intent, and changes nothing.   *)
LEMMA InsertRefines ==
    ASSUME IInv, NEW r \in Reqs, NEW o \in Ops, CreatePreview(r, o)
    PROVE  Unmoved
  <1>1. /\ status[o] = "absent" /\ status'[o] = "pending" /\ ~Touched(o)
        /\ applied' = applied
        /\ \A p \in Ops \ {o} : info'[p] = info[p] /\ status'[p] = status[p]
    BY DEF CreatePreview, Insert, IInv, Ledger, TypeInv, TypeOK, StoreTypeOK
  <1>2. ASSUME NEW i PROVE Members(i)' \in {Members(i), Members(i) \cup {o}}
    <2>1. o \notin Members(i) /\ Members(i) \subseteq Ops
      BY <1>1 DEF Members
    <2>2. \A p \in Ops \ {o} : p \in Members(i)' <=> p \in Members(i)
      BY <1>1 DEF Members, IsSingle, IntentOf
    <2>3. Members(i)' \subseteq Ops
      BY DEF Members
    <2> QED
      BY <2>1, <2>2, <2>3
  <1>3. ASSUME NEW i PROVE PhaseOf(i)' = PhaseOf(i) /\ DoneOf(i)' = DoneOf(i)
    <2>1. \A p \in Members(i) : status'[p] = status[p] /\ p # o
      BY <1>1 DEF Members
    <2>2. DoneOf(i)' = DoneOf(i)
      BY <1>1, <1>2, <2>1 DEF DoneOf, Touched
    <2>3. \/ {status'[p] : p \in Members(i)'} = {status[p] : p \in Members(i)}
          \/ {status'[p] : p \in Members(i)'} =
                {status[p] : p \in Members(i)} \cup {"pending"}
      BY <1>1, <1>2, <2>1
    <2>4. PhaseOf(i)' = PhaseOf(i)
      BY <2>3 DEF PhaseOf, Consumed, Claimable
    <2> QED
      BY <2>2, <2>4
  <1> QED
    BY <1>3 DEF Unmoved, Phases, Dones

(* What the invariant says of the row of a running thread.                 *)
LEMMA RunningRow ==
    ASSUME IInv, NEW r \in Reqs, Running(r)
    PROVE  /\ target[r] \in Rows /\ target[r] \in Ops
           /\ status[target[r]] = "executing" /\ ~KeyConsumed(target[r])
           /\ SingleRunOf(r)
           /\ pc[r] = "mark" => work[r].status \in Outcomes
  <1>1. target[r] \in Rows /\ (pc[r] = "mark" => work[r].status \in Outcomes)
    BY DEF IInv, TypeInv, Bound
  <1>2. target[r] \in Ops /\ status[target[r]] = "executing"
    BY <1>1 DEF IInv, Ownership, Rows
  <1>3. ~KeyConsumed(target[r]) /\ SingleRunOf(r)
    BY <1>1, <1>2 DEF IInv, KeyExclusion, SingleRun
  <1> QED
    BY <1>1, <1>2, <1>3

(* Claiming a single-effect operation begins its intent.                   *)
LEMMA ClaimRefines ==
    ASSUME IInv, NEW r \in Reqs, Claim(r)
    PROVE  [Once!Next]_(Once!vars)
  <1>0. PICK t : t = target[r]
    OBVIOUS
  <1> DEFINE i == IntentOf(t)
  <1>1. /\ t \in Rows /\ t \in Ops /\ status[t] \in Claimable /\ ~KeyConsumed(t)
        /\ status' = [status EXCEPT ![t] = "executing"]
        /\ UNCHANGED <<info, applied>>
    BY <1>0 DEF Claim, BeginConfirm, CanClaim, IInv, TypeInv, Bound, Rows
  <1>2. OnlyRow(t) /\ status'[t] = "executing"
    BY <1>1 DEF OnlyRow, IInv, TypeInv, TypeOK, StoreTypeOK
  <1>3. CASE ~IsSingle(t)
    BY <1>2, <1>3, BatchSteps, UnmovedStutters
  <1>4. CASE IsSingle(t)
    <2>0. status[t] # "executing" /\ status[t] \notin Consumed
      BY <1>1 DEF Claimable, Consumed
    <2>1. /\ i \in AllIntents /\ PhaseOf(i) = "open" /\ PhaseOf(i)' = "running"
          /\ Phases' = [Phases EXCEPT ![i] = PhaseOf(i)']
          /\ Dones' = [Dones EXCEPT ![i] = DoneOf(i)']
      BY <1>1, <1>2, <1>4, <2>0, RowStep
    <2>2. DoneOf(i)' = DoneOf(i)
      <3>1. Touched(t)' = Touched(t)
        BY <1>1 DEF Touched
      <3> QED
        BY <1>1, <1>2, <1>4, <3>1, RowStep
    <2>3. Phases' = [Phases EXCEPT ![i] = "running"] /\ Dones' = Dones
      BY <2>1, <2>2 DEF Dones
    <2>4. Once!Begin(i)
      BY <2>1, <2>3 DEF Once!Begin, Phases, Dones
    <2> QED
      BY <2>1, <2>4 DEF Once!Next
  <1> QED
    BY <1>3, <1>4

(* The effect of a single-effect operation is the one its intent takes.    *)
LEMMA SubmitRefines ==
    ASSUME IInv, NEW r \in Reqs,
           SubmitOne(r) \/ \E i \in Items : SubmitItem(r, i)
    PROVE  [Once!Next]_(Once!vars)
  <1>0. PICK t : t = target[r]
    OBVIOUS
  <1> DEFINE i == IntentOf(t)
  <1>1. /\ Running(r) /\ pc[r] = "execute" /\ t \in Rows /\ t \in Ops
        /\ status[t] = "executing" /\ ~KeyConsumed(t) /\ SingleRunOf(r)
        /\ UNCHANGED <<status, info>>
    <2>1. pc[r] = "execute" /\ UNCHANGED <<status, info>>
      BY DEF SubmitOne, SubmitItem, storeVars
    <2> QED
      BY <1>0, <2>1, RunningRow
  <1>2. CASE UNCHANGED applied
    BY <1>1, <1>2, QuietRefines, UnmovedStutters
  <1>3. CASE ~UNCHANGED applied /\ \E j \in Items : Apply(t, j)
    <2>1. OnlyRow(t)
      BY <1>1, <1>3, ApplyEffect DEF OnlyRow, IInv
    <2>2. CASE ~IsSingle(t)
      BY <2>1, <2>2, BatchSteps, UnmovedStutters
    <2>3. CASE IsSingle(t)
      <3>1. Apply(t, OneItem)
        <4>1. SubmitOne(r)
          BY <1>0, <2>3 DEF SubmitItem, IsSingle
        <4> QED
          BY <1>0, <1>3, <4>1 DEF SubmitOne
      <3>2. OneItem \in Items /\ ~Touched(t) /\ applied[t][OneItem] \in Nat
        BY <1>0, <1>1, <2>3, RunAssumption DEF SingleRunOf, IInv, TypeInv, TypeOK
      <3>3. applied'[t][OneItem] = 1 /\ Touched(t)'
        <4>1. applied[t][OneItem] = 0
          BY <3>2 DEF Touched
        <4>2. applied'[t][OneItem] = 1
          BY <1>1, <3>1, <3>2, <4>1, ApplyEffect DEF IInv
        <4> QED
          BY <3>2, <4>2 DEF Touched
      <3>4. /\ i \in AllIntents /\ PhaseOf(i) = "running" /\ PhaseOf(i)' = "running"
            /\ DoneOf(i) = {} /\ DoneOf(i)' = {<<t, 1>>}
            /\ Phases' = [Phases EXCEPT ![i] = PhaseOf(i)']
            /\ Dones' = [Dones EXCEPT ![i] = DoneOf(i)']
        BY <1>1, <2>1, <2>3, <3>2, <3>3, RowStep
      <3>5. Phases' = Phases /\ Dones' = [Dones EXCEPT ![i] = {<<t, 1>>}]
        BY <3>4 DEF Phases
      <3>6. Once!Take(i, <<t, 1>>)
        BY <3>4, <3>5 DEF Once!Take, Phases, Dones
      <3> QED
        BY <1>1, <3>4, <3>6 DEF Once!Next
    <2> QED
      BY <2>2, <2>3
  <1> QED
    BY <1>0, <1>2, <1>3, RunAssumption DEF SubmitOne, SubmitItem

(* mark settles the intent, or releases it if it had no effect.            *)
LEMMA MarkRefines ==
    ASSUME IInv, NEW r \in Reqs, MarkOutcome(r)
    PROVE  [Once!Next]_(Once!vars)
  <1>0. PICK t : t = target[r]
    OBVIOUS
  <1> DEFINE i == IntentOf(t)
  <1>1. /\ Running(r) /\ pc[r] = "mark" /\ t \in Rows /\ t \in Ops
        /\ status[t] = "executing" /\ ~KeyConsumed(t) /\ SingleRunOf(r)
        /\ work[r].status \in Outcomes
        /\ status' = [status EXCEPT ![t] = work[r].status]
        /\ UNCHANGED <<info, applied>>
    <2>1. /\ pc[r] = "mark" /\ UNCHANGED <<info, applied>>
          /\ status' = [status EXCEPT ![t] = work[r].status]
      BY <1>0 DEF MarkOutcome, Mark
    <2> QED
      BY <1>0, <2>1, RunningRow
  <1>2. status'[t] = work[r].status /\ OnlyRow(t)
    BY <1>1 DEF OnlyRow, Outcomes, IInv, TypeInv, TypeOK, StoreTypeOK
  <1>3. CASE ~IsSingle(t)
    BY <1>2, <1>3, BatchSteps, UnmovedStutters
  <1>4. CASE IsSingle(t)
    <2>0. /\ Touched(t)' = Touched(t) /\ status'[t] # "executing"
          /\ status'[t] \in Consumed <=> work[r].status # "failed"
      BY <1>1, <1>2 DEF Touched, Outcomes, Consumed, Claimable, Statuses
    <2>1. /\ i \in AllIntents /\ PhaseOf(i) = "running"
          /\ PhaseOf(i)' = IF work[r].status = "failed" THEN "open" ELSE "settled"
          /\ DoneOf(i) = IF Touched(t) THEN {<<t, applied[t][OneItem]>>} ELSE {}
          /\ DoneOf(i)' = DoneOf(i)
          /\ Phases' = [Phases EXCEPT ![i] = PhaseOf(i)']
          /\ Dones' = [Dones EXCEPT ![i] = DoneOf(i)']
      BY <1>1, <1>2, <1>4, <2>0, RowStep
    <2>2. Dones' = Dones
      BY <2>1 DEF Dones
    <2>3. CASE work[r].status = "failed"
      <3>1. DoneOf(i) = {}
        BY <1>0, <1>1, <1>4, <2>1, <2>3 DEF SingleRunOf
      <3>2. Once!Release(i)
        BY <2>1, <2>2, <2>3, <3>1 DEF Once!Release, Phases, Dones
      <3> QED
        BY <2>1, <3>2 DEF Once!Next
    <2>4. CASE work[r].status # "failed"
      <3>1. Once!Settle(i)
        BY <2>1, <2>2, <2>4 DEF Once!Settle, Phases, Dones
      <3> QED
        BY <2>1, <3>1 DEF Once!Next
    <2> QED
      BY <2>3, <2>4
  <1> QED
    BY <1>3, <1>4

(* A restart interrupts: it settles the intents with a live row.           *)
LEMMA RestartRefines ==
    ASSUME IInv, Restart
    PROVE  [Once!Next]_(Once!vars)
  <1>1. /\ UNCHANGED <<info, applied>>
        /\ \A o \in Ops :
              \/ status'[o] = status[o] /\ status[o] # "executing"
              \/ status'[o] = "unknown" /\ status[o] # "absent"
    BY DEF Restart, MigrateActiveToUnknown
  <1>2. \A i : Members(i)' = Members(i) /\ Members(i) \subseteq Ops
    BY <1>1 DEF Members, IsSingle, IntentOf
  <1>3. \A i : DoneOf(i)' = DoneOf(i)
    BY <1>1, <1>2 DEF DoneOf, Touched
  <1>4. \A i : PhaseOf(i) \in {"open", "running", "settled"}
    BY DEF PhaseOf
  <1>5. ASSUME NEW i PROVE PhaseOf(i)' \in {PhaseOf(i), "settled"}
    <2>1. "unknown" \in Consumed /\ "executing" \in Consumed
      BY DEF Consumed, Statuses, Claimable
    <2>2. \A o \in Members(i) : status'[o] # "executing"
      BY <1>1, <1>2
    <2>3. PhaseOf(i)' = IF \E o \in Members(i) : status'[o] \in Consumed
                        THEN "settled" ELSE "open"
      BY <1>2, <2>2 DEF PhaseOf
    <2>4. PhaseOf(i) # "open" => \E o \in Members(i) : status[o] \in Consumed
      BY <2>1 DEF PhaseOf
    <2>5. ASSUME NEW o \in Members(i), status[o] \in Consumed
          PROVE  status'[o] \in Consumed
      BY <1>1, <1>2, <2>1, <2>5
    <2> QED
      BY <2>3, <2>4, <2>5
  <1>6. Once!Interrupt
    BY <1>3, <1>4, <1>5 DEF Once!Interrupt
  <1> QED
    BY <1>6 DEF Once!Next

(* The code keeps the promise of OnceOnly.                                 *)
THEOREM Refinement == Spec => ImplementsOnceOnly
  <1>1. Init => Once!Init
    BY InitRefines
  <1>2. IInv /\ [Next]_vars => [Once!Next]_(Once!vars)
    <2> SUFFICES ASSUME IInv, [Next]_vars PROVE [Once!Next]_(Once!vars)
      OBVIOUS
    <2>1. CASE UNCHANGED <<status, info, applied>>
      BY <2>1, QuietRefines, UnmovedStutters
    <2>2. ASSUME NEW r \in Reqs, Call(r) \/ Step(r)
          PROVE  \/ UNCHANGED <<status, info, applied>>
                 \/ \E o \in Ops : CreatePreview(r, o)
                 \/ Claim(r) \/ MarkOutcome(r)
                 \/ SubmitOne(r) \/ \E i \in Items : SubmitItem(r, i)
      <3>1. Call(r) => UNCHANGED <<status, info, applied>>
        BY DEF Call, AskPreview, LookupKey, QueryReceipt, ReadExisting, storeVars
      <3>2. \/ PreviewFails(r) \/ Connect(r) \/ ClaimRefused(r) \/ Report(r)
            \/ RaiseBeforeSubmit(r) \/ ReturnBatch(r) \/ MarkFails(r)
            => UNCHANGED <<status, info, applied>>
        BY DEF PreviewFails, Connect, ClaimRefused, Report, RaiseBeforeSubmit,
               ReturnBatch, MarkFails, storeVars
      <3> QED
        BY <2>2, <3>1, <3>2 DEF Step
    <2>3. (\E o \in Ops : Expire(o)) \/ UNCHANGED vars
          => UNCHANGED <<status, info, applied>>
      BY DEF Expire, vars, storeVars
    <2>4. ASSUME NEW r \in Reqs, NEW o \in Ops, CreatePreview(r, o)
          PROVE  [Once!Next]_(Once!vars)
      BY <2>4, InsertRefines, UnmovedStutters
    <2>5. ASSUME NEW r \in Reqs, Claim(r) PROVE [Once!Next]_(Once!vars)
      BY <2>5, ClaimRefines
    <2>6. ASSUME NEW r \in Reqs, SubmitOne(r) \/ \E i \in Items : SubmitItem(r, i)
          PROVE  [Once!Next]_(Once!vars)
      BY <2>6, SubmitRefines
    <2>7. ASSUME NEW r \in Reqs, MarkOutcome(r) PROVE [Once!Next]_(Once!vars)
      BY <2>7, MarkRefines
    <2>8. CASE Restart
      BY <2>8, RestartRefines
    <2> QED
      BY <2>1, <2>2, <2>3, <2>4, <2>5, <2>6, <2>7, <2>8 DEF Next
  <1> QED
    BY <1>1, <1>2, Invariance, PTL DEF Spec, ImplementsOnceOnly, Once!Spec
=============================================================================
