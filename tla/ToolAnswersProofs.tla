-------------------------- MODULE ToolAnswersProofs --------------------------
(***************************************************************************)
(* What single tool calls answer, for any number of sources, rows,         *)
(* recipients, attendees and samples: absence is reported, drafts go to    *)
(* whom they should, free/busy intervals are the samples.                  *)
(***************************************************************************)
EXTENDS SourceCoverage, DraftRecipients, Availability, DataInduction

-----------------------------------------------------------------------------
(* COVERAGE.                                                               *)

(* A source with rows is still to be asked or has a status; one whose      *)
(* status is "ok" has delivered everything it shows; an answer is given    *)
(* when there is nobody left to ask.                                       *)
CoverageInv ==
    /\ pending \in Seq(Sources)
    /\ stock \in [Sources -> Nat]
    /\ dropped \in 0 .. stock["gal"]
    /\ \A s \in Sources : stock[s] > 0 => s \in ToSet(pending) \/ s \in DOMAIN coverage
    /\ \A s \in Covered : s \in Sources /\ \A n \in 1 .. Shown(s) : <<s, n>> \in items
    /\ answered = "yes" => pending = <<>>

LEMMA SourceListsAreLists ==
    \A t \in DOMAIN SourceLists : \A list \in SourceLists[t] : list \in Seq(Sources)
  <1>1. /\ "gal" \in Sources /\ "contacts" \in Sources /\ "inbox" \in Sources
        /\ "sent" \in Sources /\ "drafts" \in Sources /\ "calendar" \in Sources
        /\ "tasks" \in Sources
    BY DEF Sources, ToSet, TOOL_FOLDERS
  <1>2. TOOL_FOLDERS \in Seq(Sources)
    BY <1>1 DEF TOOL_FOLDERS
  <1>3. /\ <<"gal", "contacts">> \in Seq(Sources) /\ <<"gal">> \in Seq(Sources)
        /\ <<"contacts">> \in Seq(Sources) /\ <<"inbox", "sent">> \in Seq(Sources)
    BY <1>1
  <1>4. /\ DOMAIN SourceLists = {"find_people", "get_thread", "list_folders"}
        /\ SourceLists["find_people"] = {<<"gal", "contacts">>, <<"gal">>, <<"contacts">>}
        /\ SourceLists["get_thread"] = {<<"inbox", "sent">>}
        /\ SourceLists["list_folders"] = {TOOL_FOLDERS}
    BY DEF SourceLists
  <1> QED
    BY <1>2, <1>3, <1>4

(* What stays to be asked when the first source has been asked.            *)
LEMMA TailElements ==
    ASSUME NEW A, NEW list \in Seq(A), list # <<>>
    PROVE  /\ Head(list) \in A /\ Tail(list) \in Seq(A)
           /\ ToSet(list) \subseteq {Head(list)} \cup ToSet(Tail(list))
  <1>1. /\ Head(list) = list[1] /\ Tail(list) \in Seq(A) /\ Len(Tail(list)) = Len(list) - 1
        /\ \A i \in 1 .. (Len(list) - 1) : Tail(list)[i] = list[i + 1]
    BY HeadTailProperties
  <1>2. ASSUME NEW i \in 1 .. Len(list), i # 1 PROVE list[i] \in ToSet(Tail(list))
    <2>1. i - 1 \in 1 .. (Len(list) - 1) /\ list[i] = Tail(list)[i - 1]
      BY <1>1, <1>2
    <2>2. DOMAIN Tail(list) = 1 .. (Len(list) - 1)
      BY <1>1
    <2> QED
      BY <2>1, <2>2 DEF ToSet
  <1> QED
    BY <1>1, <1>2 DEF ToSet

LEMMA AskedKeeps ==
    ASSUME CoverageInv, pending # <<>>, NEW s, s = Head(pending),
           NEW status, NEW n \in Nat, Asked(s, status, n), UNCHANGED answered,
           dropped' \in 0 .. stock["gal"], s # "gal" => UNCHANGED dropped,
           status = "ok" => n = Shown(s)'
    PROVE  CoverageInv'
  <1>1. s \in Sources /\ pending' \in Seq(Sources)
        /\ ToSet(pending) \subseteq {s} \cup ToSet(pending')
    BY TailElements DEF CoverageInv, Asked
  <1>2. /\ DOMAIN coverage' = DOMAIN coverage \cup {s}
        /\ \A c \in DOMAIN coverage' : coverage'[c] = IF c = s THEN status ELSE coverage[c]
        /\ items \subseteq items' /\ {s} \X (1 .. n) \subseteq items' /\ stock' = stock
    BY DEF Asked
  <1>3. ASSUME NEW c \in Covered' PROVE c \in Sources /\ \A k \in 1 .. Shown(c)' : <<c, k>> \in items'
    <2>1. CASE c = s
      BY <1>1, <1>2, <1>3, <2>1 DEF Covered
    <2>2. CASE c # s
      <3>1. Shown(c)' = Shown(c)
        BY <1>2, <2>2 DEF Shown
      <3> QED
        BY <1>2, <1>3, <2>2, <3>1 DEF Covered, CoverageInv
    <2> QED
      BY <2>1, <2>2
  <1>4. \A c \in Sources : stock'[c] > 0 => c \in ToSet(pending') \/ c \in DOMAIN coverage'
    BY <1>1, <1>2 DEF CoverageInv
  <1>5. answered' = "yes" => pending = <<>>
    BY DEF CoverageInv
  <1> QED
    BY <1>1, <1>2, <1>3, <1>4, <1>5 DEF CoverageInv

LEMMA ShownNat == CoverageInv => \A s \in Sources : Shown(s) \in Nat
  BY CoverageAssumption DEF CoverageInv, Shown, FirstRows

LEMMA CoverageStep == CoverageInv /\ [CoverageNext]_coverageVars => CoverageInv'
  <1> SUFFICES ASSUME CoverageInv, [CoverageNext]_coverageVars PROVE CoverageInv'
    OBVIOUS
  <1>0. pending # <<>> => Head(pending) \in Sources /\ Shown(Head(pending)) \in Nat
    BY TailElements, ShownNat DEF CoverageInv
  <1>1. CASE SourceFails
    <2>1. PICK status \in Failures :
             Asked(Head(pending), status, IF asking = "list_folders" THEN 1 ELSE 0)
      BY <1>1 DEF SourceFails
    <2>2. status # "ok" /\ (IF asking = "list_folders" THEN 1 ELSE 0) \in Nat
      BY DEF Failures
    <2> QED
      BY <1>1, <2>1, <2>2, AskedKeeps DEF SourceFails, Asks, CoverageInv
  <1>2. CASE SourceAnswers
    <2>1. PICK s : s = Head(pending)
      OBVIOUS
    <2>2. Asked(s, "ok", Shown(s)) /\ s # "gal" /\ UNCHANGED dropped
      BY <1>2, <2>1 DEF SourceAnswers
    <2>3. Shown(s)' = Shown(s)
      BY <2>2 DEF Asked, Shown
    <2> QED
      BY <1>0, <1>2, <2>1, <2>2, <2>3, AskedKeeps DEF SourceAnswers, Asks, CoverageInv
  <1>6. CASE AddressListAnswers
    <2>1. PICK lost \in 0 .. stock["gal"] :
             dropped' = lost /\ Asked("gal", "ok", FirstRows(stock["gal"] - lost))
      BY <1>6 DEF AddressListAnswers
    <2>2. Shown("gal")' = FirstRows(stock["gal"] - lost)
      BY <2>1 DEF Shown, Asked, FirstRows
    <2>3. FirstRows(stock["gal"] - lost) \in Nat
      <3>1. stock["gal"] \in Nat
        BY <1>0, <1>6 DEF AddressListAnswers, Asks, CoverageInv
      <3> QED
        BY <2>1, <3>1, CoverageAssumption DEF FirstRows
    <2>4. Head(pending) = "gal" /\ pending # <<>> /\ UNCHANGED answered
      BY <1>6 DEF AddressListAnswers, Asks
    <2> QED
      BY <2>1, <2>2, <2>3, <2>4, AskedKeeps
  <1>3. CASE RowsFail
    <2>1. CASE asking = "get_thread"
      BY <1>3, <2>1 DEF RowsFail, CoverageInv, Covered, Shown
    <2>2. CASE asking # "get_thread"
      <3>1. PICK n \in 0 .. Shown(Head(pending)), status \in Failures :
               Asked(Head(pending), status, n)
        BY <1>3, <2>2 DEF RowsFail, Interrupted
      <3>2. status # "ok" /\ n \in Nat /\ pending # <<>> /\ UNCHANGED answered
        BY <1>0, <1>3, <2>2 DEF Failures, RowsFail, Asks
      <3> QED
        BY <1>3, <3>1, <3>2, AskedKeeps DEF RowsFail, CoverageInv
    <2> QED
      BY <2>1, <2>2
  <1>4. CASE Answer
    BY <1>4 DEF Answer, CoverageInv, Covered, Shown
  <1>5. CASE UNCHANGED coverageVars
    BY <1>5 DEF coverageVars, CoverageInv, Covered, Shown
  <1> QED
    BY <1>1, <1>2, <1>3, <1>4, <1>5, <1>6 DEF CoverageNext

LEMMA InitCoverage == CoverageInit => CoverageInv
  <1> SUFFICES ASSUME CoverageInit PROVE CoverageInv
    OBVIOUS
  <1>1. pending \in Seq(Sources)
    BY SourceListsAreLists DEF CoverageInit
  <1>2. stock \in [Sources -> Nat]
    BY CoverageAssumption DEF CoverageInit
  <1>3. DOMAIN coverage = {} /\ Covered = {}
    BY DEF CoverageInit, Covered
  <1>4. stock["gal"] \in Nat /\ dropped = 0
    BY <1>2 DEF CoverageInit, Sources
  <1> QED
    BY <1>1, <1>2, <1>3, <1>4 DEF CoverageInit, CoverageInv

(* A row that a complete answer, or a covered source of a partial one, does*)
(* not list is not there (or beyond the limit), whatever fails in          *)
(* find_people, get_thread and list_folders.                               *)
THEOREM AbsenceIsReported == CoverageSpec => []AbsentMeansNotThere
  <1>1. CoverageInv => AbsentMeansNotThere
    <2> SUFFICES ASSUME CoverageInv, answered = "yes", NEW s \in Sources,
                        NEW n \in 1 .. Shown(s), <<s, n>> \notin items
                 PROVE  partial /\ s \in DOMAIN coverage \ Covered
      BY DEF AbsentMeansNotThere
    <2>1. Shown(s) \in Nat /\ stock[s] \in Nat /\ stock[s] > 0
      BY CoverageAssumption, ShownNat DEF CoverageInv, Shown, FirstRows
    <2>2. ToSet(<<>>) = {}
      BY DEF ToSet
    <2>3. s \in DOMAIN coverage
      BY <2>1, <2>2 DEF CoverageInv
    <2>4. s \notin Covered
      BY DEF CoverageInv
    <2> QED
      BY <2>3, <2>4 DEF partial
  <1> QED
    BY <1>1, InitCoverage, CoverageStep, PTL DEF CoverageSpec

-----------------------------------------------------------------------------
(* RECIPIENTS.                                                             *)

(* One turn of the loop of Unseen, and of that of NotMe.                   *)
KeepUnseen(kept, a, seen) ==
    IF a \in seen \/ Contains(kept, a) THEN kept ELSE Append(kept, a)
KeepNotMe(kept, a) == IF a = Me THEN kept ELSE Append(kept, a)

LEMMA UnseenLoop ==
    ASSUME NEW A, NEW list \in Seq(A), NEW seen
    PROVE  \E h : /\ h[0] = <<>>
                  /\ \A k \in 1 .. Len(list) : h[k] = KeepUnseen(h[k - 1], list[k], seen)
                  /\ Unseen(list, seen) = h[Len(list)]
  <1> DEFINE n == Len(list)
             step == [i \in 1 .. n |-> [kept \in Seq(A) |-> KeepUnseen(kept, list[i], seen)]]
             Turn(s, it) == IF s = {} THEN <<>>
                            ELSE KeepUnseen(it[s \ {Max(s)}], list[Max(s)], seen)
             iter == CHOOSE it : it = [s \in SUBSET (1 .. n) |-> Turn(s, it)]
  <1>1. /\ n \in Nat /\ DOMAIN list = 1 .. n /\ IsFiniteSet(1 .. n) /\ <<>> \in Seq(A)
        /\ \A i \in 1 .. n : list[i] \in A
    BY FS_Interval
  <1>2. \A i \in 1 .. n, kept \in Seq(A) :
           /\ step[i][kept] = KeepUnseen(kept, list[i], seen)
           /\ step[i][kept] \in Seq(A)
    BY <1>1 DEF KeepUnseen
  <1>3. StepsInto(step, 1 .. n, Seq(A))
    BY <1>2 DEF StepsInto
  <1> HIDE DEF step
  <1>4. PICK g : LoopsOver(g, n, Seq(A), <<>>, step)
    BY <1>1, <1>3, FoldLastExists
  <1>5. g = [s \in SUBSET (1 .. n) |-> Turn(s, g)]
    BY <1>2, <1>4 DEF LoopsOver
  <1>6. iter = [s \in SUBSET (1 .. n) |-> Turn(s, iter)]
    <2> HIDE DEF Turn
    <2> QED
      BY <1>5
  <1>7. Unseen(list, seen) = iter[1 .. n]
    BY <1>1 DEF Unseen, FoldLeft, MapThenFoldSet, KeepUnseen
  <1> HIDE DEF iter
  <1> DEFINE h == [k \in 0 .. n |-> iter[1 .. k]]
  <1>8. h[0] = <<>>
    BY <1>6
  <1>9. ASSUME NEW k \in 1 .. n PROVE h[k] = KeepUnseen(h[k - 1], list[k], seen)
    <2>1. Max(1 .. k) = k /\ (1 .. k) \ {k} = 1 .. (k - 1) /\ 1 .. k # {}
      BY LastOfFirst
    <2>2. iter[1 .. k] = Turn(1 .. k, iter)
      <3> HIDE DEF Turn
      <3>1. 1 .. k \in SUBSET (1 .. n)
        BY <1>1
      <3> QED
        BY <1>6, <3>1
    <2>3. iter[1 .. k] = KeepUnseen(iter[1 .. (k - 1)], list[k], seen)
      BY <2>1, <2>2
    <2> QED
      BY <2>3
  <1>10. h[n] = iter[1 .. n]
    BY <1>1
  <1> HIDE DEF h
  <1> QED
    BY <1>7, <1>8, <1>9, <1>10

(* Unseen leaves out what was seen and every repetition, and nothing else. *)
LEMMA UnseenElements ==
    ASSUME NEW A, NEW list \in Seq(A), NEW seen
    PROVE  /\ Unseen(list, seen) \in Seq(A)
           /\ ToSet(Unseen(list, seen)) = ToSet(list) \ seen
           /\ IsInjective(Unseen(list, seen))
  <1> DEFINE n == Len(list)
  <1>1. n \in Nat /\ DOMAIN list = 1 .. n /\ \A i \in 1 .. n : list[i] \in A
    OBVIOUS
  <1>2. PICK h : /\ h[0] = <<>>
                 /\ \A k \in 1 .. n : h[k] = KeepUnseen(h[k - 1], list[k], seen)
                 /\ Unseen(list, seen) = h[n]
    BY UnseenLoop
  <1> HIDE DEF n
  <1> DEFINE Kept(k) == /\ h[k] \in Seq(A)
                        /\ ToSet(h[k]) = {list[i] : i \in 1 .. k} \ seen
                        /\ IsInjective(h[k])
             Good == {k \in 0 .. n : Kept(k)}
  <1>3. 0 \in Good
    <2>1. ToSet(<<>>) = {} /\ IsInjective(<<>>) /\ <<>> \in Seq(A)
      BY DEF ToSet, IsInjective
    <2>2. {list[i] : i \in 1 .. 0} = {}
      OBVIOUS
    <2>3. Kept(0)
      BY <1>2, <2>1, <2>2
    <2> QED
      BY <1>1, <2>3
  <1>4. ASSUME NEW k \in 0 .. (n - 1), k \in Good PROVE k + 1 \in Good
    <2>1. k + 1 \in 1 .. n /\ (k + 1) - 1 = k /\ k + 1 \in 0 .. n
      BY <1>1
    <2>2. h[k + 1] = KeepUnseen(h[k], list[k + 1], seen) /\ list[k + 1] \in A
      BY <1>1, <1>2, <2>1
    <2>3. {list[i] : i \in 1 .. (k + 1)} = {list[i] : i \in 1 .. k} \cup {list[k + 1]}
      OBVIOUS
    <2>4. Kept(k)
      BY <1>4
    <2>5. /\ Append(h[k], list[k + 1]) \in Seq(A)
          /\ ToSet(Append(h[k], list[k + 1])) = ToSet(h[k]) \cup {list[k + 1]}
          /\ Contains(h[k], list[k + 1]) <=> list[k + 1] \in ToSet(h[k])
          /\ (IsInjective(h[k]) /\ list[k + 1] \notin ToSet(h[k]))
                => IsInjective(Append(h[k], list[k + 1]))
      BY <2>2, <2>4, AppendElements
    <2>6. Kept(k + 1)
      <3>1. CASE list[k + 1] \in seen \/ Contains(h[k], list[k + 1])
        <4>1. h[k + 1] = h[k]
          BY <2>2, <3>1 DEF KeepUnseen
        <4> QED
          BY <2>3, <2>4, <2>5, <3>1, <4>1
      <3>2. CASE ~(list[k + 1] \in seen \/ Contains(h[k], list[k + 1]))
        <4>1. h[k + 1] = Append(h[k], list[k + 1])
          BY <2>2, <3>2 DEF KeepUnseen
        <4> QED
          BY <2>3, <2>4, <2>5, <3>2, <4>1
      <3> QED
        BY <3>1, <3>2
    <2> QED
      BY <2>1, <2>6
  <1>5. n \in Good
    <2> HIDE DEF Good
    <2>1. \A k \in 0 .. n : k \in Good
      BY <1>1, <1>3, <1>4, UpwardInduction
    <2> QED
      BY <1>1, <2>1
  <1>6. ToSet(list) = {list[i] : i \in 1 .. n}
    BY <1>1 DEF ToSet
  <1> QED
    BY <1>2, <1>5, <1>6

LEMMA NotMeLoop ==
    ASSUME NEW A, NEW list \in Seq(A)
    PROVE  \E h : /\ h[0] = <<>>
                  /\ \A k \in 1 .. Len(list) : h[k] = KeepNotMe(h[k - 1], list[k])
                  /\ NotMe(list) = h[Len(list)]
  <1> DEFINE n == Len(list)
             step == [i \in 1 .. n |-> [kept \in Seq(A) |-> KeepNotMe(kept, list[i])]]
             Turn(s, it) == IF s = {} THEN <<>>
                            ELSE KeepNotMe(it[s \ {Max(s)}], list[Max(s)])
             iter == CHOOSE it : it = [s \in SUBSET (1 .. n) |-> Turn(s, it)]
  <1>1. /\ n \in Nat /\ DOMAIN list = 1 .. n /\ IsFiniteSet(1 .. n) /\ <<>> \in Seq(A)
        /\ \A i \in 1 .. n : list[i] \in A
    BY FS_Interval
  <1>2. \A i \in 1 .. n, kept \in Seq(A) :
           /\ step[i][kept] = KeepNotMe(kept, list[i])
           /\ step[i][kept] \in Seq(A)
    BY <1>1 DEF KeepNotMe
  <1>3. StepsInto(step, 1 .. n, Seq(A))
    BY <1>2 DEF StepsInto
  <1> HIDE DEF step
  <1>4. PICK g : LoopsOver(g, n, Seq(A), <<>>, step)
    BY <1>1, <1>3, FoldLastExists
  <1>5. g = [s \in SUBSET (1 .. n) |-> Turn(s, g)]
    BY <1>2, <1>4 DEF LoopsOver
  <1>6. iter = [s \in SUBSET (1 .. n) |-> Turn(s, iter)]
    <2> HIDE DEF Turn
    <2> QED
      BY <1>5
  <1>7. NotMe(list) = iter[1 .. n]
    BY <1>1 DEF NotMe, FoldLeft, MapThenFoldSet, KeepNotMe
  <1> HIDE DEF iter
  <1> DEFINE h == [k \in 0 .. n |-> iter[1 .. k]]
  <1>8. h[0] = <<>>
    BY <1>6
  <1>9. ASSUME NEW k \in 1 .. n PROVE h[k] = KeepNotMe(h[k - 1], list[k])
    <2>1. Max(1 .. k) = k /\ (1 .. k) \ {k} = 1 .. (k - 1) /\ 1 .. k # {}
      BY LastOfFirst
    <2>2. iter[1 .. k] = Turn(1 .. k, iter)
      <3> HIDE DEF Turn
      <3>1. 1 .. k \in SUBSET (1 .. n)
        BY <1>1
      <3> QED
        BY <1>6, <3>1
    <2>3. iter[1 .. k] = KeepNotMe(iter[1 .. (k - 1)], list[k])
      BY <2>1, <2>2
    <2> QED
      BY <2>3
  <1>10. h[n] = iter[1 .. n]
    BY <1>1
  <1> HIDE DEF h
  <1> QED
    BY <1>7, <1>8, <1>9, <1>10

(* NotMe leaves out the employee and nobody else.                          *)
LEMMA NotMeElements ==
    ASSUME NEW A, NEW list \in Seq(A)
    PROVE  /\ NotMe(list) \in Seq(A)
           /\ ToSet(NotMe(list)) = ToSet(list) \ {Me}
  <1> DEFINE n == Len(list)
  <1>1. n \in Nat /\ DOMAIN list = 1 .. n /\ \A i \in 1 .. n : list[i] \in A
    OBVIOUS
  <1>2. PICK h : /\ h[0] = <<>>
                 /\ \A k \in 1 .. n : h[k] = KeepNotMe(h[k - 1], list[k])
                 /\ NotMe(list) = h[n]
    BY NotMeLoop
  <1> HIDE DEF n
  <1> DEFINE Kept(k) == /\ h[k] \in Seq(A)
                        /\ ToSet(h[k]) = {list[i] : i \in 1 .. k} \ {Me}
             Good == {k \in 0 .. n : Kept(k)}
  <1>3. 0 \in Good
    <2>1. ToSet(<<>>) = {} /\ <<>> \in Seq(A)
      BY DEF ToSet
    <2>2. {list[i] : i \in 1 .. 0} = {}
      OBVIOUS
    <2>3. Kept(0)
      BY <1>2, <2>1, <2>2
    <2> QED
      BY <1>1, <2>3
  <1>4. ASSUME NEW k \in 0 .. (n - 1), k \in Good PROVE k + 1 \in Good
    <2>1. k + 1 \in 1 .. n /\ (k + 1) - 1 = k /\ k + 1 \in 0 .. n
      BY <1>1
    <2>2. h[k + 1] = KeepNotMe(h[k], list[k + 1]) /\ list[k + 1] \in A
      BY <1>1, <1>2, <2>1
    <2>3. {list[i] : i \in 1 .. (k + 1)} = {list[i] : i \in 1 .. k} \cup {list[k + 1]}
      OBVIOUS
    <2>4. Kept(k)
      BY <1>4
    <2>5. /\ Append(h[k], list[k + 1]) \in Seq(A)
          /\ ToSet(Append(h[k], list[k + 1])) = ToSet(h[k]) \cup {list[k + 1]}
      BY <2>2, <2>4, AppendElements
    <2>6. Kept(k + 1)
      <3>1. CASE list[k + 1] = Me
        <4>1. h[k + 1] = h[k]
          BY <2>2, <3>1 DEF KeepNotMe
        <4> QED
          BY <2>3, <2>4, <3>1, <4>1
      <3>2. CASE list[k + 1] # Me
        <4>1. h[k + 1] = Append(h[k], list[k + 1])
          BY <2>2, <3>2 DEF KeepNotMe
        <4> QED
          BY <2>3, <2>4, <2>5, <3>2, <4>1
      <3> QED
        BY <3>1, <3>2
    <2> QED
      BY <2>1, <2>6
  <1>5. n \in Good
    <2> HIDE DEF Good
    <2>1. \A k \in 0 .. n : k \in Good
      BY <1>1, <1>3, <1>4, UpwardInduction
    <2> QED
      BY <1>1, <2>1
  <1>6. ToSet(list) = {list[i] : i \in 1 .. n}
    BY <1>1 DEF ToSet
  <1> QED
    BY <1>2, <1>5, <1>6

(* No field of a draft repeats an address of a field before it.            *)
EachOnce(d, A, to, cc, bcc) ==
    /\ d \in [Fieldnames -> Seq(A)]
    /\ ToSet(d.to) = ToSet(to) /\ ToSet(d.cc) = ToSet(cc) \ ToSet(to)
    /\ ToSet(d.bcc) \subseteq ToSet(bcc)
    /\ ToSet(d.to \o d.cc \o d.bcc) = ToSet(to) \cup ToSet(cc) \cup ToSet(bcc)
    /\ IsInjective(d.to \o d.cc \o d.bcc)

LEMMA Deduplicated ==
    ASSUME NEW A, NEW to \in Seq(A), NEW cc \in Seq(A), NEW bcc \in Seq(A)
    PROVE  EachOnce(_deduplicate(to, cc, bcc), A, to, cc, bcc)
  <1> DEFINE d == _deduplicate(to, cc, bcc)
             first == Unseen(to, {})
             second == Unseen(cc, ToSet(first))
             third == Unseen(bcc, ToSet(first) \cup ToSet(second))
  <1>1. first \in Seq(A) /\ ToSet(first) = ToSet(to) \ {} /\ IsInjective(first)
    BY UnseenElements
  <1>2. second \in Seq(A) /\ ToSet(second) = ToSet(cc) \ ToSet(first) /\ IsInjective(second)
    BY UnseenElements
  <1>3. /\ third \in Seq(A) /\ IsInjective(third)
        /\ ToSet(third) = ToSet(bcc) \ (ToSet(first) \cup ToSet(second))
    BY UnseenElements
  <1>4. d = [to |-> first, cc |-> second, bcc |-> third]
    BY DEF _deduplicate
  <1> HIDE DEF d, first, second, third
  <1>5. /\ first \o second \in Seq(A)
        /\ ToSet(first \o second) = ToSet(first) \cup ToSet(second)
        /\ IsInjective(first \o second)
    BY <1>1, <1>2, ConcatElements
  <1>6. /\ ToSet(first \o second \o third) = ToSet(first \o second) \cup ToSet(third)
        /\ IsInjective(first \o second \o third)
    <2> DEFINE both == first \o second
    <2>1. both \in Seq(A) /\ ToSet(both) \cap ToSet(third) = {} /\ IsInjective(both)
      BY <1>3, <1>5
    <2> HIDE DEF both
    <2>2. ToSet(both \o third) = ToSet(both) \cup ToSet(third) /\ IsInjective(both \o third)
      BY <1>3, <2>1, ConcatElements
    <2> QED
      BY <2>2 DEF both
  <1>7. d.to = first /\ d.cc = second /\ d.bcc = third
    BY <1>4
  <1>8. d \in [Fieldnames -> Seq(A)]
    BY <1>1, <1>2, <1>3, <1>4 DEF Fieldnames
  <1>9. ToSet(third) \subseteq ToSet(bcc)
    BY <1>3
  <1>10. /\ ToSet(first) = ToSet(to) /\ ToSet(second) = ToSet(cc) \ ToSet(to)
         /\ ToSet(first \o second \o third) = ToSet(to) \cup ToSet(cc) \cup ToSet(bcc)
    BY <1>1, <1>2, <1>3, <1>5, <1>6
  <1> QED
    BY <1>6, <1>7, <1>8, <1>9, <1>10 DEF d, EachOnce

Requests == [Fieldnames -> Lists]
Originals == [{"reply_to", "author", "to", "cc"} -> Lists]
(* What a reply leaves empty it takes from the original, without Me.       *)
Answered(mode, r, o) ==
    [to |-> IF r.to # <<>> \/ mode \in {"new", "forward"} THEN {}
            ELSE (ToSet(ReplyTargets(o))
                  \cup (IF mode = "reply" THEN {} ELSE ToSet(o.to))) \ {Me},
     cc |-> IF r.cc # <<>> \/ mode # "reply_all" THEN {} ELSE ToSet(o.cc) \ {Me}]

(* The fields before they are deduplicated: the named and the answered.    *)
FieldsName(fields, r, mode, request, o) ==
    /\ \A f \in Fieldnames :
          /\ r[f] \in Seq(Addresses) /\ ToSet(r[f]) = ToSet(request[f])
          /\ r[f] = <<>> <=> request[f] = <<>>
    /\ fields.to \in Seq(Addresses) /\ fields.cc \in Seq(Addresses)
    /\ ToSet(fields.to) = ToSet(request.to) \cup Answered(mode, request, o).to
    /\ ToSet(fields.cc) = ToSet(request.cc) \cup Answered(mode, request, o).cc

LEMMA FieldElements ==
    ASSUME NEW mode \in {"new", "forward", "reply", "reply_all"},
           NEW request \in Requests, NEW o \in Originals,
           NEW r, r = [f \in Fieldnames |-> _recipients(request[f])]
    PROVE  FieldsName(Fields(mode, r, o), r, mode, request, o)
  <1> DEFINE fields == Fields(mode, r, o)
  <1>1. ASSUME NEW f \in Fieldnames
        PROVE  /\ r[f] \in Seq(Addresses) /\ ToSet(r[f]) = ToSet(request[f])
               /\ r[f] = <<>> <=> request[f] = <<>>
    <2> DEFINE list == request[f]
    <2>1. list \in Seq(Addresses) /\ r[f] = Unseen(list, {})
      BY RecipientAssumption DEF Requests, _recipients
    <2> HIDE DEF list
    <2>2. Unseen(list, {}) \in Seq(Addresses) /\ ToSet(Unseen(list, {})) = ToSet(list) \ {}
      BY <2>1, UnseenElements
    <2>3. r[f] = <<>> <=> list = <<>>
      BY <2>1, <2>2, NoElements
    <2> QED
      BY <2>1, <2>2, <2>3 DEF list
  <1>2. "to" \in Fieldnames /\ "cc" \in Fieldnames
    BY DEF Fieldnames
  <1>3. ReplyTargets(o) \in Seq(Addresses) /\ o.to \in Seq(Addresses) /\ o.cc \in Seq(Addresses)
    BY RecipientAssumption DEF Originals, ReplyTargets
  <1>4. /\ ReplyTargets(o) \o o.to \in Seq(Addresses)
        /\ ToSet(ReplyTargets(o) \o o.to) = ToSet(ReplyTargets(o)) \cup ToSet(o.to)
    BY <1>3, ConcatElements
  <1>5. /\ fields.to = IF r.to # <<>> \/ mode \in {"new", "forward"} THEN r.to
                       ELSE IF mode = "reply" THEN NotMe(ReplyTargets(o))
                       ELSE NotMe(ReplyTargets(o) \o o.to)
        /\ fields.cc = IF r.cc # <<>> \/ mode # "reply_all" THEN r.cc ELSE NotMe(o.cc)
    BY DEF Fields
  <1>6. /\ NotMe(ReplyTargets(o)) \in Seq(Addresses)
        /\ ToSet(NotMe(ReplyTargets(o))) = ToSet(ReplyTargets(o)) \ {Me}
    BY <1>3, NotMeElements
  <1>7. /\ NotMe(ReplyTargets(o) \o o.to) \in Seq(Addresses)
        /\ ToSet(NotMe(ReplyTargets(o) \o o.to)) = ToSet(ReplyTargets(o) \o o.to) \ {Me}
    BY <1>4, NotMeElements
  <1>8. NotMe(o.cc) \in Seq(Addresses) /\ ToSet(NotMe(o.cc)) = ToSet(o.cc) \ {Me}
    BY <1>3, NotMeElements
  <1>9. request.to = <<>> => ToSet(request.to) = {}
    BY DEF ToSet
  <1>10. request.cc = <<>> => ToSet(request.cc) = {}
    BY DEF ToSet
  <1>11. /\ Answered(mode, request, o).to =
              IF request.to # <<>> \/ mode \in {"new", "forward"} THEN {}
              ELSE (ToSet(ReplyTargets(o))
                    \cup (IF mode = "reply" THEN {} ELSE ToSet(o.to))) \ {Me}
         /\ Answered(mode, request, o).cc =
              IF request.cc # <<>> \/ mode # "reply_all" THEN {} ELSE ToSet(o.cc) \ {Me}
    BY DEF Answered
  <1>12. /\ fields.to \in Seq(Addresses)
         /\ ToSet(fields.to) = ToSet(request.to) \cup Answered(mode, request, o).to
    <2>1. CASE request.to # <<>> \/ mode \in {"new", "forward"}
      BY <1>1, <1>2, <1>5, <1>11, <2>1
    <2>2. CASE request.to = <<>> /\ mode = "reply"
      BY <1>1, <1>2, <1>5, <1>6, <1>9, <1>11, <2>2
    <2>3. CASE request.to = <<>> /\ mode = "reply_all"
      BY <1>1, <1>2, <1>4, <1>5, <1>7, <1>9, <1>11, <2>3
    <2> QED
      BY <2>1, <2>2, <2>3
  <1>13. /\ fields.cc \in Seq(Addresses)
         /\ ToSet(fields.cc) = ToSet(request.cc) \cup Answered(mode, request, o).cc
    <2>1. CASE request.cc # <<>> \/ mode # "reply_all"
      BY <1>1, <1>2, <1>5, <1>11, <2>1
    <2>2. CASE request.cc = <<>> /\ mode = "reply_all"
      BY <1>1, <1>2, <1>5, <1>8, <1>10, <1>11, <2>2
    <2> QED
      BY <2>1, <2>2
  <1> QED
    BY <1>1, <1>12, <1>13 DEF FieldsName

(* The draft is the outcome of create_draft for some request.              *)
DraftInv ==
    \/ draft = NoDraft
    \/ \E mode \in {"new", "forward", "reply", "reply_all"} :
       \E request \in Requests, o \in Originals :
          draft = [mode |-> mode, request |-> request, original |-> o,
                   result |-> create_draft(mode, request, o)]

(* Every draft goes to whom the caller and the answered message name, for  *)
(* lists of any length and any addresses: create_draft with its recipient  *)
(* derivation and deduplication.                                           *)
THEOREM DraftsGoAsAsked == DraftSpec => []RecipientsAsAsked
  <1>1. DraftInit => DraftInv
    BY DEF DraftInit, DraftInv
  <1>2. DraftInv /\ [DraftNext]_draftVars => DraftInv'
    BY DEF DraftNext, draftVars, DraftInv, Requests, Originals
  <1>3. DraftInv => RecipientsAsAsked
    <2> SUFFICES ASSUME NEW mode \in {"new", "forward", "reply", "reply_all"},
                        NEW request \in Requests, NEW o \in Originals, draft # NoDraft,
                        draft = [mode |-> mode, request |-> request, original |-> o,
                                 result |-> create_draft(mode, request, o)]
                 PROVE  RecipientsAsAsked
      BY DEF DraftInv, RecipientsAsAsked
    <2> DEFINE r == [f \in Fieldnames |-> _recipients(request[f])]
               fields == Fields(mode, r, o)
               d == _deduplicate(fields.to, fields.cc, r.bcc)
               A == Answered(mode, request, o)
               named == ToSet(request.to) \cup ToSet(request.cc) \cup ToSet(request.bcc)
    <2>1. /\ \A f \in Fieldnames : /\ r[f] \in Seq(Addresses)
                                   /\ ToSet(r[f]) = ToSet(request[f])
                                   /\ r[f] = <<>> <=> request[f] = <<>>
          /\ fields.to \in Seq(Addresses) /\ fields.cc \in Seq(Addresses)
          /\ ToSet(fields.to) = ToSet(request.to) \cup A.to
          /\ ToSet(fields.cc) = ToSet(request.cc) \cup A.cc
      <3>1. r = [f \in Fieldnames |-> _recipients(request[f])]
        OBVIOUS
      <3> HIDE DEF r
      <3>2. FieldsName(fields, r, mode, request, o)
        BY <3>1, FieldElements
      <3> HIDE DEF fields
      <3> QED
        BY <3>2 DEF FieldsName
    <2>2. draft.mode = mode /\ draft.request = request /\ draft.original = o
          /\ draft.result = create_draft(mode, request, o)
      OBVIOUS
    <2>3. create_draft(mode, request, o) =
             IF mode \in {"reply", "reply_all"} /\ d.to = <<>> /\ d.cc = <<>>
             THEN NoDraft ELSE d
      BY DEF create_draft
    <2>4. r.bcc \in Seq(Addresses) /\ ToSet(r.bcc) = ToSet(request.bcc)
      BY <2>1 DEF Fieldnames
    <2> HIDE DEF r, fields, d
    <2>5. EachOnce(d, Addresses, fields.to, fields.cc, r.bcc)
      BY <2>1, <2>4, Deduplicated DEF d
    <2>6. /\ d \in [Fieldnames -> Seq(Addresses)]
          /\ ToSet(d.to) = ToSet(fields.to) /\ ToSet(d.cc) = ToSet(fields.cc) \ ToSet(fields.to)
          /\ ToSet(d.bcc) \subseteq ToSet(r.bcc)
          /\ ToSet(d.to \o d.cc \o d.bcc)
               = ToSet(fields.to) \cup ToSet(fields.cc) \cup ToSet(r.bcc)
          /\ IsInjective(d.to \o d.cc \o d.bcc)
      BY <2>5 DEF EachOnce
    <2>7. d # NoDraft /\ d.to \in Seq(Addresses) /\ d.cc \in Seq(Addresses)
      BY <2>6, RecipientAssumption DEF Fieldnames
    <2>8. /\ (d.to = <<>> <=> ToSet(d.to) = {}) /\ (d.cc = <<>> <=> ToSet(d.cc) = {})
          /\ (request.to = <<>> <=> ToSet(request.to) = {})
          /\ (request.cc = <<>> <=> ToSet(request.cc) = {})
      <3>1. request.to \in Seq(Addresses) /\ request.cc \in Seq(Addresses)
        BY RecipientAssumption DEF Requests, Fieldnames
      <3> QED
        BY <2>7, <3>1, NoElements
    <2> DEFINE all == mode = "reply_all"
               senders == ToSet(ReplyTargets(o))
               answeredTo ==
                 IF mode \in {"new", "forward"} THEN {}
                 ELSE ((IF request.to = <<>>
                        THEN senders \cup (IF all THEN ToSet(o.to) ELSE {}) ELSE {})
                       \cup (IF request.cc = <<>> /\ all THEN ToSet(o.cc) ELSE {})) \ {Me}
    <2>9. answeredTo = A.to \cup A.cc
      BY DEF Answered
    <2>10. RecipientsAsAsked <=>
            IF draft.result = NoDraft
            THEN /\ mode \in {"reply", "reply_all"} /\ answeredTo = {}
                 /\ request.to = <<>> /\ request.cc = <<>>
            ELSE /\ ToSet(draft.result.to \o draft.result.cc \o draft.result.bcc)
                      = named \cup answeredTo
                 /\ IsInjective(draft.result.to \o draft.result.cc \o draft.result.bcc)
                 /\ ToSet(draft.result.bcc) \subseteq ToSet(request.bcc)
                 /\ ToSet(draft.result.to) \subseteq IF request.to = <<>> THEN answeredTo
                                                      ELSE ToSet(request.to)
      BY <2>2 DEF RecipientsAsAsked
    <2> HIDE DEF A, answeredTo, named
    <2>11. CASE mode \in {"reply", "reply_all"} /\ d.to = <<>> /\ d.cc = <<>>
      <3>1. draft.result = NoDraft
        BY <2>2, <2>3, <2>11
      <3>2. ToSet(fields.to) = {} /\ ToSet(fields.cc) = {}
        BY <2>6, <2>8, <2>11
      <3> QED
        BY <2>1, <2>8, <2>9, <2>10, <2>11, <3>1, <3>2
    <2>12. CASE ~(mode \in {"reply", "reply_all"} /\ d.to = <<>> /\ d.cc = <<>>)
      <3>1. draft.result = d
        BY <2>2, <2>3, <2>12
      <3>2. ToSet(d.to \o d.cc \o d.bcc) = named \cup answeredTo
        BY <2>1, <2>4, <2>6, <2>9 DEF named
      <3>3. ToSet(d.to) \subseteq IF request.to = <<>> THEN answeredTo ELSE ToSet(request.to)
        <4>1. request.to # <<>> => A.to = {}
          BY DEF A, Answered
        <4> QED
          BY <2>1, <2>6, <2>8, <2>9, <4>1
      <3> QED
        BY <2>4, <2>6, <2>7, <2>10, <3>1, <3>2, <3>3
    <2> QED
      BY <2>11, <2>12
  <1> QED
    BY <1>1, <1>2, <1>3, PTL DEF DraftSpec

-----------------------------------------------------------------------------
(* AVAILABILITY.                                                           *)

(* One turn of the loop of Distinct.                                       *)
KeepNew(kept, a) == IF Contains(kept, a) THEN kept ELSE Append(kept, a)

LEMMA DistinctLoop ==
    ASSUME NEW A, NEW list \in Seq(A)
    PROVE  \E h : /\ h[0] = <<>>
                  /\ \A k \in 1 .. Len(list) : h[k] = KeepNew(h[k - 1], list[k])
                  /\ Distinct(list) = h[Len(list)]
  <1> DEFINE n == Len(list)
             step == [i \in 1 .. n |-> [kept \in Seq(A) |-> KeepNew(kept, list[i])]]
             Turn(s, it) == IF s = {} THEN <<>>
                            ELSE KeepNew(it[s \ {Max(s)}], list[Max(s)])
             iter == CHOOSE it : it = [s \in SUBSET (1 .. n) |-> Turn(s, it)]
  <1>1. /\ n \in Nat /\ DOMAIN list = 1 .. n /\ IsFiniteSet(1 .. n) /\ <<>> \in Seq(A)
        /\ \A i \in 1 .. n : list[i] \in A
    BY FS_Interval
  <1>2. \A i \in 1 .. n, kept \in Seq(A) :
           /\ step[i][kept] = KeepNew(kept, list[i])
           /\ step[i][kept] \in Seq(A)
    BY <1>1 DEF KeepNew
  <1>3. StepsInto(step, 1 .. n, Seq(A))
    BY <1>2 DEF StepsInto
  <1> HIDE DEF step
  <1>4. PICK g : LoopsOver(g, n, Seq(A), <<>>, step)
    BY <1>1, <1>3, FoldLastExists
  <1>5. g = [s \in SUBSET (1 .. n) |-> Turn(s, g)]
    BY <1>2, <1>4 DEF LoopsOver
  <1>6. iter = [s \in SUBSET (1 .. n) |-> Turn(s, iter)]
    <2> HIDE DEF Turn
    <2> QED
      BY <1>5
  <1>7. Distinct(list) = iter[1 .. n]
    BY <1>1 DEF Distinct, FoldLeft, MapThenFoldSet, KeepNew
  <1> HIDE DEF iter
  <1> DEFINE h == [k \in 0 .. n |-> iter[1 .. k]]
  <1>8. h[0] = <<>>
    BY <1>6
  <1>9. ASSUME NEW k \in 1 .. n PROVE h[k] = KeepNew(h[k - 1], list[k])
    <2>1. Max(1 .. k) = k /\ (1 .. k) \ {k} = 1 .. (k - 1) /\ 1 .. k # {}
      BY LastOfFirst
    <2>2. iter[1 .. k] = Turn(1 .. k, iter)
      <3> HIDE DEF Turn
      <3>1. 1 .. k \in SUBSET (1 .. n)
        BY <1>1
      <3> QED
        BY <1>6, <3>1
    <2>3. iter[1 .. k] = KeepNew(iter[1 .. (k - 1)], list[k])
      BY <2>1, <2>2
    <2> QED
      BY <2>3
  <1>10. h[n] = iter[1 .. n]
    BY <1>1
  <1> HIDE DEF h
  <1> QED
    BY <1>7, <1>8, <1>9, <1>10

(* Each mailbox is in the request, and once.                               *)
LEMMA DistinctElements ==
    ASSUME NEW A, NEW list \in Seq(A)
    PROVE  /\ Distinct(list) \in Seq(A)
           /\ ToSet(Distinct(list)) = ToSet(list)
           /\ IsInjective(Distinct(list))
  <1> DEFINE n == Len(list)
  <1>1. n \in Nat /\ DOMAIN list = 1 .. n /\ \A i \in 1 .. n : list[i] \in A
    OBVIOUS
  <1>2. PICK h : /\ h[0] = <<>>
                 /\ \A k \in 1 .. n : h[k] = KeepNew(h[k - 1], list[k])
                 /\ Distinct(list) = h[n]
    BY DistinctLoop
  <1> HIDE DEF n
  <1> DEFINE Kept(k) == /\ h[k] \in Seq(A)
                        /\ ToSet(h[k]) = {list[i] : i \in 1 .. k}
                        /\ IsInjective(h[k])
             Good == {k \in 0 .. n : Kept(k)}
  <1>3. 0 \in Good
    <2>1. ToSet(<<>>) = {} /\ IsInjective(<<>>) /\ <<>> \in Seq(A)
      BY DEF ToSet, IsInjective
    <2>2. {list[i] : i \in 1 .. 0} = {}
      OBVIOUS
    <2>3. Kept(0)
      BY <1>2, <2>1, <2>2
    <2> QED
      BY <1>1, <2>3
  <1>4. ASSUME NEW k \in 0 .. (n - 1), k \in Good PROVE k + 1 \in Good
    <2>1. k + 1 \in 1 .. n /\ (k + 1) - 1 = k /\ k + 1 \in 0 .. n
      BY <1>1
    <2>2. h[k + 1] = KeepNew(h[k], list[k + 1]) /\ list[k + 1] \in A
      BY <1>1, <1>2, <2>1
    <2>3. {list[i] : i \in 1 .. (k + 1)} = {list[i] : i \in 1 .. k} \cup {list[k + 1]}
      OBVIOUS
    <2>4. Kept(k)
      BY <1>4
    <2>5. /\ Append(h[k], list[k + 1]) \in Seq(A)
          /\ ToSet(Append(h[k], list[k + 1])) = ToSet(h[k]) \cup {list[k + 1]}
          /\ Contains(h[k], list[k + 1]) <=> list[k + 1] \in ToSet(h[k])
          /\ (IsInjective(h[k]) /\ list[k + 1] \notin ToSet(h[k]))
                => IsInjective(Append(h[k], list[k + 1]))
      BY <2>2, <2>4, AppendElements
    <2>6. Kept(k + 1)
      <3>1. CASE Contains(h[k], list[k + 1])
        <4>1. h[k + 1] = h[k]
          BY <2>2, <3>1 DEF KeepNew
        <4> QED
          BY <2>3, <2>4, <2>5, <3>1, <4>1
      <3>2. CASE ~Contains(h[k], list[k + 1])
        <4>1. h[k + 1] = Append(h[k], list[k + 1])
          BY <2>2, <3>2 DEF KeepNew
        <4> QED
          BY <2>3, <2>4, <2>5, <3>2, <4>1
      <3> QED
        BY <3>1, <3>2
    <2> QED
      BY <2>1, <2>6
  <1>5. n \in Good
    <2> HIDE DEF Good
    <2>1. \A k \in 0 .. n : k \in Good
      BY <1>1, <1>3, <1>4, UpwardInduction
    <2> QED
      BY <1>1, <2>1
  <1>6. ToSet(list) = {list[i] : i \in 1 .. n}
    BY <1>1 DEF ToSet
  <1> QED
    BY <1>2, <1>5, <1>6

LEMMA Division ==
    ASSUME NEW a \in Nat, NEW b \in Nat, b > 0
    PROVE  /\ a \div b \in Nat /\ a % b \in Nat /\ a % b < b
           /\ a = b * (a \div b) + (a % b)
  OBVIOUS

LEMMA Quotient ==
    ASSUME NEW b \in Nat, b > 0, NEW q \in Nat, NEW t \in Nat, b * q <= t, t < b * (q + 1)
    PROVE  t \div b = q
  <1> DEFINE p == t \div b
  <1>1. t = b * p + (t % b) /\ p \in Nat /\ t % b \in Nat /\ t % b < b
    BY Division
  <1>2. /\ b * p \in Nat /\ b * q \in Nat /\ b * (q + 1) = b * q + b
        /\ b * (p + 1) = b * p + b
    OBVIOUS
  <1>3. p < q => b * (p + 1) <= b * q
    OBVIOUS
  <1>4. q < p => b * (q + 1) <= b * p
    OBVIOUS
  <1> QED
    BY <1>1, <1>2, <1>3, <1>4

(* The last expected sample begins in the window and reaches its end.      *)
LEMMA LastSlot ==
    ASSUME NEW span \in Nat, NEW step \in Nat, span > 0, step > 0
    PROVE  /\ ExpectedSlots(span, step) \in Nat /\ ExpectedSlots(span, step) > 0
           /\ (ExpectedSlots(span, step) - 1) * step < span
           /\ span <= ExpectedSlots(span, step) * step
  <1> DEFINE q == span \div step
  <1>1. /\ span = step * q + (span % step)
        /\ q \in Nat /\ span % step \in Nat /\ span % step < step
    BY Division
  <1>2. /\ step * q \in Nat /\ step * (q + 1) = step * q + step
        /\ step * (q - 1) = step * q - step
    OBVIOUS
  <1>3. q = 0 => step * q = 0
    OBVIOUS
  <1> QED
    BY <1>1, <1>2, <1>3 DEF ExpectedSlots

Statuses == {"free", "tentative", "busy", "oof", "unknown"}
Intervals == [start : Int, end : Int, status : Statuses]

(* Intervals that partition the first minutes, up to end, as sampled.      *)
Partition(ivs, merged, step, end) ==
    /\ ivs \in Seq(Intervals) /\ Len(ivs) > 0
    /\ ivs[1].start = 0 /\ ivs[Len(ivs)].end = end
    /\ \A i \in 1 .. (Len(ivs) - 1) :
          ivs[i].end = ivs[i + 1].start /\ ivs[i].status # ivs[i + 1].status
    /\ \A i \in 1 .. Len(ivs) : \A t \in ivs[i].start .. (ivs[i].end - 1) :
          ivs[i].status = Sampled(merged, step, t)

Prolongs(ivs, status) == ivs # <<>> /\ Last(ivs).status = status

Prolonged(e, ivs, end) ==
    /\ Len(ivs) > 0 /\ Len(e) = Len(ivs)
    /\ \A j \in 1 .. (Len(ivs) - 1) : e[j] = ivs[j]
    /\ e[Len(ivs)] = [ivs[Len(ivs)] EXCEPT !.end = end]
Added(e, ivs, new) ==
    /\ Len(e) = Len(ivs) + 1
    /\ \A j \in 1 .. Len(ivs) : e[j] = ivs[j]
    /\ e[Len(ivs) + 1] = new

LEMMA ExtendElements ==
    ASSUME NEW ivs \in Seq(Intervals), NEW i \in Nat, NEW status \in Statuses,
           NEW span \in Nat, NEW step \in Nat
    PROVE  /\ Extend(ivs, i, status, span, step) \in Seq(Intervals)
           /\ Prolongs(ivs, status) =>
                Prolonged(Extend(ivs, i, status, span, step), ivs, Least(i * step, span))
           /\ ~Prolongs(ivs, status) =>
                Added(Extend(ivs, i, status, span, step), ivs,
                      Interval((i - 1) * step, Least(i * step, span), status))
  <1> DEFINE m == Len(ivs)
             end == Least(i * step, span)
             e == Extend(ivs, i, status, span, step)
  <1>1. m \in Nat /\ end \in Int /\ (i - 1) * step \in Int
    BY DEF Least
  <1>2. CASE Prolongs(ivs, status)
    <2> DEFINE last == [ivs[m] EXCEPT !.end = end]
    <2>1. m > 0 /\ ivs[m] \in Intervals
      BY <1>2, EmptySeq DEF Prolongs
    <2>2. last \in Intervals
      BY <1>1, <2>1 DEF Intervals
    <2>3. e = SubSeq(ivs, 1, m - 1) \o <<last>> /\ m \in Nat
      BY <1>1, <1>2 DEF Extend, Prolongs, Front, Last
    <2>4. \A j \in 1 .. (m - 1) : ivs[j] \in Intervals
      BY <1>1
    <2> HIDE DEF last, end, e, m
    <2>5. /\ SubSeq(ivs, 1, m - 1) \in Seq(Intervals) /\ Len(SubSeq(ivs, 1, m - 1)) = m - 1
          /\ \A j \in 1 .. (m - 1) : SubSeq(ivs, 1, m - 1)[j] = ivs[j]
      BY <1>1, <2>1, <2>4, SubSeqProperties
    <2>6. <<last>> \in Seq(Intervals) /\ Len(<<last>>) = 1 /\ <<last>>[1] = last
      BY <2>2
    <2>7. /\ e \in Seq(Intervals) /\ Len(e) = m /\ e[m] = last
          /\ \A j \in 1 .. (m - 1) : e[j] = ivs[j]
      <3> DEFINE front == SubSeq(ivs, 1, m - 1)
      <3> HIDE DEF front
      <3>1. /\ front \in Seq(Intervals) /\ Len(front) = m - 1
            /\ \A j \in 1 .. (m - 1) : front[j] = ivs[j]
        BY <2>5 DEF front
      <3>2. e = front \o <<last>> /\ m > 0 /\ m \in Nat
        BY <2>1, <2>3 DEF front
      <3> QED
        BY ONLY <2>6, <3>1, <3>2
    <2> QED
      BY <1>2, <2>1, <2>7 DEF last, end, e, m, Prolonged
  <1>3. CASE ~Prolongs(ivs, status)
    <2> DEFINE new == Interval((i - 1) * step, end, status)
    <2>1. new \in Intervals
      BY <1>1 DEF Interval, Intervals
    <2>2. e = Append(ivs, new)
      BY <1>3 DEF Extend, Prolongs
    <2> HIDE DEF new, end, e
    <2>3. /\ e \in Seq(Intervals) /\ Len(e) = m + 1 /\ e[m + 1] = new
          /\ \A j \in 1 .. m : e[j] = ivs[j]
      BY <1>1, <2>1, <2>2
    <2> QED
      BY <1>3, <2>3 DEF new, end, e, Added
  <1> QED
    BY <1>2, <1>3

(* Sample i covers the minutes from the end of the i - 1 before it to its  *)
(* own end or the end of the window.                                       *)
LEMMA SampledMinutes ==
    ASSUME NEW merged, NEW i \in Nat, i > 0, NEW span \in Nat, NEW step \in Nat, step > 0,
           NEW t \in ((i - 1) * step) .. (Least(i * step, span) - 1)
    PROVE  Sampled(merged, step, t) = _MERGED_STATUSES[merged[i]]
  <1> DEFINE q == i - 1
  <1>1. q \in Nat /\ q + 1 = i /\ q * step = step * q /\ i * step = step * (q + 1)
        /\ step * q \in Nat
    OBVIOUS
  <1>2. t \in Nat /\ step * q <= t /\ t < step * (q + 1)
    BY <1>1 DEF Least
  <1>3. t \div step = q
    <2> HIDE DEF q
    <2> QED
      BY <1>1, <1>2, Quotient
  <1> QED
    BY <1>1, <1>3 DEF Sampled

LEMMA Extends ==
    ASSUME NEW merged, NEW ivs \in Seq(Intervals), NEW i \in Nat, i > 0,
           NEW span \in Nat, NEW step \in Nat, step > 0, (i - 1) * step < span,
           _MERGED_STATUSES[merged[i]] \in Statuses,
           \/ i = 1 /\ ivs = <<>>
           \/ i > 1 /\ Partition(ivs, merged, step, (i - 1) * step)
    PROVE  Partition(Extend(ivs, i, _MERGED_STATUSES[merged[i]], span, step),
                     merged, step, Least(i * step, span))
  <1> DEFINE status == _MERGED_STATUSES[merged[i]]
             m == Len(ivs)
             from == (i - 1) * step
             to == Least(i * step, span)
             e == Extend(ivs, i, status, span, step)
  <1>1. /\ e \in Seq(Intervals)
        /\ Prolongs(ivs, status) => Prolonged(e, ivs, to)
        /\ ~Prolongs(ivs, status) => Added(e, ivs, Interval(from, to, status))
    BY ExtendElements
  <1>2. \A t \in from .. (to - 1) : Sampled(merged, step, t) = status
    BY SampledMinutes
  <1>3. m \in Nat /\ from \in Int /\ to \in Int
    BY DEF Least
  <1>4. i = 1 => from = 0
    OBVIOUS
  <1>5. \A j \in 1 .. m : ivs[j] \in Intervals
    OBVIOUS
  <1>6. m = 0 \/ (m > 0 /\ Partition(ivs, merged, step, from))
    BY DEF Partition
  <1>7. ivs = <<>> <=> m = 0
    BY EmptySeq
  <1>8. m = 0 => from = 0
    BY <1>4, <1>7 DEF Partition
  <1> HIDE DEF status, m, from, to, e
  <1>9. CASE Prolongs(ivs, status)
    <2>0. /\ m > 0 /\ Len(e) = m /\ e[m] = [ivs[m] EXCEPT !.end = to]
          /\ \A j \in 1 .. (m - 1) : e[j] = ivs[j]
      BY <1>1, <1>9 DEF Prolonged, m
    <2>1. m > 0 /\ ivs[m].status = status /\ ivs[m].end = from /\ ivs[m] \in Intervals
      BY <1>3, <1>5, <1>6, <1>9, <2>0 DEF Prolongs, Last, Partition, m
    <2>2. e[m].start = ivs[m].start /\ e[m].end = to /\ e[m].status = status
      BY <2>0, <2>1 DEF Intervals
    <2>3. Partition(ivs, merged, step, from)
      BY <1>6, <2>1
    <2>4. ASSUME NEW j \in 1 .. (m - 1)
          PROVE  e[j].end = e[j + 1].start /\ e[j].status # e[j + 1].status
      <3>1. ivs[j].end = ivs[j + 1].start /\ ivs[j].status # ivs[j + 1].status
        BY <2>3 DEF Partition, m
      <3>2. e[j] = ivs[j] /\ (j + 1 = m \/ j + 1 \in 1 .. (m - 1))
        BY <1>3, <2>0
      <3>3. e[j + 1].start = ivs[j + 1].start /\ e[j + 1].status = ivs[j + 1].status
        BY <2>0, <2>1, <2>2, <3>2
      <3> QED
        BY <3>1, <3>2, <3>3
    <2>5. ASSUME NEW j \in 1 .. m, NEW t \in e[j].start .. (e[j].end - 1)
          PROVE  e[j].status = Sampled(merged, step, t)
      <3>1. \A u \in ivs[j].start .. (ivs[j].end - 1) : ivs[j].status = Sampled(merged, step, u)
        BY <2>3 DEF Partition, m
      <3>2. CASE j # m
        <4>1. e[j] = ivs[j]
          BY <1>3, <2>0, <3>2
        <4> QED
          BY <3>1, <4>1
      <3>3. CASE j = m
        <4>1. ivs[m].start \in Int
          BY <2>1 DEF Intervals
        <4>2. t \in ivs[m].start .. (from - 1) \/ t \in from .. (to - 1)
          BY <1>3, <2>2, <3>3, <4>1
        <4> QED
          BY <1>2, <2>1, <2>2, <3>1, <3>3, <4>2
      <3> QED
        BY <3>2, <3>3
    <2>6. e[1].start = 0
      <3>1. ivs[1].start = 0
        BY <2>3 DEF Partition
      <3>2. m = 1 \/ 1 \in 1 .. (m - 1)
        BY <1>3, <2>1
      <3> QED
        BY <2>0, <2>2, <3>1, <3>2
    <2>7. Len(e) = m /\ m > 0 /\ e[m].end = to
      BY <2>0, <2>1, <2>2
    <2>8. Partition(e, merged, step, to)
      BY <1>1, <2>4, <2>5, <2>6, <2>7 DEF Partition
    <2> QED
      BY <2>8 DEF e, to, status
  <1>10. CASE ~Prolongs(ivs, status)
    <2>0. /\ Len(e) = m + 1 /\ e[m + 1] = Interval(from, to, status)
          /\ \A j \in 1 .. m : e[j] = ivs[j]
      BY <1>1, <1>10 DEF Added, m
    <2>1. /\ e[m + 1].start = from /\ e[m + 1].end = to /\ e[m + 1].status = status
          /\ Len(e) = m + 1
      BY <2>0 DEF Interval
    <2>2. m > 0 => /\ Partition(ivs, merged, step, from)
                   /\ ivs[m].end = from /\ ivs[m].status # status
      BY <1>6, <1>7, <1>10 DEF Prolongs, Last, Partition, m
    <2>3. ASSUME NEW j \in 1 .. m
          PROVE  e[j].end = e[j + 1].start /\ e[j].status # e[j + 1].status
      <3>1. e[j] = ivs[j] /\ m > 0 /\ (j = m \/ (j \in 1 .. (m - 1) /\ j + 1 \in 1 .. m))
        BY <1>3, <2>0
      <3>2. CASE j = m
        BY <2>1, <2>2, <3>1, <3>2
      <3>3. CASE j # m
        <4>1. e[j + 1] = ivs[j + 1]
          BY <2>0, <3>1, <3>3
        <4>2. ivs[j].end = ivs[j + 1].start /\ ivs[j].status # ivs[j + 1].status
          BY <2>2, <3>1, <3>3 DEF Partition, m
        <4> QED
          BY <3>1, <4>1, <4>2
      <3> QED
        BY <3>2, <3>3
    <2>4. ASSUME NEW j \in 1 .. (m + 1), NEW t \in e[j].start .. (e[j].end - 1)
          PROVE  e[j].status = Sampled(merged, step, t)
      <3>1. CASE j = m + 1
        BY <1>2, <2>1, <3>1
      <3>2. CASE j # m + 1
        <4>1. j \in 1 .. m /\ m > 0 /\ e[j] = ivs[j]
          BY <1>3, <2>0, <3>2
        <4> QED
          BY <2>2, <4>1 DEF Partition, m
      <3> QED
        BY <3>1, <3>2
    <2>5. e[1].start = 0
      <3>1. CASE m = 0
        BY <1>8, <2>1, <3>1
      <3>2. CASE m # 0
        <4>1. m > 0 /\ 1 \in 1 .. m
          BY <1>3, <3>2
        <4>2. e[1] = ivs[1]
          BY <2>0, <4>1
        <4> QED
          BY <2>2, <4>1, <4>2 DEF Partition
      <3> QED
        BY <3>1, <3>2
    <2>6. Partition(e, merged, step, to)
      <3>1. Len(e) > 0 /\ Len(e) - 1 = m /\ e[Len(e)].end = to
        BY <1>3, <2>1
      <3> QED
        BY <1>1, <2>1, <2>3, <2>4, <2>5, <3>1 DEF Partition
    <2> QED
      BY <2>6 DEF e, to, status
  <1> QED
    BY <1>9, <1>10

LEMMA StatusOfCode == \A code \in 0 .. 4 : _MERGED_STATUSES[code] \in Statuses
  <1> SUFFICES ASSUME NEW code \in 0 .. 4 PROVE _MERGED_STATUSES[code] \in Statuses
    OBVIOUS
  <1>1. code = 0 \/ code = 1 \/ code = 2 \/ code = 3 \/ code = 4
    OBVIOUS
  <1> QED
    BY <1>1 DEF _MERGED_STATUSES, Statuses

Turned(found, i, merged, span, step) ==
    Extend(found, i, _MERGED_STATUSES[merged[i]], span, step)

LEMMA IntervalLoop ==
    ASSUME NEW merged \in Seq(0 .. 4), NEW span \in Nat, NEW step \in Nat,
           ~Unusable(merged, span, step)
    PROVE  \E h : /\ h[0] = <<>>
                  /\ \A k \in 1 .. Len(merged) : h[k] = Turned(h[k - 1], k, merged, span, step)
                  /\ _busy_intervals(merged, span, step) = h[Len(merged)]
  <1> DEFINE n == Len(merged)
             V == Seq(Intervals)
             turn == [i \in 1 .. n |-> [found \in V |-> Turned(found, i, merged, span, step)]]
             Turn(s, it) == IF s = {} THEN <<>>
                            ELSE Turned(it[s \ {Max(s)}], Max(s), merged, span, step)
             Unfolded(s, it) ==
                IF s = {} THEN <<>>
                ELSE Turned(it[s \ {Max(s)}], [i \in DOMAIN merged |-> i][Max(s)],
                            merged, span, step)
             iter == CHOOSE it : it = [s \in SUBSET (1 .. n) |-> Unfolded(s, it)]
  <1>1. /\ n \in Nat /\ DOMAIN merged = 1 .. n /\ IsFiniteSet(1 .. n) /\ <<>> \in V
        /\ \A i \in 1 .. n : _MERGED_STATUSES[merged[i]] \in Statuses
    <2>1. n \in Nat /\ DOMAIN merged = 1 .. n /\ \A i \in 1 .. n : merged[i] \in 0 .. 4
      OBVIOUS
    <2>2. IsFiniteSet(1 .. n)
      BY <2>1, FS_Interval
    <2> QED
      BY <2>1, <2>2, StatusOfCode
  <1>2. ASSUME NEW i \in 1 .. n, NEW found \in V
        PROVE  /\ turn[i][found] = Turned(found, i, merged, span, step)
               /\ turn[i][found] \in V
    <2>1. i \in Nat
      BY <1>1
    <2>2. Turned(found, i, merged, span, step) \in V
      BY <1>1, <2>1, ExtendElements DEF Turned
    <2> QED
      BY <2>2
  <1>3. StepsInto(turn, 1 .. n, V)
    BY <1>2 DEF StepsInto
  <1> HIDE DEF turn, V
  <1>4. PICK g : LoopsOver(g, n, V, <<>>, turn)
    BY <1>1, <1>3, FoldLastExists
  <1>5. g = [s \in SUBSET (1 .. n) |-> Unfolded(s, g)]
    <2>1. \A s \in SUBSET (1 .. n) : g[s] = Turn(s, g)
      BY <1>2, <1>4 DEF LoopsOver
    <2>2. \A s \in SUBSET (1 .. n) : s # {} => [i \in DOMAIN merged |-> i][Max(s)] = Max(s)
      BY <1>1, <1>4 DEF LoopsOver
    <2>3. \A s \in SUBSET (1 .. n) : g[s] = Unfolded(s, g)
      BY <2>1, <2>2
    <2>4. g \in [SUBSET (1 .. n) -> V]
      BY <1>4 DEF LoopsOver
    <2> HIDE DEF Unfolded
    <2> QED
      BY <2>3, <2>4
  <1>6. iter = [s \in SUBSET (1 .. n) |-> Unfolded(s, iter)]
    <2> HIDE DEF Unfolded
    <2> QED
      BY <1>5
  <1>7. _busy_intervals(merged, span, step) = iter[1 .. n]
    BY <1>1 DEF _busy_intervals, FoldLeftDomain, FoldLeft, MapThenFoldSet, Turned
  <1> HIDE DEF iter
  <1> DEFINE h == [k \in 0 .. n |-> iter[1 .. k]]
  <1>8. h[0] = <<>>
    BY <1>6
  <1>9. ASSUME NEW k \in 1 .. n PROVE h[k] = Turned(h[k - 1], k, merged, span, step)
    <2>1. Max(1 .. k) = k /\ (1 .. k) \ {k} = 1 .. (k - 1) /\ 1 .. k # {}
      BY LastOfFirst
    <2>2. iter[1 .. k] = Unfolded(1 .. k, iter)
      <3> HIDE DEF Unfolded
      <3>1. 1 .. k \in SUBSET (1 .. n)
        BY <1>1
      <3> QED
        BY <1>6, <3>1
    <2>3. iter[1 .. k] = Turned(iter[1 .. (k - 1)], k, merged, span, step)
      BY <1>1, <2>1, <2>2
    <2> QED
      BY <2>3
  <1>10. h[n] = iter[1 .. n]
    BY <1>1
  <1> HIDE DEF h
  <1> QED
    BY <1>7, <1>8, <1>9, <1>10

(* A usable calendar becomes intervals that partition the whole window.    *)
LEMMA WholeWindow ==
    ASSUME NEW merged \in Seq(0 .. 4), NEW span \in Nat, NEW step \in Nat,
           span > 0, step > 0, ~Unusable(merged, span, step)
    PROVE  Partition(_busy_intervals(merged, span, step), merged, step, span)
  <1> DEFINE n == Len(merged)
  <1>1. n = ExpectedSlots(span, step)
    BY DEF Unusable
  <1>2. n \in Nat /\ n > 0 /\ (n - 1) * step < span /\ span <= n * step
    BY <1>1, LastSlot
  <1>3. PICK h : /\ h[0] = <<>>
                 /\ \A k \in 1 .. n : h[k] = Turned(h[k - 1], k, merged, span, step)
                 /\ _busy_intervals(merged, span, step) = h[n]
    BY IntervalLoop
  <1>4. \A k \in 1 .. n : _MERGED_STATUSES[merged[k]] \in Statuses
    BY StatusOfCode
  <1> HIDE DEF n
  <1> DEFINE Upto(k) == IF k = 0 THEN h[k] = <<>>
                        ELSE Partition(h[k], merged, step, Least(k * step, span))
             Good == {k \in 0 .. n : Upto(k)}
  <1>5. \A k \in 1 .. n : (k - 1) * step < span
    <2> SUFFICES ASSUME NEW k \in 1 .. n PROVE (k - 1) * step < span
      OBVIOUS
    <2>1. n - k \in Nat /\ (n - k) * step \in Nat
      BY <1>2
    <2>2. (n - 1) * step = (k - 1) * step + (n - k) * step
      BY <1>2
    <2>3. (k - 1) * step \in Int /\ (n - 1) * step \in Int
      BY <1>2
    <2> QED
      BY <1>2, <2>1, <2>2, <2>3
  <1>6. 0 \in Good
    BY <1>2, <1>3
  <1>7. ASSUME NEW k \in 0 .. (n - 1), k \in Good PROVE k + 1 \in Good
    <2> DEFINE i == k + 1
    <2>1. i \in 1 .. n /\ i \in Nat /\ i > 0 /\ i - 1 = k /\ i \in 0 .. n /\ i # 0
      BY <1>2
    <2>2. k * step < span /\ k * step \in Nat
      <3>1. (i - 1) * step < span
        BY <1>5, <2>1
      <3> QED
        BY <2>1, <3>1
    <2>3. h[i] = Turned(h[k], i, merged, span, step)
      BY <1>3, <2>1
    <2>4. \/ i = 1 /\ h[k] = <<>>
          \/ i > 1 /\ Partition(h[k], merged, step, k * step)
      <3>1. Upto(k)
        BY <1>7
      <3>2. Least(k * step, span) = k * step
        BY <2>2 DEF Least
      <3> QED
        BY <2>1, <3>1, <3>2
    <2>5. h[k] \in Seq(Intervals)
      <3>1. <<>> \in Seq(Intervals)
        OBVIOUS
      <3> QED
        BY <2>4, <3>1 DEF Partition
    <2>6. Partition(h[i], merged, step, Least(i * step, span))
      <3> DEFINE ivs == h[k]
      <3>1. /\ ivs \in Seq(Intervals) /\ (i - 1) * step < span
            /\ _MERGED_STATUSES[merged[i]] \in Statuses
            /\ \/ i = 1 /\ ivs = <<>>
               \/ i > 1 /\ Partition(ivs, merged, step, (i - 1) * step)
        BY <1>4, <2>1, <2>2, <2>4, <2>5
      <3> HIDE DEF ivs, i
      <3>2. Partition(Turned(ivs, i, merged, span, step), merged, step, Least(i * step, span))
        BY <2>1, <3>1, Extends DEF Turned
      <3> QED
        BY <2>3, <3>2 DEF ivs
    <2> QED
      BY <2>1, <2>6
  <1>8. n \in Good
    <2> HIDE DEF Good
    <2>1. \A k \in 0 .. n : k \in Good
      BY <1>2, <1>6, <1>7, UpwardInduction
    <2> QED
      BY <1>2, <2>1
  <1>9. Least(n * step, span) = span
    BY <1>2 DEF Least
  <1> QED
    BY <1>2, <1>3, <1>8, <1>9

(* Nobody else's calendar stands for a mailbox: without as many responses  *)
(* as mailboxes there is none.                                             *)
LEMMA ViewIsOwn ==
    ASSUME NEW A, NEW asked \in Seq(A), NEW calendar, NEW views \in Views(asked, calendar),
           NEW i \in 1 .. Len(asked)
    PROVE  ViewOf(views, asked, i)
             = IF Len(views) = Len(asked) THEN calendar[asked[i]] ELSE NoMerged
  <1> DEFINE n == Len(asked)
             all == [j \in 1 .. n |-> calendar[asked[j]]]
             Each == {all[j] : j \in 1 .. n}
  <1>1. n \in Nat /\ all \in [1 .. n -> Each] /\ all \in Seq(Each) /\ Len(all) = n
    OBVIOUS
  <1>2. ASSUME NEW k \in 1 .. n PROVE Len(RemoveAt(all, k)) = n - 1
    <2> HIDE DEF all, Each, n
    <2>1. /\ \A j \in 1 .. (k - 1) : all[j] \in Each
          /\ \A j \in (k + 1) .. n : all[j] \in Each
          /\ k - 1 \in Int /\ k + 1 \in Int /\ 1 \in Int /\ n \in Int
      BY <1>1
    <2>2. SubSeq(all, 1, k - 1) \in Seq(Each) /\ Len(SubSeq(all, 1, k - 1)) = k - 1
      BY <1>1, <2>1, SubSeqProperties
    <2>3. SubSeq(all, k + 1, n) \in Seq(Each) /\ Len(SubSeq(all, k + 1, n)) = n - k
      BY <1>1, <2>1, SubSeqProperties
    <2> DEFINE u == SubSeq(all, 1, k - 1)
               v == SubSeq(all, k + 1, n)
    <2>4. RemoveAt(all, k) = u \o v
      BY <1>1 DEF RemoveAt
    <2> HIDE DEF u, v
    <2>5. Len(u \o v) = Len(u) + Len(v)
      BY <2>2, <2>3 DEF u, v
    <2> QED
      BY <1>1, <2>2, <2>3, <2>4, <2>5 DEF u, v
  <1>3. views = all \/ \E k \in 1 .. n : views = RemoveAt(all, k)
    BY <1>1 DEF Views
  <1>4. Len(views) = n => views[i] = calendar[asked[i]]
    <2> HIDE DEF Each
    <2>1. all[i] = calendar[asked[i]]
      OBVIOUS
    <2> HIDE DEF all, n
    <2>2. n - 1 # n
      BY <1>1
    <2> QED
      BY <1>2, <1>3, <2>1, <2>2
  <1> QED
    BY <1>4 DEF ViewOf

LEMMA AskedOnce ==
    ASSUME NEW A, NEW guests \in Seq(A)
    PROVE  Len(Distinct(guests)) = Cardinality(ToSet(guests))
  <1> DEFINE asked == Distinct(guests)
             n == Len(asked)
  <1>1. asked \in Seq(A) /\ ToSet(asked) = ToSet(guests) /\ IsInjective(asked)
    BY DistinctElements
  <1> HIDE DEF asked
  <1>2. n \in Nat /\ DOMAIN asked = 1 .. n /\ asked \in [1 .. n -> ToSet(guests)]
    <2>1. n \in Nat /\ DOMAIN asked = 1 .. n /\ asked \in [1 .. n -> A]
      BY <1>1
    <2>2. \A i \in 1 .. n : asked[i] \in ToSet(asked)
      BY <2>1 DEF ToSet
    <2> QED
      BY <1>1, <2>1, <2>2
  <1>3. \A a \in ToSet(guests) : \E i \in 1 .. n : asked[i] = a
    BY <1>1, <1>2 DEF ToSet
  <1> HIDE DEF n
  <1>4. asked \in Bijection(1 .. n, ToSet(guests))
    BY <1>1, <1>2, <1>3 DEF Bijection, Injection, Surjection
  <1>5. ExistsBijection(1 .. n, ToSet(guests))
    BY <1>4 DEF ExistsBijection
  <1> QED
    BY <1>2, <1>5, FS_CountingElements DEF n, asked

LEMMA OneWord ==
    ASSUME NEW ivs \in Seq(Intervals), Len(ivs) > 0
    PROVE  /\ _window_status(ivs) = "free" <=> \A i \in 1 .. Len(ivs) : ivs[i].status = "free"
           /\ _window_status(ivs) = "busy" => \A i \in 1 .. Len(ivs) : ivs[i].status # "unknown"
  <1> DEFINE statuses == {x.status : x \in ToSet(ivs)}
  <1>1. statuses = {ivs[i].status : i \in 1 .. Len(ivs)}
    BY DEF ToSet
  <1>2. ivs[1].status \in statuses
    <2>1. 1 \in 1 .. Len(ivs)
      OBVIOUS
    <2> QED
      BY <1>1, <2>1
  <1>3. _window_status(ivs) = IF "unknown" \in statuses THEN "unknown"
                              ELSE IF statuses = {"free"} THEN "free" ELSE "busy"
    BY DEF _window_status
  <1>4. statuses = {"free"} <=> \A i \in 1 .. Len(ivs) : ivs[i].status = "free"
    <2> HIDE DEF statuses
    <2> QED
      BY <1>1, <1>2
  <1>5. "unknown" \in statuses <=> \E i \in 1 .. Len(ivs) : ivs[i].status = "unknown"
    <2> HIDE DEF statuses
    <2> QED
      BY <1>1
  <1> HIDE DEF statuses
  <1>6. CASE "unknown" \in statuses
    BY <1>3, <1>4, <1>5, <1>6
  <1>7. CASE "unknown" \notin statuses
    BY <1>3, <1>4, <1>5, <1>7
  <1> QED
    BY <1>6, <1>7

(* What the answer says of one mailbox, given its calendar or none.        *)
RowIsSampled(ivs, status, merged, usable, span, step) ==
    /\ ivs[1].start = 0 /\ Last(ivs).end = span
    /\ \A i \in 1 .. (Len(ivs) - 1) :
          ivs[i].end = ivs[i + 1].start /\ ivs[i].status # ivs[i + 1].status
    /\ \A i \in 1 .. Len(ivs) : \A t \in ivs[i].start .. (ivs[i].end - 1) :
          ivs[i].status = IF usable THEN Sampled(merged, step, t) ELSE "unknown"
    /\ status = "free" <=> \A i \in 1 .. Len(ivs) : ivs[i].status = "free"
    /\ status = "busy" =>
          usable /\ \A i \in 1 .. Len(ivs) : ivs[i].status # "unknown"

LEMMA UsableRow ==
    ASSUME NEW merged, NEW span \in Nat, NEW step \in Nat, span > 0, step > 0,
           merged \in Calendars(span, step), ~Unusable(merged, span, step)
    PROVE  LET ivs == _busy_intervals(merged, span, step)
           IN  RowIsSampled(ivs, _window_status(ivs), merged, TRUE, span, step)
  <1> DEFINE ivs == _busy_intervals(merged, span, step)
  <1>1. merged \in Seq(0 .. 4)
    <2>1. merged # NoMerged
      BY DEF Unusable
    <2>2. PICK m \in 0 .. ExpectedSlots(span, step) : merged \in [1 .. m -> Codes]
      BY <2>1 DEF Calendars, BoundedSeq, SeqOf
    <2>3. ExpectedSlots(span, step) \in Nat
      BY LastSlot
    <2>4. m \in Nat
      BY <2>3
    <2>5. \A i \in 1 .. m : merged[i] \in ToSet(merged) /\ merged[i] \in 0 .. 4
      BY <2>2 DEF Unusable, ToSet
    <2> QED
      BY <2>2, <2>4, <2>5
  <1>2. Partition(ivs, merged, step, span)
    BY <1>1, WholeWindow
  <1> HIDE DEF ivs
  <1>3. ivs \in Seq(Intervals) /\ Len(ivs) > 0
    BY <1>2 DEF Partition
  <1>4. /\ _window_status(ivs) = "free" <=> \A i \in 1 .. Len(ivs) : ivs[i].status = "free"
        /\ _window_status(ivs) = "busy" => \A i \in 1 .. Len(ivs) : ivs[i].status # "unknown"
    BY <1>3, OneWord
  <1> QED
    BY <1>2, <1>4 DEF RowIsSampled, Partition, Last, ivs

LEMMA UnusableRow ==
    ASSUME NEW merged, NEW calendar, NEW span \in Nat, NEW step, Unusable(merged, span, step)
    PROVE  LET ivs == _busy_intervals(merged, span, step)
           IN  RowIsSampled(ivs, _window_status(ivs), calendar, FALSE, span, step)
  <1> DEFINE ivs == <<Interval(0, span, "unknown")>>
  <1>1. _busy_intervals(merged, span, step) = ivs
    BY DEF _busy_intervals
  <1>2. /\ ivs \in Seq(Intervals) /\ Len(ivs) = 1
        /\ ivs[1].start = 0 /\ ivs[1].end = span /\ ivs[1].status = "unknown"
    BY DEF Interval, Intervals, Statuses
  <1> HIDE DEF ivs
  <1>3. /\ _window_status(ivs) = "free" <=> \A i \in 1 .. Len(ivs) : ivs[i].status = "free"
        /\ _window_status(ivs) = "busy" => \A i \in 1 .. Len(ivs) : ivs[i].status # "unknown"
    <2>1. Len(ivs) > 0
      BY <1>2
    <2> QED
      BY <1>2, <2>1, OneWord
  <1>4. \A i \in 1 .. Len(ivs) : i = 1
    BY <1>2
  <1>5. RowIsSampled(ivs, _window_status(ivs), calendar, FALSE, span, step)
    BY <1>2, <1>3, <1>4 DEF RowIsSampled, Last
  <1> QED
    BY <1>1, <1>5

(* The report is the answer to some request.                               *)
ReportInv ==
    \/ report = Nothing
    \/ \E guests \in Guests, span \in Spans, step \in Steps :
       \E calendar \in [ToSet(guests) -> Calendars(span, step)] :
       \E views \in Views(Distinct(guests), calendar) :
          report = [span |-> span, step |-> step, calendar |-> calendar,
                    guests |-> guests,
                    aligned |-> Len(views) = Cardinality(ToSet(guests)),
                    rows |-> check_availability(guests, views, span, step)]

(* The intervals of every mailbox partition the window and give each       *)
(* minute the status of its own calendar, for every window, sample width   *)
(* and attendee list, and whatever calendars Exchange sends or leaves out: *)
(* check_availability with _busy_intervals and _window_status.             *)
THEOREM IntervalsAreTheSamples == AvailabilitySpec => []IntervalsAreSamples
  <1>1. AvailabilityInit => ReportInv
    BY DEF AvailabilityInit, ReportInv
  <1>2. ReportInv /\ [AvailabilityNext]_reportVars => ReportInv'
    BY DEF AvailabilityNext, reportVars, ReportInv
  <1>3. ReportInv => IntervalsAreSamples
    <2> SUFFICES ASSUME NEW guests \in Guests, NEW span \in Spans, NEW step \in Steps,
                        NEW calendar \in [ToSet(guests) -> Calendars(span, step)],
                        NEW views \in Views(Distinct(guests), calendar),
                        report = [span |-> span, step |-> step, calendar |-> calendar,
                                  guests |-> guests,
                                  aligned |-> Len(views) = Cardinality(ToSet(guests)),
                                  rows |-> check_availability(guests, views, span, step)]
                 PROVE  IntervalsAreSamples
      BY DEF ReportInv, IntervalsAreSamples
    <2> DEFINE A == UNION {ToSet(g) : g \in Guests}
               asked == Distinct(guests)
               n == Len(asked)
               aligned == Len(views) = Cardinality(ToSet(guests))
               rows == check_availability(guests, views, span, step)
               usable(a) == aligned /\ ~Unusable(calendar[a], span, step)
    <2>1. /\ span \in Nat /\ span > 0 /\ step \in Nat /\ step > 0
          /\ guests \in Seq(A)
      BY AvailabilityAssumption
    <2> HIDE DEF A
    <2>2. asked \in Seq(A) /\ ToSet(asked) = ToSet(guests)
      BY <2>1, DistinctElements
    <2>3. aligned <=> Len(views) = n
      BY <2>1, AskedOnce
    <2> HIDE DEF asked
    <2>4. n \in Nat /\ DOMAIN asked = 1 .. n /\ \A i \in 1 .. n : asked[i] \in ToSet(guests)
      <3>1. n \in Nat /\ DOMAIN asked = 1 .. n
        BY <2>2
      <3> QED
        BY <2>2, <3>1 DEF ToSet
    <2> DEFINE merged(i) == ViewOf(views, asked, i)
               ivs(i) == _busy_intervals(merged(i), span, step)
    <2>5. rows = [i \in 1 .. n |-> [email |-> asked[i], intervals |-> ivs(i),
                                    status |-> _window_status(ivs(i))]]
      BY DEF check_availability, asked
    <2>6. ASSUME NEW i \in 1 .. n
          PROVE  RowIsSampled(ivs(i), _window_status(ivs(i)), calendar[asked[i]],
                              usable(asked[i]), span, step)
      <3> DEFINE own == calendar[asked[i]]
      <3>1. merged(i) = IF Len(views) = n THEN own ELSE NoMerged
        BY <2>2, ViewIsOwn DEF asked
      <3>2. own \in Calendars(span, step)
        BY <2>4
      <3>3. CASE usable(asked[i])
        <4>1. merged(i) = own /\ ~Unusable(own, span, step)
          BY <2>3, <3>1, <3>3
        <4>2. RowIsSampled(ivs(i), _window_status(ivs(i)), own, TRUE, span, step)
          BY <2>1, <3>2, <4>1, UsableRow
        <4> QED
          BY <3>3, <4>2
      <3>4. CASE ~usable(asked[i])
        <4>1. Unusable(merged(i), span, step)
          BY <2>3, <3>1, <3>4 DEF Unusable
        <4>2. RowIsSampled(ivs(i), _window_status(ivs(i)), own, FALSE, span, step)
          BY <2>1, <4>1, UnusableRow
        <4> QED
          BY <3>4, <4>2
      <3> QED
        BY <3>3, <3>4
    <2> HIDE DEF merged, ivs, usable, n
    <2>7. ToSet(rows) = {rows[i] : i \in 1 .. n}
      BY <2>5 DEF ToSet
    <2>8. {r.email : r \in ToSet(rows)} = ToSet(guests)
      <3>1. \A i \in 1 .. n : rows[i].email = asked[i]
        BY <2>5
      <3> HIDE DEF rows
      <3>2. {r.email : r \in ToSet(rows)} = {asked[i] : i \in 1 .. n}
        BY <2>7, <3>1
      <3> QED
        BY <2>2, <2>4, <3>2 DEF ToSet
    <2>9. \A r \in ToSet(rows) :
             RowIsSampled(r.intervals, r.status, calendar[r.email], usable(r.email), span, step)
      BY <2>5, <2>6, <2>7
    <2>10. /\ report.rows = rows /\ report.guests = guests /\ report.calendar = calendar
           /\ report.span = span /\ report.step = step /\ report.aligned = aligned
      OBVIOUS
    <2> HIDE DEF rows, aligned
    <2> QED
      BY <2>8, <2>9, <2>10 DEF IntervalsAreSamples, RowIsSampled, usable
  <1> QED
    BY <1>1, <1>2, <1>3, PTL DEF AvailabilitySpec
=============================================================================
