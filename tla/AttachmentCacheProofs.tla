----------------------- MODULE AttachmentCacheProofs -----------------------
(***************************************************************************)
(* Theorems about the download cache and its route, for any number of      *)
(* exports and downloads and any limits and durations: type correctness;   *)
(* ready exports and live links serve; every file is accounted for; every  *)
(* stream is closed in time.                                               *)
(***************************************************************************)
EXTENDS AttachmentCache, DownloadRoute, DataInduction

-----------------------------------------------------------------------------
(* TYPES.  That no file exceeds the limit of one export takes an invariant *)
(* of its own: the chunks of a part file are those its thread has counted, *)
(* also after a sweep has unlinked it.                                     *)

(* A thread that has not begun to write has counted nothing; one that      *)
(* writes has counted what is in its part file, if that still exists; a    *)
(* thread in its own cleanup has yet to reserve.                           *)
SizeInv ==
    /\ \A w \in Saves :
          /\ pc[w] \in {"idle", "clean", "reserve", "open"} => written[w] = 0
          /\ pc[w] \in {"write", "renew", "replace"} => part[w] \in {NoFile, written[w]}
    /\ sweep.by \in Saves => pc[sweep.by] = "clean"

BaseInv == TypeOK /\ SizeInv

-----------------------------------------------------------------------------
(* Type correctness, variable by variable.                                 *)
RowType == [state : States, size : Sizes, left : 0..(Lease + Retention)]
SweepType == [by : Saves \cup {Sweeper, Nobody}, todo : SUBSET Saves,
              cur : Saves \cup {Nobody}, gone : SUBSET Saves]
ReadType == [at : {"idle", "open", "served", "gone"},
             id : Saves \cup {Nobody}, size : Sizes]

RowOK == row \in [Saves -> RowType]
DiskOK == /\ part \in [Saves -> Sizes \cup {NoFile}]
          /\ file \in [Saves -> Sizes \cup {NoFile}]
SaverOK == /\ pc \in [Saves -> PCs]
           /\ written \in [Saves -> Sizes]
           /\ age \in [Saves -> 0..RenewAfter]
           /\ stuck \subseteq Saves
SweepOK == sweep \in SweepType
LinkOK == link \in [Saves -> 0..TTL]
ReaderOK == reader \in [Readers -> ReadType]
CrashesOK == crashes \in 0..MaxCrashes

LEMMA Parts ==
    TypeOK <=> RowOK /\ DiskOK /\ SaverOK /\ SweepOK /\ LinkOK /\ ReaderOK /\ CrashesOK
  BY DEF TypeOK, RowOK, DiskOK, SaverOK, SweepOK, LinkOK, ReaderOK, CrashesOK,
         RowType, SweepType, ReadType

LEMMA PartsNext ==
    (RowOK /\ DiskOK /\ SaverOK /\ SweepOK /\ LinkOK /\ ReaderOK /\ CrashesOK)' => TypeOK'
  BY DEF TypeOK, RowOK, DiskOK, SaverOK, SweepOK, LinkOK, ReaderOK, CrashesOK,
         RowType, SweepType, ReadType

LEMMA Constants ==
    /\ NoRow \in RowType /\ NoSweep \in SweepType /\ NoRead \in ReadType
    /\ 0 \in Sizes /\ Limit \in Sizes /\ \A n \in Sizes : n \in Nat /\ n <= Limit
    /\ \A n \in Sizes : \A left \in {Lease, Retention} :
          /\ [state |-> "writing", size |-> n, left |-> left] \in RowType
          /\ [state |-> "ready", size |-> n, left |-> left] \in RowType
    /\ \A rec \in RowType : \A left \in 0..(Lease + Retention) :
          [rec EXCEPT !.left = left] \in RowType
  BY CacheAssumption DEF NoRow, NoSweep, NoRead, RowType, SweepType, ReadType,
         Sizes, States

LEMMA SweepMoves ==
    ASSUME NEW s \in SweepType, NEW w \in Saves
    PROVE  /\ [s EXCEPT !.cur = w, !.todo = s.todo \ {w}] \in SweepType
           /\ [s EXCEPT !.todo = s.todo \ {w}] \in SweepType
           /\ [s EXCEPT !.cur = Nobody, !.gone = s.gone \cup {w}] \in SweepType
           /\ [s EXCEPT !.cur = Nobody] \in SweepType
  BY DEF SweepType

LEMMA SweepTypes ==
    ASSUME TypeOK, SweepBegin(Sweeper) \/ Sweep \/ \E w \in Saves : SweepBegin(w)
    PROVE  TypeOK'
  <1> USE Parts, PartsNext, Constants DEF RowOK, DiskOK, SaverOK, LinkOK, ReaderOK,
          CrashesOK, disk, saver
  <1>1. ASSUME NEW c \in Saves \cup {Sweeper}, SweepBegin(c) PROVE TypeOK'
    <2>1. Expired \subseteq Saves
      BY DEF Expired, Indexed
    <2>2. SweepOK'
      BY <1>1, <2>1 DEF SweepBegin, SweepOK, SweepType, NoSweep
    <2> QED
      BY <1>1, <2>2 DEF SweepBegin
  <1>2. ASSUME NEW w \in Saves, SweepPart(w) PROVE TypeOK'
    <2>1. SweepOK'
      <3>1. sweep \in SweepType
        BY DEF SweepOK
      <3>2. sweep' \in {[sweep EXCEPT !.cur = w, !.todo = sweep.todo \ {w}],
                        [sweep EXCEPT !.todo = sweep.todo \ {w}]}
        BY <1>2 DEF SweepPart
      <3>3. sweep' \in SweepType
        BY ONLY <3>1, <3>2, SweepMoves, w \in Saves
      <3> QED
        BY <3>3 DEF SweepOK
    <2>2. part' \in [Saves -> Sizes \cup {NoFile}]
      BY <1>2 DEF SweepPart
    <2> QED
      BY <1>2, <2>1, <2>2 DEF SweepPart
  <1>3. ASSUME NEW w \in Saves, SweepFile(w) PROVE TypeOK'
    <2>1. SweepOK'
      <3>1. sweep \in SweepType
        BY DEF SweepOK
      <3>2. sweep' \in {[sweep EXCEPT !.cur = Nobody, !.gone = sweep.gone \cup {w}],
                        [sweep EXCEPT !.cur = Nobody]}
        BY <1>3 DEF SweepFile
      <3>3. sweep' \in SweepType
        BY ONLY <3>1, <3>2, SweepMoves, w \in Saves
      <3> QED
        BY <3>3 DEF SweepOK
    <2>2. file' \in [Saves -> Sizes \cup {NoFile}]
      BY <1>3 DEF SweepFile
    <2> QED
      BY <1>3, <2>1, <2>2 DEF SweepFile
  <1>4. CASE SweepCommit
    <2>1. SweepOK'
      BY <1>4 DEF SweepCommit, SweepOK
    <2>2. row' \in [Saves -> RowType]
      BY <1>4 DEF SweepCommit
    <2>3. pc' \in [Saves -> PCs]
      BY <1>4 DEF SweepCommit, PCs
    <2> QED
      BY <1>4, <2>1, <2>2, <2>3 DEF SweepCommit
  <1>5. CASE SweepAborts
    <2>1. SweepOK'
      BY <1>5 DEF SweepAborts, SweepOK
    <2>2. pc' \in [Saves -> PCs]
      BY <1>5 DEF SweepAborts, PCs
    <2> QED
      BY <1>5, <2>1, <2>2 DEF SweepAborts
  <1> QED
    BY <1>1, <1>2, <1>3, <1>4, <1>5 DEF Sweep

LEMMA SaveTypes ==
    ASSUME TypeOK, SizeInv, NEW w \in Saves, Save(w), ~SweepBegin(w)
    PROVE  TypeOK'
  <1> USE Parts, PartsNext, Constants DEF RowOK, DiskOK, SaverOK, SweepOK, LinkOK,
          ReaderOK, CrashesOK, disk, saver
  <1>0. \A where \in PCs : GoTo(w, where) => pc' \in [Saves -> PCs]
    BY DEF GoTo
  <1> HIDE DEF SweepOK
  <1>1. CASE StartSave(w) \/ EndOfStream(w) \/ SaveRaises(w)
    <2>1. pc' \in [Saves -> PCs]
      BY <1>0, <1>1 DEF StartSave, EndOfStream, SaveRaises, PCs
    <2> QED
      BY <1>1, <2>1 DEF StartSave, EndOfStream, SaveRaises, SweepOK
  <1>2. CASE Reserve(w)
    <2>1. pc' \in [Saves -> PCs]
      BY <1>0, <1>2 DEF Reserve, PCs
    <2>2. row' \in [Saves -> RowType]
      BY <1>2 DEF Reserve
    <2>3. age' \in [Saves -> 0..RenewAfter]
      BY <1>2, CacheAssumption DEF Reserve
    <2> QED
      BY <1>2, <2>1, <2>2, <2>3 DEF Reserve, SweepOK
  <1>3. CASE OpenPart(w)
    <2>1. pc' \in [Saves -> PCs]
      BY <1>0, <1>3 DEF OpenPart, PCs
    <2>2. part' \in [Saves -> Sizes \cup {NoFile}]
      BY <1>3 DEF OpenPart
    <2> QED
      BY <1>3, <2>1, <2>2 DEF OpenPart, SweepOK
  <1>4. CASE WriteChunk(w)
    <2>1. pc' \in [Saves -> PCs]
      BY <1>0, <1>4 DEF WriteChunk, PCs
    <2>2. written' \in [Saves -> Sizes]
      BY <1>4, CacheAssumption DEF WriteChunk, BeyondLimit, Sizes
    <2>3. part' \in [Saves -> Sizes \cup {NoFile}]
      <3>1. part[w] \in {NoFile, written[w]}
        BY <1>4 DEF WriteChunk, SizeInv
      <3> QED
        BY <1>4, <3>1, CacheAssumption DEF WriteChunk, BeyondLimit, Sizes
    <2> QED
      BY <1>4, <2>1, <2>2, <2>3 DEF WriteChunk, SweepOK
  <1>5. CASE RenewLease(w)
    <2>1. pc' \in [Saves -> PCs]
      BY <1>0, <1>5 DEF RenewLease, PCs
    <2>2. row' \in [Saves -> RowType]
      <3>1. Lease \in 0..(Lease + Retention)
        BY CacheAssumption
      <3>2. [row[w] EXCEPT !.left = Lease] \in RowType
        BY <3>1
      <3> QED
        BY <1>5, <3>2 DEF RenewLease
    <2>3. age' \in [Saves -> 0..RenewAfter]
      BY <1>5, CacheAssumption DEF RenewLease
    <2> QED
      BY <1>5, <2>1, <2>2, <2>3 DEF RenewLease, SweepOK
  <1>6. CASE Replace(w)
    <2>1. pc' \in [Saves -> PCs]
      BY <1>0, <1>6 DEF Replace, PCs
    <2>2. DiskOK'
      BY <1>6 DEF Replace
    <2>3. RowOK' /\ SaverOK' /\ SweepOK' /\ LinkOK' /\ ReaderOK' /\ CrashesOK'
      BY <1>6, <2>1 DEF Replace, SweepOK
    <2> QED
      BY <2>2, <2>3
  <1>7. CASE Publish(w)
    <2>1. pc' \in [Saves -> PCs]
      BY <1>0, <1>7 DEF Publish, PCs
    <2>2. row' \in [Saves -> RowType]
      <3>1. [state |-> "ready", size |-> written[w], left |-> Retention] \in RowType
        OBVIOUS
      <3> QED
        BY <1>7, <3>1 DEF Publish
    <2> QED
      BY <1>7, <2>1, <2>2 DEF Publish, SweepOK
  <1>8. CASE UndoPart(w)
    <2>1. pc' \in [Saves -> PCs]
      BY <1>0, <1>8 DEF UndoPart, PCs
    <2>2. DiskOK' /\ stuck' \subseteq Saves
      BY <1>8 DEF UndoPart
    <2> QED
      BY <1>8, <2>1, <2>2 DEF UndoPart, SweepOK
  <1>9. CASE UndoFile(w)
    <2>1. pc' \in [Saves -> PCs]
      BY <1>0, <1>9 DEF UndoFile, PCs
    <2>2. DiskOK' /\ stuck' \subseteq Saves
      BY <1>9 DEF UndoFile
    <2> QED
      BY <1>9, <2>1, <2>2 DEF UndoFile, SweepOK
  <1>10. CASE UndoRow(w)
    <2>1. pc' \in [Saves -> PCs]
      BY <1>0, <1>10 DEF UndoRow, PCs
    <2>2. row' \in [Saves -> RowType]
      BY <1>10 DEF UndoRow
    <2> QED
      BY <1>10, <2>1, <2>2 DEF UndoRow, SweepOK
  <1>11. CASE Issue(w)
    <2>1. pc' \in [Saves -> PCs]
      BY <1>0, <1>11 DEF Issue, PCs
    <2>2. LinkLife(w) \in 0..TTL
      BY CacheAssumption DEF LinkLife, Min2, RowType
    <2>3. link' \in [Saves -> 0..TTL]
      BY <1>11, <2>2 DEF Issue
    <2> QED
      BY <1>11, <2>1, <2>3 DEF Issue, SweepOK
  <1> QED
    BY <1>1, <1>2, <1>3, <1>4, <1>5, <1>6, <1>7, <1>8, <1>9, <1>10, <1>11 DEF Save

LEMMA OtherTypes ==
    ASSUME TypeOK, Tick \/ Crash \/ (\E d \in Readers : Download(d)) \/ UNCHANGED vars
    PROVE  TypeOK'
  <1> USE Parts, PartsNext, Constants DEF RowOK, DiskOK, SaverOK, SweepOK, LinkOK,
          ReaderOK, CrashesOK, disk, saver
  <1>1. CASE Tick
    <2>1. row' \in [Saves -> RowType]
      <3>1. ASSUME NEW w \in Saves
            PROVE  [row[w] EXCEPT !.left = Less(row[w].left)] \in RowType
        <4>1. row[w] \in RowType /\ row[w].left \in 0..(Lease + Retention)
          BY DEF RowType
        <4>2. Less(row[w].left) \in 0..(Lease + Retention)
          BY <4>1, CacheAssumption DEF Less
        <4> QED
          BY <4>1, <4>2
      <3> QED
        BY <1>1, <3>1 DEF Tick
    <2>2. link' \in [Saves -> 0..TTL]
      BY <1>1, CacheAssumption DEF Tick, Less
    <2>3. age' \in [Saves -> 0..RenewAfter]
      BY <1>1, CacheAssumption DEF Tick
    <2> QED
      BY <1>1, <2>1, <2>2, <2>3 DEF Tick
  <1>2. CASE Crash
    <2>1. pc' \in [Saves -> PCs]
      BY <1>2 DEF Crash, PCs
    <2>2. crashes' \in 0..MaxCrashes
      BY <1>2, CacheAssumption DEF Crash
    <2> QED
      BY <1>2, <2>1, <2>2 DEF Crash
  <1>3. ASSUME NEW d \in Readers, Download(d) PROVE TypeOK'
    <2>1. reader' \in [Readers -> ReadType]
      <3>1. CASE \E w \in Saves : Request(d, w)
        <4>1. \A w \in Saves : row[w].size \in Sizes
          BY DEF RowType
        <4> QED
          BY <3>1, <4>1 DEF Request, ReadType
      <3>2. CASE OpenFile(d)
        <4>1. \A at \in {"served", "gone"} : [reader[d] EXCEPT !.at = at] \in ReadType
          BY DEF ReadType
        <4> QED
          BY <3>2, <4>1 DEF OpenFile
      <3>3. CASE EndRequest(d)
        BY <3>3 DEF EndRequest
      <3> QED
        BY <1>3, <3>1, <3>2, <3>3 DEF Download
    <2> QED
      BY <1>3, <2>1 DEF Download, Request, OpenFile, EndRequest
  <1>4. CASE UNCHANGED vars
    BY <1>4 DEF vars
  <1> QED
    BY <1>1, <1>2, <1>3, <1>4

LEMMA NextTypes == TypeOK /\ SizeInv /\ [Next]_vars => TypeOK'
  BY SweepTypes, SaveTypes, OtherTypes DEF Next

LEMMA NextSizes == TypeOK /\ SizeInv /\ [Next]_vars => SizeInv'
  <1> SUFFICES ASSUME TypeOK, SizeInv, [Next]_vars PROVE SizeInv'
    OBVIOUS
  <1>0. /\ pc \in [Saves -> PCs] /\ part \in [Saves -> Sizes \cup {NoFile}]
        /\ written \in [Saves -> Sizes] /\ Sweeper \notin Saves /\ Nobody \notin Saves
        /\ sweep \in SweepType
    BY CacheAssumption DEF TypeOK, SweepType
  <1> USE <1>0 DEF SizeInv, disk, saver, GoTo
  <1>1. ASSUME NEW c \in Saves \cup {Sweeper}, SweepBegin(c) PROVE SizeInv'
    BY <1>1 DEF SweepBegin, NoSweep
  <1>2. ASSUME NEW w \in Saves, SweepPart(w) PROVE SizeInv'
    BY <1>2 DEF SweepPart, SweepType
  <1>3. ASSUME NEW w \in Saves, SweepFile(w) PROVE SizeInv'
    BY <1>3 DEF SweepFile, SweepType
  <1>4. CASE SweepCommit
    BY <1>4 DEF SweepCommit, NoSweep
  <1>5. CASE SweepAborts
    BY <1>5 DEF SweepAborts, NoSweep
  <1>6. ASSUME NEW w \in Saves, Save(w), ~SweepBegin(w) PROVE SizeInv'
    <2>1. CASE StartSave(w) \/ EndOfStream(w) \/ SaveRaises(w)
      BY <2>1 DEF StartSave, EndOfStream, SaveRaises
    <2>2. CASE Reserve(w)
      BY <2>2 DEF Reserve
    <2>3. CASE OpenPart(w)
      BY <2>3 DEF OpenPart
    <2>4. CASE WriteChunk(w)
      BY <2>4 DEF WriteChunk
    <2>5. CASE RenewLease(w)
      BY <2>5 DEF RenewLease
    <2>6. CASE Replace(w)
      BY <2>6 DEF Replace
    <2>7. CASE Publish(w)
      BY <2>7 DEF Publish
    <2>8. CASE UndoPart(w) \/ UndoFile(w)
      BY <2>8 DEF UndoPart, UndoFile
    <2>9. CASE UndoRow(w) \/ Issue(w)
      BY <2>9 DEF UndoRow, Issue
    <2> QED
      BY <1>6, <2>1, <2>2, <2>3, <2>4, <2>5, <2>6, <2>7, <2>8, <2>9 DEF Save
  <1>7. ASSUME NEW d \in Readers, Download(d) PROVE SizeInv'
    BY <1>7 DEF Download, Request, OpenFile, EndRequest
  <1>8. CASE Tick
    BY <1>8 DEF Tick
  <1>9. CASE Crash
    BY <1>9 DEF Crash, NoSweep, Live
  <1>10. CASE UNCHANGED vars
    BY <1>10 DEF vars
  <1> QED
    BY <1>1, <1>2, <1>3, <1>4, <1>5, <1>6, <1>7, <1>8, <1>9, <1>10 DEF Next, Sweep

LEMMA InitBase == Init => BaseInv
  <1> SUFFICES ASSUME Init PROVE BaseInv
    OBVIOUS
  <1>1. TypeOK
    BY CacheAssumption DEF Init, TypeOK, Sizes, States, PCs, NoRow, NoSweep, NoRead
  <1>2. SizeInv
    BY CacheAssumption DEF Init, SizeInv, NoSweep
  <1> QED
    BY <1>1, <1>2 DEF BaseInv

LEMMA BaseInvariance == Spec => []BaseInv
  BY InitBase, NextTypes, NextSizes, PTL DEF Spec, BaseInv

(* Every variable keeps its type; no file ever exceeds the limit of one    *)
(* export (the size check of save's loop against what is on disk).         *)
THEOREM CacheTypes == Spec => []TypeOK
  BY BaseInvariance, PTL DEF BaseInv

-----------------------------------------------------------------------------
(* SAFETY, with failing unlinks and with crashes, as long as no database   *)
(* transaction raises (StoreFaults FALSE).  The argument: a sweep holds    *)
(* the database from its SELECT to its commit, so what it unlinks has      *)
(* expired and stays so, and no thread publishes what is being swept; and  *)
(* a link never gets more time than its row.                               *)

(* What a sweep has taken on.                                              *)
InSweep == sweep.todo \cup sweep.gone \cup ({sweep.cur} \cap Saves)

(* A sweep has to do only with expired rows; nobody in the database, none. *)
SweepInv ==
    /\ sweep.by = Nobody => sweep = NoSweep
    /\ \A w \in InSweep : w \in Indexed /\ row[w].left = 0

(* A row becomes ready at the end of its thread's work; what the thread is *)
(* about to publish is what is in the file, unless a sweep unlinked it; a  *)
(* link is issued after that.                                              *)
ThreadOf(w) ==
    /\ row[w].state = "ready" => pc[w] \in {"saved", "done"}
    /\ pc[w] = "publish" /\ row[w].state = "writing" /\ w \notin sweep.gone =>
          file[w] = written[w]
    /\ link[w] > 0 => pc[w] = "done"

ServableOf(w) ==
    row[w].state = "ready" /\ row[w].left > 0 => file[w] = row[w].size

LinkOf(w) ==
    link[w] > 0 => /\ row[w].state = "ready"
                   /\ row[w].left >= link[w]
                   /\ file[w] = row[w].size

(* A download remembers the size of its row, which does not change while   *)
(* the link lives.                                                         *)
ReaderOf(d) ==
    reader[d].at = "open" =>
        /\ reader[d].id \in Saves
        /\ pc[reader[d].id] = "done"
        /\ link[reader[d].id] > 0 => row[reader[d].id].size = reader[d].size

SaveInv == \A w \in Saves : ThreadOf(w) /\ ServableOf(w) /\ LinkOf(w)
ReaderInv == \A d \in Readers : ReaderOf(d)

CacheInv == BaseInv /\ SweepInv /\ SaveInv /\ ReaderInv

LEMMA InitCacheInv == Init => CacheInv
  <1> SUFFICES ASSUME Init PROVE CacheInv
    OBVIOUS
  <1>1. BaseInv
    BY InitBase
  <1>2. SweepInv
    BY CacheAssumption DEF Init, SweepInv, InSweep, NoSweep
  <1>3. SaveInv /\ ReaderInv
    BY DEF Init, SaveInv, ReaderInv, ThreadOf, ServableOf, LinkOf, ReaderOf, NoRow, NoRead
  <1> QED
    BY <1>1, <1>2, <1>3 DEF CacheInv

(* What the steps below use of the types.                                  *)
Typed ==
    /\ row \in [Saves -> RowType] /\ link \in [Saves -> Nat]
    /\ file \in [Saves -> Sizes \cup {NoFile}] /\ part \in [Saves -> Sizes \cup {NoFile}]
    /\ pc \in [Saves -> PCs] /\ written \in [Saves -> Sizes]
    /\ sweep \in SweepType /\ reader \in [Readers -> ReadType]
    /\ \A w \in Saves : row[w].left \in Nat /\ row[w].state \in States
    /\ Sweeper \notin Saves /\ Nobody \notin Saves /\ Sweeper # Nobody
    /\ NoFile \notin Sizes

LEMMA TypesUsed == TypeOK => Typed
  <1> SUFFICES ASSUME TypeOK PROVE Typed
    OBVIOUS
  <1>1. /\ row \in [Saves -> RowType]
        /\ file \in [Saves -> Sizes \cup {NoFile}] /\ part \in [Saves -> Sizes \cup {NoFile}]
        /\ pc \in [Saves -> PCs] /\ written \in [Saves -> Sizes]
        /\ sweep \in SweepType /\ reader \in [Readers -> ReadType]
    BY DEF TypeOK, RowType, SweepType, ReadType
  <1>2. link \in [Saves -> Nat]
    BY CacheAssumption DEF TypeOK
  <1>3. \A w \in Saves : row[w].left \in Nat /\ row[w].state \in States
    BY <1>1, CacheAssumption DEF RowType
  <1> QED
    BY <1>1, <1>2, <1>3, CacheAssumption DEF Typed, Sizes

LEMMA SweepBegins ==
    ASSUME BaseInv, SweepInv, SaveInv, ReaderInv, Typed, ~StoreFaults, NEW c \in Saves \cup {Sweeper}, SweepBegin(c)
    PROVE  SweepInv' /\ SaveInv' /\ ReaderInv'
  <1> USE DEF Typed
  <1>0. sweep.gone = {} /\ sweep'.gone = {}
    BY DEF SweepInv, SweepBegin, NoSweep
  <1>1. SweepInv'
    BY DEF SweepBegin, NoSweep, Expired, SweepInv, InSweep, Indexed, disk, saver, GoTo
  <1>2. ASSUME NEW x \in Saves PROVE (ThreadOf(x) /\ ServableOf(x) /\ LinkOf(x))'
    <2>1. ThreadOf(x) /\ ServableOf(x) /\ LinkOf(x)
      BY DEF SaveInv
    <2>2. ThreadOf(x)'
      BY <1>0, <2>1 DEF SweepBegin, NoSweep, Expired, ThreadOf, disk, saver, GoTo
    <2>3. ServableOf(x)'
      BY <1>0, <2>1 DEF SweepBegin, NoSweep, Expired, ServableOf, ThreadOf, disk, saver, GoTo
    <2>4. LinkOf(x)'
      BY <1>0, <2>1 DEF SweepBegin, NoSweep, Expired, LinkOf, ThreadOf, disk, saver, GoTo
    <2> QED
      BY <2>2, <2>3, <2>4
  <1>3. ASSUME NEW d \in Readers PROVE ReaderOf(d)'
    BY <1>0 DEF SweepBegin, NoSweep, Expired, ReaderOf, ReaderInv, disk, saver, GoTo
  <1> QED
    BY <1>1, <1>2, <1>3 DEF SaveInv, ReaderInv

LEMMA SweepsPart ==
    ASSUME BaseInv, SweepInv, SaveInv, ReaderInv, Typed, ~StoreFaults, NEW w \in Saves, SweepPart(w)
    PROVE  SweepInv' /\ SaveInv' /\ ReaderInv'
  <1> USE DEF Typed
  <1>0. /\ InSweep' \subseteq InSweep /\ sweep'.gone = sweep.gone
        /\ sweep'.by = sweep.by /\ sweep.by # Nobody /\ UNCHANGED row
    <2>1. sweep.by # Nobody
      BY DEF SweepPart, SweepInv, NoSweep
    <2>2. /\ sweep'.by = sweep.by /\ sweep'.gone = sweep.gone
          /\ sweep'.todo \subseteq sweep.todo
          /\ sweep'.cur \in {sweep.cur, w} /\ w \in sweep.todo
      <3>1. CASE sweep' = [sweep EXCEPT !.cur = w, !.todo = sweep.todo \ {w}]
        BY <3>1 DEF SweepPart, SweepType
      <3>2. CASE sweep' = [sweep EXCEPT !.todo = sweep.todo \ {w}]
        BY <3>2 DEF SweepPart, SweepType
      <3> QED
        BY <3>1, <3>2 DEF SweepPart
    <2>3. UNCHANGED row
      BY DEF SweepPart
    <2> QED
      BY <2>1, <2>2, <2>3 DEF InSweep
  <1>1. SweepInv'
    BY <1>0 DEF SweepInv, Indexed
  <1>2. ASSUME NEW x \in Saves PROVE (ThreadOf(x) /\ ServableOf(x) /\ LinkOf(x))'
    <2>1. ThreadOf(x) /\ ServableOf(x) /\ LinkOf(x)
      BY DEF SaveInv
    <2>2. ThreadOf(x)'
      BY <1>0, <2>1 DEF SweepPart, SweepType, ThreadOf, disk, saver, GoTo
    <2>3. ServableOf(x)'
      BY <1>0, <2>1 DEF SweepPart, SweepType, ServableOf, ThreadOf, disk, saver, GoTo
    <2>4. LinkOf(x)'
      BY <1>0, <2>1 DEF SweepPart, SweepType, LinkOf, ThreadOf, disk, saver, GoTo
    <2> QED
      BY <2>2, <2>3, <2>4
  <1>3. ASSUME NEW d \in Readers PROVE ReaderOf(d)'
    BY <1>0 DEF SweepPart, SweepType, ReaderOf, ReaderInv, disk, saver, GoTo
  <1> QED
    BY <1>1, <1>2, <1>3 DEF SaveInv, ReaderInv

LEMMA SweepsFile ==
    ASSUME BaseInv, SweepInv, SaveInv, ReaderInv, Typed, ~StoreFaults, NEW w \in Saves, SweepFile(w)
    PROVE  SweepInv' /\ SaveInv' /\ ReaderInv'
  <1> USE DEF Typed
  <1>0. /\ w \in InSweep /\ row[w].left = 0 /\ link[w] = 0
        /\ InSweep' \subseteq InSweep /\ sweep'.by = sweep.by
        /\ sweep'.gone \in {sweep.gone, sweep.gone \cup {w}}
        /\ file'[w] # file[w] => w \in sweep'.gone
        /\ sweep.by # Nobody /\ UNCHANGED <<row, link, pc, written, reader>>
    <2>1. sweep.by # Nobody /\ w \in InSweep
      BY DEF SweepFile, SweepInv, NoSweep, InSweep
    <2>2. row[w].left = 0
      BY <2>1 DEF SweepInv
    <2>3. link[w] = 0
      BY <2>2 DEF SaveInv, LinkOf
    <2>4. /\ sweep'.by = sweep.by /\ sweep'.todo = sweep.todo
          /\ sweep'.cur = Nobody
          /\ sweep'.gone \in {sweep.gone, sweep.gone \cup {w}}
          /\ file'[w] # file[w] => w \in sweep'.gone
      <3>1. CASE /\ sweep' = [sweep EXCEPT !.cur = Nobody, !.gone = sweep.gone \cup {w}]
                 /\ file' = [file EXCEPT ![w] = NoFile]
        BY <3>1 DEF SweepType
      <3>2. CASE sweep' = [sweep EXCEPT !.cur = Nobody] /\ UNCHANGED file
        BY <3>2 DEF SweepType
      <3> QED
        BY <3>1, <3>2 DEF SweepFile
    <2>5. UNCHANGED <<row, link, pc, written, reader>>
      BY DEF SweepFile, saver
    <2> QED
      BY <2>1, <2>2, <2>3, <2>4, <2>5 DEF InSweep
  <1>1. SweepInv'
    BY <1>0 DEF SweepInv, Indexed
  <1>2. ASSUME NEW x \in Saves PROVE (ThreadOf(x) /\ ServableOf(x) /\ LinkOf(x))'
    <2>1. ThreadOf(x) /\ ServableOf(x) /\ LinkOf(x)
      BY DEF SaveInv
    <2>2. ThreadOf(x)'
      <3>1. CASE x = w
        BY <1>0, <2>1, <3>1 DEF ThreadOf
      <3>2. CASE x # w
        <4>1. file'[x] = file[x]
          BY <3>2 DEF SweepFile
        <4> QED
          BY <1>0, <2>1, <3>2, <4>1 DEF ThreadOf
      <3> QED
        BY <3>1, <3>2
    <2>3. ServableOf(x)'
      <3>1. x = w \/ file'[x] = file[x]
        BY DEF SweepFile
      <3> QED
        BY <1>0, <2>1, <3>1 DEF ServableOf
    <2>4. LinkOf(x)'
      <3>1. x = w \/ file'[x] = file[x]
        BY DEF SweepFile
      <3> QED
        BY <1>0, <2>1, <3>1 DEF LinkOf
    <2> QED
      BY <2>2, <2>3, <2>4
  <1>3. ASSUME NEW d \in Readers PROVE ReaderOf(d)'
    BY <1>0 DEF SweepFile, SweepType, ReaderOf, ReaderInv, disk, saver, GoTo
  <1> QED
    BY <1>1, <1>2, <1>3 DEF SaveInv, ReaderInv

LEMMA SweepCommits ==
    ASSUME BaseInv, SweepInv, SaveInv, ReaderInv, Typed, ~StoreFaults, SweepCommit
    PROVE  SweepInv' /\ SaveInv' /\ ReaderInv'
  <1> USE DEF Typed
  <1>0. /\ sweep'.gone = {}
        /\ \A w \in sweep.gone : link[w] = 0
        /\ \A w \in Saves : /\ row'[w] = IF w \in sweep.gone THEN NoRow ELSE row[w]
                            /\ pc'[w] = pc[w] \/ (pc[w] = "clean" /\ pc'[w] = "reserve")
        /\ UNCHANGED <<file, written, link, reader>>
    <2>1. \A w \in sweep.gone : w \in Saves /\ row[w].left = 0
      BY DEF SweepInv, InSweep, SweepType
    <2>2. \A w \in sweep.gone : link[w] = 0
      BY <2>1 DEF SaveInv, LinkOf
    <2>3. \A w \in Saves : w = sweep.by => pc[w] = "clean"
      BY DEF BaseInv, SizeInv
    <2>4. UNCHANGED <<file, written, link, reader>> /\ sweep'.gone = {}
      BY DEF SweepCommit, NoSweep, disk
    <2> QED
      BY <2>2, <2>3, <2>4 DEF SweepCommit
  <1>1. SweepInv'
    BY DEF SweepCommit, SweepInv, InSweep, NoSweep
  <1>2. ASSUME NEW x \in Saves PROVE (ThreadOf(x) /\ ServableOf(x) /\ LinkOf(x))'
    <2>1. ThreadOf(x) /\ ServableOf(x) /\ LinkOf(x)
      BY DEF SaveInv
    <2>2. ThreadOf(x)'
      BY <1>0, <2>1 DEF ThreadOf, NoRow
    <2>3. ServableOf(x)'
      BY <1>0, <2>1 DEF ServableOf, NoRow
    <2>4. LinkOf(x)'
      BY <1>0, <2>1 DEF LinkOf
    <2> QED
      BY <2>2, <2>3, <2>4
  <1>3. ASSUME NEW d \in Readers PROVE ReaderOf(d)'
    <2>1. ReaderOf(d)
      BY DEF ReaderInv
    <2> QED
      BY <1>0, <2>1 DEF ReaderOf
  <1> QED
    BY <1>1, <1>2, <1>3 DEF SaveInv, ReaderInv

LEMMA Starts ==
    ASSUME BaseInv, SweepInv, SaveInv, ReaderInv, Typed, ~StoreFaults, NEW w \in Saves, StartSave(w) \/ EndOfStream(w) \/ SaveRaises(w)
    PROVE  SweepInv' /\ SaveInv' /\ ReaderInv'
  <1> USE DEF Typed
  <1>1. SweepInv'
    BY DEF StartSave, EndOfStream, SaveRaises, SweepInv, InSweep, Indexed, disk, saver, GoTo, NoRow
  <1>2. ASSUME NEW x \in Saves PROVE (ThreadOf(x) /\ ServableOf(x) /\ LinkOf(x))'
    <2>1. ThreadOf(x) /\ ServableOf(x) /\ LinkOf(x)
      BY DEF SaveInv
    <2>2. ThreadOf(x)'
      BY <2>1 DEF StartSave, EndOfStream, SaveRaises, ThreadOf, disk, saver, GoTo
    <2>3. ServableOf(x)'
      BY <2>1 DEF StartSave, EndOfStream, SaveRaises, ServableOf, ThreadOf, disk, saver, GoTo
    <2>4. LinkOf(x)'
      BY <2>1 DEF StartSave, EndOfStream, SaveRaises, LinkOf, ThreadOf, disk, saver, GoTo
    <2> QED
      BY <2>2, <2>3, <2>4
  <1>3. ASSUME NEW d \in Readers PROVE ReaderOf(d)'
    BY DEF StartSave, EndOfStream, SaveRaises, ReaderOf, ReaderInv, disk, saver, GoTo
  <1> QED
    BY <1>1, <1>2, <1>3 DEF SaveInv, ReaderInv

LEMMA Reserves ==
    ASSUME BaseInv, SweepInv, SaveInv, ReaderInv, Typed, ~StoreFaults, NEW w \in Saves, Reserve(w)
    PROVE  SweepInv' /\ SaveInv' /\ ReaderInv'
  <1> USE DEF Typed
  <1>0. sweep.gone = {} /\ InSweep = {} /\ sweep' = sweep
    <2>1. sweep = NoSweep
      BY DEF Reserve, LockFree, SweepInv
    <2> QED
      BY <2>1 DEF Reserve, NoSweep, InSweep
  <1>1. SweepInv'
    <2>1. InSweep' = {}
      BY <1>0 DEF InSweep
    <2> QED
      BY <1>0, <2>1 DEF SweepInv
  <1>2. ASSUME NEW x \in Saves PROVE (ThreadOf(x) /\ ServableOf(x) /\ LinkOf(x))'
    <2>1. ThreadOf(x) /\ ServableOf(x) /\ LinkOf(x)
      BY DEF SaveInv
    <2>2. ThreadOf(x)'
      BY <1>0, <2>1 DEF Reserve, ThreadOf, disk, saver, GoTo
    <2>3. ServableOf(x)'
      BY <1>0, <2>1 DEF Reserve, ServableOf, ThreadOf, disk, saver, GoTo
    <2>4. LinkOf(x)'
      BY <1>0, <2>1 DEF Reserve, LinkOf, ThreadOf, disk, saver, GoTo
    <2> QED
      BY <2>2, <2>3, <2>4
  <1>3. ASSUME NEW d \in Readers PROVE ReaderOf(d)'
    BY <1>0 DEF Reserve, ReaderOf, ReaderInv, disk, saver, GoTo
  <1> QED
    BY <1>1, <1>2, <1>3 DEF SaveInv, ReaderInv

LEMMA Writes ==
    ASSUME BaseInv, SweepInv, SaveInv, ReaderInv, Typed, ~StoreFaults, NEW w \in Saves, OpenPart(w) \/ WriteChunk(w)
    PROVE  SweepInv' /\ SaveInv' /\ ReaderInv'
  <1> USE DEF Typed
  <1>1. SweepInv'
    BY DEF OpenPart, WriteChunk, SweepInv, InSweep, Indexed, disk, saver, GoTo, NoRow
  <1>2. ASSUME NEW x \in Saves PROVE (ThreadOf(x) /\ ServableOf(x) /\ LinkOf(x))'
    <2>1. ThreadOf(x) /\ ServableOf(x) /\ LinkOf(x)
      BY DEF SaveInv
    <2>2. ThreadOf(x)'
      BY <2>1 DEF OpenPart, WriteChunk, ThreadOf, disk, saver, GoTo
    <2>3. ServableOf(x)'
      BY <2>1 DEF OpenPart, WriteChunk, ServableOf, ThreadOf, disk, saver, GoTo
    <2>4. LinkOf(x)'
      BY <2>1 DEF OpenPart, WriteChunk, LinkOf, ThreadOf, disk, saver, GoTo
    <2> QED
      BY <2>2, <2>3, <2>4
  <1>3. ASSUME NEW d \in Readers PROVE ReaderOf(d)'
    BY DEF OpenPart, WriteChunk, ReaderOf, ReaderInv, disk, saver, GoTo
  <1> QED
    BY <1>1, <1>2, <1>3 DEF SaveInv, ReaderInv

LEMMA Renews ==
    ASSUME BaseInv, SweepInv, SaveInv, ReaderInv, Typed, ~StoreFaults, NEW w \in Saves, RenewLease(w)
    PROVE  SweepInv' /\ SaveInv' /\ ReaderInv'
  <1> USE DEF Typed
  <1>0. sweep.gone = {} /\ InSweep = {} /\ sweep' = sweep
    <2>1. sweep = NoSweep
      BY DEF RenewLease, LockFree, SweepInv
    <2> QED
      BY <2>1 DEF RenewLease, NoSweep, InSweep
  <1>01. /\ \A x \in Saves : x # w => row'[x] = row[x] /\ pc'[x] = pc[x]
         /\ row'[w].state = row[w].state /\ pc'[w] \in {"write", "undoPart"}
         /\ row[w].state # "ready" /\ link[w] = 0
         /\ UNCHANGED <<file, written, link, reader>>
    <2>1. row[w].state # "ready" /\ link[w] = 0
      BY DEF RenewLease, SaveInv, ThreadOf
    <2>2. row'[w].state = row[w].state
      BY DEF RenewLease, RowType
    <2> QED
      BY <2>1, <2>2 DEF RenewLease, GoTo, disk
  <1>1. SweepInv'
    <2>1. InSweep' = {}
      BY <1>0 DEF InSweep
    <2> QED
      BY <1>0, <2>1 DEF SweepInv
  <1>2. ASSUME NEW x \in Saves PROVE (ThreadOf(x) /\ ServableOf(x) /\ LinkOf(x))'
    <2>1. ThreadOf(x) /\ ServableOf(x) /\ LinkOf(x)
      BY DEF SaveInv
    <2>2. ThreadOf(x)'
      BY <1>0, <1>01, <2>1 DEF ThreadOf
    <2>3. ServableOf(x)'
      BY <1>0, <1>01, <2>1 DEF ServableOf
    <2>4. LinkOf(x)'
      BY <1>0, <1>01, <2>1 DEF LinkOf
    <2> QED
      BY <2>2, <2>3, <2>4
  <1>3. ASSUME NEW d \in Readers PROVE ReaderOf(d)'
    BY <1>0, <1>01 DEF RenewLease, ReaderOf, ReaderInv, disk, saver, GoTo
  <1> QED
    BY <1>1, <1>2, <1>3 DEF SaveInv, ReaderInv

LEMMA Replaces ==
    ASSUME BaseInv, SweepInv, SaveInv, ReaderInv, Typed, ~StoreFaults, NEW w \in Saves, Replace(w)
    PROVE  SweepInv' /\ SaveInv' /\ ReaderInv'
  <1> USE DEF Typed
  <1>1. SweepInv'
    BY DEF Replace, BaseInv, SizeInv, SweepInv, InSweep, Indexed, disk, saver, GoTo, NoRow
  <1>2. ASSUME NEW x \in Saves PROVE (ThreadOf(x) /\ ServableOf(x) /\ LinkOf(x))'
    <2>1. ThreadOf(x) /\ ServableOf(x) /\ LinkOf(x)
      BY DEF SaveInv
    <2>2. ThreadOf(x)'
      BY <2>1 DEF Replace, BaseInv, SizeInv, ThreadOf, disk, saver, GoTo
    <2>3. ServableOf(x)'
      BY <2>1 DEF Replace, BaseInv, SizeInv, ServableOf, ThreadOf, disk, saver, GoTo
    <2>4. LinkOf(x)'
      BY <2>1 DEF Replace, BaseInv, SizeInv, LinkOf, ThreadOf, disk, saver, GoTo
    <2> QED
      BY <2>2, <2>3, <2>4
  <1>3. ASSUME NEW d \in Readers PROVE ReaderOf(d)'
    BY DEF Replace, BaseInv, SizeInv, ReaderOf, ReaderInv, disk, saver, GoTo
  <1> QED
    BY <1>1, <1>2, <1>3 DEF SaveInv, ReaderInv

LEMMA Publishes ==
    ASSUME BaseInv, SweepInv, SaveInv, ReaderInv, Typed, ~StoreFaults, NEW w \in Saves, Publish(w)
    PROVE  SweepInv' /\ SaveInv' /\ ReaderInv'
  <1> USE DEF Typed
  <1>0. sweep.gone = {} /\ InSweep = {} /\ sweep' = sweep
    <2>1. sweep = NoSweep
      BY DEF Publish, LockFree, SweepInv
    <2> QED
      BY <2>1 DEF Publish, NoSweep, InSweep
  <1>1. SweepInv'
    <2>1. InSweep' = {}
      BY <1>0 DEF InSweep
    <2> QED
      BY <1>0, <2>1 DEF SweepInv
  <1>2. ASSUME NEW x \in Saves PROVE (ThreadOf(x) /\ ServableOf(x) /\ LinkOf(x))'
    <2>1. ThreadOf(x) /\ ServableOf(x) /\ LinkOf(x)
      BY DEF SaveInv
    <2>2. ThreadOf(x)'
      BY <1>0, <2>1 DEF Publish, ThreadOf, disk, saver, GoTo
    <2>3. ServableOf(x)'
      <3>1. CASE x = w /\ row[w].state = "writing"
        <4>1. file[w] = written[w]
          BY <1>0, <2>1, <3>1 DEF Publish, ThreadOf
        <4> QED
          BY <3>1, <4>1 DEF Publish, ServableOf, disk
      <3>2. CASE ~(x = w /\ row[w].state = "writing")
        BY <2>1, <3>2 DEF Publish, ServableOf, disk
      <3> QED
        BY <3>1, <3>2
    <2>4. LinkOf(x)'
      BY <1>0, <2>1 DEF Publish, LinkOf, ThreadOf, disk, saver, GoTo
    <2> QED
      BY <2>2, <2>3, <2>4
  <1>3. ASSUME NEW d \in Readers PROVE ReaderOf(d)'
    BY <1>0 DEF Publish, ReaderOf, ReaderInv, disk, saver, GoTo
  <1> QED
    BY <1>1, <1>2, <1>3 DEF SaveInv, ReaderInv

LEMMA Undoes ==
    ASSUME BaseInv, SweepInv, SaveInv, ReaderInv, Typed, ~StoreFaults, NEW w \in Saves, UndoPart(w) \/ UndoFile(w)
    PROVE  SweepInv' /\ SaveInv' /\ ReaderInv'
  <1> USE DEF Typed
  <1>1. SweepInv'
    BY DEF UndoPart, UndoFile, SweepInv, InSweep, Indexed, disk, saver, GoTo, NoRow
  <1>2. ASSUME NEW x \in Saves PROVE (ThreadOf(x) /\ ServableOf(x) /\ LinkOf(x))'
    <2>1. ThreadOf(x) /\ ServableOf(x) /\ LinkOf(x)
      BY DEF SaveInv
    <2>2. ThreadOf(x)'
      BY <2>1 DEF UndoPart, UndoFile, ThreadOf, disk, saver, GoTo
    <2>3. ServableOf(x)'
      BY <2>1 DEF UndoPart, UndoFile, ServableOf, ThreadOf, disk, saver, GoTo
    <2>4. LinkOf(x)'
      BY <2>1 DEF UndoPart, UndoFile, LinkOf, ThreadOf, disk, saver, GoTo
    <2> QED
      BY <2>2, <2>3, <2>4
  <1>3. ASSUME NEW d \in Readers PROVE ReaderOf(d)'
    BY DEF UndoPart, UndoFile, ReaderOf, ReaderInv, disk, saver, GoTo
  <1> QED
    BY <1>1, <1>2, <1>3 DEF SaveInv, ReaderInv

LEMMA UndoesRow ==
    ASSUME BaseInv, SweepInv, SaveInv, ReaderInv, Typed, ~StoreFaults, NEW w \in Saves, UndoRow(w)
    PROVE  SweepInv' /\ SaveInv' /\ ReaderInv'
  <1> USE DEF Typed
  <1>0. sweep.gone = {} /\ InSweep = {} /\ sweep' = sweep
    <2>1. sweep = NoSweep
      BY DEF UndoRow, LockFree, SweepInv
    <2> QED
      BY <2>1 DEF UndoRow, NoSweep, InSweep
  <1>1. SweepInv'
    <2>1. InSweep' = {}
      BY <1>0 DEF InSweep
    <2> QED
      BY <1>0, <2>1 DEF SweepInv
  <1>2. ASSUME NEW x \in Saves PROVE (ThreadOf(x) /\ ServableOf(x) /\ LinkOf(x))'
    <2>1. ThreadOf(x) /\ ServableOf(x) /\ LinkOf(x)
      BY DEF SaveInv
    <2>2. ThreadOf(x)'
      BY <1>0, <2>1 DEF UndoRow, NoRow, ThreadOf, disk, saver, GoTo
    <2>3. ServableOf(x)'
      BY <1>0, <2>1 DEF UndoRow, NoRow, ServableOf, ThreadOf, disk, saver, GoTo
    <2>4. LinkOf(x)'
      BY <1>0, <2>1 DEF UndoRow, NoRow, LinkOf, ThreadOf, disk, saver, GoTo
    <2> QED
      BY <2>2, <2>3, <2>4
  <1>3. ASSUME NEW d \in Readers PROVE ReaderOf(d)'
    BY <1>0 DEF UndoRow, NoRow, ReaderOf, ReaderInv, disk, saver, GoTo
  <1> QED
    BY <1>1, <1>2, <1>3 DEF SaveInv, ReaderInv

LEMMA Issues ==
    ASSUME BaseInv, SweepInv, SaveInv, ReaderInv, Typed, ~StoreFaults, NEW w \in Saves, Issue(w)
    PROVE  SweepInv' /\ SaveInv' /\ ReaderInv'
  <1> USE DEF Typed
  <1>0. LinkLife(w) <= row[w].left
    BY CacheAssumption DEF LinkLife, Min2
  <1>1. SweepInv'
    BY DEF Issue, LinkLife, Min2, SweepInv, InSweep, Indexed, disk, saver, GoTo, NoRow
  <1>2. ASSUME NEW x \in Saves PROVE (ThreadOf(x) /\ ServableOf(x) /\ LinkOf(x))'
    <2>1. ThreadOf(x) /\ ServableOf(x) /\ LinkOf(x)
      BY DEF SaveInv
    <2>2. ThreadOf(x)'
      BY <2>1 DEF Issue, LinkLife, Min2, ThreadOf, disk, saver, GoTo
    <2>3. ServableOf(x)'
      BY <2>1 DEF Issue, LinkLife, Min2, ServableOf, ThreadOf, disk, saver, GoTo
    <2>4. LinkOf(x)'
      <3>1. CASE x = w /\ link'[w] # link[w]
        <4>1. row[w].state = "ready" /\ row[w].left > 0 /\ link'[w] = LinkLife(w)
          BY <3>1 DEF Issue
        <4>2. file[w] = row[w].size
          BY <2>1, <3>1, <4>1 DEF ServableOf
        <4> QED
          BY <1>0, <3>1, <4>1, <4>2 DEF Issue, LinkOf, disk
      <3>2. CASE link'[x] = link[x]
        BY <2>1, <3>2 DEF Issue, LinkOf, disk
      <3> QED
        BY <3>1, <3>2 DEF Issue
    <2> QED
      BY <2>2, <2>3, <2>4
  <1>3. ASSUME NEW d \in Readers PROVE ReaderOf(d)'
    BY DEF Issue, LinkLife, Min2, ReaderOf, ReaderInv, disk, saver, GoTo
  <1> QED
    BY <1>1, <1>2, <1>3 DEF SaveInv, ReaderInv

LEMMA DownloadSteps ==
    ASSUME BaseInv, SweepInv, SaveInv, ReaderInv, Typed, ~StoreFaults, NEW e \in Readers, Download(e)
    PROVE  SweepInv' /\ SaveInv' /\ ReaderInv'
  <1> USE DEF Typed
  <1>1. SweepInv'
    BY DEF Download, Request, OpenFile, EndRequest, NoRead, SweepInv, InSweep, Indexed, disk, saver, GoTo, NoRow
  <1>2. ASSUME NEW x \in Saves PROVE (ThreadOf(x) /\ ServableOf(x) /\ LinkOf(x))'
    <2>1. ThreadOf(x) /\ ServableOf(x) /\ LinkOf(x)
      BY DEF SaveInv
    <2>2. ThreadOf(x)'
      BY <2>1 DEF Download, Request, OpenFile, EndRequest, NoRead, ThreadOf, disk, saver, GoTo
    <2>3. ServableOf(x)'
      BY <2>1 DEF Download, Request, OpenFile, EndRequest, NoRead, ServableOf, ThreadOf, disk, saver, GoTo
    <2>4. LinkOf(x)'
      BY <2>1 DEF Download, Request, OpenFile, EndRequest, NoRead, LinkOf, ThreadOf, disk, saver, GoTo
    <2> QED
      BY <2>2, <2>3, <2>4
  <1>3. ASSUME NEW d \in Readers PROVE ReaderOf(d)'
    <2>1. ReaderOf(d)
      BY DEF ReaderInv
    <2>2. CASE OpenFile(e) \/ EndRequest(e)
      <3>1. d = e => reader'[d].at # "open"
        BY <2>2 DEF OpenFile, EndRequest, NoRead, ReadType
      <3>2. d # e => reader'[d] = reader[d]
        BY <2>2 DEF OpenFile, EndRequest
      <3> QED
        BY <2>1, <2>2, <3>1, <3>2 DEF ReaderOf, OpenFile, EndRequest, saver
    <2>3. CASE \E w \in Saves : Request(e, w)
      <3> PICK w \in Saves : Request(e, w)
        BY <2>3
      <3>1. pc[w] = "done"
        BY DEF Request, SaveInv, ThreadOf
      <3>2. d = e /\ reader'[d].at = "open" =>
                        reader'[d].id = w /\ reader'[d].size = row[w].size
        BY DEF Request
      <3>3. d # e => reader'[d] = reader[d]
        BY DEF Request
      <3> QED
        BY <2>1, <3>1, <3>2, <3>3 DEF ReaderOf, Request, saver
    <2> QED
      BY <2>2, <2>3 DEF Download
  <1> QED
    BY <1>1, <1>2, <1>3 DEF SaveInv, ReaderInv

LEMMA Ticks ==
    ASSUME BaseInv, SweepInv, SaveInv, ReaderInv, Typed, ~StoreFaults, Tick
    PROVE  SweepInv' /\ SaveInv' /\ ReaderInv'
  <1> USE DEF Typed
  <1>0. /\ \A x \in Saves : /\ row'[x].state = row[x].state /\ row'[x].size = row[x].size
                            /\ row'[x].left = Less(row[x].left)
                            /\ link'[x] = Less(link[x])
        /\ UNCHANGED <<file, pc, written, sweep, reader>>
    BY DEF Tick, RowType, disk
  <1>1. SweepInv'
    <2>1. InSweep' = InSweep /\ InSweep \subseteq Saves
      BY <1>0 DEF InSweep, SweepType
    <2> QED
      BY <1>0, <2>1 DEF SweepInv, Less, Indexed
  <1>2. ASSUME NEW x \in Saves PROVE (ThreadOf(x) /\ ServableOf(x) /\ LinkOf(x))'
    <2>1. ThreadOf(x) /\ ServableOf(x) /\ LinkOf(x)
      BY DEF SaveInv
    <2>2. ThreadOf(x)'
      BY <1>0, <2>1 DEF ThreadOf, Less
    <2>3. ServableOf(x)'
      BY <1>0, <2>1 DEF ServableOf, Less
    <2>4. LinkOf(x)'
      BY <1>0, <2>1 DEF LinkOf, Less
    <2> QED
      BY <2>2, <2>3, <2>4
  <1>3. ASSUME NEW d \in Readers PROVE ReaderOf(d)'
    <2>1. ReaderOf(d)
      BY DEF ReaderInv
    <2> QED
      BY <1>0, <2>1 DEF ReaderOf, Less
  <1> QED
    BY <1>1, <1>2, <1>3 DEF SaveInv, ReaderInv

LEMMA Crashes ==
    ASSUME BaseInv, SweepInv, SaveInv, ReaderInv, Typed, ~StoreFaults, Crash
    PROVE  SweepInv' /\ SaveInv' /\ ReaderInv'
  <1> USE DEF Typed
  <1>1. SweepInv'
    BY DEF Crash, NoSweep, NoRead, Live, SweepInv, InSweep, Indexed, disk, saver, GoTo, NoRow
  <1>2. ASSUME NEW x \in Saves PROVE (ThreadOf(x) /\ ServableOf(x) /\ LinkOf(x))'
    <2>1. ThreadOf(x) /\ ServableOf(x) /\ LinkOf(x)
      BY DEF SaveInv
    <2>2. ThreadOf(x)'
      BY <2>1 DEF Crash, NoSweep, NoRead, Live, ThreadOf, disk, saver, GoTo
    <2>3. ServableOf(x)'
      BY <2>1 DEF Crash, NoSweep, NoRead, Live, ServableOf, ThreadOf, disk, saver, GoTo
    <2>4. LinkOf(x)'
      BY <2>1 DEF Crash, NoSweep, NoRead, Live, LinkOf, ThreadOf, disk, saver, GoTo
    <2> QED
      BY <2>2, <2>3, <2>4
  <1>3. ASSUME NEW d \in Readers PROVE ReaderOf(d)'
    BY DEF Crash, NoSweep, NoRead, Live, ReaderOf, ReaderInv, disk, saver, GoTo
  <1> QED
    BY <1>1, <1>2, <1>3 DEF SaveInv, ReaderInv

LEMMA NextCacheInv == CacheInv /\ ~StoreFaults /\ [Next]_vars => CacheInv'
  <1> SUFFICES ASSUME CacheInv, ~StoreFaults, [Next]_vars PROVE CacheInv'
    OBVIOUS
  <1>0. BaseInv /\ SweepInv /\ SaveInv /\ ReaderInv /\ Typed
    BY TypesUsed DEF CacheInv, BaseInv
  <1>1. BaseInv'
    BY <1>0, NextTypes, NextSizes DEF BaseInv
  <1>2. (SweepInv /\ SaveInv /\ ReaderInv)'
    <2> USE <1>0
    <2>1. CASE SweepBegin(Sweeper)
      BY <2>1, SweepBegins
    <2>2. CASE Sweep
      BY <2>2, SweepsPart, SweepsFile, SweepCommits DEF Sweep, SweepAborts
    <2>3. ASSUME NEW w \in Saves, Save(w) PROVE (SweepInv /\ SaveInv /\ ReaderInv)'
      BY <2>3, SweepBegins, Starts, Reserves, Writes, Renews, Replaces, Publishes,
         Undoes, UndoesRow, Issues DEF Save
    <2>4. ASSUME NEW d \in Readers, Download(d) PROVE (SweepInv /\ SaveInv /\ ReaderInv)'
      BY <2>4, DownloadSteps
    <2>5. CASE Tick \/ Crash
      BY <2>5, Ticks, Crashes
    <2>6. CASE UNCHANGED vars
      BY <2>6 DEF vars, disk, saver, SweepInv, InSweep, Indexed, SaveInv, ReaderInv,
         ThreadOf, ServableOf, LinkOf, ReaderOf
    <2> QED
      BY <2>1, <2>2, <2>3, <2>4, <2>5, <2>6 DEF Next
  <1> QED
    BY <1>1, <1>2 DEF CacheInv

(* The inductive invariant holds in every reachable state of a cache whose *)
(* database does not fail.                                                 *)
THEOREM CacheInvariance == ASSUME ~StoreFaults PROVE Spec => []CacheInv
  <1>1. Init => CacheInv
    BY InitCacheInv
  <1>2. CacheInv /\ [Next]_vars => CacheInv'
    BY NextCacheInv
  <1> QED
    BY <1>1, <1>2, PTL DEF Spec

(* A ready row in its retention has its file, whole, under its final name: *)
(* cleanup, late writers and failure cleanups never take it away.          *)
THEOREM ReadyServes == ASSUME ~StoreFaults PROVE Spec => []ReadyIsServable
  <1>1. CacheInv => ReadyIsServable
    BY DEF CacheInv, SaveInv, ServableOf, ReadyIsServable
  <1> QED
    BY <1>1, CacheInvariance, PTL

(* A link handed out by issue serves until it expires.                     *)
THEOREM LinksHold == ASSUME ~StoreFaults PROVE Spec => []LinksServe
  <1>1. CacheInv => LinksServe
    BY DEF CacheInv, SaveInv, LinkOf, LinksServe
  <1> QED
    BY <1>1, CacheInvariance, PTL

LEMMA TurnedAwayStep ==
    ASSUME CacheInv, [Next]_vars, NEW d \in Readers,
           reader[d].at # "gone", reader'[d].at = "gone"
    PROVE  link[reader'[d].id] = 0
  <1>0. Typed /\ ReaderOf(d) /\ \A w \in Saves : LinkOf(w)
    BY TypesUsed DEF CacheInv, BaseInv, SaveInv, ReaderInv
  <1> USE DEF Typed
  <1>1. CASE \E e \in Readers : Download(e)
    <2> PICK e \in Readers : Download(e)
      BY <1>1
    <2>1. d = e
      BY <1>0 DEF Download, Request, OpenFile, EndRequest
    <2>2. CASE \E w \in Saves : Request(d, w)
      <3> PICK w \in Saves : Request(d, w)
        BY <2>2
      <3>1. row[w].state = "ready" /\ row[w].left > 0
        BY <1>0 DEF Request, LinkOf
      <3> QED
        BY <1>0, <3>1 DEF Request
    <2>3. CASE OpenFile(d)
      <3>1. /\ reader[d].at = "open" /\ ~Opens(d)
            /\ reader'[d].id = reader[d].id
        BY <1>0, <2>3 DEF OpenFile, ReadType
      <3>2. reader[d].id \in Saves
        BY <1>0, <3>1 DEF ReaderOf
      <3>3. ~(link[reader[d].id] > 0)
        <4>1. ASSUME link[reader[d].id] > 0 PROVE Opens(d)
          <5>1. file[reader[d].id] = reader[d].size
            BY <1>0, <3>1, <3>2, <4>1 DEF ReaderOf, LinkOf
          <5>2. reader[d].size \in Sizes
            BY <1>0 DEF ReadType
          <5> QED
            BY <1>0, <5>1, <5>2 DEF Opens
        <4> QED
          BY <3>1, <4>1
      <3> QED
        BY <1>0, <3>1, <3>2, <3>3
    <2>4. CASE EndRequest(d)
      BY <1>0, <2>4 DEF EndRequest, NoRead
    <2> QED
      BY <2>1, <2>2, <2>3, <2>4 DEF Download
  <1>2. CASE UNCHANGED reader
    BY <1>2
  <1>3. CASE Crash
    BY <1>3 DEF Crash, NoRead
  <1> QED
    BY <1>1, <1>2, <1>3 DEF Next, vars, SweepBegin, Sweep, SweepPart, SweepFile,
       SweepCommit, SweepAborts, Save, StartSave, Reserve, OpenPart, WriteChunk,
       RenewLease, EndOfStream, Replace, Publish, SaveRaises, UndoPart, UndoFile,
       UndoRow, Issue, Tick

(* open_download checks the row first and opens the file later: a sweep in *)
(* between turns the download away only when its link has expired.         *)
THEOREM TurnedAway == ASSUME ~StoreFaults PROVE Spec => TurnedAwayWhenExpired
  <1>1. CacheInv /\ [Next]_vars =>
           [\A d \in Readers : reader[d].at # "gone" /\ reader'[d].at = "gone"
                                  => link[reader'[d].id] = 0]_vars
    BY TurnedAwayStep
  <1> QED
    BY <1>1, CacheInvariance, PTL DEF Spec, TurnedAwayWhenExpired

-----------------------------------------------------------------------------
(* FILES, with failing unlinks and transactions, as long as the process    *)
(* lives.  The argument: a row goes only with files that its sweep has     *)
(* unlinked or that its thread will still remove, and a thread leaves      *)
(* nothing on disk unless its row is there or an unlink has failed.        *)

(* A thread has no files before it opens its part and after it has undone  *)
(* its work; what a sweep has unlinked comes back only by a live thread.   *)
AccountOf(w) ==
    /\ pc[w] \in {"idle", "clean", "reserve", "open", "undoRow"} => ~OnDisk(w)
    /\ pc[w] = "undoFile" /\ w \notin stuck => part[w] = NoFile
    /\ w \in stuck => pc[w] \in {"undoFile", "failed"}
    /\ sweep.cur = w => Live(w) \/ w \in stuck \/ part[w] = NoFile
    /\ w \in sweep.gone => Live(w) \/ w \in stuck \/ ~OnDisk(w)
    /\ OnDisk(w) => w \in Indexed \/ Live(w) \/ w \in stuck

Quiet == sweep.by = Nobody => sweep = NoSweep

AccountInv == BaseInv /\ Quiet /\ \A w \in Saves : AccountOf(w)

LEMMA SweepAccounts ==
    ASSUME TypeOK, SizeInv, Quiet,
           Sweep \/ \E c \in Saves \cup {Sweeper} : SweepBegin(c),
           NEW x \in Saves, AccountOf(x)
    PROVE  AccountOf(x)' /\ Quiet'
  <1>0. /\ sweep \in SweepType /\ pc \in [Saves -> PCs] /\ row \in [Saves -> RowType]
        /\ part \in [Saves -> Sizes \cup {NoFile}] /\ file \in [Saves -> Sizes \cup {NoFile}]
        /\ Sweeper \notin Saves /\ Nobody \notin Saves /\ Sweeper # Nobody
    BY CacheAssumption DEF TypeOK, SweepType, RowType
  <1> USE <1>0 DEF AccountOf, Quiet, NoSweep, OnDisk, Live, Indexed
  <1>1. ASSUME NEW c \in Saves \cup {Sweeper}, SweepBegin(c) PROVE AccountOf(x)' /\ Quiet'
    BY <1>1 DEF SweepBegin, disk, saver
  <1>2. ASSUME NEW w \in Saves, SweepPart(w) PROVE AccountOf(x)' /\ Quiet'
    <2>1. /\ UNCHANGED <<row, file, saver>> /\ w \in sweep.todo
          /\ \/ /\ sweep' = [sweep EXCEPT !.cur = w, !.todo = @ \ {w}]
                /\ part' = [part EXCEPT ![w] = NoFile]
             \/ sweep' = [sweep EXCEPT !.todo = @ \ {w}] /\ UNCHANGED part
      BY <1>2 DEF SweepPart
    <2>2. /\ sweep'.gone = sweep.gone /\ sweep'.by = sweep.by
          /\ \/ sweep'.cur = w /\ part' = [part EXCEPT ![w] = NoFile]
             \/ sweep'.cur = sweep.cur /\ UNCHANGED part
      BY <2>1 DEF SweepType
    <2>3. sweep.by # Nobody
      BY <2>1
    <2> QED
      BY <2>1, <2>2, <2>3 DEF saver
  <1>3. ASSUME NEW w \in Saves, SweepFile(w) PROVE AccountOf(x)' /\ Quiet'
    <2>1. /\ UNCHANGED <<row, part, saver>> /\ sweep.cur = w
          /\ \/ /\ sweep' = [sweep EXCEPT !.cur = Nobody, !.gone = @ \cup {w}]
                /\ file' = [file EXCEPT ![w] = NoFile]
             \/ sweep' = [sweep EXCEPT !.cur = Nobody] /\ UNCHANGED file
      BY <1>3 DEF SweepFile
    <2>2. /\ sweep'.cur = Nobody /\ sweep'.by = sweep.by
          /\ \/ /\ sweep'.gone = sweep.gone \cup {w}
                /\ file' = [file EXCEPT ![w] = NoFile]
             \/ sweep'.gone = sweep.gone /\ UNCHANGED file
      BY <2>1 DEF SweepType
    <2>3. sweep.by # Nobody
      BY <2>1
    <2> QED
      BY <2>1, <2>2, <2>3 DEF saver
  <1>4. CASE SweepCommit
    <2>1. pc'[x] = pc[x] \/ (pc[x] = "clean" /\ pc'[x] = "reserve")
      BY <1>4 DEF SweepCommit, SizeInv
    <2>2. row'[x] = row[x] \/ x \in sweep.gone
      BY <1>4 DEF SweepCommit
    <2> QED
      BY <1>4, <2>1, <2>2 DEF SweepCommit, disk
  <1>5. CASE SweepAborts
    <2>1. pc'[x] = pc[x] \/ (pc[x] = "clean" /\ pc'[x] = "failed")
      BY <1>5 DEF SweepAborts, SizeInv
    <2> QED
      BY <1>5, <2>1 DEF SweepAborts, disk
  <1> QED
    BY <1>1, <1>2, <1>3, <1>4, <1>5 DEF Sweep

LEMMA SaveAccounts ==
    ASSUME TypeOK, SizeInv, Quiet,
           NEW w \in Saves, Save(w), ~SweepBegin(w),
           NEW x \in Saves, AccountOf(x)
    PROVE  AccountOf(x)' /\ Quiet'
  <1>0. /\ sweep \in SweepType /\ pc \in [Saves -> PCs] /\ row \in [Saves -> RowType]
        /\ part \in [Saves -> Sizes \cup {NoFile}] /\ file \in [Saves -> Sizes \cup {NoFile}]
        /\ Sweeper \notin Saves /\ Nobody \notin Saves /\ Sweeper # Nobody
    BY CacheAssumption DEF TypeOK, SweepType, RowType
  <1>01. sweep' = sweep
    BY DEF Save, StartSave, Reserve, OpenPart, WriteChunk, RenewLease, EndOfStream,
           Replace, Publish, SaveRaises, UndoPart, UndoFile, UndoRow, Issue
  <1>02. LockFree => sweep.gone = {} /\ sweep.cur = Nobody
    BY DEF LockFree, Quiet, NoSweep
  <1> USE <1>0, <1>01, <1>02 DEF AccountOf, Quiet, NoSweep, OnDisk, Live, Indexed, GoTo, disk
  <1>1. CASE StartSave(w) \/ EndOfStream(w) \/ SaveRaises(w)
    BY <1>1 DEF StartSave, EndOfStream, SaveRaises
  <1>2. CASE Reserve(w)
    BY <1>2 DEF Reserve
  <1>3. CASE OpenPart(w)
    BY <1>3 DEF OpenPart
  <1>4. CASE WriteChunk(w)
    BY <1>4 DEF WriteChunk
  <1>5. CASE RenewLease(w)
    <2>1. row'[x].state = row[x].state
      BY <1>5 DEF RenewLease, RowType
    <2> QED
      BY <1>5, <2>1 DEF RenewLease
  <1>6. CASE Replace(w)
    BY <1>6 DEF Replace
  <1>7. CASE Publish(w)
    BY <1>7 DEF Publish
  <1>8. CASE UndoPart(w)
    BY <1>8 DEF UndoPart
  <1>9. CASE UndoFile(w)
    BY <1>9 DEF UndoFile
  <1>10. CASE UndoRow(w)
    BY <1>10 DEF UndoRow
  <1>11. CASE Issue(w)
    BY <1>11 DEF Issue
  <1> QED
    BY <1>1, <1>2, <1>3, <1>4, <1>5, <1>6, <1>7, <1>8, <1>9, <1>10, <1>11 DEF Save

LEMMA AccountStep ==
    ASSUME MaxCrashes = 0, AccountInv, [Next]_vars
    PROVE  AccountInv'
  <1>0. TypeOK /\ SizeInv /\ Quiet /\ \A x \in Saves : AccountOf(x)
    BY DEF AccountInv, BaseInv
  <1>1. BaseInv'
    BY <1>0, NextTypes, NextSizes DEF BaseInv
  <1>2. (Quiet /\ \A x \in Saves : AccountOf(x))'
    <2>1. CASE SweepBegin(Sweeper) \/ Sweep \/ \E w \in Saves : SweepBegin(w)
      <3>1. (\A x \in Saves : AccountOf(x))'
        BY <1>0, <2>1, SweepAccounts
      <3>2. Quiet'
        <4>1. CASE sweep' = NoSweep
          BY <4>1 DEF Quiet
        <4>2. CASE \E c \in Saves \cup {Sweeper} : SweepBegin(c)
          BY <4>2, CacheAssumption DEF SweepBegin, Quiet, NoSweep
        <4>3. CASE \E w \in Saves : SweepPart(w) \/ SweepFile(w)
          BY <1>0, <4>3, SweepAccounts DEF Sweep
        <4> QED
          BY <2>1, <4>1, <4>2, <4>3 DEF Sweep, SweepCommit, SweepAborts
      <3> QED
        BY <3>1, <3>2
    <2>2. ASSUME NEW w \in Saves, Save(w), ~SweepBegin(w)
          PROVE  (Quiet /\ \A x \in Saves : AccountOf(x))'
      BY <1>0, <2>2, SaveAccounts
    <2>3. CASE Tick
      <3>1. \A x \in Saves : row'[x].state = row[x].state
        BY <1>0, <2>3 DEF Tick, TypeOK
      <3> QED
        BY <1>0, <2>3, <3>1 DEF Tick, Quiet, AccountOf, OnDisk, Live, Indexed, disk
    <2>4. ~Crash
      BY <1>0 DEF Crash, TypeOK
    <2>5. CASE (\E d \in Readers : Download(d)) \/ UNCHANGED vars
      BY <1>0, <2>5 DEF Download, Request, OpenFile, EndRequest, vars, disk, saver,
         Quiet, AccountOf, OnDisk, Live, Indexed
    <2> QED
      BY <2>1, <2>2, <2>3, <2>4, <2>5 DEF Next
  <1> QED
    BY <1>1, <1>2 DEF AccountInv

(* A row goes only when its files are gone: a sweep unlinks them first, and*)
(* so does the except clause of save.                                      *)
LEMMA RowsGoLast ==
    ASSUME AccountInv, [Next]_vars, NEW x \in Saves,
           OnDisk(x)', x \in Indexed, x \notin Indexed'
    PROVE  x \in sweep.gone
  <1>0. TypeOK /\ AccountOf(x) /\ row \in [Saves -> RowType]
    BY DEF AccountInv, BaseInv, TypeOK, RowType
  <1>1. CASE SweepCommit
    BY <1>0, <1>1 DEF SweepCommit, Indexed
  <1>2. CASE \E w \in Saves : UndoRow(w)
    BY <1>0, <1>2 DEF UndoRow, Indexed, AccountOf, OnDisk, disk
  <1>3. CASE \E w \in Saves : Reserve(w) \/ RenewLease(w) \/ Publish(w)
    BY <1>0, <1>3 DEF Reserve, RenewLease, Publish, Indexed, RowType
  <1>4. CASE Tick
    BY <1>0, <1>4 DEF Tick, Indexed, RowType
  <1>5. CASE UNCHANGED row
    BY <1>5 DEF Indexed
  <1> QED
    BY <1>1, <1>2, <1>3, <1>4, <1>5 DEF Next, vars, SweepBegin, Sweep, SweepPart,
       SweepFile, SweepAborts, Save, StartSave, OpenPart, WriteChunk, EndOfStream,
       Replace, SaveRaises, UndoPart, UndoFile, Issue, Download, Request, OpenFile,
       EndRequest, Crash

(* Whatever unlinks and transactions do, a file has an index row or a      *)
(* thread that will still deal with it, or one that could not unlink it,   *)
(* and its row outlives it: cleanup deletes only rows whose files it has   *)
(* unlinked, and the except clause of save removes the files before the    *)
(* row.                                                                    *)
THEOREM FilesHaveOwners ==
    ASSUME MaxCrashes = 0
    PROVE  Spec => FilesAccountedFor
  <1>1. Init => AccountInv
    <2> SUFFICES ASSUME Init PROVE AccountInv
      OBVIOUS
    <2> QED
      BY InitBase, CacheAssumption
         DEF Init, AccountInv, AccountOf, Quiet, NoSweep, OnDisk
  <1>2. AccountInv /\ [Next]_vars => AccountInv'
    BY AccountStep
  <1>3. AccountInv /\ [Next]_vars =>
           [\A w \in Saves : OnDisk(w)' =>
               /\ (w \in Indexed \/ Live(w) \/ w \in stuck)'
               /\ w \in Indexed /\ w \notin Indexed' => w \in sweep.gone]_vars
    <2> SUFFICES ASSUME AccountInv, [Next]_vars, NEW w \in Saves, OnDisk(w)'
                 PROVE  /\ (w \in Indexed \/ Live(w) \/ w \in stuck)'
                        /\ w \in Indexed /\ w \notin Indexed' => w \in sweep.gone
      OBVIOUS
    <2>1. AccountOf(w)'
      BY <1>2 DEF AccountInv
    <2> QED
      BY <2>1, RowsGoLast DEF AccountOf
  <1> QED
    BY <1>1, <1>2, <1>3, PTL DEF Spec, FilesAccountedFor

-----------------------------------------------------------------------------
(* QUOTA, whatever unlinks and transactions do and whenever the process    *)
(* dies.  The argument: the index reserves Limit for an export before its  *)
(* thread creates a file, the size of a row only goes down afterwards, and *)
(* an export has one file at a time, of at most the size of its row.  The  *)
(* sum over the rows grows in one step only, the reservation that looks at *)
(* it.                                                                     *)

SizeOf == [w \in Saves |-> row[w].size]
BytesOf == [w \in Saves |-> Bytes(part[w]) + Bytes(file[w])]

(* Until its reservation an export has neither row nor file; then it has   *)
(* one file, first part, then final; the size of a finished row is what    *)
(* its thread has written.                                                 *)
QuotaOf(w) ==
    /\ part[w] = NoFile \/ file[w] = NoFile
    /\ pc[w] \in {"idle", "clean", "reserve"} => row[w].state = "absent"
    /\ pc[w] \in {"idle", "clean", "reserve", "open", "write", "renew", "replace"} =>
          file[w] = NoFile
    /\ pc[w] \in {"publish", "saved", "done"} =>
          part[w] = NoFile /\ file[w] \in {NoFile, written[w]}
    /\ row[w].state = "writing" => row[w].size = Limit
    /\ row[w].state = "ready" => pc[w] \in {"saved", "done"} /\ row[w].size = written[w]

Reserved ==
    /\ IsFiniteSet(Indexed)
    /\ Cardinality(Indexed) <= MaxFiles
    /\ UsedBytes <= MaxCacheBytes

QuotaInv == BaseInv /\ (\A w \in Saves : QuotaOf(w)) /\ Reserved

(* A row and its files fit.                                                *)
LEMMA RowCoversFiles ==
    ASSUME QuotaInv, NEW w \in Indexed
    PROVE  /\ SizeOf[w] \in Nat /\ BytesOf[w] \in Nat
           /\ BytesOf[w] <= SizeOf[w]
  <1>1. /\ w \in Saves /\ row[w].state \in {"writing", "ready"} /\ row[w].size \in Sizes
        /\ part[w] \in Sizes \cup {NoFile} /\ file[w] \in Sizes \cup {NoFile}
        /\ written[w] \in Sizes /\ QuotaOf(w)
    BY DEF QuotaInv, BaseInv, TypeOK, Indexed, States
  <1>2. Sizes \subseteq Nat /\ NoFile \notin Sizes /\ \A n \in Sizes : n <= Limit
    BY CacheAssumption DEF Sizes
  <1>3. /\ SizeOf[w] = row[w].size
        /\ BytesOf[w] = Bytes(part[w]) + Bytes(file[w])
    BY <1>1 DEF BytesOf, SizeOf
  <1>4. \A n \in Sizes \cup {NoFile} : Bytes(n) \in Nat /\ Bytes(n) <= Limit
    BY <1>2, CacheAssumption DEF Bytes
  <1>5. /\ Bytes(NoFile) = 0
        /\ Bytes(written[w]) = written[w]
    BY <1>1, <1>2 DEF Bytes
  <1>6. Bytes(part[w]) + Bytes(file[w]) <= row[w].size
    <2>1. CASE row[w].state = "writing"
      <3>1. row[w].size = Limit /\ (Bytes(part[w]) = 0 \/ Bytes(file[w]) = 0)
        BY <1>1, <1>5, <2>1 DEF QuotaOf
      <3> QED
        BY <1>1, <1>4, <3>1, CacheAssumption
    <2>2. CASE row[w].state = "ready"
      <3>1. /\ row[w].size = written[w]
            /\ Bytes(part[w]) = 0 /\ Bytes(file[w]) \in {0, written[w]}
        BY <1>1, <1>5, <2>2 DEF QuotaOf
      <3>2. written[w] \in Nat
        BY <1>1, <1>2
      <3> QED
        BY <3>1, <3>2
    <2> QED
      BY <1>1, <2>1, <2>2
  <1>7. row[w].size \in Nat /\ Bytes(part[w]) \in Nat /\ Bytes(file[w]) \in Nat
    BY <1>1, <1>2, <1>4
  <1> QED
    BY <1>3, <1>6, <1>7

(* So do all rows and all their files.                                     *)
LEMMA QuotaHolds == QuotaInv => IndexedWithinQuota
  <1> SUFFICES ASSUME QuotaInv PROVE IndexedWithinQuota
    OBVIOUS
  <1>1. IsFiniteSet(Indexed) /\ Cardinality(Indexed) <= MaxFiles
        /\ SumFunctionOnSet(SizeOf, Indexed) <= MaxCacheBytes
    BY DEF QuotaInv, Reserved, UsedBytes, SizeOf
  <1>2. \A w \in Indexed : BytesOf[w] \in Nat /\ SizeOf[w] \in Nat /\ BytesOf[w] <= SizeOf[w]
    BY RowCoversFiles
  <1>3. /\ SumFunctionOnSet(BytesOf, Indexed) \in Nat
        /\ SumFunctionOnSet(SizeOf, Indexed) \in Nat
        /\ SumFunctionOnSet(BytesOf, Indexed) <= SumFunctionOnSet(SizeOf, Indexed)
    BY <1>1, <1>2, SumNat, SumMonotone
  <1>4. SumFunctionOnSet(BytesOf, Indexed) <= MaxCacheBytes
    BY <1>1, <1>3, CacheAssumption
  <1> QED
    BY <1>1, <1>4 DEF IndexedWithinQuota, BytesOf

(* A step that adds no row and lets no row grow keeps the reservations.    *)
LEMMA NothingReserved ==
    ASSUME TypeOK, TypeOK', Reserved,
           \A w \in Indexed' : w \in Indexed /\ row'[w].size <= row[w].size
    PROVE  Reserved'
  <1> DEFINE more == Indexed
             less == Indexed'
             old == SizeOf
             new == SizeOf'
  <1>1. IsFiniteSet(more) /\ less \in SUBSET more
    BY DEF Reserved
  <1>2. IsFiniteSet(less) /\ Cardinality(less) \in Nat /\ Cardinality(more) \in Nat
        /\ Cardinality(less) <= Cardinality(more)
    BY <1>1, FS_Subset, FS_CardinalityType
  <1>3. /\ \A w \in more : old[w] \in Nat
        /\ \A w \in less : new[w] \in Nat /\ old[w] \in Nat /\ new[w] <= old[w]
    BY DEF TypeOK, Indexed, SizeOf, Sizes
  <1>4. /\ Cardinality(more) <= MaxFiles /\ SumFunctionOnSet(old, more) <= MaxCacheBytes
        /\ MaxFiles \in Nat /\ MaxCacheBytes \in Nat
    BY CacheAssumption DEF Reserved, UsedBytes, SizeOf
  <1> HIDE DEF more, less, old, new
  <1>5. /\ SumFunctionOnSet(new, less) <= SumFunctionOnSet(old, less)
        /\ SumFunctionOnSet(old, less) <= SumFunctionOnSet(old, more)
    BY <1>1, <1>2, <1>3, SumMonotone, SumSubset
  <1>6. /\ SumFunctionOnSet(new, less) \in Nat /\ SumFunctionOnSet(old, less) \in Nat
        /\ SumFunctionOnSet(old, more) \in Nat
    BY <1>1, <1>2, <1>3, SumNat
  <1>7. Cardinality(less) <= MaxFiles /\ SumFunctionOnSet(new, less) <= MaxCacheBytes
    BY <1>2, <1>4, <1>5, <1>6
  <1> QED
    BY <1>2, <1>7 DEF less, new, Reserved, UsedBytes, SizeOf

(* The reservation itself looks at all of them.                            *)
LEMMA ReservationFits ==
    ASSUME TypeOK, TypeOK', Reserved, NEW w \in Saves, row[w].state = "absent", HasQuota,
           row' = [row EXCEPT ![w] = [state |-> "writing", size |-> Limit, left |-> Lease]]
    PROVE  Reserved'
  <1> DEFINE others == Indexed
             old == SizeOf
             new == SizeOf'
  <1>1. Indexed' = others \cup {w} /\ w \notin others
    BY DEF TypeOK, Indexed
  <1>2. IsFiniteSet(others) /\ Cardinality(others) \in Nat /\ Cardinality(others) < MaxFiles
        /\ SumFunctionOnSet(old, others) + Limit <= MaxCacheBytes
    BY FS_CardinalityType DEF Reserved, HasQuota, UsedBytes, SizeOf
  <1>3. IsFiniteSet(others \cup {w}) /\ Cardinality(others \cup {w}) = Cardinality(others) + 1
    BY <1>1, <1>2, FS_AddElement
  <1>4. /\ \A x \in others : new[x] \in Nat /\ old[x] \in Nat /\ new[x] <= old[x]
        /\ new[w] = Limit /\ Limit \in Nat /\ MaxCacheBytes \in Nat /\ MaxFiles \in Nat
    BY <1>1, CacheAssumption DEF TypeOK, Indexed, SizeOf, Sizes
  <1> HIDE DEF others, old, new
  <1>5. /\ SumFunctionOnSet(new, others \cup {w}) = SumFunctionOnSet(new, others) + new[w]
        /\ SumFunctionOnSet(new, others) <= SumFunctionOnSet(old, others)
        /\ SumFunctionOnSet(new, others) \in Nat /\ SumFunctionOnSet(old, others) \in Nat
    BY <1>1, <1>2, <1>4, SumAdd, SumMonotone, SumNat
  <1>6. /\ Cardinality(others \cup {w}) <= MaxFiles
        /\ SumFunctionOnSet(new, others \cup {w}) <= MaxCacheBytes
    BY <1>2, <1>3, <1>4, <1>5
  <1> QED
    BY <1>1, <1>3, <1>6 DEF new, Reserved, UsedBytes, SizeOf

(* What each step does to rows and files of an export.                     *)
LEMMA QuotaStep == QuotaInv /\ [Next]_vars => (\A w \in Saves : QuotaOf(w))' /\ Reserved'
  <1> SUFFICES ASSUME QuotaInv, [Next]_vars
               PROVE  (\A w \in Saves : QuotaOf(w))' /\ Reserved'
    OBVIOUS
  <1>0. /\ Typed /\ TypeOK /\ TypeOK' /\ SizeInv /\ Reserved
        /\ \A x \in Saves : QuotaOf(x) /\ row[x].state \in States /\ row[x].size \in Nat
    <2>1. TypeOK /\ SizeInv /\ Reserved /\ \A x \in Saves : QuotaOf(x)
      BY DEF QuotaInv, BaseInv
    <2>2. TypeOK'
      BY <2>1, NextTypes
    <2>3. \A x \in Saves : row[x].state \in States /\ row[x].size \in Nat
      BY <2>1 DEF TypeOK, Sizes
    <2> QED
      BY <2>1, <2>2, <2>3, TypesUsed
  <1> USE DEF GoTo, disk, saver
  <1> DEFINE Kept == \A x \in Indexed' : x \in Indexed /\ row'[x].size <= row[x].size
  <1>1. ASSUME UNCHANGED row PROVE Kept
    BY <1>0, <1>1 DEF Indexed
  <1>2. Kept => Reserved'
    BY <1>0, NothingReserved
  <1> HIDE DEF Kept
  <1>3. ASSUME NEW c \in Saves \cup {Sweeper}, SweepBegin(c)
        PROVE  (\A w \in Saves : QuotaOf(w))' /\ Kept
    BY <1>0, <1>1, <1>3 DEF SweepBegin, QuotaOf
  <1>4. ASSUME NEW w \in Saves, SweepPart(w) \/ SweepFile(w)
        PROVE  (\A x \in Saves : QuotaOf(x))' /\ Kept
    BY <1>0, <1>1, <1>4 DEF SweepPart, SweepFile, QuotaOf, Typed
  <1>5. CASE SweepCommit
    <2>1. Kept
      BY <1>0, <1>5 DEF SweepCommit, Kept, Indexed, NoRow
    <2>2. ASSUME NEW x \in Saves PROVE QuotaOf(x)'
      BY <1>0, <1>5 DEF SweepCommit, QuotaOf, NoRow, SizeInv, Typed
    <2> QED
      BY <1>2, <2>1, <2>2
  <1>6. CASE SweepAborts
    <2>1. ASSUME NEW x \in Saves PROVE QuotaOf(x)'
      BY <1>0, <1>6 DEF SweepAborts, QuotaOf, SizeInv, Typed
    <2> QED
      BY <1>1, <1>2, <1>6, <2>1 DEF SweepAborts
  <1>7. ASSUME NEW w \in Saves,
               StartSave(w) \/ EndOfStream(w) \/ SaveRaises(w) \/ Issue(w)
        PROVE  (\A x \in Saves : QuotaOf(x))' /\ Kept
    BY <1>0, <1>1, <1>7 DEF StartSave, EndOfStream, SaveRaises, Issue, QuotaOf, Typed
  <1>8. ASSUME NEW w \in Saves, Reserve(w)
        PROVE  (\A x \in Saves : QuotaOf(x))' /\ Reserved'
    <2>1. Reserved'
      <3>1. CASE UNCHANGED row
        BY <1>1, <1>2, <3>1
      <3>2. CASE ~UNCHANGED row
        BY <1>0, <1>8, <3>2, ReservationFits DEF Reserve, QuotaOf
      <3> QED
        BY <3>1, <3>2
    <2>2. ASSUME NEW x \in Saves PROVE QuotaOf(x)'
      BY <1>0, <1>8 DEF Reserve, QuotaOf, Typed
    <2> QED
      BY <2>1, <2>2
  <1>9. ASSUME NEW w \in Saves, OpenPart(w) \/ WriteChunk(w) \/ Replace(w)
        PROVE  (\A x \in Saves : QuotaOf(x))' /\ Kept
    <2>1. ASSUME NEW x \in Saves PROVE QuotaOf(x)'
      <3>1. CASE OpenPart(w)
        BY <1>0, <3>1 DEF OpenPart, QuotaOf, Typed
      <3>2. CASE WriteChunk(w)
        BY <1>0, <3>2 DEF WriteChunk, QuotaOf, Typed
      <3>3. CASE Replace(w)
        BY <1>0, <3>3 DEF Replace, QuotaOf, Typed, SizeInv
      <3> QED
        BY <1>9, <3>1, <3>2, <3>3
    <2> QED
      BY <1>1, <1>9, <2>1 DEF OpenPart, WriteChunk, Replace
  <1>10. ASSUME NEW w \in Saves, RenewLease(w)
         PROVE  (\A x \in Saves : QuotaOf(x))' /\ Kept
    <2>1. Kept
      BY <1>0, <1>10 DEF RenewLease, Kept, Indexed, Typed, RowType
    <2>2. /\ \A x \in Saves : /\ row'[x].state = row[x].state
                              /\ row'[x].size = row[x].size
          /\ pc'[w] \in {"write", "undoPart"} /\ \A x \in Saves \ {w} : pc'[x] = pc[x]
      BY <1>0, <1>10 DEF RenewLease, Typed, RowType
    <2>3. ASSUME NEW x \in Saves PROVE QuotaOf(x)'
      BY <1>0, <1>10, <2>2 DEF RenewLease, QuotaOf
    <2> QED
      BY <2>1, <2>3
  <1>11. ASSUME NEW w \in Saves, Publish(w)
         PROVE  (\A x \in Saves : QuotaOf(x))' /\ Kept
    <2>1. written[w] \in Nat /\ written[w] <= Limit
      BY <1>0, CacheAssumption DEF Typed, Sizes
    <2>2. Kept
      BY <1>0, <1>11, <2>1 DEF Publish, Kept, Indexed, Typed, QuotaOf
    <2>3. ASSUME NEW x \in Saves PROVE QuotaOf(x)'
      BY <1>0, <1>11 DEF Publish, QuotaOf, Typed
    <2> QED
      BY <2>2, <2>3
  <1>12. ASSUME NEW w \in Saves, UndoPart(w) \/ UndoFile(w)
         PROVE  (\A x \in Saves : QuotaOf(x))' /\ Kept
    <2>1. ASSUME NEW x \in Saves PROVE QuotaOf(x)'
      BY <1>0, <1>12 DEF UndoPart, UndoFile, QuotaOf, Typed
    <2> QED
      BY <1>1, <1>12, <2>1 DEF UndoPart, UndoFile
  <1>13. ASSUME NEW w \in Saves, UndoRow(w)
         PROVE  (\A x \in Saves : QuotaOf(x))' /\ Kept
    <2>1. Kept
      BY <1>0, <1>13 DEF UndoRow, Kept, Indexed, NoRow, Typed
    <2>2. ASSUME NEW x \in Saves PROVE QuotaOf(x)'
      BY <1>0, <1>13 DEF UndoRow, QuotaOf, NoRow, Typed
    <2> QED
      BY <2>1, <2>2
  <1>14. ASSUME NEW d \in Readers, Download(d)
         PROVE  (\A x \in Saves : QuotaOf(x))' /\ Kept
    BY <1>0, <1>1, <1>14 DEF Download, Request, OpenFile, EndRequest, QuotaOf
  <1>15. CASE Tick
    <2>1. \A x \in Saves : row'[x].state = row[x].state /\ row'[x].size = row[x].size
      BY <1>0, <1>15 DEF Tick, Typed, RowType
    <2>2. Kept
      BY <1>0, <2>1 DEF Kept, Indexed
    <2>3. ASSUME NEW x \in Saves PROVE QuotaOf(x)'
      BY <1>0, <1>15, <2>1 DEF Tick, QuotaOf
    <2> QED
      BY <1>2, <2>2, <2>3
  <1>16. CASE Crash
    <2>1. ASSUME NEW x \in Saves PROVE QuotaOf(x)'
      BY <1>0, <1>16 DEF Crash, QuotaOf, Live, Typed
    <2> QED
      BY <1>1, <1>2, <1>16, <2>1 DEF Crash
  <1>17. CASE UNCHANGED vars
    BY <1>0, <1>1, <1>2, <1>17 DEF vars, QuotaOf
  <1> QED
    BY <1>2, <1>3, <1>4, <1>5, <1>6, <1>7, <1>8, <1>9, <1>10, <1>11, <1>12, <1>13,
       <1>14, <1>15, <1>16, <1>17 DEF Next, Sweep, Save

LEMMA InitQuota == Init => QuotaInv
  <1> SUFFICES ASSUME Init PROVE QuotaInv
    OBVIOUS
  <1>1. Indexed = {}
    BY DEF Init, Indexed, NoRow
  <1>2. IsFiniteSet({}) /\ Cardinality({}) = 0
    BY FS_EmptySet
  <1>3. UsedBytes = 0
    BY <1>1, SumEmpty DEF UsedBytes
  <1>4. Reserved
    BY <1>1, <1>2, <1>3, CacheAssumption DEF Reserved
  <1>5. \A w \in Saves : QuotaOf(w)
    BY DEF Init, QuotaOf, NoRow
  <1> QED
    BY <1>4, <1>5, InitBase DEF QuotaInv

(* The files of indexed exports never take more than max_cache_bytes nor   *)
(* are they more than max_files, however many exports there are: also when *)
(* unlinks fail, transactions raise and the process dies.                  *)
THEOREM QuotaKept == Spec => []IndexedWithinQuota
  <1>1. QuotaInv /\ [Next]_vars => QuotaInv'
    BY QuotaStep, NextTypes, NextSizes DEF QuotaInv, BaseInv
  <1> QED
    BY <1>1, InitQuota, QuotaHolds, PTL DEF Spec

-----------------------------------------------------------------------------
(* THE ROUTE.  Of request, worker and callback exactly one is responsible  *)
(* for an open stream.                                                     *)

RouteTypeOK ==
    /\ request \in [Downloads -> {"new", "opening", "sending", "reading", "over"}]
    /\ worker \in [Downloads -> {"none", "loading", "opened", "raised", "done", "failed"}]
    /\ gone \in [Downloads -> BOOLEAN]
    /\ watched \in [Downloads -> BOOLEAN]
    /\ stream \in [Downloads -> {"none", "open", "closed"}]

(* A request that is over while its worker runs has left its callback.     *)
RouteOf(d) ==
    /\ request[d] = "new" => worker[d] = "none"
    /\ worker[d] = "none" => request[d] \in {"new", "over"}
    /\ watched[d] => request[d] = "over" /\ worker[d] # "none"
    /\ request[d] \in {"sending", "reading"} => worker[d] = "done"
    /\ request[d] = "over" /\ worker[d] \in {"loading", "opened", "raised"} => watched[d]
    /\ worker[d] \in {"none", "loading", "raised", "failed"} => stream[d] = "none"
    /\ worker[d] = "opened" => stream[d] = "open"
    /\ worker[d] = "done" =>
          (stream[d] = "open" <=> request[d] # "over" \/ watched[d])

RouteInv == RouteTypeOK /\ \A d \in Downloads : RouteOf(d)

LEMMA RouteStep == RouteInv /\ [RouteNext]_routeVars => RouteInv'
  <1> SUFFICES ASSUME RouteInv, [RouteNext]_routeVars PROVE RouteInv'
    OBVIOUS
  <1>0. RouteTypeOK /\ \A d \in Downloads : RouteOf(d)
    BY DEF RouteInv
  <1>1. CASE UNCHANGED routeVars
    BY <1>0, <1>1 DEF routeVars, RouteInv, RouteTypeOK, RouteOf
  <1>2. ASSUME NEW d \in Downloads,
               \/ Get(d) \/ Load(d) \/ WorkerEnds(d) \/ Disconnect(d) \/ Abandon(d)
               \/ CloseAbandoned(d) \/ Respond(d) \/ ReadChunk(d) \/ SendChunk(d)
               \/ EndResponse(d)
        PROVE  RouteInv'
    <2> USE <1>0 DEF RouteTypeOK, CloseStream, Watch
    <2>1. RouteTypeOK'
      <3>1. CASE Get(d) \/ Load(d) \/ WorkerEnds(d)
        BY <3>1 DEF Get, Load, WorkerEnds
      <3>2. CASE Disconnect(d) \/ Abandon(d) \/ CloseAbandoned(d)
        BY <3>2 DEF Disconnect, Abandon, CloseAbandoned
      <3>3. CASE Respond(d) \/ ReadChunk(d) \/ SendChunk(d) \/ EndResponse(d)
        BY <3>3 DEF Respond, ReadChunk, SendChunk, EndResponse
      <3> QED
        BY <1>2, <3>1, <3>2, <3>3
    <2>2. ASSUME NEW x \in Downloads PROVE RouteOf(x)'
      <3> USE DEF RouteOf
      <3>1. CASE Get(d) \/ Load(d) \/ WorkerEnds(d)
        BY <3>1 DEF Get, Load, WorkerEnds
      <3>2. CASE Disconnect(d) \/ Abandon(d) \/ CloseAbandoned(d)
        BY <3>2 DEF Disconnect, Abandon, CloseAbandoned
      <3>3. CASE Respond(d) \/ ReadChunk(d) \/ SendChunk(d) \/ EndResponse(d)
        BY <3>3 DEF Respond, ReadChunk, SendChunk, EndResponse
      <3> QED
        BY <1>2, <3>1, <3>2, <3>3
    <2> QED
      BY <2>1, <2>2 DEF RouteInv
  <1> QED
    BY <1>1, <1>2 DEF RouteNext

(* A stream is open while it is served and closed when request, worker and *)
(* callback are through with it, for any number of downloads and whichever *)
(* of the client's going and the opening comes first.                      *)
THEOREM StreamsFollow == RouteSpec => []StreamFollowsItsRequest
  <1>1. RouteInit => RouteInv
    BY DEF RouteInit, RouteInv, RouteTypeOK, RouteOf
  <1>2. RouteInv => StreamFollowsItsRequest
    BY DEF RouteInv, RouteTypeOK, RouteOf, StreamFollowsItsRequest
  <1> QED
    BY <1>1, <1>2, RouteStep, PTL DEF RouteSpec
=============================================================================
