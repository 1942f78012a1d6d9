--------------------------- MODULE AttachmentCache ---------------------------
(***************************************************************************)
(* The attachment download cache of attachment_downloads.py: exports that  *)
(* worker threads stream to disk, the SQLite index that reserves quota for *)
(* them, the sweeper that removes what has expired, signed links, and the  *)
(* downloads that read the cached files.                                   *)
(*                                                                         *)
(* A save is known by the id it draws (uuid4), so Saves is both the set of *)
(* exports and of the threads that write them.  A thread is cut wherever   *)
(* another one, the sweeper or a crash can come in: at each database       *)
(* transaction and each file operation.  Sizes are counted in chunks.      *)
(*                                                                         *)
(* Deadlines are kept as the time that is left: retained_until <= now is   *)
(* left = 0, and Tick takes one unit from everything that runs.            *)
(***************************************************************************)
EXTENDS Integers, FiniteSets, Functions

CONSTANTS
    Saves,          \* export ids
    Readers,        \* concurrent downloads
    Sweeper,        \* the background task of download_lifespan
    Nobody,
    NoFile,         \* the path does not exist
    Limit,          \* max_bytes of one export, in chunks
    MaxFiles,       \* max_files
    MaxCacheBytes,  \* max_cache_bytes, in chunks
    Lease,          \* WRITE_LEASE_SECONDS
    RenewAfter,     \* the age of a lease that a chunk renews (30 s)
    Retention,      \* retention_seconds
    TTL,            \* ttl_seconds
    UnlinkFaults,   \* may unlink raise OSError?
    StoreFaults,    \* may a database transaction raise?
    MaxCrashes      \* how often the process may die

ASSUME CacheAssumption ==
    /\ NoFile \notin Nat
    /\ Sweeper \notin Saves /\ Nobody \notin Saves /\ Sweeper # Nobody
    /\ Limit \in Nat \ {0} /\ MaxFiles \in Nat \ {0}
    /\ MaxCacheBytes \in Nat /\ Limit <= MaxCacheBytes
    /\ Lease \in Nat \ {0} /\ RenewAfter \in Nat
    /\ Retention \in Nat \ {0} /\ TTL \in 1..Retention
    /\ UnlinkFaults \in BOOLEAN /\ StoreFaults \in BOOLEAN
    /\ MaxCrashes \in Nat

VARIABLES
    row,        \* [Saves -> index row: state, size, time left]
    part, file, \* [Saves -> chunks in <id>.bin.part and in <id>.bin]
    pc,         \* [Saves -> where the thread of the save is]
    written,    \* [Saves -> size, the chunks the thread has written]
    age,        \* [Saves -> time since the thread last wrote its lease]
    stuck,      \* the saves whose failure cleanup could not unlink a file
    sweep,      \* the cleanup transaction in progress
    link,       \* [Saves -> time left to the expiry of the issued link]
    reader,     \* [Readers -> where the download is, and the row it read]
    crashes

disk == <<part, file>>
saver == <<pc, written, age, stuck>>
vars == <<row, disk, saver, sweep, link, reader, crashes>>

States == {"absent", "writing", "ready"}
NoRow == [state |-> "absent", size |-> 0, left |-> 0]
NoSweep == [by |-> Nobody, todo |-> {}, cur |-> Nobody, gone |-> {}]
NoRead == [at |-> "idle", id |-> Nobody, size |-> 0]

Init ==
    /\ row = [w \in Saves |-> NoRow]
    /\ part = [w \in Saves |-> NoFile]
    /\ file = [w \in Saves |-> NoFile]
    /\ pc = [w \in Saves |-> "idle"]
    /\ written = [w \in Saves |-> 0]
    /\ age = [w \in Saves |-> 0]
    /\ stuck = {}
    /\ sweep = NoSweep
    /\ link = [w \in Saves |-> 0]
    /\ reader = [d \in Readers |-> NoRead]
    /\ crashes = 0

Indexed == {w \in Saves : row[w].state # "absent"}

(* Mistakes in cleanup's WHERE clause: an export too early; no reservations*)
(* of dead threads.                                                        *)
ExpiredEarly == {w \in Indexed : row[w].left <= 1}
ExpiredReadyOnly == {w \in Indexed : row[w].state = "ready" /\ row[w].left = 0}

(* cleanup's WHERE clause, retained_until <= now.                          *)
Expired == {w \in Indexed : row[w].left = 0}

(* The threads inside save, those that still have its cleanup to do.       *)
Live(w) == pc[w] \notin {"idle", "saved", "done", "failed", "dead"}

(* What a forgotten BEGIN IMMEDIATE of cleanup would give.                 *)
LockIgnored == TRUE

(* cleanup's transaction is BEGIN IMMEDIATE: nobody else writes meanwhile. *)
LockFree == sweep.by = Nobody

GoTo(w, where) == pc' = [pc EXCEPT ![w] = where]

-----------------------------------------------------------------------------
(* cleanup: one transaction that unlinks, then deletes, expired exports.   *)

(* A save starts with a cleanup of its own.                                *)
StartSave(w) ==
    /\ pc[w] = "idle"
    /\ GoTo(w, "clean")
    /\ UNCHANGED <<row, disk, written, age, stuck, sweep, link, reader, crashes>>

SweepBegin(c) ==
    /\ sweep.by = Nobody
    /\ c = Sweeper \/ (c \in Saves /\ pc[c] = "clean")
    /\ sweep' = [NoSweep EXCEPT !.by = c, !.todo = Expired]
    /\ UNCHANGED <<row, disk, saver, link, reader, crashes>>

(* An unlink that fails leaves the row for a later sweep.                  *)
SweepPart(w) ==
    /\ w \in sweep.todo /\ sweep.cur = Nobody
    /\ \/ /\ part' = [part EXCEPT ![w] = NoFile]
          /\ sweep' = [sweep EXCEPT !.cur = w, !.todo = @ \ {w}]
       \/ /\ UnlinkFaults
          /\ sweep' = [sweep EXCEPT !.todo = @ \ {w}]
          /\ UNCHANGED part
    /\ UNCHANGED <<row, file, saver, link, reader, crashes>>

SweepFile(w) ==
    /\ sweep.cur = w
    /\ \/ /\ file' = [file EXCEPT ![w] = NoFile]
          /\ sweep' = [sweep EXCEPT !.cur = Nobody, !.gone = @ \cup {w}]
       \/ /\ UnlinkFaults
          /\ sweep' = [sweep EXCEPT !.cur = Nobody]
          /\ UNCHANGED file
    /\ UNCHANGED <<row, part, saver, link, reader, crashes>>

(* A save goes on to its reservation after its cleanup.                    *)
SweepCommit ==
    /\ sweep.by # Nobody
    /\ sweep.todo = {} /\ sweep.cur = Nobody
    /\ row' = [w \in Saves |-> IF w \in sweep.gone THEN NoRow ELSE row[w]]
    /\ sweep' = NoSweep
    /\ pc' = [w \in Saves |-> IF w = sweep.by THEN "reserve" ELSE pc[w]]
    /\ UNCHANGED <<disk, written, age, stuck, link, reader, crashes>>

(* A DELETE or the commit raises: the transaction is rolled back, the      *)
(* files stay unlinked.                                                    *)
SweepAborts ==
    /\ StoreFaults
    /\ sweep.by # Nobody
    /\ sweep' = NoSweep
    /\ pc' = [w \in Saves |-> IF w = sweep.by THEN "failed" ELSE pc[w]]
    /\ UNCHANGED <<row, disk, written, age, stuck, link, reader, crashes>>

-----------------------------------------------------------------------------
(* save: reserve quota, stream, publish.                                   *)

(* SELECT SUM(size): what is used or reserved.                             *)
UsedBytes == SumFunctionOnSet([w \in Saves |-> row[w].size], Indexed)

(* A mistake: a check of what is used now, not of what may be written.     *)
HasQuotaNow == Cardinality(Indexed) < MaxFiles /\ UsedBytes < MaxCacheBytes

HasQuota ==
    /\ Cardinality(Indexed) < MaxFiles
    /\ UsedBytes + Limit <= MaxCacheBytes

Reserve(w) ==
    /\ pc[w] = "reserve" /\ LockFree
    /\ \/ /\ HasQuota
          /\ row' = [row EXCEPT ![w] = [state |-> "writing", size |-> Limit,
                                        left |-> Lease]]
          /\ GoTo(w, "open")
       \/ /\ ~HasQuota \/ StoreFaults
          /\ GoTo(w, "failed")
          /\ UNCHANGED row
    /\ age' = [age EXCEPT ![w] = 0]
    /\ UNCHANGED <<disk, written, stuck, sweep, link, reader, crashes>>

OpenPart(w) ==
    /\ pc[w] = "open"
    /\ part' = [part EXCEPT ![w] = 0]
    /\ GoTo(w, "write")
    /\ UNCHANGED <<row, file, written, age, stuck, sweep, link, reader, crashes>>

(* A mistake: the limit is checked before the size counts the chunk.       *)
BeyondLimitLate(size) == size - 1 > Limit

BeyondLimit(size) == size > Limit

(* A chunk beyond the limit is not written.  A chunk that is written may   *)
(* go to a file that a sweep has unlinked; an old lease has to be renewed. *)
WriteChunk(w) ==
    /\ pc[w] = "write"
    /\ IF BeyondLimit(written[w] + 1)
       THEN GoTo(w, "undoPart") /\ UNCHANGED <<part, written>>
       ELSE /\ written' = [written EXCEPT ![w] = @ + 1]
            /\ part' = [part EXCEPT ![w] = IF @ = NoFile THEN @ ELSE @ + 1]
            /\ GoTo(w, IF age[w] >= RenewAfter THEN "renew" ELSE "write")
    /\ UNCHANGED <<row, file, age, stuck, sweep, link, reader, crashes>>

RenewLease(w) ==
    /\ pc[w] = "renew" /\ LockFree
    /\ IF row[w].state = "writing"
       THEN /\ row' = [row EXCEPT ![w].left = Lease]
            /\ age' = [age EXCEPT ![w] = 0]
            /\ GoTo(w, "write")
       ELSE GoTo(w, "undoPart") /\ UNCHANGED <<row, age>>
    /\ UNCHANGED <<disk, written, stuck, sweep, link, reader, crashes>>

EndOfStream(w) ==
    /\ pc[w] = "write"
    /\ GoTo(w, "replace")
    /\ UNCHANGED <<row, disk, written, age, stuck, sweep, link, reader, crashes>>

(* os.replace of a part file that is gone raises.                          *)
Replace(w) ==
    /\ pc[w] = "replace"
    /\ IF part[w] = NoFile
       THEN GoTo(w, "undoPart") /\ UNCHANGED disk
       ELSE /\ file' = [file EXCEPT ![w] = part[w]]
            /\ part' = [part EXCEPT ![w] = NoFile]
            /\ GoTo(w, "publish")
    /\ UNCHANGED <<row, written, age, stuck, sweep, link, reader, crashes>>

Publish(w) ==
    /\ pc[w] = "publish" /\ LockFree
    /\ IF row[w].state = "writing"
       THEN /\ row' = [row EXCEPT ![w] = [state |-> "ready", size |-> written[w],
                                          left |-> Retention]]
            /\ GoTo(w, "saved")
       ELSE GoTo(w, "undoPart") /\ UNCHANGED row
    /\ UNCHANGED <<disk, written, age, stuck, sweep, link, reader, crashes>>

(* Exchange, the disk or the database raises between reservation and       *)
(* publication.                                                            *)
SaveRaises(w) ==
    /\ \/ pc[w] \in {"open", "write", "replace"}
       \/ StoreFaults /\ pc[w] \in {"renew", "publish"}
    /\ GoTo(w, "undoPart")
    /\ UNCHANGED <<row, disk, written, age, stuck, sweep, link, reader, crashes>>

(* The except clause of save: unlink both files, then drop the row, but    *)
(* keep the reservation if a file could not be removed.                    *)
UndoPart(w) ==
    /\ pc[w] = "undoPart"
    /\ \/ part' = [part EXCEPT ![w] = NoFile] /\ UNCHANGED stuck
       \/ UnlinkFaults /\ stuck' = stuck \cup {w} /\ UNCHANGED part
    /\ GoTo(w, "undoFile")
    /\ UNCHANGED <<row, file, written, age, sweep, link, reader, crashes>>

(* A mistake: only the .part file is removed.                              *)
UndoFileForgotten(w) ==
    /\ pc[w] = "undoFile"
    /\ GoTo(w, IF w \in stuck THEN "failed" ELSE "undoRow")
    /\ UNCHANGED <<row, disk, written, age, stuck, sweep, link, reader, crashes>>

(* A mistake: the second unlink alone decides whether the row may go.      *)
UndoFileLastUnlink(w) ==
    /\ pc[w] = "undoFile"
    /\ \/ /\ file' = [file EXCEPT ![w] = NoFile]
          /\ GoTo(w, "undoRow") /\ UNCHANGED stuck
       \/ /\ UnlinkFaults /\ stuck' = stuck \cup {w}
          /\ GoTo(w, "failed") /\ UNCHANGED file
    /\ UNCHANGED <<row, part, written, age, sweep, link, reader, crashes>>

UndoFile(w) ==
    /\ pc[w] = "undoFile"
    /\ \/ file' = [file EXCEPT ![w] = NoFile] /\ UNCHANGED stuck
       \/ UnlinkFaults /\ stuck' = stuck \cup {w} /\ UNCHANGED file
    /\ GoTo(w, IF w \in stuck' THEN "failed" ELSE "undoRow")
    /\ UNCHANGED <<row, part, written, age, sweep, link, reader, crashes>>

UndoRow(w) ==
    /\ pc[w] = "undoRow" /\ LockFree
    /\ \/ row' = [row EXCEPT ![w] = NoRow]
       \/ StoreFaults /\ UNCHANGED row
    /\ GoTo(w, "failed")
    /\ UNCHANGED <<disk, written, age, stuck, sweep, link, reader, crashes>>

-----------------------------------------------------------------------------
(* issue and open_download.                                                *)

Min2(a, b) == IF a <= b THEN a ELSE b

(* A mistake: a link that may outlive the file.                            *)
LinkLifeUncapped(w) == TTL

(* expires = min(now + ttl, retained_until).                               *)
LinkLife(w) == Min2(TTL, row[w].left)

(* prepare_attachment_download issues one link for what it has saved; a    *)
(* plain save issues none.                                                 *)
Issue(w) ==
    /\ pc[w] = "saved"
    /\ \/ /\ row[w].state = "ready" /\ row[w].left > 0
          /\ link' = [link EXCEPT ![w] = LinkLife(w)]
       \/ UNCHANGED link
    /\ GoTo(w, "done")
    /\ UNCHANGED <<row, disk, written, age, stuck, sweep, reader, crashes>>

(* A GET with a link that has not expired reads the row.  One that finds   *)
(* no ready row in its retention is answered 410 without further steps.    *)
Request(d, w) ==
    /\ reader[d].at = "idle"
    /\ link[w] > 0
    /\ reader' = [reader EXCEPT ![d] =
          IF row[w].state = "ready" /\ row[w].left > 0
          THEN [at |-> "open", id |-> w, size |-> row[w].size]
          ELSE [at |-> "gone", id |-> w, size |-> 0]]
    /\ UNCHANGED <<row, disk, saver, sweep, link, crashes>>

Opens(d) == file[reader[d].id] # NoFile /\ file[reader[d].id] = reader[d].size

OpenFile(d) ==
    /\ reader[d].at = "open"
    /\ reader' = [reader EXCEPT ![d].at = IF Opens(d) THEN "served" ELSE "gone"]
    /\ UNCHANGED <<row, disk, saver, sweep, link, crashes>>

EndRequest(d) ==
    /\ reader[d].at \in {"served", "gone"}
    /\ reader' = [reader EXCEPT ![d] = NoRead]
    /\ UNCHANGED <<row, disk, saver, sweep, link, crashes>>

-----------------------------------------------------------------------------
Less(n) == IF n > 0 THEN n - 1 ELSE 0

Tick ==
    /\ row' = [w \in Saves |-> [row[w] EXCEPT !.left = Less(@)]]
    /\ link' = [w \in Saves |-> Less(link[w])]
    /\ age' = [w \in Saves |-> IF Live(w) /\ age[w] < RenewAfter THEN age[w] + 1
                               ELSE age[w]]
    /\ UNCHANGED <<disk, pc, written, stuck, sweep, reader, crashes>>

(* The process dies.  The open transaction is rolled back, files and links *)
(* stay; a new process starts its sweeper on the same directory.           *)
Crash ==
    /\ crashes < MaxCrashes
    /\ crashes' = crashes + 1
    /\ pc' = [w \in Saves |-> IF Live(w) THEN "dead" ELSE pc[w]]
    /\ sweep' = NoSweep
    /\ reader' = [d \in Readers |-> NoRead]
    /\ UNCHANGED <<row, disk, written, age, stuck, link>>

Sweep ==
    \/ \E w \in Saves : SweepPart(w) \/ SweepFile(w)
    \/ SweepCommit
    \/ SweepAborts

Save(w) ==
    \/ StartSave(w) \/ SweepBegin(w) \/ Reserve(w)
    \/ OpenPart(w) \/ WriteChunk(w) \/ RenewLease(w) \/ EndOfStream(w)
    \/ Replace(w) \/ Publish(w) \/ SaveRaises(w)
    \/ UndoPart(w) \/ UndoFile(w) \/ UndoRow(w)
    \/ Issue(w)

Download(d) ==
    \/ \E w \in Saves : Request(d, w)
    \/ OpenFile(d)
    \/ EndRequest(d)

Next ==
    \/ SweepBegin(Sweeper)
    \/ Sweep
    \/ \E w \in Saves : Save(w)
    \/ \E d \in Readers : Download(d)
    \/ Tick
    \/ Crash

Spec == Init /\ [][Next]_vars

(* The steps of a save that begin a write transaction.                     *)
Transact(w) == SweepBegin(w) \/ Reserve(w) \/ RenewLease(w) \/ Publish(w) \/ UndoRow(w)

(* The sweeper's loop never ends, time passes, and a save that has begun   *)
(* goes on: its Exchange calls have timeouts.  The sweeper sleeps between  *)
(* its sweeps while SQLite's busy handler keeps trying, so a thread that   *)
(* waits for the database gets it: strong fairness.                        *)
FairSpec ==
    /\ Spec
    /\ WF_vars(SweepBegin(Sweeper)) /\ WF_vars(Sweep) /\ WF_vars(Tick)
    /\ \A w \in Saves : /\ WF_vars(pc[w] # "idle" /\ Save(w))
                        /\ SF_vars(Transact(w))

-----------------------------------------------------------------------------
(* PROPERTIES                                                              *)

Sizes == 0..Limit
PCs == {"idle", "clean", "reserve", "open", "write", "renew", "replace",
        "publish", "saved", "undoPart", "undoFile", "undoRow", "done",
        "failed", "dead"}

(* Rows, files, threads, the transaction, links and downloads have their   *)
(* types; in particular no file ever exceeds the limit of one export.      *)
TypeOK ==
    /\ row \in [Saves -> [state : States, size : Sizes,
                          left : 0..(Lease + Retention)]]
    /\ part \in [Saves -> Sizes \cup {NoFile}]
    /\ file \in [Saves -> Sizes \cup {NoFile}]
    /\ pc \in [Saves -> PCs]
    /\ written \in [Saves -> Sizes]
    /\ age \in [Saves -> 0..RenewAfter]
    /\ stuck \subseteq Saves
    /\ sweep \in [by : Saves \cup {Sweeper, Nobody}, todo : SUBSET Saves,
                  cur : Saves \cup {Nobody}, gone : SUBSET Saves]
    /\ link \in [Saves -> 0..TTL]
    /\ reader \in [Readers -> [at : {"idle", "open", "served", "gone"},
                               id : Saves \cup {Nobody}, size : Sizes]]
    /\ crashes \in 0..MaxCrashes

OnDisk(w) == part[w] # NoFile \/ file[w] # NoFile
Orphan(w) == OnDisk(w) /\ pc[w] = "dead" /\ w \notin Indexed

Bytes(f) == IF f = NoFile THEN 0 ELSE f

(* Quota: the files of indexed exports, finished or being written, never   *)
(* take more of the disk than max_cache_bytes, and never are more than     *)
(* max_files, however reservations, writes, failures and sweeps interleave.*)
IndexedWithinQuota ==
    /\ Cardinality(Indexed) <= MaxFiles
    /\ SumFunctionOnSet([w \in Saves |-> Bytes(part[w]) + Bytes(file[w])], Indexed)
          <= MaxCacheBytes

(* A ready row in its retention has its file, whole and under its final    *)
(* name: sweeps, late writers and failure cleanups never take it away.     *)
ReadyIsServable ==
    \A w \in Saves : row[w].state = "ready" /\ row[w].left > 0 =>
        file[w] = row[w].size

(* A link serves until its expiry: until then its export is indexed, ready,*)
(* retained at least as long, and on disk; a crash does not change that.   *)
LinksServe ==
    \A w \in Saves : link[w] > 0 =>
        /\ row[w].state = "ready"
        /\ row[w].left >= link[w]
        /\ file[w] = row[w].size

(* A download that was admitted with a live link is turned away only when  *)
(* the link has expired meanwhile, although it reads the row first and     *)
(* opens the file later.                                                   *)
TurnedAwayWhenExpired ==
    [][\A d \in Readers :
          reader[d].at # "gone" /\ reader'[d].at = "gone"
          => link[reader'[d].id] = 0]_vars

(* Every file is accounted for, also when unlinks and transactions fail:   *)
(* it has an index row, or a thread that will still publish or remove it,  *)
(* or that could not remove it.  Even then the row stays as a reservation: *)
(* a row goes only when its files are gone, unless a late thread makes its *)
(* file anew behind the sweep that has just unlinked it.  (Not across      *)
(* crashes, see CrashLeftoversIndexed.)                                    *)
FilesAccountedFor ==
    [][\A w \in Saves : OnDisk(w)' =>
          /\ (w \in Indexed \/ Live(w) \/ w \in stuck)'
          /\ w \in Indexed /\ w \notin Indexed' => w \in sweep.gone]_vars

(* Quota comes back: every reservation and every export leaves the index,  *)
(* also when its thread fails or dies with the process.                    *)
RowsLeave == \A w \in Saves : w \in Indexed ~> w \notin Indexed

(* So does the disk: a file is removed in the end, by its thread or by a   *)
(* sweep, unless a crash has made it an orphan (CrashLeftoversIndexed).    *)
FilesLeave == \A w \in Saves : OnDisk(w) /\ ~Orphan(w) ~> ~OnDisk(w) \/ Orphan(w)

-----------------------------------------------------------------------------
(* Statements of the repository that the code does not keep.               *)

(* docs/attachment-downloads.md: partial files left by a crash are handled *)
(* by the cleanup after their lease.  cleanup handles indexed files only,  *)
(* so the file of a dead thread has to have its row.                       *)
CrashLeftoversIndexed == \A w \in Saves : ~Orphan(w)
=============================================================================
