# TLA+ verification of ews_mcp

`ews_mcp` is an MCP server that lets an agent work with Exchange mailboxes. A
write tool is called twice: a *preview* stores the operation and returns a
token, a *confirm* executes it. The specifications here model the parts of the
server where interleavings, lost answers, crashes, cancellations and time decide
whether it is correct: the write engine with its receipt store, what the tools do
inside it, the attachment download cache and its route, and the path of a tool
call from the request through its worker thread to the audit record. A few pure
algorithms (free/busy intervals, recipients, paging, partial answers) are checked
over all small inputs.

Every definition translates code under `src/`; `PROJECT.json` ("map") names the
lines. Run everything inside this directory: `tlc -config X.cfg M`,
`tlapm M.tla`.

## 1. Inventory of the system

| Component | State it keeps | Operations | Hard behaviours | What makes it correct |
|---|---|---|---|---|
| **Operation store** (`confirmation.py`) | SQLite table `operations`, one row per previewed write; one connection under an RLock | `create_preview`, `get`, `find_by_idempotency_key`, `begin_confirm`, `mark`, `migrate_active_to_unknown` at start | concurrent claims, restart with active rows | one claim at a time per operation and per key and mailbox; final rows stay final |
| **Write engine** (`mcp_server._run_write`, `tool_support.py`) | locals of worker threads (`anyio.to_thread`) | receipt query, key replay, preview, confirmation, receipt | values read before the Exchange connection and used after it; lost answers; failing `mark`; request cancellation leaves the thread running | a write takes effect at most once; receipts tell the truth; a claim is settled |
| **Message batches** (`write_operations.update_messages / move_messages / delete_messages`) | one result row per item | item-by-item submission | partial failure, ambiguous item answers | the stored rows never claim an item that was not applied |
| **Attachment cache** (`attachment_downloads.py`) | SQLite index, `exports/<id>.bin(.part)` files, links | `save`, `cleanup`, `issue`, `open_download`, sweeper task, GET route | lease expiry, quota reservation, sweep against publish, check-then-open, crash | quota; ready and linked exports have their file; space comes back |
| **Drafts** (`write_operations`) | Exchange items with a changekey | create (new, reply, reply to all, forward), update (version check), send, delete | an edit or a move between preview and confirmation; a receipt without ids | only the previewed version is changed; a draft is created once and goes to whom it should |
| **Team directories, people** (`team_directories.py`, `people_operations.py`) | configuration of directories and permissions | authorize, create contact, find people in several sources | configuration changes between preview and confirmation; a source fails half-way | the verified target is the one written; what an answer misses is said |
| **Availability** (`availability_operations.py`) | none | merge free/busy into intervals | boundaries, missing mailboxes, unknown data | intervals equal the sampled statuses |
| **Calendar, tasks, flags, OOF** | Exchange items | create, update, respond, cancel, flag; listings | ambiguous submission; sending switched off meanwhile; pages that shift | through the write engine; a failed row changed nothing; nobody is notified with sending off |
| **Mail reading** (`mail_operations.py`) | none | find, thread, get, folders, attachments | paging, items that move during a read | only allowed folders are read; no row is skipped |
| **Tool calls** (`mcp_server._make_handler` and `_dispatch`, middlewares) | tasks of one event loop, worker threads lent by anyio | validate, run, envelope | cancellation while a thread works, threads run short, errors of the framework | a call is answered, and its thread does nothing afterwards |
| **OA identity** (`utils/lanid_email.py`) | none: asked once per call | resolve the requester's address | timeout, several contacts, another name | no work without a verified identity |
| **Audit** (`utils/audit.py`) | audit file, a ContextVar per task | wrap every call, twice | calls overlap; layers end a call early | one true record per call |
| **HTTP authentication, contracts** (`mcp_server.py`, `tool_specs.py`) | tables | compare a token, validate arguments | - | - |
| **Exchange client, configuration** | credentials, environment | connect, read settings | - | - |

How they interact: the HTTP layer hands each tool call to a worker thread;
`_dispatch` checks the arguments and runs a read tool or `_run_write`; that one
resolves the mailbox through OA, talks to the store, connects to Exchange and
calls the tool's method. On its way back the result passes the validation and
audit middlewares and the audit fallback, which share a flag in a ContextVar. `prepare_attachment_download` saves through the cache
in its worker thread and issues a link; the GET route and the sweeper open the
same SQLite index from threads of their own.

## 2. Modules

| Module | Models |
|---|---|
| `OperationStore` | the `operations` table: `status`, `result` (result_json), `info` (tool, mailbox, key), `created` (the order of `created_at`); one operator per SQL statement |
| `RunWrite` | `_run_write`, extending `OperationStore`: threads, expiry, restarts, and Exchange's ledger `applied` |
| `OnceOnly` | abstract: an intent is claimed by one execution at a time, takes effect at most once, may be retried only without effect |
| `RunWriteImplements` | the refinement mapping from `RunWrite` to `OnceOnly` |
| `RunWriteInvariant` | the inductive invariant `IInv` |
| `RunWriteSafety`, `RunWriteRefinement` | theorems and proofs |
| `AttachmentCache` | `save`, `cleanup`, `issue`, `open_download`, the sweeper, crashes |
| `DownloadRoute` | the GET route: request, worker thread, abandoned requests, streaming |
| `AttachmentCacheProofs` | theorems and proofs of both |
| `ItemWrites` | the handlers that read one item and change it: drafts, events, tasks, flags, between previews, confirmations and other people's edits |
| `Listings` | an agent that follows the offsets of `find_message`, `list_tasks`, `list_events` and `get_thread` while rows come and go |
| `Availability` | `check_availability` from Exchange's answers to the report |
| `TeamDirectories` | contacts of a directory whose configuration changes: `create_contact`, `find_people`, `get_contact` |
| `Creations` | what `create_draft`, `create_event`, `create_task`, `create_contact` do between claim and outcome |
| `DraftRecipients` | `create_draft` from the recipients of request and original to those of the draft |
| `SourceCoverage` | `find_people`, `get_thread`, `list_folders` over sources that fail |
| `ToolRequests` | tool calls from the request to audit record and answer: fallback, middlewares, worker threads, OA identity, cancellation |
| `ItemWritesProofs` | theorems and proofs |
| `ToolCallsProofs` | theorems and proofs of `Creations`, `TeamDirectories`, `ToolRequests` |
| `ListingsProofs` | theorems and proofs of `Listings` |
| `ToolAnswersProofs` | theorems and proofs of `SourceCoverage`, `DraftRecipients`, `Availability` |
| `DataInduction` | lemmas: induction over finite sets, sums, folds, elements of sequences |
| `MCRunWrite`, `MCAttachmentCache`, `MCItemWrites` | symmetry sets for TLC |
| `MCToolCalls` | the eight components that share no state with the engine, the cache or the item, in one run; an initial state picks the one that moves |

### Operation store and write engine

A thread is cut where another one can come in: at every store call and every
Exchange call. Its program counter follows the code:

| `pc` | Code |
|---|---|
| `idle` | no call; `QueryReceipt`, `AskPreview`, `LookupKey`, `ReadExisting` begin one with its first store access |
| `build` | connecting and running the read-only preview handler (lines 643-651); `CreatePreview`, `PreviewFails` |
| `connect` | lines 602-609, with `seen[r]`, the status read before |
| `claim` | `begin_confirm`: `Claim` or `ClaimRefused` (then `reread`) |
| `execute` | the tool's method: `RaiseBeforeSubmit`, `SubmitOne`, `SubmitItem`, `ReturnBatch` |
| `mark` | `store.mark`: `MarkOutcome`, `MarkFails` |
| `report` | `store.get` and `_receipt` |

`applied[o][i]` counts how often Exchange applied item `i` of operation `o`. No
action reads it; the properties compare it with what rows and receipts say.
A single-effect tool (send, create, cancel, ...) succeeds, is rejected before
anything happened, or raises ambiguously with or without the effect; a batch
does the same per item and turns each exception into a failed row.

Abstractions, each of which keeps the control flow:

- The confirm token with the business parameters is one Boolean (`matches`):
  the code compares both and answers the same failure.
- The read permission of a team directory, which depends on configuration, is a
  nondeterministic failure of each replay.
- The clock is the set `expired`: a preview may pass its TTL at any moment, in
  the order of creation. It is re-read wherever the code calls
  `_preview_expired`.
- A store statement that raises before anything is written ends the call in a
  failure. For the claim this is the failure branch of `Connect`: no state
  changes between the two. For `mark` it is `MarkFails`.
- `created_at` is taken before the store's lock, so of two previews written at the
  same time the one written later may count as the earlier: `Insert` places a row
  anywhere after the rows that were there when its call began (`CreatedWith`),
  which allows more orders than a clock that is read after the preview was built.
- `interrupted` is a history variable like `applied`: what a restart found
  executing.
- Effects that Exchange applies after the process has died are taken to
  happen before the restart; nobody can tell the difference.
- Assumed of Exchange: an error of `_DEFINITE_REJECTION_ERRORS` means that
  nothing was applied. The code relies on it (`is_definite_rejection`).
- Cancelling a request does not stop its thread (`to_thread.run_sync` without
  abandonment), so cancellation is no action.

### Attachment cache

A save is known by its id. Each database transaction and each file operation is
one step; `cleanup`, which holds the write lock (`BEGIN IMMEDIATE`) while it
unlinks, is a sequence of steps (`SweepBegin`, `SweepPart`, `SweepFile`,
`SweepCommit` or `SweepAborts`) during which `LockFree` is false for everybody
else. Reads (`issue`, `open_download`) do not wait for the lock. Sizes are
counted in chunks, deadlines as the time that is left, so `Tick` takes one unit
from everything that runs. A crash drops threads, downloads and the open
transaction, and keeps rows, files and links.

Abstractions: the pre-check of the reported size and of the mailbox refuses a
save before it does anything and is left out; a chunk always has size one;
names, digests and signatures carry no state. The row that `issue` reads is
ready, and only a sweep changes a ready row, so its read and its computation
are one step. A refused GET makes no further step than its answer (`gone`).
At most one crash may happen per behaviour (`MaxCrashes`), which bounds the
restarts and not what one of them may interrupt.

### Handlers on one item

`ItemWrites` looks inside the calls that `RunWrite` treats as one step. There
is one Exchange item and a few operations, each by one of ten tools. A handler
is cut at its Exchange calls: the fetch of the parent folder (`Resolve`), the
fetch of the content (`Read`, `ReadRefused`, `FetchFails`) and the submission
(`Submit`, `SendDisabled`, `NothingToSave`). A write runs them twice: a preview
ends after `Read` with a pending row, a confirmation goes on to submit. Between
any two steps other people edit the item (`Edit`), move or remove it (`Move`),
or another operation changes it.

Abstractions: body, subject and recipients are the changekey (`version`) and
the few facts the guards ask for (class, draft, series master, recipients,
role of the employee); an operation is executed by one caller at a time, which
`RunWrite` establishes; its rows follow the engine's statuses. Of Exchange it
is assumed that a rejection means that nothing was applied, except for the
notice of a cancellation, as the comment in `cancel_event` says, and that
`NEVER_OVERWRITE` rejects an outdated changekey while the default
(`AutoResolve`) does not (`docs/tool-description-review.md:49` says the same).

### Listings, availability, team directories

`Listings`: an agent asks for pages until the tool says there is no more; rows
arrive and leave between the calls, a query may contain exceptions instead of
rows, and a folder of a thread may be unreachable. Exchange sorts by one time
field and leaves the order of equal times open: `position` is the order it
takes, and `Reorder` may change it between two pages. A sort is the sequence of the rows in which each comes before those it
precedes (`ExchangeOrder`, `ByTimeAndId`), which says what `order_by` and `list.sort` promise and not
how they get there. `Availability`: windows and samples are small numbers, a calendar is any
sequence of codes, of any length up to the expected one, or missing; Exchange
may answer for one mailbox less. `TeamDirectories`: the configuration is one
directory's target and members, re-read where `get_directory` is called; an
administrator may change it between any two steps (more often than a process
that reads its environment would see it, so the properties hold a fortiori),
and folders may change at Exchange. `granted` is a history variable for `AccessGranted` alone.

### Creations, recipients, answers from several sources

`Creations` follows one confirming call of a creating tool: the reads of the
preview again (`Prepare`, with the original of an answer, which may have been
moved, and `require_send`), then `save` (`Submission`). The classification of
exceptions is modelled by what `is_definite_rejection` looks at: the code of a
`ToolOperationError`, whether Exchange's error is its cause, whether that one is
definite. Exchange may create the item and lose the answer, or answer without
id or changekey, to which each tool reacts in its own way (`Incomplete`). An
administrator switches sending at any moment. `made` and `allowed` are history.

`DraftRecipients` evaluates `create_draft` for every mode, every request and
every original over small lists of addresses that repeat each other and contain
the employee; the properties are stated on sets and injectivity, not by the
algorithm. `SourceCoverage` counts rows per source; a source fails as a whole or
after some of its rows, and the address list may drop entries (`dropped`).

### Tool calls

`ToolRequests`: the task of a call passes `audited_handler` (`Begin`), the
middlewares (`Refuse`, `Admit`), waits for one of `Tokens` worker threads
(`StartThread`, `LeaveQueue`) and then, shielded, for its thread (`Resume`); the
middleware's and the fallback's `finally` are `LeaveMiddleware` and
`LeaveHandler`. The thread asks OA (`Resolve`), works, and ends (`FinishTool`);
`Cancel` may come at any moment and is noticed only where the task waits.
Abstractions: results are the four classes the record and the envelope tell
apart; the audit middleware is entered in one step with the validation, since no
wait lies between; an answer of OA is unusable (timeout, HTTP status, no JSON) or
a list of contacts with the three facts the code looks at (an object, its name,
its address). A blank LANID, a blank name and missing settings end the call before
OA is asked (`RefusedUnasked`).

`DownloadRoute`: one request, its shielded worker task, its callback
(`close_abandoned_result`), and the stream they hand to each other. Which files
may be served is the cache's business. That a disconnect reaches the route only
where it waits is in the guards of `Abandon` and `EndResponse`.

## 3. What is checked

| Run | Instance | Shows |
|---|---|---|
| `write_single` | 2 threads, 2 operations, 1 key (and previews without one), failing `mark` | `ExclusiveExecution`, `AtMostOnce`, `SingleRowsTruthful`, `ReceiptsTruthful`, `FinalIsFinal`, `InterruptedNeverResumes`, `TypeOK`, `ImplementsOnceOnly` |
| `write_batch` | 2 fair threads, 1 operation, a batch tool with 2 items and a single tool | `BatchRowsTruthful`, `ReceiptsTruthful`, `ClaimsSettle` |
| `cache_safety` | 2 exports, 1 download, quota for one and a half exports, failing unlinks, 1 crash | `IndexedWithinQuota`, `ReadyIsServable`, `LinksServe`, `TurnedAwayWhenExpired`, `TypeOK` |
| `cache_faults` | 3 exports, at most 2 at a time, failing unlinks and failing transactions | `IndexedWithinQuota`, `FilesAccountedFor` |
| `cache_live` | 2 exports, 1 crash, fairness | `RowsLeave`, `FilesLeave` |
| `items` | 2 operations, 10 tools, one outside edit and any number of moves | `DraftUpdateIsPreviewed`, `FailedMeansUntouched`, `ShownInScope`, `NoticesGated` |
| `tool_calls` | eight components, one at a time: listings of 3 rows in pages of 1; sources with up to 2 rows of which 1 is asked; windows of 1 to 3 minutes in samples of 1 and 2, 2 attendees; 2 contact operations, 2 targets; 4 lists of recipients; 2 creations; 2 calls, 1 worker thread, 7 answers of OA; 2 downloads | `NothingSkipped`, `StillListingExact`; `AbsentMeansNotThere`; `IntervalsAreSamples`; `ContactGoesWherePreviewed`, `AccessGranted`, `ClaimableRowsWroteNothing`; `RecipientsAsAsked`; `CreatedOnce`, `InvitationsGated`; `AuditedOnce`, `WorkIsAttributed`, `RecordMatchesReply`, `NothingAfterRecord`, `EveryCallEnds`; `StreamFollowsItsRequest` |
| `write_batch_replayed`, `write_completed_key`, `write_stale_cause`, `cache_orphan`, `task_changekey` | small | statements of the repository the code does not keep, see 6 |

Why the bounds are enough to be interesting: two threads and two operations of
one key give every race of claims, of a claim with a lookup, and of a retry with
a superseding preview; the third actor is the restart. Two items separate
completed, partial and failed batches. `MaxApplied` = 2 is the first count that
means a repetition. In the cache `MaxCacheBytes` = 3 with `Limit` = 2 lets the
second export fit only when the first has shrunk to its real size; a lease, a
retention and a renewal age of one or two units let each of them run out first.
With two exports `MaxFiles` = 2 is never the reason for a refusal, so
`cache_faults` has three, with the shortest lives of rows and links; the count
can fail there.
Two operations on one item give every interference between two tools as well
as with outsiders, and one outside edit (`MaxVersion` = 1) is enough to make a
changekey stale. Three rows in pages of one are three pages, so that arrivals
shift a page twice; with `Limit` = 1 the lookahead row decides every page, and rows may share their
time. A
window of three minutes in samples of two has a cut last slot. Two calls and one
worker thread make one of them queue, and two are enough for a shared flag to
drop a record; a third adds nothing, as calls meet only in the threads. The seven
answers of OA are no answer, no, one and two contacts, another name, an invalid
address and a contact that is no object. The lists of recipients are empty, one and two addresses, one of
them repeated, with and without the employee. One employee takes part in the
directory operations: an operation is authorized by its own employee only, and
the theorems have any number.
The theorems of section 5 remove the bounds for what they state.

Deadlock is checked in the runs of `RunWrite` and `AttachmentCache`: a call can
always begin, or time passes. The other models stop legitimately: every operation
has a final row, the listing is read, every call is answered.

## 4. Fairness

`RunWrite!FairSpec`: each thread's `Step` is weakly fair. Worker threads are
scheduled by the operating system and each OA, Exchange and SQLite call has a
timeout, so a call that has begun goes on. No fairness on beginning calls, on
expiry or on restarts. `ClaimsSettle` needs a store that accepts the outcome
(`StoreFaults` = FALSE): after a failing `mark` the row stays executing until
the next start, which nobody promises.

`AttachmentCache!FairSpec`: the sweeper's loop and time are weakly fair, and so
is a thread that has begun to save. The steps of a save that begin a write
transaction are strongly fair: they compete with the sweeper for the database
lock, the sweeper sleeps between sweeps (`cleanup_seconds` is positive) and
SQLite's busy handler keeps trying for 30 seconds.

`MCToolCalls!MCSpec`: what a call does once it has begun (`Proceed`) is weakly
fair. The event loop runs every ready task; anyio lends its threads in the order
of the queue; in the thread OA has its timeout, Exchange its HTTP timeout and
SQLite its busy timeout. No fairness on beginning or cancelling a call.
`EveryCallEnds` needs that a token comes back with the end of the wait
(`HoldsToken`).

## 5. What is proved

For every value of the constants, under the named assumptions only
(`ScopeAssumption`, `RunAssumption`, `CacheAssumption`, `ToolsAssumption`,
`AbsentAssumption`, `DirectoryAssumption`, `TokensAssumption`,
`OAAnswersAssumption`, `ListingAssumption`, `CoverageAssumption`,
`RecipientAssumption`, `AvailabilityAssumption`). The last four say what the code
checks on entry: a page has a size (`tool_specs.py:126`), a window ends after it
starts and a sample has a width (`availability_operations.py:86`); a mailbox holds
finitely many rows, and lists are sequences.

| Theorem | Statement |
|---|---|
| `RunWriteSafety!TypeCorrect` | `Spec => []TypeOK` |
| `RunWriteSafety!Invariance` | `Spec => []IInv` |
| `RunWriteSafety!Exclusion`, `OnceAtMost`, `SingleTruth`, `BatchTruth`, `ReceiptTruth` | `Spec => []` of `ExclusiveExecution`, `AtMostOnce`, `SingleRowsTruthful`, `BatchRowsTruthful`, `ReceiptsTruthful` |
| `RunWriteSafety!Finality`, `InterruptedStaysClosed` | `Spec => FinalIsFinal`, `Spec => InterruptedNeverResumes` |
| `RunWriteRefinement!Refinement` | `Spec => ImplementsOnceOnly` |
| `AttachmentCacheProofs!CacheTypes` | `Spec => []TypeOK` |
| `AttachmentCacheProofs!CacheInvariance` | `Spec => []CacheInv`, if no transaction raises |
| `AttachmentCacheProofs!ReadyServes`, `LinksHold`, `TurnedAway` | `ReadyIsServable`, `LinksServe`, `TurnedAwayWhenExpired`, if no transaction raises |
| `AttachmentCacheProofs!FilesHaveOwners` | `Spec => FilesAccountedFor`, if the process lives; unlinks and transactions may raise |
| `AttachmentCacheProofs!QuotaKept` | `Spec => []IndexedWithinQuota`, whatever unlinks and transactions do and whenever the process dies |
| `AttachmentCacheProofs!StreamsFollow` | `RouteSpec => []StreamFollowsItsRequest` |
| `ToolCallsProofs!CreateInvariance` | `CreateSpec => []CreateInv` |
| `ToolCallsProofs!OneItem`, `Gated` | `CreatedOnce`, `InvitationsGated` |
| `ToolCallsProofs!RequestInvariance` | `RequestSpec => []RequestInv` |
| `ToolCallsProofs!RequestTypeCorrect`, `OneRecord`, `WorkAttributed`, `RecordAndReply`, `RecordCloses` | `RequestTypeOK`, `AuditedOnce`, `WorkIsAttributed`, `RecordMatchesReply`, `NothingAfterRecord` |
| `ItemWritesProofs!ItemInvariance` | `Spec => []ItemInv` |
| `ItemWritesProofs!ItemTypeCorrect`, `DraftsAsPreviewed`, `ClaimableUntouched`, `InScope`, `SwitchGates` | `TypeOK`, `DraftUpdateIsPreviewed`, `FailedMeansUntouched`, `ShownInScope`, `NoticesGated` |
| `ToolCallsProofs!DirectoryInvariance` | `DirectorySpec => []DirectoryInv` |
| `ToolCallsProofs!DirectoryTypeCorrect`, `FiledAsPreviewed`, `ClaimableIsClean`, `OnlyMembers` | `DirectoryTypeOK`, `ContactGoesWherePreviewed`, `ClaimableRowsWroteNothing`, `AccessGranted` |
| `ListingsProofs!ListInvariance` | `ListingSpec => []ListInv` |
| `ListingsProofs!NothingIsSkipped`, `PagesAreTheListing` | `NothingSkipped`, `StillListingExact` |
| `ToolAnswersProofs!AbsenceIsReported` | `CoverageSpec => []AbsentMeansNotThere` |
| `ToolAnswersProofs!DraftsGoAsAsked` | `DraftSpec => []RecipientsAsAsked` |
| `ToolAnswersProofs!IntervalsAreTheSamples` | `AvailabilitySpec => []IntervalsAreSamples` |

With these every safety invariant and every action property that a passing run
checks is a theorem.

**The argument for the write engine.** `AtMostOnce` is not inductive: a step
that applies an effect needs to know that nobody has applied it before. `IInv`
adds what the code relies on silently. *Ownership*: a running thread's row is
executing and no other thread runs it; only the claim makes a row executing,
and only its thread and a restart (which stops all threads) change it again.
*KeyExclusion*: while a row is executing, no other row of its key is consumed;
the claim establishes that through NOT EXISTS, and no other row of the key can
be claimed meanwhile. *Ledger* and *SingleRun*: an operation that took effect is
executing, completed or unknown, and its thread marks it failed only without an
effect, so the claimable statuses prove that nothing happened. *OneRowOfKey*
then carries at most one effect over all rows of a key. *BatchRun* relates the
items a batch has already submitted to the ledger. The refinement follows from
the same invariant: a claim is `Begin`, an effect is `Take`, `mark` is `Settle`
or `Release`, a restart is `Interrupt`, everything else stutters.
`InterruptedNeverResumes` adds that what a restart interrupted is unknown
(*InterruptedAreUnknown*): unknown rows stay so (`RowSteps`), an effect belongs
to an executing row (`EffectsInsideClaims`), and *KeyExclusion* says that none of
the key is executing beside an unknown one. A migration that made such rows
pending again would break it.

**The argument for the cache.** `ReadyIsServable` needs that a sweep touches
only rows that have expired and stay so: it holds the lock from its SELECT to
its commit (*SweepInv*), so no writer renews or publishes one of them
meanwhile. It also needs that what a thread publishes is what is in its file
(*ThreadOf*): its part file holds the chunks it has counted or was unlinked
(*SizeInv*), and a part file that is gone makes `os.replace` fail. Links never
get more time than their row has. With failing transactions the argument and
the property break: a sweep that unlinks and is rolled back leaves a row whose
late writer publishes a file that is gone (a hazard in `PROJECT.json`).
`FilesAccountedFor` holds with failing transactions and failing unlinks alike:
a thread that cannot unlink its file leaves its row, as a reservation that a sweep
will find; a sweep that cannot keeps the row too. A row goes only when its files
are gone (`RowsGoLast`), but a late thread may make its file anew behind the sweep
that has just unlinked it (`sweep.gone`). Then that thread lives and removes it,
or has failed to (*AccountOf*, which follows the sweep through its two unlinks and
the thread from its reservation to the end of its own cleanup). Only with a crash
is such a file nobody's, which is the run `cache_orphan`. For the route
*RouteOf* says which of request, worker and callback holds an open stream.

**The argument for one item.** `DraftUpdateIsPreviewed` is about three moments,
preview, read and save; `ItemInv` keeps them together: a call about to save
holds the copy it read (*Running*), the comparison at the read ties the copy to
the preview and `NEVER_OVERWRITE` ties the save to the copy (*Previewed*); the
preview is not replaced because only a row that does not exist yet records one.
*Scoped* carries the folder of the first fetch to the second. *Settled* says
that only completed and unknown rows have an effect; it needs that a
cancellation that raises is unknown.

**The argument for directories.** A call's target is set once, where the
employee was authorized, and stays in `granted`, which only grows during the
call (*Granted*); a confirmation that gets to its claim has the target of its
preview (*Verified*), and reuses it rather than resolving it again (*Filed*).

**The argument for creations.** A call runs exactly while its row is executing,
and until it submits it has created nothing (*RunningOf*); after a creation no
exception of the code counts as a definite rejection (`LostAnswer`,
`IncompleteStatus`), so only completed and unknown rows have an item. A call that
sees the switch on is one of those that may invite, from its claim to its
submission (*GatedOf*).

**The argument for tool calls.** That a record is written exactly once rests on a
flag between two layers: it is up exactly while the middleware has left and the
fallback has not (*Flagged*). A thread lives inside the wait of its task
(*Nested*), because the wait is shielded: whatever ends a call finds its thread
ended. A thread is past the identity only with OA's match and keeps it
(*Attributed*); the outcome the middleware has recorded is the one the envelope
sees, or a cancellation or an exception replaced it before either (*Consistent*).

**The argument for the quota.** The index is checked, the disk is bounded: the
two are tied by *QuotaOf*, which says of one export that the row reserves `Limit`
before a file exists and goes down to the real size only when the file is
complete, and that it has its part file or its final file and never both. So the
bytes of a row's files are at most its size (`RowCoversFiles`), the sum over the
rows is at most `UsedBytes` (`SumMonotone`), and `UsedBytes` grows in one step
only, the reservation that has just compared it under the database lock
(*Reserved*). Nothing in it depends on unlinks or commits that succeed: a sweep
that is rolled back brings its rows back with their sizes.

**The argument for listings.** `NothingSkipped` is about all pages together, and
the rows of the first page's listing may have moved down meanwhile. *ListInv*
counts with ranks: the rank of a row is the number of rows before it, in a sorted
sequence the row of rank `k` stands at `k + 1` (`SortedRanks`), and an arrival
can only raise it (`RankGrows`). The agent has every row of the first listing
whose rank *now* is below the offset: a page delivers those between the offset and
the next (`InPage`), an arrival moves rows out of that set only. Exactly what a
page is differs by tool: a lookahead row or not, a query with exceptions among
its rows, and for a thread the merge of two cut listings, where a row among the
first `w` of the merge is among the first `w` of its folder (`MergedPages`; there
the two orders must agree, hence `Tied`); the other listings may have equal times, as
long as Exchange keeps their order (`reordered`). While nothing changes the pages put
together are a prefix of the sort, which is unique (`SortUnique`, `PageAfterPage`).

**The arguments for answers.** Coverage: a source with rows is still to be asked
or has a status, and what is covered has shown its rows (*CoverageInv*).
Recipients: `Unseen` keeps exactly the unseen addresses, each once
(proved along its fold), so the three fields are disjoint and together hold what
was named or answered. Free/busy: *Partition* is the invariant of the loop of
`_busy_intervals`: after `k` samples the intervals cover `0 .. k * step` (cut at the
window), differ from their neighbours, and give each minute the status of its
sample; a turn either prolongs the last interval or opens one.

**Induction over data.** An induction theorem that takes an operator cannot be
instantiated by the provers, so `DataInduction` states induction with a *set* in
its place: a set that has {}, and a subset of `S` once it has all that lack one
element of it, has `S` (`SubsetInduction`; `UpwardInduction` for numbers). Both
follow from a smallest counterexample.
From it follow that the recursive function under a fold exists (`FoldExists`,
`FoldLastExists`; a `CHOOSE` says nothing before that), that a sum does not depend
on the order, is monotonic and grows by the element added, and that a loop over a
sequence goes through its prefixes. The proofs above cite those.

**Only model-checked**: the liveness properties (`ClaimsSettle`, `RowsLeave`,
`FilesLeave`, `EveryCallEnds`), because fairness is out of the prover's reach. The
statements that the code does not keep (section 6) are refuted by runs.

## 6. Where the code departs from its documentation

- `write_batch_replayed`: whether a row already holds a batch result is checked
  on the row read before connecting. A confirmer that read it while pending may
  claim it after another execution ended in failed, and submits every item
  again, also items whose answers were lost. (`mcp_server.py:600`)
- `write_completed_key`: the key is looked up before connecting and the preview
  inserted after it; a key completed in between is answered by a new preview.
  The store refuses to execute it. (`tool_specs.py:462`)
- `write_stale_cause`: a claim leaves `result_json` of the failed attempt in
  the row; after a restart the unknown retry is reported with the rejection of
  the earlier attempt as its cause. (`mcp_server.py:285`)
- `task_changekey`: `update_task` saves without a conflict check, so the
  changekey it read protects nothing; the description promises "a checked
  change key". (`tool_specs.py:339`; `docs/tool-description-review.md:37` left
  the claim to be verified.)
- Without a run: `docs/tool-description-review.md:49` says that `update_draft`
  does not compare the preview's changekey and saves with AutoResolve; the code
  now does the one (`write_operations.py:413`) and not the other (line 476), and
  `DraftUpdateIsPreviewed` is proved.
- `cache_orphan`: a writer that stalls beyond its lease before it opens its
  file, and dies after, leaves a file without index row, which cleanup never
  sees. (`docs/attachment-downloads.md:100`)
- Without a run: a call that is cancelled between the audit fallback and the
  middleware has neither a result nor an exception that the fallback sees, and is
  recorded as `success` (`utils/audit.py:236`, `FallbackStatus`). No document says
  what such a record should hold, and nothing was done; `RecordMatchesReply`
  speaks of calls that are answered.
- Without a run: `find_people` makes a row without values of an exception among
  Exchange's rows (`people_operations.py:177`), where `list_tasks` raises.
  `AbsentMeansNotThere` is about rows that are missing.
- Without a run: the address list drops the entries that Exchange returns as
  errors and is reported as `ok` (`people_operations.py:110`). So an answer
  may lack them without calling itself partial; `AbsentMeansNotThere` excepts them
  (`dropped`).
- Without a run: `update_event` without a difference returns before it asks for a
  confirmation (`calendar_operations.py:208`), so its preview is a row that shows
  nothing (`NoDifference`).

## 7. Not modelled

- Reads of a batch item by item (each is `_tool_item` of `ItemWrites`) and the
  merge of categories by `update_messages`, which has no version check.
- The flag listing (one query), `get_contact` by address, the field mapping of
  items, paging inside a body, text extraction from attachments: data without
  state.
- The OOF tools, which the contracts disable (`tool_specs.py:351`); so they do
  `delete_draft` and `delete_messages`, whose handlers are modelled all the same.
- `outlook_client.py` beyond connecting: its search, reply and folder methods are
  reached by no tool. `oa_lookup.py` is a script the server does not import.
- Tool contracts (tables and JSON schemas), HTTP authentication (one comparison
  per request), logging, configuration beyond the relations that
  `CacheAssumption` states.
- What paging cannot promise, and no document does: `NothingSkipped` and
  `StillListingExact` exclude rows that leave (`shrunk`), rows of
  one folder with equal times in `get_thread` (`Tied`), and in the other listings
  an order of equal times that Exchange changes between the pages (`reordered`).

Open for further work: the theorems that assume `~StoreFaults` (`ReadyServes`,
`LinksHold`, `TurnedAway`) in a form that holds with failing transactions, which has
to exclude a sweep that is rolled back after it has unlinked; and the messages
of a batch item by item.
