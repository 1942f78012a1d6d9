--------------------------- MODULE OperationStore ---------------------------
(***************************************************************************)
(* The SQLite receipt store of confirmation.py: one row per previewed      *)
(* write.  A row is spread over four variables because its columns have    *)
(* different lives: `info` never changes once the row is inserted,         *)
(* `status` and `result` are what UPDATE statements touch, and `created`   *)
(* is the order that ORDER BY created_at DESC, rowid DESC reads backwards. *)
(* created_at is taken before the store's lock, so that of two previews    *)
(* built at the same time either may come first, whichever is inserted     *)
(* first.                                                                  *)
(*                                                                         *)
(* Operation ids are members of Ops, handed out once each (uuid4).  A      *)
(* confirm token is as unguessable as its id and is not modelled apart     *)
(* from it: RunWrite says whether a caller presented the right one.        *)
(* Every statement runs under the store's RLock, so each is one step.      *)
(***************************************************************************)
EXTENDS Naturals, Sequences, FiniteSets

CONSTANTS
    Ops,        \* operation ids the store may hand out (a bound on previews)
    Tools,      \* write tools
    Mailboxes,  \* normalised mailboxes, the scope of an idempotency key
    Keys,       \* idempotency keys callers may choose
    NoKey,      \* the NULL idempotency key
    NoOp,       \* "no such row"
    Items       \* the items of one batch (message ids)

ASSUME ScopeAssumption == NoKey \notin Keys /\ NoOp \notin Ops

VARIABLES
    status,     \* [Ops -> status column, "absent" before the INSERT]
    result,     \* [Ops -> result_json column]
    info,       \* [Ops -> tool, mailbox and idempotency key, NoInfo before]
    created     \* sequence of the ids in the order of created_at

storeVars == <<status, result, info, created>>

Statuses == {"pending", "confirmed", "executing", "completed", "failed",
             "unknown", "partial"}

(* The statuses a claim accepts, and those that consume a key.             *)
Claimable == {"pending", "failed"}
Consumed  == Statuses \ Claimable

(* What result_json may hold: nothing, the failure record of a definite    *)
(* rejection or of an ambiguous error, a single tool's value, or a batch   *)
(* with the set of items whose row says success = False.                   *)
Results == [kind : {"none", "rejected", "ambiguous", "value"}, failed : {{}}]
           \cup [kind : {"batch"}, failed : SUBSET Items]
NoResult == [kind |-> "none", failed |-> {}]

Infos == [tool : Tools, mailbox : Mailboxes, key : Keys \cup {NoKey}]
NoInfo == [tool |-> NoKey, mailbox |-> NoKey, key |-> NoKey]

StoreInit ==
    /\ status = [o \in Ops |-> "absent"]
    /\ result = [o \in Ops |-> NoResult]
    /\ info = [o \in Ops |-> NoInfo]
    /\ created = <<>>

(* Every column holds a value of its type.                                 *)
StoreTypeOK ==
    /\ status \in [Ops -> Statuses \cup {"absent"}]
    /\ result \in [Ops -> Results]
    /\ info \in [Ops -> Infos \cup {NoInfo}]
    /\ created \in Seq(Ops)

Rows == {o \in Ops : status[o] # "absent"}

(* The other rows that carry the same key in the same mailbox.             *)
Siblings(o) ==
    {s \in Rows \ {o} : /\ info[o].key # NoKey
                        /\ info[s].key = info[o].key
                        /\ info[s].mailbox = info[o].mailbox}

KeyConsumed(o) == \E s \in Siblings(o) : status[s] \in Consumed

(* find_by_idempotency_key: the latest row of the key in the mailbox.      *)
Latest(mailbox, key) ==
    LET hits == {n \in DOMAIN created : /\ info[created[n]].key = key
                                        /\ info[created[n]].mailbox = mailbox}
    IN  IF hits = {} THEN NoOp
        ELSE created[CHOOSE n \in hits : \A m \in hits : m <= n]

-----------------------------------------------------------------------------
(* The order with o as its n-th row.                                       *)
CreatedWith(o, n) ==
    [m \in 1..(Len(created) + 1) |->
        IF m < n THEN created[m] ELSE IF m = n THEN o ELSE created[m - 1]]

(* create_preview: INSERT a pending row under a fresh id.  Its created_at  *)
(* is later than that of the rows that were there when the call began      *)
(* (`earlier`); the rows inserted since may have either order with it.     *)
Insert(o, row, earlier) ==
    /\ status[o] = "absent"
    /\ status' = [status EXCEPT ![o] = "pending"]
    /\ info' = [info EXCEPT ![o] = row]
    /\ \E n \in 1..(Len(created) + 1) :
          /\ \A m \in DOMAIN created : created[m] \in earlier => m < n
          /\ created' = CreatedWith(o, n)
    /\ UNCHANGED result

(* Mistakes begin_confirm's WHERE clause could contain, for the mutation   *)
(* checks: no NOT EXISTS clause; a status too many in the IN list.         *)
CanClaimIgnoringSiblings(o) == status[o] \in Claimable
CanClaimUnknown(o) == status[o] \in Claimable \cup {"unknown"} /\ ~KeyConsumed(o)
(* The WHERE clause of begin_confirm's UPDATE.                             *)
CanClaim(o) == status[o] \in Claimable /\ ~KeyConsumed(o)

(* begin_confirm when the conditional UPDATE changes one row.  result_json *)
(* is left as the previous attempt wrote it.                               *)
BeginConfirm(o) ==
    /\ CanClaim(o)
    /\ status' = [status EXCEPT ![o] = "executing"]
    /\ UNCHANGED <<result, info, created>>

(* mark: an UPDATE by id, whatever the row's status is.                    *)
Mark(o, newStatus, newResult) ==
    /\ status' = [status EXCEPT ![o] = newStatus]
    /\ result' = [result EXCEPT ![o] = newResult]
    /\ UNCHANGED <<info, created>>

(* A mistaken migration that gives executing rows a second chance.         *)
MigrateExecutingToPending ==
    /\ status' = [o \in Ops |-> IF status[o] = "executing" THEN "pending"
                                ELSE status[o]]
    /\ UNCHANGED <<result, info, created>>

(* migrate_active_to_unknown, run by the constructor at every start.       *)
MigrateActiveToUnknown ==
    /\ status' = [o \in Ops |->
                    IF status[o] \in {"pending", "confirmed", "executing"}
                    THEN "unknown" ELSE status[o]]
    /\ UNCHANGED <<result, info, created>>
=============================================================================
