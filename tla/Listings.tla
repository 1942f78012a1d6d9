----------------------------- MODULE Listings ------------------------------
(* An agent pages through a listing (find_message, list_tasks, list_events *)
(* or get_thread) by the offsets the tools return, while rows arrive and   *)
(* leave and calls fail.                                                   *)
EXTENDS Integers, FiniteSets, SequencesExt

CONSTANTS
    Rows,         \* numbers of the items a mailbox may hold
    Times,        \* their sent, received or due times
    Limit         \* page size

ASSUME ListingAssumption ==
    /\ Limit \in Nat \ {0} /\ Rows \subseteq Nat /\ Times \subseteq Int
    /\ IsFiniteSet(Rows)

VARIABLES
    tool,         \* what the agent uses
    box,          \* folder -> rows that match the request
    time,         \* row -> time
    offset,       \* next offset to ask for
    got,          \* rows the agent has received
    done,         \* the tool said that this was all
    covered,      \* every page covered both folders of a thread
    position,     \* row -> its place in Exchange's ascending order
    grown, shrunk, reordered,   \* rows arrived, left or changed places
                  \* since the first page (history)
    first         \* the rows that were there at the first page (history)

listVars == <<tool, box, time, offset, got, done, covered, position, grown,
              shrunk, reordered, first>>

Folders == {"inbox", "sent"}
ListTools == {"find_message", "list_tasks", "list_events", "get_thread"}
Descending == {"find_message", "list_tasks"}
AllRows == box["inbox"] \cup box["sent"]

(* Exchange sorts by the time alone; rows of equal time come in whatever   *)
(* order it has for them.                                                  *)
Placings ==
    {p \in [Rows -> Rows] :
        IsInjective(p) /\ \A a, b \in Rows : time[a] < time[b] => p[a] < p[b]}
ListedBefore(a, b) ==
    IF tool \in Descending THEN position[a] > position[b] ELSE position[a] < position[b]
ExchangeOrder(S) == CHOOSE s \in SetToSeqs(S) : IsSorted(s, ListedBefore)

(* get_thread sorts the rows of both folders by time and id.               *)
WrittenBefore(a, b) == time[a] < time[b] \/ (time[a] = time[b] /\ a < b)
ByTimeAndId(S) == CHOOSE s \in SetToSeqs(S) : IsSorted(s, WrittenBefore)

Slice(s, from, to) == SubSeq(s, from + 1, IF to < Len(s) THEN to ELSE Len(s))

(* A query returns its rows, or an exception somewhere among them.         *)
Trouble == 0
Answers(rows) == {rows} \cup {Append(SubSeq(rows, 1, k), Trouble) : k \in 0..(Len(rows) - 1)}

RaisesNever(rows) == FALSE
(* The lookahead row is checked like the others.                           *)
Raises(rows) == Trouble \in ToSet(rows)

WindowWithoutLookahead(t) == offset + Limit
(* list_events takes a page and hints at another one when it is full; the  *)
(* other listings take one row more.                                       *)
Window(t) == IF t = "list_events" THEN offset + Limit ELSE offset + Limit + 1

HasMore(t, rows) ==
    IF t = "list_events" THEN Len(rows) = Limit ELSE Len(rows) > Limit

ThreadWindowOfPage == Limit + 1
(* get_thread asks each folder for everything up to the page's lookahead.  *)
ThreadWindow == offset + Limit + 1

ListingInit ==
    /\ tool \in ListTools
    /\ time \in [Rows -> Times]
    /\ box = [f \in Folders |-> {}]
    /\ offset = 0 /\ got = <<>> /\ done = FALSE /\ covered = TRUE
    /\ position \in Placings
    /\ grown = FALSE /\ shrunk = FALSE /\ reordered = FALSE /\ first = {}

Deliver(page, more) ==
    /\ got' = got \o page
    /\ done' = ~more
    /\ offset' = IF more THEN offset + Limit ELSE offset
    /\ first' = IF offset = 0 THEN AllRows ELSE first
    /\ grown' = (offset # 0 /\ grown)
    /\ shrunk' = (offset # 0 /\ shrunk)
    /\ reordered' = (offset # 0 /\ reordered)
    /\ UNCHANGED <<tool, box, time, position>>

(* find_message, list_tasks, list_events: one folder.  A call that raises  *)
(* returns no page; the agent may call again.                              *)
Page ==
    /\ tool \in ListTools \ {"get_thread"} /\ ~done
    /\ \E rows \in Answers(Slice(ExchangeOrder(box["inbox"]), offset, Window(tool))) :
          /\ ~Raises(rows)
          /\ Deliver(Slice(rows, 0, Limit), HasMore(tool, rows))
    /\ UNCHANGED covered

(* get_thread: a folder that cannot be opened is left out and reported.    *)
ThreadPage ==
    /\ tool = "get_thread" /\ ~done
    /\ \E open \in SUBSET Folders \ {{}} :
          LET found == UNION {ToSet(Slice(ExchangeOrder(box[f]), 0, ThreadWindow)) :
                                 f \in open}
          IN  /\ Deliver(Slice(ByTimeAndId(found), offset, offset + Limit),
                         Cardinality(found) > offset + Limit)
              /\ covered' = (open = Folders /\ (offset = 0 \/ covered))

(* Mail arrives, tasks are created or reopened; rows of one folder may     *)
(* share their time.                                                       *)
Arrive ==
    /\ ~done
    /\ \E r \in Rows \ AllRows, f \in Folders :
          /\ tool # "get_thread" => f = "inbox"
          /\ box' = [box EXCEPT ![f] = @ \cup {r}]
    /\ grown' = TRUE
    /\ UNCHANGED <<tool, time, offset, got, done, covered, position, shrunk, reordered, first>>

(* Mail is moved or deleted, tasks are completed.                          *)
Leave ==
    /\ ~done /\ offset # 0
    /\ \E f \in Folders : \E r \in box[f] :
          box' = [box EXCEPT ![f] = @ \ {r}]
    /\ shrunk' = TRUE
    /\ UNCHANGED <<tool, time, offset, got, done, covered, position, grown, reordered, first>>

(* Exchange may give rows of equal time another order from now on.         *)
Reorder ==
    /\ ~done
    /\ position' \in Placings \ {position}
    /\ reordered' = TRUE
    /\ UNCHANGED <<tool, box, time, offset, got, done, covered, grown, shrunk, first>>

ListingNext == Page \/ ThreadPage \/ Arrive \/ Leave \/ Reorder

ListingSpec == ListingInit /\ [][ListingNext]_listVars

-----------------------------------------------------------------------------
(* Two rows of one folder share their time: Exchange's order among them    *)
(* and get_thread's order by id may then differ.                           *)
Tied == \E f \in Folders : \E a, b \in box[f] : a # b /\ time[a] = time[b]

(* What the listing asks of rows of equal time: a thread has none in one   *)
(* folder, and for the other tools Exchange kept the order of the first    *)
(* page.                                                                   *)
TiesSettled == IF tool = "get_thread" THEN ~Tied ELSE ~reordered

(* An agent that follows the offsets until the tool says that there is no  *)
(* more has received every row that was there from its first page on,      *)
(* although rows arrived meanwhile, calls failed, and the thread is merged *)
(* from two folders.  (Rows that leave shift the pages, and so do folders  *)
(* that are not covered and rows of equal time that change places.)        *)
NothingSkipped ==
    done /\ covered /\ ~shrunk /\ TiesSettled => first \subseteq ToSet(got)

(* While nothing changes the pages are the listing: every row once, in     *)
(* order.                                                                  *)
StillListingExact ==
    done /\ covered /\ ~shrunk /\ ~grown /\ TiesSettled =>
        got = IF tool = "get_thread" THEN ByTimeAndId(AllRows)
                                     ELSE ExchangeOrder(box["inbox"])
=============================================================================
