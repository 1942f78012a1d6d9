--------------------------- MODULE SourceCoverage ---------------------------
(* Tools that ask several sources and answer with what they got: the       *)
(* address list and the contacts (find_people), the two folders of a       *)
(* conversation (get_thread), every folder (list_folders).  A source that  *)
(* fails is reported in `coverage` and makes the answer `partial`.         *)
EXTENDS Naturals, SequencesExt

CONSTANT MaxRows  \* rows asked of one source

ASSUME CoverageAssumption == MaxRows \in Nat

VARIABLES
    asking,       \* the tool of the call
    pending,      \* sources still to be asked, in order
    stock,        \* per source: how many rows it has
    dropped,      \* rows of the address list that came as errors (history)
    coverage,     \* per asked source: its status
    items,        \* rows of the answer: <<source, number>>
    answered      \* "no", "yes", "raised"

coverageVars == <<asking, pending, stock, dropped, coverage, items, answered>>

TOOL_FOLDERS == <<"inbox", "drafts", "sent", "calendar", "contacts", "tasks">>

SourceLists ==
    [find_people  |-> {<<"gal", "contacts">>, <<"gal">>, <<"contacts">>},
     get_thread   |-> {<<"inbox", "sent">>},
     list_folders |-> {TOOL_FOLDERS}]
Sources == {"gal"} \cup ToSet(TOOL_FOLDERS)

(* _denied and _folder_coverage: by the name of the exception.             *)
Failures == {"denied", "unreachable"}

(* A listed folder is one row.                                             *)
CoverageInit ==
    /\ asking \in DOMAIN SourceLists
    /\ pending \in SourceLists[asking]
    /\ stock \in [Sources -> 0 .. MaxRows + 1]
    /\ \A s \in Sources : s \notin ToSet(pending) => stock[s] = 0
    /\ asking = "list_folders" => \A s \in ToSet(pending) : stock[s] = 1
    /\ dropped = 0 /\ coverage = <<>> /\ items = {} /\ answered = "no"

Asked(s, status, n) ==
    /\ coverage' = [c \in DOMAIN coverage \cup {s} |-> IF c = s THEN status ELSE coverage[c]]
    /\ items' = items \cup ({s} \X (1 .. n))
    /\ pending' = Tail(pending)
    /\ UNCHANGED <<asking, stock>>

Asks == answered = "no" /\ pending # <<>>
FirstRows(n) == IF n < MaxRows THEN n ELSE MaxRows
Shown(s) == FirstRows(IF s = "gal" THEN stock[s] - dropped ELSE stock[s])

(* The source itself fails: no folder, no answer to ResolveNames.          *)
SourceFails ==
    /\ Asks
    /\ \E status \in Failures :
          Asked(Head(pending), status, IF asking = "list_folders" THEN 1 ELSE 0)
    /\ UNCHANGED <<dropped, answered>>

SourceAnswers ==
    /\ Asks /\ Head(pending) # "gal"
    /\ Asked(Head(pending), "ok", Shown(Head(pending)))
    /\ UNCHANGED <<dropped, answered>>

(* _resolve_directory keeps the entries that are rows: one that Exchange   *)
(* returns as an exception is dropped, and the source is "ok" all the same.*)
AddressListAnswers ==
    /\ Asks /\ Head(pending) = "gal"
    /\ \E lost \in 0 .. stock["gal"] :
          /\ dropped' = lost
          /\ Asked("gal", "ok", FirstRows(stock["gal"] - lost))
    /\ UNCHANGED answered

InterruptedKeepingOk(n, status) == Asked(Head(pending), "ok", n)
(* find_people notes "ok" before it reads the rows and corrects it.        *)
Interrupted(n, status) == Asked(Head(pending), status, n)

(* Exchange fails while rows are read: get_thread raises, find_people      *)
(* keeps what it has.  (The address list comes in one answer.)             *)
RowsFail ==
    /\ Asks /\ asking # "list_folders" /\ Head(pending) # "gal"
    /\ UNCHANGED dropped
    /\ IF asking = "get_thread"
       THEN answered' = "raised" /\ UNCHANGED <<asking, pending, stock, coverage, items>>
       ELSE /\ \E n \in 0 .. Shown(Head(pending)), status \in Failures :
                  Interrupted(n, status)
            /\ UNCHANGED answered

Covered == {s \in DOMAIN coverage : coverage[s] = "ok"}

(* THREAD_FOLDERS_UNAVAILABLE, or the answer.                              *)
Answer ==
    /\ answered = "no" /\ pending = <<>>
    /\ answered' = IF asking = "get_thread" /\ Covered = {} THEN "raised" ELSE "yes"
    /\ UNCHANGED <<asking, pending, stock, dropped, coverage, items>>

CoverageNext ==
    SourceFails \/ SourceAnswers \/ AddressListAnswers \/ RowsFail \/ Answer

CoverageSpec == CoverageInit /\ [][CoverageNext]_coverageVars

partial == Covered # DOMAIN coverage

-----------------------------------------------------------------------------
(* An answer that does not call itself partial has every row that its      *)
(* sources have, up to the limit, and one that does names the sources that *)
(* may miss rows: what is absent from a covered source is not there, or is *)
(* one of the entries of the address list that were dropped as errors.     *)
AbsentMeansNotThere ==
    answered = "yes" =>
        \A s \in Sources : \A n \in 1 .. Shown(s) :
            <<s, n>> \notin items => partial /\ s \in DOMAIN coverage \ Covered
=============================================================================
