-------------------------- MODULE TeamDirectories --------------------------
(* Contacts in a team directory that an administrator re-configures while  *)
(* calls are under way.  The configuration names the target (mailbox,      *)
(* folder, parent and class of the folder) and the members; every call     *)
(* reads it anew.  create_contact is previewed and confirmed (RunWrite has *)
(* the engine), find_people and get_contact read.                          *)
EXTENDS Naturals

CONSTANTS
    Ops,          \* operations; find_people and get_contact use one per call
    Employees,
    Targets,      \* verified targets an administrator may configure
    Absent        \* no target

ASSUME DirectoryAssumption == Absent \notin Targets

VARIABLES
    directory,    \* [target, members] under the directory's id in the
                  \*   configuration; target is Absent when the id is unknown
    sound,        \* targets whose folder is at Exchange as configured
    kind,         \* per operation: "create", "find" or "none"
    by,           \*   the employee
    row,          \*   status of the operation's row
    at,           \*   program counter
    spec,         \*   the TeamDirectory a call holds, by its target
    previewed,    \*   details.target of the row: spec.identity()
    written,      \*   where the contact was created
    disclosed,    \*   whose contacts the call returned
    granted       \*   what the employee was entitled to since the call began
                  \*   (history; no action reads it)

calls == <<kind, by, row, at, spec, previewed, written, disclosed>>
dirVars == <<directory, sound, granted, calls>>

Directories == [target : Targets \cup {Absent}, members : SUBSET Employees]

Entitled(e, d) == IF e \in d.members THEN {d.target} \ {Absent} ELSE {}

DirectoryInit ==
    /\ directory \in Directories
    /\ sound \in SUBSET Targets
    /\ kind = [o \in Ops |-> "none"]
    /\ by \in [Ops -> Employees]
    /\ row = [o \in Ops |-> "none"]
    /\ at = [o \in Ops |-> "idle"]
    /\ spec = [o \in Ops |-> Absent]
    /\ previewed = [o \in Ops |-> Absent]
    /\ written = [o \in Ops |-> Absent]
    /\ disclosed = [o \in Ops |-> Absent]
    /\ granted = [o \in Ops |-> {}]

Goto(o, where) == at' = [at EXCEPT ![o] = where]
BeginCall(o, where) ==
    /\ Goto(o, where)
    /\ granted' = [granted EXCEPT ![o] = Entitled(by[o], directory)]
EndCall(o) ==
    /\ Goto(o, "idle")
    /\ spec' = [spec EXCEPT ![o] = Absent]

AuthorizedByName(o) == directory.target # Absent
(* get_directory and authorize.                                            *)
Authorized(o) == directory.target # Absent /\ by[o] \in directory.members

(* The first call of an operation: preview of create_contact, or a read.   *)
Ask(o, k) ==
    /\ at[o] = "idle" /\ kind[o] = "none"
    /\ kind' = [kind EXCEPT ![o] = k]
    /\ BeginCall(o, "open")
    /\ UNCHANGED <<directory, sound, by, row, spec, previewed, written, disclosed>>

(* _open_directory.                                                        *)
Open(o) ==
    /\ at[o] = "open"
    /\ \/ /\ Authorized(o)
          /\ spec' = [spec EXCEPT ![o] = directory.target]
          /\ Goto(o, "bind")
          /\ UNCHANGED kind
       \/ /\ ~Authorized(o)
          /\ kind' = [kind EXCEPT ![o] = "none"]
          /\ EndCall(o)
    /\ UNCHANGED <<directory, sound, granted, by, row, previewed, written, disclosed>>

(* Confirmation: _verified_directory_target reads the configuration again, *)
(* before Exchange is connected and the row claimed.                       *)
Confirm(o) ==
    /\ at[o] = "idle" /\ row[o] \in {"pending", "failed"}
    /\ BeginCall(o, "verify")
    /\ UNCHANGED <<directory, sound, kind, by, row, spec, previewed, written, disclosed>>

SameTargetAssumed(o) == TRUE
SameTarget(o) == previewed[o] = directory.target

Verify(o) ==
    /\ at[o] = "verify"
    /\ \/ /\ Authorized(o) /\ SameTarget(o)
          /\ spec' = [spec EXCEPT ![o] = directory.target]
          /\ Goto(o, "claim")
       \/ /\ ~(Authorized(o) /\ SameTarget(o))
          /\ EndCall(o)
    /\ UNCHANGED <<directory, sound, granted, kind, by, row, previewed, written, disclosed>>

(* Connecting fails and the row stays as it is, or the row is claimed.     *)
Claim(o) ==
    /\ at[o] = "claim"
    /\ \/ /\ row' = [row EXCEPT ![o] = "executing"]
          /\ Goto(o, "bind")
          /\ UNCHANGED spec
       \/ EndCall(o) /\ UNCHANGED row
    /\ UNCHANGED <<directory, sound, granted, kind, by, previewed, written, disclosed>>

(* _bind_directory: the folder exists, with the configured class and       *)
(* parent; then a preview is recorded, a confirmation goes on to save.     *)
Bind(o) ==
    /\ at[o] = "bind" /\ spec[o] \in sound
    /\ \/ /\ kind[o] = "find"
          /\ Goto(o, "fetch")
          /\ UNCHANGED <<row, spec, previewed>>
       \/ /\ kind[o] = "create" /\ row[o] = "none"
          /\ row' = [row EXCEPT ![o] = "pending"]
          /\ previewed' = [previewed EXCEPT ![o] = spec[o]]
          /\ EndCall(o)
       \/ /\ row[o] = "executing"
          /\ Goto(o, "save")
          /\ UNCHANGED <<row, spec, previewed>>
    /\ UNCHANGED <<directory, sound, granted, kind, by, written, disclosed>>

(* The folder is not the configured one, or Exchange fails.                *)
BindFails(o) ==
    /\ at[o] = "bind"
    /\ \E outcome \in {"failed", "unknown"} :
          row' = [row EXCEPT ![o] = IF @ = "executing" THEN outcome ELSE @]
    /\ kind' = [kind EXCEPT ![o] = IF row[o] = "executing" THEN @ ELSE "none"]
    /\ EndCall(o)
    /\ UNCHANGED <<directory, sound, granted, by, previewed, written, disclosed>>

TargetConfigured(o) == directory.target
(* The directory the contact is created in: directory_target, the one that *)
(* was verified, and not another look at the configuration.                *)
Target(o) == spec[o]

SaveOutcomesTrustingReceipt(created) == {"completed", "failed", "unknown"}
(* Status after save: the receipt of a created contact may be incomplete   *)
(* and its answer lost, Exchange may refuse or not answer.                 *)
SaveOutcomes(created) ==
    IF created THEN {"completed", "unknown"} ELSE {"failed", "unknown"}

Save(o) ==
    /\ at[o] = "save"
    /\ \E created \in BOOLEAN : \E outcome \in SaveOutcomes(created) :
          /\ written' = IF created THEN [written EXCEPT ![o] = Target(o)]
                                   ELSE written
          /\ row' = [row EXCEPT ![o] = outcome]
    /\ EndCall(o)
    /\ UNCHANGED <<directory, sound, granted, kind, by, previewed, disclosed>>

(* find_people, get_contact: rows of the directory's folder are returned,  *)
(* or reading them fails.                                                  *)
Fetch(o) ==
    /\ at[o] = "fetch"
    /\ \/ disclosed' = [disclosed EXCEPT ![o] = spec[o]] /\ UNCHANGED kind
       \/ kind' = [kind EXCEPT ![o] = "none"] /\ UNCHANGED disclosed
    /\ EndCall(o)
    /\ UNCHANGED <<directory, sound, granted, by, row, previewed, written>>

(* The administrator changes target or members, in any order with calls.   *)
Reconfigure ==
    /\ directory' \in Directories \ {directory}
    /\ granted' = [o \in Ops |-> granted[o] \cup Entitled(by[o], directory')]
    /\ UNCHANGED <<sound, calls>>

(* Folders are moved, removed or restored at Exchange.                     *)
Refile ==
    /\ sound' \in SUBSET Targets \ {sound}
    /\ UNCHANGED <<directory, granted, calls>>

DirectoryNext ==
    \/ \E o \in Ops :
          \/ \E k \in {"create", "find"} : Ask(o, k)
          \/ Open(o) \/ Confirm(o) \/ Verify(o) \/ Claim(o)
          \/ Bind(o) \/ BindFails(o) \/ Save(o) \/ Fetch(o)
    \/ Reconfigure \/ Refile

DirectorySpec == DirectoryInit /\ [][DirectoryNext]_dirVars

-----------------------------------------------------------------------------
DirectoryTypeOK ==
    /\ directory \in Directories
    /\ sound \in SUBSET Targets
    /\ kind \in [Ops -> {"none", "create", "find"}]
    /\ by \in [Ops -> Employees]
    /\ row \in [Ops -> {"none", "pending", "executing", "completed", "failed",
                        "unknown"}]
    /\ at \in [Ops -> {"idle", "open", "verify", "claim", "bind", "save", "fetch"}]
    /\ spec \in [Ops -> Targets \cup {Absent}]
    /\ previewed \in [Ops -> Targets \cup {Absent}]
    /\ written \in [Ops -> Targets \cup {Absent}]
    /\ disclosed \in [Ops -> Targets \cup {Absent}]
    /\ granted \in [Ops -> SUBSET Targets]
    /\ \A o \in Ops : at[o] = "idle" => spec[o] = Absent

(* A contact is created in the target its preview named, however the       *)
(* directory is re-pointed between the calls and during the confirmation.  *)
ContactGoesWherePreviewed ==
    \A o \in Ops : written[o] # Absent => written[o] = previewed[o]

(* Nothing is created in or read from a target unless, at some moment of   *)
(* the very call that does it, the directory pointed there and the         *)
(* employee was a member: the right to preview is no right to confirm.     *)
AccessGranted ==
    [][\A o \in Ops :
          /\ written'[o] # written[o] => written'[o] \in granted[o]
          /\ disclosed'[o] # disclosed[o] => disclosed'[o] \in granted[o]]_dirVars

(* A row that may be confirmed again created no contact.                   *)
ClaimableRowsWroteNothing ==
    \A o \in Ops : row[o] \in {"pending", "failed"} => written[o] = Absent
=============================================================================
