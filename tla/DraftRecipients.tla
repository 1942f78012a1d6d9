-------------------------- MODULE DraftRecipients --------------------------
(* create_draft: from the recipients of the request and of the original    *)
(* message to those of the draft.  A list of recipients is a sequence of   *)
(* addresses, compared without regard to case.                             *)
EXTENDS SequencesExt

CONSTANTS
    Me,           \* the employee's address
    Lists,        \* recipient lists of requests and originals
    NoDraft       \* nothing created

Addresses == UNION {ToSet(l) : l \in Lists}
Fieldnames == {"to", "cc", "bcc"}

(* Lists are sequences, and no draft is none.                              *)
ASSUME RecipientAssumption ==
    /\ Lists \subseteq Seq(Addresses)
    /\ NoDraft \notin [Fieldnames -> Seq(Addresses)]

VARIABLE draft    \* the request and what became of it

(* The loop of _recipients and of _deduplicate: what was seen is left out. *)
Unseen(list, seen) ==
    FoldLeft(LAMBDA kept, a : IF a \in seen \/ Contains(kept, a) THEN kept
                                                                ELSE Append(kept, a),
             <<>>, list)

_recipients(list) == Unseen(list, {})

_deduplicatePerField(to, cc, bcc) ==
    [to |-> _recipients(to), cc |-> _recipients(cc), bcc |-> _recipients(bcc)]
(* An address stays in the first field that names it.                      *)
_deduplicate(to, cc, bcc) ==
    LET first == Unseen(to, {})
        second == Unseen(cc, ToSet(first))
    IN  [to |-> first, cc |-> second,
         bcc |-> Unseen(bcc, ToSet(first) \cup ToSet(second))]

NotMe(list) ==
    FoldLeft(LAMBDA kept, a : IF a = Me THEN kept ELSE Append(kept, a), <<>>, list)

ReplyTargets(o) == IF o.reply_to # <<>> THEN o.reply_to ELSE o.author

(* Fields the caller leaves empty are derived from the original.           *)
Fields(mode, r, o) ==
    [to |-> IF r.to # <<>> \/ mode \in {"new", "forward"} THEN r.to
            ELSE IF mode = "reply" THEN NotMe(ReplyTargets(o))
            ELSE NotMe(ReplyTargets(o) \o o.to),
     cc |-> IF r.cc # <<>> \/ mode # "reply_all" THEN r.cc ELSE NotMe(o.cc)]

create_draft(mode, request, o) ==
    LET r == [f \in Fieldnames |-> _recipients(request[f])]
        fields == Fields(mode, r, o)
        result == _deduplicate(fields.to, fields.cc, r.bcc)
    IN  IF /\ mode \in {"reply", "reply_all"}
           /\ result.to = <<>> /\ result.cc = <<>>
        THEN NoDraft   \* REPLY_RECIPIENT_REQUIRED
        ELSE result

DraftInit == draft = NoDraft

draftVars == <<draft>>

DraftNext ==
    /\ draft = NoDraft
    /\ \E mode \in {"new", "forward", "reply", "reply_all"} :
       \E request \in [Fieldnames -> Lists] :
       \E o \in [{"reply_to", "author", "to", "cc"} -> Lists] :
          /\ Len(o.author) <= 1
          /\ mode \in {"new", "forward"} => \A f \in DOMAIN o : o[f] = <<>>
          /\ draft' = [mode |-> mode, request |-> request, original |-> o,
                       result |-> create_draft(mode, request, o)]

DraftSpec == DraftInit /\ [][DraftNext]_draftVars

-----------------------------------------------------------------------------
(* A draft goes to whom the caller named and, where a reply leaves a field *)
(* empty, to those it answers: everybody named is addressed, nobody twice, *)
(* the employee only where the caller asked for it, nobody of the original *)
(* but its senders in a reply and its public recipients in a reply to all, *)
(* and nobody hidden but whom the caller hid.  A reply to nobody is no     *)
(* draft.                                                                  *)
RecipientsAsAsked ==
    draft # NoDraft =>
      LET r == draft.request
          o == draft.original
          all == draft.mode = "reply_all"
          senders == ToSet(ReplyTargets(o))
          named == ToSet(r.to) \cup ToSet(r.cc) \cup ToSet(r.bcc)
          answered ==
              IF draft.mode \in {"new", "forward"} THEN {}
              ELSE ((IF r.to = <<>> THEN senders \cup (IF all THEN ToSet(o.to) ELSE {})
                                    ELSE {})
                    \cup (IF r.cc = <<>> /\ all THEN ToSet(o.cc) ELSE {})) \ {Me}
      IN  IF draft.result = NoDraft
          THEN draft.mode \in {"reply", "reply_all"} /\ answered = {} /\ r.to = <<>> /\ r.cc = <<>>
          ELSE LET d == draft.result
               IN  /\ ToSet(d.to \o d.cc \o d.bcc) = named \cup answered
                   /\ IsInjective(d.to \o d.cc \o d.bcc)
                   /\ ToSet(d.bcc) \subseteq ToSet(r.bcc)
                   /\ ToSet(d.to) \subseteq IF r.to = <<>> THEN answered ELSE ToSet(r.to)
=============================================================================
