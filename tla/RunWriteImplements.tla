------------------------- MODULE RunWriteImplements -------------------------
(***************************************************************************)
(* RunWrite implements OnceOnly, for the operations of tools with a single *)
(* effect.  An intent is an operation without key, or a mailbox and key;   *)
(* its phase is read off the statuses of its rows, its effects off the     *)
(* ledger of Exchange.                                                     *)
(***************************************************************************)
EXTENDS RunWrite

IntentOf(o) == IF info[o].key = NoKey THEN <<o>>
               ELSE <<info[o].mailbox, info[o].key>>

AllIntents == {<<o>> : o \in Ops} \cup (Mailboxes \X Keys)

Members(i) == {o \in Ops : /\ status[o] # "absent"
                          /\ IsSingle(o)
                          /\ IntentOf(o) = i}

PhaseOf(i) ==
    LET statuses == {status[o] : o \in Members(i)}
    IN  IF "executing" \in statuses THEN "running"
        ELSE IF statuses \cap Consumed # {} THEN "settled"
        ELSE "open"

(* Every operation of the intent that took effect, with how often it did.  *)
DoneOf(i) == {<<o, applied[o][OneItem]>> : o \in {m \in Members(i) : Touched(m)}}

Once == INSTANCE OnceOnly WITH
            Intents <- AllIntents,
            Effects <- Ops \X {1},
            phase   <- [i \in AllIntents |-> PhaseOf(i)],
            done    <- [i \in AllIntents |-> DoneOf(i)]

(* Every step of every thread, of the clock and of a restart is a step of  *)
(* OnceOnly or changes none of its variables: the code of _run_write and   *)
(* begin_confirm keeps the promise of one effect per intent.               *)
ImplementsOnceOnly == Once!Spec
=============================================================================
