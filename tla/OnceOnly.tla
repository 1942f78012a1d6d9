------------------------------ MODULE OnceOnly ------------------------------
(***************************************************************************)
(* What preview/confirm promises for a write with one effect: an intent (a *)
(* previewed operation, or all operations of one idempotency key in one    *)
(* mailbox) is executed by one claim at a time, takes effect at most once, *)
(* may be executed again only if it certainly had no effect, and once its  *)
(* outcome is recorded or lost it is never executed again.                 *)
(***************************************************************************)
CONSTANTS
    Intents,    \* what callers want done once
    Effects     \* the effects an execution may have

VARIABLES
    phase,      \* [Intents -> open, running or settled]
    done        \* [Intents -> the set of effects that happened]

vars == <<phase, done>>

Init ==
    /\ phase = [i \in Intents |-> "open"]
    /\ done = [i \in Intents |-> {}]

(* A confirmation claims the intent.                                       *)
Begin(i) ==
    /\ phase[i] = "open"
    /\ phase' = [phase EXCEPT ![i] = "running"]
    /\ UNCHANGED done

(* The one effect.                                                         *)
Take(i, e) ==
    /\ phase[i] = "running"
    /\ done[i] = {}
    /\ done' = [done EXCEPT ![i] = {e}]
    /\ UNCHANGED phase

(* The outcome is recorded: done, or not known.                            *)
Settle(i) ==
    /\ phase[i] = "running"
    /\ phase' = [phase EXCEPT ![i] = "settled"]
    /\ UNCHANGED done

(* The execution was rejected without effect: it may be tried again.       *)
Release(i) ==
    /\ phase[i] = "running"
    /\ done[i] = {}
    /\ phase' = [phase EXCEPT ![i] = "open"]
    /\ UNCHANGED done

(* A restart settles intents whose operations it finds active.             *)
Interrupt ==
    /\ phase' \in [Intents -> {"open", "running", "settled"}]
    /\ \A i \in Intents : phase'[i] \in {phase[i], "settled"}
    /\ UNCHANGED done

Next ==
    \/ Interrupt
    \/ \E i \in Intents :
          \/ Begin(i) \/ Settle(i) \/ Release(i)
          \/ \E e \in Effects : Take(i, e)

Spec == Init /\ [][Next]_vars
=============================================================================
