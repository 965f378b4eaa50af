----------------------------- MODULE DurableLog -----------------------------
(***************************************************************************)
(* What the decision journal promises to whoever records a fact in it: the *)
(* log only ever grows, every fact in its turn, and a fact acknowledged    *)
(* when it was recorded is in it.  Facts may also enter without anybody    *)
(* being told: the host ended before it answered, or the call failed after *)
(* all.  Who records a fact again may be told that it is recorded before   *)
(* it is in the log; it then enters with the next fact that does, unless   *)
(* the power fails first.                                                  *)
(***************************************************************************)
EXTENDS Naturals, Sequences

CONSTANTS
    Record,   \* the facts that may be recorded
    Needs     \* by fact: the facts that must be recorded before it

VARIABLES
    log,      \* the facts no failure takes back any more
    told,     \* the facts whose recording was acknowledged, in that order
    repeated  \* those acknowledged to who recorded them again

logVars == <<log, told, repeated>>

(* Every fact once, and after all it needs.                                  *)
InTurn(l) ==
    \A i \in DOMAIN l :
        /\ l[i] \in Record
        /\ \A j \in DOMAIN l : l[j] = l[i] => i = j
        /\ Needs[l[i]] \subseteq {l[j] : j \in 1 .. i - 1}

Init == log = <<>> /\ told = <<>> /\ repeated = {}

Grow ==
    /\ log' # log
    /\ InTurn(log')
    /\ log = SubSeq(log', 1, Len(log))

TakesIn == repeated \subseteq {log'[i] : i \in DOMAIN log'}

(* The caller of the newest fact learns that it is recorded.                 *)
Acknowledge ==
    /\ Grow /\ TakesIn
    /\ told' = Append(told, log'[Len(log')])
    /\ UNCHANGED repeated

Untold == Grow /\ TakesIn /\ UNCHANGED <<told, repeated>>

Repeat(r) ==
    /\ repeated' = repeated \cup {r}
    /\ UNCHANGED <<log, told>>

PowerFailure ==
    /\ Grow \/ UNCHANGED log
    /\ repeated' = {}
    /\ UNCHANGED told

Next ==
    \/ Acknowledge \/ Untold
    \/ \E r \in Record : Repeat(r)
    \/ PowerFailure

Spec == Init /\ [][Next]_logVars
=============================================================================
