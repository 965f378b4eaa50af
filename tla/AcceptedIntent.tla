--------------------------- MODULE AcceptedIntent ---------------------------
(***************************************************************************)
(* What GRD promises about accepted Intent, with everything about Changes, *)
(* Versions, locks, retries and restarts left out.                         *)
(*                                                                         *)
(* Accepted Intent is one ordered spine of contents.  To extend it GRD     *)
(* first decides, durably, on the one next content; then moves the trunk   *)
(* ref from the content of the newest Intent to the decided one; and only  *)
(* then accepts the decided content as the newest Intent.  Another writer  *)
(* of the trunk ref (`foreign') may interfere at any time: GRD never       *)
(* overwrites what it finds there.                                         *)
(***************************************************************************)
EXTENDS Naturals, Sequences

CONSTANTS
    Content,         \* content references of the engine
    InitialContent   \* what trunk held when the repository was bootstrapped

VARIABLES
    spine,      \* the contents of the accepted Intents, oldest first
    decided,    \* the content decided on and not yet accepted: at most one
    trunk,      \* the content the trunk ref names
    foreign     \* how often anyone but GRD has moved trunk

vars == <<spine, decided, trunk, foreign>>

Newest == spine[Len(spine)]

Init ==
    /\ spine = <<InitialContent>>
    /\ decided = {}
    /\ trunk = InitialContent
    /\ foreign = 0

(* GRD commits to the next content.  One decision is open at a time. *)
Decide(c) ==
    /\ decided = {}
    /\ decided' = {c}
    /\ UNCHANGED <<spine, trunk, foreign>>

(* The trunk ref moves from the newest accepted content to the decided one. *)
Project(c) ==
    /\ c \in decided
    /\ trunk = Newest
    /\ trunk' = c
    /\ UNCHANGED <<spine, decided, foreign>>

(* The decided content becomes the newest Intent.  Trunk shows it, unless    *)
(* a foreign writer moved trunk meanwhile.                                   *)
Accept(c) ==
    /\ c \in decided
    /\ trunk = c \/ foreign > 0
    /\ spine' = Append(spine, c)
    /\ decided' = {}
    /\ UNCHANGED <<trunk, foreign>>

Interfere(c) ==
    /\ trunk' = c
    /\ foreign' = foreign + 1
    /\ UNCHANGED <<spine, decided>>

Next ==
    \E c \in Content :
        \/ Decide(c)
        \/ Project(c)
        \/ Accept(c)
        \/ Interfere(c)

Spec == Init /\ [][Next]_vars
=============================================================================
