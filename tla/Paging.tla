------------------------------- MODULE Paging -------------------------------
(***************************************************************************)
(* A principal reads the Requirements that wait for it, page by page, while *)
(* the repository goes on: Evaluations and Responses are recorded, Versions *)
(* amended and promoted.  The server keeps nothing of a reader; the cursor  *)
(* of a page names the last Requirement of the page.                        *)
(***************************************************************************)
EXTENDS Repository

CONSTANT Limit   \* Requirements on a page

ASSUME LimitAssumption == Limit \in Nat \ {0}
(* In the order in which an Evaluation lists them.                           *)
ASSUME PolicyOrderAssumption == Policies \subseteq Nat /\ IsFiniteSet(Policies)

VARIABLE reader  \* [at, assignee, cursor, pages, open]

pagingVars == <<vars, reader>>

Start == <<0, 0>>   \* the empty cursor

(* Versions in the order recorded, the policies of each in their order.      *)
Before(x, y) == x[1] < y[1] \/ (x[1] = y[1] /\ x[2] < y[2])

(* Every Requirement an Evaluation ever made of the assignee.                *)
Assigned(assignee) ==
    {x \in (DOMAIN evaluations) \X Policies :
        /\ x[2] \in DOMAIN evaluations[x[1]].required
        /\ evaluations[x[1]].required[x[2]] = assignee}

(* Those that can still be answered, and are not.                            *)
Pending(assignee) ==
    {x \in Assigned(assignee) :
        /\ x[1] \in queue
        /\ evaluations[x[1]].governing = current
        /\ x[2] \in Unresolved(x[1])}

(* Mutant: a cursor is looked for among what is still to be answered.        *)
KnownIfPending(cursor, assignee) == cursor \in {Start} \cup Pending(assignee)

(* A cursor stays good when its Requirement is answered or its Version gone. *)
Known(cursor, assignee) == cursor \in {Start} \cup Assigned(assignee)

(* Mutant: the cursor names the first Requirement left out.                  *)
FirstLeftOut(page, rest) ==
    CHOOSE x \in rest \ page : \A y \in rest \ page : y = x \/ Before(x, y)

NextCursor(page, rest) == CHOOSE x \in page : \A y \in page : y = x \/ Before(y, x)

NoReading ==
    [at |-> "done", assignee |-> "nobody", cursor |-> Start, pages |-> <<>>, open |-> {}]

BeginReading(assignee) ==
    /\ reader.at # "reading"
    /\ reader' = [NoReading EXCEPT !.at = "reading", !.assignee = assignee,
                                   !.open = Pending(assignee)]
    /\ UNCHANGED vars

PendingRequirements ==
    LET rest == {x \in Pending(reader.assignee) : Before(reader.cursor, x)}
        page == {x \in rest : Cardinality({y \in rest : Before(y, x)}) < Limit}
    IN  /\ reader.at = "reading"
        /\ mode = "serving"
        /\ reader' =
             IF ~Known(reader.cursor, reader.assignee) THEN [reader EXCEPT !.at = "refused"]
             ELSE IF rest = page
             THEN [reader EXCEPT !.at = "done", !.pages = Append(@, page)]
             ELSE [reader EXCEPT !.cursor = NextCursor(page, rest), !.pages = Append(@, page)]
        /\ UNCHANGED vars

(* What has been waiting ever since the reading began (no state of the code).*)
StillOpen ==
    \E assignee \in {reader.assignee} :
        reader' = IF reader.at = "reading"
                  THEN [reader EXCEPT !.open = @ \cap Pending(assignee)']
                  ELSE NoReading

PagingInit == Init /\ reader = NoReading

PagingNext ==
    \/ \E a \in Principals : BeginReading(a)
    \/ PendingRequirements
    \/ Next /\ StillOpen

PagingSpec == PagingInit /\ [][PagingNext]_pagingVars

-----------------------------------------------------------------------------
(* Properties.                                                               *)

(* A reader may answer what a page lists before it asks for the next one:    *)
(* that the Requirement is answered, its Version amended, or the Intent      *)
(* replaced meanwhile does not spoil the cursor ("Requirement cursor does    *)
(* not identify this pending stream").                                       *)
CursorStaysGood == reader.at # "refused"

(* Whatever is recorded between two pages, no Requirement is listed twice,   *)
(* and one that waited for the reader all the time is listed.                *)
NothingMissedOrRepeated ==
    /\ \A i, j \in DOMAIN reader.pages :
           i # j => reader.pages[i] \cap reader.pages[j] = {}
    /\ reader.at = "done" =>
           \A x \in reader.open : \E i \in DOMAIN reader.pages : x \in reader.pages[i]
=============================================================================
