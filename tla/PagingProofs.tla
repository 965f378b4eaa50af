----------------------------- MODULE PagingProofs -----------------------------
(* What a reader of pending Requirements gets, whatever the repository does   *)
(* between two pages, for any limit on a page.                                *)
EXTENDS Paging, LineageProofs

-----------------------------------------------------------------------------
(* The order in which Requirements are listed.                               *)

Position == Nat \X Nat

UpTo(x, y) == x = y \/ Before(x, y)

LEMMA Ordered ==
    /\ \A x \in Position : ~Before(x, x)
    /\ \A x, y \in Position : x # y => Before(x, y) \/ Before(y, x)
    /\ \A x, y, z \in Position : Before(x, y) /\ Before(y, z) => Before(x, z)
<1>1. \A x \in Position : x[1] \in Nat /\ x[2] \in Nat /\ x = <<x[1], x[2]>>
    BY DEF Position
<1>2. \A x, y \in Position : x[1] = y[1] /\ x[2] = y[2] => x = y
    BY <1>1
<1>. QED
    BY <1>1, <1>2 DEF Before

(* A finite set of Requirements has a first and a last one.                  *)
LEMMA FirstAndLast ==
    ASSUME NEW S \in SUBSET Position, IsFiniteSet(S), S # {}
    PROVE  /\ \E x \in S : \A y \in S : UpTo(x, y)
           /\ \E x \in S : \A y \in S : UpTo(y, x)
<1>. DEFINE Up == {r \in S \X S : Before(r[1], r[2])}
            Back == {r \in S \X S : Before(r[2], r[1])}
<1>1. \A x, y \in S : /\ <<x, y>> \in Up <=> Before(x, y)
                      /\ <<x, y>> \in Back <=> Before(y, x)
    OBVIOUS
<1>. HIDE DEF Up, Back
<1>2. /\ \A x, y \in S : x # y => <<x, y>> \in Up \/ <<y, x>> \in Up
      /\ \A x, y, z \in S : <<x, y>> \in Up /\ <<y, z>> \in Up => <<x, z>> \in Up
    BY <1>1, Ordered
<1>3. /\ \A x, y \in S : x # y => <<x, y>> \in Back \/ <<y, x>> \in Back
      /\ \A x, y, z \in S : <<x, y>> \in Back /\ <<y, z>> \in Back => <<x, z>> \in Back
    BY <1>1, Ordered
<1>4. \E x \in S : \A y \in S : y = x \/ <<x, y>> \in Up
    BY <1>2, FirstOfFinite
<1>5. \E x \in S : \A y \in S : y = x \/ <<x, y>> \in Back
    BY <1>3, FirstOfFinite
<1>. QED
    BY <1>1, <1>4, <1>5 DEF UpTo

-----------------------------------------------------------------------------
(* The inductive invariant.                                                  *)

ReaderType == [at : {"reading", "done", "refused"}, assignee : Principals \cup {"nobody"},
               cursor : Position, pages : Seq(SUBSET Position), open : SUBSET Position]

Listed(r, x) == \E i \in DOMAIN x.pages : r \in x.pages[i]

(* Reading x has listed what waits up to its cursor, each Requirement once.  *)
ReadUpTo(x) ==
    /\ x.open \subseteq Pending(x.assignee)
    /\ Known(x.cursor, x.assignee)
    /\ \A i \in DOMAIN x.pages : \A r \in x.pages[i] : UpTo(r, x.cursor)
    /\ \A r \in x.open : UpTo(r, x.cursor) => Listed(r, x)

Reads(x) ==
    /\ x \in ReaderType
    /\ x.at # "refused"
    /\ x.at = "reading" => ReadUpTo(x)
    /\ x.at = "done" => \A r \in x.open : Listed(r, x)
    /\ \A i, j \in DOMAIN x.pages : i # j => x.pages[i] \cap x.pages[j] = {}

PInv ==
    /\ IInv
    /\ LInv
    /\ Reads(reader)

-----------------------------------------------------------------------------
(* What is listed.                                                           *)

LEMMA PendingPlaced ==
    ASSUME TypeOK, NEW a
    PROVE  /\ Pending(a) \subseteq Assigned(a)
           /\ Assigned(a) \subseteq Position
           /\ Start \notin Assigned(a)
           /\ \A x \in Assigned(a) : Before(Start, x)
           /\ IsFiniteSet(Pending(a))
<1>1. /\ Versions \subseteq 1 .. Len(pins) /\ Len(pins) \in Nat
      /\ DOMAIN evaluations \subseteq Versions
    BY Numbered DEF TypeOK
<1>2. /\ Pending(a) \subseteq Assigned(a)
      /\ Assigned(a) \subseteq (1 .. Len(pins)) \X Policies
    BY <1>1 DEF Pending, Assigned
<1>3. IsFiniteSet((1 .. Len(pins)) \X Policies)
    <2>1. IsFiniteSet(1 .. Len(pins)) /\ IsFiniteSet(Policies)
        BY <1>1, FS_Interval, PolicyOrderAssumption
    <2>. QED
        BY <2>1, FS_Product
<1>4. ASSUME NEW x \in Assigned(a)
      PROVE  x \in Position /\ Before(Start, x) /\ x # Start
    <2>1. x[1] \in 1 .. Len(pins) /\ x[2] \in Nat /\ x \in (1 .. Len(pins)) \X Policies
        BY <1>2, PolicyOrderAssumption
    <2>. QED
        BY <2>1, PolicyOrderAssumption DEF Position, Before, Start
<1>. QED
    BY <1>2, <1>3, <1>4, FS_Subset

(* The page that is cut from what is left to list.                           *)
PageOf(rest) == {x \in rest : Cardinality({y \in rest : Before(y, x)}) < Limit}

(* The page a reader gets: the first of the rest, up to the last of the page. *)
LEMMA PageFollows ==
    ASSUME NEW rest \in SUBSET Position, IsFiniteSet(rest), NEW page, page = PageOf(rest),
           rest # page, NEW c, c = NextCursor(page, rest)
    PROVE  /\ c \in page
           /\ \A x \in page : UpTo(x, c)
           /\ \A x \in rest : UpTo(x, c) => x \in page
<1>1. PICK first \in rest : \A y \in rest : UpTo(first, y)
    <2>1. rest # {}
        BY DEF PageOf
    <2>. QED
        BY <2>1, FirstAndLast
<1>2. first \in page
    <2>1. ASSUME NEW y \in rest, Before(y, first)
          PROVE  FALSE
        <3>1. UpTo(first, y) /\ first \in Position /\ y \in Position
            BY <1>1
        <3>. QED
            BY <2>1, <3>1, Ordered DEF UpTo
    <2>2. {y \in rest : Before(y, first)} = {}
        BY <2>1
    <2>. QED
        BY <2>2, FS_EmptySet, LimitAssumption DEF PageOf
<1>3. page \in SUBSET Position /\ IsFiniteSet(page) /\ page # {}
    BY <1>2, FS_Subset DEF PageOf
<1>4. PICK last \in page : \A y \in page : UpTo(y, last)
    BY <1>3, FirstAndLast
<1>5. c \in page /\ \A y \in page : UpTo(y, c)
    BY <1>4 DEF NextCursor, UpTo
<1>6. ASSUME NEW x \in rest, UpTo(x, c)
      PROVE  x \in page
    <2>1. {y \in rest : Before(y, x)} \subseteq {y \in rest : Before(y, c)}
        BY <1>3, <1>5, <1>6, Ordered DEF UpTo
    <2>2. IsFiniteSet({y \in rest : Before(y, c)})
        BY FS_Subset
    <2>3. /\ Cardinality({y \in rest : Before(y, x)}) <= Cardinality({y \in rest : Before(y, c)})
          /\ Cardinality({y \in rest : Before(y, x)}) \in Nat
          /\ Cardinality({y \in rest : Before(y, c)}) \in Nat
        BY <2>1, <2>2, FS_Subset, FS_CardinalityType
    <2>4. Cardinality({y \in rest : Before(y, c)}) < Limit
        BY <1>5 DEF PageOf
    <2>. QED
        BY <2>3, <2>4, LimitAssumption DEF PageOf
<1>. QED
    BY <1>5, <1>6

-----------------------------------------------------------------------------
(* The steps.                                                                *)

LEMMA NothingRead == Reads(NoReading)
<1>1. /\ NoReading.at = "done" /\ NoReading.pages = <<>> /\ NoReading.open = {}
      /\ NoReading \in ReaderType
    BY DEF NoReading, ReaderType, Position, Start
<1>. QED
    BY <1>1 DEF Reads

LEMMA Begins ==
    ASSUME TypeOK, NEW a \in Principals, BeginReading(a)
    PROVE  Reads(reader)'
<1>1. PICK y : y = [NoReading EXCEPT !.at = "reading", !.assignee = a, !.open = Pending(a)]
    OBVIOUS
<1>2. /\ y.at = "reading" /\ y.assignee = a /\ y.cursor = Start /\ y.pages = <<>>
      /\ y.open = Pending(a) /\ Pending(a) \in SUBSET Position
      /\ y \in ReaderType
    BY <1>1, NothingRead, PendingPlaced DEF NoReading, Reads, ReaderType
<1>3. ASSUME NEW r \in Pending(a)
      PROVE  ~UpTo(r, Start)
    <2>1. Before(Start, r) /\ r # Start /\ r \in Position /\ Start \in Position
        BY PendingPlaced DEF Start, Position
    <2>. QED
        BY <2>1, Ordered DEF UpTo
<1>4. Reads(y)
    BY <1>2, <1>3 DEF Reads, ReadUpTo, Known
<1>5. Pending(a)' = Pending(a) /\ Known(Start, a)' /\ reader' = y
    BY <1>1
    DEF BeginReading, vars, ledger, chronicle, changes, judgement, Pending, Assigned,
        Unresolved, Known
<1>6. Reads(y)'
    BY <1>2, <1>4, <1>5 DEF Reads, ReadUpTo
<1>. QED
    BY <1>5, <1>6 DEF Reads, ReadUpTo, Listed

(* One more page.                                                            *)
LEMMA OnePage ==
    ASSUME TypeOK, NEW x, Reads(x), x.at = "reading",
           NEW rest, rest = {r \in Pending(x.assignee) : Before(x.cursor, r)},
           NEW page, page = PageOf(rest),
           NEW y,
           y = IF ~Known(x.cursor, x.assignee) THEN [x EXCEPT !.at = "refused"]
               ELSE IF rest = page
               THEN [x EXCEPT !.at = "done", !.pages = Append(@, page)]
               ELSE [x EXCEPT !.cursor = NextCursor(page, rest), !.pages = Append(@, page)]
    PROVE  Reads(y)
<1>. DEFINE a == x.assignee
            last == Len(x.pages) + 1
<1>1. /\ x \in ReaderType /\ ReadUpTo(x)
      /\ x.pages \in Seq(SUBSET Position) /\ x.cursor \in Position /\ x.open \in SUBSET Position
    BY DEF Reads, ReaderType
<1>2. /\ rest \in SUBSET Position /\ IsFiniteSet(rest) /\ rest \subseteq Pending(a)
      /\ page \subseteq rest
    BY PendingPlaced, FS_Subset DEF PageOf
<1>3. PICK pages : pages = Append(x.pages, page)
    OBVIOUS
<1>4. /\ pages \in Seq(SUBSET Position)
      /\ DOMAIN pages = DOMAIN x.pages \cup {last} /\ last \notin DOMAIN x.pages
      /\ pages[last] = page
      /\ \A i \in DOMAIN x.pages : pages[i] = x.pages[i]
    <2>1. PICK p \in SUBSET Position : p = page
        BY <1>2
    <2>2. PICK s \in Seq(SUBSET Position) : s = x.pages
        BY <1>1
    <2>3. /\ Append(s, p) \in Seq(SUBSET Position)
          /\ DOMAIN Append(s, p) = DOMAIN s \cup {Len(s) + 1} /\ Len(s) + 1 \notin DOMAIN s
          /\ Append(s, p)[Len(s) + 1] = p
          /\ \A i \in DOMAIN s : Append(s, p)[i] = s[i]
        OBVIOUS
    <2>. QED
        BY <1>3, <2>1, <2>2, <2>3
<1>. HIDE DEF last
<1>5. \A i \in DOMAIN x.pages : x.pages[i] \subseteq Position
    BY <1>1
<1>6. ASSUME NEW i \in DOMAIN x.pages
      PROVE  x.pages[i] \cap page = {}
    <2>1. ASSUME NEW r \in x.pages[i], r \in page
          PROVE  FALSE
        <3>1. /\ UpTo(r, x.cursor) /\ Before(x.cursor, r)
              /\ r \in Position /\ x.cursor \in Position
            BY <1>1, <1>2, <1>5, <2>1 DEF ReadUpTo
        <3>. QED
            BY <3>1, Ordered DEF UpTo
    <2>. QED
        BY <2>1
<1>7. ASSUME NEW i \in DOMAIN pages, NEW j \in DOMAIN pages, i # j
      PROVE  pages[i] \cap pages[j] = {}
    <2>1. CASE i = last
        BY <1>4, <1>6, <1>7, <2>1
    <2>2. CASE j = last
        BY <1>4, <1>6, <1>7, <2>2
    <2>3. CASE i # last /\ j # last
        BY <1>4, <1>7, <2>3 DEF Reads
    <2>. QED
        BY <2>1, <2>2, <2>3
<1>8. ASSUME NEW r \in x.open
      PROVE  \/ \E i \in DOMAIN x.pages : r \in pages[i]
             \/ r \in rest
    <2>1. r \in Position /\ r \in Pending(a)
        BY <1>1, <1>8 DEF ReadUpTo
    <2>2. CASE UpTo(r, x.cursor)
        BY <1>1, <1>4, <1>8, <2>2 DEF ReadUpTo, Listed
    <2>3. CASE ~UpTo(r, x.cursor)
        BY <1>1, <2>1, <2>3, Ordered DEF UpTo
    <2>. QED
        BY <2>2, <2>3
<1>9. Known(x.cursor, a)
    BY <1>1 DEF ReadUpTo
<1>10. CASE rest = page
    <2>1. y = [x EXCEPT !.at = "done", !.pages = pages]
        BY <1>3, <1>9, <1>10
    <2>2. y.at = "done" /\ y.pages = pages /\ y.open = x.open /\ y \in ReaderType
        BY <1>1, <1>4, <2>1 DEF ReaderType
    <2>3. \A r \in y.open : Listed(r, y)
        BY <1>4, <1>8, <1>10, <2>2 DEF Listed
    <2>. QED
        BY <1>7, <2>2, <2>3 DEF Reads
<1>11. CASE rest # page
    <2>1. PICK c : c = NextCursor(page, rest)
        OBVIOUS
    <2>2. /\ c \in page /\ c \in Position
          /\ \A r \in page : UpTo(r, c)
          /\ \A r \in rest : UpTo(r, c) => r \in page
        <3>1. page = PageOf(rest) /\ rest \in SUBSET Position /\ IsFiniteSet(rest)
            BY <1>2
        <3>2. /\ c \in page
              /\ \A r \in page : UpTo(r, c)
              /\ \A r \in rest : UpTo(r, c) => r \in page
            BY <1>11, <2>1, <3>1, PageFollows
        <3>. QED
            BY <1>2, <3>2
    <2>3. y = [x EXCEPT !.cursor = c, !.pages = pages]
        BY <1>3, <1>9, <1>11, <2>1
    <2>4. /\ y.at = "reading" /\ y.pages = pages /\ y.open = x.open /\ y.cursor = c
          /\ y.assignee = a /\ y \in ReaderType
        BY <1>1, <1>4, <2>2, <2>3 DEF ReaderType
    <2>5. Known(c, a)
        BY <1>2, <2>2, PendingPlaced DEF Known
    <2>6. ASSUME NEW i \in DOMAIN pages, NEW r \in pages[i]
          PROVE  UpTo(r, c)
        <3>1. CASE i = last
            BY <1>4, <2>2, <2>6, <3>1
        <3>2. CASE i \in DOMAIN x.pages
            <4>1. UpTo(r, x.cursor) /\ r \in Position /\ x.cursor \in Position
                BY <1>1, <1>4, <1>5, <2>6, <3>2 DEF ReadUpTo
            <4>2. Before(x.cursor, c)
                BY <1>2, <2>2
            <4>. QED
                BY <2>2, <4>1, <4>2, Ordered DEF UpTo
        <3>. QED
            BY <1>4, <3>1, <3>2
    <2>7. ASSUME NEW r \in x.open, UpTo(r, c)
          PROVE  Listed(r, y)
        BY <1>4, <1>8, <2>2, <2>4, <2>7 DEF Listed
    <2>8. x.open \subseteq Pending(a)
        BY <1>1 DEF ReadUpTo
    <2>9. ReadUpTo(y)
        BY <2>4, <2>5, <2>6, <2>7, <2>8 DEF ReadUpTo
    <2>. QED
        BY <1>7, <2>4, <2>9 DEF Reads
<1>. QED
    BY <1>10, <1>11

LEMMA PageRead ==
    ASSUME TypeOK, Reads(reader), PendingRequirements
    PROVE  Reads(reader)'
<1>1. PICK x : x = reader
    OBVIOUS
<1>2. PICK rest : rest = {r \in Pending(x.assignee) : Before(x.cursor, r)}
    OBVIOUS
<1>3. PICK page : page = PageOf(rest)
    OBVIOUS
<1>4. PICK y : y = reader'
    OBVIOUS
<1>5. /\ x.at = "reading"
      /\ y = IF ~Known(x.cursor, x.assignee) THEN [x EXCEPT !.at = "refused"]
             ELSE IF rest = page
             THEN [x EXCEPT !.at = "done", !.pages = Append(@, page)]
             ELSE [x EXCEPT !.cursor = NextCursor(page, rest), !.pages = Append(@, page)]
    BY <1>1, <1>2, <1>3, <1>4 DEF PendingRequirements, PageOf
<1>6. Reads(x)
    BY <1>1
<1>7. Reads(y)
    BY <1>2, <1>3, <1>5, <1>6, OnePage
<1>8. \A a : Pending(a)' = Pending(a) /\ Assigned(a)' = Assigned(a)
    BY DEF PendingRequirements, vars, ledger, chronicle, changes, judgement, Pending, Assigned,
           Unresolved
<1>9. Reads(y)'
    BY <1>7, <1>8 DEF Reads, ReadUpTo, Known
<1>. QED
    BY <1>4, <1>9 DEF Reads, ReadUpTo, Listed

(* Between two pages.                                                        *)
LEMMA OthersStep ==
    ASSUME TypeOK, Kept, Reads(reader), StillOpen
    PROVE  Reads(reader)'
<1>1. PICK x : x = reader /\ Reads(x)
    OBVIOUS
<1>2. PICK y : y = reader'
    OBVIOUS
<1>3. CASE x.at # "reading"
    <2>1. y = NoReading
        BY <1>1, <1>2, <1>3 DEF StillOpen
    <2>2. Reads(y)'
        BY <2>1, NothingRead DEF Reads, NoReading
    <2>. QED
        BY <1>2, <2>2 DEF Reads, ReadUpTo, Listed
<1>4. CASE x.at = "reading"
    <2>. DEFINE a == x.assignee
    <2>1. PICK open : open = x.open \cap Pending(a)'
        OBVIOUS
    <2>2. y = [x EXCEPT !.open = open]
        BY <1>1, <1>2, <1>4, <2>1 DEF StillOpen
    <2>3. x \in ReaderType /\ ReadUpTo(x)
        BY <1>1, <1>4 DEF Reads
    <2>4. /\ y.at = "reading" /\ y.assignee = a /\ y.cursor = x.cursor /\ y.pages = x.pages
          /\ y.open = open /\ y \in ReaderType
        BY <1>4, <2>1, <2>2, <2>3 DEF ReaderType
    <2>5. Known(x.cursor, a)'
        BY <2>3 DEF ReadUpTo, Known, Assigned, Kept
    <2>6. \A r : Listed(r, y) <=> Listed(r, x)
        BY <2>4 DEF Listed
    <2>7. ReadUpTo(y)'
        BY <2>1, <2>3, <2>4, <2>5, <2>6 DEF ReadUpTo
    <2>8. Reads(y)'
        BY <1>1, <2>4, <2>7 DEF Reads
    <2>. QED
        BY <1>2, <2>8 DEF Reads, ReadUpTo, Listed
<1>. QED
    BY <1>3, <1>4

-----------------------------------------------------------------------------
(* Theorems.                                                                 *)

(* Every step is one of the repository, or leaves it alone.                  *)
LEMMA PagingSteps == [PagingNext]_pagingVars => [Next]_vars
    BY DEF PagingNext, BeginReading, PendingRequirements, pagingVars

(* The invariant holds before anything is read.                              *)
LEMMA PInvInit ==
    ASSUME PagingInit
    PROVE  PInv
    BY IInvInit, LInvInit, NothingRead DEF PagingInit, PInv

(* Every step preserves the invariant.                                       *)
LEMMA PInvStep ==
    ASSUME PInv, [PagingNext]_pagingVars
    PROVE  PInv'
<1>1. TypeOK /\ Protocol /\ DraftFresh
    BY DEF PInv, IInv, Protocol
<1>2. [Next]_vars
    BY PagingSteps
<1>3. IInv' /\ LInv'
    BY <1>2, IInvStep, LInvStep DEF PInv
<1>4. Kept
    BY <1>1, <1>2, RecordsKept
<1>5. CASE UNCHANGED pagingVars
    <2>1. PICK x : x = reader
        OBVIOUS
    <2>2. \A a : Pending(a)' = Pending(a) /\ Assigned(a)' = Assigned(a)
        BY <1>5
        DEF pagingVars, vars, ledger, chronicle, changes, judgement, Pending, Assigned, Unresolved
    <2>3. Reads(x)'
        BY <2>1, <2>2 DEF PInv, Reads, ReadUpTo, Known
    <2>4. reader' = x
        BY <1>5, <2>1 DEF pagingVars
    <2>. QED
        BY <1>3, <2>3, <2>4 DEF PInv, Reads, ReadUpTo, Listed
<1>. QED
    BY <1>1, <1>3, <1>4, <1>5, Begins, PageRead, OthersStep DEF PagingNext, PInv

(* At any moment the reader has listed exactly what still waits up to its    *)
(* cursor, each Requirement once.                                            *)
THEOREM ReadingInductive == PagingSpec => []PInv
<1>1. PagingInit => PInv
    BY PInvInit
<1>2. PInv /\ [PagingNext]_pagingVars => PInv'
    BY PInvStep
<1>. QED
    BY <1>1, <1>2, PTL DEF PagingSpec

(* Reading changes nothing: whatever is proved of the repository holds while *)
(* Requirements are read.                                                    *)
THEOREM ReadersHarmless == PagingSpec => Spec
<1>1. PagingInit => Init
    BY DEF PagingInit
<1>. QED
    BY <1>1, PagingSteps, PTL DEF PagingSpec, Spec

(* Nothing that happens between two pages makes the cursor unknown.          *)
THEOREM CursorsStayGood == PagingSpec => []CursorStaysGood
<1>1. PInv => CursorStaysGood
    BY DEF PInv, Reads, CursorStaysGood
<1>. QED
    BY <1>1, ReadingInductive, PTL

(* No Requirement is listed twice, and what waited all the time is listed.   *)
THEOREM NothingMissed == PagingSpec => []NothingMissedOrRepeated
<1>1. PInv => NothingMissedOrRepeated
    BY DEF PInv, Reads, Listed, NothingMissedOrRepeated
<1>. QED
    BY <1>1, ReadingInductive, PTL
=============================================================================
