----------------------------- MODULE RunnerProofs -----------------------------
(* The runners and their leases, for any number of runners, workers and items *)
(* and any options the code accepts: what a live lease guarantees, and how    *)
(* long a runner stays away from what failed.                                 *)
EXTENDS Runner, Induction

-----------------------------------------------------------------------------
(* The pause after a failure.                                                *)

LEMMA DoublesPause ==
    /\ Doubled \in [Nat -> Nat]
    /\ \A n \in Nat : Doubled[n] = IF n = 0 THEN RetryBackoff ELSE 2 * Doubled[n - 1]
<1>. DEFINE twice == [x \in Nat |-> 2 * x]
<1>1. RetryBackoff \in Nat /\ twice \in [Nat -> Nat]
    BY OptionAssumption
<1>2. PICK f \in [Nat -> Nat] :
          \A n \in Nat : f[n] = IF n = 0 THEN RetryBackoff ELSE twice[f[n - 1]]
    <2>. HIDE DEF twice
    <2>1. PICK N : N = Nat
        OBVIOUS
    <2>2. \E f \in [Nat -> N] :
             \A n \in Nat : f[n] = IF n = 0 THEN RetryBackoff ELSE twice[f[n - 1]]
        <3>1. RetryBackoff \in N /\ twice \in [N -> N]
            BY <1>1, <2>1
        <3>. QED
            BY <3>1, Iterates
    <2>. QED
        BY <2>1, <2>2
<1>3. f = [n \in Nat |-> IF n = 0 THEN RetryBackoff ELSE 2 * f[n - 1]]
    <2>1. ASSUME NEW n \in Nat
          PROVE  f[n] = IF n = 0 THEN RetryBackoff ELSE 2 * f[n - 1]
        <3>1. n # 0 => n - 1 \in Nat
            OBVIOUS
        <3>2. n # 0 => f[n - 1] \in Nat
            BY <3>1
        <3>. QED
            BY <1>2, <3>2
    <2>2. f = [n \in Nat |-> f[n]]
        OBVIOUS
    <2>. HIDE DEF twice
    <2>. QED
        BY <2>1, <2>2
<1>4. Doubled = [n \in Nat |-> IF n = 0 THEN RetryBackoff ELSE 2 * Doubled[n - 1]]
    BY <1>3 DEF Doubled
<1>5. \A n \in Nat : Doubled[n] = IF n = 0 THEN RetryBackoff ELSE 2 * Doubled[n - 1]
    BY <1>4
<1>6. \A n \in Nat : Doubled[n] \in Nat
    <2>. DEFINE S == {n \in Nat : Doubled[n] \in Nat}
    <2>1. 0 \in S
        BY <1>1, <1>5
    <2>2. ASSUME NEW n \in Nat, n \in S
          PROVE  n + 1 \in S
        <3>1. Doubled[n + 1] = 2 * Doubled[n]
            BY <1>5
        <3>. QED
            BY <2>2, <3>1
    <2>. HIDE DEF S
    <2>3. \A n \in Nat : n \in S
        BY <2>1, <2>2, SetInduction
    <2>. QED
        BY <2>3 DEF S
<1>. QED
    BY <1>4, <1>5, <1>6

(* The loop of noteFailure doubles the pause, and cuts it off exactly.       *)
LEMMA DelayDoubles ==
    ASSUME NEW n \in Nat \ {0}
    PROVE  /\ Delay(n) = Smaller(Doubled[n - 1], RetryMax)
           /\ Delay(n) \in 1 .. RetryMax
<1>. DEFINE next == [x \in Nat |-> IF x >= RetryMax THEN x
                                   ELSE IF x > RetryMax \div 2 THEN RetryMax ELSE 2 * x]
            Loop(g) == [k \in 1 .. n |->
                           IF k = 1 THEN RetryBackoff
                           ELSE IF g[k - 1] >= RetryMax THEN g[k - 1]
                           ELSE IF g[k - 1] > RetryMax \div 2 THEN RetryMax
                           ELSE 2 * g[k - 1]]
            delay == CHOOSE g : g = Loop(g)
<1>1. /\ RetryBackoff \in Nat \ {0} /\ RetryMax \in Nat \ {0} /\ RetryBackoff <= RetryMax
      /\ next \in [Nat -> Nat]
    BY OptionAssumption
<1>2. delay = Loop(delay)
    <2>1. PICK f \in [Nat -> Nat] :
              \A k \in Nat : f[k] = IF k = 0 THEN RetryBackoff ELSE next[f[k - 1]]
        <3>. HIDE DEF next
        <3>1. PICK N : N = Nat
            OBVIOUS
        <3>2. \E f \in [Nat -> N] :
                 \A k \in Nat : f[k] = IF k = 0 THEN RetryBackoff ELSE next[f[k - 1]]
            <4>1. RetryBackoff \in N /\ next \in [N -> N]
                BY <1>1, <3>1
            <4>. QED
                BY <4>1, Iterates
        <3>. QED
            BY <3>1, <3>2
    <2>. DEFINE g == [k \in 1 .. n |-> f[k - 1]]
    <2>2. ASSUME NEW k \in 1 .. n
          PROVE  g[k] = Loop(g)[k]
        <3>1. CASE k = 1
            <4>1. g[k] = f[k - 1] /\ k - 1 = 0
                BY <3>1
            <4>. HIDE DEF g, next
            <4>2. f[0] = RetryBackoff
                BY <2>1
            <4>. QED
                BY <3>1, <4>1, <4>2
        <3>2. CASE k # 1
            <4>1. /\ k - 1 \in 1 .. n /\ k - 1 \in Nat /\ k - 1 # 0
                  /\ (k - 1) - 1 \in Nat
                BY <3>2
            <4>2. /\ g[k] = next[g[k - 1]]
                  /\ g[k - 1] \in Nat
                BY <2>1, <4>1
            <4>. HIDE DEF g
            <4>3. PICK y \in Nat : y = g[k - 1]
                BY <4>2
            <4>4. next[y] = IF y >= RetryMax THEN y
                            ELSE IF y > RetryMax \div 2 THEN RetryMax ELSE 2 * y
                OBVIOUS
            <4>. HIDE DEF next
            <4>. QED
                BY <3>2, <4>2, <4>3, <4>4
        <3>. QED
            BY <3>1, <3>2
    <2>3. g = Loop(g)
        <3>1. g = [k \in 1 .. n |-> g[k]] /\ Loop(g) = [k \in 1 .. n |-> Loop(g)[k]]
            OBVIOUS
        <3>. HIDE DEF g, Loop
        <3>. QED
            BY <2>2, <3>1
    <2>. HIDE DEF g, Loop
    <2>. QED
        BY <2>3
<1>3. Delay(n) = Smaller(delay[n], RetryMax)
    BY DEF Delay
<1>. HIDE DEF delay, next
<1>4. \A m \in Nat : m + 1 \in 1 .. n => delay[m + 1] = Smaller(Doubled[m], RetryMax)
    <2>. DEFINE S == {m \in Nat : m + 1 \in 1 .. n =>
                                      delay[m + 1] = Smaller(Doubled[m], RetryMax)}
    <2>1. 0 \in S
        <3>1. 1 \in 1 .. n => delay[1] = RetryBackoff
            BY <1>2
        <3>. QED
            BY <1>1, <3>1, DoublesPause DEF Smaller
    <2>2. ASSUME NEW m \in Nat, m \in S
          PROVE  m + 1 \in S
        <3>1. SUFFICES ASSUME (m + 1) + 1 \in 1 .. n
                       PROVE  delay[(m + 1) + 1] = Smaller(Doubled[m + 1], RetryMax)
            OBVIOUS
        <3>2. PICK d : d = delay[m + 1] /\ d = Smaller(Doubled[m], RetryMax)
            BY <2>2, <3>1
        <3>3. PICK p \in Nat : p = Doubled[m] /\ Doubled[m + 1] = 2 * p
            BY DoublesPause
        <3>4. delay[(m + 1) + 1] = IF d >= RetryMax THEN d
                                   ELSE IF d > RetryMax \div 2 THEN RetryMax ELSE 2 * d
            <4>1. ((m + 1) + 1) - 1 = m + 1 /\ (m + 1) + 1 # 1
                OBVIOUS
            <4>. QED
                BY <1>2, <3>1, <3>2, <4>1
        <3>. QED
            BY <1>1, <3>2, <3>3, <3>4 DEF Smaller
    <2>. HIDE DEF S
    <2>3. \A m \in Nat : m \in S
        BY <2>1, <2>2, SetInduction
    <2>. QED
        BY <2>3 DEF S
<1>5. delay[n] = Smaller(Doubled[n - 1], RetryMax)
    <2>1. n - 1 \in Nat /\ (n - 1) + 1 = n /\ n \in 1 .. n
        OBVIOUS
    <2>. QED
        BY <1>4, <2>1
<1>6. Doubled[n - 1] \in Nat \ {0}
    <2>. DEFINE S == {m \in Nat : Doubled[m] \in Nat \ {0}}
    <2>1. 0 \in S
        BY <1>1, DoublesPause
    <2>2. ASSUME NEW m \in Nat, m \in S
          PROVE  m + 1 \in S
        <3>1. Doubled[m + 1] = 2 * Doubled[m]
            BY DoublesPause
        <3>. QED
            BY <2>2, <3>1
    <2>. HIDE DEF S
    <2>3. n - 1 \in S
        BY <2>1, <2>2, SetInduction
    <2>. QED
        BY <2>3 DEF S
<1>. QED
    BY <1>1, <1>3, <1>5, <1>6 DEF Smaller

-----------------------------------------------------------------------------
(* The inductive invariant.                                                  *)

LeaseType == [owner : Runner \cup {None}, generation : 0 .. Generations - 1,
              left : 0 .. LeaseTTL]
LoopType == [at : {"list", "hand", "sleep", "ended"}, cursor : 0 .. Items,
             page : SUBSET Item, next : 0 .. Items, wait : 0 .. PollInterval]
JobType == [at : {"none", "claim", "process", "release"},
            generation : 0 .. Generations - 1,
            due : 0 .. RenewInterval, late : 0 .. Lag, cancelled : BOOLEAN]
RetryType == [failures : 0 .. MaxFailures, wait : 0 .. RetryMax, forget : 0 .. 2 * RetryMax]

Typed ==
    /\ runnable \subseteq Item
    /\ lease \in [Item -> LeaseType]
    /\ generations \in [Item -> 0 .. Generations - 1]
    /\ loop \in [Runner -> LoopType]
    /\ job \in [Runner -> [Item -> JobType]]
    /\ retry \in [Runner -> [Item -> RetryType]]
    /\ stopping \subseteq Stoppable

(* A runner hands out no more than it has workers, and a loop that is not    *)
(* handing out waits for nobody.                                             *)
BusyFits ==
    \A r \in Runner :
        /\ Cardinality(Busy(r)) <= Workers
        /\ loop[r].at # "hand" => Busy(r) = {}

(* A worker that still renews either has the lease, with what is left of it  *)
(* since the last renewal, or is so late that the lease may have run out.    *)
Covered(r, i) ==
    /\ job[r][i].due > 0 => job[r][i].late = 0
    /\ \/ /\ OwnLease(r, i)
          /\ lease[i].left + RenewInterval + job[r][i].late >= LeaseTTL + job[r][i].due
       \/ job[r][i].due = 0 /\ RenewInterval + job[r][i].late >= LeaseTTL

LeasesCover == \A r \in Runner, i \in Item : Renewing(r, i) => Covered(r, i)

RInv ==
    /\ Typed
    /\ BusyFits
    /\ LeasesCover

-----------------------------------------------------------------------------
(* Facts about the constants and operators.                                  *)

LEMMA Options ==
    /\ Items \in Nat \ {0} /\ Workers \in Nat \ {0} /\ BatchSize \in Nat \ {0}
    /\ PollInterval \in Nat /\ LeaseTTL \in Nat \ {0} /\ RetryMax \in Nat \ {0}
    /\ MaxFailures \in Nat \ {0} /\ Generations \in Nat /\ Generations > 1 /\ Lag \in Nat
    /\ RenewInterval \in Nat /\ RenewInterval < LeaseTTL
<1>1. \A n \in Nat \ {0} : n \div 3 \in Nat /\ n \div 3 < n
    OBVIOUS
<1>. QED
    BY <1>1, OptionAssumption DEF RenewInterval

LEMMA Blank ==
    /\ NoLease \in LeaseType
    /\ NoJob \in JobType
    /\ NoRetry \in RetryType
    BY Options DEF NoLease, LeaseType, NoJob, JobType, NoRetry, RetryType

LEMMA LessDown ==
    ASSUME NEW n \in Nat, NEW a \in 0 .. n
    PROVE  Less(a) \in 0 .. n /\ (a > 0 => Less(a) = a - 1)
    BY DEF Less

(* One entry of a table changes.                                             *)
LEMMA Entry ==
    ASSUME NEW S, NEW T, NEW V, NEW f \in [S -> [T -> V]],
           NEW r \in S, NEW i \in T, NEW x
    PROVE  /\ x \in V => [f EXCEPT ![r][i] = x] \in [S -> [T -> V]]
           /\ \A s \in S, k \in T :
                 [f EXCEPT ![r][i] = x][s][k] = IF s = r /\ k = i THEN x ELSE f[s][k]
    OBVIOUS

(* What a page ends with is an item, when there is more to list.             *)
LEMMA PageEnds ==
    ASSUME runnable \subseteq Item, NEW after
    PROVE  /\ Page(after) \subseteq Item
           /\ Rest(after) # Page(after) => Last(Page(after)) \in Item
<1>1. Page(after) \subseteq Rest(after) /\ Rest(after) \subseteq Item
    BY DEF Page, Rest
<1>2. ASSUME Rest(after) # Page(after)
      PROVE  Last(Page(after)) \in Page(after)
    <2>1. Rest(after) \in SUBSET Nat /\ Rest(after) # {}
        BY <1>1, <1>2 DEF Item
    <2>2. PICK i \in Rest(after) : \A j \in Rest(after) : i <= j
        BY <2>1, LeastNatural
    <2>3. {j \in Rest(after) : j < i} = {}
        BY <2>1, <2>2
    <2>4. i \in Page(after)
        BY <2>3, FS_EmptySet, Options DEF Page
    <2>5. Page(after) \in SUBSET (0 .. Items)
        BY <1>1 DEF Item
    <2>6. \E n \in Page(after) : \A m \in Page(after) : m <= n
        BY <2>4, <2>5, GreatestBelow, Options
    <2>. QED
        BY <2>6 DEF Last
<1>. QED
    BY <1>1, <1>2

LEMMA FirstOfPage ==
    ASSUME NEW S \in SUBSET Item, S # {}
    PROVE  First(S) \in S
<1>1. S \in SUBSET Nat
    BY DEF Item
<1>2. \E i \in S : \A j \in S : i <= j
    BY <1>1, LeastNatural
<1>. QED
    BY <1>2 DEF First

-----------------------------------------------------------------------------
(* The types.                                                                *)

LEMMA LoopTyped ==
    ASSUME Typed, NEW r \in Runner, LoopStep(r)
    PROVE  Typed'
<1>. USE DEF store
<1>1. PICK l : l = loop[r] /\ l \in LoopType
    BY DEF Typed
<1>2. ASSUME NEW m \in LoopType, SetLoop(r, m)
      PROVE  loop' \in [Runner -> LoopType]
    BY <1>2 DEF SetLoop, Typed
<1>3. CASE List(r)
    <2>. DEFINE page == Page(l.cursor)
    <2>1. PICK next : next = IF Rest(l.cursor) = page THEN 0 ELSE Last(page)
        OBVIOUS
    <2>2. page \in SUBSET Item /\ next \in 0 .. Items
        BY <2>1, PageEnds, Options DEF Typed, Item
    <2>3. SetLoop(r, [l EXCEPT !.at = "hand", !.page = page, !.next = next])
        BY <1>1, <1>3, <2>1 DEF List
    <2>. HIDE DEF page
    <2>4. [l EXCEPT !.at = "hand", !.page = page, !.next = next] \in LoopType
        BY <1>1, <2>2 DEF LoopType
    <2>5. loop' \in [Runner -> LoopType]
        BY <1>2, <2>3, <2>4
    <2>6. retry' \in [Runner -> [Item -> RetryType]]
        <3>1. Pruned(retry[r]) \in [Item -> RetryType]
            BY Blank DEF Typed, Pruned
        <3>. QED
            BY <1>3, <3>1 DEF List, Typed
    <2>. QED
        BY <1>3, <2>5, <2>6 DEF List, Typed
<1>4. CASE ListFails(r) \/ NextPage(r) \/ Wake(r)
    <2>1. \E m \in LoopType : SetLoop(r, m)
        <3>1. 0 \in 0 .. Items /\ 0 \in 0 .. PollInterval /\ PollInterval \in 0 .. PollInterval
            BY Options
        <3>2. CASE ListFails(r)
            <4>1. [l EXCEPT !.at = "sleep", !.wait = PollInterval] \in LoopType
                BY <1>1, <3>1 DEF LoopType
            <4>. QED
                BY <1>1, <3>2, <4>1 DEF ListFails
        <3>3. CASE NextPage(r)
            <4>1. PICK at, wait : /\ at = IF l.next = 0 THEN "sleep" ELSE "list"
                                  /\ wait = IF l.next = 0 THEN PollInterval ELSE 0
                OBVIOUS
            <4>2. [l EXCEPT !.at = at, !.cursor = l.next, !.next = 0, !.wait = wait] \in LoopType
                <5>1. at \in {"list", "hand", "sleep", "ended"} /\ wait \in 0 .. PollInterval
                    BY <3>1, <4>1
                <5>. QED
                    BY <1>1, <3>1, <5>1 DEF LoopType
            <4>. QED
                BY <1>1, <3>3, <4>1, <4>2 DEF NextPage
        <3>4. CASE Wake(r)
            <4>1. [l EXCEPT !.at = "list"] \in LoopType
                BY <1>1 DEF LoopType
            <4>. QED
                BY <1>1, <3>4, <4>1 DEF Wake
        <3>. QED
            BY <1>4, <3>2, <3>3, <3>4
    <2>. QED
        BY <1>2, <1>4, <2>1 DEF ListFails, NextPage, Wake, Typed
<1>5. CASE Hand(r)
    <2>. DEFINE i == First(l.page)
    <2>1. i \in Item /\ l.page \in SUBSET Item
        BY <1>1, <1>5, FirstOfPage DEF Hand, LoopType
    <2>2. SetLoop(r, [l EXCEPT !.page = l.page \ {i}])
        BY <1>1, <1>5 DEF Hand
    <2>. HIDE DEF i
    <2>3. [l EXCEPT !.page = l.page \ {i}] \in LoopType
        BY <1>1, <2>1 DEF LoopType
    <2>4. loop' \in [Runner -> LoopType]
        BY <1>2, <2>2, <2>3
    <2>5. job' \in [Runner -> [Item -> JobType]]
        <3>1. PICK c \in JobType : c = [NoJob EXCEPT !.at = "claim"]
            BY Blank DEF JobType
        <3>2. UNCHANGED job \/ SetJob(r, i, c)
            BY <1>1, <1>5, <3>1 DEF Hand, i
        <3>3. job \in [Runner -> [Item -> JobType]]
            BY DEF Typed
        <3>4. [job EXCEPT ![r][i] = c] \in [Runner -> [Item -> JobType]]
            BY <2>1, <3>3, Entry
        <3>. QED
            BY <3>2, <3>3, <3>4 DEF SetJob
    <2>. QED
        BY <1>5, <2>4, <2>5 DEF Hand, Typed
<1>6. CASE LoopEnds(r)
    <2>1. [at |-> "ended", cursor |-> 0, page |-> {}, next |-> 0, wait |-> 0] \in LoopType
        BY Options DEF LoopType
    <2>. QED
        BY <1>2, <1>6, <2>1 DEF LoopEnds, Typed
<1>. QED
    BY <1>3, <1>4, <1>5, <1>6 DEF LoopStep

LEMMA WorkerTyped ==
    ASSUME Typed, NEW r \in Runner, NEW i \in Item, WorkerStep(r, i)
    PROVE  Typed'
<1>. USE DEF store
<1>1. PICK j : j = job[r][i] /\ j \in JobType
    BY DEF Typed
<1>2. ASSUME NEW k \in JobType, SetJob(r, i, k)
      PROVE  job' \in [Runner -> [Item -> JobType]]
    BY <1>2 DEF SetJob, Typed
<1>3. CASE Claim(r, i)
    <2>1. CASE Acquirable(i) /\ r \notin stopping
        <3>1. PICK g : g = (generations[i] + 1) % Generations
            OBVIOUS
        <3>2. g \in 0 .. Generations - 1
            BY <3>1, Options DEF Typed
        <3>3. /\ generations' = [generations EXCEPT ![i] = g]
              /\ lease' = [lease EXCEPT ![i] = [owner |-> r, generation |-> g, left |-> LeaseTTL]]
              /\ SetJob(r, i, [NoJob EXCEPT !.at = "process", !.generation = g,
                                            !.due = RenewInterval])
            BY <1>3, <2>1, <3>1 DEF Claim
        <3>4. [NoJob EXCEPT !.at = "process", !.generation = g, !.due = RenewInterval] \in JobType
            <4>1. RenewInterval \in 0 .. RenewInterval
                BY Options
            <4>. QED
                BY <3>2, <4>1, Blank DEF JobType
        <3>5. [owner |-> r, generation |-> g, left |-> LeaseTTL] \in LeaseType
            BY <3>2, Options DEF LeaseType
        <3>. QED
            BY <1>2, <1>3, <3>2, <3>3, <3>4, <3>5 DEF Claim, Typed
    <2>2. CASE ~(Acquirable(i) /\ r \notin stopping)
        BY <1>2, <1>3, <2>2, Blank DEF Claim, Typed
    <2>. QED
        BY <2>1, <2>2
<1>4. CASE RenewLease(r, i)
    <2>1. \E k \in JobType : SetJob(r, i, k)
        <3>1. j.due \in 0 .. RenewInterval /\ j.late \in 0 .. Lag
            BY <1>1 DEF JobType
        <3>2. PICK due : due = RenewInterval - Smaller(j.late, RenewInterval)
            OBVIOUS
        <3>3. due \in 0 .. RenewInterval
            BY <3>1, <3>2, Options DEF Smaller
        <3>4. [j EXCEPT !.due = due, !.late = 0] \in JobType
            <4>1. 0 \in 0 .. Lag
                BY Options
            <4>. QED
                BY <1>1, <3>3, <4>1 DEF JobType
        <3>5. [j EXCEPT !.cancelled = TRUE] \in JobType
            BY <1>1 DEF JobType
        <3>. QED
            BY <1>1, <1>4, <3>2, <3>4, <3>5 DEF RenewLease
    <2>2. lease' \in [Item -> LeaseType]
        <3>1. LeaseTTL \in 0 .. LeaseTTL
            BY Options
        <3>2. PICK x \in LeaseType : x = [lease[i] EXCEPT !.left = LeaseTTL]
            BY <3>1 DEF Typed, LeaseType
        <3>3. UNCHANGED lease \/ lease' = [lease EXCEPT ![i] = x]
            BY <1>4, <3>2 DEF RenewLease
        <3>. QED
            BY <3>3 DEF Typed
    <2>. QED
        BY <1>2, <1>4, <2>1, <2>2 DEF RenewLease, Typed
<1>5. CASE Finish(r, i)
    <2>1. \E k \in JobType : SetJob(r, i, k)
        <3>1. [NoJob EXCEPT !.at = "release", !.generation = j.generation] \in JobType
            BY <1>1, Blank DEF JobType
        <3>. QED
            BY <1>1, <1>5, <3>1 DEF Finish
    <2>2. ASSUME NEW entry \in RetryType
          PROVE  Failed(entry) \in RetryType
        <3>1. PICK n : n = Smaller(entry.failures + 1, MaxFailures)
            OBVIOUS
        <3>2. n \in Nat \ {0} /\ n \in 0 .. MaxFailures
            BY <3>1, Options DEF RetryType, Smaller
        <3>3. PICK pause : pause = Delay(n) /\ pause \in 1 .. RetryMax
            BY <3>2, DelayDoubles
        <3>4. Failed(entry) = [failures |-> n, wait |-> pause, forget |-> pause + RetryMax]
            BY <3>1, <3>3 DEF Failed
        <3>. QED
            BY <3>2, <3>3, <3>4, Options DEF RetryType
    <2>3. retry' \in [Runner -> [Item -> RetryType]]
        <3>1. PICK entry : entry = retry[r][i] /\ entry \in RetryType
            BY DEF Typed
        <3>2. PICK failed : failed = Failed(entry) /\ failed \in RetryType
            BY <2>2, <3>1
        <3>3. \/ retry' = [retry EXCEPT ![r][i] = NoRetry]
              \/ retry' = [retry EXCEPT ![r][i] = failed]
              \/ UNCHANGED retry
            BY <1>5, <3>1, <3>2 DEF Finish
        <3>4. PICK x \in RetryType : retry' = [retry EXCEPT ![r][i] = x] \/ UNCHANGED retry
            BY <3>2, <3>3, Blank
        <3>5. retry \in [Runner -> [Item -> RetryType]]
            BY DEF Typed
        <3>6. [retry EXCEPT ![r][i] = x] \in [Runner -> [Item -> RetryType]]
            BY <3>5, Entry
        <3>. QED
            BY <3>4, <3>5, <3>6
    <2>. QED
        BY <1>2, <1>5, <2>1, <2>3 DEF Finish, Typed
<1>6. CASE Release(r, i)
    BY <1>2, <1>6, Blank DEF Release, Typed
<1>. QED
    BY <1>3, <1>4, <1>5, <1>6 DEF WorkerStep

LEMMA TickTyped ==
    ASSUME Typed, Tick
    PROVE  Typed'
<1>1. ASSUME NEW i \in Item
      PROVE  [lease[i] EXCEPT !.left = Less(@)] \in LeaseType
    <2>1. PICK x \in LeaseType : x = lease[i]
        BY DEF Typed
    <2>2. Less(x.left) \in 0 .. LeaseTTL
        BY LessDown, Options DEF LeaseType
    <2>. QED
        BY <2>1, <2>2 DEF LeaseType
<1>2. ASSUME NEW r \in Runner
      PROVE  [loop[r] EXCEPT !.wait = Less(@)] \in LoopType
    <2>1. PICK l \in LoopType : l = loop[r]
        BY DEF Typed
    <2>2. Less(l.wait) \in 0 .. PollInterval
        BY LessDown, Options DEF LoopType
    <2>. QED
        BY <2>1, <2>2 DEF LoopType
<1>3. ASSUME NEW r \in Runner, NEW i \in Item
      PROVE  /\ job'[r][i] \in JobType
             /\ [retry[r][i] EXCEPT !.wait = Less(@), !.forget = Less(@)] \in RetryType
    <2>1. PICK j \in JobType : j = job[r][i]
        BY DEF Typed
    <2>2. PICK late : late = IF j.due = 0 THEN j.late + 1 ELSE 0
        OBVIOUS
    <2>3. Less(j.due) \in 0 .. RenewInterval
        BY LessDown, Options DEF JobType
    <2>4. ASSUME Renewing(r, i)
          PROVE  late \in 0 .. Lag
        <3>1. j.due = 0 => j.late < Lag
            BY <2>1, <2>4 DEF Tick
        <3>2. j.late \in Nat /\ 0 \in 0 .. Lag
            BY Options DEF JobType
        <3>. QED
            BY <2>2, <3>1, <3>2, Options
    <2>5. job'[r][i] = IF ~Renewing(r, i) THEN j ELSE [j EXCEPT !.due = Less(@), !.late = late]
        BY <2>1, <2>2 DEF Tick
    <2>6. job'[r][i] \in JobType
        BY <2>3, <2>4, <2>5 DEF JobType
    <2>7. PICK entry \in RetryType : entry = retry[r][i]
        BY DEF Typed
    <2>8. Less(entry.wait) \in 0 .. RetryMax /\ Less(entry.forget) \in 0 .. 2 * RetryMax
        BY LessDown, Options DEF RetryType
    <2>9. [retry[r][i] EXCEPT !.wait = Less(@), !.forget = Less(@)] \in RetryType
        BY <2>7, <2>8 DEF RetryType
    <2>. QED
        BY <2>6, <2>9
<1>4. job' \in [Runner -> [Item -> JobType]]
    <2>1. job' = [r \in Runner |-> [i \in Item |-> job'[r][i]]]
        BY DEF Tick
    <2>. QED
        BY <1>3, <2>1
<1>. QED
    BY <1>1, <1>2, <1>3, <1>4 DEF Tick, Typed

LEMMA TypedStep ==
    ASSUME Typed, [Next]_vars
    PROVE  Typed'
<1>1. CASE \E i \in Item : Arrive(i) \/ Leave(i)
    BY <1>1 DEF Arrive, Leave, Typed, store
<1>2. CASE \E r \in Runner : Stop(r)
    BY <1>2 DEF Stop, Typed, store
<1>3. CASE UNCHANGED vars
    BY <1>3 DEF vars, store, Typed
<1>. QED
    BY <1>1, <1>2, <1>3, LoopTyped, WorkerTyped, TickTyped DEF Next

-----------------------------------------------------------------------------
(* The steps, as far as jobs and leases are concerned.                       *)

(* A worker's step changes its own job only.                                 *)
LEMMA OneJob ==
    ASSUME Typed, NEW r \in Runner, NEW i \in Item, NEW j, SetJob(r, i, j)
    PROVE  \A s \in Runner, k \in Item :
               job'[s][k] = IF s = r /\ k = i THEN j ELSE job[s][k]
<1>1. job \in [Runner -> [Item -> JobType]]
    BY DEF Typed
<1>. QED
    BY <1>1, Entry DEF SetJob

(* Steps that neither begin a job nor end one.                               *)
Bystanding ==
    \/ \E r \in Runner : List(r) \/ ListFails(r) \/ NextPage(r) \/ Wake(r) \/ LoopEnds(r)
    \/ \E r \in Runner : Hand(r) /\ UNCHANGED job
    \/ \E i \in Item : Arrive(i) \/ Leave(i)
    \/ \E r \in Runner : Stop(r)
    \/ UNCHANGED vars

(* Step Hand gives item i to a worker.                                       *)
Handing(r, i) ==
    /\ loop[r].at = "hand"
    /\ Cardinality(Busy(r)) < Workers
    /\ SetJob(r, i, [NoJob EXCEPT !.at = "claim"])
    /\ loop'[r].at = "hand" /\ \A s \in Runner : s # r => loop'[s] = loop[s]
    /\ UNCHANGED <<lease, stopping>>

LEMMA JobCases ==
    ASSUME Typed, [Next]_vars
    PROVE  \/ Bystanding
           \/ \E r \in Runner, i \in Item : Handing(r, i)
           \/ \E r \in Runner, i \in Item : WorkerStep(r, i)
           \/ Tick
<1>1. ASSUME NEW r \in Runner, Hand(r), ~UNCHANGED job
      PROVE  \E i \in Item : Handing(r, i)
    <2>. DEFINE i == First(loop[r].page)
    <2>1. i \in Item
        BY <1>1, FirstOfPage DEF Hand, Typed, LoopType
    <2>2. /\ SetJob(r, i, [NoJob EXCEPT !.at = "claim"])
          /\ Cardinality(Busy(r)) < Workers /\ loop[r].at = "hand"
          /\ SetLoop(r, [loop[r] EXCEPT !.page = @ \ {i}])
          /\ UNCHANGED <<lease, stopping>>
        BY <1>1 DEF Hand, store
    <2>. HIDE DEF i
    <2>3. loop'[r].at = "hand" /\ \A s \in Runner : s # r => loop'[s] = loop[s]
        BY <2>2 DEF SetLoop, Typed, LoopType
    <2>. QED
        BY <2>1, <2>2, <2>3 DEF Handing
<1>. QED
    BY <1>1 DEF Next, LoopStep, Bystanding

-----------------------------------------------------------------------------
(* The workers of a runner.                                                  *)

(* Busy workers become fewer, or a loop begins to wait for them.             *)
LEMMA FewerFit ==
    ASSUME BusyFits, NEW s \in Runner,
           Busy(s)' \subseteq Busy(s),
           loop'[s].at = "hand" \/ loop[s].at # "hand" \/ Busy(s) = {}
    PROVE  /\ (Cardinality(Busy(s)) <= Workers)'
           /\ (loop[s].at # "hand" => Busy(s) = {})'
<1>1. IsFiniteSet(Busy(s))
    <2>1. IsFiniteSet(Item)
        BY FS_Interval, Options DEF Item
    <2>. QED
        BY <2>1, FS_Subset DEF Busy
<1>2. /\ Cardinality(Busy(s)') <= Cardinality(Busy(s))
      /\ Cardinality(Busy(s)') \in Nat /\ Cardinality(Busy(s)) \in Nat
    BY <1>1, FS_Subset, FS_CardinalityType
<1>3. (Cardinality(Busy(s)) <= Workers)'
    BY <1>2, Options DEF BusyFits
<1>. QED
    BY <1>3 DEF BusyFits

LEMMA BusyStep ==
    ASSUME Typed, BusyFits, [Next]_vars
    PROVE  BusyFits'
<1>. USE Options
<1>1. ASSUME \A s \in Runner :
                 /\ Busy(s)' \subseteq Busy(s)
                 /\ loop'[s].at = "hand" \/ loop[s].at # "hand" \/ Busy(s) = {}
      PROVE  BusyFits'
    BY <1>1, FewerFit DEF BusyFits
<1>2. CASE Bystanding
    <2>1. UNCHANGED job
        BY <1>2
        DEF Bystanding, List, ListFails, NextPage, Wake, LoopEnds, Arrive, Leave, Stop, vars
    <2>2. \A s \in Runner : Busy(s)' = Busy(s)
        BY <2>1 DEF Busy
    <2>3. ASSUME NEW s \in Runner, loop'[s] # loop[s]
          PROVE  loop'[s].at = "hand" \/ loop[s].at # "hand" \/ Busy(s) = {}
        <3>1. PICK r \in Runner : \/ List(r) \/ ListFails(r) \/ NextPage(r) \/ Wake(r)
                                  \/ LoopEnds(r) \/ Hand(r)
            BY <1>2, <2>3 DEF Bystanding, Arrive, Leave, Stop, vars
        <3>2. \E l : SetLoop(r, l)
            BY <3>1 DEF List, ListFails, NextPage, Wake, LoopEnds, Hand
        <3>3. s = r
            BY <2>3, <3>2 DEF SetLoop, Typed
        <3>4. CASE List(r) \/ ListFails(r) \/ NextPage(r) \/ Wake(r) \/ LoopEnds(r)
            BY <3>3, <3>4 DEF List, ListFails, NextPage, Wake, LoopEnds
        <3>5. CASE Hand(r)
            BY <3>3, <3>5 DEF Hand, SetLoop, Typed, LoopType
        <3>. QED
            BY <3>1, <3>4, <3>5
    <2>. QED
        BY <1>1, <2>2, <2>3
<1>3. ASSUME NEW r \in Runner, NEW i \in Item, Handing(r, i)
      PROVE  BusyFits'
    <2>1. ASSUME NEW s \in Runner
          PROVE  Busy(s)' = IF s = r THEN Busy(s) \cup {i} ELSE Busy(s)
        BY <1>3, OneJob DEF Handing, Busy, NoJob
    <2>2. IsFiniteSet(Busy(r))
        <3>1. IsFiniteSet(Item)
            BY FS_Interval DEF Item
        <3>. QED
            BY <3>1, FS_Subset DEF Busy
    <2>3. (Cardinality(Busy(r)) <= Workers)'
        <3>1. Cardinality(Busy(r) \cup {i}) \in {Cardinality(Busy(r)), Cardinality(Busy(r)) + 1}
            BY <2>2, FS_AddElement
        <3>2. Cardinality(Busy(r)) \in Nat /\ Cardinality(Busy(r)) < Workers
            BY <1>3, <2>2, FS_CardinalityType DEF Handing
        <3>. QED
            BY <2>1, <3>1, <3>2
    <2>4. ASSUME NEW s \in Runner, s # r
          PROVE  /\ (Cardinality(Busy(s)) <= Workers)'
                 /\ (loop[s].at # "hand" => Busy(s) = {})'
        <3>1. Busy(s)' = Busy(s) /\ loop'[s] = loop[s]
            BY <1>3, <2>1, <2>4 DEF Handing
        <3>. QED
            BY <3>1 DEF BusyFits
    <2>. QED
        BY <1>3, <2>3, <2>4 DEF BusyFits, Handing
<1>4. ASSUME NEW r \in Runner, NEW i \in Item, WorkerStep(r, i)
      PROVE  BusyFits'
    <2>1. PICK j : SetJob(r, i, j)
        BY <1>4 DEF WorkerStep, Claim, RenewLease, Finish, Release
    <2>2. job[r][i].at # "none"
        BY <1>4 DEF WorkerStep, Claim, RenewLease, Renewing, Finish, Release
    <2>3. \A s \in Runner : Busy(s)' \subseteq Busy(s)
        BY <2>1, <2>2, OneJob DEF Busy
    <2>4. UNCHANGED loop
        BY <1>4 DEF WorkerStep, Claim, RenewLease, Finish, Release
    <2>. QED
        BY <1>1, <2>3, <2>4
<1>5. CASE Tick
    <2>1. ASSUME NEW s \in Runner
          PROVE  Busy(s)' = Busy(s) /\ loop'[s].at = loop[s].at
        <3>1. \A k \in Item : job'[s][k].at = job[s][k].at
            <4>1. ASSUME NEW k \in Item
                  PROVE  job'[s][k].at = job[s][k].at
                <5>1. PICK j \in JobType : j = job[s][k]
                    BY DEF Typed
                <5>. QED
                    BY <1>5, <5>1 DEF Tick, JobType
            <4>. QED
                BY <4>1
        <3>2. PICK l \in LoopType : l = loop[s]
            BY DEF Typed
        <3>3. loop'[s].at = loop[s].at
            BY <1>5, <3>2 DEF Tick, LoopType
        <3>. QED
            BY <3>1, <3>3 DEF Busy
    <2>. QED
        BY <1>1, <2>1
<1>. QED
    BY <1>2, <1>3, <1>4, <1>5, JobCases

-----------------------------------------------------------------------------
(* Live leases.                                                              *)

(* A worker that could not renew any more is too late.                       *)
LEMMA TooLate ==
    ASSUME Typed, NEW r \in Runner, NEW i \in Item, Covered(r, i),
           ~OwnLease(r, i) \/ lease[i].left = 0
    PROVE  job[r][i].due = 0 /\ RenewInterval + job[r][i].late >= LeaseTTL
<1>1. PICK j \in JobType : j = job[r][i]
    BY DEF Typed
<1>2. j.due \in Nat /\ j.late \in Nat /\ RenewInterval \in Nat /\ RenewInterval < LeaseTTL
      /\ LeaseTTL \in Nat
    BY Options DEF JobType
<1>. QED
    BY <1>1, <1>2 DEF Covered

(* What others do with the lease of an item cannot uncover its worker: they  *)
(* touch only a lease it does not have, or one that has run out.             *)
LEMMA OthersKeepCover ==
    ASSUME Typed, NEW s \in Runner, NEW k \in Item, Covered(s, k),
           UNCHANGED job[s][k],
           UNCHANGED lease[k] \/ ~OwnLease(s, k) \/ lease[k].left = 0
    PROVE  Covered(s, k)'
<1>1. CASE UNCHANGED lease[k]
    BY <1>1 DEF Covered, OwnLease
<1>2. CASE ~OwnLease(s, k) \/ lease[k].left = 0
    BY <1>2, TooLate DEF Covered
<1>. QED
    BY <1>1, <1>2

(* A step of one worker, as it looks to all the others.                      *)
LEMMA OthersCovered ==
    ASSUME Typed, LeasesCover, NEW r \in Runner, NEW i \in Item, NEW j, SetJob(r, i, j),
           UNCHANGED stopping,
           \A k \in Item : k # i => lease'[k] = lease[k],
           UNCHANGED lease[i] \/ OwnLease(r, i) \/ lease[i].left = 0,
           Renewing(r, i)' => Covered(r, i)'
    PROVE  LeasesCover'
<1>1. SUFFICES ASSUME NEW s \in Runner, NEW k \in Item, Renewing(s, k)', s # r \/ k # i
               PROVE  Covered(s, k)'
    BY DEF LeasesCover
<1>2. UNCHANGED job[s][k]
    BY <1>1, OneJob
<1>3. Renewing(s, k) /\ Covered(s, k)
    BY <1>1, <1>2 DEF Renewing, LeasesCover
<1>4. UNCHANGED lease[k] \/ ~OwnLease(s, k) \/ lease[k].left = 0
    BY <1>1 DEF OwnLease
<1>. QED
    BY <1>2, <1>3, <1>4, OthersKeepCover

LEMMA WorkerCovers ==
    ASSUME Typed, LeasesCover, NEW r \in Runner, NEW i \in Item, WorkerStep(r, i)
    PROVE  LeasesCover'
<1>. USE DEF store
<1>1. PICK j \in JobType, x \in LeaseType : j = job[r][i] /\ x = lease[i]
    BY DEF Typed
<1>2. CASE Claim(r, i)
    <2>1. CASE Acquirable(i) /\ r \notin stopping
        <3>1. PICK g : g = (generations[i] + 1) % Generations
            OBVIOUS
        <3>2. PICK m : m = [NoJob EXCEPT !.at = "process", !.generation = g,
                                         !.due = RenewInterval]
            OBVIOUS
        <3>3. /\ m.generation = g /\ m.due = RenewInterval /\ m.late = 0
            BY <3>2 DEF NoJob
        <3>4. /\ lease' = [lease EXCEPT ![i] = [owner |-> r, generation |-> g, left |-> LeaseTTL]]
              /\ SetJob(r, i, m)
              /\ UNCHANGED stopping
              /\ lease[i].left = 0
            BY <1>2, <2>1, <3>1, <3>2 DEF Claim, Acquirable
        <3>5. lease'[i] = [owner |-> r, generation |-> g, left |-> LeaseTTL]
              /\ \A k \in Item : k # i => lease'[k] = lease[k]
            BY <3>4 DEF Typed
        <3>6. job'[r][i] = m
            BY <3>4, OneJob
        <3>7. Covered(r, i)'
            BY <3>3, <3>5, <3>6, Options DEF Covered, OwnLease
        <3>. QED
            BY <3>4, <3>5, <3>7, OthersCovered
    <2>2. CASE ~(Acquirable(i) /\ r \notin stopping)
        <3>1. SetJob(r, i, NoJob) /\ UNCHANGED <<lease, stopping>>
            BY <1>2, <2>2 DEF Claim
        <3>2. ~Renewing(r, i)'
            BY <3>1, OneJob DEF Renewing, NoJob
        <3>. QED
            BY <3>1, <3>2, OthersCovered
    <2>. QED
        BY <2>1, <2>2
<1>3. CASE RenewLease(r, i)
    <2>1. CASE OwnLease(r, i) /\ lease[i].left > 0
        <3>1. PICK due : due = RenewInterval - Smaller(j.late, RenewInterval)
            OBVIOUS
        <3>2. due \in Nat /\ due <= RenewInterval
            BY <3>1, Options DEF Smaller, JobType
        <3>3. PICK m : m = [j EXCEPT !.due = due, !.late = 0]
            OBVIOUS
        <3>4. m.due = due /\ m.late = 0 /\ m.generation = j.generation
            BY <3>3 DEF JobType
        <3>5. SetJob(r, i, m) /\ lease' = [lease EXCEPT ![i].left = LeaseTTL]
              /\ UNCHANGED stopping
            BY <1>1, <1>3, <2>1, <3>1, <3>3 DEF RenewLease
        <3>6. /\ lease'[i].left = LeaseTTL /\ lease'[i].owner = r
              /\ lease'[i].generation = j.generation
              /\ \A k \in Item : k # i => lease'[k] = lease[k]
            BY <1>1, <2>1, <3>5 DEF Typed, OwnLease, LeaseType
        <3>7. job'[r][i] = m
            BY <3>5, OneJob
        <3>8. Covered(r, i)'
            BY <3>2, <3>4, <3>6, <3>7, Options DEF Covered, OwnLease
        <3>. QED
            BY <2>1, <3>5, <3>6, <3>8, OthersCovered
    <2>2. CASE ~(OwnLease(r, i) /\ lease[i].left > 0)
        <3>1. PICK m : m = [j EXCEPT !.cancelled = TRUE]
            OBVIOUS
        <3>2. SetJob(r, i, m) /\ UNCHANGED <<lease, stopping>> /\ m.cancelled
            BY <1>1, <1>3, <2>2, <3>1 DEF RenewLease, JobType
        <3>3. ~Renewing(r, i)'
            BY <3>2, OneJob DEF Renewing
        <3>. QED
            BY <3>2, <3>3, OthersCovered
    <2>. QED
        BY <2>1, <2>2
<1>4. CASE Finish(r, i)
    <2>1. PICK m : m = [NoJob EXCEPT !.at = "release", !.generation = j.generation]
        OBVIOUS
    <2>2. SetJob(r, i, m) /\ UNCHANGED <<lease, stopping>> /\ m.at = "release"
        BY <1>1, <1>4, <2>1 DEF Finish, NoJob
    <2>3. ~Renewing(r, i)'
        BY <2>2, OneJob DEF Renewing
    <2>. QED
        BY <2>2, <2>3, OthersCovered
<1>5. CASE Release(r, i)
    <2>1. /\ SetJob(r, i, NoJob) /\ UNCHANGED stopping
          /\ \/ UNCHANGED lease
             \/ OwnLease(r, i) /\ lease' = [lease EXCEPT ![i] = NoLease]
        BY <1>5 DEF Release
    <2>2. /\ \A k \in Item : k # i => lease'[k] = lease[k]
          /\ UNCHANGED lease[i] \/ OwnLease(r, i)
        BY <2>1 DEF Typed
    <2>3. ~Renewing(r, i)'
        BY <2>1, OneJob DEF Renewing, NoJob
    <2>. QED
        BY <2>1, <2>2, <2>3, OthersCovered
<1>. QED
    BY <1>2, <1>3, <1>4, <1>5 DEF WorkerStep

LEMMA TickCovers ==
    ASSUME Typed, LeasesCover, Tick
    PROVE  LeasesCover'
<1>1. SUFFICES ASSUME NEW r \in Runner, NEW i \in Item, Renewing(r, i)'
               PROVE  Covered(r, i)'
    BY DEF LeasesCover
<1>2. PICK j \in JobType, x \in LeaseType : j = job[r][i] /\ x = lease[i]
    BY DEF Typed
<1>3. lease'[i].left = Less(x.left) /\ lease'[i].owner = x.owner
      /\ lease'[i].generation = x.generation
    BY <1>2 DEF Tick, LeaseType
<1>4. Renewing(r, i)
    <2>1. CASE ~Renewing(r, i)
        <3>1. job'[r][i] = job[r][i] /\ UNCHANGED stopping
            BY <2>1 DEF Tick
        <3>. QED
            BY <1>1, <2>1, <3>1 DEF Renewing
    <2>. QED
        BY <2>1
<1>5. PICK late : late = IF j.due = 0 THEN j.late + 1 ELSE 0
    OBVIOUS
<1>6. job'[r][i] = [j EXCEPT !.due = Less(@), !.late = late]
    BY <1>2, <1>4, <1>5 DEF Tick
<1>7. /\ job'[r][i].due = Less(j.due) /\ job'[r][i].late = late
      /\ job'[r][i].generation = j.generation
    BY <1>6 DEF JobType
<1>8. /\ j.due \in Nat /\ j.late \in Nat /\ x.left \in Nat
      /\ RenewInterval \in Nat /\ LeaseTTL \in Nat /\ RenewInterval < LeaseTTL
    BY Options DEF JobType, LeaseType
<1>9. /\ j.due > 0 => j.late = 0
      /\ \/ /\ x.owner = r /\ x.generation = j.generation
            /\ x.left + RenewInterval + j.late >= LeaseTTL + j.due
         \/ j.due = 0 /\ RenewInterval + j.late >= LeaseTTL
    BY <1>2, <1>4 DEF LeasesCover, Covered, OwnLease
<1>10. /\ Less(j.due) > 0 => late = 0
       /\ \/ /\ x.owner = r /\ x.generation = j.generation
             /\ Less(x.left) + RenewInterval + late >= LeaseTTL + Less(j.due)
          \/ Less(j.due) = 0 /\ RenewInterval + late >= LeaseTTL
    BY <1>5, <1>8, <1>9 DEF Less
<1>. QED
    BY <1>3, <1>7, <1>10 DEF Covered, OwnLease

LEMMA CoverStep ==
    ASSUME Typed, LeasesCover, [Next]_vars
    PROVE  LeasesCover'
<1>1. CASE Bystanding
    <2>1. UNCHANGED <<job, lease>> /\ stopping \subseteq stopping'
        BY <1>1
        DEF Bystanding, List, ListFails, NextPage, Wake, LoopEnds, Hand, Arrive, Leave, Stop,
            store, vars
    <2>. QED
        BY <2>1 DEF LeasesCover, Covered, OwnLease, Renewing
<1>2. ASSUME NEW r \in Runner, NEW i \in Item, Handing(r, i)
      PROVE  LeasesCover'
    <2>1. PICK m : m = [NoJob EXCEPT !.at = "claim"]
        OBVIOUS
    <2>2. SetJob(r, i, m) /\ UNCHANGED <<lease, stopping>> /\ m.at = "claim"
        BY <1>2, <2>1 DEF Handing, NoJob
    <2>3. ~Renewing(r, i)'
        BY <2>2, OneJob DEF Renewing
    <2>. QED
        BY <2>2, <2>3, OthersCovered
<1>. QED
    BY <1>1, <1>2, WorkerCovers, TickCovers, JobCases

-----------------------------------------------------------------------------
(* Theorems.                                                                 *)

(* The invariant holds at the start.                                         *)
LEMMA RInvInit ==
    ASSUME Init
    PROVE  RInv
<1>1. Typed
    <2>1. [at |-> "list", cursor |-> 0, page |-> {}, next |-> 0, wait |-> 0] \in LoopType
        BY Options DEF LoopType
    <2>2. 0 \in 0 .. Generations - 1
        BY Options
    <2>. QED
        BY <2>1, <2>2, Blank DEF Init, Typed
<1>2. BusyFits
    <2>1. \A r \in Runner : Busy(r) = {}
        BY DEF Init, Busy, NoJob
    <2>. QED
        BY <2>1, FS_EmptySet, Options DEF BusyFits
<1>3. LeasesCover
    BY DEF Init, LeasesCover, Renewing, NoJob
<1>. QED
    BY <1>1, <1>2, <1>3 DEF RInv

(* Types, the number of busy workers, and the lease that covers every worker *)
(* still renewing it, in every reachable state.                              *)
THEOREM RunnersInductive == Spec => []RInv
<1>1. Init => RInv
    BY RInvInit
<1>2. RInv /\ [Next]_vars => RInv'
    BY TypedStep, BusyStep, CoverStep DEF RInv
<1>. QED
    BY <1>1, <1>2, PTL DEF Spec

(* The types; and a runner never works on more items than it has workers,    *)
(* and turns a page or ends only when all it handed out is done.             *)
THEOREM RunnersTyped == Spec => []TypeOK
<1>1. RInv => TypeOK
    BY DEF RInv, Typed, BusyFits, TypeOK, LeaseType, LoopType, JobType, RetryType
<1>. QED
    BY <1>1, RunnersInductive, PTL

(* Two runners are at one item only while one of them is so late with its    *)
(* renewal that its lease may have run out.                                  *)
THEOREM LeasesExclude == Spec => []ExclusiveWork
<1>1. ASSUME RInv
      PROVE  ExclusiveWork
    <2>1. SUFFICES ASSUME NEW r \in Runner, NEW s \in Runner, NEW i \in Item, r # s,
                          Renewing(r, i), Renewing(s, i)
                   PROVE  \E o \in {r, s} : job[o][i].late + RenewInterval >= LeaseTTL
        BY DEF ExclusiveWork
    <2>2. PICK o \in {r, s} : ~OwnLease(o, i)
        BY <2>1 DEF OwnLease
    <2>3. RenewInterval + job[o][i].late >= LeaseTTL
        BY <1>1, <2>1, <2>2, TooLate DEF RInv, LeasesCover
    <2>4. job[o][i].late \in Nat /\ RenewInterval \in Nat
        BY <1>1, Options DEF RInv, Typed, JobType
    <2>. QED
        BY <2>3, <2>4
<1>. QED
    BY <1>1, RunnersInductive, PTL

(* While renewals come in time, nobody works on an item twice.               *)
THEOREM TimelyExcludes ==
    ASSUME RenewInterval + Lag < LeaseTTL
    PROVE  Spec => [](\A r, s \in Runner, i \in Item :
                          Renewing(r, i) /\ Renewing(s, i) => r = s)
<1>1. ASSUME TypeOK, ExclusiveWork, NEW r \in Runner, NEW s \in Runner, NEW i \in Item,
             Renewing(r, i), Renewing(s, i), r # s
      PROVE  FALSE
    <2>1. PICK o \in {r, s} : job[o][i].late + RenewInterval >= LeaseTTL
        BY <1>1 DEF ExclusiveWork
    <2>2. job[o][i].late \in 0 .. Lag
        BY <1>1 DEF TypeOK
    <2>. QED
        BY <2>1, <2>2, Options
<1>2. TypeOK /\ ExclusiveWork => \A r, s \in Runner, i \in Item :
                                     Renewing(r, i) /\ Renewing(s, i) => r = s
    BY <1>1
<1>. QED
    BY <1>2, RunnersTyped, LeasesExclude, PTL

(* A live lease ends by time, or by the worker it was given to.              *)
THEOREM LeasesRespected == Spec => LeaseRespected
<1>1. ASSUME RInv, [Next]_vars, NEW i \in Item, lease[i].left > 0, lease'[i] # lease[i]
      PROVE  \/ lease'[i] = [lease[i] EXCEPT !.left = @ - 1]
             \/ LET r == lease[i].owner IN
                /\ job[r][i].generation = lease[i].generation
                /\ \/ Renewing(r, i) /\ lease'[i] = [lease[i] EXCEPT !.left = LeaseTTL]
                   \/ job[r][i].at = "release" /\ lease'[i] = NoLease
    <2>. USE DEF store
    <2>1. lease \in [Item -> LeaseType]
        BY <1>1 DEF RInv, Typed
    <2>2. CASE Tick
        <3>1. PICK x \in LeaseType : x = lease[i]
            BY <2>1
        <3>2. Less(x.left) = x.left - 1
            BY <1>1, <3>1 DEF Less
        <3>. QED
            BY <2>2, <3>1, <3>2 DEF Tick
    <2>3. ASSUME NEW r \in Runner, NEW k \in Item, WorkerStep(r, k)
          PROVE  LET o == lease[i].owner IN
                 /\ job[o][i].generation = lease[i].generation
                 /\ \/ Renewing(o, i) /\ lease'[i] = [lease[i] EXCEPT !.left = LeaseTTL]
                    \/ job[o][i].at = "release" /\ lease'[i] = NoLease
        <3>1. CASE Claim(r, k)
            BY <1>1, <2>1, <3>1 DEF Claim, Acquirable
        <3>2. CASE RenewLease(r, k)
            BY <1>1, <2>1, <3>2 DEF RenewLease, OwnLease
        <3>3. CASE Finish(r, k)
            BY <1>1, <3>3 DEF Finish
        <3>4. CASE Release(r, k)
            BY <1>1, <2>1, <3>4 DEF Release, OwnLease
        <3>. QED
            BY <2>3, <3>1, <3>2, <3>3, <3>4 DEF WorkerStep
    <2>4. CASE Bystanding \/ \E r \in Runner, k \in Item : Handing(r, k)
        BY <1>1, <2>4
        DEF Bystanding, Handing, List, ListFails, NextPage, Wake, LoopEnds, Hand, Arrive,
            Leave, Stop, vars
    <2>. QED
        BY <1>1, <2>2, <2>3, <2>4, JobCases DEF RInv
<1>2. RInv /\ [Next]_vars => RespectsLeases
    BY <1>1 DEF RespectsLeases
<1>. QED
    BY <1>2, RunnersInductive, PTL DEF Spec, LeaseRespected

(* The pause after a failure is the doubled one, cut off exactly.            *)
THEOREM BacksOffExactly == Spec => BackoffExact
<1>1. ASSUME RInv, [Next]_vars, NEW r \in Runner, NEW i \in Item,
             job[r][i].at = "process", job'[r][i].at = "release",
             retry'[r][i] \notin {retry[r][i], NoRetry}
      PROVE  LET n == retry'[r][i].failures
                 pause == Smaller(Doubled[n - 1], RetryMax)
             IN  /\ retry'[r][i].wait = pause
                 /\ retry'[r][i].forget > pause
                 /\ n = Smaller(retry[r][i].failures + 1, MaxFailures)
    <2>1. Typed
        BY <1>1 DEF RInv
    <2>2. Finish(r, i)
        <3>1. ASSUME NEW s \in Runner, NEW k \in Item, WorkerStep(s, k)
              PROVE  Finish(r, i)
            <4>1. PICK j : SetJob(s, k, j)
                BY <3>1 DEF WorkerStep, Claim, RenewLease, Finish, Release
            <4>2. s = r /\ k = i
                BY <1>1, <2>1, <4>1, OneJob
            <4>3. ~Claim(r, i) /\ ~RenewLease(r, i) /\ ~Release(r, i)
                <5>1. PICK x \in JobType : x = job[r][i]
                    BY <2>1 DEF Typed
                <5>2. CASE RenewLease(r, i)
                    <6>1. PICK due :
                              \/ SetJob(r, i, [x EXCEPT !.due = due, !.late = 0])
                              \/ SetJob(r, i, [x EXCEPT !.cancelled = TRUE])
                        BY <5>1, <5>2 DEF RenewLease
                    <6>2. PICK m : SetJob(r, i, m) /\ m.at = x.at
                        <7>1. /\ [x EXCEPT !.due = due, !.late = 0].at = x.at
                              /\ [x EXCEPT !.cancelled = TRUE].at = x.at
                            BY DEF JobType
                        <7>. QED
                            BY <6>1, <7>1
                    <6>3. job'[r][i].at = x.at
                        BY <2>1, <6>2, OneJob
                    <6>. QED
                        BY <1>1, <5>1, <6>3
                <5>. QED
                    BY <1>1, <5>2 DEF Claim, Release
            <4>. QED
                BY <3>1, <4>2, <4>3 DEF WorkerStep
        <3>2. CASE Tick
            <4>1. PICK x \in JobType : x = job[r][i]
                BY <2>1 DEF Typed
            <4>2. job'[r][i].at = x.at
                BY <3>2, <4>1 DEF Tick, JobType
            <4>. QED
                BY <1>1, <4>1, <4>2
        <3>3. CASE Bystanding
            BY <1>1, <3>3
            DEF Bystanding, List, ListFails, NextPage, Wake, LoopEnds, Arrive, Leave, Stop, vars
        <3>4. ASSUME NEW s \in Runner, NEW k \in Item, Handing(s, k)
              PROVE  FALSE
            BY <1>1, <2>1, <3>4, OneJob DEF Handing, NoJob
        <3>. QED
            BY <1>1, <2>1, <3>1, <3>2, <3>3, <3>4, JobCases
    <2>3. PICK entry \in RetryType : entry = retry[r][i]
        BY <2>1 DEF Typed
    <2>4. PICK n : n = Smaller(entry.failures + 1, MaxFailures)
        OBVIOUS
    <2>5. n \in Nat \ {0}
        BY <2>4, Options DEF RetryType, Smaller
    <2>6. PICK pause : pause = Delay(n) /\ pause \in 1 .. RetryMax
                       /\ pause = Smaller(Doubled[n - 1], RetryMax)
        BY <2>5, DelayDoubles
    <2>7. PICK failed : failed = [failures |-> n, wait |-> pause, forget |-> pause + RetryMax]
        OBVIOUS
    <2>8. failed = Failed(entry)
        BY <2>4, <2>6, <2>7 DEF Failed
    <2>9. retry'[r][i] = failed
        <3>1. retry \in [Runner -> [Item -> RetryType]]
            BY <2>1 DEF Typed
        <3>2. \/ retry' = [retry EXCEPT ![r][i] = NoRetry]
              \/ retry' = [retry EXCEPT ![r][i] = failed]
              \/ UNCHANGED retry
            BY <2>2, <2>3, <2>8 DEF Finish
        <3>. QED
            BY <1>1, <3>1, <3>2, Entry
    <2>. QED
        BY <2>3, <2>4, <2>6, <2>7, <2>9, Options
<1>2. RInv /\ [Next]_vars => BacksOff
    BY <1>1 DEF BacksOff
<1>. QED
    BY <1>2, RunnersInductive, PTL DEF Spec, BackoffExact
=============================================================================
