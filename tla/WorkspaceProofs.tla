-------------------------- MODULE WorkspaceProofs --------------------------
(* What holds of a checkout and of the repository it talks to, for every     *)
(* choice of the constants.                                                  *)
EXTENDS Workspace, Induction, FiniteSetTheorems, TLAPS

LOCAL INSTANCE SequencesExt   \* IsPrefix

-----------------------------------------------------------------------------
(* To the repository a checkout is a client with keys and content of its     *)
(* own: what is proved of the repository for any keys and content holds.     *)

AllCommits == Seq(Mine \cup Theirs)

AllKeys ==
    OtherKeys \cup {"submit"} \X Nat \X AllCommits \X Seq(Nat)
              \cup {"held"} \X Nat \X Nat \X AllCommits \X {"rebase"}

AllOperations == RecordingOps \cup {"evaluate", "respond", "promote", "conflict"}

Wide == INSTANCE LineageProofs
            WITH Content <- AllCommits, Keys <- AllKeys, Operations <- AllOperations

(* The instance has what the repository asks of its constants.               *)
LEMMA WideAssumptions ==
    /\ Wide!ContentAssumption
    /\ Wide!BoundsAssumption
    /\ Wide!OperationsAssumption
<1>1. InitialContent \in AllCommits
    BY ContentAssumption, HistoriesAssumption DEF Histories, AllCommits
<1>. QED
    BY <1>1, BoundsAssumption DEF AllOperations, RecordingOps, Wide!RecordingOps

-----------------------------------------------------------------------------
(* The inductive invariant.                                                  *)

CommandType ==
    [at : {"idle", "propose", "proposing", "intent", "history", "change", "compare",
           "rebase", "recording", "project", "status", "reset", "landed", "synced"},
     head : AllCommits, found : AllCommits, intent : Nat, version : Nat, seen : Nat,
     deps : Seq(Nat), to : Nat, target : AllCommits, then : {"compare", "synced"}]

CheckoutTyped ==
    /\ head \in AllCommits
    /\ authored \subseteq Mine
    /\ tool \in CommandType

(* Nobody takes the host down here.                                          *)
HostServes == mode = "serving" /\ memCurrent \in Intents

ContentOf(i) == revisions[i].content

(* What sync records of commit h for Version u and Intent i.                 *)
Candidate(u, i, h) ==
    IF IsAncestor(ContentOf(i), h) THEN h
    ELSE Rebased(h, ContentOf(i), ContentOf(versions[u].base))

(* A Version descends from the accepted content it is based on; and what was *)
(* recorded from a checkout follows from its key, so a repeated request      *)
(* finds what it would record.                                               *)
WellMade(d) ==
    /\ IsAncestor(ContentOf(d.base), d.content)
    /\ d.op = "propose" /\ d.key \notin OtherKeys =>
           \E deps \in Seq(Nat) :
               /\ d.key = <<"submit", d.base, d.content, deps>>
               /\ Distinct(deps) /\ d.deps = Listed(deps)
    /\ \A u, i, h : d.key = <<"held", u, i, h, "rebase">> =>
           /\ u \in Versions /\ i \in Intents
           /\ d.op = "rebase" /\ d.from = u
           /\ d.content = Candidate(u, i, h)

AllWellMade ==
    /\ \A v \in Versions : WellMade(versions[v])
    /\ \A d \in inFlight : WellMade(d)

(* p is in a Version something else has taken the place of.                  *)
Superseded(p) == \E v \in Versions : p \in Patches(versions[v].content) /\ ~Latest(v)

(* The command is about to put the checkout on its target, or has just.      *)
Projecting == {"project", "status", "reset", "landed"}

(* What command x was told is recorded; what it is about to check out        *)
(* descends from it, and lacks only what is kept elsewhere.                  *)
Follows(x) ==
    /\ Listed(x.deps) \subseteq Versions /\ Distinct(x.deps)
    /\ {x.version, x.to} \subseteq {0} \cup Versions
    /\ x.at \in {"propose", "proposing", "intent", "history", "change"} => x.to = 0
    /\ x.at \notin {"idle", "propose", "intent"} => x.intent \in Intents
    /\ x.at = "proposing" => IsAncestor(ContentOf(x.intent), x.head)
    /\ x.at \in {"change", "compare", "rebase", "recording", "synced"} \cup Projecting =>
           x.version # 0
    /\ x.at = "compare" /\ x.to # 0 =>
           x.version = x.to /\ IsAncestor(versions[x.to].content, x.head)
    /\ x.at \in {"rebase", "recording"} =>
           x.target = Candidate(x.version, x.intent, x.head)
    /\ x.at \in {"status", "reset"} => x.found = x.head
    /\ x.at \in Projecting =>
           /\ x.to # 0 /\ IsAncestor(versions[x.to].content, x.target)
           /\ x.then = "compare" => x.version = x.to
           /\ x.then = "synced" => IsAncestor(ContentOf(x.intent), x.target)
           /\ \A p \in Patches(x.head) : p \in Patches(x.target) \/ Superseded(p)
    /\ x.at = "synced" =>
           /\ x.to # 0 \/ IsAncestor(versions[x.version].content, x.head) =>
                  IsAncestor(ContentOf(x.intent), x.head)
           /\ x.to # 0 => IsAncestor(versions[x.to].content, x.head)

(* HEAD only goes on from where the command found it, or put it.             *)
HeadGoesOn ==
    tool.at # "idle" => IsAncestor(IF tool.at = "landed" THEN tool.target ELSE tool.head, head)

-----------------------------------------------------------------------------
(* Commits.                                                                  *)

(* One commit is an ancestor of another that begins with its patches.        *)
LEMMA BeginsWith ==
    ASSUME NEW c \in AllCommits, NEW d \in AllCommits
    PROVE  IsAncestor(c, d) <=> Len(c) <= Len(d) /\ \A i \in 1 .. Len(c) : c[i] = d[i]
<1>1. /\ Len(c) \in Nat /\ Len(d) \in Nat
      /\ SubSeq(c, 1, Len(c)) = [i \in 1 .. Len(c) |-> c[i]]
      /\ SubSeq(d, 1, Len(c)) = [i \in 1 .. Len(c) |-> d[i]]
    BY DEF AllCommits
<1>. QED
    BY <1>1 DEF IsAncestor, IsPrefix

(* Ancestry is an order, and a commit has all the patches of its ancestors.  *)
LEMMA Ancestry ==
    ASSUME NEW c \in AllCommits
    PROVE  /\ IsAncestor(c, c)
           /\ \A p \in Mine \cup Theirs :
                  /\ Append(c, p) \in AllCommits
                  /\ IsAncestor(c, Append(c, p))
                  /\ Patches(Append(c, p)) = Patches(c) \cup {p}
           /\ \A d \in AllCommits : IsAncestor(c, d) => Patches(c) \subseteq Patches(d)
           /\ \A d, e \in AllCommits :
                  IsAncestor(c, d) /\ IsAncestor(d, e) => IsAncestor(c, e)
<1>1. IsAncestor(c, c)
    BY BeginsWith DEF AllCommits
<1>2. ASSUME NEW p \in Mine \cup Theirs
      PROVE  /\ Append(c, p) \in AllCommits
             /\ IsAncestor(c, Append(c, p))
             /\ Patches(Append(c, p)) = Patches(c) \cup {p}
    <2>1. /\ Append(c, p) \in AllCommits
          /\ DOMAIN Append(c, p) = 1 .. Len(c) + 1
          /\ Len(Append(c, p)) = Len(c) + 1 /\ Len(c) \in Nat
          /\ \A i \in 1 .. Len(c) : Append(c, p)[i] = c[i]
          /\ Append(c, p)[Len(c) + 1] = p
          /\ DOMAIN c = 1 .. Len(c)
        BY DEF AllCommits
    <2>2. IsAncestor(c, Append(c, p))
        <3>1. PICK d \in AllCommits : d = Append(c, p)
            BY <2>1
        <3>2. Len(c) <= Len(d) /\ \A i \in 1 .. Len(c) : c[i] = d[i]
            BY <2>1, <3>1
        <3>. QED
            BY <3>1, <3>2, BeginsWith
    <2>3. 1 .. Len(c) + 1 = (1 .. Len(c)) \cup {Len(c) + 1}
        BY <2>1
    <2>. HIDE DEF AllCommits
    <2>4. Patches(Append(c, p)) = Patches(c) \cup {p}
        BY <2>1, <2>3 DEF Patches
    <2>. QED
        BY <2>1, <2>2, <2>4
<1>3. ASSUME NEW d \in AllCommits, IsAncestor(c, d)
      PROVE  Patches(c) \subseteq Patches(d)
    <2>1. /\ Len(c) \in Nat /\ Len(d) \in Nat /\ Len(c) <= Len(d)
          /\ DOMAIN c = 1 .. Len(c) /\ DOMAIN d = 1 .. Len(d)
          /\ \A i \in 1 .. Len(c) : c[i] = d[i]
        BY <1>3, BeginsWith DEF AllCommits
    <2>. QED
        BY <2>1 DEF Patches
<1>4. ASSUME NEW d \in AllCommits, NEW e \in AllCommits, IsAncestor(c, d), IsAncestor(d, e)
      PROVE  IsAncestor(c, e)
    <2>1. /\ Len(c) \in Nat /\ Len(d) \in Nat /\ Len(e) \in Nat
          /\ Len(c) <= Len(d) /\ Len(d) <= Len(e)
          /\ \A i \in 1 .. Len(c) : c[i] = d[i]
          /\ \A i \in 1 .. Len(d) : d[i] = e[i]
        BY <1>4, BeginsWith DEF AllCommits
    <2>. QED
        BY <2>1, BeginsWith
<1>. QED
    BY <1>1, <1>2, <1>3, <1>4

(* The loop of a rebase: commit h, patch by patch but for those in skip.     *)
LEMMA Replays ==
    ASSUME NEW h \in AllCommits, NEW onto \in AllCommits, NEW upstream
    PROVE  LET c == Rebased(h, onto, upstream) IN
           /\ c \in AllCommits
           /\ IsAncestor(onto, c)
           /\ Patches(h) \ Patches(upstream) \subseteq Patches(c)
<1>. DEFINE N == Len(h)
            Skipped(p) == p \in Patches(upstream) \cup Patches(onto)
            Replay(f) == [n \in 0 .. N |->
                             IF n = 0 THEN onto
                             ELSE IF h[n] \in Patches(upstream) \cup Patches(onto)
                             THEN f[n - 1] ELSE Append(f[n - 1], h[n])]
            replayed == CHOOSE f : f = Replay(f)
            State == Nat \X AllCommits
            step == [s \in State |->
                        <<s[1] + 1, IF s[1] + 1 \in 1 .. N /\ ~Skipped(h[s[1] + 1])
                                    THEN Append(s[2], h[s[1] + 1]) ELSE s[2]>>]
<1>1. /\ N \in Nat
      /\ DOMAIN h = 1 .. N
      /\ \A i \in 1 .. N : h[i] \in Mine \cup Theirs
    BY DEF AllCommits
<1>2. step \in [State -> State]
    <2>1. ASSUME NEW s \in State
          PROVE  step[s] \in State
        <3>1. s[1] \in Nat /\ s[1] + 1 \in Nat /\ s[2] \in AllCommits
            OBVIOUS
        <3>. HIDE DEF N, AllCommits
        <3>. QED
            BY <1>1, <3>1, Ancestry
    <2>. HIDE DEF State
    <2>. QED
        BY <2>1
<1>3. PICK g \in [Nat -> State] :
          \A n \in Nat : g[n] = IF n = 0 THEN <<0, onto>> ELSE step[g[n - 1]]
    <2>1. PICK St : St = State
        OBVIOUS
    <2>2. <<0, onto>> \in St /\ step \in [St -> St]
        BY <1>2, <2>1
    <2>. HIDE DEF State, step
    <2>3. \E g \in [Nat -> St] :
              \A n \in Nat : g[n] = IF n = 0 THEN <<0, onto>> ELSE step[g[n - 1]]
        BY <2>2, Iterates
    <2>. QED
        BY <2>1, <2>3
<1>4. \A n \in Nat : g[n] \in State
    BY <1>3
<1>. DEFINE Counted == {n \in Nat : g[n][1] = n}
<1>5. \A n \in Nat : g[n][1] = n
    <2>1. 0 \in Counted
        <3>1. g[0] = <<0, onto>>
            <4>. HIDE DEF State, step
            <4>. QED
                BY <1>3
        <3>. QED
            BY <3>1
    <2>2. ASSUME NEW n \in Nat, n \in Counted
          PROVE  n + 1 \in Counted
        <3>1. g[n + 1] = step[g[n]]
            <4>1. n + 1 \in Nat /\ n + 1 # 0 /\ (n + 1) - 1 = n
                OBVIOUS
            <4>. HIDE DEF step
            <4>. QED
                BY <1>3, <4>1
        <3>2. PICK s \in State : s = g[n] /\ s[1] = n
            BY <1>4, <2>2
        <3>3. step[s][1] = n + 1
            BY <3>2
        <3>. HIDE DEF step
        <3>. QED
            BY <3>1, <3>2, <3>3
    <2>. HIDE DEF Counted
    <2>3. Nat \subseteq Counted
        BY <2>1, <2>2, SetInduction
    <2>. QED
        BY <2>3 DEF Counted
<1>6. \E f : f = Replay(f)
    <2>. DEFINE w == [n \in 0 .. N |-> g[n][2]]
    <2>1. ASSUME NEW n \in 0 .. N
          PROVE  w[n] = Replay(w)[n]
        <3>1. CASE n = 0
            <4>1. g[0] = <<0, onto>>
                BY <1>3
            <4>2. w[n] = onto
                BY <3>1, <4>1
            <4>. HIDE DEF w
            <4>. QED
                BY <3>1, <4>2
        <3>2. CASE n # 0
            <4>1. n - 1 \in Nat /\ n - 1 \in 0 .. N /\ n \in 1 .. N /\ n \in Nat /\ (n - 1) + 1 = n
                BY <1>1, <3>2
            <4>2. PICK s \in State : s = g[n - 1] /\ s[1] = n - 1
                BY <1>4, <1>5, <4>1
            <4>3. g[n] = step[s]
                <5>. HIDE DEF step
                <5>. QED
                    BY <1>3, <3>2, <4>1, <4>2
            <4>4. step[s][2] = IF n \in 1 .. N /\ ~Skipped(h[n]) THEN Append(s[2], h[n]) ELSE s[2]
                BY <4>1, <4>2
            <4>5. w[n] = g[n][2] /\ w[n - 1] = s[2]
                BY <4>1, <4>2
            <4>. HIDE DEF step, w
            <4>6. w[n] = IF Skipped(h[n]) THEN w[n - 1] ELSE Append(w[n - 1], h[n])
                BY <4>1, <4>3, <4>4, <4>5
            <4>. QED
                BY <3>2, <4>6
        <3>. QED
            BY <3>1, <3>2
    <2>2. w = [n \in 0 .. N |-> w[n]] /\ Replay(w) = [n \in 0 .. N |-> Replay(w)[n]]
        OBVIOUS
    <2>. HIDE DEF w, Replay
    <2>3. w = Replay(w)
        BY <2>1, <2>2
    <2>. QED
        BY <2>3
<1>7. replayed = Replay(replayed)
    <2>. HIDE DEF Replay
    <2>. QED
        BY <1>6
<1>8. Rebased(h, onto, upstream) = replayed[N]
    BY DEF Rebased
<1>. HIDE DEF replayed, step
<1>9. /\ replayed[0] = onto
      /\ \A n \in 1 .. N :
             replayed[n] = IF Skipped(h[n]) THEN replayed[n - 1] ELSE Append(replayed[n - 1], h[n])
    <2>1. \A n \in 0 .. N : replayed[n] = Replay(replayed)[n]
        <3>. HIDE DEF Replay
        <3>. QED
            BY <1>7
    <2>2. 0 \in 0 .. N /\ \A n \in 1 .. N : n \in 0 .. N /\ n # 0
        BY <1>1
    <2>. HIDE DEF N
    <2>. QED
        BY <2>1, <2>2
<1>. DEFINE Good(n) == /\ replayed[n] \in AllCommits
                       /\ IsAncestor(onto, replayed[n])
                       /\ \A i \in 1 .. n : ~Skipped(h[i]) => h[i] \in Patches(replayed[n])
            Replayed == {n \in Nat : n <= N => Good(n)}
<1>10. \A n \in Nat : n \in Replayed
    <2>1. 0 \in Replayed
        <3>1. replayed[0] = onto /\ IsAncestor(onto, onto)
            BY <1>9, Ancestry
        <3>. QED
            BY <3>1
    <2>2. ASSUME NEW n \in Nat, n \in Replayed
          PROVE  n + 1 \in Replayed
        <3>. SUFFICES ASSUME n + 1 <= N
                      PROVE  Good(n + 1)
            <4>. HIDE DEF Good
            <4>. QED
                OBVIOUS
        <3>1. n <= N /\ n + 1 \in 1 .. N /\ (n + 1) - 1 = n
            BY <1>1
        <3>2. Good(n)
            BY <2>2, <3>1
        <3>3. PICK c \in AllCommits : c = replayed[n]
            BY <3>2
        <3>4. replayed[n + 1] = IF Skipped(h[n + 1]) THEN c ELSE Append(c, h[n + 1])
            BY <1>9, <3>1, <3>3
        <3>. HIDE DEF N, Skipped
        <3>5. CASE Skipped(h[n + 1])
            <4>1. replayed[n + 1] = replayed[n]
                BY <3>3, <3>4, <3>5
            <4>2. \A i \in 1 .. n + 1 : i \in 1 .. n \/ i = n + 1
                OBVIOUS
            <4>. QED
                BY <3>2, <3>5, <4>1, <4>2
        <3>6. CASE ~Skipped(h[n + 1])
            <4>1. h[n + 1] \in Mine \cup Theirs
                BY <1>1, <3>1
            <4>2. PICK e \in AllCommits : e = Append(c, h[n + 1])
                BY <4>1, Ancestry
            <4>3. IsAncestor(c, e) /\ Patches(e) = Patches(c) \cup {h[n + 1]}
                BY <4>1, <4>2, Ancestry
            <4>4. replayed[n + 1] = e
                BY <3>4, <3>6, <4>2
            <4>5. IsAncestor(onto, e)
                BY <3>2, <3>3, <4>3, Ancestry
            <4>6. \A i \in 1 .. n + 1 : i \in 1 .. n \/ i = n + 1
                OBVIOUS
            <4>7. \A i \in 1 .. n + 1 : ~Skipped(h[i]) => h[i] \in Patches(e)
                BY <3>2, <3>3, <4>3, <4>6
            <4>. QED
                BY <4>4, <4>5, <4>7
        <3>. QED
            BY <3>5, <3>6
    <2>. HIDE DEF Replayed
    <2>3. Nat \subseteq Replayed
        BY <2>1, <2>2, SetInduction
    <2>. QED
        BY <2>3
<1>11. Good(N)
    <2>. HIDE DEF N, Good
    <2>1. N \in Replayed
        <3>. HIDE DEF Replayed
        <3>. QED
            BY <1>1, <1>10
    <2>. QED
        BY <1>1, <2>1
<1>12. ASSUME NEW p, p \in Patches(h), p \notin Patches(upstream)
       PROVE  p \in Patches(replayed[N])
    <2>1. PICK i \in 1 .. N : p = h[i]
        BY <1>1, <1>12 DEF Patches
    <2>2. CASE p \in Patches(onto)
        BY <1>11, <2>2, Ancestry
    <2>3. CASE p \notin Patches(onto)
        BY <1>11, <1>12, <2>1, <2>3
    <2>. QED
        BY <2>2, <2>3
<1>. QED
    <2>. HIDE DEF N, Good
    <2>1. /\ replayed[N] \in AllCommits
          /\ IsAncestor(onto, replayed[N])
        BY <1>11 DEF Good
    <2>. QED
        BY <1>8, <1>12, <2>1

-----------------------------------------------------------------------------
(* Every step is one of the repository with the wider keys and contents.     *)

(* The facts the handlers read do not depend on who the clients are.         *)
LEMMA SameFacts ==
    /\ Intents = Wide!Intents /\ Versions = Wide!Versions
    /\ \A v : Latest(v) <=> Wide!Latest(v)
    /\ \A v : Promoted(v) <=> Wide!Promoted(v)
    /\ \A i : Spine(i) = Wide!Spine(i)
    /\ \A v : AmendedFrom(v) = Wide!AmendedFrom(v)
    /\ \A n : Resolved(n) <=> Wide!Resolved(n)
    /\ \A v, i : Allows(v, i) <=> Wide!Allows(v, i)
    /\ ChangeMuFree <=> Wide!ChangeMuFree
    /\ PromotionMuFree <=> Wide!PromotionMuFree
    /\ \A k : Unclaimed(k) <=> Wide!Unclaimed(k)
    /\ vars = Wide!vars
<1>1. Intents = Wide!Intents /\ Versions = Wide!Versions /\ vars = Wide!vars
    BY DEF Intents, Versions, vars, ledger, chronicle, changes, judgement, engine, memory,
        promoting, Wide!Intents, Wide!Versions, Wide!vars, Wide!ledger, Wide!chronicle,
        Wide!changes, Wide!judgement, Wide!engine, Wide!memory, Wide!promoting
<1>2. ASSUME NEW v
      PROVE  /\ Latest(v) <=> Wide!Latest(v)
             /\ Promoted(v) <=> Wide!Promoted(v)
    BY <1>1 DEF Latest, Promoted, Wide!Latest, Wide!Promoted
<1>3. ASSUME NEW i
      PROVE  Spine(i) = Wide!Spine(i)
    BY DEF Spine, Wide!Spine
<1>4. ASSUME NEW v
      PROVE  AmendedFrom(v) = Wide!AmendedFrom(v)
    BY DEF AmendedFrom, Wide!AmendedFrom, Versions, Wide!Versions
<1>5. ASSUME NEW n
      PROVE  Resolved(n) <=> Wide!Resolved(n)
    BY <1>1 DEF Resolved, Wide!Resolved
<1>6. ASSUME NEW v, NEW i
      PROVE  Allows(v, i) <=> Wide!Allows(v, i)
    BY DEF Allows, Wide!Allows, Unresolved, Wide!Unresolved
<1>7. /\ ChangeMuFree <=> Wide!ChangeMuFree
      /\ PromotionMuFree <=> Wide!PromotionMuFree
      /\ \A k : Unclaimed(k) <=> Wide!Unclaimed(k)
    BY DEF ChangeMuFree, PromotionMuFree, ExclusiveOps, Unclaimed, Wide!ChangeMuFree,
        Wide!PromotionMuFree, Wide!ExclusiveOps, Wide!Unclaimed
<1>. QED
    BY <1>1, <1>2, <1>3, <1>4, <1>5, <1>6, <1>7

(* The handlers do what they do for any client.                              *)
LEMMA SameRequests ==
    ASSUME NEW k \in AllKeys, NEW c \in AllCommits
    PROVE  /\ \A base \in Intents, deps \in SUBSET Versions :
                  Propose(k, base, c, deps) => Wide!Next
           /\ \A v \in Versions : Amend(k, v, c) => Wide!Next
           /\ \A v \in Versions : RebaseHeldVersion(k, v, c) => Wide!Next
<1>. USE SameFacts DEF AllOperations
<1>1. \A d : Admit(d) <=> Wide!Admit(d)
    BY DEF Admit, ledger, chronicle, changes, judgement, engine, memory, promoting,
        Wide!Admit, Wide!ledger, Wide!chronicle, Wide!changes, Wide!judgement, Wide!engine,
        Wide!memory, Wide!promoting
<1>2. \A op : Client(op) => mode = "serving"
    BY DEF Client
<1>3. \A op : Blank(op, k, c) = Wide!Blank(op, k, c)
    BY DEF Blank, Wide!Blank
<1>4. \A op, v : Successor(op, k, c, v) = Wide!Successor(op, k, c, v)
    BY <1>3 DEF Successor, Wide!Successor
<1>5. /\ mode = "serving" => Wide!Client("propose") /\ Wide!Client("amend") /\ Wide!Client("rebase")
    BY DEF Wide!Client, RecordingOps
<1>6. ASSUME NEW base \in Intents, NEW deps \in SUBSET Versions, Propose(k, base, c, deps)
      PROVE  Wide!Next
    <2>1. Wide!Propose(k, base, c, deps)
        BY <1>1, <1>2, <1>3, <1>5, <1>6 DEF Propose, Wide!Propose
    <2>. QED
        BY <2>1 DEF Wide!Next, Wide!ClientStep
<1>7. ASSUME NEW v \in Versions, Amend(k, v, c)
      PROVE  Wide!Next
    <2>1. Wide!Amend(k, v, c)
        BY <1>1, <1>2, <1>4, <1>5, <1>7 DEF Amend, Wide!Amend
    <2>. QED
        BY <2>1 DEF Wide!Next, Wide!ClientStep
<1>8. ASSUME NEW v \in Versions, RebaseHeldVersion(k, v, c)
      PROVE  Wide!Next
    <2>1. Wide!RebaseHeldVersion(k, v, c)
        BY <1>1, <1>2, <1>4, <1>5, <1>8 DEF RebaseHeldVersion, Wide!RebaseHeldVersion
    <2>. QED
        BY <2>1 DEF Wide!Next, Wide!ClientStep
<1>. QED
    BY <1>6, <1>7, <1>8

(* So do the ledger and the holder of promotionMu.                           *)
LEMMA SameSteps ==
    /\ RecordingStep => Wide!Next
    /\ PromotionStep => Wide!Next
    /\ \A v \in Versions : Promote(v) => Wide!Next
<1>. USE SameFacts
<1>. USE DEF ledger, chronicle, changes, judgement, engine, memory, promoting,
        Wide!ledger, Wide!chronicle, Wide!changes, Wide!judgement, Wide!engine,
        Wide!memory, Wide!promoting
<1>1. \A d : Recordable(d) <=> Wide!Recordable(d)
    BY DEF Recordable, ProposalRecordable, AmendmentRecordable, RebaseRecordable,
        ReconciliationRecordable, ResolutionRecordable, Wide!Recordable,
        Wide!ProposalRecordable, Wide!AmendmentRecordable, Wide!RebaseRecordable,
        Wide!ReconciliationRecordable, Wide!ResolutionRecordable
<1>2. RecordingStep => Wide!RecordingStep
    BY <1>1 DEF RecordingStep, RecordVersion, RefuseVersion, BeginPendingEvaluation, Put,
        Wide!RecordingStep, Wide!RecordVersion, Wide!RefuseVersion,
        Wide!BeginPendingEvaluation, Wide!Put
<1>3. /\ Release <=> Wide!Release
      /\ GiveUp <=> Wide!GiveUp
      /\ \A c : Continue(c) <=> Wide!Continue(c)
    BY DEF Release, GiveUp, Down, Continue, NoPlan, Wide!Release, Wide!GiveUp, Wide!Down,
        Wide!Continue, Wide!NoPlan
<1>4. PreparePromotion \/ RefusePromotion => Wide!PromotionStep
    BY <1>3 DEF PreparePromotion, RefusePromotion, Preparable, Dequeue, Wide!PromotionStep,
        Wide!PreparePromotion, Wide!RefusePromotion, Wide!Preparable, Wide!Dequeue
<1>5. ReadTrunk \/ AdvanceTrunk \/ AdvanceOvertaken \/ RereadTrunk => Wide!PromotionStep
    BY <1>3 DEF ReadTrunk, AdvanceTrunk, AdvanceOvertaken, RereadTrunk, FromContent,
        TrunkUnmoved, Wide!PromotionStep, Wide!ReadTrunk, Wide!AdvanceTrunk,
        Wide!AdvanceOvertaken, Wide!RereadTrunk, Wide!FromContent, Wide!TrunkUnmoved
<1>6. CompletePromotion \/ Remember => Wide!PromotionStep
    BY <1>3 DEF CompletePromotion, Complete, Remember, Put, Dequeue, Wide!PromotionStep,
        Wide!CompletePromotion, Wide!Complete, Wide!Remember, Wide!Put, Wide!Dequeue
<1>7. ASSUME NEW v \in Versions, Promote(v)
      PROVE  Wide!Promote(v)
    <2>1. Wide!Client("promote")
        BY <1>7 DEF Promote, Client, Wide!Client, AllOperations
    <2>2. Wide!Promotable(v)
        BY <1>7 DEF Promote, Promotable, Wide!Promotable
    <2>. QED
        BY <1>7, <2>1, <2>2 DEF Promote, Wide!Promote
<1>. QED
    BY <1>2, <1>4, <1>5, <1>6, <1>7 DEF PromotionStep, Wide!Next, Wide!ClientStep

(* What is typed in Repository, and where, in the words of this module.      *)
LEMMA RepositoryTyped ==
    ASSUME Wide!TypeOK, Wide!VersionsRelated
    PROVE  /\ Versions \subseteq Nat /\ Intents \subseteq Nat /\ Intents = 1 .. Len(revisions)
           /\ current \in Intents /\ Len(pins) \in Nat
           /\ \A i \in Intents : ContentOf(i) \in AllCommits
           /\ \A v \in Versions :
                  /\ versions[v].content \in AllCommits
                  /\ versions[v].base \in Intents
                  /\ versions[v].from \in {0} \cup Versions
           /\ \A d \in inFlight : d \in Wide!Draft
<1>1. /\ Versions \subseteq Nat /\ Intents \subseteq Nat /\ Intents = 1 .. Len(revisions)
      /\ Len(pins) \in Nat
    BY WideAssumptions, SameFacts, Wide!Numbered
<1>2. current \in Intents
    BY SameFacts DEF Wide!TypeOK
<1>3. ASSUME NEW i \in Intents
      PROVE  ContentOf(i) \in AllCommits
    <2>1. revisions \in Seq([prev : Nat, content : AllCommits])
        BY DEF Wide!TypeOK
    <2>2. revisions[i] \in [prev : Nat, content : AllCommits]
        <3>1. PICK T : T = [prev : Nat, content : AllCommits]
            OBVIOUS
        <3>2. revisions \in Seq(T) /\ i \in DOMAIN revisions
            BY <1>3, <2>1, <3>1 DEF Intents
        <3>3. revisions[i] \in T
            BY <3>2
        <3>. QED
            BY <3>1, <3>3
    <2>. QED
        BY <2>2 DEF ContentOf
<1>4. ASSUME NEW v \in Versions
      PROVE  /\ versions[v].content \in AllCommits
             /\ versions[v].base \in Intents
             /\ versions[v].from \in {0} \cup Versions
    <2>1. versions[v] \in Wide!Draft
        BY SameFacts DEF Wide!TypeOK
    <2>2. versions[v].content \in AllCommits
        BY <2>1 DEF Wide!Draft
    <2>. QED
        BY <2>2, SameFacts DEF Wide!VersionsRelated
<1>5. \A d \in inFlight : d \in Wide!Draft
    BY DEF Wide!TypeOK
<1>. QED
    BY <1>1, <1>2, <1>3, <1>4, <1>5

(* The keys grd and the others choose.                                       *)
LEMMA KeysChosen ==
    /\ OtherKeys \subseteq AllKeys
    /\ \A i \in Nat, h \in AllCommits, deps \in Seq(Nat) :
           <<"submit", i, h, deps>> \in AllKeys /\ <<"submit", i, h, deps>> \notin OtherKeys
    /\ \A u \in Nat, i \in Nat, h \in AllCommits :
           <<"held", u, i, h, "rebase">> \in AllKeys /\ <<"held", u, i, h, "rebase">> \notin OtherKeys
    BY DEF AllKeys, OtherKeys

(* What the commands read and send is what any client may; so every step of  *)
(* theirs is a step of that repository, or leaves it alone.                  *)
LEMMA WideSteps ==
    ASSUME Wide!TypeOK, Wide!VersionsRelated, CheckoutTyped, HostServes, Follows(tool),
           [WorkspaceNext]_workspaceVars
    PROVE  [Wide!Next]_(Wide!vars)
<1>. USE SameFacts
<1>1. /\ tool.head \in AllCommits /\ tool.target \in AllCommits /\ tool.intent \in Nat
      /\ tool.version \in Nat /\ tool.deps \in Seq(Nat)
      /\ Listed(tool.deps) \subseteq Versions
      /\ tool.at = "proposing" => tool.intent \in Intents
      /\ tool.at = "rebase" => tool.version \in Versions
    BY DEF CheckoutTyped, CommandType, Follows
<1>2. UNCHANGED vars => UNCHANGED Wide!vars
    BY DEF vars, ledger, chronicle, changes, judgement, engine, memory,
        promoting, Wide!vars, Wide!ledger, Wide!chronicle,
        Wide!changes, Wide!judgement, Wide!engine, Wide!memory, Wide!promoting
<1>3. CASE UNCHANGED workspaceVars
    BY <1>2, <1>3 DEF workspaceVars
<1>4. CASE Edit \/ \E p \in Mine : Commit(p)
    BY <1>2, <1>4 DEF Edit, Commit
<1>5. CASE \E deps \in DependencyLists : Submit(deps)
    BY <1>2, <1>5 DEF Submit
<1>6. CASE AskIntentToSubmit \/ ProposalReceived \/ AskIntentToSync \/ ReadHistory \/ AskChange
           \/ Compare \/ FindRecorded \/ RebaseReceived
           \/ InspectHead \/ InspectStatus \/ Reset \/ ProjectClean \/ Aborted
    BY <1>2, <1>6 DEF AskIntentToSubmit, ProposalReceived, AskIntentToSync, ReadHistory, AskChange,
        Compare, FindRecorded, RebaseReceived, InspectHead, InspectStatus, Reset, ProjectClean,
        Aborted
<1>7. CASE \E v \in {0} \cup Versions : Sync(v)
    BY <1>2, <1>7 DEF Sync
<1>8. CASE SendProposal
    <2>1. SubmitKey \in AllKeys
        BY <1>1, KeysChosen DEF SubmitKey
    <2>. QED
        BY <1>1, <1>8, <2>1, SameRequests DEF SendProposal
<1>9. CASE SendRebase
    <2>1. HeldKey \in AllKeys
        BY <1>1, KeysChosen DEF HeldKey
    <2>. QED
        BY <1>1, <1>9, <2>1, SameRequests DEF SendRebase
<1>10. CASE OtherClients
    <2>1. PICK k \in OtherKeys :
              \/ \E p \in Theirs : Propose(k, current, Append(ContentOf(current), p), {})
              \/ \E v \in Versions, p \in Theirs :
                     Amend(k, v, Append(ContentOf(versions[v].base), p))
              \/ \E v \in Versions :
                     RebaseHeldVersion(k, v, Rebased(versions[v].content, ContentOf(current),
                                                     ContentOf(versions[v].base)))
        BY <1>10 DEF OtherClients, ContentOf
    <2>2. k \in AllKeys
        BY <2>1, KeysChosen
    <2>3. CASE \E p \in Theirs : Propose(k, current, Append(ContentOf(current), p), {})
        <3>1. PICK p \in Theirs : Propose(k, current, Append(ContentOf(current), p), {})
            BY <2>3
        <3>2. Append(ContentOf(current), p) \in AllCommits /\ current \in Intents
            BY RepositoryTyped, Ancestry
        <3>. QED
            BY <2>2, <3>1, <3>2, SameRequests
    <2>4. CASE \E v \in Versions, p \in Theirs :
                   Amend(k, v, Append(ContentOf(versions[v].base), p))
        <3>1. PICK v \in Versions, p \in Theirs :
                  Amend(k, v, Append(ContentOf(versions[v].base), p))
            BY <2>4
        <3>2. Append(ContentOf(versions[v].base), p) \in AllCommits
            BY RepositoryTyped, Ancestry
        <3>. QED
            BY <2>2, <3>1, <3>2, SameRequests
    <2>5. CASE \E v \in Versions :
                   RebaseHeldVersion(k, v, Rebased(versions[v].content, ContentOf(current),
                                                   ContentOf(versions[v].base)))
        <3>1. PICK v \in Versions :
                  RebaseHeldVersion(k, v, Rebased(versions[v].content, ContentOf(current),
                                                  ContentOf(versions[v].base)))
            BY <2>5
        <3>2. Rebased(versions[v].content, ContentOf(current), ContentOf(versions[v].base))
                  \in AllCommits
            BY RepositoryTyped, Replays
        <3>. QED
            BY <2>2, <3>1, <3>2, SameRequests
    <2>. QED
        BY <2>1, <2>3, <2>4, <2>5
<1>11. CASE RunnerPromotes
    BY <1>11, SameSteps DEF RunnerPromotes
<1>12. CASE (RecordingStep \/ PromotionStep) /\ UNCHANGED <<checkout, tool>>
    BY <1>12, SameSteps
<1>. QED
    BY <1>3, <1>4, <1>5, <1>6, <1>7, <1>8, <1>9, <1>10, <1>11, <1>12 DEF WorkspaceNext, ToolStep

-----------------------------------------------------------------------------
(* What was told stays true, whatever is recorded meanwhile.                 *)

Grows ==
    /\ Versions \subseteq Versions'
    /\ \A v \in Versions : versions'[v] = versions[v]
    /\ Intents \subseteq Intents'
    /\ \A i \in Intents : revisions'[i] = revisions[i]

(* Nothing recorded is forgotten or rewritten.                               *)
LEMMA RepositoryGrows ==
    ASSUME Wide!TypeOK, Wide!Protocol, Wide!DraftFresh, [Wide!Next]_(Wide!vars)
    PROVE  Grows
<1>1. Wide!Kept
    BY WideAssumptions, Wide!RecordsKept
<1>. QED
    BY <1>1 DEF Wide!Kept, Grows, Intents, Versions, Wide!Intents, Wide!Versions

(* So a rebase asked for again has the same result.                          *)
LEMMA CandidateStays ==
    ASSUME Grows, NEW u \in Versions, NEW i \in Intents, NEW h,
           versions[u].base \in Intents
    PROVE  /\ u \in Versions' /\ i \in Intents'
           /\ ContentOf(i)' = ContentOf(i)
           /\ Candidate(u, i, h)' = Candidate(u, i, h)
<1>1. /\ u \in Versions' /\ i \in Intents'
      /\ revisions'[i] = revisions[i]
      /\ versions'[u] = versions[u]
      /\ revisions'[versions[u].base] = revisions[versions[u].base]
    BY DEF Grows
<1>. QED
    BY <1>1 DEF ContentOf, Candidate

(* What was superseded stays so.                                             *)
LEMMA SupersededStays ==
    ASSUME Grows, NEW p, Superseded(p)
    PROVE  Superseded(p)'
<1>1. PICK v \in Versions : p \in Patches(versions[v].content) /\ ~Latest(v)
    BY DEF Superseded
<1>2. PICK w \in Versions : versions[w].change = versions[v].change /\ ~(w <= v)
    BY <1>1 DEF Latest
<1>3. /\ v \in Versions' /\ w \in Versions'
      /\ versions'[v] = versions[v] /\ versions'[w] = versions[w]
    BY DEF Grows
<1>4. ~Latest(v)'
    BY <1>2, <1>3 DEF Latest
<1>. QED
    BY <1>1, <1>3, <1>4 DEF Superseded

(* What a command was told stays true.                                       *)
LEMMA FollowsStays ==
    ASSUME Wide!TypeOK, Wide!VersionsRelated, Grows, NEW x, Follows(x)
    PROVE  Follows(x)'
<1>. USE DEF Follows
<1>1. /\ Versions \subseteq Versions' /\ Intents \subseteq Intents'
      /\ \A v \in Versions : versions'[v] = versions[v] /\ versions[v].base \in Intents
      /\ \A i \in Intents : ContentOf(i)' = ContentOf(i)
    BY RepositoryTyped DEF Grows, ContentOf
<1>2. \A p : Superseded(p) => Superseded(p)'
    BY SupersededStays
<1>3. Listed(x.deps) \subseteq Versions' /\ Distinct(x.deps) /\ {x.version, x.to} \subseteq {0} \cup Versions'
    BY <1>1
<1>4. x.at \notin {"idle", "propose", "intent"} =>
          x.intent \in Intents' /\ ContentOf(x.intent)' = ContentOf(x.intent)
    BY <1>1
<1>5. ASSUME NEW v \in {x.version, x.to}, v # 0
      PROVE  v \in Versions /\ versions'[v] = versions[v]
    BY <1>1, <1>5
<1>6. x.at \in {"rebase", "recording"} =>
          Candidate(x.version, x.intent, x.head)' = Candidate(x.version, x.intent, x.head)
    BY <1>1, <1>5, CandidateStays
<1>7. x.at \in Projecting => \A p \in Patches(x.head) : p \in Patches(x.target) \/ Superseded(p)'
    BY <1>2
<1>. HIDE DEF Follows
<1>8. (x.at = "proposing" => IsAncestor(ContentOf(x.intent), x.head))'
    BY <1>4 DEF Follows
<1>9. (x.at \in {"change", "compare", "rebase", "recording", "synced"} \cup Projecting =>
           x.version # 0)'
    BY DEF Follows
<1>10. (x.at = "compare" /\ x.to # 0 =>
            x.version = x.to /\ IsAncestor(versions[x.to].content, x.head))'
    BY <1>5 DEF Follows
<1>11. (x.at \in {"rebase", "recording"} =>
            x.target = Candidate(x.version, x.intent, x.head))'
    BY <1>6 DEF Follows
<1>12. (x.at \in Projecting =>
           /\ x.to # 0 /\ IsAncestor(versions[x.to].content, x.target)
           /\ x.then = "compare" => x.version = x.to
           /\ x.then = "synced" => IsAncestor(ContentOf(x.intent), x.target)
           /\ \A p \in Patches(x.head) : p \in Patches(x.target) \/ Superseded(p))'
    BY <1>4, <1>5, <1>7 DEF Follows, Projecting
<1>13. (x.at = "synced" =>
           /\ x.to # 0 \/ IsAncestor(versions[x.version].content, x.head) =>
                  IsAncestor(ContentOf(x.intent), x.head)
           /\ x.to # 0 => IsAncestor(versions[x.to].content, x.head))'
    <2>1. CASE x.at = "synced"
        <3>1. versions'[x.version] = versions[x.version] /\ ContentOf(x.intent)' = ContentOf(x.intent)
            BY <2>1, <1>4, <1>5 DEF Follows
        <3>. QED
            BY <3>1, <1>5 DEF Follows
    <2>. QED
        BY <2>1
<1>14. (/\ x.at \in {"propose", "proposing", "intent", "history", "change"} => x.to = 0
        /\ x.at \in {"status", "reset"} => x.found = x.head)'
    BY DEF Follows
<1>. QED
    BY <1>3, <1>4, <1>8, <1>9, <1>10, <1>11, <1>12, <1>13, <1>14 DEF Follows

-----------------------------------------------------------------------------
(* What is recorded.                                                         *)

(* A rebase puts the commit on top of the accepted content.                  *)
LEMMA CandidateAbove ==
    ASSUME Wide!TypeOK, Wide!VersionsRelated,
           NEW u \in Versions, NEW i \in Intents, NEW h \in AllCommits
    PROVE  /\ Candidate(u, i, h) \in AllCommits
           /\ IsAncestor(ContentOf(i), Candidate(u, i, h))
    BY RepositoryTyped, Replays DEF Candidate

(* Draft d is in flight now.                                                 *)
Sent(d, op, k, c, base) ==
    /\ inFlight' = {d} /\ UNCHANGED <<versions, mode, memCurrent>>
    /\ d.op = op /\ d.key = k /\ d.content = c /\ d.base = base

(* What the handlers admit of a request.                                     *)
LEMMA Admitted ==
    ASSUME NEW k, NEW c
    PROVE  /\ \A base, deps : Propose(k, base, c, deps) =>
                  \E d : Sent(d, "propose", k, c, base) /\ d.deps = deps
           /\ \A v : Amend(k, v, c) => \E d : Sent(d, "amend", k, c, versions[v].base)
           /\ \A v : RebaseHeldVersion(k, v, c) =>
                  \E d : Sent(d, "rebase", k, c, current) /\ d.from = v
<1>. USE DEF Admit, ledger, changes, memory, Sent
<1>1. ASSUME NEW base, NEW deps, Propose(k, base, c, deps)
      PROVE  \E d : Sent(d, "propose", k, c, base) /\ d.deps = deps
    <2>. DEFINE d == [Blank("propose", k, c) EXCEPT !.base = base, !.deps = deps]
    <2>1. inFlight' = {d} /\ UNCHANGED <<versions, mode, memCurrent>>
        BY <1>1 DEF Propose
    <2>2. d.key = k /\ d.content = c /\ d.op = "propose" /\ d.base = base /\ d.deps = deps
        BY DEF Blank
    <2>. QED
        BY <2>1, <2>2
<1>2. ASSUME NEW v, Amend(k, v, c)
      PROVE  \E d : Sent(d, "amend", k, c, versions[v].base)
    <2>. DEFINE d == [Successor("amend", k, c, v) EXCEPT !.base = versions[v].base]
    <2>1. inFlight' = {d} /\ UNCHANGED <<versions, mode, memCurrent>>
        BY <1>2 DEF Amend
    <2>2. d.key = k /\ d.content = c /\ d.op = "amend" /\ d.base = versions[v].base
        BY DEF Successor, Blank
    <2>. QED
        BY <2>1, <2>2
<1>3. ASSUME NEW v, RebaseHeldVersion(k, v, c)
      PROVE  \E d : Sent(d, "rebase", k, c, current) /\ d.from = v
    <2>. DEFINE d == Successor("rebase", k, c, v)
    <2>1. inFlight' = {d} /\ UNCHANGED <<versions, mode, memCurrent>>
        BY <1>3 DEF RebaseHeldVersion
    <2>2. d.key = k /\ d.content = c /\ d.op = "rebase" /\ d.base = current /\ d.from = v
        BY DEF Successor, Blank
    <2>. QED
        BY <2>1, <2>2
<1>. QED
    BY <1>1, <1>2, <1>3

(* What was well made stays so.                                              *)
LEMMA WellMadeStays ==
    ASSUME Wide!TypeOK, Wide!VersionsRelated, Grows,
           NEW d, d.base \in Intents, WellMade(d)
    PROVE  WellMade(d)'
<1>1. IsAncestor(ContentOf(d.base), d.content)'
    BY DEF WellMade, Grows, ContentOf
<1>2. ASSUME NEW u, NEW i, NEW h, d.key = <<"held", u, i, h, "rebase">>
      PROVE  /\ u \in Versions' /\ i \in Intents'
             /\ d.op = "rebase" /\ d.from = u
             /\ d.content = Candidate(u, i, h)'
    <2>1. /\ u \in Versions /\ i \in Intents
          /\ d.op = "rebase" /\ d.from = u
          /\ d.content = Candidate(u, i, h)
        BY <1>2 DEF WellMade
    <2>2. versions[u].base \in Intents
        BY <2>1, RepositoryTyped
    <2>. QED
        BY <2>1, <2>2, CandidateStays
<1>. QED
    BY <1>1, <1>2 DEF WellMade

(* Nothing but a request that was sent puts a Draft in flight, and only the  *)
(* ledger makes it a Version; the host goes on serving what was accepted.    *)
LEMMA Handled ==
    ASSUME HostServes, [WorkspaceNext]_workspaceVars
    PROVE  \/ /\ UNCHANGED versions /\ inFlight' \in {inFlight, {}}
              /\ mode' = mode
              /\ memCurrent' = memCurrent \/ (promoter = "remember" /\ memCurrent' = plan.to)
           \/ RecordVersion
           \/ SendProposal \/ SendRebase \/ OtherClients
<1>. USE DEF vars, ledger, changes, memory
<1>1. CASE UNCHANGED workspaceVars
    BY <1>1 DEF workspaceVars
<1>2. CASE Edit \/ \E p \in Mine : Commit(p)
    BY <1>2 DEF Edit, Commit
<1>3. CASE \/ \E deps \in DependencyLists : Submit(deps)
           \/ \E v \in {0} \cup Versions : Sync(v)
    BY <1>3 DEF Submit, Sync
<1>4. CASE \/ AskIntentToSubmit \/ ProposalReceived \/ AskIntentToSync \/ ReadHistory \/ AskChange
           \/ Compare \/ FindRecorded \/ RebaseReceived
           \/ InspectHead \/ InspectStatus \/ Reset \/ ProjectClean \/ Aborted
    BY <1>4 DEF AskIntentToSubmit, ProposalReceived, AskIntentToSync, ReadHistory, AskChange,
        Compare, FindRecorded, RebaseReceived, InspectHead, InspectStatus, Reset, ProjectClean,
        Aborted
<1>5. CASE RunnerPromotes
    BY <1>5 DEF RunnerPromotes, Promote
<1>6. CASE RefuseVersion
    BY <1>6 DEF RefuseVersion
<1>7. CASE PreparePromotion \/ RefusePromotion \/ ReadTrunk \/ AdvanceTrunk \/ AdvanceOvertaken
           \/ RereadTrunk
    BY <1>7 DEF PreparePromotion, RefusePromotion, ReadTrunk, AdvanceTrunk, AdvanceOvertaken,
        RereadTrunk, Continue, GiveUp, Release, HostServes
<1>8. CASE CompletePromotion \/ Remember
    BY <1>8 DEF CompletePromotion, Complete, Remember, Release
<1>. QED
    BY <1>1, <1>2, <1>3, <1>4, <1>5, <1>6, <1>7, <1>8
    DEF WorkspaceNext, ToolStep, RecordingStep, PromotionStep

(* The host goes on serving an accepted Intent.                              *)
LEMMA ServesStep ==
    ASSUME Wide!IInv, Wide!LInv, Grows, HostServes, [WorkspaceNext]_workspaceVars
    PROVE  HostServes'
<1>1. promoter = "remember" => plan.to \in Intents
    <2>1. current \in Intents
        BY RepositoryTyped DEF Wide!IInv, Wide!LInv
    <2>. QED
        BY <2>1 DEF Wide!IInv, Wide!PlanMatches
<1>2. mode' = mode /\ memCurrent' \in {memCurrent} \cup Intents
    <2>1. CASE RecordVersion
        BY <2>1 DEF RecordVersion, memory
    <2>2. CASE SendProposal \/ SendRebase \/ OtherClients
        BY <2>2, Admitted DEF Sent, SendProposal, SendRebase, OtherClients
    <2>. QED
        BY <1>1, <2>1, <2>2, Handled
<1>. QED
    BY <1>2 DEF HostServes, Grows

(* A request of grd, or of another client, makes a Version on top of the     *)
(* accepted content it is based on, and its key says what it asks for.       *)
LEMMA RequestsWellMade ==
    ASSUME Wide!TypeOK, Wide!VersionsRelated, CheckoutTyped, Follows(tool),
           SendProposal \/ SendRebase \/ OtherClients
    PROVE  \E d : /\ inFlight' = {d} /\ UNCHANGED versions
                  /\ d.base \in Intents /\ WellMade(d)
<1>. USE DEF Sent
<1>1. /\ current \in Intents /\ tool.head \in AllCommits
      /\ \A i \in Intents : ContentOf(i) \in AllCommits
      /\ \A v \in Versions : /\ versions[v].base \in Intents
                             /\ versions[v].content \in AllCommits
    BY RepositoryTyped DEF CheckoutTyped, CommandType
<1>2. CASE SendProposal
    <2>1. PICK d : Sent(d, "propose", SubmitKey, tool.head, tool.intent) 
                     /\ d.deps = Listed(tool.deps)
        BY <1>2, Admitted DEF SendProposal
    <2>2. d.key[1] = "submit" /\ d.key = <<"submit", d.base, d.content, tool.deps>>
        BY <2>1 DEF SubmitKey
    <2>5. tool.deps \in Seq(Nat) /\ Distinct(tool.deps)
        BY DEF CheckoutTyped, CommandType, Follows
    <2>3. tool.intent \in Intents /\ IsAncestor(ContentOf(tool.intent), tool.head)
        BY <1>2 DEF SendProposal, Follows
    <2>4. \A u, i, h : d.key # <<"held", u, i, h, "rebase">>
        BY <2>2
    <2>. QED
        BY <2>1, <2>2, <2>3, <2>4, <2>5 DEF WellMade
<1>3. CASE SendRebase
    <2>1. PICK d : Sent(d, "rebase", HeldKey, tool.target, current) /\ d.from = tool.version
        BY <1>3, Admitted DEF SendRebase
    <2>2. /\ tool.intent = current /\ tool.version \in Versions
          /\ tool.target = Candidate(tool.version, tool.intent, tool.head)
        BY <1>3 DEF SendRebase, Follows
    <2>3. IsAncestor(ContentOf(d.base), d.content)
        BY <1>1, <2>1, <2>2, CandidateAbove
    <2>4. ASSUME NEW u, NEW i, NEW h, d.key = <<"held", u, i, h, "rebase">>
          PROVE  u = tool.version /\ i = tool.intent /\ h = tool.head
        <3>1. <<"held", u, i, h, "rebase">> =
                  <<"held", tool.version, tool.intent, tool.head, "rebase">>
            BY <2>1, <2>4 DEF HeldKey
        <3>. QED
            BY <3>1
    <2>5. /\ inFlight' = {d} /\ UNCHANGED versions /\ d.base \in Intents
          /\ d.op = "rebase" /\ d.from = tool.version /\ d.content = tool.target
        BY <1>1, <2>1
    <2>6. ASSUME NEW u, NEW i, NEW h, d.key = <<"held", u, i, h, "rebase">>
          PROVE  /\ u \in Versions /\ i \in Intents
                 /\ d.op = "rebase" /\ d.from = u
                 /\ d.content = Candidate(u, i, h)
        BY <1>1, <2>2, <2>4, <2>5, <2>6
    <2>7. WellMade(d)
        BY <2>3, <2>5, <2>6 DEF WellMade
    <2>. QED
        BY <2>5, <2>7
<1>4. CASE OtherClients
    <2>1. PICK k \in OtherKeys :
              \/ \E p \in Theirs : Propose(k, current, Append(ContentOf(current), p), {})
              \/ \E v \in Versions, p \in Theirs :
                     Amend(k, v, Append(ContentOf(versions[v].base), p))
              \/ \E v \in Versions :
                     RebaseHeldVersion(k, v, Rebased(versions[v].content, ContentOf(current),
                                                     ContentOf(versions[v].base)))
        BY <1>4 DEF OtherClients, ContentOf
    <2>2. \A u, i, h : k # <<"held", u, i, h, "rebase">>
        BY DEF OtherKeys
    <2>3. \E d, op, c, i : Sent(d, op, k, c, i) /\ i \in Intents /\ IsAncestor(ContentOf(i), c)
        <3>1. CASE \E p \in Theirs : Propose(k, current, Append(ContentOf(current), p), {})
            <4>1. PICK p \in Theirs : Propose(k, current, Append(ContentOf(current), p), {})
                BY <3>1
            <4>2. PICK c : c = Append(ContentOf(current), p)
                OBVIOUS
            <4>3. IsAncestor(ContentOf(current), c)
                BY <1>1, <4>2, Ancestry
            <4>. QED
                BY <1>1, <4>1, <4>2, <4>3, Admitted
        <3>2. CASE \E v \in Versions, p \in Theirs :
                       Amend(k, v, Append(ContentOf(versions[v].base), p))
            <4>1. PICK v \in Versions, p \in Theirs :
                      Amend(k, v, Append(ContentOf(versions[v].base), p))
                BY <3>2
            <4>2. PICK c : c = Append(ContentOf(versions[v].base), p)
                OBVIOUS
            <4>3. IsAncestor(ContentOf(versions[v].base), c)
                BY <1>1, <4>2, Ancestry
            <4>. HIDE DEF Sent
            <4>4. \E d : Sent(d, "amend", k, c, versions[v].base)
                BY <4>1, <4>2, Admitted
            <4>. QED
                BY <1>1, <4>3, <4>4
        <3>3. CASE \E v \in Versions :
                       RebaseHeldVersion(k, v, Rebased(versions[v].content, ContentOf(current),
                                                       ContentOf(versions[v].base)))
            <4>1. PICK v \in Versions :
                      RebaseHeldVersion(k, v, Rebased(versions[v].content, ContentOf(current),
                                                      ContentOf(versions[v].base)))
                BY <3>3
            <4>2. PICK c : c = Rebased(versions[v].content, ContentOf(current),
                                       ContentOf(versions[v].base))
                OBVIOUS
            <4>3. IsAncestor(ContentOf(current), c)
                BY <1>1, <4>2, Replays
            <4>. QED
                BY <1>1, <4>1, <4>2, <4>3, Admitted
        <3>. QED
            BY <2>1, <3>1, <3>2, <3>3
    <2>. QED
        BY <2>2, <2>3 DEF WellMade
<1>. QED
    BY <1>2, <1>3, <1>4

(* So every recorded Version is well made.                                   *)
LEMMA WellMadeStep ==
    ASSUME Wide!IInv, Wide!LInv, CheckoutTyped, HostServes, AllWellMade, Follows(tool),
           Grows, [WorkspaceNext]_workspaceVars
    PROVE  AllWellMade'
<1>1. Wide!TypeOK /\ Wide!VersionsRelated /\ Wide!DraftRelated
    BY DEF Wide!IInv, Wide!LInv
<1>2. \A v \in Versions : versions[v].base \in Intents
    BY <1>1, RepositoryTyped
<1>3. \A d \in inFlight : d.base \in Intents
    BY <1>1, <1>2, SameFacts DEF Wide!DraftRelated, Wide!Related
<1>4. \A d : d.base \in Intents /\ WellMade(d) => WellMade(d)'
    BY <1>1, WellMadeStays
<1>5. CASE UNCHANGED versions /\ inFlight' \in {inFlight, {}}
    BY <1>2, <1>3, <1>4, <1>5 DEF AllWellMade, Versions
<1>6. CASE RecordVersion
    <2>1. PICK d \in inFlight : versions' = Put(versions, Len(pins), d) /\ inFlight' = {}
        BY <1>6 DEF RecordVersion
    <2>2. \A v \in Versions' : versions'[v] = d \/ (v \in Versions /\ versions'[v] = versions[v])
        BY <2>1 DEF Put, Versions
    <2>. QED
        BY <1>2, <1>3, <1>4, <2>1, <2>2 DEF AllWellMade
<1>7. CASE SendProposal \/ SendRebase \/ OtherClients
    <2>1. PICK d : inFlight' = {d} /\ UNCHANGED versions /\ d.base \in Intents /\ WellMade(d)
        BY <1>1, <1>7, RequestsWellMade
    <2>. QED
        BY <1>2, <1>4, <2>1 DEF AllWellMade, Versions
<1>. QED
    BY <1>5, <1>6, <1>7, Handled

-----------------------------------------------------------------------------
(* What a command does next.                                                 *)

(* What the command may be next.                                             *)
GoesOn(y) == y \in CommandType /\ Follows(y)

(* A list of dependencies is one of Versions, none of them twice.            *)
LEMMA NothingListed == <<>> \in Seq(Nat) /\ Distinct(<<>>) /\ Listed(<<>>) = {}
    BY DEF Distinct, Listed

LEMMA ListedOnce ==
    ASSUME Versions \subseteq Nat, NEW deps \in DependencyLists
    PROVE  deps \in Seq(Nat) /\ Distinct(deps) /\ Listed(deps) \subseteq Versions
<1>1. PICK n \in Nat : deps \in [1 .. n -> Versions]
    BY DEF DependencyLists
<1>2. Distinct(deps)
    BY DEF DependencyLists
<1>3. deps \in Seq(Nat)
    <2>1. deps \in [1 .. n -> Nat]
        BY <1>1
    <2>. QED
        BY <2>1
<1>4. Listed(deps) \subseteq Versions
    BY <1>1 DEF Listed
<1>. QED
    BY <1>2, <1>3, <1>4

(* A command that ends, and one that begins.                                 *)
LEMMA Begins ==
    ASSUME Wide!TypeOK, Wide!VersionsRelated, CheckoutTyped
    PROVE  /\ GoesOn(NoCommand)
           /\ \A deps \in DependencyLists :
                  GoesOn([NoCommand EXCEPT !.at = "propose", !.head = head, !.deps = deps])
           /\ \A v \in {0} \cup Versions :
                  GoesOn([NoCommand EXCEPT !.at = "intent", !.head = head, !.version = v])
<1>1. InitialContent \in AllCommits /\ head \in AllCommits /\ Versions \subseteq Nat
    BY WideAssumptions, RepositoryTyped DEF Wide!ContentAssumption, CheckoutTyped
<1>2. GoesOn(NoCommand)
    BY <1>1, NothingListed DEF GoesOn, NoCommand, CommandType, Follows, Projecting
<1>3. ASSUME NEW deps \in DependencyLists
      PROVE  GoesOn([NoCommand EXCEPT !.at = "propose", !.head = head, !.deps = deps])
    <2>1. deps \in Seq(Nat) /\ Distinct(deps) /\ Listed(deps) \subseteq Versions
        BY <1>1, ListedOnce
    <2>. DEFINE y == [NoCommand EXCEPT !.at = "propose", !.head = head, !.deps = deps]
    <2>2. y \in CommandType
        BY <1>1, <2>1 DEF NoCommand, CommandType
    <2>3. y.at = "propose" /\ y.version = 0 /\ y.to = 0 /\ y.deps = deps
        BY DEF NoCommand
    <2>. HIDE DEF y
    <2>4. Follows(y)
        BY <2>1, <2>3 DEF Follows, Projecting
    <2>5. GoesOn(y)
        BY <2>2, <2>4 DEF GoesOn
    <2>. QED
        BY <2>5 DEF y
<1>4. ASSUME NEW v \in {0} \cup Versions
      PROVE  GoesOn([NoCommand EXCEPT !.at = "intent", !.head = head, !.version = v])
    <2>. DEFINE y == [NoCommand EXCEPT !.at = "intent", !.head = head, !.version = v]
    <2>1. v \in Nat
        BY <1>1
    <2>2. y \in CommandType
        BY <1>1, <2>1, NothingListed DEF NoCommand, CommandType
    <2>3. y.at = "intent" /\ y.version = v /\ y.to = 0 /\ y.deps = <<>>
        BY DEF NoCommand
    <2>. HIDE DEF y
    <2>4. Follows(y)
        BY <2>3, NothingListed DEF Follows, Projecting
    <2>5. GoesOn(y)
        BY <2>2, <2>4 DEF GoesOn
    <2>. QED
        BY <2>5 DEF y
<1>. QED
    BY <1>2, <1>3, <1>4

(* The accepted Intent is asked for, and the history read.                   *)
LEMMA Asks ==
    ASSUME Wide!TypeOK, Wide!VersionsRelated, Wide!DraftRelated, Wide!DraftFresh,
           CheckoutTyped, HostServes, Follows(tool),
           AskIntentToSubmit \/ AskIntentToSync \/ ReadHistory
    PROVE  \E y : tool' = y /\ GoesOn(y)
<1>1. PICK x \in CommandType : x = tool
    BY DEF CheckoutTyped
<1>2. /\ memCurrent \in Nat /\ memCurrent \in Intents /\ Versions \subseteq Nat
      /\ 0 \notin Versions /\ Len(pins) \in Nat
    BY RepositoryTyped, SameFacts DEF HostServes, Wide!TypeOK
<1>3. GoesOn(NoCommand)
    BY Begins
<1>4. CASE AskIntentToSubmit
    <2>. DEFINE y == [x EXCEPT !.at = "proposing", !.intent = memCurrent]
    <2>1. CASE tool' = NoCommand
        BY <1>3, <2>1
    <2>2. CASE tool' = y /\ IsAncestor(ContentOf(memCurrent), x.head) /\ x.at = "propose"
        <3>1. y \in CommandType
            BY <1>2 DEF CommandType
        <3>2. Follows(y)
            BY <1>1, <1>2, <2>2 DEF Follows, Projecting, CommandType
        <3>. QED
            BY <2>2, <3>1, <3>2 DEF GoesOn
    <2>. QED
        BY <1>1, <1>4, <2>1, <2>2 DEF AskIntentToSubmit, Quit, ContentOf
<1>5. CASE AskIntentToSync
    <2>. DEFINE y == [x EXCEPT !.at = "history", !.intent = memCurrent]
    <2>1. tool' = y /\ x.at = "intent"
        BY <1>1, <1>5 DEF AskIntentToSync
    <2>2. y \in CommandType
        BY <1>2 DEF CommandType
    <2>3. Follows(y)
        BY <1>1, <1>2, <2>1 DEF Follows, Projecting, CommandType
    <2>. QED
        BY <2>1, <2>2, <2>3 DEF GoesOn
<1>6. CASE ReadHistory
    <2>. DEFINE chosen == IF x.version # 0 THEN {x.version} ELSE Pending(x.head)
                seen == Len(pins) - Cardinality(inFlight)
                v == CHOOSE v \in chosen : TRUE
                y == [x EXCEPT !.at = "change", !.seen = seen, !.version = v]
    <2>1. CASE tool' = NoCommand
        BY <1>3, <2>1
    <2>2. CASE tool' = y /\ Cardinality(chosen) = 1 /\ x.at = "history"
        <3>1. seen \in Nat
            <4>1. CASE inFlight = {}
                BY <1>2, <4>1, FS_EmptySet
            <4>2. CASE inFlight # {}
                <5>1. PICK d : inFlight = {d}
                    BY <4>2 DEF Wide!DraftRelated
                <5>2. Cardinality(inFlight) = 1
                    BY <5>1, FS_Singleton
                <5>3. Len(pins) \in 1 .. Len(pins)
                    BY <4>2 DEF Wide!DraftFresh
                <5>. QED
                    BY <1>2, <5>2, <5>3
            <4>. QED
                BY <4>1, <4>2
        <3>2. chosen # {}
            BY <2>2, FS_EmptySet
        <3>3. v \in chosen
            <4>. HIDE DEF chosen
            <4>. QED
                BY <3>2
        <3>4. chosen \subseteq Versions
            BY <1>1 DEF Follows, Pending
        <3>. HIDE DEF chosen, seen, v
        <3>5. v \in Versions /\ v # 0
            BY <1>2, <3>3, <3>4
        <3>6. y \in CommandType
            BY <1>2, <3>1, <3>5 DEF CommandType
        <3>7. Follows(y)
            BY <1>1, <2>2, <3>5 DEF Follows, Projecting, CommandType
        <3>. QED
            BY <2>2, <3>6, <3>7 DEF GoesOn
    <2>. QED
        BY <1>1, <1>6, <2>1, <2>2 DEF ReadHistory, Quit
<1>. QED
    BY <1>4, <1>5, <1>6

(* A Version that has a successor is kept as what it took the place of.      *)
LEMMA Replaced ==
    ASSUME Wide!TypeOK, NEW u \in Versions, NEW w \in Versions,
           versions[w].change = versions[u].change,
           (Latest(w) /\ w # u) \/ u < w,
           NEW p \in Patches(versions[u].content)
    PROVE  Superseded(p)
<1>1. Versions \subseteq Nat
    BY SameFacts, WideAssumptions, Wide!Numbered
<1>2. ~Latest(u)
    BY <1>1 DEF Latest
<1>. QED
    BY <1>2 DEF Superseded

(* Commit c is put on top of what took the place of Version u, and only what *)
(* u does not keep itself goes along.                                        *)
LEMMA Carries ==
    ASSUME NEW h \in AllCommits, NEW onto \in AllCommits, NEW upstream,
           \A p \in Patches(upstream) : Superseded(p)
    PROVE  /\ Rebased(h, onto, upstream) \in AllCommits
           /\ IsAncestor(onto, Rebased(h, onto, upstream))
           /\ \A p \in Patches(h) :
                  p \in Patches(Rebased(h, onto, upstream)) \/ Superseded(p)
    BY Replays

(* The Version was replaced: its latest successor is taken over, or the      *)
(* accepted Amendment.                                                       *)
LEMMA AsksChange ==
    ASSUME Wide!TypeOK, Wide!VersionsRelated, CheckoutTyped, Follows(tool), AskChange
    PROVE  \E y : tool' = y /\ GoesOn(y)
<1>1. PICK x \in CommandType : x = tool
    BY DEF CheckoutTyped
<1>2. /\ x.at = "change" /\ x.to = 0 /\ x.version \in Versions /\ x.version # 0
      /\ x.intent \in Intents /\ x.head \in AllCommits
    BY <1>1 DEF AskChange, Follows, CommandType
<1>3. /\ Versions \subseteq Nat /\ 0 \notin Versions
      /\ ContentOf(x.intent) \in AllCommits
      /\ \A v \in Versions : versions[v].content \in AllCommits
    BY <1>2, RepositoryTyped, SameFacts DEF Wide!TypeOK
<1>4. CASE tool' = NoCommand
    BY <1>4, Begins
<1>5. CASE tool' = [x EXCEPT !.at = "compare"]
    <2>. DEFINE y == [x EXCEPT !.at = "compare"]
    <2>1. y \in CommandType
        BY DEF CommandType
    <2>2. Follows(y)
        BY <1>1, <1>2 DEF Follows, Projecting, CommandType
    <2>. QED
        BY <1>5, <2>1, <2>2 DEF GoesOn
<1>6. ASSUME NEW latest \in Versions, Latest(latest), latest # x.version,
             versions[latest].change = versions[x.version].change
      PROVE  /\ latest # 0 /\ latest \in Nat
             /\ \A p \in Patches(versions[x.version].content) : Superseded(p)
    BY <1>2, <1>3, <1>6, Replaced
<1>7. ASSUME NEW latest \in Versions, Latest(latest), latest # x.version,
             versions[latest].change = versions[x.version].change,
             TakeOver(latest), tool' # NoCommand
      PROVE  \E y : tool' = y /\ GoesOn(y)
    <2>1. PICK next \in CommandType :
              next = [x EXCEPT !.at = "compare", !.version = latest, !.to = latest]
        BY <1>6, <1>7 DEF CommandType
    <2>2. /\ next.at = "compare" /\ next.version = latest /\ next.to = latest
          /\ next.head = x.head /\ next.intent = x.intent /\ next.deps = x.deps
        BY <2>1 DEF CommandType
    <2>3. CASE tool' = next /\ IsAncestor(versions[latest].content, x.head)
        <3>1. Follows(next)
            BY <1>1, <1>2, <1>6, <1>7, <2>2, <2>3 DEF Follows, Projecting
        <3>. QED
            BY <2>1, <2>3, <3>1 DEF GoesOn
    <2>4. CASE Project(next, versions[latest].content, versions[x.version].content, "compare")
        <3>1. PICK c \in AllCommits :
                  /\ c = Rebased(x.head, versions[latest].content, versions[x.version].content)
                  /\ IsAncestor(versions[latest].content, c)
                  /\ \A p \in Patches(x.head) : p \in Patches(c) \/ Superseded(p)
            BY <1>2, <1>3, <1>6, <1>7, Carries
        <3>2. PICK y \in CommandType :
                  y = [next EXCEPT !.at = "project", !.then = "compare", !.target = c]
            BY <2>1, <3>1 DEF CommandType
        <3>3. tool' = y
            BY <1>7, <2>2, <2>4, <3>1, <3>2 DEF Project, Quit
        <3>4. /\ y.at = "project" /\ y.then = "compare" /\ y.target = c
              /\ y.version = latest /\ y.to = latest
              /\ y.head = x.head /\ y.intent = x.intent /\ y.deps = x.deps
            BY <2>2, <3>2 DEF CommandType
        <3>5. Follows(y)
            BY <1>1, <1>2, <1>6, <1>7, <3>1, <3>4 DEF Follows
        <3>. QED
            BY <3>2, <3>3, <3>5 DEF GoesOn
    <2>. QED
        BY <1>1, <1>7, <2>1, <2>3, <2>4 DEF TakeOver, AlreadyTaken, Quit
<1>8. ASSUME NEW latest \in Versions, Latest(latest), latest # x.version,
             versions[latest].change = versions[x.version].change,
             SyncAmended(latest), tool' # NoCommand
      PROVE  \E y : tool' = y /\ GoesOn(y)
    <2>1. PICK next \in CommandType : next = [x EXCEPT !.at = "synced", !.to = latest]
        BY <1>6, <1>8 DEF CommandType
    <2>2. /\ next.at = "synced" /\ next.version = x.version /\ next.to = latest
          /\ next.head = x.head /\ next.intent = x.intent /\ next.deps = x.deps
        BY <2>1 DEF CommandType
    <2>3. /\ IsAncestor(versions[latest].content, ContentOf(x.intent))
          /\ \/ tool' = next /\ IsAncestor(ContentOf(x.intent), x.head)
             \/ Project(next, ContentOf(x.intent), versions[x.version].content, "synced")
        BY <1>1, <1>8, <2>1 DEF SyncAmended, Quit, Told, ContentOf
    <2>4. CASE tool' = next /\ IsAncestor(ContentOf(x.intent), x.head)
        <3>1. IsAncestor(versions[latest].content, x.head)
            BY <1>2, <1>3, <1>8, <2>3, <2>4, Ancestry
        <3>2. Follows(next)
            BY <1>1, <1>2, <1>6, <1>8, <2>2, <2>4, <3>1 DEF Follows, Projecting
        <3>. QED
            BY <2>1, <2>4, <3>2 DEF GoesOn
    <2>5. CASE Project(next, ContentOf(x.intent), versions[x.version].content, "synced")
        <3>1. PICK c \in AllCommits :
                  /\ c = Rebased(x.head, ContentOf(x.intent), versions[x.version].content)
                  /\ IsAncestor(ContentOf(x.intent), c)
                  /\ \A p \in Patches(x.head) : p \in Patches(c) \/ Superseded(p)
            BY <1>2, <1>3, <1>6, <1>8, Carries
        <3>2. PICK y \in CommandType :
                  y = [next EXCEPT !.at = "project", !.then = "synced", !.target = c]
            BY <2>1, <3>1 DEF CommandType
        <3>3. tool' = y
            BY <1>8, <2>2, <2>5, <3>1, <3>2 DEF Project, Quit
        <3>4. /\ y.at = "project" /\ y.then = "synced" /\ y.target = c
              /\ y.version = x.version /\ y.to = latest
              /\ y.head = x.head /\ y.intent = x.intent /\ y.deps = x.deps
            BY <2>2, <3>2 DEF CommandType
        <3>5. IsAncestor(versions[latest].content, c)
            BY <1>3, <1>8, <2>3, <3>1, Ancestry
        <3>6. Follows(y)
            BY <1>1, <1>2, <1>6, <1>8, <3>1, <3>4, <3>5 DEF Follows
        <3>. QED
            BY <3>2, <3>3, <3>6 DEF GoesOn
    <2>. QED
        BY <2>3, <2>4, <2>5
<1>. QED
    <2>1. PICK latest \in Versions :
              /\ Latest(latest) /\ versions[latest].change = versions[x.version].change
              /\ IF latest = x.version THEN tool' = [x EXCEPT !.at = "compare"]
                 ELSE TakeOver(latest) \/ SyncAmended(latest)
        BY <1>1 DEF AskChange
    <2>. QED
        BY <1>4, <1>5, <1>7, <1>8, <2>1

(* The Version is the one to sync: it is there already, or will be recorded  *)
(* on top of the accepted Intent.                                            *)
LEMMA Compares ==
    ASSUME Wide!TypeOK, Wide!VersionsRelated, CheckoutTyped, AllWellMade, Follows(tool),
           Compare
    PROVE  \E y : tool' = y /\ GoesOn(y)
<1>1. PICK x \in CommandType : x = tool
    BY DEF CheckoutTyped
<1>2. /\ x.at = "compare" /\ x.version \in Versions /\ x.version # 0
      /\ x.intent \in Intents /\ x.head \in AllCommits
      /\ x.to # 0 => /\ x.version = x.to
                     /\ IsAncestor(versions[x.to].content, x.head)
    BY <1>1 DEF Compare, Follows, CommandType
<1>3. PICK v : v = versions[x.version]
    OBVIOUS
<1>4. /\ ContentOf(x.intent) \in AllCommits /\ ContentOf(v.base) \in AllCommits
      /\ v.content \in AllCommits /\ IsAncestor(ContentOf(v.base), v.content)
    BY <1>2, <1>3, RepositoryTyped DEF AllWellMade, WellMade
<1>5. CASE tool' = NoCommand
    BY <1>5, Begins
<1>6. CASE tool' = [x EXCEPT !.at = "synced"] /\ (v.content = ContentOf(x.intent) \/ v.base = x.intent)
    <2>1. PICK y \in CommandType : y = [x EXCEPT !.at = "synced"]
        BY DEF CommandType
    <2>2. /\ y.at = "synced" /\ y.version = x.version /\ y.to = x.to
          /\ y.head = x.head /\ y.intent = x.intent /\ y.deps = x.deps
        BY <2>1 DEF CommandType
    <2>3. IsAncestor(v.content, x.head) => IsAncestor(ContentOf(x.intent), x.head)
        BY <1>2, <1>4, <1>6, Ancestry
    <2>4. Follows(y)
        BY <1>1, <1>2, <1>3, <2>2, <2>3 DEF Follows, Projecting
    <2>. QED
        BY <1>6, <2>1, <2>4 DEF GoesOn
<1>7. CASE tool' = [x EXCEPT !.at = "rebase", !.target = Candidate(x.version, x.intent, x.head)]
    <2>1. PICK c \in AllCommits : c = Candidate(x.version, x.intent, x.head)
        BY <1>2, CandidateAbove
    <2>2. PICK y \in CommandType : y = [x EXCEPT !.at = "rebase", !.target = c]
        BY <2>1 DEF CommandType
    <2>3. /\ y.at = "rebase" /\ y.version = x.version /\ y.to = x.to /\ y.target = c
          /\ y.head = x.head /\ y.intent = x.intent /\ y.deps = x.deps
        BY <2>2 DEF CommandType
    <2>4. Follows(y)
        BY <1>1, <1>2, <2>1, <2>3 DEF Follows, Projecting
    <2>. QED
        BY <1>7, <2>1, <2>2, <2>4 DEF GoesOn
<1>8. CASE CurrentIsAncestor /\ tool' = [x EXCEPT !.at = "rebase", !.target = x.head]
    <2>1. Candidate(x.version, x.intent, x.head) = x.head
        BY <1>1, <1>8 DEF Candidate, CurrentIsAncestor, Told, ContentOf
    <2>. QED
        BY <1>7, <1>8, <2>1
<1>9. CASE ~CurrentIsAncestor /\ tool' = [x EXCEPT !.at = "rebase", !.target =
                       Rebased(x.head, ContentOf(x.intent), ContentOf(v.base))]
    <2>1. Candidate(x.version, x.intent, x.head) =
              Rebased(x.head, ContentOf(x.intent), ContentOf(v.base))
        BY <1>1, <1>3, <1>9 DEF Candidate, CurrentIsAncestor, Told, ContentOf
    <2>. QED
        BY <1>7, <1>9, <2>1
<1>10. \/ tool' = NoCommand
       \/ tool' = [x EXCEPT !.at = "synced"] /\ (v.content = ContentOf(x.intent) \/ v.base = x.intent)
       \/ CurrentIsAncestor /\ tool' = [x EXCEPT !.at = "rebase", !.target = x.head]
       \/ ~CurrentIsAncestor /\ tool' = [x EXCEPT !.at = "rebase", !.target =
                       Rebased(x.head, ContentOf(x.intent), ContentOf(v.base))]
    BY <1>1, <1>3 DEF Compare, Quit, Told, ContentOf
<1>. QED
    BY <1>5, <1>6, <1>8, <1>9, <1>10

(* The receipt came, perhaps that of a request sent by an earlier command:   *)
(* its Version has the content asked for.                                    *)
LEMMA Receives ==
    ASSUME Wide!TypeOK, Wide!VersionsRelated, CheckoutTyped, AllWellMade, Follows(tool),
           RebaseReceived
    PROVE  \E y : tool' = y /\ GoesOn(y)
<1>1. PICK x \in CommandType : x = tool
    BY DEF CheckoutTyped
<1>2. /\ x.at = "recording" /\ x.version \in Versions /\ x.version # 0
      /\ x.intent \in Intents /\ x.head \in AllCommits /\ x.target \in AllCommits
      /\ x.target = Candidate(x.version, x.intent, x.head)
    BY <1>1 DEF RebaseReceived, Follows, CommandType
<1>3. PICK v \in Versions :
          /\ versions[v].key = HeldKey
          /\ tool' = [x EXCEPT !.to = v, !.then = "synced",
                               !.at = IF x.target = x.head THEN "synced" ELSE "project"]
    BY <1>1 DEF RebaseReceived
<1>4. /\ versions[v].op = "rebase" /\ versions[v].from = x.version
      /\ versions[v].content = x.target
    <2>1. WellMade(versions[v])
        BY <1>3 DEF AllWellMade
    <2>2. versions[v].key = <<"held", x.version, x.intent, x.head, "rebase">>
        BY <1>1, <1>3 DEF HeldKey
    <2>. QED
        BY <1>2, <2>1, <2>2 DEF WellMade
<1>5. /\ Versions \subseteq Nat /\ 0 \notin Versions
      /\ versions[x.version].content \in AllCommits
      /\ versions[x.version].base \in Intents
      /\ ContentOf(x.intent) \in AllCommits
      /\ ContentOf(versions[x.version].base) \in AllCommits
    <2>1. 0 \notin Versions
        BY SameFacts DEF Wide!TypeOK
    <2>2. /\ Versions \subseteq Nat
          /\ \A i \in Intents : ContentOf(i) \in AllCommits
          /\ \A u \in Versions : versions[u].content \in AllCommits /\ versions[u].base \in Intents
        BY RepositoryTyped
    <2>. QED
        BY <1>2, <2>1, <2>2
<1>6. IsAncestor(ContentOf(x.intent), x.target) /\ IsAncestor(x.target, x.target)
    BY <1>2, CandidateAbove, Ancestry
<1>7. \A p \in Patches(x.head) : p \in Patches(x.target) \/ Superseded(p)
    <2>1. \A p \in Patches(versions[x.version].content) : Superseded(p)
        <3>1. x.version < v /\ versions[v].change = versions[x.version].change
            BY <1>3, <1>4, SameFacts DEF Wide!VersionsRelated
        <3>. QED
            BY <1>2, <1>3, <3>1, Replaced
    <2>2. Patches(ContentOf(versions[x.version].base)) \subseteq Patches(versions[x.version].content)
        <3>1. IsAncestor(ContentOf(versions[x.version].base), versions[x.version].content)
            BY <1>2 DEF AllWellMade, WellMade
        <3>. QED
            BY <1>5, <3>1, Ancestry
    <2>3. CASE x.target = x.head
        BY <2>3
    <2>4. CASE x.target # x.head
        <3>1. x.target = Rebased(x.head, ContentOf(x.intent), ContentOf(versions[x.version].base))
            BY <1>2, <2>4 DEF Candidate
        <3>. QED
            BY <1>2, <1>5, <2>1, <2>2, <3>1, Carries
    <2>. QED
        BY <2>3, <2>4
<1>8. PICK y \in CommandType :
          y = [x EXCEPT !.to = v, !.then = "synced",
                        !.at = IF x.target = x.head THEN "synced" ELSE "project"]
    BY <1>3, <1>5 DEF CommandType
<1>9. /\ y.at = (IF x.target = x.head THEN "synced" ELSE "project") /\ y.then = "synced"
      /\ y.version = x.version /\ y.to = v /\ y.target = x.target
      /\ y.head = x.head /\ y.intent = x.intent /\ y.deps = x.deps
    BY <1>8 DEF CommandType
<1>10. v # 0
    BY <1>3, <1>5
<1>11. CASE x.target = x.head
    <2>1. y.at = "synced"
        BY <1>9, <1>11
    <2>2. Follows(y)
        BY <1>1, <1>2, <1>3, <1>4, <1>6, <1>9, <1>10, <1>11, <2>1 DEF Follows
    <2>. QED
        BY <1>3, <1>8, <2>2 DEF GoesOn
<1>12. CASE x.target # x.head
    <2>1. y.at = "project"
        BY <1>9, <1>12
    <2>2. Follows(y)
        BY <1>1, <1>2, <1>3, <1>4, <1>6, <1>7, <1>9, <1>10, <2>1 DEF Follows
    <2>. QED
        BY <1>3, <1>8, <2>2 DEF GoesOn
<1>. QED
    BY <1>11, <1>12

(* The checkout is looked at and put on what was prepared for it.            *)
LEMMA Projects ==
    ASSUME Wide!TypeOK, Wide!VersionsRelated, CheckoutTyped, Follows(tool),
           InspectHead \/ InspectStatus \/ Reset \/ ProjectClean
    PROVE  \E y : tool' = y /\ GoesOn(y)
<1>1. PICK x \in CommandType : x = tool
    BY DEF CheckoutTyped
<1>2. CASE tool' = NoCommand
    BY <1>2, Begins
<1>3. ASSUME NEW y \in CommandType, x.at \in Projecting, y.at \in Projecting,
             \A field \in {"head", "intent", "version", "deps", "to", "target", "then"} :
                 y[field] = x[field],
             y.at \in {"status", "reset"} => y.found = y.head
      PROVE  Follows(y)
    <2>1. /\ y.head = x.head /\ y.intent = x.intent /\ y.version = x.version
          /\ y.deps = x.deps /\ y.to = x.to /\ y.target = x.target /\ y.then = x.then
        BY <1>3
    <2>. QED
        BY <1>1, <1>3, <2>1 DEF Follows, Projecting
<1>4. CASE InspectHead /\ tool' # NoCommand
    <2>1. x.at = "project" /\ head = x.head /\ tool' = [x EXCEPT !.at = "status", !.found = head]
        BY <1>1, <1>4 DEF InspectHead, Unmoved, Quit
    <2>2. PICK y \in CommandType : y = [x EXCEPT !.at = "status", !.found = head]
        BY <2>1 DEF CommandType
    <2>3. y.at = "status" /\ y.found = y.head
        BY <2>1, <2>2 DEF CommandType
    <2>4. \A field \in {"head", "intent", "version", "deps", "to", "target", "then"} :
              y[field] = x[field]
        BY <2>2 DEF CommandType
    <2>5. Follows(y)
        BY <1>3, <2>1, <2>3, <2>4 DEF Projecting
    <2>. QED
        BY <2>1, <2>2, <2>5 DEF GoesOn
<1>5. CASE InspectStatus /\ tool' # NoCommand
    <2>1. x.at = "status" /\ tool' = [x EXCEPT !.at = "reset"]
        BY <1>1, <1>5 DEF InspectStatus, Quit
    <2>2. PICK y \in CommandType : y = [x EXCEPT !.at = "reset"]
        BY DEF CommandType
    <2>3. y.at = "reset" /\ y.found = x.found /\ x.found = x.head
        BY <1>1, <2>1, <2>2 DEF CommandType, Follows
    <2>4. \A field \in {"head", "intent", "version", "deps", "to", "target", "then"} :
              y[field] = x[field]
        BY <2>2 DEF CommandType
    <2>5. Follows(y)
        BY <1>3, <2>1, <2>3, <2>4 DEF Projecting
    <2>. QED
        BY <2>1, <2>2, <2>5 DEF GoesOn
<1>6. CASE Reset /\ tool' # NoCommand
    <2>1. x.at = "reset" /\ tool' = [x EXCEPT !.at = "landed"]
        BY <1>1, <1>6 DEF Reset, Quit
    <2>2. PICK y \in CommandType : y = [x EXCEPT !.at = "landed"]
        BY DEF CommandType
    <2>3. y.at = "landed"
        BY <2>2 DEF CommandType
    <2>4. \A field \in {"head", "intent", "version", "deps", "to", "target", "then"} :
              y[field] = x[field]
        BY <2>2 DEF CommandType
    <2>5. Follows(y)
        BY <1>3, <2>1, <2>3, <2>4 DEF Projecting
    <2>. QED
        BY <2>1, <2>2, <2>5 DEF GoesOn
<1>7. CASE ProjectClean /\ tool' # NoCommand
    <2>1. /\ x.at = "landed" /\ head = x.target /\ head \in AllCommits
          /\ tool' = [x EXCEPT !.at = x.then, !.head = head, !.found = head]
        BY <1>1, <1>7 DEF ProjectClean, Quit, CheckoutTyped
    <2>2. PICK y \in CommandType : y = [x EXCEPT !.at = x.then, !.head = head, !.found = head]
        BY <2>1 DEF CommandType
    <2>3. /\ y.at = x.then /\ y.version = x.version /\ y.to = x.to
          /\ y.head = x.target /\ y.intent = x.intent /\ y.deps = x.deps
          /\ y.at \in {"compare", "synced"}
        BY <2>1, <2>2 DEF CommandType
    <2>4. Follows(y)
        BY <1>1, <2>1, <2>3 DEF Follows, Projecting
    <2>. QED
        BY <2>1, <2>2, <2>4 DEF GoesOn
<1>. QED
    BY <1>2, <1>4, <1>5, <1>6, <1>7

(* Whatever is done, the command goes on with what it was told.              *)
LEMMA ToolGoesOn ==
    ASSUME Wide!IInv, Wide!LInv, CheckoutTyped, HostServes, AllWellMade, Follows(tool),
           [WorkspaceNext]_workspaceVars
    PROVE  \E y : tool' = y /\ GoesOn(y)
<1>1. /\ Wide!TypeOK /\ Wide!VersionsRelated /\ Wide!DraftRelated /\ Wide!DraftFresh
    BY DEF Wide!IInv, Wide!LInv
<1>2. CASE UNCHANGED tool
    BY <1>2 DEF GoesOn, CheckoutTyped
<1>3. CASE \E deps \in DependencyLists : Submit(deps)
    BY <1>1, <1>3, Begins DEF Submit
<1>4. CASE \E v \in {0} \cup Versions : Sync(v)
    BY <1>1, <1>4, Begins DEF Sync
<1>5. CASE AskIntentToSubmit \/ AskIntentToSync \/ ReadHistory
    BY <1>1, <1>5, Asks
<1>6. CASE ProposalReceived \/ Aborted
    BY <1>1, <1>6, Begins DEF ProposalReceived, Aborted, Quit
<1>7. CASE AskChange
    BY <1>1, <1>7, AsksChange
<1>8. CASE Compare
    BY <1>1, <1>8, Compares
<1>9. CASE SendRebase \/ FindRecorded
    <2>1. PICK x \in CommandType : x = tool
        BY DEF CheckoutTyped
    <2>2. x.at = "rebase" /\ tool' = [x EXCEPT !.at = "recording"]
        BY <1>9, <2>1 DEF SendRebase, FindRecorded
    <2>3. PICK y \in CommandType : y = [x EXCEPT !.at = "recording"]
        BY DEF CommandType
    <2>4. /\ y.at = "recording" /\ y.version = x.version /\ y.to = x.to /\ y.target = x.target
          /\ y.head = x.head /\ y.intent = x.intent /\ y.deps = x.deps
        BY <2>3 DEF CommandType
    <2>5. Follows(y)
        BY <2>1, <2>2, <2>4 DEF Follows, Projecting
    <2>. QED
        BY <2>2, <2>3, <2>5 DEF GoesOn
<1>10. CASE RebaseReceived
    BY <1>1, <1>10, Receives
<1>11. CASE InspectHead \/ InspectStatus \/ Reset \/ ProjectClean
    BY <1>1, <1>11, Projects
<1>12. CASE SendProposal \/ Edit \/ (\E p \in Mine : Commit(p)) \/ OtherClients \/ RunnerPromotes
            \/ UNCHANGED workspaceVars
    BY <1>2, <1>12 DEF SendProposal, Edit, Commit, OtherClients, RunnerPromotes, workspaceVars
<1>. QED
    BY <1>2, <1>3, <1>4, <1>5, <1>6, <1>7, <1>8, <1>9, <1>10, <1>11, <1>12
    DEF WorkspaceNext, ToolStep

(* The checkout is committed to, put where a command prepared it, or left    *)
(* alone; and a command begins with what is checked out.                     *)
CheckoutStep ==
    \/ \E p \in Mine : head' = Append(head, p) /\ authored' = authored \cup {p}
                       /\ UNCHANGED <<dropped, tool>>
    \/ /\ tool.at = "reset" /\ head' = tool.target
       /\ dropped' = dropped \cup (Patches(head) \ Patches(tool.found))
       /\ tool'.at = "landed" /\ tool'.target = tool.target /\ UNCHANGED authored
    \/ /\ UNCHANGED <<head, authored, dropped>>
       /\ \/ tool'.at = "idle" \/ (tool'.head = head /\ tool'.at # "landed")
          \/ /\ tool.at \notin {"idle", "landed"} /\ tool'.at # "landed"
             /\ tool'.head = tool.head
          \/ UNCHANGED tool

LEMMA CheckoutCases ==
    ASSUME CheckoutTyped, [WorkspaceNext]_workspaceVars
    PROVE  CheckoutStep
<1>. USE DEF checkout, CheckoutStep
<1>1. PICK x \in CommandType : x = tool
    BY DEF CheckoutTyped
<1>2. /\ NoCommand.at = "idle"
      /\ DOMAIN x = {"at", "head", "found", "intent", "version", "seen", "deps", "to", "target", "then"}
    BY DEF NoCommand, CommandType
<1>3. CASE \E p \in Mine : Commit(p)
    BY <1>3 DEF Commit
<1>4. CASE InspectHead \/ InspectStatus
    <2>1. UNCHANGED <<head, authored, dropped>> /\ x.at \in {"project", "status"}
        BY <1>1, <1>4 DEF InspectHead, InspectStatus
    <2>2. \/ tool' = NoCommand
          \/ tool' = [x EXCEPT !.at = "status", !.found = head]
          \/ tool' = [x EXCEPT !.at = "reset"]
        BY <1>1, <1>4 DEF InspectHead, InspectStatus, Quit
    <2>3. tool' = NoCommand \/ (tool'.head = x.head /\ tool'.at \in {"status", "reset"})
        BY <1>2, <2>2
    <2>. QED
        BY <1>1, <1>2, <2>1, <2>3
<1>10. CASE Reset
    <2>1. CASE /\ x.at = "reset" /\ head' = x.target
               /\ dropped' = dropped \cup (Patches(head) \ Patches(x.found))
               /\ tool' = [x EXCEPT !.at = "landed"] /\ UNCHANGED authored
        <3>1. tool'.at = "landed" /\ tool'.target = x.target
            BY <1>2, <2>1
        <3>. QED
            BY <1>1, <2>1, <3>1
    <2>2. CASE tool' = NoCommand /\ UNCHANGED <<head, authored, dropped>>
        BY <1>2, <2>2
    <2>. QED
        BY <1>1, <1>10, <2>1, <2>2 DEF Reset, Quit
<1>11. CASE ProjectClean
    <2>1. UNCHANGED <<head, authored, dropped>>
        BY <1>11 DEF ProjectClean
    <2>2. \/ tool' = NoCommand
          \/ tool' = [x EXCEPT !.at = x.then, !.head = head, !.found = head]
        BY <1>1, <1>11 DEF ProjectClean, Quit
    <2>3. tool' = NoCommand \/ (tool'.head = head /\ tool'.at = x.then)
        BY <1>2, <2>2
    <2>4. x.then # "landed"
        BY DEF CommandType
    <2>. QED
        BY <1>2, <2>1, <2>3, <2>4
<1>5. CASE \/ \E deps \in DependencyLists : Submit(deps)
           \/ \E v \in {0} \cup Versions : Sync(v)
    BY <1>5 DEF Submit, Sync, NoCommand
<1>6. CASE AskIntentToSubmit \/ AskIntentToSync \/ ReadHistory \/ ProposalReceived \/ Aborted
    <2>1. UNCHANGED <<head, authored, dropped>>
        BY <1>1, <1>6 DEF AskIntentToSubmit, AskIntentToSync, ReadHistory, ProposalReceived,
            Aborted
    <2>2. \/ tool' = NoCommand
          \/ /\ x.at \in {"propose", "intent", "history"}
             /\ \/ \E i : tool' = [x EXCEPT !.at = "proposing", !.intent = i]
                \/ \E i : tool' = [x EXCEPT !.at = "history", !.intent = i]
                \/ \E s, v : tool' = [x EXCEPT !.at = "change", !.seen = s, !.version = v]
        BY <1>1, <1>6 DEF AskIntentToSubmit, AskIntentToSync, ReadHistory, ProposalReceived,
            Aborted, Quit
    <2>3. \/ tool' = NoCommand
          \/ /\ x.at \in {"propose", "intent", "history"}
             /\ tool'.head = x.head /\ tool'.at \in {"proposing", "history", "change"}
        BY <1>2, <2>2
    <2>. QED
        BY <1>2, <1>1, <2>1, <2>3
<1>7. CASE Compare \/ SendRebase \/ FindRecorded \/ RebaseReceived
    <2>1. /\ UNCHANGED <<head, authored, dropped>>
          /\ x.at \in {"compare", "rebase", "recording"}
        BY <1>1, <1>7 DEF Compare, SendRebase, FindRecorded, RebaseReceived
    <2>2. \/ tool' = NoCommand
          \/ tool' = [x EXCEPT !.at = "synced"]
          \/ tool' = [x EXCEPT !.at = "recording"]
          \/ \E h : tool' = [x EXCEPT !.at = "rebase", !.target = h]
          \/ \E v : \E a \in {"synced", "project"} :
                 tool' = [x EXCEPT !.to = v, !.then = "synced", !.at = a]
        <3>1. CASE Compare
            <4>1. PICK next : next = [x EXCEPT !.at = "rebase", !.target = x.head]
                OBVIOUS
            <4>2. \A h : [next EXCEPT !.target = h] = [x EXCEPT !.at = "rebase", !.target = h]
                BY <1>2, <4>1
            <4>3. \/ tool' = NoCommand \/ tool' = [x EXCEPT !.at = "synced"]
                  \/ tool' = next \/ \E h : tool' = [next EXCEPT !.target = h]
                BY <1>1, <3>1, <4>1 DEF Compare, Quit
            <4>. QED
                BY <4>1, <4>2, <4>3
        <3>2. CASE SendRebase \/ FindRecorded
            BY <1>1, <3>2 DEF SendRebase, FindRecorded
        <3>3. CASE RebaseReceived
            <4>1. PICK a \in {"synced", "project"} :
                      a = IF x.target = x.head THEN "synced" ELSE "project"
                OBVIOUS
            <4>2. \E v : tool' = [x EXCEPT !.to = v, !.then = "synced", !.at = a]
                BY <1>1, <3>3, <4>1 DEF RebaseReceived
            <4>. QED
                BY <4>2
        <3>. QED
            BY <1>7, <3>1, <3>2, <3>3
    <2>3. \/ tool' = NoCommand
          \/ tool'.head = x.head /\ tool'.at \in {"synced", "recording", "rebase", "project"}
        BY <1>2, <2>2
    <2>. QED
        BY <1>2, <1>1, <2>1, <2>3
<1>8. CASE AskChange
    <2>1. UNCHANGED <<head, authored, dropped>> /\ x.at = "change"
        BY <1>1, <1>8 DEF AskChange
    <2>2. PICK latest \in Versions :
              \/ tool' = [x EXCEPT !.at = "compare"]
              \/ TakeOver(latest) \/ SyncAmended(latest)
        BY <1>1, <1>8 DEF AskChange
    <2>3. ASSUME NEW next, DOMAIN next = DOMAIN x, next.head = x.head,
                 NEW onto, NEW upstream, NEW then, Project(next, onto, upstream, then)
          PROVE  tool' = NoCommand \/ (tool'.head = x.head /\ tool'.at = "project")
        BY <1>2, <2>3 DEF Project, Quit
    <2>4. CASE TakeOver(latest)
        <3>1. PICK next : next = [x EXCEPT !.at = "compare", !.version = latest, !.to = latest]
            OBVIOUS
        <3>2. DOMAIN next = DOMAIN x /\ next.head = x.head /\ next.at = "compare"
            BY <1>2, <3>1
        <3>3. \/ tool' = NoCommand \/ tool' = next
              \/ \E onto, upstream : Project(next, onto, upstream, "compare")
            BY <1>1, <2>4, <3>1 DEF TakeOver, Quit
        <3>. QED
            BY <1>2, <1>1, <2>1, <2>3, <3>2, <3>3
    <2>5. CASE SyncAmended(latest)
        <3>1. PICK next : next = [x EXCEPT !.at = "synced", !.to = latest]
            OBVIOUS
        <3>2. DOMAIN next = DOMAIN x /\ next.head = x.head /\ next.at = "synced"
            BY <1>2, <3>1
        <3>3. \/ tool' = NoCommand \/ tool' = next
              \/ \E onto, upstream : Project(next, onto, upstream, "synced")
            BY <1>1, <2>5, <3>1 DEF SyncAmended, Quit
        <3>. QED
            BY <1>2, <1>1, <2>1, <2>3, <3>2, <3>3
    <2>6. CASE tool' = [x EXCEPT !.at = "compare"]
        BY <1>2, <1>1, <2>1, <2>6
    <2>. QED
        BY <2>2, <2>4, <2>5, <2>6
<1>9. CASE SendProposal \/ Edit \/ OtherClients \/ RunnerPromotes \/ UNCHANGED workspaceVars
            \/ ((RecordingStep \/ PromotionStep) /\ UNCHANGED <<checkout, tool>>)
    BY <1>9 DEF SendProposal, Edit, OtherClients, RunnerPromotes, workspaceVars
<1>. QED
    <2>. HIDE DEF CheckoutStep, checkout
    <2>1. CASE ToolStep
        BY <1>4, <1>5, <1>6, <1>7, <1>8, <1>9, <1>10, <1>11, <2>1 DEF ToolStep
    <2>. QED
        BY <1>3, <1>9, <2>1 DEF WorkspaceNext

(* Work leaves the checkout's history only for what is kept elsewhere, and   *)
(* what was committed unseen.                                                *)
LEMMA WorkStep ==
    ASSUME Wide!IInv, Wide!LInv, CheckoutTyped, Follows(tool), HeadGoesOn, WorkKept, Grows,
           [WorkspaceNext]_workspaceVars
    PROVE  /\ head' \in AllCommits /\ authored' \subseteq Mine
           /\ HeadGoesOn' /\ WorkKept'
<1>1. PICK x \in CommandType : x = tool
    BY DEF CheckoutTyped
<1>2. head \in AllCommits /\ authored \subseteq Mine /\ x.head \in AllCommits /\ x.target \in AllCommits
    BY DEF CheckoutTyped, CommandType
<1>3. \A p : Superseded(p) => Superseded(p)'
    BY SupersededStays
<1>4. \A p \in authored \ dropped : p \in Patches(head) \/ Superseded(p)
    BY DEF WorkKept, Superseded
<1>5. /\ x.at \notin {"idle", "landed"} => IsAncestor(x.head, head)
      /\ x.at = "landed" => IsAncestor(x.target, head)
    BY <1>1 DEF HeadGoesOn
<1>6. ASSUME NEW p \in Mine, head' = Append(head, p), authored' = authored \cup {p},
             UNCHANGED <<dropped, tool>>
      PROVE  /\ head' \in AllCommits /\ authored' \subseteq Mine
             /\ HeadGoesOn' /\ WorkKept'
    <2>1. PICK c \in AllCommits : c = Append(head, p)
        BY <1>2, Ancestry
    <2>2. IsAncestor(head, c) /\ Patches(c) = Patches(head) \cup {p}
        BY <1>2, <2>1, Ancestry
    <2>3. /\ x.at \notin {"idle", "landed"} => IsAncestor(x.head, c)
          /\ x.at = "landed" => IsAncestor(x.target, c)
        BY <1>2, <1>5, <2>1, <2>2, Ancestry
    <2>4. HeadGoesOn'
        BY <1>1, <1>6, <2>1, <2>3 DEF HeadGoesOn
    <2>5. \A q \in authored' \ dropped : q \in Patches(c) \/ Superseded(q)'
        BY <1>3, <1>4, <1>6, <2>2
    <2>6. WorkKept'
        BY <1>6, <2>1, <2>5 DEF WorkKept, Superseded
    <2>. QED
        BY <1>2, <1>6, <2>1, <2>4, <2>6
<1>7. ASSUME x.at = "reset", head' = x.target, tool'.at = "landed", tool'.target = x.target,
             dropped' = dropped \cup (Patches(head) \ Patches(x.found)),
             UNCHANGED authored
      PROVE  /\ head' \in AllCommits /\ authored' \subseteq Mine
             /\ HeadGoesOn' /\ WorkKept'
    <2>1. /\ x.found = x.head
          /\ \A p \in Patches(x.head) : p \in Patches(x.target) \/ Superseded(p)
        BY <1>1, <1>7 DEF Follows, Projecting
    <2>2. HeadGoesOn'
        BY <1>2, <1>7, Ancestry DEF HeadGoesOn
    <2>3. \A q \in authored \ dropped' : q \in Patches(x.target) \/ Superseded(q)'
        BY <1>3, <1>4, <1>7, <2>1
    <2>4. WorkKept'
        BY <1>7, <2>3 DEF WorkKept, Superseded
    <2>. QED
        BY <1>2, <1>7, <2>2, <2>4
<1>8. ASSUME UNCHANGED <<head, authored, dropped>>,
             \/ tool'.at = "idle" \/ (tool'.head = head /\ tool'.at # "landed")
             \/ /\ tool.at \notin {"idle", "landed"} /\ tool'.at # "landed"
                /\ tool'.head = tool.head
             \/ UNCHANGED tool
      PROVE  /\ head' \in AllCommits /\ authored' \subseteq Mine
             /\ HeadGoesOn' /\ WorkKept'
    <2>1. HeadGoesOn'
        BY <1>1, <1>2, <1>5, <1>8, Ancestry DEF HeadGoesOn
    <2>2. WorkKept'
        BY <1>3, <1>4, <1>8 DEF WorkKept, Superseded
    <2>. QED
        BY <1>2, <1>8, <2>1, <2>2
<1>. QED
    BY <1>1, <1>6, <1>7, <1>8, CheckoutCases DEF CheckoutStep

-----------------------------------------------------------------------------
(* The theorems.                                                             *)

(* A checkout and its command, where the repository is as proved of it.      *)
CheckoutInv ==
    /\ CheckoutTyped
    /\ HostServes
    /\ AllWellMade
    /\ Follows(tool)
    /\ HeadGoesOn
    /\ WorkKept

XInv == Wide!IInv /\ Wide!LInv /\ CheckoutInv

(* It holds at first.                                                        *)
LEMMA XInvInit ==
    ASSUME WorkspaceInit
    PROVE  Wide!Init /\ XInv
<1>1. Wide!Init
    BY DEF WorkspaceInit, Init, NoPlan, Wide!Init, Wide!NoPlan
<1>2. Wide!IInv /\ Wide!LInv
    BY <1>1, WideAssumptions, Wide!IInvInit, Wide!LInvInit
<1>3. InitialContent \in AllCommits
    BY WideAssumptions DEF Wide!ContentAssumption
<1>4. /\ head = InitialContent /\ authored = {} /\ dropped = {} /\ tool = NoCommand
      /\ Intents = {1} /\ Versions = {} /\ mode = "serving" /\ memCurrent = 1 /\ inFlight = {}
    BY DEF WorkspaceInit, Init, Intents, Versions
<1>5. GoesOn(NoCommand)
    BY <1>3, NothingListed DEF GoesOn, NoCommand, CommandType, Follows, Projecting
<1>6. CheckoutInv
    BY <1>3, <1>4, <1>5
    DEF CheckoutInv, CheckoutTyped, GoesOn, HostServes, AllWellMade, HeadGoesOn, WorkKept, NoCommand
<1>. QED
    BY <1>1, <1>2, <1>6 DEF XInv

(* It is kept by every step, each of which the repository takes, or none.    *)
LEMMA XInvStep ==
    ASSUME XInv, [WorkspaceNext]_workspaceVars
    PROVE  [Wide!Next]_(Wide!vars) /\ XInv'
<1>. USE DEF XInv, CheckoutInv
<1>1. /\ Wide!TypeOK /\ Wide!VersionsRelated /\ Wide!Protocol /\ Wide!DraftFresh
    BY DEF Wide!IInv, Wide!LInv, Wide!Protocol
<1>2. [Wide!Next]_(Wide!vars)
    BY <1>1, WideSteps
<1>3. Wide!IInv' /\ Wide!LInv'
    BY <1>2, WideAssumptions, Wide!IInvStep, Wide!LInvStep
<1>4. Grows
    BY <1>1, <1>2, RepositoryGrows
<1>5. PICK y : tool' = y /\ y \in CommandType /\ Follows(y)
    BY ToolGoesOn DEF GoesOn
<1>6. Follows(y)'
    BY <1>1, <1>4, <1>5, FollowsStays
<1>7. Follows(tool)'
    <2>. HIDE DEF XInv, CheckoutInv
    <2>. QED
        BY <1>5, <1>6 DEF Follows
<1>8. HostServes' /\ AllWellMade'
    BY <1>4, ServesStep, WellMadeStep
<1>9. CheckoutTyped' /\ HeadGoesOn' /\ WorkKept'
    BY <1>4, <1>5, WorkStep DEF CheckoutTyped
<1>. QED
    BY <1>2, <1>3, <1>7, <1>8, <1>9

(* The invariant the theorems below are read off.                            *)
THEOREM WorkspaceInductive == WorkspaceSpec => []XInv
    BY XInvInit, XInvStep, PTL DEF WorkspaceSpec

(* A checkout and the other clients are to the repository what Repository    *)
(* takes its clients to be, with keys and content of their own: everything   *)
(* proved of the repository holds of the one they work with.                 *)
THEOREM CheckoutsAreClients == WorkspaceSpec => Wide!Spec
<1>1. WorkspaceInit => Wide!Init
    BY XInvInit
<1>2. XInv /\ [WorkspaceNext]_workspaceVars => [Wide!Next]_(Wide!vars)
    BY XInvStep
<1>. QED
    BY <1>1, <1>2, WorkspaceInductive, PTL DEF WorkspaceSpec, Wide!Spec

(* No commit is lost that was made before a sync last read HEAD, or after    *)
(* its reset, whatever is committed, recorded, accepted or killed meanwhile. *)
THEOREM NothingLost == WorkspaceSpec => []WorkKept
<1>1. XInv => WorkKept
    BY DEF XInv, CheckoutInv
<1>. QED
    BY <1>1, WorkspaceInductive, PTL

(* A sync that reports success for a Version the checkout descends from left *)
(* it on the accepted Intent it reports; one that took another Version over  *)
(* left it on that Intent and that Version.  Other clients are assumed to    *)
(* record what descends from its base, and nothing is said of a sync for a   *)
(* Version that is based on the Intent already when the checkout is not on   *)
(* it.                                                                       *)
THEOREM LandsOnRecord == WorkspaceSpec => []SyncedOntoRecord
<1>1. XInv => SyncedOntoRecord
    <2>. SUFFICES ASSUME XInv, tool.at = "synced"
                  PROVE  /\ tool.to # 0 \/ SourceIsThere => IsAncestor(Told, head)
                         /\ tool.to # 0 => IsAncestor(versions[tool.to].content, head)
        BY DEF SyncedOntoRecord
    <2>1. PICK x \in CommandType : x = tool
        BY DEF XInv, CheckoutInv, CheckoutTyped
    <2>2. /\ x.head \in AllCommits /\ head \in AllCommits /\ IsAncestor(x.head, head)
          /\ x.intent \in Intents
          /\ {x.version, x.to} \subseteq {0} \cup Versions
          /\ x.to # 0 \/ IsAncestor(versions[x.version].content, x.head) =>
                 IsAncestor(ContentOf(x.intent), x.head)
          /\ x.to # 0 => IsAncestor(versions[x.to].content, x.head)
        BY <2>1 DEF XInv, CheckoutInv, CheckoutTyped, CommandType, HeadGoesOn, Follows
    <2>3. /\ ContentOf(x.intent) \in AllCommits
          /\ \A v \in Versions : versions[v].content \in AllCommits
        BY <2>2, RepositoryTyped DEF XInv, Wide!IInv, Wide!LInv
    <2>4. IsAncestor(ContentOf(x.intent), x.head) => IsAncestor(ContentOf(x.intent), head)
        BY <2>2, <2>3, Ancestry
    <2>5. x.to # 0 => IsAncestor(versions[x.to].content, head)
        BY <2>2, <2>3, Ancestry
    <2>. QED
        BY <2>1, <2>2, <2>4, <2>5 DEF SourceIsThere, Told, ContentOf
<1>. QED
    BY <1>1, WorkspaceInductive, PTL

(* A single dependency can be listed in one way only.                        *)
LEMMA OneListed ==
    ASSUME NEW s \in Seq(Nat), NEW t \in Seq(Nat), Distinct(s), Distinct(t),
           Listed(s) = Listed(t), \A d, e \in Listed(s) : d = e
    PROVE  s = t
<1>1. /\ Len(s) \in Nat /\ DOMAIN s = 1 .. Len(s) /\ \A i \in 1 .. Len(s) : s[i] \in Listed(s)
      /\ Len(t) \in Nat /\ DOMAIN t = 1 .. Len(t) /\ \A i \in 1 .. Len(t) : t[i] \in Listed(s)
    <2>1. /\ Len(s) \in Nat /\ DOMAIN s = 1 .. Len(s)
          /\ Len(t) \in Nat /\ DOMAIN t = 1 .. Len(t)
        OBVIOUS
    <2>2. \A i \in DOMAIN s : s[i] \in Listed(s)
        BY DEF Listed
    <2>3. \A i \in DOMAIN t : t[i] \in Listed(t)
        BY DEF Listed
    <2>. QED
        BY <2>1, <2>2, <2>3
<1>2. Len(s) <= 1 /\ Len(t) <= 1
    <2>1. ASSUME Len(s) > 1
          PROVE  FALSE
        <3>1. 1 \in DOMAIN s /\ 2 \in DOMAIN s /\ s[1] = s[2]
            BY <1>1, <2>1
        <3>. QED
            BY <3>1 DEF Distinct
    <2>2. ASSUME Len(t) > 1
          PROVE  FALSE
        <3>1. 1 \in DOMAIN t /\ 2 \in DOMAIN t /\ t[1] = t[2]
            BY <1>1, <2>2
        <3>. QED
            BY <3>1 DEF Distinct
    <2>. QED
        BY <1>1, <2>1, <2>2
<1>3. Len(s) = Len(t)
    <2>1. Len(s) = 0 => Listed(s) = {}
        BY <1>1 DEF Listed
    <2>2. Len(t) = 0 => Listed(t) = {}
        BY <1>1 DEF Listed
    <2>3. Len(s) # 0 => s[1] \in Listed(t)
        BY <1>1
    <2>4. Len(t) # 0 => t[1] \in Listed(s)
        BY <1>1
    <2>5. Len(s) = 0 <=> Len(t) = 0
        BY <2>1, <2>2, <2>3, <2>4
    <2>6. Len(s) \in Nat /\ Len(t) \in Nat
        BY <1>1
    <2>. QED
        BY <1>2, <2>5, <2>6
<1>. QED
    BY <1>1, <1>2, <1>3

(* A submit repeated after a lost receipt is the request it repeats: a       *)
(* checkout has one Version of a commit and Intent on one dependency, or on  *)
(* none.                                                                     *)
THEOREM OneSubmission == WorkspaceSpec => []SubmittedOnce
<1>1. XInv => SubmittedOnce
    <2>. SUFFICES ASSUME XInv, NEW v \in Versions, NEW w \in Versions,
                         OfCheckout(v), versions[v].op = "propose",
                         OfCheckout(w), versions[w].op = "propose",
                         \A field \in {"base", "content", "deps"} :
                             versions[v][field] = versions[w][field],
                         \A d, e \in versions[v].deps : d = e
                  PROVE  v = w
        BY DEF SubmittedOnce
    <2>1. WellMade(versions[v]) /\ WellMade(versions[w])
        BY DEF XInv, CheckoutInv, AllWellMade
    <2>2. /\ versions[v].base = versions[w].base
          /\ versions[v].content = versions[w].content
          /\ versions[v].deps = versions[w].deps
        OBVIOUS
    <2>3. PICK s \in Seq(Nat), t \in Seq(Nat) :
              /\ versions[v].key = <<"submit", versions[v].base, versions[v].content, s>>
              /\ versions[w].key = <<"submit", versions[w].base, versions[w].content, t>>
              /\ Distinct(s) /\ versions[v].deps = Listed(s)
              /\ Distinct(t) /\ versions[w].deps = Listed(t)
        BY <2>1 DEF WellMade, OfCheckout
    <2>4. s = t
        BY <2>2, <2>3, OneListed
    <2>5. versions[v].key = versions[w].key
        BY <2>2, <2>3, <2>4
    <2>. QED
        BY <2>5, SameFacts DEF XInv, Wide!LInv, Wide!KeysAccounted, Wide!OneEffectPerKey
<1>. QED
    BY <1>1, WorkspaceInductive, PTL
=============================================================================
