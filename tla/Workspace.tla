----------------------------- MODULE Workspace -----------------------------
(***************************************************************************)
(* A contributor's checkout and the grd commands submit and sync that run  *)
(* in it against the repository, call by call: the contributor edits and   *)
(* commits meanwhile, other clients propose, amend, rebase and accept, a   *)
(* receipt is lost, a command is killed and repeated.  The repository is   *)
(* that of Repository.                                                     *)
(*                                                                         *)
(* A Git commit is its history, the sequence of patches from the root, so  *)
(* one commit is an ancestor of another if it is a prefix of it.  sync     *)
(* keeps author dates as committer dates: a rebase repeated gives the same *)
(* commit.                                                                 *)
(***************************************************************************)
EXTENDS Repository

LOCAL INSTANCE SequencesExt   \* IsPrefix

CONSTANTS
    Mine,     \* patches this contributor may commit
    Theirs    \* patches of the other contributors

ASSUME PatchesAssumption == Mine \cap Theirs = {}

VARIABLES
    head,     \* the commit checked out
    dirty,    \* there are uncommitted changes
    authored, \* the patches committed in this checkout so far
    dropped,  \* those that a reset took out of its history unseen
    tool      \* the grd command running in it: see Command

checkout == <<head, dirty, authored, dropped>>
workspaceVars == <<vars, checkout, tool>>

Distinct(s) == \A i, j \in DOMAIN s : s[i] = s[j] => i = j

(* Commits of the instance: histories without a patch twice.                 *)
Histories ==
    {h \in UNION {[1 .. n -> Mine \cup Theirs] : n \in 0 .. Cardinality(Mine \cup Theirs)} :
        Distinct(h)}

ASSUME HistoriesAssumption == Content = Histories

Patches(h) == {h[i] : i \in DOMAIN h}
IsAncestor(c, h) == IsPrefix(c, h)

Command ==
    [at : {"idle", "propose", "proposing", "intent", "history", "change", "compare",
           "rebase", "recording", "project", "status", "reset", "landed", "synced"},
     head : Content,    \* HEAD as the command knows it
     found : Content,   \* HEAD as it was found before the reset
     intent : Nat,      \* the accepted Intent it was told of
     version : Nat,     \* the Version to sync; 0: infer it from the history
     seen : Nat,        \* the newest Version in the history it read
     deps : Seq(Nat),   \* the dependencies to submit, as they were listed
     to : Nat,          \* the Version that took the place of the submitted one
     target : Content,  \* what is to be recorded, or to be checked out
     then : {"compare", "synced"}]

NoCommand ==
    [at |-> "idle", head |-> InitialContent, found |-> InitialContent, intent |-> 0,
     version |-> 0, seen |-> 0, deps |-> <<>>, to |-> 0, target |-> InitialContent, then |-> "synced"]

Free == tool.at \in {"idle", "synced"}
Quit == tool' = NoCommand
Told == revisions[tool.intent].content

-----------------------------------------------------------------------------
(* The contributor at the checkout.                                          *)

Edit ==
    /\ ~dirty
    /\ dirty' = TRUE
    /\ UNCHANGED <<vars, head, authored, dropped, tool>>

Commit(p) ==
    /\ dirty
    /\ p \in Mine \ authored
    /\ head' = Append(head, p)
    /\ dirty' = FALSE
    /\ authored' = authored \cup {p}
    /\ UNCHANGED <<vars, dropped, tool>>

-----------------------------------------------------------------------------
(* submit.                                                                   *)

(* Mutant: a repeated submit is a new request. *)
FreshSubmitKey == <<"submit", tool.intent, tool.head, Len(pins)>>

(* The dependencies go into the key in the order in which they were listed.  *)
SubmitKey == <<"submit", tool.intent, tool.head, tool.deps>>

(* The Versions a list of dependencies names.                                *)
Listed(deps) == {deps[i] : i \in DOMAIN deps}

(* Lists of dependencies: Propose refuses one that names a Version twice.    *)
DependencyLists ==
    {deps \in UNION {[1 .. n -> Versions] : n \in 0 .. Cardinality(Versions)} :
        Distinct(deps)}

(* The keys of the other clients are their own.                              *)
OtherKeys == {"client"} \X Keys

OfCheckout(v) == versions[v].key \notin OtherKeys

Submit(deps) ==
    /\ Free /\ ~dirty
    /\ tool' = [NoCommand EXCEPT !.at = "propose", !.head = head, !.deps = deps]
    /\ UNCHANGED <<vars, checkout>>

(* Only new work on top of the accepted Intent is proposed.                  *)
AskIntentToSubmit ==
    LET accepted == revisions[memCurrent].content IN
    /\ tool.at = "propose"
    /\ mode = "serving"
    /\ IF accepted # tool.head /\ IsAncestor(accepted, tool.head)
       THEN tool' = [tool EXCEPT !.at = "proposing", !.intent = memCurrent]
       ELSE Quit
    /\ UNCHANGED <<vars, checkout>>

SendProposal ==
    /\ tool.at = "proposing"
    /\ Propose(SubmitKey, tool.intent, tool.head, Listed(tool.deps))
    /\ UNCHANGED <<checkout, tool>>

ProposalReceived ==
    /\ tool.at = "proposing"
    /\ SubmitKey \in claimed
    /\ Quit
    /\ UNCHANGED <<vars, checkout>>

-----------------------------------------------------------------------------
(* sync.                                                                     *)

(* The Version is inferred, or named.                                        *)
Sync(v) ==
    /\ Free /\ ~dirty
    /\ tool' = [NoCommand EXCEPT !.at = "intent", !.head = head, !.version = v]
    /\ UNCHANGED <<vars, checkout>>

AskIntentToSync ==
    /\ tool.at = "intent"
    /\ mode = "serving"
    /\ tool' = [tool EXCEPT !.at = "history", !.intent = memCurrent]
    /\ UNCHANGED <<vars, checkout>>

(* The submitted Versions a checkout at h may be meant for.                  *)
Pending(h) ==
    {v \in Versions : Latest(v) /\ ~Promoted(v) /\ IsAncestor(versions[v].content, h)}

(* Without exactly one such Version, or the one asked for, sync refuses.     *)
ReadHistory ==
    /\ tool.at = "history"
    /\ LET chosen == IF tool.version # 0 THEN {tool.version} ELSE Pending(tool.head)
       IN  IF Cardinality(chosen) = 1
           THEN tool' = [tool EXCEPT !.at = "change", !.seen = Len(pins) - Cardinality(inFlight),
                                     !.version = CHOOSE v \in chosen : TRUE]
           ELSE Quit
    /\ UNCHANGED <<vars, checkout>>

(* git rebase --onto onto upstream, of h: patch by patch, but for those that *)
(* are there already.                                                        *)
Rebased(h, onto, upstream) ==
    LET replayed[n \in 0 .. Len(h)] ==
            IF n = 0 THEN onto
            ELSE IF h[n] \in Patches(upstream) \cup Patches(onto) THEN replayed[n - 1]
            ELSE Append(replayed[n - 1], h[n])
    IN  replayed[Len(h)]

(* v and what it replaced, by the rebases in the history that was read.      *)
RebasedFrom(v) ==
    LET back[w \in 0 .. Len(pins)] ==
            IF w \in Versions /\ w <= tool.seen /\ versions[w].op = "rebase"
            THEN {w} \cup back[versions[w].from]
            ELSE {w}
    IN  back[v]

(* A rebase may stop at a conflict; the checkout has not been touched then.  *)
Project(next, onto, upstream, then) ==
    \/ tool' = [next EXCEPT !.at = "project", !.then = then,
                            !.target = Rebased(next.head, onto, upstream)]
    \/ Quit

(* Whether the checkout still descends from what was submitted.              *)
SourceIsThere == IsAncestor(versions[tool.version].content, tool.head)

(* Mutant: the wrong end of the rebase is looked for. *)
SourceTaken(latest) == SourceIsThere

AlreadyTaken(latest) == IsAncestor(versions[latest].content, tool.head)

(* The Version was rebased before: take the replacement over.                *)
TakeOver(latest) ==
    LET next == [tool EXCEPT !.at = "compare", !.version = latest, !.to = latest] IN
    IF AlreadyTaken(latest) THEN tool' = next
    ELSE IF SourceIsThere
    THEN Project(next, versions[latest].content, versions[tool.version].content, "compare")
    ELSE Quit

(* The Version was amended and the Amendment accepted: only what was         *)
(* committed after the submission is carried over.                           *)
SyncAmended(latest) ==
    LET next == [tool EXCEPT !.at = "synced", !.to = latest]
        source == versions[tool.version].content
    IN  IF /\ versions[latest].op = "amend" /\ versions[latest].from = tool.version
           /\ Promoted(latest)
           /\ IsAncestor(versions[latest].content, Told)
        THEN IF IsAncestor(Told, tool.head) THEN tool' = next
             ELSE IF IsAncestor(source, tool.head) THEN Project(next, Told, source, "synced")
             ELSE Quit
        ELSE Quit

AskChange ==
    /\ tool.at = "change"
    /\ \E latest \in Versions :
        /\ Latest(latest) /\ versions[latest].change = versions[tool.version].change
        /\ IF latest = tool.version THEN tool' = [tool EXCEPT !.at = "compare"]
           ELSE IF tool.version \in RebasedFrom(latest) THEN TakeOver(latest)
           ELSE SyncAmended(latest)
    /\ UNCHANGED <<vars, checkout>>

(* The checkout was put on top of the accepted Intent already.               *)
CurrentIsAncestor == IsAncestor(Told, tool.head)

Compare ==
    LET v == versions[tool.version]
        next == [tool EXCEPT !.at = "rebase", !.target = tool.head]
    IN  /\ tool.at = "compare"
        /\ IF v.content = Told \/ v.base = tool.intent THEN tool' = [tool EXCEPT !.at = "synced"]
           ELSE IF ~IsAncestor(v.content, tool.head) THEN Quit
           ELSE IF CurrentIsAncestor THEN tool' = next
           ELSE \/ tool' = [next EXCEPT !.target =
                                Rebased(tool.head, Told, revisions[v.base].content)]
                \/ Quit
        /\ UNCHANGED <<vars, checkout>>

HeldKey == <<"held", tool.version, tool.intent, tool.head, "rebase">>

(* Everything local commits added since the submission goes along.           *)
SendRebase ==
    /\ tool.at = "rebase"
    /\ tool.intent = current
    /\ RebaseHeldVersion(HeldKey, tool.version, tool.target)
    /\ tool' = [tool EXCEPT !.at = "recording"]
    /\ UNCHANGED checkout

(* A sync that was killed may have recorded it: the receipt is its.          *)
FindRecorded ==
    /\ tool.at = "rebase"
    /\ HeldKey \in claimed
    /\ tool' = [tool EXCEPT !.at = "recording"]
    /\ UNCHANGED <<vars, checkout>>

RebaseReceived ==
    /\ tool.at = "recording"
    /\ \E v \in Versions :
        /\ versions[v].key = HeldKey
        /\ tool' = [tool EXCEPT !.to = v, !.then = "synced",
                                !.at = IF tool.target = tool.head THEN "synced" ELSE "project"]
    /\ UNCHANGED <<vars, checkout>>

(* projectCleanWorkspace looks at the checkout again before it resets it:    *)
(* git rev-parse, then git status.                                           *)

(* Mutant: it does not. *)
NotInspected == tool.at = "project"

Unmoved == head = tool.head

InspectHead ==
    /\ tool.at = "project"
    /\ IF Unmoved THEN tool' = [tool EXCEPT !.at = "status", !.found = head] ELSE Quit
    /\ UNCHANGED <<vars, checkout>>

InspectStatus ==
    /\ tool.at = "status"
    /\ IF ~dirty THEN tool' = [tool EXCEPT !.at = "reset"] ELSE Quit
    /\ UNCHANGED <<vars, checkout>>

(* git reset --keep takes HEAD to the target from wherever it is by now, and *)
(* keeps changes that are not committed, or refuses if the target needs one  *)
(* of the files.  (The target is never the HEAD that was found: no command   *)
(* comes here with the checkout it wants.)                                   *)
Reset ==
    /\ tool.at = "reset"
    /\ \/ /\ head' = tool.target
          /\ dropped' = dropped \cup (Patches(head) \ Patches(tool.found))
          /\ tool' = [tool EXCEPT !.at = "landed"]
       \/ dirty /\ Quit /\ UNCHANGED <<head, dropped>>
    /\ UNCHANGED <<vars, dirty, authored>>

(* The look at what the reset left.  (Its two commands are one step here, as *)
(* are those of the first look of submit and sync: what is committed between *)
(* them might as well be committed after them.)                              *)
ProjectClean ==
    /\ tool.at = "landed"
    /\ IF ~dirty /\ head = tool.target
       THEN tool' = [tool EXCEPT !.at = tool.then, !.head = head, !.found = head]
       ELSE Quit
    /\ UNCHANGED <<vars, checkout>>

(* The command is killed, a call is refused, or its answer is lost: a        *)
(* request that was sent may still be recorded.                              *)
Aborted ==
    /\ ~Free
    /\ Quit
    /\ UNCHANGED <<vars, checkout>>

-----------------------------------------------------------------------------
(* The other clients, through grd as well: what they record descends from    *)
(* the content of the Intent it is based on.  That is submit and sync's      *)
(* doing, and an assumption about amend and rebase-held: the repository takes *)
(* whatever content it is given.                                             *)

OtherClients ==
    /\ \E k \in OtherKeys :
        \/ \E p \in Theirs : p \notin Patches(revisions[current].content)
               /\ Propose(k, current, Append(revisions[current].content, p), {})
        \/ \E v \in Versions, p \in Theirs :
               LET base == revisions[versions[v].base].content IN
               p \notin Patches(base) /\ Amend(k, v, Append(base, p))
        \/ \E v \in Versions :
               RebaseHeldVersion(k, v, Rebased(versions[v].content, revisions[current].content,
                                               revisions[versions[v].base].content))
    /\ UNCHANGED <<checkout, tool>>

RunnerPromotes ==
    /\ \E v \in Versions : Promote(v)
    /\ UNCHANGED <<checkout, tool>>

WorkspaceInit ==
    /\ Init
    /\ head = InitialContent
    /\ dirty = FALSE
    /\ authored = {}
    /\ dropped = {}
    /\ tool = NoCommand

ToolStep ==
    \/ \E deps \in DependencyLists : Submit(deps)
    \/ AskIntentToSubmit \/ SendProposal \/ ProposalReceived
    \/ \E v \in {0} \cup Versions : Sync(v)
    \/ AskIntentToSync \/ ReadHistory \/ AskChange \/ Compare
    \/ SendRebase \/ FindRecorded \/ RebaseReceived
    \/ InspectHead \/ InspectStatus \/ Reset \/ ProjectClean
    \/ Aborted

WorkspaceNext ==
    \/ Edit \/ \E p \in Mine : Commit(p)
    \/ ToolStep
    \/ OtherClients \/ RunnerPromotes
    \/ (RecordingStep \/ PromotionStep) /\ UNCHANGED <<checkout, tool>>

WorkspaceSpec == WorkspaceInit /\ [][WorkspaceNext]_workspaceVars

-----------------------------------------------------------------------------
(* Properties.                                                               *)

(* No sync loses work it could see: every commit made in the checkout is     *)
(* still in its history, or in a recorded Version that a recorded successor  *)
(* has replaced (an Amendment, or another's rebase, may say it differently), *)
(* whatever is committed while a sync asks, rebases and records.  All but a  *)
(* commit made after projectCleanWorkspace read HEAD and before its git      *)
(* reset: that one only the reflog has.                                      *)
WorkKept ==
    \A p \in authored \ dropped :
        \/ p \in Patches(head)
        \/ \E v \in Versions : p \in Patches(versions[v].content) /\ ~Latest(v)

(* A sync that reports success for a Version the checkout descends from, or  *)
(* for one another took over from, leaves a checkout that descends from the  *)
(* accepted Intent it reports, so that submit takes the work on top of it,   *)
(* and from the Version it names as the one that took over.  A sync that     *)
(* names a Version based on that Intent already says nothing of a checkout   *)
(* that is not on it; and the other clients record only what descends from   *)
(* its base (see OtherClients).                                              *)
SyncedOntoRecord ==
    tool.at = "synced" =>
        /\ tool.to # 0 \/ SourceIsThere => IsAncestor(Told, head)
        /\ tool.to # 0 => IsAncestor(versions[tool.to].content, head)

(* However often submit is repeated after a lost receipt, the same commit    *)
(* proposed for the same Intent on the same dependency, or on none, is one   *)
(* Version.  (The same two dependencies listed the other way round are       *)
(* another request, and another Version.)                                    *)
SubmittedOnce ==
    \A v, w \in Versions :
        /\ OfCheckout(v) /\ versions[v].op = "propose"
        /\ OfCheckout(w) /\ versions[w].op = "propose"
        /\ \A field \in {"base", "content", "deps"} : versions[v][field] = versions[w][field]
        /\ \A d, e \in versions[v].deps : d = e
        => v = w
=============================================================================
