--------------------------- MODULE ReleasePolicy ---------------------------
(***************************************************************************)
(* The releases of one client component of release-service and the minimum *)
(* version its clients must have.  CI registers and publishes; an owner    *)
(* withdraws a release or raises the minimum: every precondition is read   *)
(* first, then the owner's step-up is spent in auth-service, then one      *)
(* transaction under the component's advisory lock checks again and        *)
(* writes.  Policies are append-only: minimum[n] is the minimum of policy  *)
(* version n.  Clients ask whether they must update and keep the answer    *)
(* under its entity tag.  An optional value is a set of at most one.       *)
(***************************************************************************)
EXTENDS Naturals, Sequences

CONSTANTS
    Versions,       \* the versions CI may register, ordered as numbers are
    Stable,         \* those without a pre-release tag
    Installed,      \* the versions some client runs
    Admins,
    MaxPolicies     \* bound on the changes of the minimum

ASSUME VersionsAreOrdered == Versions \subseteq Nat /\ Stable \subseteq Versions /\ Installed \subseteq Versions
ASSUME PoliciesAreBounded == MaxPolicies \in Nat

VARIABLES
    release,        \* of each release
    minimum,        \* the policies
    change,         \* what each owner's request has read and done
    componentLock,  \* release_lock_component(): who holds it
    intent,         \* the committed audit intents of policy changes
    kept,           \* what each client keeps: a decision and its tag
    wasted          \* a step-up was spent on a refusal no concurrent change explains (history)

releaseVars == <<release, minimum, change, componentLock, intent, kept, wasted>>

NoChange == [kind |-> "none", version |-> 0, expected |-> 0, previous |-> {}, stage |-> "idle", raced |-> FALSE]

\* the releases there are at the start are the instance's
NothingChanged ==
    /\ minimum = <<>>
    /\ change = [p \in Admins |-> NoChange]
    /\ componentLock = {}
    /\ intent = {}
    /\ kept = [v \in Installed |-> {}]
    /\ wasted = FALSE

Published      == {v \in Stable : release[v] = "published"}
CurrentMinimum == IF minimum = <<>> THEN {} ELSE {minimum[Len(minimum)]}
Latest         == {v \in Published : \A w \in Published : w <= v}

\* minimum <= latest, without the release withdrawn or with all of them
BreaksMinimum_(v) == \E m \in CurrentMinimum : \A w \in Published : w < m
BreaksMinimum(v)  == \E m \in CurrentMinimum : \A w \in Published \ {v} : w < m
AtOrBelowLatest(v) == \E w \in Published : v <= w

-----------------------------------------------------------------------------
(* Automation *)

RegisterVersion(v) ==
    /\ release[v] = "none"
    /\ release' = [release EXCEPT ![v] = "registered"]
    /\ UNCHANGED <<minimum, change, componentLock, intent, kept, wasted>>

PublishVersion(v) ==
    /\ release[v] = "registered"
    /\ release' = [release EXCEPT ![v] = "published"]
    /\ UNCHANGED <<minimum, change, componentLock, intent, kept, wasted>>

-----------------------------------------------------------------------------
(* The owner's operations.  A change to the minimum in effect, asked for as such, writes nothing.  *)

AskWithdraw(p, v) ==
    /\ change[p] = NoChange
    /\ release[v] \in {"published", "withdrawn"}
    /\ release[v] = "published" => ~BreaksMinimum(v)
    /\ change' = [change EXCEPT ![p] = [NoChange EXCEPT !.kind = "withdraw", !.version = v, !.stage = "asked"]]
    /\ UNCHANGED <<release, minimum, componentLock, intent, kept, wasted>>

AskChange(p, v) ==
    /\ change[p] = NoChange
    /\ v \in Published
    /\ v \notin CurrentMinimum
    /\ change' = [change EXCEPT ![p] = [NoChange EXCEPT !.kind = "change", !.version = v, !.stage = "asked",
                                                           !.expected = Len(minimum)]]
    /\ UNCHANGED <<release, minimum, componentLock, intent, kept, wasted>>

\* auth-service consumes the proof, or refuses it
ProveChange(p) ==
    /\ change[p].stage = "asked"
    /\ \/ change' = [change EXCEPT ![p].stage = "proven"]
       \/ change' = [change EXCEPT ![p] = NoChange]
    /\ UNCHANGED <<release, minimum, componentLock, intent, kept, wasted>>

LockComponent(p) ==
    /\ change[p].stage = "proven"
    /\ componentLock = {}
    /\ componentLock' = {p}
    /\ change' = [change EXCEPT ![p].stage = "locked"]
    /\ UNCHANGED <<release, minimum, intent, kept, wasted>>

EndChange(p) ==
    /\ change' = [change EXCEPT ![p] = NoChange]
    /\ componentLock' = componentLock \ {p}

AlreadyMade(p) ==
    \/ change[p].kind = "withdraw" /\ release[change[p].version] = "withdrawn"
    \/ change[p].kind = "change" /\ change[p].version \in CurrentMinimum

\* compatibility_policy_append: the next version and no other
IsNext(n) == n = Len(minimum)

ChangeAllowed(p) ==
    \/ change[p].kind = "withdraw" /\ ~BreaksMinimum(change[p].version)
    \/ /\ change[p].kind = "change"
       /\ release[change[p].version] = "published"
       /\ IsNext(change[p].expected)
       /\ AtOrBelowLatest(change[p].version)

\* the checks under the lock: nothing to do, refused, or written and not committed yet
CheckAgain(p) ==
    /\ change[p].stage = "locked"
    /\ \/ AlreadyMade(p) /\ EndChange(p) /\ UNCHANGED wasted
       \/ ~AlreadyMade(p) /\ ~ChangeAllowed(p) /\ EndChange(p) /\ wasted' = (wasted \/ ~change[p].raced)
       \/ /\ ~AlreadyMade(p) /\ ChangeAllowed(p)
          /\ change' = [change EXCEPT ![p].stage = "written", ![p].previous = CurrentMinimum]
          /\ UNCHANGED <<componentLock, wasted>>
    /\ UNCHANGED <<release, minimum, intent, kept>>

\* the change and its audit intent
CommitChange(p) ==
    /\ change[p].stage = "written"
    /\ IF change[p].kind = "withdraw"
       THEN /\ release' = [release EXCEPT ![change[p].version] = "withdrawn"]
            /\ UNCHANGED <<minimum, intent>>
       ELSE /\ minimum' = Append(minimum, change[p].version)
            /\ intent' = intent \cup {[from |-> change[p].expected, minimum |-> change[p].version,
                                           previous |-> change[p].previous]}
            /\ UNCHANGED release
    /\ change' = [q \in Admins |-> IF q = p \/ change[q] = NoChange THEN NoChange
                                    ELSE [change[q] EXCEPT !.raced = TRUE]]
    /\ componentLock' = componentLock \ {p}
    /\ UNCHANGED <<kept, wasted>>

\* the instance dies, or the database fails
AbandonChange(p) ==
    /\ change[p] # NoChange
    /\ EndChange(p)
    /\ UNCHANGED <<release, minimum, intent, kept, wasted>>

-----------------------------------------------------------------------------
(* The public read: one statement, then decide() *)

DecisionFor(v) ==
    LET update == IF release[v] = "withdrawn" THEN "withdrawn"
                  ELSE IF \E m \in CurrentMinimum : v < m THEN "below_minimum"
                  ELSE IF \E w \in Latest : w > v THEN "available" ELSE "none"
    IN [update |-> update, latest |-> Latest, minimum |-> CurrentMinimum]

\* compatibilityEtag()
EntityTag(v) == <<release[v], Len(minimum), Latest>>

\* 304 when the client's tag matches: it goes on with the decision it keeps
AskCompatibility(v) ==
    /\ release[v] # "none"
    /\ \A a \in kept[v] : a.tag # EntityTag(v)
    /\ kept' = [kept EXCEPT ![v] = {[tag |-> EntityTag(v), decision |-> DecisionFor(v)]}]
    /\ UNCHANGED <<release, minimum, change, componentLock, intent, wasted>>

ReleaseNext ==
    \/ \E v \in Versions : RegisterVersion(v) \/ PublishVersion(v)
    \/ \E p \in Admins, v \in Versions : AskWithdraw(p, v)
    \/ Len(minimum) < MaxPolicies /\ \E p \in Admins, v \in Versions : AskChange(p, v)
    \/ \E p \in Admins : ProveChange(p) \/ LockComponent(p) \/ CheckAgain(p) \/ CommitChange(p) \/ AbandonChange(p)
    \/ \E v \in Installed : AskCompatibility(v)

-----------------------------------------------------------------------------
(* Properties *)

ReleaseTypeOK ==
    /\ release \in [Versions -> {"none", "registered", "published", "withdrawn"}]
    /\ minimum \in Seq(Stable)
    /\ \A p \in Admins :
          /\ change[p].kind \in {"none", "withdraw", "change"}
          /\ change[p].version \in Versions \cup {0}
          /\ change[p].stage \in {"idle", "asked", "proven", "locked", "written"}
    /\ componentLock \subseteq Admins

\* A client can always reach the minimum: some release it may install is at or above it
MinimumIsOffered == \A m \in CurrentMinimum : AtOrBelowLatest(m)

\* No change of the minimum replaces one its owner had not seen, and its evidence names the one it replaced
NoLostChange ==
    /\ \A e \in intent : /\ minimum[e.from + 1] = e.minimum
                           /\ e.previous = IF e.from = 0 THEN {} ELSE {minimum[e.from]}
    /\ \A n \in 1..Len(minimum) : \E e \in intent : e.from + 1 = n

\* A tag that still matches never keeps a client on a decision that has changed
TagsAreStrong == \A v \in Installed : \A a \in kept[v] : a.tag = EntityTag(v) => a.decision = DecisionFor(v)

ReleasesSound == MinimumIsOffered /\ NoLostChange /\ TagsAreStrong /\ ~wasted
=============================================================================
