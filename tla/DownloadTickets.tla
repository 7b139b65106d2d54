-------------------------- MODULE DownloadTickets --------------------------
(***************************************************************************)
(* The download tickets of one file of file-service, of its owner or of    *)
(* the holder of an evidence grant.  A redemption claims a ticket in one   *)
(* statement, streams the object outside any transaction and settles its   *)
(* claim afterwards: a reusable ticket counts a use, a single-use one is   *)
(* reserved under a lease, which the redemption, a refused claim or the    *)
(* cleanup sweep ends.                                                     *)
(***************************************************************************)
EXTENDS Naturals, FiniteSets

CONSTANTS
    Links,          \* rows of file_access_ticket for downloads
    Redemptions,    \* requests that redeem one
    MaxDownloads,   \* ticketMaxDownloads: the cap of a reusable ticket
    MaxInFlight,    \* downloadMaxInFlight: the slots of the process
    MaxLinkFaults   \* bound on crashes and settlements that cannot be written

ASSUME SlotsExist == MaxDownloads \in Nat \ {0} /\ MaxInFlight \in Nat \ {0}
ASSUME LinkFaultsAreBounded == MaxLinkFaults \in Nat
ASSUME NoneIsNoLink == "none" \notin Links \cup Redemptions

VARIABLES
    link,           \* rows
    available,      \* the file's status is AVAILABLE
    granted,        \* the evidence grant is neither revoked nor expired
    past,           \* tickets past expiresAt
    leaseOver,      \* reservations past leaseUntil
    redeem,         \* what each redemption is doing
    sent,           \* redemptions whose headers left the process, per ticket (history)
    linkFaults

linkVars == <<link, available, granted, past, leaseOver, redeem, sent, linkFaults>>

NoLink  == [made |-> FALSE, single |-> FALSE, viaGrant |-> FALSE, revoked |-> FALSE,
            uses |-> 0, redemption |-> "none", lease |-> "none"]
NotRedeeming == [step |-> "idle", link |-> "none", headers |-> FALSE]

LinkTypeOK ==
    /\ link \in [Links -> [made : BOOLEAN, single : BOOLEAN, viaGrant : BOOLEAN, revoked : BOOLEAN, uses : 0..MaxDownloads,
                           redemption : {"none", "reserved", "committed", "uncertain"},
                           lease : Redemptions \cup {"none"}]]
    /\ available \in BOOLEAN /\ granted \in BOOLEAN
    /\ past \in SUBSET Links /\ leaseOver \in SUBSET Links
    /\ redeem \in [Redemptions -> [step : {"idle", "opening", "streaming", "completed", "cut", "ended"},
                                   link : Links \cup {"none"}, headers : BOOLEAN]]
    /\ sent \in [Links -> SUBSET Redemptions]
    /\ linkFaults \in 0..MaxLinkFaults

NoLinks ==
    /\ link = [t \in Links |-> NoLink]
    /\ granted = TRUE
    /\ past = {} /\ leaseOver = {}
    /\ redeem = [r \in Redemptions |-> NotRedeeming]
    /\ sent = [t \in Links |-> {}]

LinkFault == linkFaults < MaxLinkFaults /\ linkFaults' = linkFaults + 1

-----------------------------------------------------------------------------
(* Issue, revocation, deletion of the file, time *)

\* recordDownload(), recordGrantDownload(): the file (and the grant) are share-locked
IssueLink(t, single, viaGrant) ==
    /\ ~link[t].made
    /\ available
    /\ viaGrant => granted
    /\ link' = [link EXCEPT ![t] = [NoLink EXCEPT !.made = TRUE, !.single = single, !.viaGrant = viaGrant]]
    /\ UNCHANGED <<available, granted, past, leaseOver, redeem, sent, linkFaults>>

RevokeLinks(S) == link' = [t \in Links |-> IF t \in S THEN [link[t] EXCEPT !.revoked = TRUE] ELSE link[t]]

RevokeLink(t) ==
    /\ link[t].made /\ ~link[t].revoked
    /\ RevokeLinks({t})
    /\ UNCHANGED <<available, granted, past, leaseOver, redeem, sent, linkFaults>>

\* the tickets of a grant and of a file die with it, in one transaction
RevokeGrant ==
    /\ granted
    /\ granted' = FALSE
    /\ RevokeLinks({t \in Links : link[t].made /\ link[t].viaGrant})
    /\ UNCHANGED <<available, past, leaseOver, redeem, sent, linkFaults>>

DeleteFile ==
    /\ available
    /\ available' = FALSE
    /\ RevokeLinks({t \in Links : link[t].made})
    /\ UNCHANGED <<granted, past, leaseOver, redeem, sent, linkFaults>>

\* a ticket's lease never outlasts the ticket
LinkExpires(t) ==
    /\ link[t].made /\ t \notin past
    /\ past' = past \cup {t}
    /\ leaseOver' = IF link[t].redemption = "reserved" THEN leaseOver \cup {t} ELSE leaseOver
    /\ UNCHANGED <<link, available, granted, redeem, sent, linkFaults>>

LeaseOver(t) ==
    /\ link[t].redemption = "reserved"
    /\ leaseOver' = leaseOver \cup {t}
    /\ UNCHANGED <<link, available, granted, past, redeem, sent, linkFaults>>

\* purgeExpired(): never a reservation still open; the row is gone for good
PurgeLink(t) ==
    /\ t \in past /\ link[t].redemption # "reserved" /\ ~link[t].revoked
    /\ RevokeLinks({t})
    /\ UNCHANGED <<available, granted, past, leaseOver, redeem, sent, linkFaults>>

-----------------------------------------------------------------------------
(* redeem() *)

InFlight == Cardinality({r \in Redemptions : redeem[r].step \notin {"idle", "ended"}})

Uncapped_(t) == link[t].single => link[t].uses = 0 /\ link[t].redemption = "none"
Claimable(t) == link[t].uses < MaxDownloads /\ (link[t].single => link[t].uses = 0 /\ link[t].redemption = "none")

\* claimDownload(); a full process rolls the claim back
ClaimLink(r, t) ==
    /\ redeem[r].step = "idle"
    /\ InFlight < MaxInFlight
    /\ link[t].made /\ ~link[t].revoked /\ t \notin past
    /\ available /\ (link[t].viaGrant => granted)
    /\ Claimable(t)
    /\ link' = [link EXCEPT ![t] = IF @.single THEN [@ EXCEPT !.redemption = "reserved", !.lease = r]
                                               ELSE [@ EXCEPT !.uses = link[t].uses + 1]]
    /\ leaseOver' = leaseOver \ {t}
    /\ redeem' = [redeem EXCEPT ![r] = [step |-> "opening", link |-> t, headers |-> FALSE]]
    /\ UNCHANGED <<available, granted, past, sent, linkFaults>>

\* a lease that ran out is settled as uncertain: by a refused claim or by the sweep
Settleable_(t) == link[t].redemption = "reserved" /\ t \in leaseOver /\ t \notin past
Settleable(t)  == link[t].redemption = "reserved" /\ t \in leaseOver

SettleExpired(t) ==
    /\ Settleable(t)
    /\ link' = [link EXCEPT ![t].redemption = "uncertain", ![t].uses = 1]
    /\ UNCHANGED <<available, granted, past, leaseOver, redeem, sent, linkFaults>>

\* stream(): a refusal before the first byte, or the headers leave
OpenFails(r) ==
    /\ redeem[r].step = "opening"
    /\ redeem' = [redeem EXCEPT ![r].step = "cut"]
    /\ UNCHANGED <<link, available, granted, past, leaseOver, sent, linkFaults>>

Stream(r) ==
    /\ redeem[r].step = "opening"
    /\ redeem' = [redeem EXCEPT ![r].step = "streaming", ![r].headers = TRUE]
    /\ sent' = [sent EXCEPT ![redeem[r].link] = @ \cup {r}]
    /\ UNCHANGED <<link, available, granted, past, leaseOver, linkFaults>>

StreamEnds(r) ==
    /\ redeem[r].step = "streaming"
    /\ \E end \in {"completed", "cut"} : redeem' = [redeem EXCEPT ![r].step = end]
    /\ UNCHANGED <<link, available, granted, past, leaseOver, sent, linkFaults>>

\* settleLease(): this lease only, in a state that allows the outcome
Outcome_(r) == IF redeem[r].step = "completed" THEN "committed" ELSE "released"
Outcome(r)  == IF redeem[r].step = "completed" THEN "committed" ELSE IF redeem[r].headers THEN "uncertain" ELSE "released"

From(outcome) == IF outcome = "committed" THEN {"reserved", "uncertain"} ELSE {"reserved"}

Settle(r) ==
    LET t  == redeem[r].link
        to == Outcome(r)
    IN  /\ redeem[r].step \in {"completed", "cut"}
        /\ \/ /\ link' = IF ~link[t].single \/ link[t].lease # r \/ link[t].redemption \notin From(to)
                         THEN link
                         ELSE [link EXCEPT ![t] = IF to = "released"
                                                  THEN [@ EXCEPT !.redemption = "none", !.lease = "none"]
                                                  ELSE [@ EXCEPT !.redemption = to, !.uses = 1]]
              /\ UNCHANGED linkFaults
           \/ LinkFault /\ UNCHANGED link
        /\ redeem' = [redeem EXCEPT ![r].step = "ended"]
        /\ UNCHANGED <<available, granted, past, leaseOver, sent>>

RedemptionCrash(r) ==
    /\ redeem[r].step \notin {"idle", "ended"}
    /\ LinkFault
    /\ redeem' = [redeem EXCEPT ![r].step = "ended"]
    /\ UNCHANGED <<link, available, granted, past, leaseOver, sent>>

-----------------------------------------------------------------------------

RedemptionStep(r) == OpenFails(r) \/ Stream(r) \/ StreamEnds(r) \/ Settle(r)

LinkNext ==
    \/ \E t \in Links, single, viaGrant \in BOOLEAN : IssueLink(t, single, viaGrant)
    \/ \E t \in Links : RevokeLink(t) \/ LinkExpires(t) \/ LeaseOver(t) \/ PurgeLink(t) \/ SettleExpired(t)
    \/ RevokeGrant
    \/ DeleteFile
    \/ \E r \in Redemptions : RedemptionStep(r) \/ RedemptionCrash(r) \/ \E t \in Links : ClaimLink(r, t)

\* time passes, and the cleanup worker passes again and again
LinkFairness == \A t \in Links : WF_linkVars(LeaseOver(t)) /\ WF_linkVars(SettleExpired(t))

-----------------------------------------------------------------------------
(* Properties *)

\* The headers of a single-use ticket's content leave for one redemption at most, and a ticket
\* anyone was answered with can never be claimed again (claimDownload(), settleLease())
SingleUse ==
    \A t \in Links : link[t].single =>
       /\ Cardinality(sent[t]) <= 1
       /\ sent[t] # {} => ~Claimable(t)

\* A reusable ticket is never answered with more often than it counted
UsesCounted == \A t \in Links : ~link[t].single => Cardinality(sent[t]) <= link[t].uses

DownloadsSound == SingleUse /\ UsesCounted

\* No reservation stays open for ever (settleExpiredLeases())
ReservationsSettle == \A t \in Links : []<>(link[t].redemption # "reserved")
=============================================================================
