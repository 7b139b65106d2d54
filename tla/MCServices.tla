----------------------------- MODULE MCServices -----------------------------
(***************************************************************************)
(* Small instances of the modules of auth-service, file-service,           *)
(* organization-service, audit-service and release-service.  They do not   *)
(* interact in these operations: a behaviour is of one of them, the one    *)
(* `focus' names, and the others stay where nothing has happened, so their *)
(* fairness asks for nothing.                                              *)
(***************************************************************************)
EXTENDS SessionTokens, AuthorizationReceipts, FileLifecycle, DownloadTickets, OwnershipTransition,
        AuditEvidence, ReleasePolicy

CONSTANTS
    t1, f1,         \* a member of Tokens and of Families: the session there is at the start
    k1, k2, b1, b2, s1, s2, i1      \* members of Keys, Contents, Proofs and Issuers

ASSUME StartIsOfTheInstance ==
    /\ t1 \in Tokens /\ f1 \in Families
    /\ {k1, k2} \subseteq Keys /\ {b1, b2} \subseteq Contents /\ {s1, s2} \subseteq Proofs

VARIABLE focus

storageVars    == <<fileVars, linkVars>>
credentialVars == <<sessionVars, receiptVars>>
vars == <<focus, credentialVars, storageVars, ownershipVars, auditVars, releaseVars>>

ServicesTypeOK ==
    /\ SessionTypeOK /\ ReceiptTypeOK
    /\ FileTypeOK /\ LinkTypeOK
    /\ OwnershipTypeOK
    /\ AuditTypeOK
    /\ ReleaseTypeOK

SessionsStart ==
    /\ token = [t \in Tokens |-> IF t = t1 THEN [Absent EXCEPT !.family = f1] ELSE Absent]
    /\ closed = {}
    /\ expired = {}
    /\ request = [p \in Clients |-> Done]
    /\ ended = {}
    /\ active = TRUE

Asks(k, b, s) == [key |-> k, content |-> b, proof |-> s]

\* a request and its retry, with the proof or a new one; a key used again for something else; two
\* receipts, with a proof of their own or the same
ReceiptsStart ==
    /\ NoReceipts
    /\ losses = 0
    /\ \E second \in {Asks(k1, b1, s1), Asks(k1, b1, s2), Asks(k1, b2, s2), Asks(k2, b1, s2), Asks(k2, b1, s1)} :
          /\ focus # "receipts" => second = Asks(k1, b1, s1)
          /\ ask = [i \in Issuers |-> IF i = i1 THEN Asks(k1, b1, s1) ELSE second]

Init ==
    /\ focus \in {"sessions", "receipts", "files", "downloads", "ownership", "audit", "releases"}
    /\ SessionsStart
    /\ ReceiptsStart
    /\ NothingStored /\ fileFaults = 0
    /\ NoLinks /\ available = TRUE /\ linkFaults = 0
    /\ Unowned /\ command = [p \in Operators |-> NoCommand]
    /\ NothingAudited
    /\ NothingChanged /\ release = [v \in Versions |-> IF v = 1 THEN "published" ELSE "none"]

Next ==
    /\ UNCHANGED focus
    /\ \/ /\ focus = "sessions" /\ SessionNext
          /\ UNCHANGED <<receiptVars, storageVars, ownershipVars, auditVars, releaseVars>>
       \/ /\ focus = "receipts" /\ ReceiptNext
          /\ UNCHANGED <<sessionVars, storageVars, ownershipVars, auditVars, releaseVars>>
       \/ /\ focus = "files" /\ FileNext
          /\ UNCHANGED <<credentialVars, linkVars, ownershipVars, auditVars, releaseVars>>
       \/ /\ focus = "downloads" /\ LinkNext
          /\ UNCHANGED <<credentialVars, fileVars, ownershipVars, auditVars, releaseVars>>
       \/ /\ focus = "ownership" /\ OwnershipNext
          /\ UNCHANGED <<credentialVars, storageVars, auditVars, releaseVars>>
       \/ /\ focus = "audit" /\ AuditNext
          /\ UNCHANGED <<credentialVars, storageVars, ownershipVars, releaseVars>>
       \/ /\ focus = "releases" /\ ReleaseNext
          /\ UNCHANGED <<credentialVars, storageVars, ownershipVars, auditVars>>

Services == Init /\ [][Next]_vars /\ FileFairness /\ LinkFairness

\* Sessions and receipts of auth-service: see SessionTokens and AuthorizationReceipts
CredentialsSound == SessionsSound /\ ReceiptsSound

\* Files and download tickets of file-service: see FileLifecycle and DownloadTickets
StorageSound == FilesSound /\ DownloadsSound

\* No upload, deletion or reservation of file-service stays half done for ever
Settled == FilesSettle /\ ReservationsSettle
=============================================================================
