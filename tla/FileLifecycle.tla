--------------------------- MODULE FileLifecycle ---------------------------
(***************************************************************************)
(* The files of file-service: a row of PostgreSQL and an object of the     *)
(* store, which no transaction covers together.  An upload stores the      *)
(* object and then settles the row; the deletion worker removes the object *)
(* and then settles the row; either may stop in between, and the sweeps of *)
(* cleanup.worker.ts take over what a lease says was abandoned.  A time is *)
(* a set of the files past it.                                             *)
(***************************************************************************)
EXTENDS Naturals, FiniteSets

CONSTANTS
    Files,
    UploadKeys,     \* upload tickets and Idempotency-Keys
    Tickets,        \* those of them that are tickets
    Cleaners,       \* cleanup workers
    MaxFileFaults   \* bound on crashes, store failures and lost answers of the database

ASSUME TicketsAreKeys == Tickets \subseteq UploadKeys
ASSUME FileFaultsAreBounded == MaxFileFaults \in Nat

VARIABLES
    file,           \* row of `file', and whether an evidence hold of it is active
    object,         \* files whose object the store holds
    upload,         \* what the request of each file's upload is doing
    late,           \* files past uploadExpiresAt
    overdue,        \* files past attachDeadline
    leased,         \* files whose deleteLeaseUntil has not passed
    cleaner,        \* what each cleanup worker is doing
    wanted,         \* files their owner asked to delete (history)
    unanswered,     \* files whose completion committed and was answered with an error (history)
    fileFaults

fileVars == <<file, object, upload, late, overdue, leased, cleaner, wanted, unanswered, fileFaults>>

FileStatus == {"none", "UPLOADING", "AVAILABLE", "FAILED", "REJECTED", "DELETING", "DELETED"}
NoFile     == [status |-> "none", key |-> "none", attached |-> FALSE, hold |-> "none", attempts |-> 0]
AtRestC    == [task |-> "idle", file |-> "none", attempt |-> 0]
MaxClaims  == MaxFileFaults + 2     \* the attempts of a deletion are counted up to here

FileTypeOK ==
    /\ file \in [Files -> [status : FileStatus, key : UploadKeys \cup {"none"}, attached : BOOLEAN,
                           hold : {"none", "active", "released"}, attempts : 0..MaxClaims]]
    /\ object \in SUBSET Files
    /\ upload \in [Files -> {"none", "receiving", "stored", "refusing", "timed_out", "forgetting", "abandoning"}]
    /\ late \in SUBSET Files /\ overdue \in SUBSET Files /\ leased \in SUBSET Files
    /\ cleaner \in [Cleaners -> [task : {"idle", "delete", "finish", "retry", "sweep", "fail"},
                                 file : Files \cup {"none"}, attempt : 0..MaxClaims]]
    /\ wanted \in SUBSET Files /\ unanswered \in SUBSET Files
    /\ fileFaults \in 0..MaxFileFaults

NothingStored ==
    /\ file = [f \in Files |-> NoFile]
    /\ object = {}
    /\ upload = [f \in Files |-> "none"]
    /\ late = {} /\ overdue = {} /\ leased = {}
    /\ cleaner = [w \in Cleaners |-> AtRestC]
    /\ wanted = {} /\ unanswered = {}

FileFault      == fileFaults < MaxFileFaults /\ fileFaults' = fileFaults + 1
Status(f, s)   == file' = [file EXCEPT ![f].status = s]
Uploading(f)   == file[f].status = "UPLOADING"
UploadAt(f, s) == upload' = [upload EXCEPT ![f] = s]

-----------------------------------------------------------------------------
(* upload.service.ts *)

\* a ticket is consumed once; an Idempotency-Key is free again once its file failed
Holds(f, k)  == file[f].key = k /\ (k \in Tickets \/ file[f].status \notin {"FAILED", "REJECTED"})
KeyFree(k)   == \A f \in Files : ~Holds(f, k)

\* createUploading(), in the transaction that claims the ticket or on its own
StartUpload(f, k, attach) ==
    /\ file[f].status = "none"
    /\ KeyFree(k)
    /\ file' = [file EXCEPT ![f].status = "UPLOADING", ![f].key = k, ![f].attached = attach]
    /\ UploadAt(f, "receiving")
    /\ UNCHANGED <<object, late, overdue, leased, cleaner, wanted, unanswered, fileFaults>>

\* ingest(): the store publishes the whole object or nothing; of a call that timed out, either
Put(f) ==
    /\ upload[f] = "receiving"
    /\ object' = object \cup {f}
    /\ UploadAt(f, "stored")
    /\ UNCHANGED <<file, late, overdue, leased, cleaner, wanted, unanswered, fileFaults>>

PutRefused(f) ==
    /\ upload[f] = "receiving"
    /\ UploadAt(f, "refusing")
    /\ UNCHANGED <<file, object, late, overdue, leased, cleaner, wanted, unanswered, fileFaults>>

PutTimesOut(f) ==
    /\ upload[f] = "receiving"
    /\ FileFault
    /\ object' \in {object, object \cup {f}}
    /\ UploadAt(f, "timed_out")
    /\ UNCHANGED <<file, late, overdue, leased, cleaner, wanted, unanswered>>

\* completeUpload(): the row may have been settled meanwhile, and the statement may throw
CompleteUpload(f) ==
    /\ upload[f] = "stored"
    /\ \/ /\ Uploading(f)
          /\ file' = [file EXCEPT ![f].status = "AVAILABLE"]
          /\ UploadAt(f, "none")
          /\ UNCHANGED <<unanswered, fileFaults>>
       \/ /\ ~Uploading(f)
          /\ UploadAt(f, "abandoning")
          /\ UNCHANGED <<file, unanswered, fileFaults>>
       \/ /\ Uploading(f)
          /\ FileFault
          /\ UploadAt(f, "abandoning")
          /\ \/ UNCHANGED <<file, unanswered>>
             \/ Status(f, "AVAILABLE") /\ unanswered' = unanswered \cup {f}
    /\ UNCHANGED <<object, late, overdue, leased, cleaner, wanted>>

\* forget(): best effort, before the row is failed when the row could not be completed,
\* after it when the store timed out
Forget(f) ==
    /\ upload[f] \in {"abandoning", "forgetting"}
    /\ \/ object' = object \ {f} /\ UNCHANGED fileFaults
       \/ FileFault /\ UNCHANGED object
    /\ UploadAt(f, IF upload[f] = "abandoning" THEN "refusing" ELSE "none")
    /\ UNCHANGED <<file, late, overdue, leased, cleaner, wanted, unanswered>>

\* refuseUpload(): best effort too
RefuseUpload(f) ==
    /\ upload[f] \in {"refusing", "timed_out"}
    /\ \/ /\ \E s \in {"FAILED", "REJECTED"} : IF Uploading(f) THEN Status(f, s) ELSE UNCHANGED file
          /\ UNCHANGED fileFaults
       \/ FileFault /\ UNCHANGED file
    /\ UploadAt(f, IF upload[f] = "timed_out" THEN "forgetting" ELSE "none")
    /\ UNCHANGED <<object, late, overdue, leased, cleaner, wanted, unanswered>>

UploadCrash(f) ==
    /\ upload[f] # "none"
    /\ FileFault
    /\ UploadAt(f, "none")
    /\ UNCHANGED <<file, object, late, overdue, leased, cleaner, wanted, unanswered>>

\* leaseSeconds(): the lease outlasts any request that could still be storing or completing
Outlasted_(f) == upload[f] # "receiving"
Outlasted(f)  == upload[f] \notin {"receiving", "stored"}

Lapse(f) ==
    /\ Uploading(f)
    /\ Outlasted(f)
    /\ late' = late \cup {f}
    /\ UNCHANGED <<file, object, upload, overdue, leased, cleaner, wanted, unanswered, fileFaults>>

-----------------------------------------------------------------------------
(* attach(), evidence holds, requestDeletion(), expireUnattached() *)

Attach(f) ==
    /\ file[f].status \in {"UPLOADING", "AVAILABLE"}
    /\ ~file[f].attached
    /\ file' = [file EXCEPT ![f].attached = TRUE]
    /\ UNCHANGED <<object, upload, late, overdue, leased, cleaner, wanted, unanswered, fileFaults>>

Overdue(f) ==
    /\ file[f].status = "AVAILABLE"
    /\ overdue' = overdue \cup {f}
    /\ UNCHANGED <<file, object, upload, late, leased, cleaner, wanted, unanswered, fileFaults>>

PlaceHold(f) ==
    /\ file[f].status = "AVAILABLE"
    /\ file[f].hold = "none"
    /\ file' = [file EXCEPT ![f].hold = "active"]
    /\ UNCHANGED <<object, upload, late, overdue, leased, cleaner, wanted, unanswered, fileFaults>>

ReleaseHold(f) ==
    /\ file[f].hold = "active"
    /\ file' = [file EXCEPT ![f].hold = "released"]
    /\ UNCHANGED <<object, upload, late, overdue, leased, cleaner, wanted, unanswered, fileFaults>>

\* file_hold_guard refuses the transition of a held file
Held(f) == file[f].hold = "active"

RequestDeletion(f) ==
    /\ file[f].status = "AVAILABLE"
    /\ ~Held(f)
    /\ Status(f, "DELETING")
    /\ wanted' = wanted \cup {f}
    /\ UNCHANGED <<object, upload, late, overdue, leased, cleaner, unanswered, fileFaults>>

Orphan(f) == file[f].status = "AVAILABLE" /\ f \in overdue /\ ~file[f].attached

ExpireUnattached(f) ==
    /\ Orphan(f)
    /\ ~Held(f)
    /\ Status(f, "DELETING")
    /\ UNCHANGED <<object, upload, late, overdue, leased, cleaner, wanted, unanswered, fileFaults>>

-----------------------------------------------------------------------------
(* cleanup.worker.ts: the calls of the store run outside any transaction *)

Work(w, task, f, n) == cleaner' = [cleaner EXCEPT ![w] = [task |-> task, file |-> f, attempt |-> n]]
WorkAt(w, task)     == cleaner' = [cleaner EXCEPT ![w].task = task]
Rest(w)             == cleaner' = [cleaner EXCEPT ![w] = AtRestC]

ClaimDeletion(w, f) ==
    /\ cleaner[w] = AtRestC
    /\ file[f].status = "DELETING" /\ f \notin leased /\ ~Held(f)
    /\ file[f].attempts < MaxClaims
    /\ file' = [file EXCEPT ![f].attempts = @ + 1]
    /\ leased' = leased \cup {f}
    /\ Work(w, "delete", f, file[f].attempts + 1)
    /\ UNCHANGED <<object, upload, late, overdue, wanted, unanswered, fileFaults>>

\* a worker gone loses its claim, and so does one too slow
LeaseLapses(f) ==
    /\ f \in leased
    /\ \/ (\A w \in Cleaners : cleaner[w].file # f) /\ UNCHANGED fileFaults
       \/ FileFault
    /\ leased' = leased \ {f}
    /\ UNCHANGED <<file, object, upload, late, overdue, cleaner, wanted, unanswered>>

FindAbandoned(w, f) ==
    /\ cleaner[w] = AtRestC
    /\ Uploading(f) /\ f \in late
    /\ Work(w, "sweep", f, 0)
    /\ UNCHANGED <<file, object, upload, late, overdue, leased, wanted, unanswered, fileFaults>>

\* an absent object is success; a failed sweep leaves the row for the next pass
DeleteObject(w) ==
    /\ cleaner[w].task \in {"delete", "sweep"}
    /\ \/ /\ object' = object \ {cleaner[w].file}
          /\ WorkAt(w, IF cleaner[w].task = "delete" THEN "finish" ELSE "fail")
          /\ UNCHANGED fileFaults
       \/ /\ FileFault
          /\ IF cleaner[w].task = "delete" THEN WorkAt(w, "retry") ELSE Rest(w)
          /\ UNCHANGED object
    /\ UNCHANGED <<file, upload, late, overdue, leased, wanted, unanswered>>

\* not fenced: whoever removed the bytes may finish the row
CompleteDeletion(w) ==
    LET f == cleaner[w].file
    IN  /\ cleaner[w].task = "finish"
        /\ IF file[f].status = "DELETING"
           THEN Status(f, "DELETED") /\ leased' = leased \ {f}
           ELSE UNCHANGED <<file, leased>>
        /\ Rest(w)
        /\ UNCHANGED <<object, upload, late, overdue, wanted, unanswered, fileFaults>>

\* fenced by the attempt
RetryDeletion(w) ==
    LET f == cleaner[w].file
    IN  /\ cleaner[w].task = "retry"
        /\ leased' = IF file[f].status = "DELETING" /\ file[f].attempts = cleaner[w].attempt
                     THEN leased \ {f} ELSE leased
        /\ Rest(w)
        /\ UNCHANGED <<file, object, upload, late, overdue, wanted, unanswered, fileFaults>>

Abandoned(f) == Uploading(f) /\ f \in late

FailAbandoned(w) ==
    LET f == cleaner[w].file
    IN  /\ cleaner[w].task = "fail"
        /\ IF Abandoned(f) THEN Status(f, "FAILED") ELSE UNCHANGED file
        /\ Rest(w)
        /\ UNCHANGED <<object, upload, late, overdue, leased, wanted, unanswered, fileFaults>>

CleanerCrash(w) ==
    /\ cleaner[w] # AtRestC
    /\ FileFault
    /\ Rest(w)
    /\ UNCHANGED <<file, object, upload, late, overdue, leased, wanted, unanswered>>

\* the operator's reconcile(), with `repair': objects that must not exist
Reconcile(f) ==
    /\ file[f].status \in {"FAILED", "REJECTED", "DELETED"}
    /\ f \in object
    /\ object' = object \ {f}
    /\ UNCHANGED <<file, upload, late, overdue, leased, cleaner, wanted, unanswered, fileFaults>>

-----------------------------------------------------------------------------

UploadStep(f) == Put(f) \/ PutRefused(f) \/ CompleteUpload(f) \/ Forget(f) \/ RefuseUpload(f)
Clean(w) ==
    \/ \E f \in Files : ClaimDeletion(w, f) \/ FindAbandoned(w, f)
    \/ DeleteObject(w) \/ CompleteDeletion(w) \/ RetryDeletion(w) \/ FailAbandoned(w)

FileNext ==
    \/ \E f \in Files, k \in UploadKeys, attach \in BOOLEAN : StartUpload(f, k, attach)
    \/ \E f \in Files : UploadStep(f) \/ PutTimesOut(f) \/ UploadCrash(f) \/ Lapse(f)
    \/ \E f \in Files : Attach(f) \/ Overdue(f) \/ PlaceHold(f) \/ ReleaseHold(f) \/ RequestDeletion(f)
    \/ \E f \in Files : ExpireUnattached(f) \/ LeaseLapses(f) \/ Reconcile(f)
    \/ \E w \in Cleaners : Clean(w) \/ CleanerCrash(w)

\* a request ends by its timeouts, a lease with time, and the worker passes again and again
FileFairness ==
    /\ \A f \in Files : WF_fileVars(UploadStep(f)) /\ WF_fileVars(Lapse(f)) /\ WF_fileVars(LeaseLapses(f))
    /\ \A w \in Cleaners : WF_fileVars(Clean(w))

-----------------------------------------------------------------------------
(* Properties *)

\* An available file has its object, unless its completion committed and was answered with an
\* error, which made the request remove the object (receive(), abandon())
AvailableHasObject == \A f \in Files : file[f].status = "AVAILABLE" => f \in object \cup unanswered

\* A deleted file has no object left, whatever worker finished its row (completeDeletion())
DeletedIsGone == \A f \in Files : file[f].status = "DELETED" => f \notin object

\* A file under an evidence hold keeps its row available, and an attached file is deleted at its
\* owner's request only (file_hold_guard, expireUnattached())
KeptFiles ==
    \A f \in Files :
       /\ Held(f) => file[f].status = "AVAILABLE"
       /\ file[f].attached /\ file[f].status \in {"DELETING", "DELETED"} => f \in wanted

FilesSound == AvailableHasObject /\ DeletedIsGone /\ KeptFiles

\* No upload and no deletion stays half done for ever: the sweeps take over what crashed
\* (sweepAbandonedUploads(), deleteDue())
FilesSettle == \A f \in Files : []<>(file[f].status \notin {"UPLOADING", "DELETING"})
=============================================================================
