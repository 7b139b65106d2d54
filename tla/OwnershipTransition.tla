------------------------ MODULE OwnershipTransition ------------------------
(***************************************************************************)
(* The transition that makes organization-service the authority on the     *)
(* hierarchy: what is imported or created is verified, approved and then   *)
(* activated, for good.  The operations are commands of operators: each    *)
(* reads the one row of ownership_state without a lock, checks it, and     *)
(* writes later; only an import locks it.  The trigger of the row decides  *)
(* which transitions exist.  The content is how many rows of the hierarchy *)
(* the service holds, a digest of it the same number; an optional value is *)
(* a set of at most one.                                                   *)
(***************************************************************************)
EXTENDS Naturals

CONSTANTS
    Operators,
    Writers,        \* transactions of the API that create a row of the hierarchy
    MaxContent      \* bound on the rows of the hierarchy

ASSUME ContentExists == MaxContent \in Nat \ {0}

VARIABLES
    phase, class, verified, approved,   \* columns of ownership_state
    content,        \* what the hierarchy tables hold, committed
    writer,         \* what each transaction is doing
    command,        \* what each operator's command has read
    activated,      \* the content when authority was activated, and whether its command was straddled (history)
    straddled       \* operators whose activation a rollback, or a bootstrap since it measured, has overtaken (history)

ownershipVars == <<phase, class, verified, approved, content, writer, command, activated, straddled>>

Phases     == {"PREPARED", "VERIFIED", "FROZEN", "ACTIVATABLE", "ACTIVE", "RETIRED"}
Operations == {"declare-class", "import", "verify", "approve", "activate", "retire", "rollback"}
Optional   == {{}} \cup {{n} : n \in 0..MaxContent}
NoCommand  == [name |-> "none", measured |-> FALSE, phase |-> "PREPARED", class |-> "none", verified |-> {}, content |-> 0]

OwnershipTypeOK ==
    /\ phase \in Phases
    /\ class \in {"none", "existing", "fresh"}
    /\ verified \in Optional
    /\ approved \in BOOLEAN
    /\ content \in 0..MaxContent
    /\ writer \in [Writers -> {"idle", "bootstrap", "normal"}]
    /\ command \in [Operators -> [name : Operations \cup {"none"}, measured : BOOLEAN, phase : Phases,
                                  class : {"none", "existing", "fresh"}, verified : Optional, content : 0..MaxContent]]
    /\ \A a \in activated : a.content \in 0..MaxContent /\ a.straddled \in BOOLEAN
    /\ straddled \subseteq Operators

Unowned ==
    /\ phase = "PREPARED"
    /\ class = "none"
    /\ verified = {}
    /\ approved = FALSE
    /\ content = 0
    /\ writer = [w \in Writers |-> "idle"]
    /\ activated = {}
    /\ straddled = {}

Authoritative == phase \in {"ACTIVE", "RETIRED"}

\* the row, as ownership_state_guard lets it change
Legal(from, to) ==
    \/ from = to /\ from \notin {"ACTIVE", "RETIRED"}
    \/ <<from, to>> \in {<<"PREPARED", "VERIFIED">>, <<"FROZEN", "ACTIVATABLE">>,
                         <<"ACTIVATABLE", "ACTIVE">>, <<"ACTIVE", "RETIRED">>}
    \/ from = "VERIFIED" /\ to = "FROZEN" /\ class = "existing"
    \/ from = "VERIFIED" /\ to = "ACTIVATABLE" /\ class = "fresh"
    \/ from \in {"VERIFIED", "FROZEN", "ACTIVATABLE"} /\ to = "PREPARED"

\* a refused update changes nothing; a rollback clears every piece of evidence
Update(to, digest, approval) ==
    IF Legal(phase, to)
    THEN /\ phase' = to
         /\ verified' = IF to = "PREPARED" /\ phase # to THEN {} ELSE digest
         /\ approved' = IF to = "PREPARED" /\ phase # to THEN FALSE ELSE approval
    ELSE UNCHANGED <<phase, verified, approved>>

-----------------------------------------------------------------------------
(* Commands: what each reads, and the phases it accepts *)

Activating == {p \in Operators : command[p].name = "activate"}

Ready(name) ==
    CASE name = "declare-class" -> phase = "PREPARED" /\ class = "none"
      [] name = "import"        -> class = "existing" /\ phase \in {"PREPARED", "VERIFIED", "FROZEN"}
      [] name = "verify"        -> TRUE
      [] name = "approve"       -> (class = "existing" /\ phase = "FROZEN") \/ (class = "fresh" /\ phase = "VERIFIED")
      [] name = "activate"      -> phase = "ACTIVATABLE"
      [] name = "retire"        -> phase = "ACTIVE"
      [] name = "rollback"      -> phase \in {"VERIFIED", "FROZEN", "ACTIVATABLE"}

Start(p, name) ==
    /\ command[p] = NoCommand
    /\ Ready(name)
    /\ command' = [command EXCEPT ![p] = [name |-> name, measured |-> FALSE, phase |-> phase, class |-> class,
                                          verified |-> verified, content |-> 0]]
    /\ UNCHANGED <<phase, class, verified, approved, content, writer, activated, straddled>>

\* contentDigestNow(), after the row was read
Measure(p) ==
    /\ command[p].name \in {"verify", "activate", "declare-class"} /\ ~command[p].measured
    /\ command' = [command EXCEPT ![p].measured = TRUE, ![p].content = content]
    /\ UNCHANGED <<phase, class, verified, approved, content, writer, activated, straddled>>

Finish(p, name) == command[p].name = name /\ command' = [command EXCEPT ![p] = NoCommand]

DeclareClass(p) ==
    /\ Finish(p, "declare-class")
    /\ command[p].measured
    /\ \E c \in {"existing", "fresh"} :
          class' = IF class = "none" /\ (c = "existing" => command[p].content = 0) THEN c ELSE class
    /\ UNCHANGED <<phase, verified, approved, content, writer, activated, straddled>>

\* one transaction under the row's lock: the phase is the one that was checked, the snapshot has
\* every row held here, and one taken under the freeze freezes what it verifies
SamePhase(p) == phase = command[p].phase

ImportSnapshot(p) ==
    /\ Finish(p, "import")
    /\ \/ UNCHANGED <<phase, verified, approved, content>>     \* invalid, conflicting or interrupted
       \/ \E n \in content..MaxContent, frozen \in BOOLEAN :
             /\ SamePhase(p)
             /\ command[p].phase = "FROZEN" => frozen
             /\ content' = n
             /\ verified' = {n}
             /\ phase' = IF frozen THEN "FROZEN" ELSE IF phase = "PREPARED" THEN "VERIFIED" ELSE phase
             /\ UNCHANGED approved
    /\ UNCHANGED <<class, writer, activated, straddled>>

\* a fresh environment with a first Company; the expected digest is what was measured
VerifyContent(p) ==
    /\ Finish(p, "verify")
    /\ command[p].measured
    /\ IF command[p].class = "fresh" /\ command[p].phase = "PREPARED" /\ content > 0
       THEN Update("VERIFIED", {command[p].content}, approved)
       ELSE UNCHANGED <<phase, verified, approved>>
    /\ UNCHANGED <<class, content, writer, activated, straddled>>

Approve(p) ==
    /\ Finish(p, "approve")
    /\ Update("ACTIVATABLE", verified, TRUE)
    /\ UNCHANGED <<class, content, writer, activated, straddled>>

\* the digest is compared before the transaction, with what was read first
Unchanged_(p) == TRUE
Unchanged(p)  == command[p].verified = {command[p].content}

Activate(p) ==
    /\ Finish(p, "activate")
    /\ command[p].measured
    /\ IF Unchanged(p) THEN Update("ACTIVE", verified, approved) ELSE UNCHANGED <<phase, verified, approved>>
    /\ activated' = IF Authoritative' /\ ~Authoritative
                    THEN {[content |-> content, straddled |-> p \in straddled]} ELSE activated
    /\ straddled' = straddled \ {p}
    /\ UNCHANGED <<class, content, writer>>

Retire(p) ==
    /\ Finish(p, "retire")
    /\ Update("RETIRED", verified, approved)
    /\ UNCHANGED <<class, content, writer, activated, straddled>>

RollBack(p) ==
    /\ Finish(p, "rollback")
    /\ Update("PREPARED", verified, approved)
    /\ straddled' = IF phase' = phase THEN straddled ELSE straddled \cup Activating
    /\ UNCHANGED <<class, content, writer, activated>>

-----------------------------------------------------------------------------
(* The API's writes: checked when they begin, visible when they commit *)

AssertWritable(w) ==
    /\ writer[w] = "idle"
    /\ \/ Authoritative /\ writer' = [writer EXCEPT ![w] = "normal"]
       \/ class = "fresh" /\ phase = "PREPARED" /\ writer' = [writer EXCEPT ![w] = "bootstrap"]
    /\ UNCHANGED <<phase, class, verified, approved, content, command, activated, straddled>>

\* commits a new row, or rolls back
EndWrite(w) ==
    /\ writer[w] # "idle"
    /\ \/ UNCHANGED <<content, straddled>>
       \/ /\ content < MaxContent
          /\ content' = content + 1
          /\ straddled' = straddled \cup {p \in Activating : command[p].measured}
    /\ writer' = [writer EXCEPT ![w] = "idle"]
    /\ UNCHANGED <<phase, class, verified, approved, command, activated>>

OwnershipNext ==
    \/ \E p \in Operators, name \in Operations : Start(p, name)
    \/ \E p \in Operators :
          Measure(p) \/ DeclareClass(p) \/ ImportSnapshot(p) \/ VerifyContent(p) \/ Approve(p)
             \/ Activate(p) \/ Retire(p) \/ RollBack(p)
    \/ \E w \in Writers : AssertWritable(w) \/ EndWrite(w)

-----------------------------------------------------------------------------
(* Properties *)

\* What became authoritative is what was verified and approved, whatever commands ran side by
\* side, unless the phase was rolled back, or a bootstrap transaction committed, between what
\* the activation read and what it wrote (activate(), approve(), ownership_state_guard)
ActivatedIsVerified ==
    /\ Authoritative => approved /\ class # "none"
    /\ Authoritative <=> activated # {}
    /\ \A a \in activated : ~a.straddled => verified = {a.content}

\* The content of an existing environment is what was verified, from the import to the activation
VerifiedIsHeld ==
    class = "existing" /\ phase \in {"VERIFIED", "FROZEN", "ACTIVATABLE"} => verified = {content}

OwnershipSound == ActivatedIsVerified /\ VerifiedIsHeld
=============================================================================
