--------------------------- MODULE SessionTokens ---------------------------
(***************************************************************************)
(* The sessions of one user of auth-service: a session is a family of      *)
(* refresh tokens, each replaced by the next.  A rotation and a revocation *)
(* are transactions of PostgreSQL at READ COMMITTED: a statement sees the  *)
(* rows committed when it began, and waits for the rows others have        *)
(* locked.  So a revocation does not see the token that a rotation has     *)
(* inserted and not committed.                                             *)
(***************************************************************************)
EXTENDS Naturals, FiniteSets

CONSTANTS
    Families,       \* sessions
    Tokens,         \* rows of refresh_token
    Clients         \* requests of the user, of its Owner and of who else holds a token

ASSUME NoneIsNoRow == "none" \notin Families \cup Tokens

VARIABLES
    token,          \* row of refresh_token, "none" as family before its insert is committed
    active,         \* "user"."isActive"
    closed,         \* families past their sessionExpiresAt
    expired,        \* tokens past their expiresAt
    request,        \* what each request is doing
    ended           \* families some revocation has ended (history)

sessionVars == <<token, active, closed, expired, request, ended>>

Kinds  == {"none", "refresh", "login", "reuse", "logout", "block", "suspend"}
Absent == [family |-> "none", revoked |-> FALSE, next |-> "none"]
Done   == [kind |-> "none", step |-> "idle", token |-> "none", next |-> "none", seen |-> {}]

SessionTypeOK ==
    /\ token \in [Tokens -> [family : Families \cup {"none"}, revoked : BOOLEAN, next : Tokens \cup {"none"}]]
    /\ active \in BOOLEAN
    /\ closed \in SUBSET Families
    /\ expired \in SUBSET Tokens
    /\ request \in [Clients -> [kind : Kinds, step : {"idle", "read", "inserted", "committed", "revoking"},
                                token : Tokens \cup {"none"}, next : Tokens \cup {"none"}, seen : SUBSET Tokens]]
    /\ ended \in SUBSET Families

Members(f) == {t \in Tokens : token[t].family = f}
Live(t)    == token[t].family # "none" /\ ~token[t].revoked
Unused     == {t \in Tokens : token[t].family = "none" /\ \A p \in Clients : request[p].next # t}
NewToken   == CHOOSE t \in Unused : TRUE   \* any: their ids mean nothing

-----------------------------------------------------------------------------
(* Locks.  A refresh holds the row of its token (FOR UPDATE OF t); an      *)
(* insert holds the key of the user's row, which the suspension of a       *)
(* member locks whole and the block of an operator does not.               *)

Rotating(p)    == request[p].kind = "refresh" /\ request[p].step \in {"read", "inserted"}
Reusing(p)     == request[p].kind = "reuse"
Locked_(p, t)  == FALSE
Locked(p, t)   == \E q \in Clients \ {p} : (Rotating(q) \/ Reusing(q)) /\ request[q].token = t
UserLocked     == \E p \in Clients : request[p].kind = "suspend"
Inserting      == \E p \in Clients : request[p].step = "inserted"

\* a family has nothing alive that the revocation by p did not see
Covered(p, f) ==
    /\ \A t \in Members(f) : Live(t) => t \in request[p].seen
    /\ \A q \in Clients : Rotating(q) => token[request[q].token].family # f

\* the statement of a revocation begins: it sees what is committed
Revoke(p, kind, t, seen) ==
    request' = [request EXCEPT ![p] = [kind |-> kind, step |-> "revoking", token |-> t, next |-> "none", seen |-> seen]]

-----------------------------------------------------------------------------
(* rotate(), refreshSession() *)

\* the row is read under its lock: an ended session, then a token used again, then the plain refusals
Refresh(p, t) ==
    LET family == token[t].family
        alive  == {u \in Members(family) : Live(u)}
    IN  /\ request[p] = Done
        /\ family # "none"
        /\ ~Locked(p, t)
        /\ \/ /\ family \in closed \/ token[t].next # "none"
              /\ Revoke(p, "reuse", t, alive)
           \/ /\ family \notin closed /\ token[t].next = "none"
              /\ Live(t) /\ t \notin expired
              /\ IF active
                 THEN request' = [request EXCEPT ![p] = [Done EXCEPT !.kind = "refresh", !.step = "read", !.token = t]]
                 ELSE Revoke(p, "reuse", t, alive)
        /\ UNCHANGED <<token, active, closed, expired, ended>>

\* issue() in the rotation: the foreign key takes a share of the user's row
Insert(p) ==
    /\ request[p].kind = "refresh" /\ request[p].step = "read"
    /\ ~UserLocked
    /\ Unused # {}
    /\ request' = [request EXCEPT ![p].step = "inserted", ![p].next = NewToken]
    /\ UNCHANGED <<token, active, closed, expired, ended>>

Rotate(p) ==
    /\ request[p].kind = "refresh" /\ request[p].step = "inserted"
    /\ LET old == request[p].token
           new == request[p].next
       IN  token' = [token EXCEPT ![old].revoked = TRUE, ![old].next = new,
                                  ![new] = [Absent EXCEPT !.family = token[old].family]]
    /\ request' = [request EXCEPT ![p].step = "committed"]
    /\ UNCHANGED <<active, closed, expired, ended>>

\* the user is read once more before the tokens are given out; the answer may be lost as well
AnswerRefresh(p) ==
    /\ request[p].step = "committed"
    /\ request' = [request EXCEPT ![p] = Done]
    /\ UNCHANGED <<token, active, closed, expired, ended>>

\* a deadlock, a lost connection: the transaction is rolled back
Rollback(p) ==
    /\ request[p].step \in {"read", "inserted", "revoking"}
    /\ request' = [request EXCEPT ![p] = Done]
    /\ UNCHANGED <<token, active, closed, expired, ended>>

-----------------------------------------------------------------------------
(* login(): the user is read before the transaction that inserts the first token *)

LogIn(p) ==
    /\ request[p] = Done
    /\ active
    /\ request' = [request EXCEPT ![p] = [Done EXCEPT !.kind = "login", !.step = "read"]]
    /\ UNCHANGED <<token, active, closed, expired, ended>>

OpenSession(p) ==
    /\ request[p].kind = "login" /\ request[p].step = "read"
    /\ ~UserLocked
    /\ Unused # {}
    /\ \E f \in Families : Members(f) = {} /\ token' = [token EXCEPT ![NewToken].family = f]
    /\ request' = [request EXCEPT ![p] = Done]
    /\ UNCHANGED <<active, closed, expired, ended>>

-----------------------------------------------------------------------------
(* Revocations *)

\* revokeByRaw(): every token of the family of the one presented
LogOut(p, t) ==
    /\ request[p] = Done
    /\ token[t].family # "none"
    /\ Revoke(p, "logout", t, Members(token[t].family))
    /\ UNCHANGED <<token, active, closed, expired, ended>>

\* setBlocked(): revokeAllForUser(), the user's row being written without its key
Block(p) ==
    /\ request[p] = Done
    /\ ~UserLocked
    /\ Revoke(p, "block", "none", {t \in Tokens : Live(t)})
    /\ UNCHANGED <<token, active, closed, expired, ended>>

\* suspend(): the same once the user's row is locked FOR UPDATE
Suspend(p) ==
    /\ request[p] = Done
    /\ active
    /\ ~UserLocked /\ ~Inserting
    /\ Revoke(p, "suspend", "none", {t \in Tokens : Live(t)})
    /\ UNCHANGED <<token, active, closed, expired, ended>>

\* the rows seen are free again: those still unrevoked are revoked, and the transaction commits.
\* A suspension ends every session of the user; another revocation those it has seen whole
Revoked(p) ==
    LET kind   == request[p].kind
        seen   == request[p].seen
        of     == IF kind \in {"block", "suspend"}
                  THEN {f \in Families : Members(f) # {}}
                  ELSE {token[request[p].token].family}
    IN  /\ request[p].step = "revoking"
        /\ \A t \in seen : ~Locked(p, t)
        /\ token' = [t \in Tokens |-> IF t \in seen THEN [token[t] EXCEPT !.revoked = TRUE] ELSE token[t]]
        /\ active' = (active /\ kind \notin {"block", "suspend"})
        /\ ended' = ended \cup {f \in of : kind = "suspend" \/ Covered(p, f)}
        /\ request' = [request EXCEPT ![p] = Done]
        /\ UNCHANGED <<closed, expired>>

\* setBlocked(false), restore()
Unblock ==
    /\ ~active
    /\ active' = TRUE
    /\ UNCHANGED <<token, closed, expired, request, ended>>

\* time
Expire ==
    /\ \/ \E t \in Tokens : Live(t) /\ expired' = expired \cup {t} /\ UNCHANGED closed
       \/ \E f \in Families : Members(f) # {} /\ closed' = closed \cup {f} /\ UNCHANGED expired
    /\ UNCHANGED <<token, active, request, ended>>

SessionNext ==
    \/ \E p \in Clients, t \in Tokens : Refresh(p, t) \/ LogOut(p, t)
    \/ \E p \in Clients : Insert(p) \/ Rotate(p) \/ AnswerRefresh(p) \/ Rollback(p) \/ LogIn(p) \/ OpenSession(p)
    \/ \E p \in Clients : Block(p) \/ Suspend(p) \/ Revoked(p)
    \/ Unblock
    \/ Expire

NoSession ==
    /\ token = [t \in Tokens |-> Absent]
    /\ closed = {}
    /\ expired = {}
    /\ request = [p \in Clients |-> Done]
    /\ ended = {}

-----------------------------------------------------------------------------
(* Properties *)

\* A session that was ended stays ended: none of its tokens can be rotated, whatever was being
\* rotated meanwhile, after a restoration as before it.  A suspension ends them all, because it
\* waits for the rotations that hold the user's row; another revocation only those it saw whole
\* (rotate(), revokeFamily(), revokeAllForUser(), MemberSecurityService.apply())
EndedStaysEnded == \A f \in ended : \A t \in Members(f) : ~Live(t)

\* A session never has two tokens that can be rotated (rotate())
OneLiveToken == \A f \in Families : \A t, u \in Members(f) : Live(t) /\ Live(u) => t = u

SessionsSound == EndedStaysEnded /\ OneLiveToken
=============================================================================
