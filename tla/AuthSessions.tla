---------------------------- MODULE AuthSessions ----------------------------
(***************************************************************************)
(* Registration and login (auth_service.py, auth_repository.py,            *)
(* profile_service.py): the tables user and user_session under concurrent  *)
(* requests of the endpoints of auth_api.py. The e-mail is checked in one  *)
(* transaction and inserted in another; a login deletes the sessions it    *)
(* could lock and inserts its own.                                         *)
(***************************************************************************)
EXTENDS Integers, FiniteSets

CONSTANTS
    Requests,       \* slots for POST /register and /login in flight
    Locals,         \* local parts of addresses, without tag
    NoLocal,        \* one that is no local part without a tag: of "+tag@domain"
    Passwords,
    Strong,         \* those that meet the policy of register_user
    MaxUsers,       \* bound: rows of user
    MaxSessions,    \* bound: sessions created
    MaxFaults       \* bound: failures of a run

ASSUME AuthAssumption ==
    /\ IsFiniteSet(Requests)
    /\ NoLocal \in Locals
    /\ Strong \subseteq Passwords
    /\ MaxUsers \in Nat /\ MaxSessions \in Nat /\ MaxFaults \in Nat

\* An address as it is typed: a tag ("+..." after the local part) and capitals
\* make no difference. One domain stands for all.
Addresses == [local : Locals, tagged : BOOLEAN, capitals : BOOLEAN]
Emails    == [local : Locals, tagged : {FALSE}, capitals : {FALSE}]

UserIds    == 1 .. MaxUsers
SessionIds == 1 .. MaxSessions

VARIABLES
    users,          \* committed rows of user
    sessions,       \* committed rows of user_session
    drawn,          \* session identifiers drawn so far: 1 .. drawn
    request,        \* requests between two awaits
    answered,       \* history: e-mail and password of registrations answered 200
    faults          \* history: failures so far, bounded by MaxFaults

vars == <<users, sessions, drawn, request, answered, faults>>

-----------------------------------------------------------------------------
UserRows    == [id : UserIds, email : Emails, password : Strong]
SessionRows == [id : SessionIds, user : UserIds]

UsersWith(e)  == {x \in users : x.email = e}
SessionsOf(i) == {s \in sessions : s.user = i}

NoRequest == [pc |-> "idle"]
Registrations == [pc : {"absent", "inserted"}, email : Emails, password : Strong]
Logins ==
    [pc : {"verified"}, user : UserIds]
    \cup [pc : {"selected"}, user : UserIds, locked : SUBSET SessionRows]

Inserting == {r \in Requests : request[r].pc = "inserted"}
Selecting(i) == {r \in Requests : request[r].pc = "selected" /\ request[r].user = i}

\* Rows under FOR UPDATE.
Locked == UNION {request[r].locked : r \in {q \in Requests : request[q].pc = "selected"}}

Goto(r, rec) == request' = [request EXCEPT ![r] = rec]
Reply(r)     == Goto(r, NoRequest)

Fault == faults < MaxFaults /\ faults' = faults + 1

Init ==
    /\ users = {} /\ sessions = {} /\ drawn = 0
    /\ request = [r \in Requests |-> NoRequest]
    /\ answered = {}
    /\ faults = 0

\* Mutant: only the tag is taken off.
NormalizeTag(a) == [a EXCEPT !.tagged = FALSE]

\* rsplit("@"), cut the local part at its first "+", lower().
NormalizeEmail(a) == [a EXCEPT !.tagged = FALSE, !.capitals = FALSE]

\* EmailStr, which validates request and response, wants a local part: "+tag"
\* is one, nothing (or "a.", of "a.+tag") is not.
IsEmailStr(a) == a.local = NoLocal => a.tagged

-----------------------------------------------------------------------------
(* POST /register.                                                         *)

\* A weak password or a known e-mail is refused with 400.
Register(r, a, p) ==
    /\ request[r].pc = "idle" /\ IsEmailStr(a) /\ p \in Strong
    /\ UsersWith(NormalizeEmail(a)) = {}
    /\ Goto(r, [pc |-> "absent", email |-> NormalizeEmail(a), password |-> p])
    /\ UNCHANGED <<users, sessions, drawn, answered, faults>>

\* Mutant: there is no unique constraint.
InsertUnchecked(r) ==
    /\ request[r].pc = "absent"
    /\ Goto(r, [request[r] EXCEPT !.pc = "inserted"])
    /\ UNCHANGED <<users, sessions, drawn, answered, faults>>

\* INSERT: the unique index waits for another uncommitted row of the e-mail; a
\* committed one is a 400.
InsertUser(r) ==
    /\ request[r].pc = "absent"
    /\ \A q \in Inserting : request[q].email # request[r].email
    /\ IF UsersWith(request[r].email) = {}
       THEN Goto(r, [request[r] EXCEPT !.pc = "inserted"])
       ELSE Reply(r)
    /\ UNCHANGED <<users, sessions, drawn, answered, faults>>

AddUser(r) ==
    /\ request[r].pc = "inserted"
    /\ Cardinality(users) < MaxUsers
    /\ users' = users \cup
         {[id |-> Cardinality(users) + 1, email |-> request[r].email,
           password |-> request[r].password]}
    /\ Reply(r)
    /\ UNCHANGED <<sessions, drawn>>

\* Mutant: the answer is built before the commit, whose failure is not noticed.
AnswerBeforeCommit(r) ==
    /\ request[r].pc = "inserted"
    /\ answered' = answered \cup {<<request[r].email, request[r].password>>}
    /\ Reply(r)
    /\ UNCHANGED <<users, sessions, drawn, faults>>

\* Mutant: the answer never passes its own validation.
CommitUnanswered(r) ==
    /\ AddUser(r)
    /\ UNCHANGED <<answered, faults>>

\* COMMIT, then the answer: RegisterResponse validates the normalised e-mail and
\* raises (500) when nothing is left of the local part.
CommitUser(r) ==
    /\ AddUser(r)
    /\ answered' = answered \cup
         IF IsEmailStr(request[r].email)
         THEN {<<request[r].email, request[r].password>>} ELSE {}
    /\ UNCHANGED faults

\* The commit takes effect and its acknowledgement is lost.
CommitUserLost(r) ==
    /\ AddUser(r)
    /\ Fault
    /\ UNCHANGED answered

-----------------------------------------------------------------------------
(* POST /login.                                                            *)

\* Another password or an unknown e-mail is refused with 400.
Login(r, a, p) ==
    /\ request[r].pc = "idle" /\ IsEmailStr(a)
    /\ \E x \in UsersWith(NormalizeEmail(a)) :
        x.password = p /\ Goto(r, [pc |-> "verified", user |-> x.id])
    /\ UNCHANGED <<users, sessions, drawn, answered, faults>>

\* Mutant: the sessions there are stay.
SelectNothing(r) ==
    /\ request[r].pc = "verified"
    /\ Goto(r, [pc |-> "selected", user |-> request[r].user, locked |-> {}])
    /\ UNCHANGED <<users, sessions, drawn, answered, faults>>

\* Mutant: locked rows are chosen too.
SelectLocked(r) ==
    /\ request[r].pc = "verified"
    /\ Goto(r, [pc |-> "selected", user |-> request[r].user,
                locked |-> SessionsOf(request[r].user)])
    /\ UNCHANGED <<users, sessions, drawn, answered, faults>>

\* SELECT ... FOR UPDATE SKIP LOCKED
SelectSessions(r) ==
    /\ request[r].pc = "verified"
    /\ Goto(r, [pc |-> "selected", user |-> request[r].user,
                locked |-> SessionsOf(request[r].user) \ Locked])
    /\ UNCHANGED <<users, sessions, drawn, answered, faults>>

\* DELETE, INSERT and COMMIT; nobody else touches the locked rows. The answer
\* with the token may be lost: nothing else depends on it.
CommitSession(r) ==
    /\ request[r].pc = "selected"
    /\ drawn < MaxSessions
    /\ drawn' = drawn + 1
    /\ sessions' = (sessions \ request[r].locked)
         \cup {[id |-> drawn + 1, user |-> request[r].user]}
    /\ Reply(r)
    /\ UNCHANGED <<users, answered, faults>>

\* An error or the end of the process, before any commit: rolled back.
RequestFails(r) ==
    /\ request[r].pc # "idle"
    /\ Reply(r)
    /\ Fault
    /\ UNCHANGED <<users, sessions, drawn, answered>>

-----------------------------------------------------------------------------
Client(r) ==
    \/ \E a \in Addresses, p \in Passwords : Register(r, a, p) \/ Login(r, a, p)
    \/ InsertUser(r) \/ CommitUser(r) \/ CommitUserLost(r)
    \/ SelectSessions(r) \/ CommitSession(r)
    \/ RequestFails(r)

Next == \E r \in Requests : Client(r)

Spec == Init /\ [][Next]_vars

TypeOK ==
    /\ users \subseteq UserRows
    /\ sessions \subseteq SessionRows
    /\ drawn \in 0 .. MaxSessions
    /\ request \in [Requests -> {NoRequest} \cup Registrations \cup Logins]
    /\ answered \subseteq Emails \X Strong
    /\ faults \in 0 .. MaxFaults

-----------------------------------------------------------------------------
(* Properties.                                                             *)

\* An e-mail that was answered 200 has one account, with the password of that
\* answer: of two registrations that both found it free one alone succeeds.
AnswersHold ==
    \A c \in answered : \E x \in users :
        UsersWith(c[1]) = {x} /\ x.password = c[2]

\* An account nobody was told of had its answer lost, or has an e-mail that its
\* own answer refuses ("+tag@domain").
UntoldAccounts ==
    Cardinality({x \in users : <<x.email, x.password>> \notin answered /\ x.email.local # NoLocal})
        <= faults

\* SKIP LOCKED leaves a user more than one session, but no more than there are
\* logins in flight together, and as many again for each one rolled back; one
\* login at a time leaves a single one.
SessionsBounded ==
    LET slots == Cardinality(Requests) IN
    \A i \in UserIds :
        Cardinality(SessionsOf(i) \ Locked) + Cardinality(Selecting(i))
            <= slots + faults * (slots - 1)

\* What the requests in flight hold: an uncommitted row is the only one of its
\* e-mail, locks are exclusive and on rows that are there, logins are of users.
InductiveInv ==
    /\ IsFiniteSet(users)
    /\ \A x, y \in users : x.email = y.email \/ x.id = y.id => x = y
    /\ \A x \in users : x.id <= Cardinality(users)
    /\ \A c \in answered : \E x \in users : x.email = c[1] /\ x.password = c[2]
    /\ \A r \in Inserting :
        /\ UsersWith(request[r].email) = {}
        /\ \A q \in Inserting : request[q].email = request[r].email => q = r
    /\ \A r \in Requests :
        /\ request[r].pc \in {"verified", "selected"} => \E x \in users : x.id = request[r].user
        /\ request[r].pc = "selected" => request[r].locked \subseteq SessionsOf(request[r].user)
    /\ \A r, q \in Requests :
        request[r].pc = "selected" /\ request[q].pc = "selected" /\ r # q
            => request[r].locked \cap request[q].locked = {}
    /\ \A s \in sessions : s.id <= drawn /\ \E x \in users : x.id = s.user

-----------------------------------------------------------------------------
(* The accounts are what AccountBook promises.                             *)

Book == INSTANCE AccountBook WITH
    book <- {<<x.email, x.password>> : x \in users}, Passwords <- Strong
BookSpec == Book!Spec

=============================================================================
