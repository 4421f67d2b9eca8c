------------------------- MODULE AuthSessionsProofs -------------------------
(***************************************************************************)
(* Proofs about AuthSessions, for any number of requests and users and any *)
(* addresses, passwords and number of faults.                              *)
(***************************************************************************)
EXTENDS AuthSessions, FiniteSetTheorems, TLAPS

(***************************************************************************)
(* Types.                                                                  *)
(***************************************************************************)

\* A normalised address is neither tagged nor capital.
LEMMA NormalEmails == \A a \in Addresses : NormalizeEmail(a) \in Emails
BY DEF NormalizeEmail, Addresses, Emails

\* What a request holds between two awaits, by its place.
LEMMA RequestShapes ==
    ASSUME TypeOK, NEW r \in Requests
    PROVE  /\ request[r].pc \in {"absent", "inserted"} =>
                /\ request[r].email \in Emails /\ request[r].password \in Strong
                /\ [request[r] EXCEPT !.pc = "inserted"] \in Registrations
                /\ [request[r] EXCEPT !.pc = "inserted"].email = request[r].email
                /\ [request[r] EXCEPT !.pc = "inserted"].pc = "inserted"
           /\ request[r].pc \in {"verified", "selected"} => request[r].user \in UserIds
           /\ request[r].pc = "selected" => request[r].locked \subseteq SessionRows
BY DEF TypeOK, NoRequest, Registrations, Logins

\* The row of a registration about to commit, which is the one added.
LEMMA NewRow ==
    ASSUME TypeOK, InductiveInv, NEW r \in Requests, AddUser(r)
    PROVE  \E x \in UserRows :
             /\ x = [id |-> Cardinality(users) + 1, email |-> request[r].email,
                     password |-> request[r].password]
             /\ x \notin users /\ users' = users \cup {x}
             /\ Cardinality(users) \in Nat /\ Cardinality(users') = Cardinality(users) + 1
<1>1. Cardinality(users) \in Nat
  BY FS_CardinalityType DEF InductiveInv
<1>2. Cardinality(users) + 1 \in UserIds
  BY <1>1, AuthAssumption DEF AddUser, UserIds, AuthAssumption
<1>3. request[r].email \in Emails /\ request[r].password \in Strong
  BY RequestShapes DEF AddUser
<1> DEFINE x == [id |-> Cardinality(users) + 1, email |-> request[r].email,
                 password |-> request[r].password]
<1>4. x \in UserRows
  BY <1>2, <1>3 DEF UserRows
<1>5. x \notin users
  BY <1>1, <1>4 DEF InductiveInv
<1>6. users' = users \cup {x}
  BY DEF AddUser
<1>7. Cardinality(users') = Cardinality(users) + 1
  BY <1>5, <1>6, FS_AddElement DEF InductiveInv
<1> QED
  BY <1>1, <1>4, <1>5, <1>6, <1>7

-----------------------------------------------------------------------------
(***************************************************************************)
(* Each step of a request keeps the types and the inductive invariant.     *)
(***************************************************************************)

\* POST /register up to its INSERT.
LEMMA RegisterSteps ==
    ASSUME TypeOK, InductiveInv, NEW r \in Requests,
           (\E a \in Addresses, p \in Passwords : Register(r, a, p)) \/ InsertUser(r)
    PROVE  TypeOK' /\ InductiveInv'
<1>1. CASE \E a \in Addresses, p \in Passwords : Register(r, a, p)
  <2>1. PICK a \in Addresses, p \in Passwords : Register(r, a, p)
    BY <1>1
  <2> DEFINE q == [pc |-> "absent", email |-> NormalizeEmail(a), password |-> p]
  <2>2. q \in Registrations /\ request' = [request EXCEPT ![r] = q]
    BY <2>1, NormalEmails DEF Register, Registrations, Goto
  <2>3. TypeOK'
    BY <2>1, <2>2 DEF TypeOK, Register
  <2>4. InductiveInv'
    BY <2>1, <2>2 DEF InductiveInv, TypeOK, Register, Inserting, UsersWith, SessionsOf
  <2> QED
    BY <2>3, <2>4
<1>2. CASE InsertUser(r) /\ UsersWith(request[r].email) = {}
  <2> DEFINE q == [request[r] EXCEPT !.pc = "inserted"]
  <2>1. /\ q \in Registrations /\ q.email = request[r].email /\ q.pc = "inserted"
    BY <1>2, RequestShapes DEF InsertUser
  <2>2. request' = [request EXCEPT ![r] = q]
    BY <1>2 DEF InsertUser, Goto
  <2> HIDE DEF q
  <2>3. TypeOK'
    BY <1>2, <2>1, <2>2 DEF TypeOK, InsertUser
  <2>4. Inserting' = Inserting \cup {r}
    BY <2>1, <2>2 DEF Inserting, TypeOK
  <2>5. \A s \in Requests : s # r => request'[s] = request[s]
    BY <2>2 DEF TypeOK
  <2>6. request'[r] = q
    BY <2>2 DEF TypeOK
  <2>7. \A s \in Inserting' :
          /\ UsersWith(request'[s].email) = {}
          /\ \A t \in Inserting' : request'[t].email = request'[s].email => t = s
    <3>1. \A s \in Inserting : request[s].email # request[r].email
      BY <1>2 DEF InsertUser
    <3>2. r \notin Inserting
      BY <3>1
    <3> QED
      BY <1>2, <2>1, <2>4, <2>5, <2>6, <3>1, <3>2 DEF InductiveInv, Inserting
  <2>8. UNCHANGED <<users, sessions, drawn, answered, faults>>
    BY <1>2 DEF InsertUser
  <2>9. \A s \in Requests : request'[s].pc \in {"verified", "selected"} =>
          request'[s] = request[s]
    BY <2>1, <2>5, <2>6
  <2> QED
    BY <2>1, <2>3, <2>7, <2>8, <2>9 DEF InductiveInv, UsersWith, SessionsOf
<1>3. CASE InsertUser(r) /\ UsersWith(request[r].email) # {}
  <2>1. request' = [request EXCEPT ![r] = NoRequest] /\ UNCHANGED <<users, sessions, drawn, answered, faults>>
    BY <1>3 DEF InsertUser, Reply, Goto
  <2>2. TypeOK'
    BY <2>1 DEF TypeOK
  <2> QED
    BY <2>1, <2>2 DEF InductiveInv, TypeOK, NoRequest, Inserting, UsersWith, SessionsOf
<1> QED
  BY <1>1, <1>2, <1>3

\* The COMMIT of POST /register.
LEMMA CommitSteps ==
    ASSUME TypeOK, InductiveInv, NEW r \in Requests, CommitUser(r) \/ CommitUserLost(r)
    PROVE  TypeOK' /\ InductiveInv'
<1>1. AddUser(r)
  BY DEF CommitUser, CommitUserLost
<1>2. PICK x \in UserRows :
        /\ x = [id |-> Cardinality(users) + 1, email |-> request[r].email,
                password |-> request[r].password]
        /\ x \notin users /\ users' = users \cup {x}
        /\ Cardinality(users) \in Nat /\ Cardinality(users') = Cardinality(users) + 1
  BY <1>1, NewRow
<1>3. /\ request' = [request EXCEPT ![r] = NoRequest] /\ UNCHANGED <<sessions, drawn>>
      /\ r \in Inserting
  BY <1>1 DEF AddUser, Reply, Goto, Inserting
<1>4. answered' \subseteq answered \cup {<<x.email, x.password>>} /\ answered \subseteq answered'
  BY <1>2 DEF CommitUser, CommitUserLost
<1>5. faults' \in 0 .. MaxFaults
  BY AuthAssumption DEF CommitUser, CommitUserLost, Fault, TypeOK, AuthAssumption
<1>6. x.email \in Emails /\ x.password \in Strong
  BY DEF UserRows
<1>7. TypeOK'
  <2>1. users' \subseteq UserRows
    BY <1>2 DEF TypeOK
  <2>2. answered' \subseteq Emails \X Strong
    BY <1>4, <1>6 DEF TypeOK
  <2>3. request' \in [Requests -> {NoRequest} \cup Registrations \cup Logins]
    BY <1>3 DEF TypeOK
  <2> QED
    BY <1>3, <1>5, <2>1, <2>2, <2>3 DEF TypeOK
<1>8. UsersWith(x.email) = {} /\ \A q \in Inserting : request[q].email = x.email => q = r
  BY <1>2, <1>3 DEF InductiveInv
<1>9. \A y, z \in users' : y.email = z.email \/ y.id = z.id => y = z
  BY <1>2, <1>8 DEF InductiveInv, UsersWith
<1>10. \A y \in users' : y.id <= Cardinality(users')
  <2>1. \A y \in users : y.id \in Nat /\ y.id <= Cardinality(users)
    BY DEF InductiveInv, TypeOK, UserRows, UserIds
  <2> QED
    BY <1>2, <2>1
<1>11. \A c \in answered' : \E y \in users' : y.email = c[1] /\ y.password = c[2]
  <2>1. \A c \in answered : \E y \in users' : y.email = c[1] /\ y.password = c[2]
    BY <1>2 DEF InductiveInv
  <2> QED
    BY <1>2, <1>4, <2>1
<1>12. \A q \in Requests : q # r => request'[q] = request[q]
  BY <1>3 DEF TypeOK
<1>13. request'[r] = NoRequest /\ NoRequest.pc = "idle"
  BY <1>3 DEF TypeOK, NoRequest
<1>14. Inserting' = Inserting \ {r}
  BY <1>12, <1>13 DEF Inserting
<1>15. \A q \in Inserting' :
         /\ {y \in users' : y.email = request'[q].email} = {}
         /\ \A s \in Inserting' : request'[s].email = request'[q].email => s = q
  <2>1. \A q \in Inserting' : q \in Inserting /\ q # r /\ request'[q] = request[q]
    BY <1>12, <1>14 DEF Inserting
  <2>2. \A q \in Inserting' : request[q].email # x.email /\ UsersWith(request[q].email) = {}
    BY <1>8, <2>1 DEF InductiveInv
  <2> QED
    BY <1>2, <2>1, <2>2 DEF InductiveInv, UsersWith
<1>16. \A q \in Requests : request'[q].pc \in {"verified", "selected"} => request'[q] = request[q]
  BY <1>12, <1>13
<1>17. IsFiniteSet(users')
  BY <1>2, FS_AddElement DEF InductiveInv
<1>18. users \subseteq users'
  BY <1>2
<1> QED
  BY <1>3, <1>7, <1>9, <1>10, <1>11, <1>15, <1>16, <1>17, <1>18
  DEF InductiveInv, UsersWith, SessionsOf

\* POST /login.
LEMMA LoginSteps ==
    ASSUME TypeOK, InductiveInv, NEW r \in Requests,
           (\E a \in Addresses, p \in Passwords : Login(r, a, p))
           \/ SelectSessions(r) \/ CommitSession(r)
    PROVE  TypeOK' /\ InductiveInv'
<1>1. CASE \E a \in Addresses, p \in Passwords : Login(r, a, p)
  <2>1. PICK x \in users : Goto(r, [pc |-> "verified", user |-> x.id])
    BY <1>1 DEF Login, UsersWith
  <2>2. UNCHANGED <<users, sessions, drawn, answered, faults>>
    BY <1>1 DEF Login
  <2> DEFINE q == [pc |-> "verified", user |-> x.id]
  <2>3. q \in Logins /\ request' = [request EXCEPT ![r] = q]
    BY <2>1 DEF Logins, Goto, TypeOK, UserRows
  <2>4. TypeOK'
    BY <2>2, <2>3 DEF TypeOK
  <2> QED
    BY <2>2, <2>3, <2>4 DEF InductiveInv, TypeOK, Inserting, UsersWith, SessionsOf
<1>2. CASE SelectSessions(r)
  <2> DEFINE q == [pc |-> "selected", user |-> request[r].user,
                   locked |-> SessionsOf(request[r].user) \ Locked]
  <2>1. request[r].user \in UserIds
    BY <1>2, RequestShapes DEF SelectSessions
  <2>2. q \in Logins /\ q.pc = "selected" /\ request' = [request EXCEPT ![r] = q]
    BY <1>2, <2>1 DEF SelectSessions, Logins, Goto, TypeOK, SessionsOf
  <2>3. UNCHANGED <<users, sessions, drawn, answered, faults>>
    BY <1>2 DEF SelectSessions
  <2>4. TypeOK'
    BY <2>2, <2>3 DEF TypeOK
  <2>5. request'[r] = q /\ \A s \in Requests : s # r => request'[s] = request[s]
    BY <2>2 DEF TypeOK
  <2>6. Inserting' = Inserting
    BY <1>2, <2>2, <2>5 DEF Inserting, SelectSessions
  <2>7. \A s \in Requests : request[s].pc = "selected" => request[s].locked \cap q.locked = {}
    BY DEF Locked
  <2>8. \A s \in Inserting : s # r
    BY <1>2 DEF SelectSessions, Inserting
  <2>9. q.user = request[r].user /\ q.locked \subseteq SessionsOf(q.user)
    OBVIOUS
  <2>10. \E x \in users : x.id = q.user
    BY <1>2, <2>9 DEF InductiveInv, SelectSessions
  <2> HIDE DEF q
  <2>11. \A s \in Inserting' :
          /\ UsersWith(request'[s].email) = {}
          /\ \A t \in Inserting' : request'[t].email = request'[s].email => t = s
    BY <2>5, <2>6, <2>8 DEF InductiveInv, Inserting
  <2>12. \A s \in Requests :
          /\ request'[s].pc \in {"verified", "selected"} => \E x \in users : x.id = request'[s].user
          /\ request'[s].pc = "selected" => request'[s].locked \subseteq SessionsOf(request'[s].user)
    BY <2>5, <2>9, <2>10 DEF InductiveInv
  <2>13. \A s, t \in Requests :
        request'[s].pc = "selected" /\ request'[t].pc = "selected" /\ s # t
            => request'[s].locked \cap request'[t].locked = {}
    BY <2>5, <2>7 DEF InductiveInv
  <2> QED
    BY <2>3, <2>4, <2>11, <2>12, <2>13 DEF InductiveInv, UsersWith, SessionsOf
<1>3. CASE CommitSession(r)
  <2> DEFINE s == [id |-> drawn + 1, user |-> request[r].user]
  <2>1. /\ request' = [request EXCEPT ![r] = NoRequest] /\ drawn' = drawn + 1
        /\ sessions' = (sessions \ request[r].locked) \cup {s}
        /\ UNCHANGED <<users, answered, faults>>
    BY <1>3 DEF CommitSession, Reply, Goto
  <2>2. s \in SessionRows /\ drawn' \in 0 .. MaxSessions
    <3>1. drawn \in Nat /\ drawn < MaxSessions /\ MaxSessions \in Nat
      BY <1>3, AuthAssumption DEF CommitSession, TypeOK, AuthAssumption
    <3>2. drawn + 1 \in SessionIds /\ drawn + 1 \in 0 .. MaxSessions
      BY <3>1 DEF SessionIds
    <3>3. request[r].user \in UserIds
      BY <1>3, RequestShapes DEF CommitSession
    <3> QED
      BY <2>1, <3>2, <3>3 DEF SessionRows
  <2>3. TypeOK'
    BY <2>1, <2>2 DEF TypeOK
  <2>4. request'[r] = NoRequest /\ NoRequest.pc = "idle"
        /\ \A q \in Requests : q # r => request'[q] = request[q]
    BY <2>1 DEF TypeOK, NoRequest
  <2>5. Inserting' = Inserting
    BY <1>3, <2>4 DEF Inserting, CommitSession
  <2>6. \A q \in Requests : q # r /\ request[q].pc = "selected" =>
          request[q].locked \subseteq {y \in sessions' : y.user = request[q].user}
    BY <1>3, <2>1 DEF InductiveInv, SessionsOf, CommitSession
  <2>7. \A y \in sessions' : y.id <= drawn' /\ \E x \in users : x.id = y.user
    <3>1. \A y \in sessions : y.id \in Nat /\ y.id <= drawn /\ \E x \in users : x.id = y.user
      BY DEF InductiveInv, TypeOK, SessionRows, SessionIds
    <3>2. drawn \in Nat
      BY AuthAssumption DEF TypeOK, AuthAssumption
    <3>3. s.id = drawn + 1 /\ \E x \in users : x.id = s.user
      BY <1>3 DEF InductiveInv, CommitSession
    <3> HIDE DEF s
    <3> QED
      BY <2>1, <3>1, <3>2, <3>3
  <2>8. \A q \in Inserting' :
          /\ UsersWith(request'[q].email) = {}
          /\ \A t \in Inserting' : request'[t].email = request'[q].email => t = q
    BY <1>3, <2>4, <2>5 DEF InductiveInv, Inserting, CommitSession
  <2>9. \A q \in Requests :
          /\ request'[q].pc \in {"verified", "selected"} => \E x \in users : x.id = request'[q].user
          /\ request'[q].pc = "selected" =>
               request'[q].locked \subseteq {y \in sessions' : y.user = request'[q].user}
    BY <2>4, <2>6 DEF InductiveInv
  <2>10. \A q, t \in Requests :
        request'[q].pc = "selected" /\ request'[t].pc = "selected" /\ q # t
            => request'[q].locked \cap request'[t].locked = {}
    BY <2>4 DEF InductiveInv
  <2> QED
    BY <2>1, <2>3, <2>7, <2>8, <2>9, <2>10 DEF InductiveInv, UsersWith, SessionsOf
<1> QED
  BY <1>1, <1>2, <1>3

\* A request that fails before its commit.
LEMMA FailureSteps ==
    ASSUME TypeOK, InductiveInv, NEW r \in Requests, RequestFails(r)
    PROVE  TypeOK' /\ InductiveInv'
<1>1. /\ request' = [request EXCEPT ![r] = NoRequest]
      /\ UNCHANGED <<users, sessions, drawn, answered>>
  BY DEF RequestFails, Reply, Goto
<1>2. faults' \in 0 .. MaxFaults
  BY AuthAssumption DEF RequestFails, Fault, TypeOK, AuthAssumption
<1>3. TypeOK'
  BY <1>1, <1>2 DEF TypeOK
<1> QED
  BY <1>1, <1>3 DEF InductiveInv, TypeOK, NoRequest, Inserting, UsersWith, SessionsOf

-----------------------------------------------------------------------------
(***************************************************************************)
(* The invariants.                                                         *)
(***************************************************************************)

\* Both hold at the start and are kept by every step of the endpoints.
LEMMA Induction == Spec => [](TypeOK /\ InductiveInv)
<1>1. Init => TypeOK /\ InductiveInv
  <2> SUFFICES ASSUME Init PROVE TypeOK /\ InductiveInv
    OBVIOUS
  <2>1. TypeOK
    BY AuthAssumption DEF Init, TypeOK, NoRequest, AuthAssumption
  <2>2. \A r \in Requests : request[r].pc = "idle"
    BY DEF Init, NoRequest
  <2>3. IsFiniteSet(users)
    BY FS_EmptySet DEF Init
  <2> QED
    BY <2>1, <2>2, <2>3 DEF Init, InductiveInv, Inserting
<1>2. TypeOK /\ InductiveInv /\ [Next]_vars => TypeOK' /\ InductiveInv'
  <2> SUFFICES ASSUME TypeOK, InductiveInv, [Next]_vars PROVE TypeOK' /\ InductiveInv'
    OBVIOUS
  <2>1. ASSUME NEW r \in Requests, Client(r) PROVE TypeOK' /\ InductiveInv'
    BY <2>1, RegisterSteps, CommitSteps, LoginSteps, FailureSteps DEF Client
  <2>2. CASE UNCHANGED vars
    BY <2>2 DEF vars, TypeOK, InductiveInv, Inserting, UsersWith, SessionsOf
  <2> QED
    BY <2>1, <2>2 DEF Next
<1> QED
  BY <1>1, <1>2, PTL DEF Spec

\* The tables, the requests in flight and the answers keep their types.
THEOREM TypeCorrect == Spec => []TypeOK
BY Induction, PTL

\* An uncommitted row is the only one of its e-mail, locks are exclusive and on
\* rows that are there, sessions and logins are of users.
THEOREM Inductive == Spec => []InductiveInv
BY Induction, PTL

\* register_user never answers two clients with the same e-mail: what it
\* answered is the one account of that e-mail, with the password given.
THEOREM AnswersKept == Spec => []AnswersHold
<1>1. InductiveInv => AnswersHold
  <2> SUFFICES ASSUME InductiveInv, NEW c \in answered
               PROVE  \E x \in users : UsersWith(c[1]) = {x} /\ x.password = c[2]
    BY DEF AnswersHold
  <2>1. PICK x \in users : x.email = c[1] /\ x.password = c[2]
    BY DEF InductiveInv
  <2>2. UsersWith(c[1]) = {x}
    BY <2>1 DEF InductiveInv, UsersWith
  <2> QED
    BY <2>1, <2>2
<1> QED
  BY <1>1, Induction, PTL

-----------------------------------------------------------------------------
(***************************************************************************)
(* The accounts nobody was told of, counted.                               *)
(***************************************************************************)

\* One more element makes a finite set larger by one at most.
LEMMA AddOne ==
    ASSUME NEW S, IsFiniteSet(S), NEW x
    PROVE  /\ IsFiniteSet(S \cup {x}) /\ Cardinality(S \cup {x}) \in Nat
           /\ Cardinality(S \cup {x}) <= Cardinality(S) + 1
<1>1. Cardinality(S) \in Nat
  BY FS_CardinalityType
<1>2. IsFiniteSet(S \cup {x}) /\ Cardinality(S \cup {x}) \in Nat
  BY FS_AddElement, FS_CardinalityType
<1>3. Cardinality(S \cup {x}) \in {Cardinality(S), Cardinality(S) + 1}
  BY FS_AddElement
<1> QED
  BY <1>1, <1>2, <1>3

Untold == {x \in users : <<x.email, x.password>> \notin answered /\ x.email.local # NoLocal}

\* A registration leaves its client in the dark only by a failure of its commit.
THEOREM UntoldByFaults == Spec => []UntoldAccounts
<1> USE DEF Untold
<1>1. Init => UntoldAccounts
  <2>1. Init => Untold = {}
    BY DEF Init
  <2> QED
    BY <2>1, FS_EmptySet DEF Init, UntoldAccounts
<1>2. TypeOK /\ InductiveInv /\ InductiveInv' /\ UntoldAccounts /\ [Next]_vars => UntoldAccounts'
  <2> SUFFICES ASSUME TypeOK, InductiveInv, InductiveInv', UntoldAccounts, [Next]_vars
               PROVE  UntoldAccounts'
    OBVIOUS
  <2>1. /\ IsFiniteSet(Untold) /\ IsFiniteSet(Untold')
        /\ Cardinality(Untold) \in Nat /\ Cardinality(Untold') \in Nat
    BY FS_Subset, FS_CardinalityType DEF InductiveInv
  <2>2. faults \in Nat /\ Cardinality(Untold) <= faults
    BY AuthAssumption DEF TypeOK, UntoldAccounts, AuthAssumption
  <2>3. ASSUME Untold' \subseteq Untold, faults' \in {faults, faults + 1} PROVE UntoldAccounts'
    <3>1. Cardinality(Untold') <= Cardinality(Untold)
      BY <2>1, <2>3, FS_Subset
    <3> HIDE DEF Untold
    <3>2. Cardinality(Untold') <= faults'
      BY <2>1, <2>2, <2>3, <3>1
    <3> QED
      BY <3>2 DEF Untold, UntoldAccounts
  <2>4. ASSUME NEW r \in Requests, Client(r), UNCHANGED <<users, answered>>
        PROVE  UntoldAccounts'
    <3>1. faults' \in {faults, faults + 1}
      BY <2>4 DEF Client, Register, Login, InsertUser, CommitUser, CommitUserLost,
                  SelectSessions, CommitSession, RequestFails, Fault
    <3> QED
      BY <2>3, <2>4, <3>1
  <2>5. ASSUME NEW r \in Requests, CommitUser(r) PROVE UntoldAccounts'
    <3>1. PICK x \in UserRows :
            /\ x = [id |-> Cardinality(users) + 1, email |-> request[r].email,
                    password |-> request[r].password]
            /\ users' = users \cup {x}
      BY <2>5, NewRow DEF CommitUser
    <3>2. x.email \in Emails /\ x.email.tagged = FALSE
      BY DEF UserRows, Emails
    <3>3. x.email.local # NoLocal => <<x.email, x.password>> \in answered'
      BY <2>5, <3>1, <3>2 DEF CommitUser, IsEmailStr
    <3>4. answered \subseteq answered' /\ faults' = faults
      BY <2>5 DEF CommitUser
    <3> QED
      BY <2>3, <3>1, <3>3, <3>4
  <2>6. ASSUME NEW r \in Requests, CommitUserLost(r) PROVE UntoldAccounts'
    <3>1. PICK x \in UserRows : users' = users \cup {x}
      BY <2>6, NewRow DEF CommitUserLost
    <3>2. answered' = answered /\ faults' = faults + 1
      BY <2>6 DEF CommitUserLost, Fault
    <3>3. Untold' \subseteq Untold \cup {x}
      BY <3>1, <3>2
    <3>4. IsFiniteSet(Untold \cup {x}) /\ Cardinality(Untold \cup {x}) \in Nat
          /\ Cardinality(Untold \cup {x}) <= Cardinality(Untold) + 1
      BY <2>1, AddOne
    <3>5. Cardinality(Untold') <= Cardinality(Untold \cup {x})
      BY <3>3, <3>4, FS_Subset
    <3> HIDE DEF Untold
    <3>6. Cardinality(Untold') <= faults'
      BY <2>1, <2>2, <3>2, <3>4, <3>5
    <3> QED
      BY <3>6 DEF Untold, UntoldAccounts
  <2>7. ASSUME NEW r \in Requests, Client(r) PROVE UntoldAccounts'
    <3>1. CommitUser(r) \/ CommitUserLost(r) \/ UNCHANGED <<users, answered>>
      BY <2>7 DEF Client, Register, Login, InsertUser, SelectSessions, CommitSession, RequestFails
    <3> QED
      BY <2>4, <2>5, <2>6, <2>7, <3>1
  <2>8. CASE UNCHANGED vars
    BY <2>3, <2>8 DEF vars
  <2> QED
    BY <2>7, <2>8 DEF Next
<1> QED
  BY <1>1, <1>2, Induction, PTL DEF Spec

-----------------------------------------------------------------------------
(***************************************************************************)
(* The sessions of a user, counted.                                        *)
(***************************************************************************)

\* Sessions that k logins may hold after f rollbacks.
Bound(f, k) == Cardinality(Requests) * k + f * (Cardinality(Requests) - 1)

HeldBy(F)  == UNION {request[r].locked : r \in F}
Free(i)    == SessionsOf(i) \ Locked
Load(i, F) == Free(i) \cup HeldBy(F)

\* Inductive form of SessionsBounded: it would still hold if any of the logins
\* were rolled back and freed what they have locked.
LoadInv ==
    /\ IsFiniteSet(sessions)
    /\ \A i \in UserIds : \A F \in SUBSET Selecting(i) :
        /\ Cardinality(Load(i, F)) + Cardinality(Selecting(i)) <= Bound(faults, Cardinality(F) + 1)
        /\ Cardinality(HeldBy(F)) <= Bound(faults, Cardinality(F))

LEMMA Bounds ==
    ASSUME Requests # {}
    PROVE  \A f, k \in Nat :
             /\ Bound(f, k) \in Nat /\ Cardinality(Requests) \in Nat \ {0}
             /\ Bound(f, k + 1) = Bound(f, k) + Cardinality(Requests)
             /\ Bound(f + 1, k) = Bound(f, k) + Cardinality(Requests) - 1
<1> DEFINE n == Cardinality(Requests)
<1>1. n \in Nat /\ n # 0
  BY AuthAssumption, FS_EmptySet, FS_CardinalityType DEF AuthAssumption
<1> HIDE DEF n
<1>2. n - 1 \in Nat
  BY <1>1
<1>3. ASSUME NEW f \in Nat, NEW k \in Nat
      PROVE  /\ n * k + f * (n - 1) \in Nat
             /\ n * (k + 1) + f * (n - 1) = n * k + f * (n - 1) + n
             /\ n * k + (f + 1) * (n - 1) = n * k + f * (n - 1) + n - 1
  <2>1. n * k \in Nat /\ f * (n - 1) \in Nat
    BY <1>1, <1>2
  <2>2. n * (k + 1) = n * k + n
    BY <1>1
  <2>3. (f + 1) * (n - 1) = f * (n - 1) + (n - 1)
    BY <1>2
  <2> QED
    BY <1>1, <2>1, <2>2, <2>3
<1> QED
  BY <1>1, <1>3 DEF Bound, n

\* What a set of logins of a user holds is rows of the table.
LEMMA LoadFinite ==
    ASSUME TypeOK, InductiveInv, IsFiniteSet(sessions), NEW i, NEW F \in SUBSET Selecting(i)
    PROVE  /\ IsFiniteSet(F) /\ Cardinality(F) \in Nat
           /\ Cardinality(Selecting(i)) \in Nat
           /\ Cardinality(Selecting(i)) <= Cardinality(Requests)
           /\ IsFiniteSet(Selecting(i))
           /\ Load(i, F) \subseteq SessionsOf(i)
           /\ IsFiniteSet(Load(i, F)) /\ Cardinality(Load(i, F)) \in Nat
           /\ IsFiniteSet(HeldBy(F)) /\ Cardinality(HeldBy(F)) \in Nat
<1>1. IsFiniteSet(Selecting(i)) /\ Cardinality(Selecting(i)) <= Cardinality(Requests)
  <2>1. Selecting(i) \subseteq Requests
    BY DEF Selecting
  <2> QED
    BY <2>1, AuthAssumption, FS_Subset DEF AuthAssumption
<1>2. IsFiniteSet(F)
  BY <1>1, FS_Subset
<1>3. HeldBy(F) \subseteq SessionsOf(i)
  BY DEF HeldBy, Selecting, InductiveInv
<1>4. Load(i, F) \subseteq sessions /\ HeldBy(F) \subseteq sessions /\ Load(i, F) \subseteq SessionsOf(i)
  BY <1>3 DEF Load, Free, SessionsOf
<1>5. IsFiniteSet(Load(i, F)) /\ IsFiniteSet(HeldBy(F))
  BY <1>4, FS_Subset
<1> QED
  BY <1>1, <1>2, <1>4, <1>5, FS_CardinalityType

\* A step that neither begins nor ends a login's transaction.
LEMMA LoadQuiet ==
    ASSUME TypeOK, InductiveInv, LoadInv, NEW r \in Requests,
           request[r].pc # "selected", request'[r].pc # "selected",
           \A q \in Requests : q # r => request'[q] = request[q],
           UNCHANGED sessions, faults' \in {faults, faults + 1}
    PROVE  LoadInv'
<1>1. \A i : Selecting(i)' = Selecting(i)
  BY DEF Selecting
<1>2. \A i : \A F \in SUBSET Selecting(i) : HeldBy(F)' = HeldBy(F)
  <2> SUFFICES ASSUME NEW i, NEW F \in SUBSET Selecting(i)
               PROVE  HeldBy(F)' = HeldBy(F)
    OBVIOUS
  <2>1. \A q \in F : request'[q] = request[q]
    BY DEF Selecting
  <2> QED
    BY <2>1 DEF HeldBy
<1>3. Locked' = Locked
  <2>1. {q \in Requests : request'[q].pc = "selected"} = {q \in Requests : request[q].pc = "selected"}
    OBVIOUS
  <2>2. \A q \in {s \in Requests : request[s].pc = "selected"} : request'[q] = request[q]
    OBVIOUS
  <2> QED
    BY <2>1, <2>2 DEF Locked
<1>4. \A i : Free(i)' = Free(i)
  BY <1>3 DEF Free, SessionsOf
<1> SUFFICES ASSUME NEW i \in UserIds, NEW F \in SUBSET Selecting(i)
             PROVE  /\ Cardinality(Load(i, F)) + Cardinality(Selecting(i))
                         <= Bound(faults', Cardinality(F) + 1)
                    /\ Cardinality(HeldBy(F)) <= Bound(faults', Cardinality(F))
  <2>1. \A i \in UserIds : \A F \in SUBSET Selecting(i) : Load(i, F)' = Load(i, F)
    BY <1>2, <1>4 DEF Load
  <2>2. \A i \in UserIds : \A F \in SUBSET Selecting(i)' :
          /\ Cardinality(Load(i, F)') + Cardinality(Selecting(i)') <= Bound(faults', Cardinality(F) + 1)
          /\ Cardinality(HeldBy(F)') <= Bound(faults', Cardinality(F))
    BY <1>1, <1>2, <2>1
  <2> QED
    BY <2>2 DEF LoadInv, Bound
<1>5. /\ Cardinality(Load(i, F)) + Cardinality(Selecting(i)) <= Bound(faults, Cardinality(F) + 1)
      /\ Cardinality(HeldBy(F)) <= Bound(faults, Cardinality(F))
      /\ faults \in Nat
  BY AuthAssumption DEF LoadInv, TypeOK, AuthAssumption
<1>6. /\ Cardinality(F) \in Nat /\ Cardinality(Selecting(i)) \in Nat
      /\ Cardinality(Load(i, F)) \in Nat /\ Cardinality(HeldBy(F)) \in Nat
  BY LoadFinite DEF LoadInv
<1>7. ASSUME NEW k \in Nat
      PROVE  /\ Bound(faults, k) \in Nat /\ Bound(faults', k) \in Nat
             /\ Bound(faults', k) >= Bound(faults, k)
  <2>1. Requests # {}
    OBVIOUS
  <2>2. /\ Bound(faults, k) \in Nat /\ Cardinality(Requests) \in Nat \ {0}
        /\ Bound(faults + 1, k) = Bound(faults, k) + Cardinality(Requests) - 1
    BY <1>5, <2>1, Bounds
  <2> QED
    BY <2>2
<1> QED
  BY <1>5, <1>6, <1>7

\* The rows that nobody else holds go to the login that selects.
LEMMA LoadSelects ==
    ASSUME TypeOK, InductiveInv, LoadInv, NEW r \in Requests, SelectSessions(r)
    PROVE  LoadInv'
<1> DEFINE n == Cardinality(Requests)
<1>0. PICK u : u = request[r].user
  OBVIOUS
<1>1. /\ request[r].pc = "verified"
      /\ request'[r].pc = "selected" /\ request'[r].user = u /\ request'[r].locked = Free(u)
      /\ \A q \in Requests : q # r => request'[q] = request[q]
      /\ UNCHANGED <<sessions, faults>>
  BY <1>0 DEF SelectSessions, Goto, TypeOK, Free
<1>2. /\ faults \in Nat /\ IsFiniteSet(sessions) /\ n \in Nat
      /\ \A k \in Nat : Bound(faults, k) \in Nat /\ Bound(faults, k + 1) = Bound(faults, k) + n
  <2>1. Requests # {} /\ faults \in Nat
    BY AuthAssumption DEF TypeOK, AuthAssumption
  <2> QED
    BY <2>1, Bounds DEF LoadInv
<1> HIDE DEF n
<1>3. \A i : /\ r \notin Selecting(i)
             /\ i = u => Selecting(i)' = Selecting(i) \cup {r}
             /\ i # u => Selecting(i)' = Selecting(i)
  BY <1>1 DEF Selecting
<1>4. ASSUME NEW F, F \subseteq Requests, r \notin F PROVE HeldBy(F)' = HeldBy(F)
  BY <1>1, <1>4 DEF HeldBy
<1>5. Locked' = Locked \cup Free(u)
  <2>1. \A x : x \in Locked' <=> \E q \in Requests : request'[q].pc = "selected" /\ x \in request'[q].locked
    BY DEF Locked
  <2>2. \A x : x \in Locked <=> \E q \in Requests : request[q].pc = "selected" /\ x \in request[q].locked
    BY DEF Locked
  <2> QED
    BY <1>1, <2>1, <2>2
<1>6. \A i : /\ i = u => Free(i)' = {}
             /\ i # u => Free(i)' = Free(i)
  BY <1>1, <1>5 DEF Free, SessionsOf
<1>7. ASSUME NEW i \in UserIds, NEW F \in SUBSET Requests, F \subseteq Selecting(i) \cup {r},
             i # u => F \subseteq Selecting(i)
      PROVE  Cardinality(HeldBy(F)') <= Bound(faults, Cardinality(F))
  <2>1. CASE r \notin F
    <3>1. F \in SUBSET Selecting(i)
      BY <1>7, <2>1
    <3> QED
      BY <1>4, <2>1, <3>1 DEF LoadInv
  <2>2. CASE r \in F
    <3> DEFINE G == F \ {r}
    <3>1. i = u
      BY <1>3, <1>7, <2>2
    <3>2. G \in SUBSET Selecting(i) /\ G \subseteq Requests /\ F = G \cup {r} /\ r \notin G
      BY <1>7, <2>2
    <3> HIDE DEF G
    <3>3. HeldBy(F)' = HeldBy(G)' \cup request'[r].locked
      BY <3>2 DEF HeldBy
    <3>4. HeldBy(F)' = Load(i, G)
      BY <1>1, <1>4, <3>1, <3>2, <3>3 DEF Load
    <3>5. /\ IsFiniteSet(G) /\ Cardinality(G) \in Nat /\ Cardinality(Load(i, G)) \in Nat
          /\ Cardinality(Selecting(i)) \in Nat
      BY <1>2, <3>2, LoadFinite
    <3>6. Cardinality(F) = Cardinality(G) + 1
      BY <3>2, <3>5, FS_AddElement
    <3>7. Cardinality(Load(i, G)) + Cardinality(Selecting(i)) <= Bound(faults, Cardinality(G) + 1)
      BY <3>2 DEF LoadInv
    <3>8. Cardinality(G) + 1 \in Nat
      BY <3>5
    <3> QED
      BY <1>2, <3>4, <3>5, <3>6, <3>7, <3>8
  <2> QED
    BY <2>1, <2>2
<1>8. ASSUME NEW i \in UserIds, NEW F \in SUBSET Selecting(i)'
      PROVE  /\ Cardinality(Load(i, F)') + Cardinality(Selecting(i)') <= Bound(faults, Cardinality(F) + 1)
             /\ Cardinality(HeldBy(F)') <= Bound(faults, Cardinality(F))
  <2>1. /\ F \in SUBSET Requests /\ F \subseteq Selecting(i) \cup {r}
        /\ i # u => F \subseteq Selecting(i)
    BY <1>3 DEF Selecting
  <2>2. Cardinality(HeldBy(F)') <= Bound(faults, Cardinality(F))
    BY <1>7, <2>1
  <2>3. CASE i = u
    <3>1. Load(i, F)' = HeldBy(F)'
      BY <1>6, <2>3 DEF Load
    <3>2. Selecting(i)' \subseteq Requests
      BY DEF Selecting
    <3>3. IsFiniteSet(Selecting(i)') /\ Cardinality(Selecting(i)') <= n
      BY <3>2, AuthAssumption, FS_Subset DEF AuthAssumption, n
    <3>4. Cardinality(Selecting(i)') \in Nat /\ IsFiniteSet(F) /\ Cardinality(F) \in Nat
      BY <3>3, FS_Subset, FS_CardinalityType
    <3>5. F \ {r} \in SUBSET Selecting(i)
      BY <2>1
    <3>6. HeldBy(F)' \subseteq HeldBy(F \ {r}) \cup Free(i)
      BY <1>1, <2>1, <2>3 DEF HeldBy
    <3>7. HeldBy(F)' \subseteq Load(i, F \ {r})
      BY <3>6 DEF Load
    <3>8. IsFiniteSet(Load(i, F \ {r}))
      BY <1>2, <3>5, LoadFinite
    <3>9. Cardinality(HeldBy(F)') \in Nat
      BY <3>7, <3>8, FS_Subset, FS_CardinalityType
    <3> QED
      BY <1>2, <2>2, <3>1, <3>3, <3>4, <3>9
  <2>4. CASE i # u
    <3>1. F \in SUBSET Selecting(i) /\ r \notin F /\ F \subseteq Requests
      BY <1>3, <2>1, <2>4
    <3>2. Load(i, F)' = Load(i, F) /\ Selecting(i)' = Selecting(i)
      BY <1>3, <1>4, <1>6, <2>4, <3>1 DEF Load
    <3> QED
      BY <2>2, <3>1, <3>2 DEF LoadInv
  <2> QED
    BY <2>3, <2>4
<1> QED
  BY <1>1, <1>2, <1>8 DEF LoadInv, Bound

\* The end of a login's transaction: its rows are deleted, or free again.
LEMMA LoadEnds ==
    ASSUME TypeOK, InductiveInv, LoadInv, NEW r \in Requests, NEW K, K = request[r].locked,
           NEW u, u = request[r].user, r \in Selecting(u),
           CommitSession(r) \/ RequestFails(r)
    PROVE  /\ \A i : /\ i = u => /\ r \in Selecting(i) /\ Selecting(i) = Selecting(i)' \cup {r}
                                 /\ Cardinality(Selecting(i)) = Cardinality(Selecting(i)') + 1
                     /\ i # u => Selecting(i)' = Selecting(i)
                     /\ r \notin Selecting(i)' /\ Cardinality(Selecting(i)') \in Nat
           /\ \A i : \A F \in SUBSET Selecting(i)' :
                /\ F \in SUBSET Selecting(i) /\ HeldBy(F)' = HeldBy(F)
           /\ Locked \subseteq Locked' \cup K
           /\ K \subseteq SessionsOf(u)
<1>1. /\ request[r].pc = "selected" /\ request'[r].pc # "selected"
      /\ \A q \in Requests : q # r => request'[q] = request[q]
  BY DEF CommitSession, RequestFails, Reply, Goto, NoRequest, TypeOK, Selecting
<1>2. \A i : /\ i = u => r \in Selecting(i) /\ Selecting(i) = Selecting(i)' \cup {r}
             /\ i # u => Selecting(i)' = Selecting(i)
             /\ r \notin Selecting(i)' /\ Selecting(i)' \subseteq Selecting(i)
  BY <1>1 DEF Selecting
<1>3. ASSUME NEW i, NEW F \in SUBSET Selecting(i)'
      PROVE  F \in SUBSET Selecting(i) /\ HeldBy(F)' = HeldBy(F)
  <2>1. \A q \in F : request'[q] = request[q]
    BY <1>1, <1>2 DEF Selecting
  <2> QED
    BY <1>2, <2>1 DEF HeldBy
<1>4. Locked \subseteq Locked' \cup K
  <2>1. \A x : x \in Locked' <=> \E q \in Requests : request'[q].pc = "selected" /\ x \in request'[q].locked
    BY DEF Locked
  <2>2. \A x : x \in Locked <=> \E q \in Requests : request[q].pc = "selected" /\ x \in request[q].locked
    BY DEF Locked
  <2> QED
    BY <1>1, <2>1, <2>2
<1>5. K \subseteq SessionsOf(u)
  BY <1>1 DEF InductiveInv
<1>6. ASSUME NEW i
      PROVE  /\ Cardinality(Selecting(i)') \in Nat
             /\ i = u => Cardinality(Selecting(i)) = Cardinality(Selecting(i)') + 1
  <2>1. Selecting(i)' \subseteq Requests
    BY DEF Selecting
  <2>2. IsFiniteSet(Selecting(i)')
    BY <2>1, AuthAssumption, FS_Subset DEF AuthAssumption
  <2> QED
    BY <1>2, <2>2, FS_AddElement, FS_CardinalityType
<1> QED
  BY <1>2, <1>3, <1>4, <1>5, <1>6

\* What a set of logins holds, and how much of it is allowed.
LEMMA LoadNumbers ==
    ASSUME TypeOK, InductiveInv, LoadInv, Requests # {}, NEW i \in UserIds,
           NEW F \in SUBSET Selecting(i)
    PROVE  LET k == Cardinality(F)
               n == Cardinality(Requests)
           IN  /\ k \in Nat /\ n \in Nat \ {0} /\ IsFiniteSet(F)
               /\ IsFiniteSet(Load(i, F)) /\ Cardinality(Load(i, F)) \in Nat
               /\ Cardinality(HeldBy(F)) \in Nat /\ Cardinality(Selecting(i)) \in Nat
               /\ Cardinality(Load(i, F)) + Cardinality(Selecting(i)) <= Bound(faults, k + 1)
               /\ Cardinality(HeldBy(F)) <= Bound(faults, k)
               /\ Bound(faults, k) \in Nat /\ Bound(faults, k + 1) \in Nat
               /\ Bound(faults + 1, k) = Bound(faults, k) + n - 1
               /\ Bound(faults + 1, k + 1) = Bound(faults, k + 1) + n - 1
               /\ Bound(faults, k + 1 + 1) = Bound(faults, k + 1) + n
<1> DEFINE k == Cardinality(F)
           n == Cardinality(Requests)
<1>1. /\ IsFiniteSet(F) /\ k \in Nat /\ faults \in Nat
      /\ IsFiniteSet(Load(i, F)) /\ Cardinality(Load(i, F)) \in Nat
      /\ Cardinality(HeldBy(F)) \in Nat /\ Cardinality(Selecting(i)) \in Nat
  BY LoadFinite, AuthAssumption DEF LoadInv, TypeOK, AuthAssumption
<1>2. /\ Cardinality(Load(i, F)) + Cardinality(Selecting(i)) <= Bound(faults, k + 1)
      /\ Cardinality(HeldBy(F)) <= Bound(faults, k)
  BY DEF LoadInv
<1> HIDE DEF k
<1>3. k + 1 \in Nat
  BY <1>1
<1>4. /\ n \in Nat \ {0}
      /\ Bound(faults, k) \in Nat /\ Bound(faults, k + 1) \in Nat
      /\ Bound(faults + 1, k) = Bound(faults, k) + n - 1
      /\ Bound(faults + 1, k + 1) = Bound(faults, k + 1) + n - 1
      /\ Bound(faults, k + 1 + 1) = Bound(faults, k + 1) + n
  BY <1>1, <1>3, Bounds
<1> QED
  BY <1>1, <1>2, <1>4 DEF k

\* A login that commits replaces what it holds by its session.
LEMMA LoadCommits ==
    ASSUME TypeOK, InductiveInv, LoadInv, NEW r \in Requests, CommitSession(r)
    PROVE  LoadInv'
<1>0. PICK u, K : u = request[r].user /\ K = request[r].locked
  OBVIOUS
<1>1. r \in Selecting(u)
  BY <1>0 DEF CommitSession, Selecting
<1> DEFINE s == [id |-> drawn + 1, user |-> request[r].user]
<1>2. PICK x : x = s
  OBVIOUS
<1>3. sessions' = (sessions \ K) \cup {x} /\ faults' = faults /\ x.user = u
  BY <1>0, <1>2 DEF CommitSession
<1> HIDE DEF s
<1>4. IsFiniteSet(sessions')
  <2>1. IsFiniteSet(sessions \ K)
    BY FS_Subset DEF LoadInv
  <2> QED
    BY <1>3, <2>1, FS_AddElement
<1>5. /\ \A i : /\ i = u => Cardinality(Selecting(i)) = Cardinality(Selecting(i)') + 1
                /\ i # u => Selecting(i)' = Selecting(i)
                /\ Cardinality(Selecting(i)') \in Nat
      /\ \A i : \A F \in SUBSET Selecting(i)' : F \in SUBSET Selecting(i) /\ HeldBy(F)' = HeldBy(F)
      /\ Locked \subseteq Locked' \cup K
  BY <1>0, <1>1, LoadEnds
<1>6. \A i : /\ i = u => Free(i)' \subseteq Free(i) \cup {x}
             /\ i # u => Free(i)' \subseteq Free(i)
  BY <1>3, <1>5 DEF Free, SessionsOf
<1>7. ASSUME NEW i \in UserIds, NEW F \in SUBSET Selecting(i)'
      PROVE  /\ Cardinality(Load(i, F)') + Cardinality(Selecting(i)') <= Bound(faults, Cardinality(F) + 1)
             /\ Cardinality(HeldBy(F)') <= Bound(faults, Cardinality(F))
  <2>1. /\ IsFiniteSet(Load(i, F)) /\ Cardinality(Load(i, F)) \in Nat
        /\ Cardinality(Selecting(i)) \in Nat /\ Bound(faults, Cardinality(F) + 1) \in Nat
        /\ Cardinality(Load(i, F)) + Cardinality(Selecting(i)) <= Bound(faults, Cardinality(F) + 1)
        /\ Cardinality(HeldBy(F)') <= Bound(faults, Cardinality(F))
    BY <1>5, LoadNumbers
  <2>2. CASE i = u
    <3>1. Load(i, F)' \subseteq Load(i, F) \cup {x}
      BY <1>5, <1>6, <2>2 DEF Load
    <3>2. /\ IsFiniteSet(Load(i, F) \cup {x}) /\ Cardinality(Load(i, F) \cup {x}) \in Nat
          /\ Cardinality(Load(i, F) \cup {x}) <= Cardinality(Load(i, F)) + 1
      BY <2>1, AddOne
    <3>3. /\ Cardinality(Load(i, F)') <= Cardinality(Load(i, F) \cup {x})
          /\ Cardinality(Load(i, F)') \in Nat
      BY <3>1, <3>2, FS_Subset, FS_CardinalityType
    <3>4. Cardinality(Selecting(i)) = Cardinality(Selecting(i)') + 1 /\ Cardinality(Selecting(i)') \in Nat
      BY <1>5, <2>2
    <3> QED
      BY <2>1, <3>2, <3>3, <3>4
  <2>3. CASE i # u
    <3>1. Load(i, F)' \subseteq Load(i, F) /\ Selecting(i)' = Selecting(i)
      BY <1>5, <1>6, <2>3 DEF Load
    <3>2. Cardinality(Load(i, F)') <= Cardinality(Load(i, F)) /\ Cardinality(Load(i, F)') \in Nat
      BY <2>1, <3>1, FS_Subset, FS_CardinalityType
    <3> QED
      BY <2>1, <3>1, <3>2
  <2> QED
    BY <2>2, <2>3
<1> QED
  BY <1>3, <1>4, <1>7 DEF LoadInv, Bound

\* A login that is rolled back frees what it holds: one set of logins less.
LEMMA LoadFails ==
    ASSUME TypeOK, InductiveInv, LoadInv, NEW r \in Requests, RequestFails(r),
           request[r].pc = "selected"
    PROVE  LoadInv'
<1>0. PICK u, K : u = request[r].user /\ K = request[r].locked
  OBVIOUS
<1>1. r \in Selecting(u) /\ sessions' = sessions /\ faults' = faults + 1
  BY <1>0 DEF RequestFails, Selecting, Fault
<1>2. /\ \A i : /\ i = u => /\ r \in Selecting(i) /\ Selecting(i) = Selecting(i)' \cup {r}
                            /\ Cardinality(Selecting(i)) = Cardinality(Selecting(i)') + 1
                /\ i # u => Selecting(i)' = Selecting(i)
                /\ r \notin Selecting(i)' /\ Cardinality(Selecting(i)') \in Nat
      /\ \A i : \A F \in SUBSET Selecting(i)' : F \in SUBSET Selecting(i) /\ HeldBy(F)' = HeldBy(F)
      /\ Locked \subseteq Locked' \cup K
      /\ K \subseteq SessionsOf(u)
  BY <1>0, <1>1, LoadEnds
<1>3. \A i : /\ i = u => Free(i)' \subseteq Free(i) \cup K
             /\ i # u => Free(i)' \subseteq Free(i)
  BY <1>1, <1>2 DEF Free, SessionsOf
<1>4. ASSUME NEW i \in UserIds, NEW F \in SUBSET Selecting(i)'
      PROVE  /\ Cardinality(Load(i, F)') + Cardinality(Selecting(i)')
                  <= Bound(faults + 1, Cardinality(F) + 1)
             /\ Cardinality(HeldBy(F)') <= Bound(faults + 1, Cardinality(F))
  <2> DEFINE n == Cardinality(Requests)
             k == Cardinality(F)
  <2>1. /\ IsFiniteSet(Load(i, F)) /\ Cardinality(Load(i, F)) \in Nat
        /\ IsFiniteSet(F) /\ k \in Nat /\ n \in Nat \ {0}
        /\ Cardinality(Selecting(i)) \in Nat /\ Bound(faults, k + 1) \in Nat /\ Bound(faults, k) \in Nat
        /\ Cardinality(Load(i, F)) + Cardinality(Selecting(i)) <= Bound(faults, k + 1)
        /\ Cardinality(HeldBy(F)) <= Bound(faults, k) /\ Cardinality(HeldBy(F)) \in Nat
        /\ Bound(faults + 1, k) = Bound(faults, k) + n - 1
        /\ Bound(faults + 1, k + 1) = Bound(faults, k + 1) + n - 1
        /\ Bound(faults, k + 1 + 1) = Bound(faults, k + 1) + n
    BY <1>2, LoadNumbers
  <2> HIDE DEF n
  <2>2. Cardinality(HeldBy(F)') <= Bound(faults + 1, k)
    <3>1. HeldBy(F)' = HeldBy(F)
      BY <1>2
    <3> QED
      BY <2>1, <3>1
  <2>3. CASE i = u
    <3> DEFINE G == F \cup {r}
    <3>1. G \in SUBSET Selecting(i) /\ r \notin F
      BY <1>2, <2>3
    <3>2. HeldBy(G) = HeldBy(F) \cup K
      BY <1>0 DEF HeldBy
    <3>3. Cardinality(G) = k + 1
      BY <2>1, <3>1, FS_AddElement
    <3> HIDE DEF G, k
    <3>4. Load(i, F)' \subseteq Load(i, G)
      BY <1>2, <1>3, <2>3, <3>2 DEF Load
    <3>5. /\ IsFiniteSet(Load(i, G)) /\ Cardinality(Load(i, G)) \in Nat
          /\ Cardinality(Load(i, G)) + Cardinality(Selecting(i)) <= Bound(faults, Cardinality(G) + 1)
      BY <3>1, LoadNumbers
    <3>6. Cardinality(Load(i, F)') <= Cardinality(Load(i, G)) /\ Cardinality(Load(i, F)') \in Nat
      BY <3>4, <3>5, FS_Subset, FS_CardinalityType
    <3>7. Cardinality(Selecting(i)) = Cardinality(Selecting(i)') + 1 /\ Cardinality(Selecting(i)') \in Nat
      BY <1>2, <2>3
    <3>8. Cardinality(Load(i, G)) + Cardinality(Selecting(i)) <= Bound(faults, k + 1) + n
      BY <2>1, <3>3, <3>5
    <3>9. Cardinality(Load(i, F)') + Cardinality(Selecting(i)') <= Bound(faults + 1, k + 1)
      BY <2>1, <3>5, <3>6, <3>7, <3>8
    <3> QED
      BY <2>2, <3>9 DEF k
  <2>4. CASE i # u
    <3>1. Load(i, F)' \subseteq Load(i, F) /\ Selecting(i)' = Selecting(i)
      BY <1>2, <1>3, <2>4 DEF Load
    <3>2. Cardinality(Load(i, F)') <= Cardinality(Load(i, F)) /\ Cardinality(Load(i, F)') \in Nat
      BY <2>1, <3>1, FS_Subset, FS_CardinalityType
    <3> HIDE DEF k
    <3>3. Cardinality(Load(i, F)') + Cardinality(Selecting(i)') <= Bound(faults + 1, k + 1)
      BY <2>1, <3>1, <3>2
    <3> QED
      BY <2>2, <3>3 DEF k
  <2> QED
    BY <2>3, <2>4
<1> QED
  BY <1>1, <1>4 DEF LoadInv, Bound

\* However many logins select, commit and fail at once, a user keeps no more
\* sessions than there are logins in flight, and as many again, less one, for
\* each login that was rolled back.
THEOREM SessionsCounted == Spec => []SessionsBounded
<1>1. Init => LoadInv
  <2> SUFFICES ASSUME Init PROVE LoadInv
    OBVIOUS
  <2>1. /\ \A i : Selecting(i) = {} /\ Free(i) = {}
        /\ HeldBy({}) = {} /\ sessions = {} /\ faults = 0
    BY DEF Init, Selecting, Free, SessionsOf, HeldBy, NoRequest
  <2>2. Cardinality({}) = 0 /\ IsFiniteSet({}) /\ Cardinality(Requests) \in Nat
    BY FS_EmptySet, FS_CardinalityType, AuthAssumption DEF AuthAssumption
  <2>3. Bound(0, 0) = 0 /\ Bound(0, 0 + 1) \in Nat
    BY <2>2 DEF Bound
  <2>4. \A i : Load(i, {}) = {}
    BY <2>1 DEF Load
  <2>5. ASSUME NEW i \in UserIds, NEW F \in SUBSET Selecting(i)
        PROVE  /\ Cardinality(Load(i, F)) + Cardinality(Selecting(i)) <= Bound(faults, Cardinality(F) + 1)
               /\ Cardinality(HeldBy(F)) <= Bound(faults, Cardinality(F))
    <3>1. F = {} /\ Selecting(i) = {} /\ Load(i, {}) = {}
      BY <2>1, <2>4
    <3> QED
      BY <2>1, <2>2, <2>3, <3>1
  <2> QED
    BY <2>1, <2>2, <2>5 DEF LoadInv
<1>2. TypeOK /\ InductiveInv /\ LoadInv /\ [Next]_vars => LoadInv'
  <2> SUFFICES ASSUME TypeOK, InductiveInv, LoadInv, [Next]_vars PROVE LoadInv'
    OBVIOUS
  <2>1. CASE UNCHANGED vars
    <3>1. /\ UNCHANGED <<sessions, faults>>
          /\ \A i : Selecting(i)' = Selecting(i) /\ \A F : Load(i, F)' = Load(i, F)
          /\ \A F : HeldBy(F)' = HeldBy(F)
      BY <2>1 DEF vars, Load, HeldBy, Free, SessionsOf, Locked, Selecting
    <3> QED
      BY <3>1 DEF LoadInv, Bound
  <2>2. ASSUME NEW r \in Requests, Client(r) PROVE LoadInv'
    <3>1. CASE SelectSessions(r)
      BY <3>1, LoadSelects
    <3>2. CASE CommitSession(r) \/ (RequestFails(r) /\ request[r].pc = "selected")
      BY <3>2, LoadCommits, LoadFails
    <3>3. ASSUME NEW q, request' = [request EXCEPT ![r] = q], q.pc # "selected",
                 request[r].pc # "selected", UNCHANGED sessions, faults' \in {faults, faults + 1}
          PROVE  LoadInv'
      BY <3>3, LoadQuiet DEF TypeOK
    <3>4. NoRequest.pc # "selected"
      BY DEF NoRequest
    <3>5. CASE RequestFails(r) /\ request[r].pc # "selected"
      BY <3>3, <3>4, <3>5 DEF RequestFails, Fault, Reply, Goto
    <3>6. ASSUME NEW a \in Addresses, NEW p \in Passwords, Register(r, a, p) PROVE LoadInv'
      <4> DEFINE q == [pc |-> "absent", email |-> NormalizeEmail(a), password |-> p]
      <4>1. q.pc # "selected"
        OBVIOUS
      <4>2. /\ request' = [request EXCEPT ![r] = q] /\ request[r].pc # "selected"
            /\ UNCHANGED <<sessions, faults>>
        BY <3>6 DEF Register, Goto
      <4> HIDE DEF q
      <4> QED
        BY <3>3, <4>1, <4>2
    <3>7. ASSUME NEW a \in Addresses, NEW p \in Passwords, Login(r, a, p) PROVE LoadInv'
      <4>1. PICK x \in users : Goto(r, [pc |-> "verified", user |-> x.id])
        BY <3>7 DEF Login, UsersWith
      <4> QED
        BY <3>3, <3>7, <4>1 DEF Login, Goto
    <3>8. CASE InsertUser(r)
      <4>1. [request[r] EXCEPT !.pc = "inserted"].pc = "inserted"
        BY <3>8, RequestShapes DEF InsertUser
      <4> QED
        BY <3>3, <3>4, <3>8, <4>1 DEF InsertUser, Goto, Reply
    <3>9. CASE CommitUser(r) \/ CommitUserLost(r)
      BY <3>3, <3>4, <3>9 DEF CommitUser, CommitUserLost, AddUser, Fault, Reply, Goto
    <3> QED
      BY <2>2, <3>1, <3>2, <3>5, <3>6, <3>7, <3>8, <3>9 DEF Client
  <2> QED
    BY <2>1, <2>2 DEF Next
<1>3. TypeOK /\ LoadInv => SessionsBounded
  <2> SUFFICES ASSUME LoadInv, NEW i \in UserIds
               PROVE  Cardinality(SessionsOf(i) \ Locked) + Cardinality(Selecting(i))
                         <= Cardinality(Requests) + faults * (Cardinality(Requests) - 1)
    BY DEF SessionsBounded
  <2>1. Load(i, {}) = SessionsOf(i) \ Locked
    BY DEF Load, Free, HeldBy
  <2>2. Cardinality({}) = 0 /\ Cardinality(Requests) \in Nat
    BY FS_EmptySet, FS_CardinalityType, AuthAssumption DEF AuthAssumption
  <2>3. Cardinality(Load(i, {})) + Cardinality(Selecting(i)) <= Bound(faults, Cardinality({}) + 1)
    BY DEF LoadInv
  <2>4. Bound(faults, 0 + 1) = Cardinality(Requests) + faults * (Cardinality(Requests) - 1)
    BY <2>2 DEF Bound
  <2> QED
    BY <2>1, <2>2, <2>3, <2>4
<1> QED
  BY <1>1, <1>2, <1>3, Induction, PTL DEF Spec

-----------------------------------------------------------------------------
(***************************************************************************)
(* The refinement.                                                         *)
(***************************************************************************)

\* Registration keeps the promise of AccountBook: an e-mail is opened once.
THEOREM KeepsTheBook == Spec => BookSpec
<1> DEFINE book == {<<x.email, x.password>> : x \in users}
<1>1. Init => Book!Init
  BY DEF Init, Book!Init
<1>2. TypeOK /\ InductiveInv /\ [Next]_vars => [Book!Next]_<<book, answered>>
  <2> SUFFICES ASSUME TypeOK, InductiveInv, [Next]_vars PROVE [Book!Next]_<<book, answered>>
    OBVIOUS
  <2>1. ASSUME NEW r \in Requests, AddUser(r),
               answered' \in {answered, answered \cup {<<request[r].email, request[r].password>>}}
        PROVE  Book!Next
    <3>1. PICK x \in UserRows :
            /\ x = [id |-> Cardinality(users) + 1, email |-> request[r].email,
                    password |-> request[r].password]
            /\ users' = users \cup {x}
      BY <2>1, NewRow
    <3>2. x.email \in Emails /\ x.password \in Strong
      BY DEF UserRows
    <3>3. UsersWith(x.email) = {}
      BY <2>1, <3>1 DEF AddUser, InductiveInv, Inserting
    <3>4. ~Book!Taken(x.email)
      BY <3>3 DEF Book!Taken, UsersWith
    <3>5. book' = book \cup {<<x.email, x.password>>}
      BY <3>1
    <3>6. Book!Open(x.email, x.password)
      BY <2>1, <3>1, <3>4, <3>5 DEF Book!Open
    <3> QED
      BY <3>2, <3>6 DEF Book!Next
  <2>2. ASSUME NEW r \in Requests, Client(r) PROVE [Book!Next]_<<book, answered>>
    <3>1. CASE CommitUser(r) \/ CommitUserLost(r)
      BY <2>1, <3>1 DEF CommitUser, CommitUserLost
    <3>2. CASE UNCHANGED <<users, answered>>
      BY <3>2
    <3>3. CommitUser(r) \/ CommitUserLost(r) \/ UNCHANGED <<users, answered>>
      BY <2>2 DEF Client, Register, Login, InsertUser, SelectSessions, CommitSession, RequestFails
    <3> QED
      BY <3>1, <3>2, <3>3
  <2>3. CASE UNCHANGED vars
    BY <2>3 DEF vars
  <2> QED
    BY <2>2, <2>3 DEF Next
<1> QED
  BY <1>1, <1>2, Induction, PTL DEF Spec, BookSpec, Book!Spec

=============================================================================
