----------------------------- MODULE AccountBook -----------------------------
(***************************************************************************)
(* What registration promises (auth_service.py register_user): an e-mail   *)
(* gets one account, with the password it was first registered with, for   *)
(* good; an answer 200 names that account and is given once.               *)
(***************************************************************************)
CONSTANTS
    Emails,         \* normalised addresses
    Passwords

VARIABLES
    book,           \* pairs of an e-mail and the password of its account
    answered        \* pairs that were answered with 200

Taken(e) == \E p \in Passwords : <<e, p>> \in book

Init == book = {} /\ answered = {}

\* A registration succeeds; its answer may be lost, or be an error all the same.
Open(e, p) ==
    /\ ~Taken(e)
    /\ book' = book \cup {<<e, p>>}
    /\ answered' \in {answered, answered \cup {<<e, p>>}}

Next == \E e \in Emails, p \in Passwords : Open(e, p)

Spec == Init /\ [][Next]_<<book, answered>>

=============================================================================
