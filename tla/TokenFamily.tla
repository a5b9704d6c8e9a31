----------------------------- MODULE TokenFamily -----------------------------
(* What a session family promises, without statements, transactions or       *)
(* requests: a family is opened once for one holder, has at most one token    *)
(* that is worth anything, and a token that was spent or closed never is      *)
(* again.  Sessions implements this specification (Sessions!Abstract).        *)

CONSTANTS
    Family,     \* session families, one per login
    Token,      \* refresh tokens
    Holder,     \* whom a family is opened for: user, account, second factor
    NoToken,
    NoHolder

VARIABLES
    current,    \* the token of each family that can still be exchanged
    spent,      \* tokens that were exchanged or revoked
    holder      \* whom each family was opened for

vars == <<current, spent, holder>>

Fresh(t) == t \notin spent /\ \A f \in Family : current[f] # t

Init ==
    /\ current = [f \in Family |-> NoToken]
    /\ spent = {}
    /\ holder = [f \in Family |-> NoHolder]

Open(f, t, h) ==
    /\ holder[f] = NoHolder
    /\ Fresh(t)
    /\ holder' = [holder EXCEPT ![f] = h]
    /\ current' = [current EXCEPT ![f] = t]
    /\ UNCHANGED spent

Rotate(f, t) ==
    /\ current[f] # NoToken
    /\ Fresh(t)
    /\ spent' = spent \cup {current[f]}
    /\ current' = [current EXCEPT ![f] = t]
    /\ UNCHANGED holder

Close(F) ==
    /\ \A f \in F : current[f] # NoToken
    /\ spent' = spent \cup {current[f] : f \in F}
    /\ current' = [f \in Family |-> IF f \in F THEN NoToken ELSE current[f]]
    /\ UNCHANGED holder

Next ==
    \/ \E f \in Family, t \in Token, h \in Holder : Open(f, t, h)
    \/ \E f \in Family, t \in Token : Rotate(f, t)
    \/ \E F \in SUBSET Family : Close(F)

Spec == Init /\ [][Next]_vars
=============================================================================
