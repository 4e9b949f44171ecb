------------------------------ MODULE MCFiles ------------------------------
\* A small instance of Files for TLC.
EXTENDS Files, TLC

CONSTANTS ann, bob, eve, l1, l2, p1, c1, c2

\* Ann is there with a password; Bob registers as she did, Eve with Bob's email.
Kinds == (ann :> "v2") @@ (bob :> "v2") @@ (eve :> "seed")
Emails == (ann :> "a") @@ (bob :> "b") @@ (eve :> "b")
EmailsOfLogins == (l1 :> "a") @@ (l2 :> "b")

\* Ann uploads a file; she and Bob both say it is complete.
Tokens == (p1 :> l1) @@ (c1 :> l1) @@ (c2 :> l2)
Named == [c \in {c1, c2} |-> p1]
=============================================================================
