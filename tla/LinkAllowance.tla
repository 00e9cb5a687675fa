--------------------------- MODULE LinkAllowance ---------------------------
(***************************************************************************)
(* What a public link promises its owner: it opens once, with a limit that *)
(* does not change, is used while it is open and within the limit, and     *)
(* once closed stays closed.  A limit of 0 is none.                        *)
(***************************************************************************)
EXTENDS Naturals

CONSTANTS Links,
          MaxDownloads  \* the largest limit an owner sets

VARIABLES state,  \* per link, "none", "open" or "closed"
          limit,
          uses

vars == <<state, limit, uses>>

Init ==
  /\ state = [l \in Links |-> "none"]
  /\ limit = [l \in Links |-> 0]
  /\ uses = [l \in Links |-> 0]

Open(l, n) ==
  /\ state[l] = "none"
  /\ state' = [state EXCEPT ![l] = "open"]
  /\ limit' = [limit EXCEPT ![l] = n]
  /\ UNCHANGED uses

\* The last use that the limit allows closes the link.
Use(l) ==
  /\ state[l] = "open"
  /\ limit[l] > 0 => uses[l] < limit[l]
  /\ uses' = [uses EXCEPT ![l] = @ + 1]
  /\ state' = [state EXCEPT ![l] = IF limit[l] > 0 /\ uses[l] + 1 >= limit[l] THEN "closed" ELSE @]
  /\ UNCHANGED limit

\* A revocation closes one link, or all that are open, as the
\* deletion of the file does.
Close(S) ==
  /\ \A l \in S : state[l] = "open"
  /\ state' = [l \in Links |-> IF l \in S THEN "closed" ELSE state[l]]
  /\ UNCHANGED <<limit, uses>>

Next ==
  \/ \E l \in Links : Use(l) \/ \E n \in 0..MaxDownloads : Open(l, n)
  \/ \E S \in SUBSET Links : Close(S)

Spec == Init /\ [][Next]_vars
=============================================================================
