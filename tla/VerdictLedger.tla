---------------------------- MODULE VerdictLedger ----------------------------
(***************************************************************************)
(* What the review service promises about verdicts, without its store, its *)
(* hook or its locks.  An entry is one prepared review.  It opens at most  *)
(* once, closes for good, may be decided once while it is open, and a      *)
(* client is only ever told the decision the ledger holds.                 *)
(***************************************************************************)
CONSTANTS
  Clients,
  Verdicts,
  Nothing     \* what a client has been told that holds no answer

VARIABLES
  seen,    \* entries that opened, or never will
  open,    \* entries that can be decided now
  ledger,  \* the decisions: a function whose domain is the decided entries
  told     \* the answer each client holds

vars == <<seen, open, ledger, told>>

Answer(e, v) == [entry |-> e, verdict |-> v]

Init ==
  /\ seen = {}
  /\ open = {}
  /\ ledger = [e \in {} |-> Nothing]
  /\ told = [c \in Clients |-> Nothing]

\* A new entry opens, or is dropped unopened; others may have to go for it.
Settle ==
  /\ \E e \in seen' \ seen :
       /\ seen' = seen \cup {e}
       /\ open' \subseteq open \cup {e}
  /\ UNCHANGED <<ledger, told>>

Leave ==
  /\ open' \subseteq open
  /\ UNCHANGED <<seen, ledger, told>>

Decide(c, e, v) ==
  /\ told[c] = Nothing
  /\ e \in open
  /\ e \notin DOMAIN ledger
  /\ ledger' = [x \in DOMAIN ledger \cup {e} |-> IF x = e THEN v ELSE ledger[x]]
  /\ told' = [told EXCEPT ![c] = Answer(e, v)]
  /\ open' \subseteq open
  /\ e \in open'
  /\ UNCHANGED seen

Repeat(c, e) ==
  /\ told[c] = Nothing
  /\ e \in DOMAIN ledger
  /\ told' = [told EXCEPT ![c] = Answer(e, ledger[e])]
  /\ UNCHANGED <<seen, open, ledger>>

Forget(c) ==
  /\ told' = [told EXCEPT ![c] = Nothing]
  /\ UNCHANGED <<seen, open, ledger>>

Next ==
  \/ Leave
  \/ Settle
  \/ \E c \in Clients : Forget(c)
  \/ \E c \in Clients, e \in DOMAIN ledger : Repeat(c, e)
  \/ \E c \in Clients, e \in open, v \in Verdicts : Decide(c, e, v)

Spec == Init /\ [][Next]_vars
=============================================================================
