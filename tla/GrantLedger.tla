----------------------------- MODULE GrantLedger -----------------------------
(***************************************************************************)
(* What the policy cache promises, without its tombstones: for each        *)
(* consumer, the grant it stands on, decided by the last message that      *)
(* concerned it, and the set of revoked tokens, which only grows.          *)
(***************************************************************************)
EXTENDS PolicyMessages

VARIABLES
  standing,   \* for each consumer: is it entitled, and by which grant id
  burned      \* revoked tokens

ledgerVars == <<standing, burned>>

NotEntitled == [ok |-> FALSE, id |-> Nil]
Entitled(id) == [ok |-> TRUE, id |-> id]

Init ==
  /\ standing = [c \in Consumers |-> NotEntitled]
  /\ burned = {}

\* The last grant decides: an active one for this service that covers the scope
\* entitles its consumer; any other one ends what the consumer had.
Grant(m) ==
  /\ m.service = ServiceName
  /\ standing' = [standing EXCEPT ![m.consumer] =
       IF m.status = "active" /\ Covers(m.scopes) THEN Entitled(m.id) ELSE NotEntitled]
  /\ UNCHANGED burned

\* A revocation ends the standing of the consumer it names and of the holder of
\* the grant it names; it never gives standing to anyone.
Revoke(m) ==
  /\ burned' = burned \cup ({m.jti} \ {Nil})
  /\ standing' = [c \in Consumers |->
       IF c = m.consumer \/ (m.id # Nil /\ standing[c].id = m.id)
       THEN NotEntitled ELSE standing[c]]

\* The process restarts and waits for the retained messages.
Forget ==
  /\ standing' = [c \in Consumers |-> NotEntitled]
  /\ burned' = {}

Next ==
  \/ \E m \in GrantMessages : Grant(m)
  \/ \E m \in RevocationMessages : Revoke(m)
  \/ Forget

Spec == Init /\ [][Next]_ledgerVars
=============================================================================
