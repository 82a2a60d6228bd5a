--------------------------- MODULE EmailRegistry ---------------------------
(***************************************************************************)
(* What plugins/emailstore.js promises: an address belongs to the secret   *)
(* it was registered with, and holds under each key the last record that   *)
(* was stored with this secret.                                            *)
(***************************************************************************)
CONSTANTS
  Email, Key, Secret,
  Post, Get,                 \* the requests to register and to retrieve
  EmailOf, KeyOf, SecretOf,  \* what a request says
  NoSecret, NoPost

VARIABLES
  owner,   \* map-email-<email> => secret
  record,  \* credentials-store-<email>#<key> => record, named after the request that sent it
  told,    \* the registrations that were told of success
  got      \* what a retrieval was sent

registry == <<owner, record, told, got>>

Place(r) == <<EmailOf[r], KeyOf[r]>>
Owns(r) == owner[EmailOf[r]] = SecretOf[r]

Init ==
  /\ owner = [e \in Email |-> NoSecret]
  /\ record = [p \in Email \X Key |-> NoPost]
  /\ told = {}
  /\ got = [g \in Get |-> NoPost]

Claim(p) ==
  /\ owner[EmailOf[p]] = NoSecret
  /\ owner' = [owner EXCEPT ![EmailOf[p]] = SecretOf[p]]
  /\ UNCHANGED <<record, told, got>>

Deposit(p) ==
  /\ Owns(p)
  /\ record' = [record EXCEPT ![Place(p)] = p]
  /\ UNCHANGED <<owner, told, got>>

Acknowledge(p) ==
  /\ Owns(p) /\ record[Place(p)] # NoPost
  /\ told' = told \cup {p}
  /\ UNCHANGED <<owner, record, got>>

Retrieve(g) ==
  /\ Owns(g) /\ record[Place(g)] # NoPost
  /\ got' = [got EXCEPT ![g] = record[Place(g)]]
  /\ UNCHANGED <<owner, record, told>>

Next ==
  \/ \E p \in Post : Claim(p) \/ Deposit(p) \/ Acknowledge(p)
  \/ \E g \in Get : Retrieve(g)

Spec == Init /\ [][Next]_registry
============================================================================
