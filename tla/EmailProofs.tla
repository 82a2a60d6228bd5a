---------------------------- MODULE EmailProofs ----------------------------
(***************************************************************************)
(* Proofs about plugins/emailstore.js for any addresses, keys, secrets and *)
(* requests, any interleaving of their calls, failures of the database and *)
(* of the mail, and restarts.  That it keeps its registry is proved under  *)
(* the condition that a free address is not registered with two secrets at *)
(* once; without it it does not.                                           *)
(***************************************************************************)
EXTENDS EmailStore, TLAPS

(* What the refinement maps to told and got of the registry. *)
Told == Successful(Post)
Got == [g \in Get |-> IF g \in Successful(Get) THEN seen[g] ELSE NoPost]

----------------------------------------------------------------------------
(* The inductive invariants. *)

(* Who is at work on a free address agrees on its secret ... *)
Agreement ==
  /\ \A p, q \in Post :
       /\ at[p] \in Registering /\ at[q] \in Registering
       /\ EmailOf[p] = EmailOf[q] /\ owner[EmailOf[p]] = NoSecret
       => SecretOf[p] = SecretOf[q]
  /\ \A p \in Post :
       at[p] = "savePassphrase" => owner[EmailOf[p]] \in {NoSecret, SecretOf[p]}

(* ... who got past the check has the secret, and it stays the right one ... *)
Checked == {"saveData", "getCode", "putCode", "mailCode", "getRecord"}
Ownership ==
  /\ \A r \in Post \cup Get : at[r] \in Checked => owner[EmailOf[r]] = SecretOf[r]
  /\ \A p \in Post :
       at[p] \in {"getCode", "putCode", "mailCode"} \/ answer[p] = "ok" =>
         owner[EmailOf[p]] = SecretOf[p] /\ record[Place(p)] # NoPost

(* ... and an answer is the last that is heard of a request. *)
AnswersFinal == \A r \in Request : answer[r] # "none" => at[r] = "done"

RegistryInv == EmailTypeOK /\ Agreement /\ Ownership /\ AnswersFinal

(* A code in the database is that of a mail to its address, unless the process *)
(* ended before the mail was handed over.                                      *)
CodesMailed ==
  /\ \A e \in Email :
       code[e] # NoPost =>
         /\ EmailOf[code[e]] = e
         /\ mail[code[e]] # "none" \/ at[code[e]] \in {"mailCode", "lost"}
  /\ \A p \in Post : at[p] = "mailCode" \/ answer[p] = "ok" => code[EmailOf[p]] # NoPost
  /\ \A p \in Post : mail[p] # "none" => at[p] = "done"

(* A validation brings the code of a mail, and goes on with that of its address. *)
CodesArrived ==
  \A v \in Validate :
    at[v] \in {"verify", "confirm"} =>
      /\ seen[v] \in Post /\ mail[seen[v]] = "sent"
      /\ at[v] = "confirm" => EmailOf[seen[v]] = EmailOf[v]

MailInv == EmailTypeOK /\ CodesMailed /\ CodesArrived /\ ValidatedByMail

----------------------------------------------------------------------------
(* Types. *)

LEMMA TypeStep ==
  EmailTypeOK /\ [EmailNext]_emailVars => EmailTypeOK'
<1> SUFFICES ASSUME EmailTypeOK, [EmailNext]_emailVars PROVE EmailTypeOK'
  OBVIOUS
<1> USE EmailAssumption DEF EmailTypeOK, Request, Goes, Answered, store,
  Place, Calls, Underway, Steps, Answers, Fates
<1>1. ASSUME NEW p \in Post, SendPost(p) PROVE EmailTypeOK'
  BY <1>1 DEF SendPost
<1>2. ASSUME NEW g \in Get, SendGet(g) PROVE EmailTypeOK'
  BY <1>2 DEF SendGet
<1>3. ASSUME NEW v \in Validate, SendValidate(v) PROVE EmailTypeOK'
  BY <1>3 DEF SendValidate
<1>4. ASSUME NEW p \in Post, Exists(p) PROVE EmailTypeOK'
  BY <1>4 DEF Exists
<1>5. ASSUME NEW r \in Post \cup Get, CheckPassphrase(r) PROVE EmailTypeOK'
  BY <1>5 DEF CheckPassphrase
<1>6. ASSUME NEW p \in Post, SavePassphrase(p) PROVE EmailTypeOK'
  BY <1>6 DEF SavePassphrase
<1>7. ASSUME NEW p \in Post, SaveEncryptedData(p) PROVE EmailTypeOK'
  BY <1>7 DEF SaveEncryptedData
<1>8. ASSUME NEW p \in Post, GetCode(p) PROVE EmailTypeOK'
  BY <1>8 DEF GetCode
<1>9. ASSUME NEW p \in Post, PutCode(p) PROVE EmailTypeOK'
  BY <1>9 DEF PutCode
<1>10. ASSUME NEW p \in Post, MailCode(p) PROVE EmailTypeOK'
  BY <1>10 DEF MailCode
<1>11. ASSUME NEW p \in Post, SendMail(p) PROVE EmailTypeOK'
  BY <1>11 DEF SendMail
<1>12. ASSUME NEW p \in Post, MailFails(p) PROVE EmailTypeOK'
  BY <1>12 DEF MailFails
<1>13. ASSUME NEW g \in Get, RetrieveByEmailAndKey(g) PROVE EmailTypeOK'
  BY <1>13 DEF RetrieveByEmailAndKey
<1>14. ASSUME NEW v \in Validate, Verify(v) PROVE EmailTypeOK'
  <2>1. CASE code[EmailOf[v]] = NoPost /\ Answered(v, "notFound")
    BY <1>14, <2>1 DEF Verify
  <2>2. CASE Answered(v, "invalid")
    BY <1>14, <2>2 DEF Verify
  <2>3. CASE Goes(v, "confirm")
    BY <1>14, <2>3 DEF Verify
  <2> QED BY <1>14, <2>1, <2>2, <2>3 DEF Verify
<1>15. ASSUME NEW v \in Validate, Confirm(v) PROVE EmailTypeOK'
  BY <1>15 DEF Confirm
<1>16. ASSUME NEW r \in Request, DbFails(r) PROVE EmailTypeOK'
  BY <1>16 DEF DbFails
<1>17. CASE EmailRestarts
  BY <1>17 DEF EmailRestarts
<1>18. CASE UNCHANGED emailVars
  BY <1>18 DEF emailVars
<1> QED
  BY <1>1, <1>2, <1>3, <1>4, <1>5, <1>6, <1>7, <1>8, <1>9, <1>10, <1>11, <1>12,
    <1>13, <1>14, <1>15, <1>16, <1>17, <1>18
  DEF EmailNext, EmailStep, Handle, Arrive, Request

LEMMA TypeInit == EmailInit => EmailTypeOK
BY DEF EmailInit, EmailTypeOK, Steps, Answers, Fates

(* Every variable of the e-mail store keeps its type. *)
THEOREM EmailTypeCorrect == EmailSpec => []EmailTypeOK
BY TypeInit, TypeStep, PTL DEF EmailSpec

----------------------------------------------------------------------------
(* The registry. *)

LEMMA AgreementStep ==
  RegistryInv /\ ~Overlap /\ [EmailNext]_emailVars => Agreement'
<1> SUFFICES ASSUME RegistryInv /\ ~Overlap, [EmailNext]_emailVars PROVE Agreement'
  OBVIOUS
<1> USE EmailAssumption DEF Agreement, RegistryInv, EmailTypeOK, Request,
  Registering, Goes, Answered, store, Calls, Underway
<1>1. ASSUME NEW p \in Post, SendPost(p) PROVE Agreement'
  BY <1>1 DEF SendPost, Undisputed
<1>2. ASSUME NEW g \in Get, SendGet(g) PROVE Agreement'
  BY <1>2 DEF SendGet
<1>3. ASSUME NEW v \in Validate, SendValidate(v) PROVE Agreement'
  BY <1>3 DEF SendValidate
<1>4. ASSUME NEW p \in Post, Exists(p) PROVE Agreement'
  BY <1>4 DEF Exists
<1>5. ASSUME NEW r \in Post \cup Get, CheckPassphrase(r) PROVE Agreement'
  BY <1>5 DEF CheckPassphrase
<1>6. ASSUME NEW p \in Post, SavePassphrase(p) PROVE Agreement'
  BY <1>6 DEF SavePassphrase
<1>7. ASSUME NEW p \in Post, SaveEncryptedData(p) PROVE Agreement'
  BY <1>7 DEF SaveEncryptedData
<1>8. ASSUME NEW p \in Post, GetCode(p) PROVE Agreement'
  BY <1>8 DEF GetCode
<1>9. ASSUME NEW p \in Post, PutCode(p) PROVE Agreement'
  BY <1>9 DEF PutCode
<1>10. ASSUME NEW p \in Post, MailCode(p) PROVE Agreement'
  BY <1>10 DEF MailCode
<1>11. ASSUME NEW p \in Post, SendMail(p) PROVE Agreement'
  BY <1>11 DEF SendMail
<1>12. ASSUME NEW p \in Post, MailFails(p) PROVE Agreement'
  BY <1>12 DEF MailFails
<1>13. ASSUME NEW g \in Get, RetrieveByEmailAndKey(g) PROVE Agreement'
  BY <1>13 DEF RetrieveByEmailAndKey
<1>14. ASSUME NEW v \in Validate, Verify(v) PROVE Agreement'
  BY <1>14 DEF Verify
<1>15. ASSUME NEW v \in Validate, Confirm(v) PROVE Agreement'
  BY <1>15 DEF Confirm
<1>16. ASSUME NEW r \in Request, DbFails(r) PROVE Agreement'
  BY <1>16 DEF DbFails
<1>17. CASE EmailRestarts
  BY <1>17 DEF EmailRestarts
<1>18. CASE UNCHANGED emailVars
  BY <1>18 DEF emailVars
<1> QED
  BY <1>1, <1>2, <1>3, <1>4, <1>5, <1>6, <1>7, <1>8, <1>9, <1>10, <1>11, <1>12,
    <1>13, <1>14, <1>15, <1>16, <1>17, <1>18
  DEF EmailNext, EmailStep, Handle, Arrive, Request

LEMMA OwnershipStep ==
  RegistryInv /\ [EmailNext]_emailVars => Ownership'
<1> SUFFICES ASSUME RegistryInv, [EmailNext]_emailVars PROVE Ownership'
  OBVIOUS
<1> USE EmailAssumption DEF Ownership, Agreement, AnswersFinal, RegistryInv,
  EmailTypeOK, Request, Checked, Goes, Answered, store, Place, Calls, Underway
<1>1. ASSUME NEW p \in Post, SendPost(p) PROVE Ownership'
  BY <1>1 DEF SendPost
<1>2. ASSUME NEW g \in Get, SendGet(g) PROVE Ownership'
  BY <1>2 DEF SendGet
<1>3. ASSUME NEW v \in Validate, SendValidate(v) PROVE Ownership'
  BY <1>3 DEF SendValidate
<1>4. ASSUME NEW p \in Post, Exists(p) PROVE Ownership'
  BY <1>4 DEF Exists
<1>5. ASSUME NEW r \in Post \cup Get, CheckPassphrase(r) PROVE Ownership'
  BY <1>5 DEF CheckPassphrase
<1>6. ASSUME NEW p \in Post, SavePassphrase(p) PROVE Ownership'
  BY <1>6 DEF SavePassphrase
<1>7. ASSUME NEW p \in Post, SaveEncryptedData(p) PROVE Ownership'
  BY <1>7 DEF SaveEncryptedData
<1>8. ASSUME NEW p \in Post, GetCode(p) PROVE Ownership'
  BY <1>8 DEF GetCode
<1>9. ASSUME NEW p \in Post, PutCode(p) PROVE Ownership'
  BY <1>9 DEF PutCode
<1>10. ASSUME NEW p \in Post, MailCode(p) PROVE Ownership'
  BY <1>10 DEF MailCode
<1>11. ASSUME NEW p \in Post, SendMail(p) PROVE Ownership'
  BY <1>11 DEF SendMail
<1>12. ASSUME NEW p \in Post, MailFails(p) PROVE Ownership'
  BY <1>12 DEF MailFails
<1>13. ASSUME NEW g \in Get, RetrieveByEmailAndKey(g) PROVE Ownership'
  BY <1>13 DEF RetrieveByEmailAndKey
<1>14. ASSUME NEW v \in Validate, Verify(v) PROVE Ownership'
  BY <1>14 DEF Verify
<1>15. ASSUME NEW v \in Validate, Confirm(v) PROVE Ownership'
  BY <1>15 DEF Confirm
<1>16. ASSUME NEW r \in Request, DbFails(r) PROVE Ownership'
  BY <1>16 DEF DbFails
<1>17. CASE EmailRestarts
  BY <1>17 DEF EmailRestarts
<1>18. CASE UNCHANGED emailVars
  BY <1>18 DEF emailVars
<1> QED
  BY <1>1, <1>2, <1>3, <1>4, <1>5, <1>6, <1>7, <1>8, <1>9, <1>10, <1>11, <1>12,
    <1>13, <1>14, <1>15, <1>16, <1>17, <1>18
  DEF EmailNext, EmailStep, Handle, Arrive, Request

LEMMA FinalStep ==
  RegistryInv /\ [EmailNext]_emailVars => AnswersFinal'
<1> SUFFICES ASSUME RegistryInv, [EmailNext]_emailVars PROVE AnswersFinal'
  OBVIOUS
<1> USE EmailAssumption DEF AnswersFinal, RegistryInv, EmailTypeOK, Request,
  Goes, Answered, Calls, Underway
<1>1. ASSUME NEW p \in Post, SendPost(p) PROVE AnswersFinal'
  BY <1>1 DEF SendPost
<1>2. ASSUME NEW g \in Get, SendGet(g) PROVE AnswersFinal'
  BY <1>2 DEF SendGet
<1>3. ASSUME NEW v \in Validate, SendValidate(v) PROVE AnswersFinal'
  BY <1>3 DEF SendValidate
<1>4. ASSUME NEW p \in Post, Exists(p) PROVE AnswersFinal'
  BY <1>4 DEF Exists
<1>5. ASSUME NEW r \in Post \cup Get, CheckPassphrase(r) PROVE AnswersFinal'
  BY <1>5 DEF CheckPassphrase
<1>6. ASSUME NEW p \in Post, SavePassphrase(p) PROVE AnswersFinal'
  BY <1>6 DEF SavePassphrase
<1>7. ASSUME NEW p \in Post, SaveEncryptedData(p) PROVE AnswersFinal'
  BY <1>7 DEF SaveEncryptedData
<1>8. ASSUME NEW p \in Post, GetCode(p) PROVE AnswersFinal'
  BY <1>8 DEF GetCode
<1>9. ASSUME NEW p \in Post, PutCode(p) PROVE AnswersFinal'
  BY <1>9 DEF PutCode
<1>10. ASSUME NEW p \in Post, MailCode(p) PROVE AnswersFinal'
  BY <1>10 DEF MailCode
<1>11. ASSUME NEW p \in Post, SendMail(p) PROVE AnswersFinal'
  BY <1>11 DEF SendMail
<1>12. ASSUME NEW p \in Post, MailFails(p) PROVE AnswersFinal'
  BY <1>12 DEF MailFails
<1>13. ASSUME NEW g \in Get, RetrieveByEmailAndKey(g) PROVE AnswersFinal'
  BY <1>13 DEF RetrieveByEmailAndKey
<1>14. ASSUME NEW v \in Validate, Verify(v) PROVE AnswersFinal'
  BY <1>14 DEF Verify
<1>15. ASSUME NEW v \in Validate, Confirm(v) PROVE AnswersFinal'
  BY <1>15 DEF Confirm
<1>16. ASSUME NEW r \in Request, DbFails(r) PROVE AnswersFinal'
  BY <1>16 DEF DbFails
<1>17. CASE EmailRestarts
  BY <1>17 DEF EmailRestarts
<1>18. CASE UNCHANGED emailVars
  BY <1>18 DEF emailVars
<1> QED
  BY <1>1, <1>2, <1>3, <1>4, <1>5, <1>6, <1>7, <1>8, <1>9, <1>10, <1>11, <1>12,
    <1>13, <1>14, <1>15, <1>16, <1>17, <1>18
  DEF EmailNext, EmailStep, Handle, Arrive, Request

LEMMA RegistryInit == EmailInit => RegistryInv
BY TypeInit, EmailAssumption
DEF EmailInit, RegistryInv, Agreement, Ownership, AnswersFinal, Registering, Checked, Request

LEMMA RegistryHolds ==
  ASSUME ~Overlap
  PROVE  EmailSpec => []RegistryInv
<1>1. RegistryInv /\ [EmailNext]_emailVars => RegistryInv'
  BY TypeStep, AgreementStep, OwnershipStep, FinalStep DEF RegistryInv
<1> QED BY <1>1, RegistryInit, PTL DEF EmailSpec

(* What an answer changes of the registry: nothing, a success that was told *)
(* or a record that was sent.                                              *)
LEMMA NoSuccess ==
  ASSUME RegistryInv, NEW r \in Request, NEW what \in Answers \ {"ok"},
         at[r] \in Calls, Answered(r, what), UNCHANGED seen
  PROVE  UNCHANGED <<Told, Got>>
<1>1. \A q \in Request : answer'[q] = "ok" <=> answer[q] = "ok"
  BY EmailAssumption DEF RegistryInv, EmailTypeOK, AnswersFinal, Answered, Calls
<1> QED BY <1>1 DEF Told, Got, Successful, Request

LEMMA ToldSuccess ==
  ASSUME RegistryInv, NEW p \in Post, Answered(p, "ok"), UNCHANGED seen
  PROVE  Told' = Told \cup {p} /\ Got' = Got
<1>1. \A q \in Request : answer'[q] = "ok" <=> answer[q] = "ok" \/ q = p
  BY EmailAssumption DEF RegistryInv, EmailTypeOK, Answered, Request
<1>2. \A q \in Get : q # p
  BY EmailAssumption
<1> QED BY <1>1, <1>2 DEF Told, Got, Successful, Request

LEMMA SentRecord ==
  ASSUME RegistryInv, NEW g \in Get, Answered(g, "ok"),
         seen' = [seen EXCEPT ![g] = record[Place(g)]]
  PROVE  Told' = Told /\ Got' = [Got EXCEPT ![g] = record[Place(g)]]
<1>1. \A q \in Request : answer'[q] = "ok" <=> answer[q] = "ok" \/ q = g
  BY EmailAssumption DEF RegistryInv, EmailTypeOK, Answered, Request
<1>2. \A q \in Post : q # g
  BY EmailAssumption
<1>3. \A q \in Get : seen'[q] = IF q = g THEN record[Place(g)] ELSE seen[q]
  BY EmailAssumption DEF RegistryInv, EmailTypeOK, Request
<1> QED BY <1>1, <1>2, <1>3 DEF Told, Got, Successful, Request

(* Each call is a step of the registry, or none. *)
LEMMA RegistryStep ==
  RegistryInv /\ [EmailNext]_emailVars => [Registry!Next]_(Registry!registry)
<1> SUFFICES ASSUME RegistryInv, [EmailNext]_emailVars PROVE [Registry!Next]_(Registry!registry)
  OBVIOUS
<1> USE EmailAssumption DEF Told, Got, Successful, store, Registry!registry
<1>1. ASSUME NEW p \in Post, SendPost(p) PROVE [Registry!Next]_(Registry!registry)
  BY <1>1 DEF SendPost, Goes, store
<1>2. ASSUME NEW g \in Get, SendGet(g) PROVE [Registry!Next]_(Registry!registry)
  BY <1>2 DEF SendGet, Goes, store
<1>3. ASSUME NEW v \in Validate, SendValidate(v) PROVE [Registry!Next]_(Registry!registry)
  <2>1. \A g \in Get : seen'[g] = seen[g]
    BY <1>3, EmailAssumption DEF SendValidate, RegistryInv, EmailTypeOK, Request
  <2> QED BY <1>3, <2>1 DEF SendValidate, Goes, store
<1>4. ASSUME NEW p \in Post, Exists(p) PROVE [Registry!Next]_(Registry!registry)
  BY <1>4 DEF Exists, Goes, store
<1>5. ASSUME NEW r \in Post \cup Get, CheckPassphrase(r) PROVE [Registry!Next]_(Registry!registry)
  <2>1. CASE \E step \in Steps : Goes(r, step)
    BY <1>5, <2>1 DEF CheckPassphrase, Goes
  <2>2. CASE \E what \in Answers \ {"ok"} : Answered(r, what)
    BY <1>5, <2>2, NoSuccess DEF CheckPassphrase, Calls, Request
  <2> QED BY <1>5, <2>1, <2>2 DEF CheckPassphrase, Steps, Underway, Calls, Answers
<1>6. ASSUME NEW p \in Post, SavePassphrase(p) PROVE [Registry!Next]_(Registry!registry)
  <2>1. EmailOf[p] \in Email /\ UNCHANGED <<Told, Got>>
    BY <1>6, EmailAssumption DEF SavePassphrase, Goes, Request, Told, Got, Successful
  <2>2. CASE owner[EmailOf[p]] = NoSecret
    BY <1>6, <2>1, <2>2 DEF SavePassphrase, Registry!Claim, Registry!Next
  <2>3. CASE owner[EmailOf[p]] = SecretOf[p]
    BY <1>6, <2>1, <2>3 DEF SavePassphrase, RegistryInv, EmailTypeOK
  <2> QED BY <1>6, <2>2, <2>3 DEF SavePassphrase, RegistryInv, Agreement
<1>7. ASSUME NEW p \in Post, SaveEncryptedData(p) PROVE [Registry!Next]_(Registry!registry)
  <2>1. Registry!Owns(p)
    BY <1>7 DEF SaveEncryptedData, RegistryInv, Ownership, Checked, Registry!Owns
  <2> QED BY <1>7, <2>1
          DEF SaveEncryptedData, Goes, Place, Registry!Place, Registry!Deposit, Registry!Next
<1>8. ASSUME NEW p \in Post, GetCode(p) PROVE [Registry!Next]_(Registry!registry)
  <2>1. CASE Goes(p, "putCode")
    BY <1>8, <2>1 DEF GetCode, Goes
  <2>2. CASE Answered(p, "ok")
    <3>1. Registry!Owns(p) /\ record[Place(p)] # NoPost
      BY <1>8 DEF GetCode, RegistryInv, Ownership, Registry!Owns
    <3>2. Registry!Acknowledge(p)
      BY <1>8, <2>2, <3>1, ToldSuccess DEF GetCode, store, Place, Registry!Place, Registry!Acknowledge
    <3> QED BY <3>2 DEF Registry!Next
  <2> QED BY <1>8, <2>1, <2>2 DEF GetCode
<1>9. ASSUME NEW p \in Post, PutCode(p) PROVE [Registry!Next]_(Registry!registry)
  BY <1>9 DEF PutCode, Goes
<1>10. ASSUME NEW p \in Post, MailCode(p) PROVE [Registry!Next]_(Registry!registry)
  <2>1. Registry!Owns(p) /\ record[Place(p)] # NoPost
    BY <1>10 DEF MailCode, RegistryInv, Ownership, Registry!Owns
  <2>2. Registry!Acknowledge(p)
    BY <1>10, <2>1, ToldSuccess DEF MailCode, store, Place, Registry!Place, Registry!Acknowledge
  <2> QED BY <2>2 DEF Registry!Next
<1>11. ASSUME NEW p \in Post, SendMail(p) PROVE [Registry!Next]_(Registry!registry)
  BY <1>11 DEF SendMail, Goes, store
<1>12. ASSUME NEW p \in Post, MailFails(p) PROVE [Registry!Next]_(Registry!registry)
  BY <1>12 DEF MailFails, Goes, store
<1>13. ASSUME NEW g \in Get, RetrieveByEmailAndKey(g) PROVE [Registry!Next]_(Registry!registry)
  <2>1. CASE record[Place(g)] = NoPost
    BY <1>13, <2>1, NoSuccess DEF RetrieveByEmailAndKey, Calls, Answers, Request
  <2>2. CASE record[Place(g)] # NoPost
    <3>1. Registry!Owns(g)
      BY <1>13 DEF RetrieveByEmailAndKey, RegistryInv, Ownership, Checked, Registry!Owns
    <3>2. Registry!Retrieve(g)
      BY <1>13, <2>2, <3>1, SentRecord
      DEF RetrieveByEmailAndKey, store, Place, Registry!Place, Registry!Retrieve
    <3> QED BY <3>2 DEF Registry!Next
  <2> QED BY <2>1, <2>2
<1>14. ASSUME NEW v \in Validate, Verify(v) PROVE [Registry!Next]_(Registry!registry)
  <2>1. CASE Goes(v, "confirm")
    BY <1>14, <2>1 DEF Verify, Goes
  <2>2. CASE \E what \in {"notFound", "invalid"} : Answered(v, what)
    BY <1>14, <2>2, NoSuccess DEF Verify, Calls, Answers, Request
  <2> QED BY <1>14, <2>1, <2>2 DEF Verify
<1>15. ASSUME NEW v \in Validate, Confirm(v) PROVE [Registry!Next]_(Registry!registry)
  <2>1. \A r \in Post \cup Get : answer'[r] = answer[r]
    BY <1>15, EmailAssumption DEF Confirm, Answered, RegistryInv, EmailTypeOK, Request
  <2> QED BY <1>15, <2>1 DEF Confirm
<1>16. ASSUME NEW r \in Request, DbFails(r) PROVE [Registry!Next]_(Registry!registry)
  BY <1>16, NoSuccess DEF DbFails, Answers
<1>17. CASE EmailRestarts
  BY <1>17 DEF EmailRestarts, store
<1>18. CASE UNCHANGED emailVars
  BY <1>18 DEF emailVars
<1> QED
  BY <1>1, <1>2, <1>3, <1>4, <1>5, <1>6, <1>7, <1>8, <1>9, <1>10, <1>11, <1>12,
    <1>13, <1>14, <1>15, <1>16, <1>17, <1>18
  DEF EmailNext, EmailStep, Handle, Arrive, Request

(* The e-mail store keeps its registry: an address keeps its secret, records *)
(* are stored and retrieved with it, and success means that they are there, *)
(* for any interleaving, failures and restarts.                            *)
THEOREM RegistryKept ==
  ASSUME ~Overlap
  PROVE  EmailSpec => KeepsRegistry
<1>1. EmailInit => Registry!Init
  BY DEF EmailInit, Registry!Init, Successful, Request
<1> QED BY <1>1, RegistryHolds, RegistryStep, PTL DEF EmailSpec, KeepsRegistry, Registry!Spec

----------------------------------------------------------------------------
(* The mails. *)

LEMMA CodesMailedStep ==
  MailInv /\ [EmailNext]_emailVars => CodesMailed'
<1> SUFFICES ASSUME MailInv, [EmailNext]_emailVars PROVE CodesMailed'
  OBVIOUS
<1> USE EmailAssumption DEF CodesMailed, MailInv, EmailTypeOK, Request, Goes,
  Answered, store, Calls, Underway
<1>1. ASSUME NEW p \in Post, SendPost(p) PROVE CodesMailed'
  BY <1>1 DEF SendPost
<1>2. ASSUME NEW g \in Get, SendGet(g) PROVE CodesMailed'
  BY <1>2 DEF SendGet
<1>3. ASSUME NEW v \in Validate, SendValidate(v) PROVE CodesMailed'
  BY <1>3 DEF SendValidate
<1>4. ASSUME NEW p \in Post, Exists(p) PROVE CodesMailed'
  BY <1>4 DEF Exists
<1>5. ASSUME NEW r \in Post \cup Get, CheckPassphrase(r) PROVE CodesMailed'
  BY <1>5 DEF CheckPassphrase
<1>6. ASSUME NEW p \in Post, SavePassphrase(p) PROVE CodesMailed'
  BY <1>6 DEF SavePassphrase
<1>7. ASSUME NEW p \in Post, SaveEncryptedData(p) PROVE CodesMailed'
  BY <1>7 DEF SaveEncryptedData
<1>8. ASSUME NEW p \in Post, GetCode(p) PROVE CodesMailed'
  BY <1>8 DEF GetCode
<1>9. ASSUME NEW p \in Post, PutCode(p) PROVE CodesMailed'
  BY <1>9 DEF PutCode
<1>10. ASSUME NEW p \in Post, MailCode(p) PROVE CodesMailed'
  BY <1>10 DEF MailCode
<1>11. ASSUME NEW p \in Post, SendMail(p) PROVE CodesMailed'
  BY <1>11 DEF SendMail
<1>12. ASSUME NEW p \in Post, MailFails(p) PROVE CodesMailed'
  BY <1>12 DEF MailFails
<1>13. ASSUME NEW g \in Get, RetrieveByEmailAndKey(g) PROVE CodesMailed'
  BY <1>13 DEF RetrieveByEmailAndKey
<1>14. ASSUME NEW v \in Validate, Verify(v) PROVE CodesMailed'
  BY <1>14 DEF Verify
<1>15. ASSUME NEW v \in Validate, Confirm(v) PROVE CodesMailed'
  BY <1>15 DEF Confirm
<1>16. ASSUME NEW r \in Request, DbFails(r) PROVE CodesMailed'
  BY <1>16 DEF DbFails
<1>17. CASE EmailRestarts
  BY <1>17 DEF EmailRestarts
<1>18. CASE UNCHANGED emailVars
  BY <1>18 DEF emailVars
<1> QED
  BY <1>1, <1>2, <1>3, <1>4, <1>5, <1>6, <1>7, <1>8, <1>9, <1>10, <1>11, <1>12,
    <1>13, <1>14, <1>15, <1>16, <1>17, <1>18
  DEF EmailNext, EmailStep, Handle, Arrive, Request

LEMMA CodesArrivedStep ==
  MailInv /\ [EmailNext]_emailVars => CodesArrived'
<1> SUFFICES ASSUME MailInv, [EmailNext]_emailVars PROVE CodesArrived'
  OBVIOUS
<1> USE EmailAssumption DEF CodesArrived, CodesMailed, MailInv, EmailTypeOK,
  Request, Goes, Answered, store, Calls, Underway
<1>1. ASSUME NEW p \in Post, SendPost(p) PROVE CodesArrived'
  BY <1>1 DEF SendPost
<1>2. ASSUME NEW g \in Get, SendGet(g) PROVE CodesArrived'
  BY <1>2 DEF SendGet
<1>3. ASSUME NEW v \in Validate, SendValidate(v) PROVE CodesArrived'
  BY <1>3 DEF SendValidate
<1>4. ASSUME NEW p \in Post, Exists(p) PROVE CodesArrived'
  BY <1>4 DEF Exists
<1>5. ASSUME NEW r \in Post \cup Get, CheckPassphrase(r) PROVE CodesArrived'
  BY <1>5 DEF CheckPassphrase
<1>6. ASSUME NEW p \in Post, SavePassphrase(p) PROVE CodesArrived'
  BY <1>6 DEF SavePassphrase
<1>7. ASSUME NEW p \in Post, SaveEncryptedData(p) PROVE CodesArrived'
  BY <1>7 DEF SaveEncryptedData
<1>8. ASSUME NEW p \in Post, GetCode(p) PROVE CodesArrived'
  BY <1>8 DEF GetCode
<1>9. ASSUME NEW p \in Post, PutCode(p) PROVE CodesArrived'
  BY <1>9 DEF PutCode
<1>10. ASSUME NEW p \in Post, MailCode(p) PROVE CodesArrived'
  BY <1>10 DEF MailCode
<1>11. ASSUME NEW p \in Post, SendMail(p) PROVE CodesArrived'
  BY <1>11 DEF SendMail
<1>12. ASSUME NEW p \in Post, MailFails(p) PROVE CodesArrived'
  BY <1>12 DEF MailFails
<1>13. ASSUME NEW g \in Get, RetrieveByEmailAndKey(g) PROVE CodesArrived'
  BY <1>13 DEF RetrieveByEmailAndKey
<1>14. ASSUME NEW v \in Validate, Verify(v) PROVE CodesArrived'
  BY <1>14 DEF Verify
<1>15. ASSUME NEW v \in Validate, Confirm(v) PROVE CodesArrived'
  BY <1>15 DEF Confirm
<1>16. ASSUME NEW r \in Request, DbFails(r) PROVE CodesArrived'
  BY <1>16 DEF DbFails
<1>17. CASE EmailRestarts
  BY <1>17 DEF EmailRestarts
<1>18. CASE UNCHANGED emailVars
  BY <1>18 DEF emailVars
<1> QED
  BY <1>1, <1>2, <1>3, <1>4, <1>5, <1>6, <1>7, <1>8, <1>9, <1>10, <1>11, <1>12,
    <1>13, <1>14, <1>15, <1>16, <1>17, <1>18
  DEF EmailNext, EmailStep, Handle, Arrive, Request

LEMMA ValidatedStep ==
  MailInv /\ [EmailNext]_emailVars => ValidatedByMail'
<1> SUFFICES ASSUME MailInv, [EmailNext]_emailVars PROVE ValidatedByMail'
  OBVIOUS
<1> USE EmailAssumption DEF ValidatedByMail, CodesMailed, CodesArrived,
  MailInv, EmailTypeOK, Request, Goes, Answered, store, Calls, Underway
<1>1. ASSUME NEW p \in Post, SendPost(p) PROVE ValidatedByMail'
  BY <1>1 DEF SendPost
<1>2. ASSUME NEW g \in Get, SendGet(g) PROVE ValidatedByMail'
  BY <1>2 DEF SendGet
<1>3. ASSUME NEW v \in Validate, SendValidate(v) PROVE ValidatedByMail'
  BY <1>3 DEF SendValidate
<1>4. ASSUME NEW p \in Post, Exists(p) PROVE ValidatedByMail'
  BY <1>4 DEF Exists
<1>5. ASSUME NEW r \in Post \cup Get, CheckPassphrase(r) PROVE ValidatedByMail'
  BY <1>5 DEF CheckPassphrase
<1>6. ASSUME NEW p \in Post, SavePassphrase(p) PROVE ValidatedByMail'
  BY <1>6 DEF SavePassphrase
<1>7. ASSUME NEW p \in Post, SaveEncryptedData(p) PROVE ValidatedByMail'
  BY <1>7 DEF SaveEncryptedData
<1>8. ASSUME NEW p \in Post, GetCode(p) PROVE ValidatedByMail'
  BY <1>8 DEF GetCode
<1>9. ASSUME NEW p \in Post, PutCode(p) PROVE ValidatedByMail'
  BY <1>9 DEF PutCode
<1>10. ASSUME NEW p \in Post, MailCode(p) PROVE ValidatedByMail'
  BY <1>10 DEF MailCode
<1>11. ASSUME NEW p \in Post, SendMail(p) PROVE ValidatedByMail'
  BY <1>11 DEF SendMail
<1>12. ASSUME NEW p \in Post, MailFails(p) PROVE ValidatedByMail'
  BY <1>12 DEF MailFails
<1>13. ASSUME NEW g \in Get, RetrieveByEmailAndKey(g) PROVE ValidatedByMail'
  BY <1>13 DEF RetrieveByEmailAndKey
<1>14. ASSUME NEW v \in Validate, Verify(v) PROVE ValidatedByMail'
  BY <1>14 DEF Verify
<1>15. ASSUME NEW v \in Validate, Confirm(v) PROVE ValidatedByMail'
  BY <1>15 DEF Confirm
<1>16. ASSUME NEW r \in Request, DbFails(r) PROVE ValidatedByMail'
  BY <1>16 DEF DbFails
<1>17. CASE EmailRestarts
  BY <1>17 DEF EmailRestarts
<1>18. CASE UNCHANGED emailVars
  BY <1>18 DEF emailVars
<1> QED
  BY <1>1, <1>2, <1>3, <1>4, <1>5, <1>6, <1>7, <1>8, <1>9, <1>10, <1>11, <1>12,
    <1>13, <1>14, <1>15, <1>16, <1>17, <1>18
  DEF EmailNext, EmailStep, Handle, Arrive, Request

LEMMA MailHolds == EmailSpec => []MailInv
<1>1. EmailInit => MailInv
  BY TypeInit DEF EmailInit, MailInv, CodesMailed, CodesArrived, ValidatedByMail, Request
<1>2. MailInv /\ [EmailNext]_emailVars => MailInv'
  BY TypeStep, CodesMailedStep, CodesArrivedStep, ValidatedStep DEF MailInv
<1> QED BY <1>1, <1>2, PTL DEF EmailSpec

(* An address is only validated by the code of a mail that was sent to it. *)
THEOREM ValidatedRight == EmailSpec => []ValidatedByMail
BY MailHolds, PTL DEF MailInv

(* After a success there is a code, and a mail with it was handed over unless *)
(* the process ended on the way.                                            *)
THEOREM CodeMailed == EmailSpec => []CodeOnItsWay
<1>1. MailInv => CodeOnItsWay
  BY EmailAssumption DEF MailInv, EmailTypeOK, CodesMailed, CodeOnItsWay, Successful, Request
<1> QED BY <1>1, MailHolds, PTL
============================================================================
