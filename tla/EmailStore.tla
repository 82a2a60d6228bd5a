----------------------------- MODULE EmailStore -----------------------------
(***************************************************************************)
(* plugins/emailstore.js: users register an address with a secret and      *)
(* store records under it, retrieve them with the secret, and validate the *)
(* address with a code that is mailed to it.  One step per database call.  *)
(* Records and codes are random to the server: each is named after the     *)
(* registration that brought it.                                           *)
(***************************************************************************)
CONSTANTS
  Email, Key, Secret,
  Post, Get, Validate,       \* requests to /register, /retrieve and /validate, each sent once
  EmailOf, KeyOf, SecretOf,  \* what a request says
  NoSecret, NoPost,
  Overlap,    \* registrations of a free address with different secrets may overlap
  EmailFaults \* what may go wrong: "db", "mail"

Request == Post \cup Get \cup Validate

ASSUME EmailAssumption ==
  /\ EmailOf \in [Request -> Email]
  /\ KeyOf \in [Post \cup Get -> Key]
  /\ SecretOf \in [Post \cup Get -> Secret]
  /\ Post \cap Get = {} /\ Post \cap Validate = {} /\ Get \cap Validate = {}
  /\ NoSecret \notin Secret
  /\ NoPost \notin Request
  /\ Overlap \in BOOLEAN

VARIABLES
  owner,      \* map-email-<email> => secret
  record,     \* credentials-store-<email>#<key> => record
  code,       \* validation-code-<email> => code
  validated,  \* the addresses with a validated-email-<email>
  at,         \* the call a request waits for
  answer,     \* how it was answered
  seen,       \* the record a retrieval was sent, the code a validation brought
  mail        \* what became of the mail with a code

store == <<owner, record, code, validated>>
emailVars == <<store, at, answer, seen, mail>>

Calls == {"exists", "check", "savePassphrase", "saveData", "getCode", "putCode",
          "getRecord", "verify", "confirm"}
Underway == Calls \cup {"mailCode"}
Steps == Underway \cup {"unsent", "done", "lost"}
Answers == {"none", "ok", "taken", "invalid", "notFound", "error"}
Fates == {"none", "queued", "sent", "lost"}

EmailTypeOK ==
  /\ owner \in [Email -> Secret \cup {NoSecret}]
  /\ record \in [Email \X Key -> Post \cup {NoPost}]
  /\ code \in [Email -> Post \cup {NoPost}]
  /\ validated \subseteq Email
  /\ at \in [Request -> Steps]
  /\ answer \in [Request -> Answers]
  /\ seen \in [Request -> Post \cup {NoPost}]
  /\ mail \in [Post -> Fates]

EmailInit ==
  /\ owner = [e \in Email |-> NoSecret]
  /\ record = [p \in Email \X Key |-> NoPost]
  /\ code = [e \in Email |-> NoPost]
  /\ validated = {}
  /\ at = [r \in Request |-> "unsent"]
  /\ answer = [r \in Request |-> "none"]
  /\ seen = [r \in Request |-> NoPost]
  /\ mail = [p \in Post |-> "none"]

Place(r) == <<EmailOf[r], KeyOf[r]>>

Goes(r, step) == at' = [at EXCEPT ![r] = step] /\ UNCHANGED answer
Answered(r, what) ==
  /\ at' = [at EXCEPT ![r] = "done"]
  /\ answer' = [answer EXCEPT ![r] = what]

----------------------------------------------------------------------------
(* The requests arrive. *)

Registering == {"exists", "savePassphrase"}

Undisputed(p) ==
  \/ owner[EmailOf[p]] # NoSecret
  \/ \A q \in Post :
       at[q] \in Registering /\ EmailOf[q] = EmailOf[p] => SecretOf[q] = SecretOf[p]

SendPost(p) ==
  /\ at[p] = "unsent"
  /\ Overlap \/ Undisputed(p)
  /\ Goes(p, "exists")
  /\ UNCHANGED <<store, seen, mail>>

SendGet(g) ==
  /\ at[g] = "unsent"
  /\ Goes(g, "check")
  /\ UNCHANGED <<store, seen, mail>>

(* With the code of any mail that arrived. *)
SendValidate(v) ==
  /\ at[v] = "unsent"
  /\ \E p \in Post :
       /\ mail[p] = "sent"
       /\ seen' = [seen EXCEPT ![v] = p]
  /\ Goes(v, "verify")
  /\ UNCHANGED <<store, mail>>

----------------------------------------------------------------------------
(* processPost. *)

Exists(p) ==
  /\ at[p] = "exists"
  /\ Goes(p, IF owner[EmailOf[p]] = NoSecret THEN "savePassphrase" ELSE "check")
  /\ UNCHANGED <<store, seen, mail>>

(* checkPassphrase, then what post and get do with its answer. *)
CheckPassphrase(r) ==
  LET retrieved == owner[EmailOf[r]] IN
  /\ at[r] = "check"
  /\ \/ /\ retrieved = SecretOf[r]
        /\ Goes(r, IF r \in Post THEN "saveData" ELSE "getRecord")
     \/ /\ retrieved # SecretOf[r]
        /\ Answered(r, IF r \in Post /\ retrieved # NoSecret THEN "taken" ELSE "invalid")
  /\ UNCHANGED <<store, seen, mail>>

(* Mutant: the address is taken by whoever stores the first record. *)
SaveNothing(p) ==
  /\ at[p] = "savePassphrase"
  /\ Goes(p, "saveData")
  /\ UNCHANGED <<store, seen, mail>>

SavePassphrase(p) ==
  /\ at[p] = "savePassphrase"
  /\ owner' = [owner EXCEPT ![EmailOf[p]] = SecretOf[p]]
  /\ Goes(p, "saveData")
  /\ UNCHANGED <<record, code, validated, seen, mail>>

SaveEncryptedData(p) ==
  /\ at[p] = "saveData"
  /\ record' = [record EXCEPT ![Place(p)] = p]
  /\ Goes(p, "getCode")
  /\ UNCHANGED <<owner, code, validated, seen, mail>>

(* Mutant: no code is made for an address that has none. *)
GetNoCode(p) ==
  /\ at[p] = "getCode"
  /\ Answered(p, "ok")
  /\ UNCHANGED <<store, seen, mail>>

(* createVerificationSecret: a code is made once per address. *)
GetCode(p) ==
  /\ at[p] = "getCode"
  /\ IF code[EmailOf[p]] = NoPost THEN Goes(p, "putCode") ELSE Answered(p, "ok")
  /\ UNCHANGED <<store, seen, mail>>

PutCode(p) ==
  /\ at[p] = "putCode"
  /\ code' = [code EXCEPT ![EmailOf[p]] = p]
  /\ Goes(p, "mailCode")
  /\ UNCHANGED <<owner, record, validated, seen, mail>>

(* createVerificationSecretAndSendEmail, once the code is stored: the request *)
(* is answered without waiting for the mail.                                 *)
MailCode(p) ==
  /\ at[p] = "mailCode"
  /\ mail' = [mail EXCEPT ![p] = "queued"]
  /\ Answered(p, "ok")
  /\ UNCHANGED <<store, seen>>

(* sendVerificationEmail: an error is only logged. *)
SendMail(p) ==
  /\ mail[p] = "queued"
  /\ mail' = [mail EXCEPT ![p] = "sent"]
  /\ UNCHANGED <<store, at, answer, seen>>

MailFails(p) ==
  /\ "mail" \in EmailFaults
  /\ mail[p] = "queued"
  /\ mail' = [mail EXCEPT ![p] = "lost"]
  /\ UNCHANGED <<store, at, answer, seen>>

----------------------------------------------------------------------------
(* get and validate. *)

RetrieveByEmailAndKey(g) ==
  /\ at[g] = "getRecord"
  /\ \/ /\ record[Place(g)] = NoPost
        /\ Answered(g, "notFound")
        /\ UNCHANGED seen
     \/ /\ record[Place(g)] # NoPost
        /\ seen' = [seen EXCEPT ![g] = record[Place(g)]]
        /\ Answered(g, "ok")
  /\ UNCHANGED <<store, mail>>

(* Mutant: any code will do once there is one. *)
VerifyExists(v) ==
  /\ at[v] = "verify"
  /\ IF code[EmailOf[v]] = NoPost THEN Answered(v, "notFound") ELSE Goes(v, "confirm")
  /\ UNCHANGED <<store, seen, mail>>

Verify(v) ==
  LET value == code[EmailOf[v]] IN
  /\ at[v] = "verify"
  /\ \/ value = NoPost /\ Answered(v, "notFound")
     \/ value \notin {NoPost, seen[v]} /\ Answered(v, "invalid")
     \/ value = seen[v] /\ Goes(v, "confirm")
  /\ UNCHANGED <<store, seen, mail>>

(* Mutant: the code is marked, not the address. *)
ConfirmCode(v) ==
  /\ at[v] = "confirm"
  /\ validated' = validated \cup {seen[v]}
  /\ Answered(v, "ok")
  /\ UNCHANGED <<owner, record, code, seen, mail>>

Confirm(v) ==
  /\ at[v] = "confirm"
  /\ validated' = validated \cup {EmailOf[v]}
  /\ Answered(v, "ok")
  /\ UNCHANGED <<owner, record, code, seen, mail>>

(* A call of the database fails, and the request with it. *)
DbFails(r) ==
  /\ "db" \in EmailFaults
  /\ at[r] \in Calls
  /\ Answered(r, "error")
  /\ UNCHANGED <<store, seen, mail>>

(* The process ends and is started again. *)
EmailRestarts ==
  /\ at' = [r \in Request |-> IF at[r] \in Underway THEN "lost" ELSE at[r]]
  /\ mail' = [p \in Post |-> IF mail[p] = "queued" THEN "lost" ELSE mail[p]]
  /\ UNCHANGED <<store, answer, seen>>

Handle(r) ==
  \/ /\ r \in Post
     /\ \/ Exists(r) \/ CheckPassphrase(r) \/ SavePassphrase(r) \/ SaveEncryptedData(r)
        \/ GetCode(r) \/ PutCode(r) \/ MailCode(r)
  \/ r \in Get /\ (CheckPassphrase(r) \/ RetrieveByEmailAndKey(r))
  \/ r \in Validate /\ (Verify(r) \/ Confirm(r))

Arrive(r) ==
  \/ r \in Post /\ SendPost(r)
  \/ r \in Get /\ SendGet(r)
  \/ r \in Validate /\ SendValidate(r)

EmailStep ==
  \/ \E r \in Request : Handle(r) \/ DbFails(r)
  \/ \E p \in Post : SendMail(p) \/ MailFails(p)

EmailNext == EmailStep \/ EmailRestarts \/ \E r \in Request : Arrive(r)

EmailSpec == EmailInit /\ [][EmailNext]_emailVars

----------------------------------------------------------------------------
Successful(R) == {r \in R : answer[r] = "ok"}

Registry ==
  INSTANCE EmailRegistry
    WITH told <- Successful(Post),
         got <- [g \in Get |-> IF g \in Successful(Get) THEN seen[g] ELSE NoPost]

(* "That email is already registered" (plugins/emailstore.js:76), as a       *)
(* refinement: every call is a step of a registry in which an address keeps  *)
(* its secret, a record is stored and retrieved with it and nothing else,    *)
(* and success means that the address and the record are there.              *)
KeepsRegistry == Registry!Spec

(* An address is only validated with a code that was mailed to it.           *)
ValidatedByMail ==
  \A e \in validated : \E p \in Post : EmailOf[p] = e /\ mail[p] = "sent"

(* After a registration that was told of success its address has a code, and *)
(* the mail with that code was handed over, is about to be, or never will be *)
(* because the process ended between storing the code and mailing it.        *)
CodeOnItsWay ==
  \A p \in Successful(Post) :
    LET c == code[EmailOf[p]] IN
      /\ c # NoPost /\ EmailOf[c] = EmailOf[p]
      /\ mail[c] # "none" \/ at[c] \in {"mailCode", "lost"}
============================================================================
