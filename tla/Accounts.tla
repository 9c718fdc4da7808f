------------------------------ MODULE Accounts ------------------------------
(***************************************************************************)
(* The bank accounts of a user on the server: the rows of accounts, of     *)
(* account_config and of bank_credentials, and the use cases that create   *)
(* and delete an account and save its configuration, one statement at a    *)
(* time.  A null column is NoText, and so is what is typed but is no value *)
(* at all; "private" is an address that assertSafeUrl refuses.             *)
(***************************************************************************)
EXTENDS Requests

CONSTANTS Null,                 \* no row
          Texts,                \* what a column or a field may hold
          Rows,                 \* configurations there may be at first
          MaxAccounts           \* bound: accounts ever created

Ids == 1 .. MaxAccounts
Modes == {"reconcile", "passthrough"}

RowFields == {"endpoint", "webhook", "extra", "method", "body", "authToken", "session",
              "transport", "url", "channel", "notifyToken", "events"}
FormFields == RowFields \cup {"username", "password"}

(* A column that is null, a field that is empty.                           *)
NoText == ""

(* The route takes two polling methods.                                    *)
Methods == {"GET", "POST"}
ConfigRows == {row \in [RowFields -> Texts] : row.method \in Methods}
Forms == {form \in [FormFields -> Texts] : form.method \in Methods}

(* What GET shows in the place of a stored secret.                         *)
Mask == "__secret_present__"
Secrets == {"authToken", "notifyToken"}

ASSUME AccountsAreRows ==
    /\ MaxAccounts \in Nat \ {0}
    /\ {NoText, Mask, "u1", "p1"} \subseteq Texts
    /\ Rows \subseteq ConfigRows
    /\ Null \notin ConfigRows \cup Forms

VARIABLES
    mode,                       \* users.operation_mode
    accounts,                   \* ids of the rows of accounts
    created,                    \* the last id given
    config,                     \* account_config by account
    creds,                      \* bank_credentials by account
    foreign                     \* history: another source wrote since the tab sent its save

books == <<mode, accounts, created, config, creds, foreign>>

NoCredentials == [username |-> NoText, password |-> NoText]

(* GET: a form of the row with its secrets masked and no password.         *)
Shown(id) ==
    [f \in FormFields |->
       IF f = "username" THEN creds[id].username
       ELSE IF f = "password" THEN NoText
       ELSE IF f \in Secrets /\ config[id][f] # NoText THEN Mask
       ELSE config[id][f]]

(* One account, or none; its configuration, with or without credentials.   *)
AccountsInit ==
    /\ mode \in Modes
    /\ created \in {0, 1} /\ accounts = 1 .. created
    /\ config \in [Ids -> Rows \cup {Null}]
    /\ \A id \in Ids \ accounts : config[id] = Null
    /\ creds \in [Ids -> {NoCredentials, [username |-> "u1", password |-> "p1"]}]
    /\ \A id \in Ids : config[id] = Null => creds[id] = NoCredentials
    /\ foreign = FALSE

-----------------------------------------------------------------------------
(* PUT.  shown: the form it was made from.  fresh: the page's data was     *)
(* current.  kept: the row when the request was sent.                      *)
Put(id, body, form, fresh) ==
    [pc |-> "asked", op |-> "put", id |-> id, body |-> body, shown |-> form, fresh |-> fresh,
     kept |-> config[id], row |-> Null, status |-> 0]

(* The route's schema and parsing, before anything is looked up.           *)
Malformed(body) ==
    \/ body.method = "POST" /\ body.body = "bad"
    \/ body.extra = "bad"
    \/ body.webhook = NoText

(* The first checks of the use case, on an account that is there.          *)
Refused(body) ==
    \/ body.webhook = "private"
    \/ body.endpoint = "private"
    \/ mode = "reconcile" /\ body.endpoint = NoText

PutChecks(s) ==
    /\ At(s, "put", "asked")
    /\ IF Malformed(req[s].body) THEN Answer(s, 400)
       ELSE IF req[s].id \notin accounts THEN Answer(s, 404)
       ELSE IF Refused(req[s].body) THEN Answer(s, 400)
       ELSE Holding(s, [req[s] EXCEPT !.pc = "checked"])
    /\ UNCHANGED books

(* Mutation: the mask is taken for a secret.                               *)
ResolvedVerbatim(existing, body, f) == body[f]

(* resolveSecret: the mask stands for the stored secret.                   *)
Resolved(existing, body, f) ==
    IF body[f] # Mask THEN body[f] ELSE IF existing = Null THEN NoText ELSE existing[f]

NewRow(existing, body) ==
    [f \in RowFields |->
       IF f = "body" /\ body.method # "POST" THEN NoText
       ELSE IF f \in {"channel", "notifyToken"} /\ body.transport = "chat_webhook" THEN NoText
       ELSE IF f \in Secrets THEN Resolved(existing, body, f)
       ELSE body[f]]

(* Somebody who subscribed to events can be told.                          *)
Deliverable(row) ==
    row.events # NoText =>
      CASE row.transport = "slack" -> row.channel # NoText /\ row.notifyToken # NoText
        [] row.transport = "chat_webhook" -> row.url # NoText
        [] OTHER -> TRUE

PutResolves(s) ==
    /\ At(s, "put", "checked")
    /\ LET row == NewRow(config[req[s].id], req[s].body) IN
       IF Deliverable(row) /\ (row.transport = "slack" \/ row.url # "private")
       THEN Holding(s, [req[s] EXCEPT !.pc = "resolved", !.row = row])
       ELSE Answer(s, 400)
    /\ UNCHANGED books

HasCredentials(body) == body.username # NoText /\ body.password # NoText

(* The upsert writes every column; without its account it is refused.      *)
PutConfig(s) ==
    /\ At(s, "put", "resolved")
    /\ LET id == req[s].id IN
       IF id \notin accounts
       THEN Answer(s, 500) /\ UNCHANGED books
       ELSE /\ config' = [config EXCEPT ![id] = req[s].row]
            /\ foreign' = (foreign \/ s = Other)
            /\ IF HasCredentials(req[s].body)
               THEN Holding(s, [req[s] EXCEPT !.pc = "stored"])
               ELSE Answer(s, 200)
            /\ UNCHANGED <<mode, accounts, created, creds>>

(* A second statement, of its own.                                         *)
PutCredentials(s) ==
    /\ At(s, "put", "stored")
    /\ LET id == req[s].id IN
       IF id \notin accounts
       THEN Answer(s, 500) /\ UNCHANGED books
       ELSE /\ creds' = [creds EXCEPT ![id] = [username |-> req[s].body.username,
                                               password |-> req[s].body.password]]
            /\ foreign' = (foreign \/ s = Other)
            /\ Answer(s, 200)
            /\ UNCHANGED <<mode, accounts, created, config>>

-----------------------------------------------------------------------------
(* CreateAccountUseCase, of a bank that exists.                            *)
CreateAccount(s) ==
    /\ At(s, "create", "asked")
    /\ created < MaxAccounts
    /\ created' = created + 1
    /\ accounts' = accounts \cup {created + 1}
    /\ Answer(s, 201)
    /\ UNCHANGED <<mode, config, creds, foreign>>

(* DeleteAccountUseCase: what belongs to the account goes with its row.    *)
DeleteAccount(s) ==
    /\ At(s, "delete", "asked")
    /\ LET id == req[s].id IN
       IF id \notin accounts
       THEN Answer(s, 404) /\ UNCHANGED books
       ELSE /\ accounts' = accounts \ {id}
            /\ config' = [config EXCEPT ![id] = Null]
            /\ creds' = [creds EXCEPT ![id] = NoCredentials]
            /\ foreign' = (foreign \/ s = Other)
            /\ Answer(s, 204)
            /\ UNCHANGED <<mode, created>>

(* The user changes the mode in the settings of another tab.               *)
ModeChanges ==
    /\ asked[Other] < MaxOther
    /\ asked' = [asked EXCEPT ![Other] = @ + 1]
    /\ mode' \in Modes \ {mode}
    /\ UNCHANGED <<accounts, created, config, creds, foreign, req, faults>>

AccountStep(s) ==
    \/ PutChecks(s) \/ PutResolves(s) \/ PutConfig(s) \/ PutCredentials(s)
    \/ CreateAccount(s) \/ DeleteAccount(s)

=============================================================================
