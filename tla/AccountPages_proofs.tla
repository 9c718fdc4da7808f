------------------------- MODULE AccountPages_proofs -------------------------
(***************************************************************************)
(* The accounts, their configuration and their scripts, for any number of  *)
(* accounts, scripts, requests, edits and failures.                        *)
(*                                                                         *)
(* ScriptGivesWay follows from ScopesLast.  A promotion works on copies    *)
(* and on a snapshot of the scope it clears, both older than its commit,   *)
(* and what saves it is that a script never changes its scope: as long as  *)
(* the account of the scope is there, the copy still has the row's scope   *)
(* and all the snapshot saw is of that scope, so the commit leaves an      *)
(* active script exactly where it takes one away.                          *)
(*                                                                         *)
(* SaveIsHonest follows from PageKnows, by which a mask in the form stands *)
(* for a secret that the page's last answer had, and from SaveFollowed,    *)
(* which takes the save through the handler: until somebody else writes,   *)
(* the row it resolves the masks against is the row when it was sent.      *)
(***************************************************************************)
EXTENDS AccountPages, TLAPS

-----------------------------------------------------------------------------
(* The invariants. *)

PutRequests ==
    {r \in [pc : {"asked", "checked", "resolved", "stored", "answered"}, op : {"put"}, id : Ids,
            body : Forms, shown : Forms, fresh : BOOLEAN, kept : {Null} \cup ConfigRows,
            row : {Null} \cup ConfigRows, status : Nat] :
       r.pc = "resolved" => r.row # Null}
CreateRequests == [pc : {"asked", "answered"}, op : {"create"}, status : Nat]
DeleteRequests == [pc : {"asked", "answered"}, op : {"delete"}, id : Ids, status : Nat]
ScriptRequests ==
    [pc : {"asked", "loaded", "cleared", "answered"}, op : {"promote", "deprecate", "publish"},
     id : ScriptIds, copy : {Null} \cup ScriptRows, seen : SUBSET ScriptIds, status : Nat]

AllRequests == {Idle} \cup PutRequests \cup CreateRequests \cup DeleteRequests \cup ScriptRequests

RequestsTyped ==
    /\ req \in [Slots -> AllRequests]
    /\ asked \in [Slots -> Nat] /\ faults \in Nat

RowsTyped ==
    /\ mode \in Modes /\ foreign \in BOOLEAN
    /\ created \in 0 .. MaxAccounts /\ accounts \subseteq 1 .. created
    /\ config \in [Ids -> {Null} \cup ConfigRows]
    /\ creds \in [Ids -> [username : Texts, password : Texts]]

ScriptsTyped == scripts \in [ScriptIds -> {Null} \cup ScriptRows]

Answers == [id : Nat, data : {Null} \cup Forms]
UiRecords ==
    [at : {"accounts", "config", "scripts"}, id : Nat, mode : Modes, list : SUBSET Ids,
     catalog : [ScriptIds -> {Null} \cup ScriptRows], cache : Answers, form : Forms,
     stage : {"none", "create", "filled", "delete", "refused", "broken"}, waits : BOOLEAN]

PageTyped ==
    ui \in UiRecords /\ edits \in Nat

TypeOK == RequestsTyped /\ RowsTyped /\ ScriptsTyped /\ PageTyped

(* Of an account that was deleted, or that is not there yet.               *)
Gone(scope) == scope \in Ids \ accounts

OfScope(i, scope) == scripts[i] # Null /\ scripts[i].scope = scope

CopyFits(s) ==
    LET r == req[s] IN
    r.pc \in {"loaded", "cleared"} =>
      /\ r.copy # Null
      /\ r.op = "publish" => r.copy.scope = Official
      /\ r.copy.scope \in Ids => r.copy.scope <= created
      /\ ~Gone(r.copy.scope) =>
           /\ OfScope(r.id, r.copy.scope) \/ (r.op = "publish" /\ scripts[r.id] = Null)
           /\ r.pc = "cleared" => \A j \in r.seen : OfScope(j, r.copy.scope)

(* Scripts and the copies of them keep their scope.                        *)
ScopesLast ==
    /\ \A i \in ScriptIds : scripts[i] # Null => ~Gone(scripts[i].scope)
    /\ \A s \in Slots : CopyFits(s)

(* What the page knows of the account it configures. *)
PageKnows ==
    /\ ui.at = "config" => ui.id \in 1 .. created
    /\ ui.list \subseteq 1 .. created
    /\ ui.stage \in {"delete", "refused"} => ui.at = "config"
    /\ ui.cache.data # Null =>
         /\ ui.at = "config" /\ ui.cache.id = ui.id
         /\ ui.id \in accounts => config[ui.id] # Null
    /\ \A f \in Secrets : ui.form[f] = Mask => ui.cache.data # Null /\ ui.cache.data[f] = Mask

(* The save that the tab has under way. *)
SaveFollowed ==
    LET r == req[Tab] IN
    r.pc # "idle" /\ r.op = "put" =>
      /\ r.body = Sent(r.shown) /\ r.shown.username # NoText
      /\ r.fresh => \A f \in Secrets : r.shown[f] = Mask => r.kept # Null /\ r.kept[f] # NoText
      /\ ~foreign =>
           /\ r.pc \in {"asked", "checked", "resolved"} => config[r.id] = r.kept
           /\ r.pc = "resolved" => r.row = NewRow(r.kept, r.body)
           /\ r.pc = "stored" \/ (r.pc = "answered" /\ r.status = 200) =>
                config[r.id] = NewRow(r.kept, r.body)
           /\ r.pc = "answered" /\ r.status = 200 /\ HasCredentials(r.body) =>
                creds[r.id] = [username |-> r.body.username, password |-> r.body.password]

-----------------------------------------------------------------------------
(* Types. *)

USE DEF Slots

LEMMA Kinds ==
    ASSUME RequestsTyped, NEW s \in Slots, req[s].pc # "idle"
    PROVE  /\ req[s].op = "put" => req[s] \in PutRequests
           /\ req[s].op = "create" => req[s] \in CreateRequests
           /\ req[s].op = "delete" => req[s] \in DeleteRequests
           /\ req[s].op \in {"promote", "deprecate", "publish"} => req[s] \in ScriptRequests
           /\ req[s].pc \in {"loaded", "cleared"} => req[s] \in ScriptRequests
           /\ req[s] \in PutRequests \cup CreateRequests \cup DeleteRequests \cup ScriptRequests
<1>1. req[s] \in PutRequests \cup CreateRequests \cup DeleteRequests \cup ScriptRequests
  BY DEF RequestsTyped, AllRequests, Idle
<1> QED
  BY <1>1 DEF PutRequests, CreateRequests, DeleteRequests, ScriptRequests

LEMMA AnsweredTyped ==
    ASSUME RequestsTyped, NEW s \in Slots, req[s].pc # "idle", NEW status \in Nat
    PROVE  Answered(s, status) \in AllRequests
<1> DEFINE r == [req[s] EXCEPT !.pc = "answered", !.status = status]
<1>1. r \in AllRequests
  <2>1. CASE req[s] \in PutRequests
    BY <2>1 DEF PutRequests, AllRequests
  <2>2. CASE req[s] \in CreateRequests
    BY <2>2 DEF CreateRequests, AllRequests
  <2>3. CASE req[s] \in DeleteRequests
    BY <2>3 DEF DeleteRequests, AllRequests
  <2>4. CASE req[s] \in ScriptRequests
    BY <2>4 DEF ScriptRequests, AllRequests
  <2> QED BY <2>1, <2>2, <2>3, <2>4, Kinds
<1> QED BY <1>1 DEF Answered, AllRequests

LEMMA Held ==
    ASSUME RequestsTyped, NEW s \in Slots, NEW r \in AllRequests, Holding(s, r)
    PROVE  RequestsTyped'
  BY DEF RequestsTyped, Holding

LEMMA AnswerTyped ==
    ASSUME RequestsTyped, NEW s \in Slots, req[s].pc # "idle", NEW status \in Nat,
           Answer(s, status)
    PROVE  RequestsTyped'
  BY AnsweredTyped, Held DEF Answer

LEMMA AskTyped ==
    ASSUME RequestsTyped, NEW s \in Slots, NEW r \in AllRequests, Ask(s, r)
    PROVE  RequestsTyped'
  BY DEF RequestsTyped, Ask

(* What is stored of a form is a row, and what is shown of a row a form.   *)
LEMMA NewRowTyped ==
    ASSUME NEW existing \in {Null} \cup ConfigRows, NEW body \in Forms
    PROVE  NewRow(existing, body) \in ConfigRows
<1>1. \A f \in RowFields : body[f] \in Texts /\ (existing # Null => existing[f] \in Texts)
  BY DEF Forms, ConfigRows, FormFields
<1>2. body["method"] \in Methods
  BY DEF Forms
<1>3. \A f \in RowFields : Resolved(existing, body, f) \in Texts
  BY <1>1, AccountsAreRows DEF Resolved
<1>4. NewRow(existing, body) \in [RowFields -> Texts]
  BY <1>1, <1>3, AccountsAreRows DEF NewRow
<1>5. NewRow(existing, body)["method"] = body["method"]
  BY DEF NewRow, RowFields, Secrets
<1> QED BY <1>2, <1>4, <1>5 DEF ConfigRows

LEMMA ShownTyped ==
    ASSUME RowsTyped, NEW id \in Ids, config[id] # Null
    PROVE  Shown(id) \in Forms
<1>1. config[id] \in [RowFields -> Texts] /\ config[id]["method"] \in Methods
  BY DEF RowsTyped, ConfigRows
<1>2. creds[id].username \in Texts
  BY DEF RowsTyped
<1>3. Shown(id) \in [FormFields -> Texts]
  BY <1>1, <1>2, AccountsAreRows DEF Shown, FormFields
<1>4. Shown(id)["method"] = config[id]["method"]
  BY DEF Shown, FormFields, RowFields, Secrets
<1> QED BY <1>1, <1>3, <1>4 DEF Forms

LEMMA SentTyped ==
    ASSUME NEW form \in Forms
    PROVE  Sent(form) \in Forms
<1>1. Sent(form) \in [FormFields -> Texts]
  BY AccountsAreRows DEF Sent, Forms
<1>2. Sent(form)["method"] = form["method"]
  BY DEF Sent, FormFields, RowFields
<1> QED BY <1>1, <1>2 DEF Forms

LEMMA PutTyped ==
    ASSUME RowsTyped, NEW id \in Ids, NEW body \in Forms, NEW form \in Forms,
           NEW fresh \in BOOLEAN
    PROVE  Put(id, body, form, fresh) \in AllRequests
  BY DEF RowsTyped, Put, PutRequests, AllRequests

LEMMA MaskIsText == Mask # NoText
  BY Zenon DEF Mask, NoText

LEMMA BlankTyped == Blank \in Forms
  BY AccountsAreRows, FieldsAreTyped DEF Blank, Forms, FormFields, RowFields, Methods

LEMMA IdsAre ==
    ASSUME RowsTyped
    PROVE  accounts \subseteq Ids /\ 1 .. created \subseteq Ids /\ created \in Nat
<1>1. MaxAccounts \in Nat
  BY AccountsAreRows
<1> QED BY <1>1 DEF RowsTyped, Ids

LEMMA AccountStepTypes ==
    ASSUME RequestsTyped, RowsTyped, NEW s \in Slots, AccountStep(s)
    PROVE  RequestsTyped' /\ RowsTyped'
<1>1. ASSUME PutChecks(s) PROVE RequestsTyped' /\ RowsTyped'
  <2>1. req[s] \in PutRequests
    BY <1>1, Kinds DEF PutChecks, At
  <2>2. [req[s] EXCEPT !.pc = "checked"] \in AllRequests
    BY <2>1 DEF PutRequests, AllRequests
  <2>3. RequestsTyped'
    BY <1>1, <2>2, AnswerTyped, Held DEF PutChecks, At
  <2> QED BY <1>1, <2>3 DEF PutChecks, books, RowsTyped
<1>2. ASSUME PutResolves(s) PROVE RequestsTyped' /\ RowsTyped'
  <2> DEFINE row == NewRow(config[req[s].id], req[s].body)
  <2>1. req[s] \in PutRequests
    BY <1>2, Kinds DEF PutResolves, At
  <2>2. row \in ConfigRows /\ row # Null
    <3>1. row \in ConfigRows
      BY <2>1, NewRowTyped DEF PutRequests, RowsTyped
    <3>2. Null \notin ConfigRows
      BY AccountsAreRows
    <3> HIDE DEF row
    <3> QED BY <3>1, <3>2
  <2>3. [req[s] EXCEPT !.pc = "resolved", !.row = row] \in AllRequests
    BY <2>1, <2>2 DEF PutRequests, AllRequests
  <2>4. RequestsTyped'
    BY <1>2, <2>3, AnswerTyped, Held DEF PutResolves, At
  <2> QED BY <1>2, <2>4 DEF PutResolves, books, RowsTyped
<1>3. ASSUME PutConfig(s) PROVE RequestsTyped' /\ RowsTyped'
  <2>1. req[s] \in PutRequests /\ req[s].pc = "resolved"
    BY <1>3, Kinds DEF PutConfig, At
  <2>2. [req[s] EXCEPT !.pc = "stored"] \in AllRequests
    BY <2>1 DEF PutRequests, AllRequests
  <2>3. RequestsTyped'
    BY <1>3, <2>2, AnswerTyped, Held DEF PutConfig, At
  <2>4. req[s].row \in {Null} \cup ConfigRows /\ req[s].id \in Ids
    BY <2>1 DEF PutRequests
  <2> QED BY <1>3, <2>3, <2>4 DEF PutConfig, books, RowsTyped
<1>4. ASSUME PutCredentials(s) PROVE RequestsTyped' /\ RowsTyped'
  <2>1. req[s] \in PutRequests /\ req[s].pc = "stored"
    BY <1>4, Kinds DEF PutCredentials, At
  <2>2. RequestsTyped'
    BY <1>4, AnswerTyped DEF PutCredentials, At
  <2>3. req[s].body \in [FormFields -> Texts] /\ req[s].id \in Ids
    BY <2>1 DEF PutRequests, Forms
  <2>4. req[s].body.username \in Texts /\ req[s].body.password \in Texts
    BY <2>3 DEF FormFields
  <2>5. [username |-> req[s].body.username, password |-> req[s].body.password]
          \in [username : Texts, password : Texts]
    BY <2>4
  <2>6. creds' \in [Ids -> [username : Texts, password : Texts]]
    BY <1>4, <2>5 DEF PutCredentials, books, RowsTyped
  <2>7. UNCHANGED <<mode, accounts, created, config>>
    BY <1>4 DEF PutCredentials, books
  <2>8. foreign' = foreign \/ foreign' = (foreign \/ s = Other)
    BY <1>4, Zenon DEF PutCredentials, books
  <2>9. foreign' \in BOOLEAN
    BY <2>8 DEF RowsTyped
  <2> QED BY <2>2, <2>6, <2>7, <2>9 DEF RowsTyped
<1>5. ASSUME CreateAccount(s) PROVE RequestsTyped' /\ RowsTyped'
  <2>1. RequestsTyped'
    BY <1>5, AnswerTyped DEF CreateAccount, At
  <2>2. created' \in 0 .. MaxAccounts /\ accounts' \subseteq 1 .. created'
    <3>1. MaxAccounts \in Nat
      BY AccountsAreRows
    <3> QED BY <1>5, <3>1 DEF CreateAccount, RowsTyped
  <2> QED BY <1>5, <2>1, <2>2 DEF CreateAccount, RowsTyped
<1>6. ASSUME DeleteAccount(s) PROVE RequestsTyped' /\ RowsTyped'
  <2>1. RequestsTyped'
    BY <1>6, AnswerTyped DEF DeleteAccount, At
  <2>2. NoCredentials \in [username : Texts, password : Texts]
    BY AccountsAreRows DEF NoCredentials
  <2> QED BY <1>6, <2>1, <2>2 DEF DeleteAccount, books, RowsTyped
<1> QED BY <1>1, <1>2, <1>3, <1>4, <1>5, <1>6 DEF AccountStep

LEMMA CascadeTypes ==
    ASSUME ScriptsTyped, Cascade
    PROVE  ScriptsTyped'
  BY DEF ScriptsTyped, Cascade

(* The status of a row is all that is ever overwritten.                    *)
LEMMA StatusTyped ==
    ASSUME NEW row \in ScriptRows, NEW status \in {"review", "active", "deprecated"}
    PROVE  /\ [row EXCEPT !.status = status] \in ScriptRows
           /\ [row EXCEPT !.status = status].scope = row.scope
           /\ [row EXCEPT !.status = status].status = status
  BY DEF ScriptRows

LEMMA CatalogStepTypes ==
    ASSUME RequestsTyped, ScriptsTyped, NEW s \in Slots, CatalogStep(s), CopyFits(s)
    PROVE  RequestsTyped' /\ ScriptsTyped'
<1>1. ASSUME ReadScript(s) PROVE RequestsTyped' /\ ScriptsTyped'
  <2>1. req[s] \in ScriptRequests
    BY <1>1, Kinds DEF ReadScript
  <2>2. [req[s] EXCEPT !.pc = "loaded", !.copy = scripts[req[s].id]] \in AllRequests
    BY <2>1 DEF ScriptRequests, AllRequests, ScriptsTyped
  <2>3. RequestsTyped'
    BY <1>1, <2>2, AnswerTyped, Held DEF ReadScript
  <2> QED BY <1>1, <2>3 DEF ReadScript, ScriptsTyped
<1>2. ASSUME MakeOfficial(s) PROVE RequestsTyped' /\ ScriptsTyped'
  <2>1. req[s] \in ScriptRequests
    BY <1>2, Kinds DEF MakeOfficial, At
  <2>2. [scope |-> Official, status |-> "review"] \in ScriptRows
    BY DEF ScriptRows, Scopes
  <2>3. [req[s] EXCEPT !.pc = "loaded", !.copy = [scope |-> Official, status |-> "review"]]
          \in AllRequests
    BY <2>1, <2>2 DEF ScriptRequests, AllRequests
  <2>4. RequestsTyped'
    BY <1>2, <2>3, Held DEF MakeOfficial
  <2> QED BY <1>2, <2>4 DEF MakeOfficial, ScriptsTyped
<1>3. ASSUME ClearScope(s) PROVE RequestsTyped' /\ ScriptsTyped'
  <2>1. req[s] \in ScriptRequests
    BY <1>3, Kinds DEF ClearScope
  <2>2. Active(req[s].copy.scope) \in SUBSET ScriptIds
    BY DEF Active, ActiveIn
  <2>3. [req[s] EXCEPT !.pc = "cleared", !.seen = Active(req[s].copy.scope)] \in AllRequests
    BY <2>1, <2>2 DEF ScriptRequests, AllRequests
  <2>4. RequestsTyped'
    BY <1>3, <2>3, Held DEF ClearScope
  <2> QED BY <1>3, <2>4 DEF ClearScope, ScriptsTyped
<1>4. ASSUME CommitPromotion(s) PROVE RequestsTyped' /\ ScriptsTyped'
  <2>1. req[s] \in ScriptRequests /\ req[s].pc = "cleared"
    BY <1>4, Kinds DEF CommitPromotion
  <2>2. RequestsTyped'
    BY <1>4, <2>1, AnswerTyped DEF CommitPromotion
  <2>3. [req[s].copy EXCEPT !.status = "active"] \in ScriptRows
    BY <2>1, StatusTyped DEF CopyFits, ScriptRequests
  <2>4. \A i \in ScriptIds : scripts[i] # Null =>
           [scripts[i] EXCEPT !.status = "deprecated"] \in ScriptRows
    BY StatusTyped DEF ScriptsTyped
  <2>5. ScriptsTyped'
    BY <1>4, <2>3, <2>4 DEF CommitPromotion, ScriptsTyped
  <2> QED BY <2>2, <2>5
<1>5. ASSUME SaveDeprecated(s) PROVE RequestsTyped' /\ ScriptsTyped'
  <2>1. req[s] \in ScriptRequests /\ req[s].pc = "loaded"
    BY <1>5, Kinds DEF SaveDeprecated, At
  <2>2. RequestsTyped'
    BY <1>5, <2>1, AnswerTyped DEF SaveDeprecated
  <2>3. [req[s].copy EXCEPT !.status = "deprecated"] \in ScriptRows
    BY <2>1, StatusTyped DEF CopyFits, ScriptRequests
  <2>4. ScriptsTyped'
    BY <1>5, <2>1, <2>3 DEF SaveDeprecated, ScriptsTyped, ScriptRequests
  <2> QED BY <2>2, <2>4
<1> QED BY <1>1, <1>2, <1>3, <1>4, <1>5 DEF CatalogStep

-----------------------------------------------------------------------------
(* Types of the pages and of what they ask. *)

LEMMA PagesTyped ==
    ASSUME TypeOK, NEW at \in {"accounts", "config", "scripts"}
    PROVE  /\ Page(at) \in UiRecords
           /\ \A id \in Ids : [Page(at) EXCEPT !.id = id] \in UiRecords
           /\ Page(at).at = at /\ Page(at).id = 0 /\ Page(at).cache = Nothing
           /\ Page(at).form = Blank /\ Page(at).stage = "none"
           /\ Page(at).list \in {accounts, {}}
<1>1. Nothing \in Answers
  BY DEF Nothing, Answers
<1>2. Unlisted \in [ScriptIds -> {Null} \cup ScriptRows]
  BY DEF Unlisted
<1>3. accounts \in SUBSET Ids
  BY IdsAre DEF TypeOK
<1>4. Ids \subseteq Nat
  BY DEF Ids
<1> HIDE DEF Nothing, Unlisted, Blank
<1> QED
  BY <1>1, <1>2, <1>3, <1>4, BlankTyped DEF TypeOK, PageTyped, ScriptsTyped, UiRecords, Page

LEMMA AnswersTyped ==
    ASSUME RowsTyped, NEW id \in Ids
    PROVE  Answer200(id) \in Answers
<1>1. Ids \subseteq Nat
  BY DEF Ids
<1> QED BY <1>1, ShownTyped DEF Answer200, Answers

LEMMA EditTyped ==
    ASSUME PageTyped, NEW f \in FormFields, NEW v \in Typed[f]
    PROVE  [ui.form EXCEPT ![f] = v] \in Forms
<1>1. ui.form \in [FormFields -> Texts] /\ ui.form["method"] \in Methods
  BY DEF PageTyped, UiRecords, Forms
<1>2. v \in Texts /\ (f = "method" => v \in Methods)
  BY FieldsAreTyped
<1>3. [ui.form EXCEPT ![f] = v] \in [FormFields -> Texts]
  BY <1>1, <1>2
<1>4. [ui.form EXCEPT ![f] = v]["method"] \in Methods
  BY <1>1, <1>2 DEF FormFields, RowFields
<1> QED BY <1>3, <1>4 DEF Forms

LEMMA OutcomeTyped ==
    ASSUME TypeOK
    PROVE  Outcome(req[Tab]) \in UiRecords
<1> DEFINE page == Page("accounts")
<1>1. \A u \in {page, [ui EXCEPT !.stage = "none"], [ui EXCEPT !.stage = "refused"], ui} :
         u \in UiRecords
  <2>1. page \in UiRecords
    BY PagesTyped
  <2> HIDE DEF page
  <2> QED BY <2>1 DEF TypeOK, PageTyped, UiRecords
<1>2. \A u \in UiRecords : [u EXCEPT !.waits = FALSE] \in UiRecords
  BY DEF UiRecords
<1> HIDE DEF page
<1>3. Outcome(req[Tab]) =
        IF ~ui.waits THEN ui
        ELSE [(IF req[Tab].op \in {"put", "delete"} /\ req[Tab].status \in {200, 204} THEN page
               ELSE IF req[Tab].op = "create" /\ req[Tab].status = 201
                    THEN [ui EXCEPT !.stage = "none"]
               ELSE IF req[Tab].op = "delete" /\ ui.stage = "delete"
                    THEN [ui EXCEPT !.stage = "refused"]
               ELSE ui) EXCEPT !.waits = FALSE]
  BY DEF Outcome, page
<1> QED BY <1>1, <1>2, <1>3 DEF TypeOK, PageTyped

LEMMA TabTypes ==
    ASSUME TypeOK, PageKnows, TabStep
    PROVE  TypeOK'
<1> DEFINE Elsewhere == RowsTyped' /\ ScriptsTyped'
<1>0. UNCHANGED <<mode, accounts, created, config, creds, scripts>> /\ foreign' \in BOOLEAN
        => Elsewhere
  BY DEF TypeOK, RowsTyped, ScriptsTyped
<1>1. ASSUME NEW next \in UiRecords, Shows(next) PROVE TypeOK'
  <2>1. Elsewhere
    BY <1>0, <1>1 DEF TypeOK, RowsTyped, Shows, Stays, books
  <2> QED BY <1>1, <2>1 DEF TypeOK, RequestsTyped, PageTyped, Shows, Stays
<1>2. ASSUME NEW r \in AllRequests, Sends(r) PROVE TypeOK'
  <2>1. Elsewhere
    BY <1>0, <1>2 DEF TypeOK, RowsTyped, Sends, books
  <2>2. RequestsTyped'
    BY <1>2, AskTyped DEF TypeOK, Sends
  <2>3. PageTyped'
    BY <1>2 DEF TypeOK, PageTyped, UiRecords, Sends
  <2> QED BY <2>1, <2>2, <2>3 DEF TypeOK
<1>3. ASSUME FetchLists PROVE TypeOK'
  <2>1. accounts \in SUBSET Ids
    BY IdsAre DEF TypeOK
  <2>2. [ui EXCEPT !.mode = mode, !.list = IF ui.at = "accounts" THEN accounts ELSE @,
                   !.catalog = IF ui.at = "scripts" THEN scripts ELSE @] \in UiRecords
    BY <2>1 DEF TypeOK, PageTyped, RowsTyped, ScriptsTyped, UiRecords
  <2> QED BY <1>1, <1>3, <2>2 DEF FetchLists
<1>4. ASSUME FetchConfig PROVE TypeOK'
  <2>1. ui.id \in accounts => Answer200(ui.id) \in Answers
    BY AnswersTyped, IdsAre DEF TypeOK
  <2>2. ui.id \in accounts => Refetched(Answer200(ui.id)) \in UiRecords
    <3> DEFINE fetched == Answer200(ui.id)
    <3>1. CASE fetched \in Answers
      <4> HIDE DEF fetched
      <4>1. Hydrated(fetched.data) \in Forms
        BY <3>1 DEF TypeOK, PageTyped, UiRecords, Hydrated, Answers
      <4>2. ui \in UiRecords
        BY DEF TypeOK, PageTyped
      <4>3. [ui EXCEPT !.cache = fetched, !.form = Hydrated(fetched.data)] \in UiRecords
        BY <3>1, <4>1, <4>2 DEF UiRecords
      <4>4. Refetched(fetched) \in UiRecords
        BY <4>2, <4>3 DEF Refetched
      <4> QED BY <4>4 DEF fetched
    <3> QED BY <2>1, <3>1
  <2>3. [ui EXCEPT !.stage = "broken"] \in UiRecords
    BY DEF TypeOK, PageTyped, UiRecords
  <2> DEFINE next == IF ui.id \in accounts THEN Refetched(Answer200(ui.id))
                     ELSE [ui EXCEPT !.stage = "broken"]
  <2>4. next \in UiRecords
    BY <2>2, <2>3
  <2>5. Shows(next)
    BY <1>4 DEF FetchConfig
  <2> HIDE DEF next
  <2> QED BY <1>1, <2>4, <2>5
<1>5. ASSUME NEW page \in {"accounts", "scripts"}, Visit(page) PROVE TypeOK'
  BY <1>1, <1>5, PagesTyped DEF Visit
<1>6. ASSUME OpenCreate \/ FillCreate \/ CloseDialog \/ OpenDelete PROVE TypeOK'
  <2>1. PICK stage \in {"none", "create", "filled", "delete"} : Shows([ui EXCEPT !.stage = stage])
    BY <1>6 DEF OpenCreate, FillCreate, CloseDialog, OpenDelete
  <2>2. [ui EXCEPT !.stage = stage] \in UiRecords
    BY DEF TypeOK, PageTyped, UiRecords
  <2> QED BY <1>1, <2>1, <2>2
<1>7. ASSUME NEW id \in Ids, Configure(id) PROVE TypeOK'
  BY <1>1, <1>7, PagesTyped DEF Configure
<1>8. ASSUME SubmitCreate PROVE TypeOK'
  <2>1. [pc |-> "asked", op |-> "create", status |-> 0] \in AllRequests
    BY DEF AllRequests, CreateRequests
  <2> QED BY <1>2, <1>8, <2>1 DEF SubmitCreate
<1>9. ASSUME NEW f \in FormFields, NEW v \in Typed[f], Edit(f, v) PROVE TypeOK'
  <2>1. [ui EXCEPT !.form = [ui.form EXCEPT ![f] = v]] \in UiRecords
    BY EditTyped DEF TypeOK, PageTyped, UiRecords
  <2>2. ui' = [ui EXCEPT !.form = [ui.form EXCEPT ![f] = v]]
    BY <1>9 DEF Edit
  <2>3. Elsewhere
    BY <1>0, <1>9 DEF TypeOK, RowsTyped, Edit, books
  <2>4. RequestsTyped' /\ edits' \in Nat
    BY <1>9 DEF TypeOK, RequestsTyped, PageTyped, Edit
  <2> QED BY <2>1, <2>2, <2>3, <2>4 DEF TypeOK, PageTyped
<1>10. ASSUME Save PROVE TypeOK'
  <2>1. ui.id \in Ids
    BY <1>10, IdsAre DEF TypeOK, Save, Editing, PageKnows
  <2>2. ui.form \in Forms
    BY DEF TypeOK, PageTyped, UiRecords
  <2> DEFINE r == Put(ui.id, Sent(ui.form), ui.form, ui.cache = Answer200(ui.id))
  <2>3. r \in AllRequests
    BY <2>1, <2>2, PutTyped, SentTyped DEF TypeOK
  <2>4. Ask(Tab, r)
    BY <1>10 DEF Save
  <2>5. RequestsTyped'
    <3> HIDE DEF r
    <3> QED BY <2>3, <2>4, AskTyped DEF TypeOK
  <2>6. Elsewhere
    BY <1>0, <1>10 DEF Save
  <2>7. PageTyped'
    BY <1>10 DEF TypeOK, PageTyped, UiRecords, Save
  <2> QED BY <2>5, <2>6, <2>7 DEF TypeOK
<1>11. ASSUME ConfirmDelete PROVE TypeOK'
  <2>1. ui.id \in Ids
    BY <1>11, IdsAre DEF TypeOK, ConfirmDelete, PageKnows
  <2>2. [pc |-> "asked", op |-> "delete", id |-> ui.id, status |-> 0] \in AllRequests
    BY <2>1 DEF AllRequests, DeleteRequests
  <2> QED BY <1>2, <1>11, <2>2 DEF ConfirmDelete
<1>12. ASSUME NEW i \in ScriptIds, Promote(i) PROVE TypeOK'
  <2>1. ScriptRequest("promote", i) \in AllRequests
    BY DEF ScriptRequest, AllRequests, ScriptRequests
  <2> QED BY <1>2, <1>12, <2>1 DEF Promote
<1>13. ASSUME Handle PROVE TypeOK'
  <2>1. Elsewhere
    BY <1>0, <1>13 DEF TypeOK, RowsTyped, Handle, books
  <2>2. Idle \in AllRequests
    BY DEF AllRequests
  <2>3. RequestsTyped'
    BY <1>13, <2>2, Held DEF TypeOK, Handle, Take
  <2>4. PageTyped'
    BY <1>13, OutcomeTyped DEF TypeOK, PageTyped, Handle
  <2> QED BY <2>1, <2>3, <2>4 DEF TypeOK
<1> QED
  BY <1>3, <1>4, <1>5, <1>6, <1>7, <1>8, <1>9, <1>10, <1>11, <1>12, <1>13 DEF TabStep

LEMMA TypeStep ==
    ASSUME TypeOK, ScopesLast, PageKnows, [Next]_vars
    PROVE  TypeOK'
<1>1. CASE TabStep
  BY <1>1, TabTypes
<1>2. CASE OtherAsks
  <2>1. PICK r \in AllRequests : Ask(Other, r)
    <3>1. ASSUME NEW id \in accounts, config[id] # Null, NEW f \in {"transport", "notifyToken"},
                 NEW v \in Typed[f]
          PROVE  Put(id, [Shown(id) EXCEPT ![f] = v], Shown(id), TRUE) \in AllRequests
      <4>1. id \in Ids /\ Shown(id) \in Forms
        BY <3>1, IdsAre, ShownTyped DEF TypeOK
      <4>2. v \in Texts
        BY FieldsAreTyped DEF FormFields, RowFields
      <4>3. [Shown(id) EXCEPT ![f] = v] \in Forms
        <5> DEFINE form == Shown(id)
        <5>1. form \in [FormFields -> Texts] /\ form["method"] \in Methods
          BY <4>1 DEF Forms
        <5> HIDE DEF form
        <5>2. [form EXCEPT ![f] = v] \in [FormFields -> Texts]
          BY <5>1, <4>2
        <5>3. [form EXCEPT ![f] = v]["method"] = form["method"]
          BY <5>1 DEF FormFields, RowFields
        <5>4. [form EXCEPT ![f] = v] \in Forms
          BY <5>1, <5>2, <5>3 DEF Forms
        <5> QED BY <5>4 DEF form
      <4> QED BY <4>1, <4>3, PutTyped DEF TypeOK
    <3>2. ASSUME NEW id \in accounts
          PROVE  [pc |-> "asked", op |-> "delete", id |-> id, status |-> 0] \in AllRequests
      BY IdsAre DEF TypeOK, AllRequests, DeleteRequests
    <3>3. ASSUME NEW i \in ScriptIds, NEW op \in {"promote", "deprecate", "publish"}
          PROVE  ScriptRequest(op, i) \in AllRequests
      BY DEF ScriptRequest, AllRequests, ScriptRequests
    <3> QED BY <1>2, <3>1, <3>2, <3>3 DEF OtherAsks
  <2>2. RequestsTyped'
    BY <2>1, AskTyped DEF TypeOK
  <2> QED BY <1>2, <2>2 DEF TypeOK, RowsTyped, ScriptsTyped, PageTyped, OtherAsks, books, pages
<1>3. ASSUME NEW s \in Slots, ServerStep(s) PROVE TypeOK'
  <2>1. PageTyped'
    BY <1>3 DEF TypeOK, PageTyped, ServerStep, pages
  <2>2. CASE AccountStep(s) /\ Cascade
    BY <2>1, <2>2, AccountStepTypes, CascadeTypes DEF TypeOK
  <2>3. CASE CatalogStep(s)
    <3>1. RowsTyped'
      BY <2>3 DEF TypeOK, RowsTyped, CatalogStep, ReadScript, MakeOfficial, ClearScope,
        CommitPromotion, SaveDeprecated, books
    <3> QED BY <2>1, <2>3, <3>1, CatalogStepTypes DEF TypeOK, ScopesLast
  <2> QED BY <1>3, <2>2, <2>3 DEF ServerStep
<1>4. ASSUME NEW s \in Slots, Fails(s) PROVE TypeOK'
  <2>1. req[s].pc # "idle"
    BY <1>4 DEF Fails, RequestFails
  <2>2. RequestsTyped'
    BY <1>4, <2>1, AnsweredTyped DEF TypeOK, RequestsTyped, Fails, RequestFails
  <2> QED BY <1>4, <2>2 DEF TypeOK, RowsTyped, ScriptsTyped, PageTyped, Fails, books, pages
<1>5. CASE ModeChanges /\ UNCHANGED <<scripts, pages>>
  BY <1>5 DEF TypeOK, RequestsTyped, RowsTyped, ScriptsTyped, PageTyped, ModeChanges, pages, Modes
<1>6. CASE UNCHANGED vars
  BY <1>6 DEF TypeOK, RequestsTyped, RowsTyped, ScriptsTyped, PageTyped, vars, books, pages
<1> QED BY <1>1, <1>2, <1>3, <1>4, <1>5, <1>6 DEF Next

-----------------------------------------------------------------------------
(* Scripts keep their scope. *)

(* Steps that leave the tables of accounts and scripts alone, and in every *)
(* request either what it was or no copy to save.                          *)
LEMMA ScopesKept ==
    ASSUME ScopesLast, UNCHANGED <<accounts, created, scripts>>,
           \A t \in Slots : req'[t] = req[t] \/ req'[t].pc \notin {"loaded", "cleared"}
    PROVE  ScopesLast'
<1>1. ASSUME NEW t \in Slots PROVE CopyFits(t)'
  BY <1>1 DEF ScopesLast, CopyFits, OfScope, Gone
<1> QED BY <1>1 DEF ScopesLast, Gone

LEMMA AnsweredIsOver ==
    ASSUME RequestsTyped, NEW s \in Slots, req[s].pc # "idle", NEW status \in Nat
    PROVE  Answered(s, status).pc \notin {"loaded", "cleared"}
<1>1. req[s] \in PutRequests \cup CreateRequests \cup DeleteRequests \cup ScriptRequests
  BY Kinds
<1>2. [req[s] EXCEPT !.pc = "answered", !.status = status].pc = "answered"
  BY <1>1 DEF PutRequests, CreateRequests, DeleteRequests, ScriptRequests
<1> QED BY <1>2 DEF Answered, Idle

LEMMA AnswerIsOver ==
    ASSUME RequestsTyped, NEW s \in Slots, req[s].pc # "idle", NEW status \in Nat,
           Answer(s, status)
    PROVE  \A t \in Slots : req'[t] = req[t] \/ req'[t].pc \notin {"loaded", "cleared"}
  BY AnsweredIsOver DEF Answer, Holding, RequestsTyped

LEMMA HeldIsOver ==
    ASSUME RequestsTyped, NEW s \in Slots, NEW r, r.pc \notin {"loaded", "cleared"}, Holding(s, r)
    PROVE  \A t \in Slots : req'[t] = req[t] \/ req'[t].pc \notin {"loaded", "cleared"}
  BY DEF Holding, RequestsTyped

LEMMA AskIsOver ==
    ASSUME RequestsTyped, NEW s \in Slots, NEW r, r.pc \notin {"loaded", "cleared"}, Ask(s, r)
    PROVE  \A t \in Slots : req'[t] = req[t] \/ req'[t].pc \notin {"loaded", "cleared"}
  BY DEF Ask, RequestsTyped

LEMMA AccountStepScopes ==
    ASSUME TypeOK, ScopesLast, NEW s \in Slots, AccountStep(s), Cascade
    PROVE  ScopesLast'
<1> DEFINE Over == \A t \in Slots : req'[t] = req[t] \/ req'[t].pc \notin {"loaded", "cleared"}
<1>0. RequestsTyped
  BY DEF TypeOK
<1>1. Over
  <2>1. ASSUME PutChecks(s) PROVE Over
    <3>1. [req[s] EXCEPT !.pc = "checked"].pc = "checked"
      BY <1>0, <2>1, Kinds DEF PutChecks, At, PutRequests
    <3>2. CASE Holding(s, [req[s] EXCEPT !.pc = "checked"])
      BY <1>0, <3>1, <3>2, HeldIsOver
    <3>3. CASE \E status \in Nat : Answer(s, status)
      BY <1>0, <2>1, <3>3, AnswerIsOver DEF PutChecks, At
    <3> QED BY <2>1, <3>2, <3>3 DEF PutChecks
  <2>2. ASSUME PutResolves(s) PROVE Over
    <3> DEFINE row == NewRow(config[req[s].id], req[s].body)
    <3>1. [req[s] EXCEPT !.pc = "resolved", !.row = row].pc = "resolved"
      BY <1>0, <2>2, Kinds DEF PutResolves, At, PutRequests
    <3>2. CASE Holding(s, [req[s] EXCEPT !.pc = "resolved", !.row = row])
      BY <1>0, <3>1, <3>2, HeldIsOver
    <3>3. CASE \E status \in Nat : Answer(s, status)
      BY <1>0, <2>2, <3>3, AnswerIsOver DEF PutResolves, At
    <3> QED BY <2>2, <3>2, <3>3 DEF PutResolves
  <2>3. ASSUME PutConfig(s) PROVE Over
    <3>1. [req[s] EXCEPT !.pc = "stored"].pc = "stored"
      BY <1>0, <2>3, Kinds DEF PutConfig, At, PutRequests
    <3>2. CASE Holding(s, [req[s] EXCEPT !.pc = "stored"])
      BY <1>0, <3>1, <3>2, HeldIsOver
    <3>3. CASE \E status \in Nat : Answer(s, status)
      BY <1>0, <2>3, <3>3, AnswerIsOver DEF PutConfig, At
    <3> QED BY <2>3, <3>2, <3>3 DEF PutConfig
  <2>4. ASSUME PutCredentials(s) \/ CreateAccount(s) \/ DeleteAccount(s) PROVE Over
    BY <1>0, <2>4, AnswerIsOver DEF PutCredentials, CreateAccount, DeleteAccount, At
  <2> QED BY <2>1, <2>2, <2>3, <2>4 DEF AccountStep
<1>2. CASE UNCHANGED accounts /\ UNCHANGED created
  <2>1. \A i \in ScriptIds : scripts'[i] = scripts[i]
    BY <1>2 DEF Cascade
  <2>2. scripts' = scripts
    BY <2>1, CascadeTypes DEF TypeOK, ScriptsTyped
  <2> QED BY <1>1, <1>2, <2>2, ScopesKept
<1>3. CASE CreateAccount(s)
  <2>1. /\ accounts' = accounts \cup {created + 1}
        /\ created' = created + 1 /\ created \in Nat /\ accounts \subseteq 1 .. created
    BY <1>3, IdsAre DEF CreateAccount, TypeOK, RowsTyped
  <2>2. \A i \in ScriptIds : scripts'[i] = scripts[i]
    BY <2>1 DEF Cascade
  <2>3. \A scope : Gone(scope)' => Gone(scope)
    BY <2>1 DEF Gone
  <2>4. \A scope : scope \in Ids /\ scope <= created => (Gone(scope)' <=> Gone(scope))
    BY <2>1 DEF Gone, Ids
  <2>5. ASSUME NEW t \in Slots, req'[t] = req[t], req[t].pc \in {"loaded", "cleared"}
        PROVE  CopyFits(t)'
    <3>1. CopyFits(t)
      BY DEF ScopesLast
    <3> DEFINE scope == req[t].copy.scope
    <3>2. (scope \in Ids => scope <= created) /\ (Gone(scope)' <=> Gone(scope))
      BY <2>4, <2>5, <3>1 DEF CopyFits, Gone
    <3>3. scope \in Ids => scope <= created'
      BY <2>1, <3>2 DEF Ids
    <3>4. req[t] \in ScriptRequests
      BY <1>0, <2>5, Kinds
    <3>5. \A i \in ScriptIds : \A x : OfScope(i, x)' <=> OfScope(i, x)
      BY <2>2 DEF OfScope
    <3> QED BY <2>2, <2>5, <3>1, <3>2, <3>3, <3>4, <3>5 DEF CopyFits, ScriptRequests
  <2>6. \A t \in Slots : CopyFits(t)'
    BY <1>1, <2>5 DEF CopyFits
  <2> QED BY <2>2, <2>3, <2>6 DEF ScopesLast
<1>4. CASE DeleteAccount(s) /\ req[s].id \in accounts
  <2>1. accounts' = accounts \ {req[s].id} /\ created' = created
    BY <1>4 DEF DeleteAccount
  <2>2. \A i \in ScriptIds : scripts[i] # Null =>
           IF scripts[i].scope = req[s].id THEN scripts'[i] = Null ELSE scripts'[i] = scripts[i]
    BY <1>4, <2>1 DEF Cascade
  <2>3. \A i \in ScriptIds : scripts[i] = Null => scripts'[i] = Null
    BY DEF Cascade
  <2>4. req[s].id \in Ids
    BY <1>4, IdsAre DEF TypeOK
  <2>5. \A scope : Gone(scope)' <=> Gone(scope) \/ scope = req[s].id
    BY <2>1, <2>4 DEF Gone
  <2>6. ASSUME NEW t \in Slots, req'[t] = req[t], req[t].pc \in {"loaded", "cleared"}
        PROVE  CopyFits(t)'
    <3>1. CopyFits(t) /\ req[t] \in ScriptRequests
      BY <1>0, <2>6, Kinds DEF ScopesLast
    <3>2. \A i \in ScriptIds : \A x : OfScope(i, x) /\ ~Gone(x)' => OfScope(i, x)'
      BY <2>2, <2>5 DEF OfScope
    <3> QED BY <2>1, <2>3, <2>5, <2>6, <3>1, <3>2 DEF CopyFits, ScriptRequests
  <2>7. \A t \in Slots : CopyFits(t)'
    BY <1>1, <2>6 DEF CopyFits
  <2>8. \A i \in ScriptIds : scripts'[i] # Null => scripts'[i].scope \notin Ids \ accounts'
    BY <2>1, <2>2, <2>3 DEF ScopesLast, Gone
  <2> QED BY <2>7, <2>8 DEF ScopesLast, Gone
<1>5. CreateAccount(s) \/ (DeleteAccount(s) /\ req[s].id \in accounts)
        \/ (UNCHANGED accounts /\ UNCHANGED created)
  BY DEF AccountStep, PutChecks, PutResolves, PutConfig, PutCredentials, DeleteAccount, books
<1> QED BY <1>2, <1>3, <1>4, <1>5

(* What the saves of the catalog do: row i becomes row, and those of gone  *)
(* are deprecated.                                                         *)
LEMMA SavedScopes ==
    ASSUME TypeOK, ScopesLast, NEW s \in Slots, req[s].pc \in {"loaded", "cleared"},
           ~Gone(req[s].copy.scope), UNCHANGED books,
           \A t \in Slots : req'[t] = req[t] \/ req'[t].pc \notin {"loaded", "cleared"},
           scripts'[req[s].id] # Null, scripts'[req[s].id].scope = req[s].copy.scope,
           \A i \in ScriptIds \ {req[s].id} :
             /\ scripts'[i] = Null <=> scripts[i] = Null
             /\ scripts[i] # Null => scripts'[i].scope = scripts[i].scope
    PROVE  ScopesLast'
<1>0. PICK id, scope : id = req[s].id /\ scope = req[s].copy.scope
  OBVIOUS
<1>1. CopyFits(s) /\ req[s] \in ScriptRequests
  BY Kinds DEF TypeOK, ScopesLast
<1>2. OfScope(id, scope)' /\ id \in ScriptIds
  BY <1>0, <1>1 DEF OfScope, ScriptRequests
<1>3. scripts[id] # Null => scripts[id].scope = scope
  BY <1>0, <1>1 DEF CopyFits, OfScope
<1>4. UNCHANGED <<accounts, created>>
  BY DEF books
<1>5. \A x : Gone(x)' <=> Gone(x)
  BY <1>4 DEF Gone
<1>6. \A i \in ScriptIds : \A x : OfScope(i, x) => OfScope(i, x)'
  BY <1>0, <1>2, <1>3 DEF OfScope
<1>7. ASSUME NEW t \in Slots, req'[t] = req[t], req[t].pc \in {"loaded", "cleared"}
      PROVE  CopyFits(t)'
  <2>1. CopyFits(t) /\ req[t] \in ScriptRequests
    BY <1>7, Kinds DEF TypeOK, ScopesLast
  <2>2. ASSUME ~Gone(req[t].copy.scope), req[t].op = "publish", scripts[req[t].id] = Null
        PROVE  \/ OfScope(req[t].id, req[t].copy.scope)'
               \/ scripts'[req[t].id] = Null
    <3>1. CASE req[t].id # id
      BY <1>0, <2>1, <2>2, <3>1 DEF ScriptRequests
    <3>2. CASE req[t].id = id
      <4>1. req[s].op = "publish" /\ scope = Official
        BY <1>0, <1>1, <2>2, <3>2 DEF CopyFits, OfScope
      <4>2. req[t].copy.scope = Official
        BY <2>1, <2>2, <1>7 DEF CopyFits
      <4> QED BY <1>2, <1>7, <3>2, <4>1, <4>2
    <3> QED BY <3>1, <3>2
  <2> QED BY <1>4, <1>5, <1>6, <1>7, <2>1, <2>2 DEF CopyFits, ScriptRequests
<1>8. \A t \in Slots : CopyFits(t)'
  BY <1>7 DEF CopyFits
<1>9. \A i \in ScriptIds : scripts'[i] # Null => scripts'[i].scope \notin Ids \ accounts'
  BY <1>0, <1>3, <1>4 DEF ScopesLast, Gone
<1> QED BY <1>8, <1>9 DEF ScopesLast, Gone

LEMMA CatalogStepScopes ==
    ASSUME TypeOK, ScopesLast, NEW s \in Slots, CatalogStep(s)
    PROVE  ScopesLast'
<1> DEFINE Over == \A t \in Slots : req'[t] = req[t] \/ req'[t].pc \notin {"loaded", "cleared"}
           Others == \A t \in Slots \ {s} : req'[t] = req[t]
<1>0. RequestsTyped /\ CopyFits(s)
  BY DEF TypeOK, ScopesLast
<1>1. ASSUME NEW status \in Nat, req[s].pc # "idle", Answer(s, status),
             UNCHANGED <<accounts, created, scripts>>
      PROVE  ScopesLast'
  BY <1>0, <1>1, AnswerIsOver, ScopesKept
<1>2. ASSUME NEW r \in AllRequests, r.pc # "idle", Holding(s, r), UNCHANGED <<books, scripts>>,
             CopyFits(s)'
      PROVE  ScopesLast'
  <2>1. Others
    BY <1>0, <1>2 DEF Holding, RequestsTyped
  <2>2. ASSUME NEW t \in Slots \ {s} PROVE CopyFits(t)'
    BY <1>2, <2>1, <2>2 DEF ScopesLast, CopyFits, OfScope, Gone, books
  <2> QED BY <1>2, <2>2 DEF ScopesLast, Gone, books
<1>3. ASSUME ReadScript(s) PROVE ScopesLast'
  <2>1. req[s] \in ScriptRequests
    BY <1>0, <1>3, Kinds DEF ReadScript
  <2> DEFINE row == scripts[req[s].id]
             r == [req[s] EXCEPT !.pc = "loaded", !.copy = row]
  <2>2. CASE Holding(s, r) /\ row # Null /\ row.scope # Official
    <3>1. r \in AllRequests /\ r.pc = "loaded" /\ r.copy = row /\ r.id = req[s].id
            /\ r.op = req[s].op
      BY <2>1 DEF ScriptRequests, AllRequests, TypeOK, ScriptsTyped
    <3>2. req'[s] = r
      BY <1>0, <2>2 DEF Holding, RequestsTyped
    <3>3. r.op # "publish"
      BY <1>3, <3>1 DEF ReadScript
    <3>4. row.scope \in Ids => row.scope <= created
      BY <2>1, <2>2 DEF ScopesLast, Gone, TypeOK, RowsTyped, ScriptRequests
    <3>5. UNCHANGED <<books, scripts>>
      BY <1>3 DEF ReadScript
    <3>6. CopyFits(s)'
      BY <2>2, <3>1, <3>2, <3>3, <3>4, <3>5 DEF CopyFits, OfScope, books
    <3> QED BY <1>2, <2>2, <3>1, <3>5, <3>6
  <2>3. CASE \E status \in Nat : Answer(s, status)
    BY <1>1, <1>3, <2>3 DEF ReadScript, books
  <2> QED BY <1>3, <2>2, <2>3 DEF ReadScript
<1>4. ASSUME MakeOfficial(s) PROVE ScopesLast'
  <2> DEFINE row == [scope |-> Official, status |-> "review"]
             r == [req[s] EXCEPT !.pc = "loaded", !.copy = row]
  <2>1. req[s] \in ScriptRequests /\ req[s].op = "publish" /\ scripts[req[s].id] = Null
    BY <1>0, <1>4, Kinds DEF MakeOfficial, At
  <2>2. row \in ScriptRows /\ row # Null
    BY ScopesDiffer DEF ScriptRows, Scopes
  <2>3. r \in AllRequests /\ r.pc = "loaded" /\ r.copy = row /\ r.id = req[s].id
          /\ r.op = "publish"
    BY <2>1, <2>2 DEF ScriptRequests, AllRequests
  <2>4. req'[s] = r /\ UNCHANGED <<books, scripts>>
    BY <1>0, <1>4 DEF MakeOfficial, Holding, RequestsTyped
  <2>5. CopyFits(s)'
    BY <2>1, <2>2, <2>3, <2>4, ScopesDiffer DEF CopyFits, books
  <2> QED BY <1>2, <1>4, <2>3, <2>4, <2>5 DEF MakeOfficial
<1>5. ASSUME ClearScope(s) PROVE ScopesLast'
  <2> DEFINE seen == Active(req[s].copy.scope)
             r == [req[s] EXCEPT !.pc = "cleared", !.seen = seen]
  <2>1. req[s] \in ScriptRequests /\ req[s].pc = "loaded"
    BY <1>0, <1>5, Kinds DEF ClearScope
  <2>2. seen \in SUBSET ScriptIds /\ \A j \in seen : OfScope(j, req[s].copy.scope)
    BY DEF Active, ActiveIn, OfScope
  <2>3. r \in AllRequests /\ r.pc = "cleared" /\ r.copy = req[s].copy /\ r.id = req[s].id
          /\ r.op = req[s].op /\ r.seen = seen
    <3> HIDE DEF seen
    <3> QED BY <2>1, <2>2 DEF ScriptRequests, AllRequests
  <2>4. req'[s] = r /\ UNCHANGED <<books, scripts>>
    BY <1>0, <1>5 DEF ClearScope, Holding, RequestsTyped
  <2>5. CopyFits(s)'
    <3> HIDE DEF r, seen
    <3> QED BY <1>0, <2>1, <2>2, <2>3, <2>4 DEF CopyFits, OfScope, Gone, books
  <2> QED BY <1>2, <1>5, <2>3, <2>4, <2>5 DEF ClearScope
<1>6. ASSUME CommitPromotion(s) PROVE ScopesLast'
  <2>1. req[s] \in ScriptRequests /\ req[s].pc = "cleared"
    BY <1>0, <1>6, Kinds DEF CommitPromotion
  <2>2. CASE Rejected(s)
    BY <1>1, <1>6, <2>1, <2>2 DEF CommitPromotion, books
  <2>3. CASE ~Rejected(s)
    <3>1. ~Gone(req[s].copy.scope)
      BY <2>3 DEF Rejected, Gone
    <3>2. Over
      BY <1>0, <1>6, <2>1, <2>3, AnswerIsOver DEF CommitPromotion
    <3>3. req[s].copy \in ScriptRows
      BY <1>0, <2>1 DEF CopyFits, ScriptRequests
    <3>4. scripts'[req[s].id] = [req[s].copy EXCEPT !.status = "active"]
      BY <1>6, <2>1, <2>3 DEF CommitPromotion, ScriptRequests
    <3>5. scripts'[req[s].id] # Null /\ scripts'[req[s].id].scope = req[s].copy.scope
      <4> DEFINE row == [req[s].copy EXCEPT !.status = "active"]
      <4>1. row \in ScriptRows /\ row.scope = req[s].copy.scope
        BY <3>3, StatusTyped
      <4>2. row # Null
        BY <4>1, ScopesDiffer
      <4> QED BY <3>4, <4>1, <4>2
    <3>6. ASSUME NEW i \in ScriptIds \ {req[s].id}
          PROVE  /\ scripts'[i] = Null <=> scripts[i] = Null
                 /\ scripts[i] # Null => scripts'[i].scope = scripts[i].scope
      <4>1. scripts[i] # Null =>
              /\ [scripts[i] EXCEPT !.status = "deprecated"] # Null
              /\ [scripts[i] EXCEPT !.status = "deprecated"].scope = scripts[i].scope
        BY StatusTyped, ScopesDiffer DEF TypeOK, ScriptsTyped
      <4> QED BY <1>6, <2>3, <4>1 DEF CommitPromotion
    <3>7. UNCHANGED books
      BY <1>6 DEF CommitPromotion
    <3> QED BY <2>1, <3>1, <3>2, <3>5, <3>6, <3>7, SavedScopes
  <2> QED BY <2>2, <2>3
<1>7. ASSUME SaveDeprecated(s) PROVE ScopesLast'
  <2>1. req[s] \in ScriptRequests /\ req[s].pc = "loaded"
    BY <1>0, <1>7, Kinds DEF SaveDeprecated, At
  <2>2. CASE Gone(req[s].copy.scope)
    BY <1>1, <1>7, <2>1, <2>2 DEF SaveDeprecated, books, Gone
  <2>3. CASE ~Gone(req[s].copy.scope)
    <3>1. UNCHANGED books /\ Answer(s, 200)
      BY <1>7, <2>3 DEF SaveDeprecated, Gone
    <3>2. Over
      BY <1>0, <2>1, <3>1, AnswerIsOver
    <3>3. req[s].copy \in ScriptRows
      BY <1>0, <2>1 DEF CopyFits, ScriptRequests
    <3>4. scripts' = [scripts EXCEPT ![req[s].id] = [req[s].copy EXCEPT !.status = "deprecated"]]
      BY <1>7, <2>3 DEF SaveDeprecated, Gone
    <3>5. scripts'[req[s].id] = [req[s].copy EXCEPT !.status = "deprecated"]
      BY <2>1, <3>4 DEF ScriptRequests, TypeOK, ScriptsTyped
    <3>6. scripts'[req[s].id] # Null /\ scripts'[req[s].id].scope = req[s].copy.scope
      <4> DEFINE row == [req[s].copy EXCEPT !.status = "deprecated"]
      <4>1. row \in ScriptRows /\ row.scope = req[s].copy.scope
        BY <3>3, StatusTyped
      <4>2. row # Null
        BY <4>1, ScopesDiffer
      <4> QED BY <3>5, <4>1, <4>2
    <3>7. \A i \in ScriptIds \ {req[s].id} : scripts'[i] = scripts[i]
      BY <3>4 DEF TypeOK, ScriptsTyped
    <3> QED BY <2>1, <2>3, <3>1, <3>2, <3>6, <3>7, SavedScopes
  <2> QED BY <2>2, <2>3
<1> QED BY <1>3, <1>4, <1>5, <1>6, <1>7 DEF CatalogStep

LEMMA ScopesStep ==
    ASSUME TypeOK, ScopesLast, [Next]_vars
    PROVE  ScopesLast'
<1> DEFINE Over == \A t \in Slots : req'[t] = req[t] \/ req'[t].pc \notin {"loaded", "cleared"}
<1>0. RequestsTyped
  BY DEF TypeOK
<1>1. CASE UNCHANGED req /\ UNCHANGED <<accounts, created, scripts>>
  BY <1>1, ScopesKept
<1>2. CASE TabStep
  <2>1. UNCHANGED <<accounts, created, scripts>>
    BY <1>2 DEF TabStep, FetchLists, FetchConfig, Visit, OpenCreate, FillCreate, SubmitCreate,
      CloseDialog, Configure, Edit, Save, OpenDelete, ConfirmDelete, Promote, Handle,
      Shows, Stays, Sends, books
  <2>2. \/ UNCHANGED req
        \/ Holding(Tab, Idle)
        \/ \E r : r.pc = "asked" /\ Ask(Tab, r)
    <3>1. ASSUME Save PROVE \E r : r.pc = "asked" /\ Ask(Tab, r)
      BY <3>1 DEF Save, Put
    <3>2. ASSUME SubmitCreate \/ ConfirmDelete \/ \E i \in ScriptIds : Promote(i)
          PROVE  \E r : r.pc = "asked" /\ Ask(Tab, r)
      BY <3>2 DEF SubmitCreate, ConfirmDelete, Promote, Sends, ScriptRequest
    <3>3. ASSUME Handle PROVE Holding(Tab, Idle)
      BY <3>3 DEF Handle, Take
    <3>4. \/ Save \/ SubmitCreate \/ ConfirmDelete \/ \E i \in ScriptIds : Promote(i)
          \/ Handle \/ UNCHANGED req
      BY <1>2 DEF TabStep, FetchLists, FetchConfig, Visit, OpenCreate, FillCreate,
        CloseDialog, Configure, Edit, OpenDelete, Shows, Stays
    <3> QED BY <3>1, <3>2, <3>3, <3>4
  <2>3. Over
    <3>1. Idle.pc = "idle"
      BY DEF Idle
    <3> QED BY <1>0, <2>2, <3>1, HeldIsOver, AskIsOver
  <2> QED BY <2>1, <2>3, ScopesKept
<1>3. CASE OtherAsks
  <2>1. PICK r : r.pc = "asked" /\ Ask(Other, r)
    BY <1>3 DEF OtherAsks, Put, ScriptRequest
  <2>2. Over
    BY <1>0, <2>1, AskIsOver
  <2> QED BY <1>3, <2>2, ScopesKept DEF OtherAsks, books
<1>4. ASSUME NEW s \in Slots, ServerStep(s) PROVE ScopesLast'
  BY <1>4, AccountStepScopes, CatalogStepScopes DEF ServerStep
<1>5. ASSUME NEW s \in Slots, Fails(s) PROVE ScopesLast'
  <2>1. req[s].pc # "idle" /\ req' = [req EXCEPT ![s] = Answered(s, 500)]
    BY <1>5 DEF Fails, RequestFails
  <2>2. Over
    BY <1>0, <2>1, AnsweredIsOver DEF RequestsTyped
  <2> QED BY <1>5, <2>2, ScopesKept DEF Fails, books
<1>6. CASE ModeChanges /\ UNCHANGED <<scripts, pages>>
  BY <1>1, <1>6 DEF ModeChanges
<1>7. CASE UNCHANGED vars
  BY <1>1, <1>7 DEF vars, books
<1> QED BY <1>2, <1>3, <1>4, <1>5, <1>6, <1>7 DEF Next

-----------------------------------------------------------------------------
(* What an account loads. *)

GivesWay(id) ==
    \A i \in Loaded(id) \ Loaded(id)' :
       \/ \E j \in Loaded(id)' : Width(scripts'[j].scope) <= Width(scripts[i].scope)
       \/ \E s \in Slots : /\ At(s, "deprecate", "loaded") /\ req[s].id = i
                           /\ req'[s].pc # "loaded"

LEMMA SameLoaded ==
    ASSUME NEW id, \A x \in {id, Mine, Official} : Active(x)' = Active(x)
    PROVE  GivesWay(id)
  BY DEF GivesWay, Loaded

(* A scope in which row k is made active and others are deprecated.        *)
LEMMA PromotedGivesWay ==
    ASSUME NEW id \in Ids, NEW k, NEW scope,
           k \in Active(scope)', \A x : x # scope => Active(x)' = Active(x)
    PROVE  GivesWay(id)
<1>1. \A x : \A i \in Active(x) : scripts[i].scope = x
  BY DEF Active, ActiveIn
<1>2. scripts'[k].scope = scope
  BY DEF Active, ActiveIn
<1>3. Width(id) = 1 /\ Width(Mine) = 2 /\ Width(Official) = 3
  BY ScopesDiffer DEF Width
<1>4. id # Mine /\ id # Official /\ Mine # Official
  BY ScopesDiffer
<1>5. ASSUME NEW i \in Loaded(id) \ Loaded(id)'
      PROVE  \E j \in Loaded(id)' : Width(scripts'[j].scope) <= Width(scripts[i].scope)
  <2>1. scripts[i].scope \in {id, Mine, Official}
    BY <1>1, <1>5 DEF Loaded
  <2>2. CASE scope = id
    <3>1. k \in Loaded(id)'
      BY <2>2 DEF Loaded
    <3> QED BY <1>2, <1>3, <2>1, <2>2, <3>1
  <2>3. CASE scope = Mine
    <3>1. Active(id)' = Active(id)
      BY <1>4, <2>3
    <3>2. Active(id) = {}
      BY <1>5, <3>1 DEF Loaded
    <3>3. k \in Loaded(id)'
      BY <2>3, <3>1, <3>2 DEF Loaded
    <3>4. scripts[i].scope \in {Mine, Official}
      BY <1>1, <1>5, <3>2 DEF Loaded
    <3> QED BY <1>2, <1>3, <2>3, <3>3, <3>4
  <2>4. CASE scope = Official
    <3>1. Active(id)' = Active(id) /\ Active(Mine)' = Active(Mine)
      BY <1>4, <2>4
    <3>2. Active(id) = {} /\ Active(Mine) = {}
      BY <1>5, <3>1 DEF Loaded
    <3>3. k \in Loaded(id)'
      BY <2>4, <3>1, <3>2 DEF Loaded
    <3>4. scripts[i].scope = Official
      BY <1>1, <1>5, <3>2 DEF Loaded
    <3> QED BY <1>2, <1>3, <2>4, <3>3, <3>4
  <2>5. CASE scope \notin {id, Mine, Official}
    BY <1>5, <2>5 DEF Loaded
  <2> QED BY <2>2, <2>3, <2>4, <2>5
<1> QED BY <1>5 DEF GivesWay

LEMMA GivesWayStep ==
    ASSUME TypeOK, ScopesLast, [Next]_vars, NEW id \in accounts, id \in accounts'
    PROVE  GivesWay(id)
<1>0. id \in Ids /\ Mine \notin Ids /\ Official \notin Ids
  BY IdsAre, ScopesDiffer DEF TypeOK
<1>1. CASE UNCHANGED scripts
  BY <1>1, SameLoaded DEF Active, ActiveIn
<1>2. CASE Cascade
  <2>1. ASSUME NEW x, x \notin accounts \ accounts' PROVE Active(x)' = Active(x)
    <3>1. \A i \in ScriptIds : scripts[i] # Null /\ scripts[i].scope = x => scripts'[i] = scripts[i]
      BY <1>2, <2>1 DEF Cascade
    <3>2. \A i \in ScriptIds : scripts'[i] # Null => scripts'[i] = scripts[i]
      BY <1>2 DEF Cascade
    <3> QED BY <3>1, <3>2 DEF Active, ActiveIn
  <2>2. accounts \ accounts' \subseteq Ids
    BY IdsAre DEF TypeOK
  <2> QED BY <1>0, <2>1, <2>2, SameLoaded
<1>3. ASSUME NEW s \in Slots, CommitPromotion(s) PROVE GivesWay(id)
  <2>1. req[s] \in ScriptRequests /\ req[s].pc = "cleared" /\ CopyFits(s)
    BY <1>3, Kinds DEF CommitPromotion, TypeOK, ScopesLast
  <2>2. CASE Rejected(s)
    BY <1>1, <1>3, <2>2 DEF CommitPromotion
  <2>3. CASE ~Rejected(s)
    <3>1. PICK k, scope : k = req[s].id /\ scope = req[s].copy.scope
      OBVIOUS
    <3>2. PICK row : row = [req[s].copy EXCEPT !.status = "active"]
      OBVIOUS
    <3>3. row \in ScriptRows /\ row.scope = scope /\ row.status = "active" /\ row # Null
      <4>1. req[s].copy \in ScriptRows
        BY <2>1 DEF CopyFits, ScriptRequests
      <4>2. row \in ScriptRows /\ row.scope = scope /\ row.status = "active"
        BY <3>1, <3>2, <4>1, StatusTyped
      <4> QED BY <4>2, ScopesDiffer
    <3>4. k \in ScriptIds /\ scripts'[k] = row
      BY <1>3, <2>1, <2>3, <3>1, <3>2 DEF CommitPromotion, ScriptRequests
    <3>5. k \in Active(scope)'
      BY <3>3, <3>4 DEF Active, ActiveIn
    <3>6. /\ OfScope(k, scope) \/ scripts[k] = Null
          /\ \A j \in req[s].seen : OfScope(j, scope)
      BY <2>1, <2>3, <3>1 DEF CopyFits, Rejected, Gone
    <3>7. ASSUME NEW i \in ScriptIds \ {k}, i \notin req[s].seen PROVE scripts'[i] = scripts[i]
      BY <1>3, <2>3, <3>1, <3>7 DEF CommitPromotion
    <3>8. ASSUME NEW i \in ScriptIds \ {k}, i \in req[s].seen PROVE scripts'[i].status = "deprecated"
      <4>1. scripts[i] \in ScriptRows
        BY <3>6, <3>8 DEF OfScope, TypeOK, ScriptsTyped
      <4>2. scripts'[i] = [scripts[i] EXCEPT !.status = "deprecated"]
        BY <1>3, <2>3, <3>1, <3>6, <3>8 DEF CommitPromotion, OfScope
      <4> QED BY <4>1, <4>2, StatusTyped
    <3>9. ASSUME NEW x, x # scope PROVE Active(x)' = Active(x)
      <4>1. \A i \in Active(x) : i # k /\ i \notin req[s].seen
        BY <3>6, <3>9 DEF Active, ActiveIn, OfScope
      <4>2. \A i \in Active(x)' : i # k /\ i \notin req[s].seen
        <5>1. ASSUME NEW i \in ScriptIds, i \in req[s].seen, i # k, scripts'[i].status = "active"
              PROVE  FALSE
          BY <3>8, <5>1
        <5>2. scripts'[k].scope = scope
          BY <3>3, <3>4
        <5> QED BY <3>9, <5>1, <5>2 DEF Active, ActiveIn
      <4> QED BY <3>7, <4>1, <4>2 DEF Active, ActiveIn
    <3> QED BY <1>0, <3>5, <3>9, PromotedGivesWay
  <2> QED BY <2>2, <2>3
<1>4. ASSUME NEW s \in Slots, SaveDeprecated(s) PROVE GivesWay(id)
  <2>1. req[s] \in ScriptRequests /\ At(s, "deprecate", "loaded") /\ CopyFits(s)
    BY <1>4, Kinds DEF SaveDeprecated, At, TypeOK, ScopesLast
  <2>2. CASE scripts' = scripts
    BY <1>1, <2>2
  <2>a. req'[s].pc # "loaded"
    <3>1. \A status : [req[s] EXCEPT !.pc = "answered", !.status = status].pc = "answered"
      BY <2>1 DEF ScriptRequests
    <3>2. \A status : Answered(s, status).pc # "loaded"
      BY <3>1 DEF Answered, Idle
    <3>3. PICK status : Answer(s, status)
      BY <1>4, Zenon DEF SaveDeprecated
    <3> QED BY <3>2, <3>3 DEF Answer, Holding, TypeOK, RequestsTyped
  <2>3. CASE scripts' # scripts
    <3>1. PICK k : k = req[s].id /\ k \in ScriptIds
      BY <2>1 DEF ScriptRequests
    <3>2. req[s].copy \in ScriptRows
      BY <2>1 DEF CopyFits, ScriptRequests, At
    <3>3. scripts' = [scripts EXCEPT ![k] = [req[s].copy EXCEPT !.status = "deprecated"]]
      BY <1>4, <2>3, <3>1 DEF SaveDeprecated
    <3>4. scripts'[k].status = "deprecated"
      BY <3>1, <3>2, <3>3, StatusTyped DEF TypeOK, ScriptsTyped
    <3>5. \A i \in ScriptIds \ {k} : scripts'[i] = scripts[i]
      BY <3>3 DEF TypeOK, ScriptsTyped
    <3>6. \A x : Active(x)' = Active(x) \ {k}
      BY <3>4, <3>5 DEF Active, ActiveIn
    <3>7. \A i \in Loaded(id) \ {k} : i \in Loaded(id)'
      BY <3>6 DEF Loaded
    <3> QED BY <2>1, <2>a, <3>1, <3>7 DEF GivesWay
  <2> QED BY <2>2, <2>3
<1>5. CASE TabStep
  BY <1>1, <1>5 DEF TabStep, FetchLists, FetchConfig, Visit, OpenCreate, FillCreate, SubmitCreate,
      CloseDialog, Configure, Edit, Save, OpenDelete, ConfirmDelete, Promote, Handle,
      Shows, Stays, Sends
<1>6. ASSUME NEW s \in Slots, ServerStep(s) PROVE GivesWay(id)
  BY <1>1, <1>2, <1>3, <1>4, <1>6 DEF ServerStep, CatalogStep, ReadScript, MakeOfficial, ClearScope
<1>7. CASE OtherAsks \/ (\E s \in Slots : Fails(s)) \/ UNCHANGED scripts
  BY <1>1, <1>7 DEF OtherAsks, Fails
<1> QED BY <1>5, <1>6, <1>7 DEF Next, vars

-----------------------------------------------------------------------------
(* What the page knows. *)

(* The page as u, on the server as it is, which is all PageKnows says.     *)
Knows(u) ==
    /\ u.at = "config" => u.id \in 1 .. created
    /\ u.list \subseteq 1 .. created
    /\ u.stage \in {"delete", "refused"} => u.at = "config"
    /\ u.cache.data # Null =>
         /\ u.at = "config" /\ u.cache.id = u.id
         /\ u.id \in accounts => config[u.id] # Null
    /\ \A f \in Secrets : u.form[f] = Mask => u.cache.data # Null /\ u.cache.data[f] = Mask

LEMMA ServerMoves ==
    ASSUME TypeOK, PageKnows, UNCHANGED ui, created' \in Nat, created <= created',
           \A id \in 1 .. created : id \in accounts' =>
             id \in accounts /\ (config[id] # Null => config'[id] # Null)
    PROVE  PageKnows'
<1>1. 1 .. created \subseteq 1 .. created'
  BY DEF TypeOK, RowsTyped
<1> QED BY <1>1 DEF PageKnows

LEMMA PageMoves ==
    ASSUME PageKnows, UNCHANGED <<created, accounts, config>>, Knows(ui')
    PROVE  PageKnows'
  BY DEF PageKnows, Knows

LEMMA NewPageKnows ==
    ASSUME TypeOK, NEW at \in {"accounts", "scripts"}
    PROVE  Knows(Page(at))
<1>1. \A f \in Secrets : Blank[f] # Mask
  BY MaskIsText DEF Blank, Secrets, FormFields, RowFields
<1>2. Nothing.data = Null
  BY DEF Nothing
<1> QED BY <1>1, <1>2, PagesTyped DEF Knows, TypeOK, RowsTyped

LEMMA FetchKnows ==
    ASSUME TypeOK, PageKnows, ui.at = "config", ui.id \in accounts
    PROVE  Knows(Refetched(Answer200(ui.id)))
<1>1. PICK fetched : fetched = Answer200(ui.id)
  OBVIOUS
<1>2. fetched \in Answers
  BY <1>1, AnswersTyped, IdsAre DEF TypeOK
<1>3. fetched.id = ui.id /\ (fetched.data # Null <=> config[ui.id] # Null)
  <2>1. config[ui.id] # Null => Shown(ui.id) # Null
    BY ShownTyped, AccountsAreRows, IdsAre DEF TypeOK
  <2> QED BY <1>1, <2>1 DEF Answer200
<1>4. ui \in UiRecords /\ Knows(ui)
  BY DEF TypeOK, PageTyped, PageKnows, Knows
<1>5. CASE ui.cache = fetched
  BY <1>1, <1>4, <1>5 DEF Refetched
<1>6. CASE ui.cache # fetched
  <2>1. PICK u : u = [ui EXCEPT !.cache = fetched, !.form = Hydrated(fetched.data)]
    OBVIOUS
  <2>2. /\ u.at = ui.at /\ u.id = ui.id /\ u.list = ui.list /\ u.stage = ui.stage
        /\ u.cache = fetched /\ u.form = Hydrated(fetched.data)
    BY <1>4, <2>1 DEF UiRecords
  <2>3. ASSUME NEW f \in Secrets, u.form[f] = Mask
        PROVE  fetched.data # Null /\ fetched.data[f] = Mask
    <3>1. CASE fetched.data = Null
      <4>1. ui.form[f] = Mask
        BY <2>2, <2>3, <3>1 DEF Hydrated
      <4>2. ui.cache.data # Null
        BY <1>4, <4>1 DEF Knows
      <4> QED BY <1>3, <1>4, <3>1, <4>2 DEF Knows
    <3>2. CASE fetched.data # Null
      BY <2>2, <2>3, <3>2 DEF Hydrated
    <3> QED BY <3>1, <3>2
  <2>4. Knows(u)
    BY <1>3, <1>4, <2>2, <2>3 DEF Knows
  <2> QED BY <1>1, <1>6, <2>1, <2>4 DEF Refetched
<1> QED BY <1>5, <1>6

LEMMA OutcomeKnows ==
    ASSUME TypeOK, PageKnows
    PROVE  Knows(Outcome(req[Tab]))
<1>1. PICK page : page = Page("accounts")
  OBVIOUS
<1>2. ui \in UiRecords /\ Knows(ui) /\ page \in UiRecords /\ Knows(page)
  BY <1>1, NewPageKnows, PagesTyped DEF TypeOK, PageTyped, PageKnows, Knows
<1>3. ASSUME NEW u, u \in {page, [ui EXCEPT !.stage = "none"], ui}
      PROVE  Knows(u) /\ u \in UiRecords
  BY <1>2, <1>3 DEF Knows, UiRecords
<1>4. ASSUME ui.stage = "delete"
      PROVE  Knows([ui EXCEPT !.stage = "refused"]) /\ [ui EXCEPT !.stage = "refused"] \in UiRecords
  BY <1>2, <1>4 DEF Knows, UiRecords
<1>5. \A u \in UiRecords : Knows(u) => Knows([u EXCEPT !.waits = FALSE])
  BY DEF Knows, UiRecords
<1>6. CASE ~ui.waits
  BY <1>2, <1>6 DEF Outcome
<1>7. CASE ui.waits
  <2> DEFINE u ==
               IF req[Tab].op \in {"put", "delete"} /\ req[Tab].status \in {200, 204} THEN page
               ELSE IF req[Tab].op = "create" /\ req[Tab].status = 201
                    THEN [ui EXCEPT !.stage = "none"]
               ELSE IF req[Tab].op = "delete" /\ ui.stage = "delete"
                    THEN [ui EXCEPT !.stage = "refused"]
               ELSE ui
  <2>1. Knows(u) /\ u \in UiRecords
    BY <1>3, <1>4
  <2>2. Outcome(req[Tab]) = [u EXCEPT !.waits = FALSE]
    BY <1>1, <1>7, Zenon DEF Outcome
  <2> HIDE DEF u
  <2> QED BY <1>5, <2>1, <2>2
<1> QED BY <1>6, <1>7

LEMMA TabKnows ==
    ASSUME TypeOK, PageKnows, TabStep
    PROVE  PageKnows'
<1>0. ui \in UiRecords /\ Knows(ui)
  BY DEF TypeOK, PageTyped, PageKnows, Knows
<1>1. ASSUME NEW next, Knows(next), Shows(next) PROVE PageKnows'
  BY <1>1, PageMoves DEF Shows, Stays, books
<1>2. ASSUME NEW r, Sends(r) PROVE PageKnows'
  <2>1. Knows([ui EXCEPT !.waits = TRUE])
    BY <1>0 DEF Knows, UiRecords
  <2> QED BY <1>2, <2>1, PageMoves DEF Sends, books
<1>3. ASSUME FetchLists PROVE PageKnows'
  <2>1. PICK list, catalog :
           /\ list = IF ui.at = "accounts" THEN accounts ELSE ui.list
           /\ catalog = IF ui.at = "scripts" THEN scripts ELSE ui.catalog
    OBVIOUS
  <2>2. PICK u : u = [ui EXCEPT !.mode = mode, !.list = list, !.catalog = catalog]
    OBVIOUS
  <2>3. Knows(u)
    BY <1>0, <2>1, <2>2 DEF Knows, UiRecords, TypeOK, RowsTyped
  <2>4. Shows(u)
    BY <1>3, <2>1, <2>2 DEF FetchLists
  <2> QED BY <1>1, <2>3, <2>4
<1>4. ASSUME FetchConfig PROVE PageKnows'
  <2>1. CASE ui.id \in accounts
    BY <1>1, <1>4, <2>1, FetchKnows DEF FetchConfig
  <2>2. CASE ui.id \notin accounts
    <3>1. Knows([ui EXCEPT !.stage = "broken"])
      BY <1>0 DEF Knows, UiRecords
    <3> QED BY <1>1, <1>4, <2>2, <3>1 DEF FetchConfig
  <2> QED BY <2>1, <2>2
<1>5. ASSUME NEW page \in {"accounts", "scripts"}, Visit(page) PROVE PageKnows'
  BY <1>1, <1>5, NewPageKnows DEF Visit
<1>6. ASSUME OpenCreate \/ FillCreate \/ CloseDialog \/ OpenDelete PROVE PageKnows'
  <2>1. PICK stage \in {"none", "create", "filled", "delete"} :
           Shows([ui EXCEPT !.stage = stage]) /\ (stage = "delete" => ui.at = "config")
    BY <1>6 DEF OpenCreate, FillCreate, CloseDialog, OpenDelete, Editing
  <2>2. Knows([ui EXCEPT !.stage = stage])
    BY <1>0, <2>1 DEF Knows, UiRecords
  <2> QED BY <1>1, <2>1, <2>2
<1>7. ASSUME NEW id \in Ids, Configure(id) PROVE PageKnows'
  <2>1. PICK page : page = Page("config")
    OBVIOUS
  <2>2. /\ page \in UiRecords /\ page.cache = Nothing /\ page.form = Blank /\ page.stage = "none"
        /\ page.list \in {accounts, {}}
    BY <2>1, PagesTyped
  <2>3. id \in 1 .. created
    BY <1>0, <1>7 DEF Configure, Knows
  <2>4. Nothing.data = Null /\ \A f \in Secrets : Blank[f] # Mask
    BY MaskIsText DEF Nothing, Blank, Secrets, FormFields, RowFields
  <2>5. PICK u : u = [page EXCEPT !.id = id]
    OBVIOUS
  <2>6. /\ u.id = id /\ u.cache = Nothing /\ u.form = Blank /\ u.stage = "none"
        /\ u.list \in {accounts, {}}
    BY <2>2, <2>5 DEF UiRecords
  <2>7. Knows(u)
    BY <2>3, <2>4, <2>6 DEF Knows, TypeOK, RowsTyped
  <2> QED BY <1>1, <1>7, <2>1, <2>5, <2>7 DEF Configure
<1>8. ASSUME SubmitCreate \/ ConfirmDelete \/ \E i \in ScriptIds : Promote(i) PROVE PageKnows'
  BY <1>2, <1>8 DEF SubmitCreate, ConfirmDelete, Promote
<1>9. ASSUME NEW f \in FormFields, NEW v \in Typed[f], Edit(f, v) PROVE PageKnows'
  <2>1. PICK form : form = [ui.form EXCEPT ![f] = v]
    OBVIOUS
  <2>2. PICK u : u = [ui EXCEPT !.form = form]
    OBVIOUS
  <2>3. \A g \in Secrets : form[g] = Mask => ui.form[g] = Mask
    <3>1. f \in Secrets => v # Mask
      BY FieldsAreTyped
    <3>2. \A g \in FormFields : form[g] = IF g = f THEN v ELSE ui.form[g]
      BY <1>0, <2>1 DEF UiRecords, Forms
    <3> QED BY <3>1, <3>2 DEF Secrets, FormFields, RowFields
  <2>4. Knows(u)
    BY <1>0, <2>2, <2>3 DEF Knows, UiRecords
  <2>5. ui' = u
    BY <1>9, <2>1, <2>2 DEF Edit
  <2> QED BY <1>9, <2>4, <2>5, PageMoves DEF Edit, books
<1>10. ASSUME Save PROVE PageKnows'
  <2>1. Knows([ui EXCEPT !.waits = TRUE])
    BY <1>0 DEF Knows, UiRecords
  <2> QED BY <1>10, <2>1, PageMoves DEF Save
<1>11. ASSUME Handle PROVE PageKnows'
  BY <1>11, OutcomeKnows, PageMoves DEF Handle, books
<1> QED
  BY <1>3, <1>4, <1>5, <1>6, <1>7, <1>8, <1>9, <1>10, <1>11 DEF TabStep

LEMMA PageStep ==
    ASSUME TypeOK, PageKnows, [Next]_vars
    PROVE  PageKnows'
<1>1. ASSUME UNCHANGED <<ui, created, accounts, config>> PROVE PageKnows'
  BY <1>1 DEF PageKnows
<1>2. CASE TabStep
  BY <1>2, TabKnows
<1>3. CASE OtherAsks \/ (\E s \in Slots : Fails(s)) \/ UNCHANGED vars
        \/ (ModeChanges /\ UNCHANGED <<scripts, pages>>)
  BY <1>1, <1>3 DEF OtherAsks, Fails, ModeChanges, vars, pages, books
<1>4. ASSUME NEW s \in Slots, CatalogStep(s), UNCHANGED pages PROVE PageKnows'
  BY <1>1, <1>4 DEF CatalogStep, ReadScript, MakeOfficial, ClearScope, CommitPromotion,
    SaveDeprecated, books, pages
<1>5. ASSUME NEW s \in Slots, AccountStep(s), UNCHANGED pages PROVE PageKnows'
  <2>1. CASE UNCHANGED <<created, accounts, config>>
    BY <1>1, <1>5, <2>1 DEF pages
  <2>2. CASE PutConfig(s)
    <3>1. req[s] \in PutRequests /\ req[s].pc = "resolved"
      BY <2>2, Kinds DEF PutConfig, At, TypeOK
    <3>2. req[s].row # Null /\ UNCHANGED <<created, accounts>>
      BY <2>2, <3>1 DEF PutConfig, PutRequests, books
    <3>3. \A id \in Ids : config'[id] = config[id] \/ config'[id] = req[s].row
      BY <2>2 DEF PutConfig, TypeOK, RowsTyped, books
    <3>4. 1 .. created \subseteq Ids /\ created \in Nat
      BY IdsAre DEF TypeOK
    <3> QED BY <1>5, <3>2, <3>3, <3>4, ServerMoves DEF pages
  <2>3. CASE CreateAccount(s)
    <3>1. created \in Nat /\ created' = created + 1 /\ config' = config
            /\ accounts' = accounts \cup {created + 1}
      BY <2>3, IdsAre DEF CreateAccount, TypeOK
    <3> QED BY <1>5, <3>1, ServerMoves DEF pages
  <2>4. CASE DeleteAccount(s) /\ req[s].id \in accounts
    <3>1. /\ accounts' = accounts \ {req[s].id} /\ created' = created /\ created \in Nat
          /\ \A id \in Ids : id # req[s].id => config'[id] = config[id]
          /\ 1 .. created \subseteq Ids
      BY <2>4, IdsAre DEF DeleteAccount, TypeOK, RowsTyped
    <3> QED BY <1>5, <3>1, ServerMoves DEF pages
  <2> QED
    BY <1>5, <2>1, <2>2, <2>3, <2>4 DEF AccountStep, PutChecks, PutResolves, PutCredentials,
      DeleteAccount, books
<1> QED BY <1>2, <1>3, <1>4, <1>5 DEF Next, ServerStep

-----------------------------------------------------------------------------
(* The save. *)

LEMMA SaveUnmoved ==
    ASSUME SaveFollowed, req'[Tab] = req[Tab],
           foreign' = TRUE \/ UNCHANGED <<config, creds, foreign>>
    PROVE  SaveFollowed'
  BY DEF SaveFollowed

LEMMA SaveOver ==
    ASSUME req'[Tab].pc = "idle" \/ req'[Tab].op # "put"
    PROVE  SaveFollowed'
  BY DEF SaveFollowed

LEMMA SaveRefused ==
    ASSUME TypeOK, SaveFollowed, req[Tab].pc # "idle", NEW status \in Nat, status # 200,
           req'[Tab] = Answered(Tab, status)
    PROVE  SaveFollowed'
<1>1. req[Tab] \in PutRequests \cup CreateRequests \cup DeleteRequests \cup ScriptRequests
  BY Kinds DEF TypeOK
<1>2. PICK r : r = req'[Tab] /\ r = [req[Tab] EXCEPT !.pc = "answered", !.status = status]
  BY DEF Answered
<1>3. r.op = req[Tab].op
  BY <1>1, <1>2 DEF PutRequests, CreateRequests, DeleteRequests, ScriptRequests
<1>4. CASE req[Tab].op = "put"
  <2>1. req[Tab] \in PutRequests
    BY <1>4, Kinds DEF TypeOK
  <2>2. /\ r.pc = "answered" /\ r.status = status /\ r.body = req[Tab].body
        /\ r.shown = req[Tab].shown /\ r.fresh = req[Tab].fresh /\ r.kept = req[Tab].kept
    BY <1>2, <2>1 DEF PutRequests
  <2>3. /\ req[Tab].body = Sent(req[Tab].shown) /\ req[Tab].shown.username # NoText
        /\ req[Tab].fresh => \A f \in Secrets : req[Tab].shown[f] = Mask =>
             req[Tab].kept # Null /\ req[Tab].kept[f] # NoText
    BY <1>4 DEF SaveFollowed
  <2> QED BY <1>2, <2>2, <2>3 DEF SaveFollowed
<1> QED BY <1>2, <1>3, <1>4, SaveOver

(* The tab's own save, step by step.                                       *)
LEMMA PutFollowed ==
    ASSUME TypeOK, SaveFollowed,
           PutChecks(Tab) \/ PutResolves(Tab) \/ PutConfig(Tab) \/ PutCredentials(Tab)
    PROVE  SaveFollowed'
<1>1. req[Tab] \in PutRequests /\ req[Tab].op = "put"
  BY Kinds DEF TypeOK, PutChecks, PutResolves, PutConfig, PutCredentials, At
<1>2. PICK r, now : r = req[Tab] /\ now = req'[Tab]
  OBVIOUS
<1>3. r.pc # "idle" /\ r.id \in Ids /\ r.op = "put"
  BY <1>1, <1>2 DEF PutRequests
<1>a. /\ r.body = Sent(r.shown) /\ r.shown.username # NoText
      /\ r.fresh => \A f \in Secrets : r.shown[f] = Mask => r.kept # Null /\ r.kept[f] # NoText
  BY <1>2, <1>3 DEF SaveFollowed
<1>b. ~foreign /\ r.pc \in {"asked", "checked", "resolved"} => config[r.id] = r.kept
  BY <1>2, <1>3 DEF SaveFollowed
<1>4. ASSUME NEW status \in Nat, status # 200, Answer(Tab, status) PROVE SaveFollowed'
  <2>1. req'[Tab] = Answered(Tab, status)
    BY <1>4 DEF Answer, Holding, TypeOK, RequestsTyped
  <2> QED BY <1>2, <1>3, <1>4, <2>1, SaveRefused
<1>5. ASSUME NEW x, Holding(Tab, x) PROVE now = x
  BY <1>2, <1>5 DEF Holding, TypeOK, RequestsTyped
<1>6. ASSUME Answer(Tab, 200) PROVE now = [r EXCEPT !.pc = "answered", !.status = 200]
  BY <1>2, <1>5, <1>6 DEF Answer, Answered
<1>7. CASE PutChecks(Tab)
  <2>1. CASE Malformed(r.body) \/ Refused(r.body) \/ r.id \notin accounts
    BY <1>2, <1>4, <1>7, <2>1 DEF PutChecks
  <2>2. CASE ~(Malformed(r.body) \/ Refused(r.body) \/ r.id \notin accounts)
    <3>1. now = [r EXCEPT !.pc = "checked"] /\ r.pc = "asked"
      BY <1>2, <1>5, <1>7, <2>2 DEF PutChecks, At
    <3>2. /\ now.pc = "checked" /\ now.op = "put" /\ now.id = r.id /\ now.body = r.body
          /\ now.shown = r.shown /\ now.fresh = r.fresh /\ now.kept = r.kept
      BY <1>1, <1>2, <3>1 DEF PutRequests
    <3>3. UNCHANGED <<config, creds, foreign>>
      BY <1>7 DEF PutChecks, books
    <3> QED BY <1>2, <1>a, <1>b, <3>1, <3>2, <3>3 DEF SaveFollowed
  <2> QED BY <2>1, <2>2
<1>8. CASE PutResolves(Tab)
  <2>1. PICK row : row = NewRow(config[r.id], r.body)
    OBVIOUS
  <2>2. CASE ~(Deliverable(row) /\ (row.transport = "slack" \/ row.url # "private"))
    BY <1>2, <1>4, <1>8, <2>1, <2>2 DEF PutResolves
  <2>3. CASE Deliverable(row) /\ (row.transport = "slack" \/ row.url # "private")
    <3>1. now = [r EXCEPT !.pc = "resolved", !.row = row] /\ r.pc = "checked"
      BY <1>2, <1>5, <1>8, <2>1, <2>3 DEF PutResolves, At
    <3>2. /\ now.pc = "resolved" /\ now.op = "put" /\ now.id = r.id /\ now.body = r.body
          /\ now.shown = r.shown /\ now.fresh = r.fresh /\ now.kept = r.kept /\ now.row = row
      BY <1>1, <1>2, <3>1 DEF PutRequests
    <3>3. UNCHANGED <<config, creds, foreign>>
      BY <1>8 DEF PutResolves, books
    <3>4. ~foreign => row = NewRow(r.kept, r.body)
      BY <1>2, <1>3, <2>1, <3>1 DEF SaveFollowed
    <3> QED BY <1>2, <1>a, <1>b, <3>1, <3>2, <3>3, <3>4 DEF SaveFollowed
  <2> QED BY <2>2, <2>3
<1>9. CASE PutConfig(Tab)
  <2>1. CASE r.id \notin accounts
    BY <1>2, <1>4, <1>9, <2>1 DEF PutConfig
  <2>2. CASE r.id \in accounts
    <3>1. /\ r.pc = "resolved" /\ foreign' = foreign
          /\ config' = [config EXCEPT ![r.id] = r.row]
      BY <1>2, <1>9, <2>2, SourcesDiffer DEF PutConfig, At, TypeOK, RowsTyped
    <3>2. config'[r.id] = r.row
      BY <1>3, <3>1 DEF TypeOK, RowsTyped
    <3>3. ~foreign => r.row = NewRow(r.kept, r.body)
      BY <1>2, <1>3, <3>1 DEF SaveFollowed
    <3>4. CASE HasCredentials(r.body)
      <4>1. now = [r EXCEPT !.pc = "stored"]
        BY <1>2, <1>5, <1>9, <2>2, <3>4 DEF PutConfig
      <4>2. /\ now.pc = "stored" /\ now.op = "put" /\ now.id = r.id /\ now.body = r.body
            /\ now.shown = r.shown /\ now.fresh = r.fresh /\ now.kept = r.kept
        BY <1>1, <1>2, <4>1 DEF PutRequests
      <4> QED BY <1>2, <1>3, <3>1, <3>2, <3>3, <4>2 DEF SaveFollowed
    <3>5. CASE ~HasCredentials(r.body)
      <4>1. now = [r EXCEPT !.pc = "answered", !.status = 200]
        BY <1>2, <1>6, <1>9, <2>2, <3>5 DEF PutConfig
      <4>2. /\ now.pc = "answered" /\ now.op = "put" /\ now.id = r.id /\ now.body = r.body
            /\ now.shown = r.shown /\ now.fresh = r.fresh /\ now.kept = r.kept
        BY <1>1, <1>2, <4>1 DEF PutRequests
      <4> QED BY <1>2, <1>3, <3>1, <3>2, <3>3, <3>5, <4>2 DEF SaveFollowed
    <3> QED BY <3>4, <3>5
  <2> QED BY <2>1, <2>2
<1>10. CASE PutCredentials(Tab)
  <2>1. CASE r.id \notin accounts
    BY <1>2, <1>4, <1>10, <2>1 DEF PutCredentials
  <2>2. CASE r.id \in accounts
    <3>1. PICK pair : pair = [username |-> r.body.username, password |-> r.body.password]
      OBVIOUS
    <3>2. /\ r.pc = "stored" /\ foreign' = foreign /\ config' = config
          /\ creds' = [creds EXCEPT ![r.id] = pair]
      BY <1>2, <1>10, <2>2, <3>1, SourcesDiffer DEF PutCredentials, At, TypeOK, RowsTyped
    <3>3. creds'[r.id] = pair
      BY <1>3, <3>2 DEF TypeOK, RowsTyped
    <3>4. now = [r EXCEPT !.pc = "answered", !.status = 200]
      BY <1>2, <1>6, <1>10, <2>2 DEF PutCredentials
    <3>5. /\ now.pc = "answered" /\ now.op = "put" /\ now.id = r.id /\ now.body = r.body
          /\ now.shown = r.shown /\ now.fresh = r.fresh /\ now.kept = r.kept
      BY <1>1, <1>2, <3>4 DEF PutRequests
    <3> QED BY <1>2, <1>3, <3>1, <3>2, <3>3, <3>5 DEF SaveFollowed
  <2> QED BY <2>1, <2>2
<1> QED BY <1>7, <1>8, <1>9, <1>10

LEMMA SaveSent ==
    ASSUME TypeOK, PageKnows, Save
    PROVE  SaveFollowed'
<1>1. PICK id, form, fresh : id = ui.id /\ form = ui.form /\ fresh = (ui.cache = Answer200(ui.id))
  OBVIOUS
<1>2. PICK kept : kept = config[id]
  OBVIOUS
<1>3. id \in Ids /\ ui.cache.id = id
  BY <1>1, IdsAre DEF TypeOK, Save, Editing, PageKnows
<1>4. form.username # NoText
  BY <1>1 DEF Save, Invalid
<1>5. PICK now : now = req'[Tab] /\ now = Put(id, Sent(form), form, fresh)
  BY <1>1 DEF Save, Ask, TypeOK, RequestsTyped
<1>6. /\ now.pc = "asked" /\ now.id = id /\ now.body = Sent(form) /\ now.shown = form
      /\ now.fresh = fresh /\ now.kept = kept
  BY <1>2, <1>5 DEF Put
<1>7. ASSUME fresh, NEW f \in Secrets, form[f] = Mask PROVE kept # Null /\ kept[f] # NoText
  <2>1. ui.cache.data # Null /\ ui.cache.data[f] = Mask
    BY <1>1, <1>7 DEF PageKnows
  <2>2. ui.cache = Answer200(id)
    BY <1>1, <1>7
  <2>3. config[id] # Null /\ ui.cache.data = Shown(id)
    BY <2>1, <2>2 DEF Answer200
  <2>4. Shown(id)[f] = IF config[id][f] # NoText THEN Mask ELSE config[id][f]
    BY DEF Shown, Secrets, FormFields, RowFields
  <2> QED BY <1>2, <2>1, <2>3, <2>4, MaskIsText
<1>8. foreign' = FALSE /\ config' = config
  BY DEF Save
<1> QED BY <1>2, <1>4, <1>5, <1>6, <1>7, <1>8 DEF SaveFollowed

LEMMA SaveStep ==
    ASSUME TypeOK, PageKnows, SaveFollowed, [Next]_vars
    PROVE  SaveFollowed'
<1>0. Tab # Other /\ Tab \in Slots /\ Other \in Slots /\ req \in [Slots -> AllRequests]
  BY SourcesDiffer DEF TypeOK, RequestsTyped
<1>1. ASSUME UNCHANGED <<config, creds, foreign>>, req'[Tab] = req[Tab] PROVE SaveFollowed'
  BY <1>1, SaveUnmoved
<1>2. ASSUME NEW r, Ask(Tab, r), r.op # "put" PROVE SaveFollowed'
  BY <1>0, <1>2, SaveOver DEF Ask
<1>3. ASSUME TabStep PROVE SaveFollowed'
  <2>1. CASE Save
    BY <2>1, SaveSent
  <2>2. CASE SubmitCreate \/ ConfirmDelete \/ \E i \in ScriptIds : Promote(i)
    BY <1>2, <2>2 DEF SubmitCreate, ConfirmDelete, Promote, Sends, ScriptRequest
  <2>3. CASE Handle
    <3>1. req'[Tab] = Idle
      BY <1>0, <2>3 DEF Handle, Take, Holding
    <3> QED BY <3>1, SaveOver DEF Idle
  <2>4. CASE UNCHANGED <<req, books>>
    BY <1>1, <2>4 DEF books
  <2> QED BY <1>3, <2>1, <2>2, <2>3, <2>4 DEF TabStep, FetchLists, FetchConfig, Visit, OpenCreate,
      FillCreate, CloseDialog, Configure, Edit, OpenDelete, Shows, Stays
<1>4. CASE OtherAsks
  <2>1. \E r : Ask(Other, r)
    BY <1>4 DEF OtherAsks
  <2>2. req'[Tab] = req[Tab]
    BY <1>0, <2>1 DEF Ask
  <2> QED BY <1>1, <1>4, <2>2 DEF OtherAsks, books
<1>5. ASSUME NEW s \in Slots, Fails(s) PROVE SaveFollowed'
  <2>1. CASE s = Other
    <3>1. req'[Tab] = req[Tab]
      BY <1>0, <1>5, <2>1 DEF Fails, RequestFails
    <3> QED BY <1>1, <1>5, <3>1 DEF Fails, books
  <2>2. CASE s = Tab
    <3>1. req[Tab].pc # "idle" /\ req'[Tab] = Answered(Tab, 500)
      BY <1>0, <1>5, <2>2 DEF Fails, RequestFails
    <3> QED BY <3>1, SaveRefused
  <2> QED BY <2>1, <2>2
<1>6. CASE ModeChanges \/ UNCHANGED vars
  BY <1>1, <1>6 DEF ModeChanges, vars, books
<1>7. ASSUME NEW r, Holding(Other, r) PROVE req'[Tab] = req[Tab]
  BY <1>0, <1>7 DEF Holding
<1>8. CASE AccountStep(Other)
  <2>1. \E r : Holding(Other, r)
    BY <1>8 DEF AccountStep, PutChecks, PutResolves, PutConfig, PutCredentials, CreateAccount,
      DeleteAccount, Answer
  <2>2. foreign' = TRUE \/ UNCHANGED <<config, creds, foreign>>
    BY <1>8 DEF AccountStep, PutChecks, PutResolves, PutConfig, PutCredentials, CreateAccount,
      DeleteAccount, books
  <2> QED BY <1>7, <2>1, <2>2, SaveUnmoved
<1>9. CASE AccountStep(Tab)
  <2>1. CASE CreateAccount(Tab) \/ DeleteAccount(Tab)
    <3>1. PICK status \in Nat : Answer(Tab, status)
      BY <2>1 DEF CreateAccount, DeleteAccount
    <3>2. req[Tab] \in CreateRequests \cup DeleteRequests
      BY <2>1, Kinds DEF CreateAccount, DeleteAccount, At, TypeOK
    <3>3. [req[Tab] EXCEPT !.pc = "answered", !.status = status].op # "put"
      BY <3>2 DEF CreateRequests, DeleteRequests
    <3>4. req'[Tab] = [req[Tab] EXCEPT !.pc = "answered", !.status = status]
      BY <1>0, <3>1 DEF Answer, Answered, Holding
    <3> QED BY <3>3, <3>4, SaveOver
  <2>2. CASE PutChecks(Tab) \/ PutResolves(Tab) \/ PutConfig(Tab) \/ PutCredentials(Tab)
    BY <2>2, PutFollowed
  <2> QED BY <1>9, <2>1, <2>2 DEF AccountStep
<1>10. ASSUME NEW s \in Slots, CatalogStep(s) PROVE SaveFollowed'
  <2>1. UNCHANGED <<config, creds, foreign>>
    BY <1>10 DEF CatalogStep, ReadScript, MakeOfficial, ClearScope, CommitPromotion,
      SaveDeprecated, books
  <2>2. PICK r : Holding(s, r)
    BY <1>10 DEF CatalogStep, ReadScript, MakeOfficial, ClearScope, CommitPromotion,
      SaveDeprecated, Answer
  <2>3. CASE s = Other
    BY <1>1, <1>7, <2>1, <2>2, <2>3
  <2>4. CASE s = Tab
    <3>1. req[Tab] \in ScriptRequests
      BY <1>10, <2>4, Kinds DEF CatalogStep, ReadScript, MakeOfficial, ClearScope,
        CommitPromotion, SaveDeprecated, At, TypeOK
    <3>2. \A pc, status, copy, seen :
            /\ [req[Tab] EXCEPT !.pc = pc, !.status = status].op # "put"
            /\ [req[Tab] EXCEPT !.pc = pc, !.copy = copy].op # "put"
            /\ [req[Tab] EXCEPT !.pc = pc, !.seen = seen].op # "put"
      BY <3>1 DEF ScriptRequests
    <3>3. PICK now : now = req'[Tab] /\ now.op # "put"
      <4>1. ASSUME NEW r0, Holding(Tab, r0) PROVE req'[Tab] = r0
        BY <1>0, <4>1 DEF Holding
      <4>2. ASSUME NEW status, Answer(Tab, status) PROVE req'[Tab].op # "put"
        <5>1. req'[Tab] = [req[Tab] EXCEPT !.pc = "answered", !.status = status]
          BY <1>0, <4>2 DEF Answer, Answered, Holding
        <5> QED BY <3>2, <5>1
      <4>3. CASE ReadScript(Tab) \/ CommitPromotion(Tab) \/ SaveDeprecated(Tab)
        <5>1. CASE \E status : Answer(Tab, status)
          BY <4>2, <5>1
        <5>2. CASE \E copy : Holding(Tab, [req[Tab] EXCEPT !.pc = "loaded", !.copy = copy])
          BY <3>2, <4>1, <5>2
        <5>3. ReadScript(Tab) =>
                \/ \E status : Answer(Tab, status)
                \/ \E copy : Holding(Tab, [req[Tab] EXCEPT !.pc = "loaded", !.copy = copy])
          BY Zenon DEF ReadScript
        <5>4. CommitPromotion(Tab) \/ SaveDeprecated(Tab) => \E status : Answer(Tab, status)
          BY Zenon DEF CommitPromotion, SaveDeprecated
        <5> QED BY <4>3, <5>1, <5>2, <5>3, <5>4
      <4>4. CASE MakeOfficial(Tab)
        <5>1. PICK copy : Holding(Tab, [req[Tab] EXCEPT !.pc = "loaded", !.copy = copy])
          BY <4>4, Zenon DEF MakeOfficial
        <5> QED BY <3>2, <4>1, <5>1
      <4>5. CASE ClearScope(Tab)
        <5>1. PICK seen : Holding(Tab, [req[Tab] EXCEPT !.pc = "cleared", !.seen = seen])
          BY <4>5, Zenon DEF ClearScope
        <5> QED BY <3>2, <4>1, <5>1
      <4> QED BY <1>10, <2>4, <4>3, <4>4, <4>5 DEF CatalogStep
    <3> QED BY <3>3, SaveOver
  <2> QED BY <2>3, <2>4
<1> QED BY <1>3, <1>4, <1>5, <1>6, <1>8, <1>9, <1>10 DEF Next, ServerStep

-----------------------------------------------------------------------------
(* The theorems. *)

AccountsInv == TypeOK /\ ScopesLast /\ PageKnows /\ SaveFollowed

LEMMA InvInit == Init => AccountsInv
<1> SUFFICES ASSUME Init PROVE AccountsInv
  OBVIOUS
<1> USE DEF Init, RequestsInit, AccountsInit, CatalogInit, PagesInit
<1>1. RequestsTyped
  BY DEF RequestsTyped, AllRequests
<1>2. RowsTyped
  <2>1. Rows \subseteq ConfigRows /\ NoText \in Texts /\ "u1" \in Texts /\ "p1" \in Texts
    BY AccountsAreRows
  <2>2. [username |-> "u1", password |-> "p1"] \in [username : Texts, password : Texts]
          /\ NoCredentials \in [username : Texts, password : Texts]
    BY <2>1 DEF NoCredentials
  <2>3. creds \in [Ids -> [username : Texts, password : Texts]]
    BY <2>2
  <2>4. MaxAccounts \in Nat \ {0}
    BY AccountsAreRows
  <2>5. created \in 0 .. MaxAccounts
    BY <2>4
  <2> QED BY <2>1, <2>3, <2>5 DEF RowsTyped
<1>3. ScriptsTyped
  BY DEF ScriptsTyped, ScriptRows
<1>4. PageTyped
  <2>1. Nothing \in Answers /\ Unlisted \in [ScriptIds -> {Null} \cup ScriptRows]
    BY DEF Nothing, Answers, Unlisted
  <2>2. accounts \in SUBSET Ids
    BY <1>2, IdsAre
  <2>3. edits \in Nat
    OBVIOUS
  <2> HIDE DEF AccountsInit, CatalogInit, RequestsInit
  <2>4. mode \in Modes
    BY <1>2 DEF RowsTyped
  <2>5. ui = [at |-> "accounts", id |-> 0, mode |-> mode, list |-> accounts, catalog |-> Unlisted,
              cache |-> Nothing, form |-> Blank, stage |-> "none", waits |-> FALSE]
    OBVIOUS
  <2>6. ui \in UiRecords
    BY <2>1, <2>2, <2>4, <2>5, BlankTyped DEF UiRecords
  <2> QED BY <2>3, <2>6 DEF PageTyped
<1>5. \A s \in Slots : req[s].pc = "idle"
  BY DEF Idle
<1>6. ScopesLast
  BY <1>5 DEF ScopesLast, CopyFits, Gone
<1>7. PageKnows
  BY MaskIsText DEF PageKnows, Nothing, Blank, Secrets, FormFields, RowFields
<1>8. SaveFollowed
  BY <1>5 DEF SaveFollowed
<1> QED BY <1>1, <1>2, <1>3, <1>4, <1>6, <1>7, <1>8 DEF AccountsInv, TypeOK

LEMMA InvStep == AccountsInv /\ [Next]_vars => AccountsInv'
  BY TypeStep, ScopesStep, PageStep, SaveStep DEF AccountsInv

(* The rows, the requests in hand and the page have their types, a script  *)
(* is of a scope that is there, and the page knows what it shows.          *)
THEOREM AccountsSafe == Spec => []AccountsInv
  BY InvInit, InvStep, PTL DEF Spec

(* ScriptGivesWay, for any number of accounts, scripts and callers.        *)
THEOREM ScriptsGiveWay == Spec => ScriptGivesWay
<1>1. AccountsInv /\ [Next]_vars
        => [\A id \in accounts \cap accounts' : GivesWay(id)]_vars
  BY GivesWayStep DEF AccountsInv
<1>2. AccountsInv /\ [Next]_vars =>
        [\A id \in accounts \cap accounts' : \A i \in Loaded(id) \ Loaded(id)' :
           \/ \E j \in Loaded(id)' : Width(scripts'[j].scope) <= Width(scripts[i].scope)
           \/ \E s \in Slots : /\ At(s, "deprecate", "loaded") /\ req[s].id = i
                               /\ req'[s].pc # "loaded"]_vars
  BY <1>1 DEF GivesWay
<1> QED BY <1>2, AccountsSafe, PTL DEF Spec, ScriptGivesWay

(* SaveIsHonest, for every form and every row it is saved over.            *)
THEOREM SavesAreHonest == Spec => []SaveIsHonest
<1>1. AccountsInv => SaveIsHonest
  <2> SUFFICES ASSUME AccountsInv PROVE SaveIsHonest
    OBVIOUS
  <2>1. PICK r : r = req[Tab]
    OBVIOUS
  <2> SUFFICES ASSUME r.pc = "answered", r.op = "put", r.status = 200, r.fresh, ~foreign
               PROVE  /\ \A f \in FormFields \ Dropped(r.shown) :
                           Shown(r.id)[f] = Masked(r.shown)[f]
                      /\ \A f \in Secrets \ Dropped(r.shown) :
                           config[r.id][f] = IF r.shown[f] = Mask THEN r.kept[f] ELSE r.shown[f]
                      /\ r.shown.password # NoText =>
                           creds[r.id].password = r.shown.password
    BY <2>1 DEF SaveIsHonest
  <2>2. PICK shown, body, kept, id, row :
           /\ shown = r.shown /\ body = r.body /\ kept = r.kept /\ id = r.id
           /\ row = config[id]
    OBVIOUS
  <2>3. /\ shown \in Forms /\ id \in Ids /\ kept \in {Null} \cup ConfigRows
    BY <2>1, <2>2, Kinds DEF AccountsInv, TypeOK, PutRequests
  <2>4. /\ body = Sent(shown) /\ shown.username # NoText
        /\ \A f \in Secrets : shown[f] = Mask => kept # Null /\ kept[f] # NoText
        /\ row = NewRow(kept, body)
        /\ HasCredentials(body) =>
             creds[id] = [username |-> body.username, password |-> body.password]
    BY <2>1, <2>2 DEF AccountsInv, SaveFollowed
  <2>5. shown.method \in Methods
    BY <2>3 DEF Forms
  <2>6. \A f \in FormFields \ Dropped(shown) : f # "username" => body[f] = shown[f]
    BY <2>4 DEF Sent, Dropped, Hidden
  <2>7. body.transport = shown.transport /\ body.method = shown.method
        /\ body.username = shown.username /\ body.password = shown.password
    BY <2>4 DEF Sent, FormFields, RowFields
  <2>8. \A f \in RowFields \ Dropped(shown) :
           row[f] = IF f \in Secrets THEN Resolved(kept, body, f) ELSE body[f]
    <3>1. \A f \in RowFields \ Dropped(shown) :
             /\ f = "body" => shown.method = "POST"
             /\ f \in {"channel", "notifyToken"} => shown.transport # "chat_webhook"
      BY <2>5 DEF Dropped, Hidden, Methods
    <3> QED BY <2>4, <2>7, <3>1 DEF NewRow
  <2>9. \A f \in Secrets \ Dropped(shown) :
           row[f] = IF shown[f] = Mask THEN kept[f] ELSE shown[f]
    <3>1. \A f \in Secrets \ Dropped(shown) :
            f \in RowFields /\ f \in FormFields /\ f # "username"
      BY DEF Secrets, RowFields, FormFields
    <3> QED BY <2>4, <2>6, <2>8, <3>1 DEF Resolved
  <2>10. \A f \in RowFields \ (Dropped(shown) \cup Secrets) : row[f] = shown[f]
    <3>1. \A f \in RowFields : f \in FormFields /\ f # "username" /\ f # "password"
      BY DEF RowFields, FormFields
    <3> QED BY <2>6, <2>8, <3>1
  <2>11. shown.password # NoText =>
           creds[id] = [username |-> shown.username, password |-> shown.password]
    BY <2>4, <2>7 DEF HasCredentials
  <2>12. ASSUME NEW f \in FormFields \ Dropped(shown) PROVE Shown(id)[f] = Masked(shown)[f]
    <3>1. CASE f = "username"
      <4>1. shown.password # NoText
        BY <2>12, <3>1 DEF Dropped
      <4>2. Shown(id)[f] = creds[id].username
        BY <3>1 DEF Shown
      <4>3. Masked(shown)[f] = shown.username
        BY <3>1 DEF Masked, Secrets
      <4> QED BY <2>11, <4>1, <4>2, <4>3
    <3>2. CASE f = "password"
      BY <3>2 DEF Shown, Masked
    <3>3. CASE f \in Secrets
      <4>1. /\ f # "username" /\ f # "password"
        BY <3>3 DEF Secrets
      <4>2. Shown(id)[f] = IF row[f] # NoText THEN Mask ELSE row[f]
        BY <2>2, <3>3, <4>1 DEF Shown
      <4>3. Masked(shown)[f] = IF shown[f] # NoText THEN Mask ELSE shown[f]
        BY <3>3, <4>1 DEF Masked
      <4> QED BY <2>4, <2>9, <3>3, <4>2, <4>3, MaskIsText
    <3>4. CASE f \notin Secrets \cup {"username", "password"}
      <4>1. f \in RowFields
        BY <3>4 DEF FormFields
      <4>2. Shown(id)[f] = row[f]
        BY <2>2, <3>4 DEF Shown
      <4>3. Masked(shown)[f] = shown[f]
        BY <3>4 DEF Masked
      <4> QED BY <2>10, <3>4, <4>1, <4>2, <4>3
    <3> QED BY <3>1, <3>2, <3>3, <3>4
  <2>13. shown.password # NoText => creds[id].password = shown.password
    BY <2>11
  <2> QED BY <2>2, <2>9, <2>12, <2>13
<1> QED BY <1>1, AccountsSafe, PTL

=============================================================================
