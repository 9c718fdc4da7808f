---------------------------- MODULE AccountPages ----------------------------
(***************************************************************************)
(* The tab of the web client over Accounts and Catalog: the list of        *)
(* accounts with its create dialog, the configuration page with its form,  *)
(* its tabs, its errors and its delete dialog, and the page of scripts.    *)
(* What it fetched before is cached, and may be older than the server's.   *)
(***************************************************************************)
EXTENDS Catalog

CONSTANTS Typed,                \* by field: the values that are entered
          MaxEdits              \* bound: entries into the form

(* A field takes text, the method is picked, and nobody types the mask.    *)
ASSUME FieldsAreTyped ==
    /\ {"GET", "one-shot", "api"} \subseteq Texts
    /\ Typed \in [FormFields -> SUBSET Texts]
    /\ Typed["method"] \subseteq Methods
    /\ \A f \in Secrets : Mask \notin Typed[f]

VARIABLES
    ui,
        \* at: the page.  id: the account it configures.  mode, list, catalog, cache: the answers
        \* to GET /me, /accounts, /scripts and /config it has.  form: what is in the fields.
        \* stage: its dialog.  waits: the page that sent the request is still there.
    edits

pages == <<ui, edits>>
vars == <<req, asked, faults, books, scripts, pages>>

Blank ==
    [f \in FormFields |-> IF f = "method" THEN "GET" ELSE IF f = "session" THEN "one-shot"
                          ELSE IF f = "transport" THEN "api" ELSE NoText]

Unlisted == [i \in ScriptIds |-> Null]

(* The cached configuration: of which account, and Null when it has none.  *)
Nothing == [id |-> 0, data |-> Null]
Answer200(id) == [id |-> id, data |-> IF config[id] = Null THEN Null ELSE Shown(id)]

PagesInit ==
    /\ ui = [at |-> "accounts", id |-> 0, mode |-> mode, list |-> accounts, catalog |-> Unlisted,
             cache |-> Nothing, form |-> Blank, stage |-> "none", waits |-> FALSE]
    /\ edits = 0

Free == req[Tab] = Idle
Stays == UNCHANGED <<req, asked, faults, books, scripts, edits>>
Shows(next) == ui' = next /\ Stays
Sends(r) ==
    /\ Ask(Tab, r)
    /\ ui' = [ui EXCEPT !.waits = TRUE]
    /\ UNCHANGED <<books, scripts, edits>>

(* Another page is mounted and fetches its list; the old one is gone.      *)
Page(page) ==
    [ui EXCEPT !.at = page, !.id = 0, !.cache = Nothing, !.form = Blank, !.stage = "none",
               !.waits = FALSE,
               !.list = IF page = "accounts" THEN accounts ELSE {},
               !.catalog = IF page = "scripts" THEN scripts ELSE Unlisted]

(* The sidebar, and the page's own back button.                            *)
Visit(page) == ui.at # page /\ Shows(Page(page))

(* On focus, every 30 seconds, and when a mutation invalidates.            *)
FetchLists ==
    /\ Shows([ui EXCEPT !.mode = mode,
                        !.list = IF ui.at = "accounts" THEN accounts ELSE @,
                        !.catalog = IF ui.at = "scripts" THEN scripts ELSE @])
    /\ ui' # ui

-----------------------------------------------------------------------------
(* Accounts: the dialog is filled and sent; the answer closes it.          *)
OpenCreate == ui.at = "accounts" /\ ui.stage = "none" /\ Shows([ui EXCEPT !.stage = "create"])
FillCreate == ui.stage = "create" /\ Shows([ui EXCEPT !.stage = "filled"])
SubmitCreate ==
    /\ ui.stage = "filled" /\ created < MaxAccounts
    /\ Sends([pc |-> "asked", op |-> "create", status |-> 0])

CloseDialog == ui.stage # "none" /\ ui.stage # "broken" /\ Shows([ui EXCEPT !.stage = "none"])

Configure(id) ==
    /\ ui.at = "accounts" /\ ui.stage = "none" /\ id \in ui.list
    /\ Shows([Page("config") EXCEPT !.id = id])

(* The form is filled from the first data and again whenever other data is *)
(* fetched, whatever was typed meanwhile.                                  *)
Hydrated(data) == IF data = Null THEN ui.form ELSE data

Refetched(fetched) ==
    IF ui.cache = fetched THEN ui
    ELSE [ui EXCEPT !.cache = fetched, !.form = Hydrated(fetched.data)]

(* GET of the configuration; the account may be gone.                      *)
FetchConfig ==
    /\ ui.at = "config" /\ ui.stage # "broken"
    /\ Shows(IF ui.id \in accounts THEN Refetched(Answer200(ui.id))
             ELSE [ui EXCEPT !.stage = "broken"])
    /\ ui' # ui

-----------------------------------------------------------------------------
(* The configuration page.                                                 *)
TabOf(f, m) ==
    CASE f \in {"username", "password", "session"} -> "credentials"
      [] f \in {"endpoint", "method", "body"} -> "orders"
      [] f \in {"webhook", "extra"} -> "webhook"
      [] f = "authToken" -> IF m = "reconcile" THEN "orders" ELSE "webhook"
      [] OTHER -> "notifications"

(* Fields that the value of another one takes off the page, and out of     *)
(* what is saved.                                                          *)
Hidden(form) ==
    (IF form.method = "GET" THEN {"body"} ELSE {})
    \cup (IF form.transport = "slack" THEN {"url"} ELSE {"channel"})
    \cup (IF form.transport = "chat_webhook" THEN {"notifyToken"} ELSE {})

Offered == {f \in FormFields \ Hidden(ui.form) : TabOf(f, ui.mode) = "orders" => ui.mode = "reconcile"}

Editing == ui.at = "config" /\ ui.stage = "none" /\ ui.cache.id = ui.id

(* The user enters a value, also while a save is under way.                *)
Edit(f, v) ==
    /\ Editing /\ f \in Offered /\ v # ui.form[f]
    /\ edits < MaxEdits
    /\ edits' = edits + 1
    /\ ui' = [ui EXCEPT !.form[f] = v]
    /\ UNCHANGED <<req, asked, faults, books, scripts>>

HasSavedCredential == ui.cache.data # Null /\ ui.cache.data.username # NoText

Invalid ==
    LET form == ui.form IN
    \/ form.username = NoText
    \/ ~HasSavedCredential /\ form.password = NoText
    \/ form.webhook = NoText
    \/ form.extra = "bad"
    \/ ui.mode = "reconcile" /\ NoText \in {form.endpoint, form.authToken}
    \/ form.method = "POST" /\ form.body = "bad"

(* What handleSave makes of the form.                                      *)
Sent(form) ==
    [f \in FormFields |->
       IF f = "url" /\ form.transport = "slack" THEN NoText
       ELSE IF f = "channel" /\ form.transport # "slack" THEN NoText
       ELSE IF f = "notifyToken" /\ form.transport = "chat_webhook" THEN NoText
       ELSE IF f = "body" /\ form.body # "object" THEN NoText
       ELSE form[f]]

Save ==
    /\ Editing /\ ~Invalid
    /\ Ask(Tab, Put(ui.id, Sent(ui.form), ui.form, ui.cache = Answer200(ui.id)))
    /\ ui' = [ui EXCEPT !.waits = TRUE]
    /\ foreign' = FALSE
    /\ UNCHANGED <<mode, accounts, created, config, creds, scripts, edits>>

OpenDelete == Editing /\ Shows([ui EXCEPT !.stage = "delete"])

(* Enabled once the name is typed as it is.                                *)
ConfirmDelete ==
    /\ ui.stage \in {"delete", "refused"}
    /\ Sends([pc |-> "asked", op |-> "delete", id |-> ui.id, status |-> 0])

-----------------------------------------------------------------------------
(* Scripts: the button is there for what the list shows in review.         *)
Promote(i) ==
    /\ ui.at = "scripts" /\ ui.catalog[i] # Null /\ ui.catalog[i].status = "review"
    /\ Sends(ScriptRequest("promote", i))

(* The callbacks of the page; an error leaves it as it is.                 *)
Outcome(r) ==
    IF ~ui.waits THEN ui
    ELSE [(IF r.op \in {"put", "delete"} /\ r.status \in {200, 204} THEN Page("accounts")
           ELSE IF r.op = "create" /\ r.status = 201 THEN [ui EXCEPT !.stage = "none"]
           ELSE IF r.op = "delete" /\ ui.stage = "delete" THEN [ui EXCEPT !.stage = "refused"]
           ELSE ui) EXCEPT !.waits = FALSE]

Handle ==
    /\ Take
    /\ ui' = Outcome(req[Tab])
    /\ UNCHANGED <<books, scripts, edits>>

TabStep ==
    \/ FetchLists \/ FetchConfig \/ \E page \in {"accounts", "scripts"} : Visit(page)
    \/ OpenCreate \/ FillCreate \/ SubmitCreate \/ CloseDialog
    \/ \E id \in Ids : Configure(id)
    \/ \E f \in FormFields : \E v \in Typed[f] : Edit(f, v)
    \/ Save \/ OpenDelete \/ ConfirmDelete
    \/ \E i \in ScriptIds : Promote(i)
    \/ Handle

-----------------------------------------------------------------------------
(* The server's steps, and the other source's requests.                    *)
ServerStep(s) ==
    /\ \/ AccountStep(s) /\ Cascade
       \/ CatalogStep(s)
    /\ UNCHANGED pages

OtherAsks ==
    /\ \/ \E id \in accounts :
            /\ config[id] # Null
            /\ \E f \in {"transport", "notifyToken"} : \E v \in Typed[f] :
                 Ask(Other, Put(id, [Shown(id) EXCEPT ![f] = v], Shown(id), TRUE))
       \/ \E id \in accounts : Ask(Other, [pc |-> "asked", op |-> "delete", id |-> id, status |-> 0])
       \/ \E i \in ScriptIds, op \in {"promote", "deprecate", "publish"} :
            /\ op = "publish" <=> scripts[i] = Null
            /\ Ask(Other, ScriptRequest(op, i))
    /\ UNCHANGED <<books, scripts, pages>>

Fails(s) == RequestFails(s) /\ UNCHANGED <<books, scripts, pages>>

Next ==
    \/ TabStep
    \/ OtherAsks
    \/ \E s \in Slots : ServerStep(s) \/ Fails(s)
    \/ ModeChanges /\ UNCHANGED <<scripts, pages>>

Init == RequestsInit /\ AccountsInit /\ CatalogInit /\ PagesInit

Spec == Init /\ [][Next]_vars

-----------------------------------------------------------------------------
(* A configuration page that was told its save succeeded told the user the *)
(* truth, if the page was up to date and nobody else wrote meanwhile:      *)
(* opened again it shows the form that was saved, the secrets that were    *)
(* masked are the stored ones still, and the password is the one that was  *)
(* typed.  The form is translated by the page, the client, the route, the  *)
(* use case and two statements.  Left out is what the code is known to     *)
(* drop: a user name without a password, a body that is not an object.     *)
Dropped(form) ==
    Hidden(form) \cup (IF form.password = NoText THEN {"username"} ELSE {})
                 \cup (IF form.body # "object" THEN {"body"} ELSE {})

Masked(form) ==
    [f \in FormFields |-> IF f = "password" THEN NoText
                          ELSE IF f \in Secrets /\ form[f] # NoText THEN Mask ELSE form[f]]

SaveIsHonest ==
    LET r == req[Tab] IN
    r.pc = "answered" /\ r.op = "put" /\ r.status = 200 /\ r.fresh /\ ~foreign =>
      /\ \A f \in FormFields \ Dropped(r.shown) : Shown(r.id)[f] = Masked(r.shown)[f]
      /\ \A f \in Secrets \ Dropped(r.shown) :
            config[r.id][f] = IF r.shown[f] = Mask THEN r.kept[f] ELSE r.shown[f]
      /\ r.shown.password # NoText => creds[r.id].password = r.shown.password

(* What an account loads gives way only to a script of the same scope or   *)
(* of a narrower one, to the step that saves its own deprecation, or to    *)
(* the account's end: promotions, publications and deprecations of several *)
(* callers, half done or refused, never take it away without one as close. *)
Width(scope) == IF scope \in Ids THEN 1 ELSE IF scope = Mine THEN 2 ELSE 3

ScriptGivesWay ==
    [][\A id \in accounts \cap accounts' : \A i \in Loaded(id) \ Loaded(id)' :
         \/ \E j \in Loaded(id)' : Width(scripts'[j].scope) <= Width(scripts[i].scope)
         \/ \E s \in Slots : /\ At(s, "deprecate", "loaded") /\ req[s].id = i
                             /\ req'[s].pc # "loaded"]_vars

=============================================================================
