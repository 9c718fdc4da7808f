--------------------------- MODULE SettingsPages ---------------------------
(***************************************************************************)
(* The tab of the web client over Users: the login page, the settings      *)
(* dialog with its two-factor, mode and API key sections, the cached       *)
(* answer of GET /me they draw from, and the interceptor that ends the     *)
(* session on a 401.                                                       *)
(***************************************************************************)
EXTENDS Users

VARIABLE ui
    \* page, stage: what is mounted and its state.  me: the cached user.  waits:
    \* the page that sent the request is still mounted.  phone: the secret the authenticator holds.
    \* pick: the mode chosen in a dialog.  listed: the key list shows a key.

pages == <<ui>>

Unloaded == [loaded |-> FALSE, enabled |-> FALSE, mode |-> "none"]
Me == [loaded |-> TRUE, enabled |-> user.enabled, mode |-> user.mode]

Mounted(page) == [ui EXCEPT !.page = page, !.stage = "start", !.waits = FALSE, !.pick = "none"]

Home == [page |-> "home", stage |-> "start", me |-> Unloaded,
         waits |-> FALSE, phone |-> user.secret, pick |-> "none", listed |-> FALSE]

SettingsInit == ui = Home

Free == req[Tab] = Idle
On(page, stage) == ui.page = page /\ ui.stage = stage
Stays == UNCHANGED <<req, asked, faults, accounting>>
Shows(next) == ui' = next /\ Stays

(* A request of the page: a mutation is pending until its answer.          *)
Sends(op, code, mode) ==
    AskUser(Tab, op, code, mode) /\ ui' = [ui EXCEPT !.waits = TRUE]

TypedInTab == {NoCode, Totp(ui.phone), Backup(codes.of)}

(* Every page but the login is behind the token, the me query and the      *)
(* mandatory choice of a mode.                                             *)
Inside == ui.page # "login" /\ ui.me.loaded /\ ui.me.mode # "none"

(* useUser: on mount, on focus and when a mutation invalidates it; until   *)
(* the answer is there the page has what it had.                           *)
FetchMe ==
    /\ ui.page # "login" /\ ui.me # Me
    /\ Shows([ui EXCEPT !.me = Me])

Open(page) ==
    /\ Inside /\ ui.page = "home"
    /\ Shows([Mounted(page) EXCEPT !.listed = IF page = "keys" THEN key = "active" ELSE @])

(* The dialog is closed, if none is open over it; callbacks of mutate()    *)
(* die with it.                                                            *)
Leave ==
    /\ ui.page \in {"security", "mode", "keys"}
    /\ ui.stage \notin {"confirming", "secret", "revoking"}
    /\ Shows(Mounted("home"))

(* A 401 reloads the page, and what was cached is gone.                    *)
SignedOut == [Mounted("login") EXCEPT !.me = Unloaded]

(* AuthProvider.logout leaves the cache to the collector.                  *)
Logout ==
    /\ Inside /\ ui.page = "home"
    /\ Shows(SignedOut) \/ Shows(Mounted("login"))

-----------------------------------------------------------------------------
(* Login: handleSubmit and handleTotpSubmit, one request at a time.        *)
SubmitLogin == On("login", "start") /\ Sends("login", NoCode, "none")

SubmitTotp == On("login", "totp") /\ \E code \in TypedInTab : Sends("verify", code, "none")

BackToCredentials == On("login", "totp") /\ Shows([ui EXCEPT !.stage = "start"])

(* The section draws from the cached flag first and from its stage second. *)
View ==
    IF ui.me.enabled THEN (IF ui.stage = "disabling" THEN "disabling" ELSE "on")
    ELSE IF ui.stage \in {"backup", "enrolling"} THEN ui.stage ELSE "off"

Sees(view) == Inside /\ ui.page = "security" /\ View = view

Enroll == Sees("off") /\ Sends("enroll", NoCode, "none")

SubmitConfirm == Sees("enrolling") /\ \E code \in TypedInTab : Sends("confirm", code, "none")

StartDisabling == Sees("on") /\ Shows([ui EXCEPT !.stage = "disabling"])

SubmitDisable == Sees("disabling") /\ \E code \in TypedInTab : Sends("disable", code, "none")

(* Cancel and Done.                                                        *)
ResetSection ==
    /\ Sees("enrolling") \/ Sees("disabling") \/ Sees("backup")
    /\ Free
    /\ Shows([ui EXCEPT !.stage = "start"])

-----------------------------------------------------------------------------
(* The operation section: edit, pick, warn, confirm.                       *)
StartEditing ==
    /\ Inside /\ On("mode", "start")
    /\ Shows([ui EXCEPT !.stage = "editing", !.pick = ui.me.mode])

PickMode(mode) == Inside /\ On("mode", "editing") /\ Shows([ui EXCEPT !.pick = mode])

AskConfirmation ==
    /\ Inside /\ On("mode", "editing")
    /\ ui.pick # "none" /\ ui.pick # ui.me.mode
    /\ Shows([ui EXCEPT !.stage = "confirming"])

ConfirmChange == Inside /\ On("mode", "confirming") /\ Sends("mode", NoCode, ui.pick)

CancelEditing ==
    /\ Inside /\ ui.page = "mode" /\ ui.stage \in {"editing", "confirming"} /\ Free
    /\ Shows([ui EXCEPT !.stage = IF @ = "editing" THEN "start" ELSE "editing",
                        !.pick = IF ui.stage = "editing" THEN "none" ELSE @])

(* ModeSelectDialog: nothing else can be done before.                      *)
ChooseMode(mode) ==
    /\ ui.page = "home" /\ ui.me.loaded /\ ui.me.mode = "none"
    /\ Sends("mode", NoCode, mode)

-----------------------------------------------------------------------------
(* The API key section.                                                    *)
SubmitCreate == Inside /\ On("keys", "start") /\ Sends("create", NoCode, "none")

OpenRevoke ==
    /\ Inside /\ On("keys", "start") /\ ui.listed /\ Free
    /\ Shows([ui EXCEPT !.stage = "revoking"])

(* A code is asked for and sent when the cached user has two factors.      *)
SubmitRevoke ==
    /\ Inside /\ On("keys", "revoking")
    /\ \E code \in IF ui.me.enabled THEN TypedInTab ELSE {NoCode} : Sends("revoke", code, "none")

CloseKeyDialog ==
    /\ Inside /\ ui.page = "keys" /\ ui.stage \in {"secret", "revoking"}
    /\ Shows([ui EXCEPT !.stage = "start"])

-----------------------------------------------------------------------------
(* onSuccess of the page's own mutations.                                  *)
Succeeded(op) ==
    CASE op = "login"   -> Mounted("home")
      [] op = "verify"  -> Mounted("home")
      [] op = "enroll"  -> [ui EXCEPT !.stage = "enrolling", !.phone = req[Tab].copy.secret]
      [] op = "confirm" -> [ui EXCEPT !.stage = "backup"]
      [] op = "disable" -> [ui EXCEPT !.stage = "start"]
      [] op = "mode"    -> [ui EXCEPT !.stage = "start", !.pick = "none"]
      [] op = "create"  -> [ui EXCEPT !.stage = "secret", !.listed = key = "active"]
      [] op = "revoke"  -> [ui EXCEPT !.stage = "start", !.listed = key = "active"]

SignIn == {"login", "verify"}

Outcome(op, status) ==
    IF status = 401 /\ op \notin SignIn THEN SignedOut
    ELSE IF ~ui.waits THEN ui
    ELSE [(IF status = 202 THEN [ui EXCEPT !.stage = "totp"]
           ELSE IF status = 200 THEN Succeeded(op) ELSE ui) EXCEPT !.waits = FALSE]

UserOps == ReadingOps \cup {"create"}

(* The answer: the interceptor sees it first, then the page if it is there.*)
UserAnswered ==
    /\ req[Tab].pc = "answered" /\ req[Tab].op \in UserOps
    /\ Take
    /\ ui' = Outcome(req[Tab].op, req[Tab].status)
    /\ UNCHANGED accounting

TabStep ==
    \/ FetchMe \/ Leave \/ Logout
    \/ \E page \in {"security", "mode", "keys"} : Open(page)
    \/ SubmitLogin \/ SubmitTotp \/ BackToCredentials
    \/ Enroll \/ SubmitConfirm \/ StartDisabling \/ SubmitDisable \/ ResetSection
    \/ StartEditing \/ AskConfirmation \/ ConfirmChange \/ CancelEditing
    \/ \E mode \in Modes : PickMode(mode) \/ ChooseMode(mode)
    \/ SubmitCreate \/ OpenRevoke \/ SubmitRevoke \/ CloseKeyDialog
    \/ UserAnswered

-----------------------------------------------------------------------------
(* The requests of anybody else who holds the session, with a code that is *)
(* right or none.                                                          *)
OtherAsks ==
    /\ \/ \E op \in {"enroll", "create"} : AskUser(Other, op, NoCode, "none")
       \/ \E mode \in Modes : AskUser(Other, "mode", NoCode, mode)
       \/ \E op \in {"verify", "confirm", "disable", "revoke"},
             code \in {NoCode, Totp(user.secret), Backup(codes.of)} : AskUser(Other, op, code, "none")
    /\ UNCHANGED pages

Next ==
    \/ TabStep
    \/ OtherAsks
    \/ \E s \in Slots : \/ UserStep(s) /\ UNCHANGED pages
                        \/ UserFails(s) /\ UNCHANGED pages
    \/ \E row \in Rows : Record(row) /\ UNCHANGED pages

vars == <<req, asked, faults, accounting, pages>>

Init == RequestsInit /\ UsersInit /\ SettingsInit

Spec == Init /\ [][Next]_vars

-----------------------------------------------------------------------------
Pages == {"login", "home", "security", "mode", "keys"}
PageStages == {"start", "totp", "enrolling", "disabling", "backup", "editing", "confirming",
               "secret", "revoking"}
PickedModes == Modes \cup {"none"}

UserRows == [enabled : BOOLEAN, secret : Nat, mode : PickedModes]

CodesTyped == [kind : {"none", "totp", "backup"}, of : Nat]

UserRequests ==
    [pc : {"asked", "loaded", "proved", "unpaired", "unordered", "wiped", "answered"}, op : UserOps, code : CodesTyped,
     mode : PickedModes, copy : UserRows, status : Nat]

(* Rows, requests in hand and the page have their types: a use case never  *)
(* saves a copy that is no row of users, whatever page or caller asked.    *)
TypeOK ==
    /\ req \in [Slots -> {Idle} \cup UserRequests]
    /\ asked \in [Slots -> Nat] /\ faults \in Nat
    /\ user \in UserRows
    /\ codes \in [of : Nat, left : Nat]
    /\ minted \in Nat
    /\ key \in {"none", "active", "revoked"}
    /\ history \subseteq Rows
    /\ wipe \in [Slots -> [had : SUBSET Rows, gone : SUBSET Rows]]
    /\ torn \in BOOLEAN
    /\ ui \in [page : Pages, stage : PageStages,
               me : [loaded : BOOLEAN, enabled : BOOLEAN, mode : PickedModes],
               waits : BOOLEAN, phone : Nat, pick : PickedModes, listed : BOOLEAN]

(* The backup codes and the second factor come and go together: a user     *)
(* with two factors has the codes of the secret that is in use, one        *)
(* without has none.  Four use cases write one or the other, some in a     *)
(* transaction and some not; it holds through copies that are stale in the *)
(* mode or in a secret not yet confirmed, and until one is saved that was  *)
(* read before the second factor was turned on or off.                     *)
RecoveryGoesWithTwoFactor == ~torn => codes.of = Factor(user)

(* A switch of the mode is whole: it takes everything with it that there   *)
(* was when it began, and only a switch that is saved takes anything, so   *)
(* one that is refused or fails between two of its statements leaves the   *)
(* history as it was.  It holds while movements, orders and pairs are made *)
(* and another switch is under way between those statements.  A mode that  *)
(* another use case brings back with its stale copy wipes nothing.         *)
SwitchIsWhole ==
    [][/\ history \subseteq history'
          \/ \E s \in Slots : At(s, "mode", "wiped") /\ user'.mode = req[s].mode
       /\ user'.mode # user.mode =>
            \E s \in Slots :
              \/ At(s, "mode", "wiped") /\ wipe[s].had \cap history' = {}
              \/ req[s].pc # "idle" /\ req[s].op # "mode" /\ user'.mode = copyOf(s).mode]_vars

=============================================================================
