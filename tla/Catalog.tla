------------------------------ MODULE Catalog ------------------------------
(***************************************************************************)
(* The scripts of one bank and flow: official ones published from the      *)
(* command line, overrides of the user and of one of his accounts, and the *)
(* use cases that promote and deprecate them under the three partial       *)
(* unique indexes of migration 051.                                        *)
(***************************************************************************)
EXTENDS Accounts

CONSTANTS Official, Mine,       \* the scopes above the accounts'
          MaxScripts            \* bound: scripts ever registered

Scopes == {Official, Mine} \cup Ids
ScriptIds == 1 .. MaxScripts
ScriptRows == [scope : Scopes, status : {"review", "active", "deprecated"}]

ASSUME ScopesDiffer ==
    /\ MaxScripts \in Nat
    /\ Official # Mine /\ Official \notin Ids /\ Mine \notin Ids
    /\ Null \notin ScriptRows

VARIABLE scripts                \* bank_scripts: scope and status by id

ActiveIn(table, scope) ==
    {i \in ScriptIds : table[i] # Null /\ table[i].scope = scope /\ table[i].status = "active"}

Active(scope) == ActiveIn(scripts, scope)

(* loadActive: the narrowest scope that has an active script.              *)
Loaded(id) ==
    IF Active(id) # {} THEN Active(id)
    ELSE IF Active(Mine) # {} THEN Active(Mine)
    ELSE Active(Official)

(* One active script of a scope at most, and any in review.                *)
CatalogInit ==
    /\ scripts \in [ScriptIds -> {Null} \cup [scope : Scopes, status : {"review", "active"}]]
    /\ \A i \in ScriptIds : scripts[i] # Null => scripts[i].scope \notin Ids \ accounts
    /\ \A i, j \in ScriptIds : i < j /\ scripts[i] = Null => scripts[j] = Null
    /\ \A scope \in Scopes : \A i, j \in Active(scope) : i = j

ScriptRequest(op, id) ==
    [pc |-> "asked", op |-> op, id |-> id, copy |-> Null, seen |-> {}, status |-> 0]

(* findById and the use case's checks on the row it returned.              *)
ReadScript(s) ==
    /\ req[s].pc = "asked" /\ req[s].op \in {"promote", "deprecate"}
    /\ LET row == scripts[req[s].id] IN
       IF row = Null THEN Answer(s, 404)
       ELSE IF row.scope = Official THEN Answer(s, 403)
       ELSE IF req[s].op = "promote" /\ row.status # "review" THEN Answer(s, 409)
       ELSE Holding(s, [req[s] EXCEPT !.pc = "loaded", !.copy = row])
    /\ UNCHANGED <<books, scripts>>

(* PublishOfficialScriptUseCase makes its script and promotes it.          *)
MakeOfficial(s) ==
    /\ At(s, "publish", "asked")
    /\ scripts[req[s].id] = Null
    /\ Holding(s, [req[s] EXCEPT !.pc = "loaded",
                                 !.copy = [scope |-> Official, status |-> "review"]])
    /\ UNCHANGED <<books, scripts>>

Promotions == {"promote", "publish"}

(* Mutation: deprecateActive before the transaction. *)
ClearAtOnce(s) ==
    /\ req[s].pc = "loaded" /\ req[s].op \in Promotions
    /\ Holding(s, [req[s] EXCEPT !.pc = "cleared", !.seen = Active(req[s].copy.scope)])
    /\ scripts' = [i \in ScriptIds |->
            IF i \in Active(req[s].copy.scope) THEN [scripts[i] EXCEPT !.status = "deprecated"]
            ELSE scripts[i]]
    /\ UNCHANGED books

(* deprecateActive, in the transaction: the rows its snapshot shows.       *)
ClearScope(s) ==
    /\ req[s].pc = "loaded" /\ req[s].op \in Promotions
    /\ Holding(s, [req[s] EXCEPT !.pc = "cleared", !.seen = Active(req[s].copy.scope)])
    /\ UNCHANGED <<books, scripts>>

(* The scope is of an account that is gone, or has another active script   *)
(* by now: the foreign key or the unique index refuses the row.            *)
Rejected(s) ==
    LET scope == req[s].copy.scope IN
    \/ scope \in Ids \ accounts
    \/ ~(Active(scope) \subseteq req[s].seen \cup {req[s].id})

(* save and commit, or the whole transaction is rolled back.               *)
CommitPromotion(s) ==
    /\ req[s].pc = "cleared"
    /\ IF Rejected(s)
       THEN Answer(s, 500) /\ UNCHANGED scripts
       ELSE /\ scripts' = [i \in ScriptIds |->
                 IF i = req[s].id THEN [req[s].copy EXCEPT !.status = "active"]
                 ELSE IF i \in req[s].seen /\ scripts[i] # Null
                      THEN [scripts[i] EXCEPT !.status = "deprecated"]
                 ELSE scripts[i]]
            /\ Answer(s, 200)
    /\ UNCHANGED books

(* DeprecateScriptUseCase saves the copy it read, outside any transaction. *)
SaveDeprecated(s) ==
    /\ At(s, "deprecate", "loaded")
    /\ IF req[s].copy.scope \in Ids \ accounts
       THEN Answer(s, 500) /\ UNCHANGED scripts
       ELSE /\ scripts' = [scripts EXCEPT ![req[s].id] =
                             [req[s].copy EXCEPT !.status = "deprecated"]]
            /\ Answer(s, 200)
    /\ UNCHANGED books

CatalogStep(s) ==
    \/ ReadScript(s) \/ MakeOfficial(s) \/ ClearScope(s)
    \/ CommitPromotion(s) \/ SaveDeprecated(s)

(* Scripts of an account that is deleted go with it.                       *)
Cascade ==
    scripts' = [i \in ScriptIds |->
                  IF scripts[i] # Null /\ scripts[i].scope \in accounts \ accounts'
                  THEN Null ELSE scripts[i]]

=============================================================================
