--------------------------- MODULE MCAccountPages ---------------------------
(* The pages of accounts and scripts on a small instance. *)
EXTENDS AccountPages

Typing ==
    [endpoint |-> {"private"}, webhook |-> {NoText}, extra |-> {}, method |-> {"GET", "POST"},
     body |-> {}, authToken |-> {"t2"}, session |-> {},
     transport |-> {"api", "chat_webhook"}, url |-> {"url"}, channel |-> {},
     notifyToken |-> {NoText, "t2"}, events |-> {"some"}, username |-> {"u1"}, password |-> {"p1"}]

Stored(transport, url, channel, token, events) ==
    [endpoint |-> "url", webhook |-> "url", extra |-> NoText, method |-> "POST", body |-> "object",
     authToken |-> "t1", session |-> "one-shot", transport |-> transport, url |-> url,
     channel |-> channel, notifyToken |-> token, events |-> events]

(* An account that is told of events by Slack. *)
StoredRows == {Stored("slack", NoText, "c", "t1", "some")}

AllTexts ==
    {NoText, Mask, "GET", "one-shot", "api", "u1", "p1"}
    \cup UNION {Typing[f] : f \in FormFields}
    \cup UNION {{row[f] : f \in RowFields} : row \in StoredRows}

(* A behaviour is about forms or about scripts. *)
OneStory == \/ scripts = Unlisted
            \/ edits = 0 /\ \A id \in Ids : config[id] = Null

=============================================================================
