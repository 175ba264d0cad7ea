------------------------------ MODULE MCServer ------------------------------
(***************************************************************************)
(* Environments good and bad, and a request for every branch of the muxes, *)
(* the gateway and the handlers.                                           *)
(***************************************************************************)
EXTENDS Server

Good == [program |-> "main", cwd |-> 2, file |-> 1, broken |-> FALSE,
         filevars |-> Required \ {"DATABASE_URL"}, vars |-> {"DATABASE_URL"},
         numeric |-> TRUE, url |-> TRUE, http |-> 0, grpc |-> 0]

Deployed == [Good EXCEPT !.file = 0, !.vars = Required]

Routed == [Deployed EXCEPT !.program = "router"]

\* .env too far up or unreadable, a credit that is no number, no database's
\* URL, a port taken by the other server, a directory that has no name.
MCEnvironment ==
    {Good, Deployed, Routed,
     [Good EXCEPT !.file = 0], [Good EXCEPT !.broken = TRUE],
     [Good EXCEPT !.numeric = FALSE], [Good EXCEPT !.url = FALSE],
     [Deployed EXCEPT !.http = 50051], [Good EXCEPT !.cwd = Dot]}

MCRouter == {Routed}

Http(v, p, b) == [via |-> "http", verb |-> v, path |-> p, body |-> b]
Native(m, b) == [via |-> "grpc", verb |-> "POST", path |-> m, body |-> b]

MCHttpEvent == {Http("POST", Webhook, "checkout")}

\* Refusals, pages and calls that are not events.
MCOther ==
    {Http("GET", "/", "complete"), Http("POST", "/privacy", "complete"),
     Http("GET", "/api/spending-units", "complete"),
     Http("POST", "/elsewhere", "complete"),
     Http("POST", Webhook, "unsigned"), Http("POST", Webhook, "ignored"),
     Http("POST", "/api/spending-units", "complete"),
     Http("POST", "/api/spending-units", "incomplete"),
     Http("POST", "/api/cancel-subscription", "garbled"),
     Native("CancelSubscription", "complete"),
     Native("VerifySubscriptionValidity", "complete")}

MCRequest ==
    MCHttpEvent \cup {Native("HandleWebhook", "checkout")} \cup MCOther
=============================================================================
