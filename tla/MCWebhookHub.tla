----------------------------- MODULE MCWebhookHub -----------------------------
(* The webhooks of the discovery service on a small instance. *)
EXTENDS WebhookHub, TLC

CONSTANTS task, stream, api, clash

\* The first row is malformed; the events of the API have one subscriber, and one of
\* them has the id of the second row.
MCRows == 1..2
MCApiEvents == {api, clash}
MCTypeOf == (1 :> Malformed) @@ (2 :> task) @@ (api :> stream) @@ (clash :> stream)
MCIdOf == (1 :> 1) @@ (2 :> 2) @@ (api :> api) @@ (clash :> 2)
MCTypes == {task, stream}
MCInterest == <<{task}, {task, stream}>>
=============================================================================
