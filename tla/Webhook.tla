-------------------------------- MODULE Webhook --------------------------------
(***************************************************************************)
(* deliver_webhook (notifications/webhook_client.py) under the destination  *)
(* policy (destination_policy.py): a delivery makes up to DAttempts         *)
(* attempts, an attempt follows up to DRedirects redirects of its origin,   *)
(* and the destination is resolved and checked again before every POST.     *)
(* A name resolves to a set of addresses, another one at every resolution.  *)
(***************************************************************************)
EXTENDS Naturals

CONSTANTS DAddrs,     \* addresses a name may resolve to
          DDenied,    \* those validate_resolved_address refuses
          DAttempts,  \* MAX_DELIVERY_ATTEMPTS
          DRedirects  \* max_webhook_redirects()

ASSUME WebhookAssumption ==
    /\ DDenied \subseteq DAddrs /\ DAttempts \in Nat \ {0} /\ DRedirects \in Nat

VARIABLES hook,   \* the delivery under way; hook.to holds the pinned address, if any
          posts,  \* POSTs of this delivery (history)
          refused \* the delivery was refused by the policy (history)

dVars == <<hook, posts, refused>>

NoHook == [at |-> "idle", attempt |-> 0, hops |-> 0, to |-> {}]

WebhookInit == hook = NoHook /\ posts = 0 /\ refused = FALSE

\* validate_webhook_url: resolved to something, and every address allowed.
Valid(answer) == answer # {} /\ answer \cap DDenied = {}

\* The answers a name server may give.
Answers == SUBSET DAddrs

Over(why) == hook' = NoHook /\ posts' = 0 /\ refused' = why

\* deliver_webhook: the URL is validated before the first attempt.
DeliverWebhook ==
    /\ hook.at = "idle"
    /\ \E answer \in Answers :
          \/ Valid(answer) /\ hook' = [NoHook EXCEPT !.at = "chain", !.attempt = 1]
             /\ refused' = FALSE /\ UNCHANGED posts
          \/ ~Valid(answer) /\ Over(TRUE)

\* validate_redirect_chain: every URL of the chain so far.
ValidateChain ==
    /\ hook.at = "chain"
    /\ \E answer \in Answers :
          \/ Valid(answer) /\ hook' = [hook EXCEPT !.at = "resolve"] /\ UNCHANGED <<posts, refused>>
          \/ ~Valid(answer) /\ Over(TRUE)

\* resolve_webhook_host: the addresses are resolved once more and all of them
\* checked; the first is pinned, and the connection made to it.
ResolveWebhookHost ==
    /\ hook.at = "resolve"
    /\ \E answer \in Answers :
          \/ /\ Valid(answer) /\ UNCHANGED <<posts, refused>>
             /\ \E ip \in answer : hook' = [hook EXCEPT !.at = "post", !.to = {ip}]
          \/ ~Valid(answer) /\ Over(TRUE)

PostStream ==
    /\ hook.at = "post" /\ hook' = [hook EXCEPT !.at = "answer"]
    /\ posts' = posts + 1 /\ UNCHANGED refused

\* 307 or 308 to the same origin, with room in the chain.
FollowRedirect ==
    /\ hook.at = "answer" /\ hook.hops < DRedirects
    /\ hook' = [hook EXCEPT !.at = "chain", !.hops = @ + 1, !.to = {}]
    /\ UNCHANGED <<posts, refused>>

\* Success, a refusal, a redirect elsewhere or one too many end the delivery.
EndDelivery == hook.at = "answer" /\ Over(FALSE)

\* A transport error, 408, 429 or 5xx: the attempt is repeated from the start.
RetryDelivery ==
    /\ hook.at = "answer"
    /\ \/ /\ hook.attempt < DAttempts
          /\ hook' = [NoHook EXCEPT !.at = "chain", !.attempt = hook.attempt + 1]
          /\ UNCHANGED <<posts, refused>>
       \/ hook.attempt = DAttempts /\ Over(FALSE)

WebhookStep ==
    \/ ValidateChain \/ ResolveWebhookHost \/ PostStream \/ FollowRedirect
    \/ EndDelivery \/ RetryDelivery

WebhookNext == DeliverWebhook \/ WebhookStep

WebhookSpec == WebhookInit /\ [][WebhookNext]_dVars

-----------------------------------------------------------------------------
\* A delivery, its attempts and its redirects within their limits (notifications/webhook_client.py).
WebhookTypeOK ==
    /\ hook \in [at : {"idle", "chain", "resolve", "post", "answer"}, attempt : 0..DAttempts,
                 hops : 0..DRedirects, to : SUBSET DAddrs]
    /\ posts \in 0..(DAttempts * (DRedirects + 1)) /\ refused \in BOOLEAN

\* deliver_webhook's docstring bounds its time by one timeout per attempt; a
\* redirect makes an attempt post again, with a timeout of its own.
OnePostPerAttempt == posts <= DAttempts
=============================================================================
