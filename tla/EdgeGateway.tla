----------------------------- MODULE EdgeGateway -----------------------------
(***************************************************************************)
(* The API edge: a Worker that throttles a request by a tier of its route  *)
(* and forwards it to the origin.  Requests share only the limiters of the *)
(* platform, which they await, so requests overlap.  A limiter is external *)
(* and approximate: it grants, refuses or fails any call.  Its grants to   *)
(* one tier and actor, chosen at the start, are counted.                   *)
(***************************************************************************)
EXTENDS Integers, Sequences, FiniteSets

CONSTANTS Requests,   \* bound on the requests under way
          Ips, Credentials, \* of the callers
          Shapes      \* the requests, as far as the handler tells them apart

Owners == {"flashsale", "opsbridge", "quanlykho"}
Topics == {"orders", "investigations", "ai", "auth", "health"}
Bindings == {"RATE_ORDER", "RATE_AUTH", "RATE_AI", "RATE_STAFF", "RATE_GENERAL"}
Settings == {"AZURE_ORIGIN_URL", "AZURE_ORIGIN", "EDGE_PROOF_KEY"} \cup Bindings
Writes == {"POST", "PUT", "PATCH", "DELETE"}
Reads == {"GET", "HEAD"}

ASSUME RequestsAssumption == IsFiniteSet(Requests)
\* topics are the patterns that the path matches, health the proof's exact path.
ASSUME ShapesAssumption ==
    Shapes \subseteq [origin : {"none", "allowed", "other"}, owner : Owners \cup {"unknown"},
                      topics : SUBSET Topics, method : Writes \cup Reads \cup {"OPTIONS"},
                      ip : Ips, credential : Credentials \cup {"none"},
                      nonce : {"none", "fresh", "malformed"}]

VARIABLES env,      \* what the deployment has configured, and well
          followed, \* the tier and actor that are counted
          slot,     \* the requests under way
          unused    \* observer: the limiter's grants to followed, less the calls
                    \* of the origin on its behalf

edgeVars == <<env, followed, slot, unused>>
Idle == [at |-> "idle", counted |-> FALSE]

EdgeTypeOK ==
    /\ env \in SUBSET Settings
    /\ followed \in Bindings \X (Ips \cup Credentials)
    /\ slot \in [Requests -> [at : {"idle", "limit", "granted", "origin"}, counted : BOOLEAN]]
    /\ unused \in Int

\* At most one setting is missing.
EdgeInit ==
    /\ \E missing \in {{}} \cup {{v} : v \in Settings} : env = Settings \ missing
    /\ followed \in Bindings \X (Ips \cup Credentials)
    /\ unused = 0
    /\ slot = [s \in Requests |-> Idle]
-----------------------------------------------------------------------------
(* routes.mjs *)

Methods == Writes \cup Reads
Anywhere == {}
Rule(topics, methods, binding) == [topics |-> topics, methods |-> methods, binding |-> binding]

ROUTE_REGISTRY == [flashsale |-> <<Rule({"orders"}, {"POST"}, "RATE_ORDER")>>,
                   opsbridge |-> <<Rule({"investigations"}, Methods, "RATE_AI")>>,
                   quanlykho |-> <<Rule({"ai"}, Methods, "RATE_AI")>>]

COMMON_POLICIES == <<Rule({"auth"}, Methods, "RATE_AUTH"),
                     Rule({"ai"}, Methods, "RATE_AI"),
                     Rule(Anywhere, Writes, "RATE_STAFF"),
                     Rule(Anywhere, Methods, "RATE_GENERAL")>>

Matches(rule, r) ==
    /\ r.method \in rule.methods
    /\ rule.topics = Anywhere \/ rule.topics \cap r.topics # {}

\* The application's rules, then the common ones; the first that matches.
resolvePolicy(r) ==
    LET rules == ROUTE_REGISTRY[r.owner] \o COMMON_POLICIES
        first == CHOOSE i \in DOMAIN rules :
                   Matches(rules[i], r) /\ \A j \in 1..i - 1 : ~Matches(rules[j], r)
    IN  rules[first].binding
-----------------------------------------------------------------------------
(* index.mjs *)

\* Orders, sign-ins and the general tier count by address, the others by the
\* credential's digest if there is one.
actorKey(r) ==
    IF \/ resolvePolicy(r) \in {"RATE_ORDER", "RATE_AUTH", "RATE_GENERAL"}
       \/ r.credential = "none"
    THEN r.ip ELSE r.credential

proofRequested(r) == r.topics = {"health"} /\ r.owner = "flashsale" /\ r.method = "GET" /\ r.nonce # "none"

\* What is not refused at once: 403, 404, 204 or 503.
Admitted(r) ==
    /\ r.origin # "other"
    /\ r.owner # "unknown"
    /\ r.method # "OPTIONS"
    /\ {"AZURE_ORIGIN_URL", "AZURE_ORIGIN"} \subseteq env
    /\ proofRequested(r) => r.nonce = "fresh" /\ "EDGE_PROOF_KEY" \in env
    /\ resolvePolicy(r) \in env

\* Mutant: without its binding a request is not throttled.
fetch_unthrottled(s, r) ==
    /\ slot[s] = Idle
    /\ Admitted(r) \/ (r.owner \in Owners /\ r.method # "OPTIONS" /\ resolvePolicy(r) \notin env)
    /\ slot' = [slot EXCEPT ![s] =
                 [at |-> IF resolvePolicy(r) \in env THEN "limit" ELSE "granted",
                  counted |-> followed = <<resolvePolicy(r), actorKey(r)>>]]
    /\ UNCHANGED <<env, followed, unused>>

\* The handler, up to its call of the limiter.
fetch(s, r) ==
    /\ slot[s] = Idle
    /\ Admitted(r)
    /\ slot' = [slot EXCEPT ![s] =
                 [at |-> "limit", counted |-> followed = <<resolvePolicy(r), actorKey(r)>>]]
    /\ UNCHANGED <<env, followed, unused>>

\* The limiter grants the call.
limit_grants(s) ==
    /\ slot[s].at = "limit"
    /\ slot' = [slot EXCEPT ![s].at = "granted"]
    /\ unused' = IF slot[s].counted THEN unused + 1 ELSE unused
    /\ UNCHANGED <<env, followed>>

\* It refuses, 429, or fails, 503.
limit_refuses(s) ==
    /\ slot[s].at = "limit"
    /\ slot' = [slot EXCEPT ![s] = Idle]
    /\ UNCHANGED <<env, followed, unused>>

\* AZURE_ORIGIN.fetch, some time after the grant.
forward(s) ==
    /\ slot[s].at = "granted"
    /\ slot' = [slot EXCEPT ![s].at = "origin"]
    /\ unused' = IF slot[s].counted THEN unused - 1 ELSE unused
    /\ UNCHANGED <<env, followed>>

\* Its answer, a refused redirect (502), or an error (503): the caller's reply.
reply(s) ==
    /\ slot[s].at = "origin"
    /\ slot' = [slot EXCEPT ![s] = Idle]
    /\ UNCHANGED <<env, followed, unused>>
-----------------------------------------------------------------------------
EdgeNext ==
    \E s \in Requests :
      \/ \E r \in Shapes : fetch(s, r)
      \/ limit_grants(s) \/ limit_refuses(s) \/ forward(s) \/ reply(s)

EdgeSpec == EdgeInit /\ [][EdgeNext]_edgeVars
-----------------------------------------------------------------------------
(* Properties *)

\* "A missing rate binding is a deployment error, never an unthrottled path":
\* with any setting missing, and overlapping requests of one actor refused,
\* granted or failed in any order, each of its calls of the origin has used a
\* grant of its own, of its own tier and key.
NeverUnthrottled == unused >= 0
==============================================================================
