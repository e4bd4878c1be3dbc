--------------------------- MODULE RateLimitTable ---------------------------
(***************************************************************************)
(* The rate limits of the API, as setRateLimit registers them at start-up. *)
(*                                                                         *)
(* A path is the tuple of its segments after /v1; Param stands for any     *)
(* {parameter}.  The period of every rule is a minute.  Every rule of the  *)
(* table with the anonymous strategy is keyed by the client's address, and *)
(* every rule with the authenticated strategy by the user's id.            *)
(***************************************************************************)
EXTENDS Naturals

Param == "{}"

Rule(strategy, limit, when) == [strategy |-> strategy, limit |-> limit, when |-> when]

\* With a Condition (IsNotAuthenticated, IsAuthenticated), and without.
IfAnonymous(limit) == Rule("anonymous", limit, "anonymous")
IfUser(limit)      == Rule("authenticated", limit, "authenticated")
PerAddress(limit)  == Rule("anonymous", limit, "always")
PerUser(limit)     == Rule("authenticated", limit, "always")

Endpoint(method, path, rules) == [method |-> method, path |-> path, rules |-> rules]

Each(method, paths, rule) == {Endpoint(method, p, <<rule>>) : p \in paths}

Both(limit) == <<IfAnonymous(limit), IfUser(2 * limit)>>

PublicEndpoints == {Endpoint("GET", <<"csrf-token">>, Both(60)),
                    Endpoint("GET", <<"categories">>, Both(60))}

AuthEndpoints ==
  Each("POST", {<<"auth", "register">>}, IfAnonymous(5))
  \cup Each("POST", {<<"auth", "sign-in">>, <<"auth", "sign-in", "2fa">>,
                     <<"auth", "sign-in", "recovery-code">>,
                     <<"auth", "forget-password">>,
                     <<"auth", "reset-password", "verify-email">>,
                     <<"auth", "reset-password", "2fa">>,
                     <<"auth", "reset-password", "recovery-code">>,
                     <<"auth", "reset-password", "change">>}, PerAddress(5))
  \cup Each("POST", {<<"auth", "google">>, <<"auth", "google", "callback">>}, PerAddress(10))
  \cup Each("POST", {<<"auth", "refresh">>}, PerUser(20))

UserEndpoints ==
  Each("PATCH", {<<"users", "activate-account">>, <<"users", "email", "verify-email">>},
       PerUser(5))
  \cup Each("GET", {<<"users">>, <<"users", "current">>}, IfUser(60))
  \cup Each("PATCH", {<<"users", "change-password">>}, IfUser(10))
  \cup Each("PATCH", {<<"users", "change-password", "2fa">>}, IfUser(5))
  \cup Each("POST", {<<"users", "email", "initiate-change">>,
                     <<"users", "email", "verify-2fa">>}, IfUser(5))

FileAndMfaEndpoints ==
  Each("POST", {<<"files", "image">>}, IfUser(5))
  \cup Each("GET", {<<"mfa", "setup">>}, IfUser(10))
  \cup Each("POST", {<<"mfa", "verify">>, <<"mfa", "recovery-codes">>}, IfUser(10))
  \cup Each("PATCH", {<<"mfa", "recovery-codes", "reset">>}, IfUser(5))

CartEndpoints ==
  Each("GET", {<<"carts">>, <<"carts", "items">>, <<"carts", "items", "vendor">>,
               <<"carts", "items", Param>>}, IfUser(30))
  \cup Each("POST", {<<"carts", Param, "pay">>}, IfUser(5))
  \cup Each("POST", {<<"carts", "items">>}, IfUser(10))
  \cup Each("DELETE", {<<"carts", "items", Param>>}, IfUser(10))
  \cup Each("PATCH", {<<"carts", "items", Param>>}, IfUser(10))

OrderAndAddressEndpoints ==
  Each("POST", {<<"orders", "webhook", "stripe">>}, IfAnonymous(10000))
  \cup Each("GET", {<<"orders">>, <<"orders", Param>>, <<"addresses">>,
                    <<"addresses", Param>>, <<"addresses", "default">>}, IfUser(30))
  \cup Each("POST", {<<"addresses">>}, IfUser(10))

ProductEndpoints ==
  Each("GET", {<<"option-types">>, <<"option-types", Param>>,
               <<"products", "whitelists">>, <<"products", "whitelists", "vendor">>},
       IfUser(30))
  \cup {Endpoint("GET", <<"products">>, Both(60))}
  \cup Each("POST", {<<"products", "whitelists">>}, IfUser(10))
  \cup Each("DELETE", {<<"products", "whitelists", Param>>}, IfUser(10))
  \cup Each("GET", {<<"products", Param>>, <<"products", Param, "reviews">>}, IfAnonymous(60))

RateLimits == PublicEndpoints \cup AuthEndpoints \cup UserEndpoints
              \cup FileAndMfaEndpoints \cup CartEndpoints
              \cup OrderAndAddressEndpoints \cup ProductEndpoints
=============================================================================
