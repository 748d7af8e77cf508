------------------------------ MODULE Catalog ------------------------------
(***************************************************************************)
(* The configuration a gateway starts with, the checks it must pass        *)
(* (packages/core/src/validation.ts), and what a call costs under it       *)
(* (packages/core/src/pricing.ts).                                         *)
(*                                                                         *)
(* A bundle is a record of two documents: models, with their prices,       *)
(* limits and routes, and pools, with their credentials.  The shapes of    *)
(* documents and identifiers are left out; "malformed" stands for one.     *)
(* Prices are micro-dollars for TokenScale tokens.                         *)
(***************************************************************************)
EXTENDS Naturals, Sequences, FiniteSets, SequencesExt

CONSTANTS
  TokenScale,       \* 1 000 000: tokens a price is quoted for
  MaxTimeout,       \* the longest timeout of a route, 240 s
  MaxSafeInteger    \* the largest amount that is still exact, 2^53 - 1

ASSUME CatalogAssumption ==
  /\ TokenScale \in Nat \ {0}
  /\ MaxTimeout \in Nat \ {0}
  /\ MaxSafeInteger \in Nat

Providers == {"openai", "perplexity", "anthropic", "cloudflare-workers-ai"}

StyleOf(provider) ==
  CASE provider = "anthropic" -> "anthropic-messages"
    [] provider = "cloudflare-workers-ai" -> "cloudflare-rest"
    [] OTHER -> "openai-compatible"

-----------------------------------------------------------------------------
(* Validation.                                                             *)

LimitsValid(limits) ==
  /\ \A l \in {"context", "input", "default", "output"} : limits[l] > 0
  /\ limits.default <= limits.output
  /\ limits.input + limits.output <= limits.context

RouteValid(route) ==
  /\ route.provider \in Providers
  /\ route.timeout \in 1..MaxTimeout

Enabled(rows) == {row \in Range(rows) : row.enabled}

\* No two rows of a document have one id.
UniqueIds(rowsOf) ==
  \A a, b \in DOMAIN rowsOf : \A i \in DOMAIN rowsOf[a], j \in DOMAIN rowsOf[b] :
    rowsOf[a][i].id = rowsOf[b][j].id => a = b /\ i = j

ModelValid(model) ==
  /\ ~model.malformed
  /\ LimitsValid(model.limits)
  /\ model.routes # <<>>
  /\ \A route \in Range(model.routes) : RouteValid(route)
  /\ model.enabled => Enabled(model.routes) # {}

PricingValid(models) ==
  /\ DOMAIN models # {}
  /\ \A id \in DOMAIN models : ModelValid(models[id])
  /\ UniqueIds([id \in DOMAIN models |-> models[id].routes])

PoolValid(pool) ==
  /\ ~pool.malformed
  /\ pool.provider \in Providers
  /\ pool.style = StyleOf(pool.provider)
  /\ pool.baseCooldown \in 1..pool.maxCooldown
  /\ pool.credentials # <<>>
  /\ \A credential \in Range(pool.credentials) :
       credential.weight > 0 /\ credential.maxInFlight > 0
  /\ pool.enabled => Enabled(pool.credentials) # {}

PoolsValid(pools) ==
  /\ DOMAIN pools # {}
  /\ \A id \in DOMAIN pools : PoolValid(pools[id])
  /\ UniqueIds([id \in DOMAIN pools |-> pools[id].credentials])

\* A route names a pool of its provider, and one that is in use if it is.
RouteServed(model, route, pools) ==
  /\ route.pool \in DOMAIN pools
  /\ pools[route.pool].provider = route.provider
  /\ model.enabled /\ route.enabled =>
       /\ pools[route.pool].enabled
       /\ Enabled(pools[route.pool].credentials) # {}

\* Mutant of BundleValid: the two documents are checked one by one only.
BundleValidApart(bundle) == PricingValid(bundle.models) /\ PoolsValid(bundle.pools)

BundleValid(bundle) ==
  /\ PricingValid(bundle.models)
  /\ PoolsValid(bundle.pools)
  /\ bundle.sameRevision
  /\ \A id \in DOMAIN bundle.models :
       \A route \in Range(bundle.models[id].routes) :
         RouteServed(bundle.models[id], route, bundle.pools)

-----------------------------------------------------------------------------
(* Prices.                                                                 *)

CeilDivide(a, b) == (a + (b - 1)) \div b

Larger(a, b) == IF a < b THEN b ELSE a

\* What a number of tokens costs: never less than the minimum charge.
Cost(model, input, output) ==
  Larger(CeilDivide(input * model.billing.input + output * model.billing.output, TokenScale),
         model.billing.minimum)

\* Whether a call of this size may be reserved at all.
WithinLimits(model, input, output) ==
  /\ input <= model.limits.input
  /\ output <= model.limits.output
  /\ input + output <= model.limits.context
  /\ Cost(model, input, output) <= MaxSafeInteger

EnabledModels(bundle) == {id \in DOMAIN bundle.models : bundle.models[id].enabled}

\* The routes of a model that may be tried.  In which order they are is left
\* to Inference: a call may end up at any of them.
CandidateRoutes(model) == Enabled(model.routes)
=============================================================================
