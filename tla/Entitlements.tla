----------------------------- MODULE Entitlements ------------------------------
(***************************************************************************)
(* Which features a request may use: api/entitlements.py.  A feature is    *)
(* available when the tier (or the pin of an external-demo request)        *)
(* includes it, the data sources it needs are provisioned, and it is not   *)
(* retired.  Every reader resolves through Resolved, so a pin wins over    *)
(* the deployment's tier, its feed setting and the simulator's headers.    *)
(***************************************************************************)
EXTENDS Naturals

Deployment == [tier : {"beta", "personal"}, feed : BOOLEAN, simulator : BOOLEAN,
               retired : BOOLEAN, feedLocked : BOOLEAN]

FreeSources == {"broker", "ledger", "snapshots", "fred_pubdomain", "edgar"}
FeedSources == {"feed", "benchmark", "etf_vendor"}

Beta == {"overview", "glance", "income", "transactions", "tax", "concentration",
         "performance", "macro", "fundamentals", "cash_to_targets", "whatif_purchase", "goal"}
Pro  == Beta \cup {"auto_sync", "benchmark", "risk", "attribution", "scenarios", "calendar",
                   "etf_lookthrough", "indices", "market_board", "benchmark_gap"}
Personal == Pro \cup {"agentic_research", "ai_advisor", "alpha_engine", "research_intel"}
Features == Personal

TierFeatures == [beta |-> Beta, personal |-> Personal]

AdviceFeatures == {"market_board", "research_intel", "alpha_engine", "ai_advisor", "agentic_research"}
FeedDerived    == {"benchmark", "risk", "attribution", "scenarios", "calendar", "indices",
                   "etf_lookthrough", "benchmark_gap"}

\* The sources a feature is computed from; most need none that could be missing.
Requires(f) ==
  CASE f = "benchmark" -> {"benchmark"}
    [] f = "etf_lookthrough" -> {"etf_vendor"}
    [] f \in (FeedDerived \ {"benchmark", "etf_lookthrough"}) \cup {"market_board", "agentic_research"} -> {"feed"}
    [] f \in {"income", "transactions"} -> {"ledger"}
    [] f = "tax" -> {"ledger", "broker"}
    [] f = "performance" -> {"broker", "snapshots"}
    [] f = "macro" -> {"fred_pubdomain"}
    [] f = "fundamentals" -> {"edgar"}
    [] f \in {"overview", "glance", "concentration", "auto_sync"} -> {"broker"}
    [] OTHER -> {}

\* The producer of research_intel is gone whatever the cutover flag says.
Retired(d) == {"research_intel"} \cup (IF d.retired THEN {"alpha_engine"} ELSE {})

NoPin == [on |-> FALSE, features |-> {}, feed |-> FALSE]
DemoPin(d) ==
  [on |-> TRUE, features |-> (Pro \ AdviceFeatures) \ (IF d.feedLocked THEN FeedDerived ELSE {}), feed |-> TRUE]

\* The cards a demo viewer is shown as locked: advice, and the features re-locked.
LockedCards(d) ==
  {"deploy_cash", "market_board", "research_intel", "alpha_engine", "intelligence"}
  \cup (IF d.feedLocked THEN FeedDerived ELSE {})

NoPreview == "no preview"
Preview == [tier : {"beta", "personal", NoPreview}, feed : {"true", "false", NoPreview}]

\* The tier and feed a request resolves against.
Axes(d, pin, preview) ==
  IF pin.on THEN [tier |-> d.tier, feed |-> pin.feed]
  ELSE [tier |-> IF d.simulator /\ preview.tier # NoPreview THEN preview.tier ELSE d.tier,
        feed |-> IF d.simulator /\ preview.feed # NoPreview THEN preview.feed = "true" ELSE d.feed]

Provisioned(feed) == FreeSources \cup (IF feed THEN FeedSources ELSE {})

\* Mutant of Included: a pinned request resolves against its tier.
IncludedByTier(pin, tier) == TierFeatures[tier]

Included(pin, tier) == IF pin.on THEN pin.features ELSE TierFeatures[tier]

Resolved(d, pin, axes) ==
  LET prov == Provisioned(axes.feed) IN
  [f \in Features |->
    LET inTier == f \in Included(pin, axes.tier) \ Retired(d)
        missing == Requires(f) \ prov IN
    [available |-> inTier /\ missing = {}, in_tier |-> inTier, computable |-> missing = {},
     reason |-> CASE f \in Retired(d) -> "retired"
                  [] inTier /\ missing = {} -> "none"
                  [] ~inTier /\ f \notin Retired(d) -> "tier"
                  [] OTHER -> CHOOSE m \in missing : TRUE,
     required_tier |-> IF f \in Retired(d) THEN "none" ELSE IF f \in Beta THEN "beta" ELSE "personal"]]

Available(d, pin, axes) ==
  LET state == Resolved(d, pin, axes) IN {f \in Features : state[f].available}
================================================================================
