----------------------------- MODULE ModelProviders -----------------------------
(***************************************************************************)
(* Which provider and model a review lane calls: the provider policy, the  *)
(* fallback a lane has, the selection by preflight and by backpressure,    *)
(* and the limits of one wave of calls.                                    *)
(***************************************************************************)
EXTENDS Naturals, Sequences, FiniteSets

CONSTANTS
  FastLanes,        \* is_opencode_fast_lane
  Concurrency,      \* --model-concurrency, at least 1
  ConfiguredLimit   \* [Providers -> Nat]: [providers.*].max_concurrency, 0 if unset

Providers == {"minimax", "opencode"}
Specs     == {"minimax", "canary", "flash"}
Policies  == {"auto", "minimax-primary", "minimax-only", "primary-with-fallback",
              "opencode-go-canary", "opencode-go-wide"}

ASSUME ProviderConstants ==
  /\ Concurrency \in Nat \ {0}
  /\ ConfiguredLimit \in [Providers -> Nat]

ProviderOf(spec) == IF spec = "minimax" THEN "minimax" ELSE "opencode"

\* ProviderConcurrencyLimits::limit_for().
LimitFor(provider) ==
  LET n == ConfiguredLimit[provider]
  IN IF n = 0 \/ n > Concurrency THEN Concurrency ELSE n

\* provider_spec_for_lane_with_key_state().
Primary(lane, policy, keys) ==
  IF lane = "opposition"
       /\ \/ policy = "opencode-go-canary"
          \/ policy \in {"auto", "minimax-primary"} /\ "opencode" \in keys
  THEN "canary"
  ELSE IF policy = "opencode-go-wide" /\ lane \in FastLanes THEN "flash" ELSE "minimax"

\* fallback_provider_spec_for_lane().
FallbackOf(lane, policy, keys) ==
  IF Primary(lane, policy, keys) # "minimax"
  THEN IF lane = "opposition" THEN "minimax" ELSE "none"
  ELSE IF policy = "primary-with-fallback" /\ "opencode" \in keys
       THEN IF lane \in FastLanes THEN "flash" ELSE "canary"
       ELSE "none"

\* selected_provider_spec(): the specs whose preflight succeeded decide.
Selected(primary, fallback, usable) ==
  IF primary \in usable THEN primary
  ELSE IF fallback \in usable THEN fallback ELSE "none"

\* selected_provider_spec_with_backpressure(): a lane leaves a provider that
\* pushed back in the last wave if its fallback is another, healthy one.
SelectedUnder(primary, fallback, usable, pressure) ==
  LET spec == Selected(primary, fallback, usable)
  IN IF /\ spec # "none" /\ ProviderOf(spec) \in pressure
        /\ fallback \in usable
        /\ ProviderOf(fallback) \notin pressure \cup {ProviderOf(spec)}
     THEN fallback ELSE spec
================================================================================
