------------------------ MODULE MCBunnyOptionsCache -------------------------
(***************************************************************************)
(* Model checking of BunnyOptionsCache with a secret of either kind: an    *)
(* API key, and a webhook secret that is not configured at first.          *)
(***************************************************************************)
EXTENDS BunnyOptionsCache, TLC

CONSTANTS apiKey, webhookSecret, x

ASSUME SettingsAssumption ==
  Required = {apiKey} /\ Optional = {webhookSecret} /\ x \in Value

configured == [s \in Setting |-> IF s \in Optional THEN Blank ELSE x]

Symmetry == Permutations(Thread)
=============================================================================
