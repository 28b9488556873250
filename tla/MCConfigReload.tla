--------------------------- MODULE MCConfigReload ---------------------------
EXTENDS ConfigReload

Toml(f) == [form |-> "toml", keys |-> f]
Keys == {"log_level", "brute_force_threshold"}

\* Two overlapping fragments, a fragment refused for a value after a good one,
\* one refused for its key, one that is not JSON.
MCPayload ==
  [both    |-> Toml([log_level |-> "debug", brute_force_threshold |-> "7"]),
   one     |-> Toml([log_level |-> "warn"]),
   badtype |-> Toml([log_level |-> "error", brute_force_threshold |-> BadValue]),
   sealed  |-> Toml([signing_key |-> "k"]),
   notjson |-> [form |-> "garbled", keys |-> << >>]]
MCRequest == DOMAIN MCPayload

MCInitial == [log_level |-> "info", brute_force_threshold |-> "5"]
=============================================================================
