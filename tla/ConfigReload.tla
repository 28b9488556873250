---------------------------- MODULE ConfigReload ----------------------------
(***************************************************************************)
(* internal/observability/config_reload.go and its wiring in               *)
(* cmd/hanko-broker/serve.go: reload requests arrive on a NATS             *)
(* subscription, whose callback handles one message at a time.  The        *)
(* subscription lives on the connection the publisher had at startup; the  *)
(* publisher's ticker may replace that connection (nats_publisher.go).     *)
(***************************************************************************)
EXTENDS Integers, Sequences, FiniteSets, Functions

CONSTANTS
  Request,     \* the reload requests, each sent once
  Payload,     \* request |-> [form: "garbled" (not JSON), "malformed" (not TOML) or "toml",
               \*              keys: the fragment, a function from keys to values]
  Reloadable,  \* reloadableKeys
  Initial,     \* the seed of the reloader: [Reloadable -> values]
  BadValue,    \* a value of the wrong type for its key
  NoRequest,   \* an idle callback
  MaxBreaks    \* bound on the outages of the NATS server

ASSUME ReloadAssumption == MaxBreaks \in Nat /\ NoRequest \notin Request

VARIABLES
  current,     \* the live config
  candidate,   \* the config ApplyReload builds
  stage,       \* where the callback stands
  handled,     \* the request it handles
  inbox,       \* messages delivered and not handled yet
  answer,      \* request |-> the event published for it
  reloads,     \* hanko_config_reload_total by result
  carrier,     \* the publisher's connection: none, the one with the subscription, or another
  up,          \* that connection is connected
  server,      \* the NATS server can be reached
  breaks,
  sent         \* the requests sent

reloader == <<current, candidate, stage, handled, answer, reloads>>
bus      == <<inbox, carrier, up, server, breaks, sent>>
rvars    == <<reloader, bus>>

-----------------------------------------------------------------------------

\* The values of the right type for their keys.
Value ==
  (UNION {Range(c) : c \in {Initial} \cup {Payload[r].keys : r \in Request}}) \ {BadValue}

Config == [Reloadable -> Value]

\* ReloadableConfig has a field of the right type for every key.
ASSUME SeedAssumption == Initial \in Config

ReloaderTypeOK ==
  /\ current \in Config /\ candidate \in Config
  /\ stage \in {"idle", "validate", "commit", "announce"}
  /\ handled \in Request \cup {NoRequest}
  /\ inbox \in Seq(Request)
  /\ answer \in [Request -> {"none", "reloaded", "reload_failed"}]
  /\ reloads \in [{"success", "failure"} -> Nat]
  /\ carrier \in {"none", "subscribed", "other"}
  /\ up \in BOOLEAN /\ server \in BOOLEAN
  /\ breaks \in 0..MaxBreaks
  /\ sent \subseteq Request

\* serve.go subscribes iff the first connect succeeded.
ReloaderInit ==
  /\ current = Initial /\ candidate = Initial
  /\ stage = "idle" /\ handled = NoRequest
  /\ answer = [r \in Request |-> "none"]
  /\ reloads = [x \in {"success", "failure"} |-> 0]
  /\ inbox = << >> /\ breaks = 0 /\ sent = {}
  /\ server \in BOOLEAN /\ up = server
  /\ carrier = IF server THEN "subscribed" ELSE "none"

-----------------------------------------------------------------------------
(* The callback and ApplyReload.                                           *)

\* The next message; one that is not JSON is logged and dropped.
Take ==
  /\ stage = "idle" /\ inbox # << >>
  /\ inbox' = Tail(inbox)
  /\ IF Payload[Head(inbox)].form = "garbled"
     THEN UNCHANGED <<stage, handled>>
     ELSE stage' = "validate" /\ handled' = Head(inbox)
  /\ UNCHANGED <<current, candidate, answer, reloads, carrier, up, server, breaks, sent>>

\* Parsing, the allowlist, and the type of every value.
Valid(p) ==
  /\ p.form = "toml"
  /\ DOMAIN p.keys \subseteq Reloadable
  /\ \A k \in DOMAIN p.keys : p.keys[k] # BadValue

Merge(c, p) == [k \in Reloadable |-> IF k \in DOMAIN p.keys THEN p.keys[k] ELSE c[k]]

Answer(e, result) ==
  /\ answer' = [answer EXCEPT ![handled] = e]
  /\ reloads' = [reloads EXCEPT ![result] = @ + 1]
  /\ stage' = "idle" /\ handled' = NoRequest

\* Mutant: the keys before the refused one stay applied to the live config.
ValidateInPlace ==
  LET p == Payload[handled]
  IN  /\ stage = "validate"
      /\ current' = IF p.form = "toml" /\ DOMAIN p.keys \subseteq Reloadable /\ ~Valid(p)
                    THEN [k \in Reloadable |-> IF k \in DOMAIN p.keys /\ p.keys[k] # BadValue
                                               THEN p.keys[k] ELSE current[k]]
                    ELSE current
      /\ \/ /\ Valid(p)
            /\ candidate' = Merge(current, p) /\ stage' = "commit"
            /\ UNCHANGED <<handled, answer, reloads>>
         \/ /\ ~Valid(p)
            /\ Answer("reload_failed", "failure")
            /\ UNCHANGED candidate
      /\ UNCHANGED bus

\* Mutant: a refused request returns its error and publishes nothing.
ValidateSilent ==
  LET p == Payload[handled]
  IN  /\ stage = "validate"
      /\ \/ /\ Valid(p)
            /\ candidate' = Merge(current, p) /\ stage' = "commit"
            /\ UNCHANGED handled
         \/ /\ ~Valid(p)
            /\ stage' = "idle" /\ handled' = NoRequest
            /\ UNCHANGED candidate
      /\ UNCHANGED <<current, answer, reloads, bus>>

\* A refused request is answered at once; otherwise the candidate is built on
\* a snapshot of the live config.
Validate ==
  LET p == Payload[handled]
  IN  /\ stage = "validate"
      /\ \/ /\ Valid(p)
            /\ candidate' = Merge(current, p) /\ stage' = "commit"
            /\ UNCHANGED <<handled, answer, reloads>>
         \/ /\ ~Valid(p)
            /\ Answer("reload_failed", "failure")
            /\ UNCHANGED candidate
      /\ UNCHANGED <<current, bus>>

\* Under the mutex.
Commit ==
  /\ stage = "commit"
  /\ current' = candidate
  /\ stage' = "announce"
  /\ UNCHANGED <<candidate, handled, answer, reloads, bus>>

\* Mutant: the counter is left to the error path.
AnnounceUncounted ==
  /\ stage = "announce"
  /\ answer' = [answer EXCEPT ![handled] = "reloaded"]
  /\ stage' = "idle" /\ handled' = NoRequest
  /\ UNCHANGED <<current, candidate, reloads, bus>>

Announce ==
  /\ stage = "announce"
  /\ Answer("reloaded", "success")
  /\ UNCHANGED <<current, candidate, bus>>

Callback == Take \/ Validate \/ Commit \/ Announce

-----------------------------------------------------------------------------
(* The bus.                                                                *)

\* Core NATS: a message reaches the subscriptions that exist when it is sent.
Send(r) ==
  /\ server /\ r \notin sent
  /\ sent' = sent \cup {r}
  /\ inbox' = IF carrier = "subscribed" /\ up THEN Append(inbox, r) ELSE inbox
  /\ UNCHANGED <<reloader, carrier, up, server, breaks>>

Outage ==
  /\ server /\ breaks < MaxBreaks
  /\ server' = FALSE /\ up' = FALSE
  /\ breaks' = breaks + 1
  /\ UNCHANGED <<reloader, inbox, carrier, sent>>

Recovery ==
  /\ ~server
  /\ server' = TRUE
  /\ UNCHANGED <<reloader, inbox, carrier, up, breaks, sent>>

\* The client library reconnects and renews the connection's subscriptions.
Reconnect ==
  /\ server /\ ~up /\ carrier # "none"
  /\ up' = TRUE
  /\ UNCHANGED <<reloader, inbox, carrier, server, breaks, sent>>

\* The publisher's ticker connects anew and drains the old connection: one
\* that is reconnecting is closed, and the messages its subscription has not
\* handled are gone; one that came back just then hands them over first.
Replace ==
  /\ server /\ ~up
  /\ carrier' = "other" /\ up' = TRUE
  /\ inbox' \in {inbox, << >>}
  /\ UNCHANGED <<reloader, server, breaks, sent>>

ReloaderNext ==
  \/ Callback
  \/ \E r \in Request : Send(r)
  \/ Outage \/ Recovery \/ Reconnect \/ Replace

ReloaderSpec == ReloaderInit /\ [][ReloaderNext]_rvars

\* The callback runs; the server comes back and a connection is restored.
FairReloaderSpec ==
  ReloaderSpec /\ WF_rvars(Callback) /\ WF_rvars(Recovery) /\ WF_rvars(Reconnect \/ Replace)

-----------------------------------------------------------------------------
(* Properties.                                                             *)

\* "applies it atomically" (config_reload.go:101-103): the live config changes
\* only to the result of one whole valid request on top of it, so a reader of
\* Current sees all keys of a request or none, and nothing of a refused one.
ReloadAtomic ==
  [][current' # current =>
       /\ Valid(Payload[handled])
       /\ current' = Merge(current, Payload[handled])]_rvars

\* The events and the counters tell the same story, and a request is reported
\* as reloaded exactly when it was valid; config and answers are well typed.
AnswersAgree ==
  /\ ReloaderTypeOK
  /\ \A r \in Request : answer[r] # "none" => (answer[r] = "reloaded" <=> Valid(Payload[r]))
  /\ reloads["success"] = Cardinality({r \in Request : answer[r] = "reloaded"})
  /\ reloads["failure"] = Cardinality({r \in Request : answer[r] = "reload_failed"})

\* A readable message that was delivered is answered, unless the connection it
\* came on is replaced first.
DeliveredAnswered ==
  \A r \in Request : (Payload[r].form # "garbled" /\ \E i \in DOMAIN inbox : inbox[i] = r)
                      ~> (answer[r] # "none" \/ carrier = "other")
=============================================================================
