---------------------------- MODULE PluginConfig ----------------------------
(***************************************************************************)
(* From Kubo's JSON configuration to a running datastore: the plugin's     *)
(* parser, NewWalrusDatastore's validation and defaults, and the workers   *)
(* it starts.  A program may also pass a Config of its own (Embed), with   *)
(* any numbers.  Durations are in seconds, sizes in MiB; strings, which    *)
(* are only checked for their type, are left out.                          *)
(***************************************************************************)
EXTENDS Integers, FiniteSets

CONSTANTS
    Number,         \* the numbers tried
    Absent,         \* the key is not in the map
    Fraction, Text, \* a number that is no integer; a value of another type
    MaxPublishers   \* most publishers tried

VARIABLES
    json,        \* the numeric settings of the map
    publishers,  \* how many URLs publisherURL splits into
    pc,          \* "start", "refused", "parsed", "failed" or "running"
    conf,        \* the Config: parsed, then with the defaults applied
    renewing     \* the renewal worker was started

vars == <<json, publishers, pc, conf, renewing>>

Setting ==
    {"epochs", "nShards", "workers", "maxOpenConns", "maxRetries", "packTargetSize", "packMaxAge",
     "packIdleFlush", "packFlushInterval", "blobCacheBytes", "requestTimeout", "epochDuration",
     "renewInterval", "renewLead"}

\* stageLease
Lease == 900

Default ==
    [s \in Setting |->
        CASE s = "epochs" -> 1 [] s = "nShards" -> 1000 [] s = "workers" -> 16
          [] s = "maxOpenConns" -> 32 [] s = "requestTimeout" -> 60 [] s = "maxRetries" -> 3
          [] s = "packTargetSize" -> 256 [] s = "packMaxAge" -> 300 [] s = "packIdleFlush" -> 30
          [] s = "packFlushInterval" -> 5 [] s = "blobCacheBytes" -> 1024
          [] OTHER -> 0]

-----------------------------------------------------------------------------
\* optionalPositiveInt: a missing key is zero, anything but a positive integer
\* an error.
Accepted(v) == v = Absent \/ (v \in Number /\ v > 0)
Parsed(v) == IF v = Absent THEN 0 ELSE v

\* DatastoreConfigParser
Parse ==
    /\ pc = "start"
    /\ IF \A s \in Setting : Accepted(json[s])
       THEN /\ conf' = [s \in Setting |-> Parsed(json[s])]
            /\ pc' = "parsed"
       ELSE /\ pc' = "refused"
            /\ UNCHANGED conf
    /\ UNCHANGED <<json, publishers, renewing>>

\* The package used directly: NewWalrusDatastore of a Config with any numbers.
Embed ==
    /\ pc = "start"
    /\ \A s \in Setting : json[s] = Absent \/ json[s] \in Number
    /\ conf' = [s \in Setting |-> Parsed(json[s])]
    /\ pc' = "parsed"
    /\ UNCHANGED <<json, publishers, renewing>>

\* The value NewWalrusDatastore uses for n.
Defaulted(s, n) ==
    CASE s = "maxRetries" -> IF n < 0 THEN Default[s] ELSE n
      [] s = "blobCacheBytes" -> IF n = 0 THEN Default[s] ELSE IF n < 0 THEN 0 ELSE n
      [] s \in {"epochDuration", "renewInterval"} -> n
      [] s = "renewLead" -> IF n <= 0 THEN conf["epochDuration"] ELSE n
      [] OTHER -> IF n <= 0 THEN Default[s] ELSE n

\* NewWalrusDatastore: no endpoint, or no database, is an error; otherwise the
\* flusher is started, and the renewer if both its settings are.
Create ==
    /\ pc = "parsed"
    /\ \/ /\ publishers > 0
          /\ conf' = [s \in Setting |-> Defaulted(s, conf[s])]
          /\ renewing' = (conf["renewInterval"] > 0 /\ conf["epochDuration"] > 0)
          /\ pc' = "running"
       \/ /\ pc' = "failed"
          /\ UNCHANGED <<conf, renewing>>
    /\ UNCHANGED <<json, publishers>>

-----------------------------------------------------------------------------
\* At most two settings are given.
Init ==
    /\ \E S \in SUBSET Setting :
         /\ Cardinality(S) <= 2
         /\ \E f \in [S -> Number \cup {Fraction, Text}] :
              json = [s \in Setting |-> IF s \in S THEN f[s] ELSE Absent]
    /\ publishers \in 0..MaxPublishers
    /\ pc = "start"
    /\ conf = [s \in Setting |-> 0]
    /\ renewing = FALSE

Next == Parse \/ Embed \/ Create

Spec == Init /\ [][Next]_vars

-----------------------------------------------------------------------------
(* Properties *)

\* time.NewTicker panics on an interval that is not positive, a flusher with no
\* worker slot or a zero pack size claims nothing, an HTTP client without a
\* timeout waits for ever: whichever way the configuration came in, none of them
\* runs with such a value.
RunsSanely ==
    pc = "running" =>
      /\ \A s \in {"packFlushInterval", "workers", "packTargetSize", "requestTimeout", "maxOpenConns",
                   "packMaxAge", "packIdleFlush", "epochs", "nShards"} : conf[s] > 0
      /\ conf["maxRetries"] >= 0 /\ conf["blobCacheBytes"] >= 0
      /\ renewing => conf["renewInterval"] > 0 /\ conf["renewLead"] > 0

\* "`maxRetries` | no | `3`" (README.md:278), "Defaults to 3" (walrus.go:173): a
\* configuration that does not mention maxRetries retries three times.
RetriesByDefault ==
    pc = "running" /\ json["maxRetries"] = Absent => conf["maxRetries"] = Default["maxRetries"]

\* "`blobCacheBytes` ... A negative value disables the cache" (README.md:276): the
\* plugin's parser accepts a negative value.
\* A documented claim the code does not keep.
NegativeDisablesCache ==
    pc = "refused" =>
      \E s \in Setting : /\ ~Accepted(json[s])
                         /\ ~(s = "blobCacheBytes" /\ json[s] \in Number /\ json[s] < 0)

\* "It must comfortably exceed the worst-case pack upload (RequestTimeout x retries
\* x publishers)" (walrus.go:91): the lease outlasts every attempt of an upload.
\* A documented claim the code does not keep.
LeaseCoversUpload ==
    pc = "running" =>
      conf["requestTimeout"] * (conf["maxRetries"] + 1) * publishers < Lease
=============================================================================
