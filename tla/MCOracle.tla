------------------------------ MODULE MCOracle ------------------------------
(***************************************************************************)
(* Instances of Oracle for TLC.  "match" is an event with a nonce, "quote" *)
(* one without (a `.price` event with no ?n=).                             *)
(***************************************************************************)
EXTENDS Oracle, TLC

MCEvent     == {"match", "quote"}
MCNonceless == {"quote"}
MCOutcome   == {"left", "right"}
MCSeed      == {"seed", "other seed"}

\* Postgres: the daemon attests, `olivia add event` runs beside it, and so
\* does a command started with another seed in its configuration.
PgCaller  == {"daemon", "add", "stranger"}
PgSeedOf  == [c \in PgCaller |-> IF c = "stranger" THEN "other seed" ELSE "seed"]
OneAttester == {"daemon"}

\* `olivia add outcome` beside the daemon.
PgTwo     == {"daemon", "add"}
PgTwoSeed == [c \in PgTwo |-> "seed"]

\* In memory: two tasks of one process with one configuration.
MemCaller == {"loop", "task"}
MemSeedOf == [c \in MemCaller |-> "seed"]

\* An external source may report anything.  In memory, where a restart forgets
\* what was attested to, an event with nonces has one possible outcome, as the
\* ticker's events have: their outcomes are functions of the event id.
AnyReport   == [e \in MCEvent |-> MCOutcome]
MixedReport == ("match" :> {"left"}) @@ ("quote" :> MCOutcome)
=============================================================================
