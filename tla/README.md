# Olivia in TLA+

Olivia is an oracle: it announces real-world events, each with a one-time nonce,
and later attests to one outcome of each. Contracts between other people rest on
three promises: an announcement stays, an event is attested to at most once, and
what is published verifies. The specifications here model how the code of this
repository keeps those promises, across concurrent callers, two databases, lost
connections and restarts, and where it does not.

| module | models |
| --- | --- |
| `AttestationLedger` | the promise itself, with none of the machinery |
| `Oracle`, `MCOracle` | `Oracle::new`, `add_event`, `complete_event` over both databases |
| `OracleProofs` | theorems about `Oracle`, checked by TLAPS like those below |
| `Ticker`, `MCTicker` | the time ticker: its two streams and their wrappers, the oracle loop, the database |
| `TickerProofs` | theorems about `Ticker` |
| `Feed`, `MCFeed` | the Redis source, the predicate and complete-related wrappers, the loop |
| `FeedProofs` | theorems about `Feed` |
| `NodeTree`, `MCNodeTree` | the tree of paths that the HTTP API reads, in both databases |
| `NodeTreeProofs` | theorems about `NodeTree` |
| `Outcomes` | event kinds, ids, outcomes, digits and predicates as values and texts |
| `OutcomesProofs` | lemmas about its texts, numbers and parsers |
| `Secp256k1` | the group: x-only keys and nonces, scalars revealed, verified, anticipated |
| `LeastNumbers` | least and greatest numbers, for the proofs |
| `Describe` | what people are told about an event and its outcome |
| `Contract`, `MCContract` | an event from its announcement to a settled contract; puts the three together |
| `ContractProofs` | theorems about `Secp256k1` and `Contract` |
| `Paths`, `RestApi` | paths, prefixes and ids as texts, and the URLs that are taken for them |
| `PathsProofs` | theorems about `Paths` and `RestApi` |

An `MC` module only gives constants their values. `PROJECT.json` maps every
definition to the lines it stands for. A definition `X_Word` in front of `X`,
marked as a mutant, is a plausible wrong version of `X`; no specification uses
it, it shows that the properties notice.

## The system

**Oracle core** (`olivia/src/oracle.rs`, `keychain.rs`). State: the key chain
derived from a secret seed. `new` compares its public keys with those in the
database, or writes its own; `add_event` and `complete_event` read the database,
decide, and write. Nonces are a function of seed and event id. Hard: each of the
three is two awaits, with other callers in between; the daemon and any number of
`olivia add` commands share the database. Correct if: published data verifies,
attestations are final, no nonce signs twice, answers are true.

**Databases** (`olivia/src/db`). In memory: a map behind a lock, lost with the
process. Postgres: tables `meta`, `event`, `tree`; writes are transactions or
single statements, and a connection that is lost is not opened again. Operations:
`insert_event`, `complete_event`, `set_public_keys`, `set_node`,
`get_announced_event`, `get_node`, `query_event(s)`. Hard: the in-memory database
looks at a slot again under its write lock and Postgres does not; a commit may
succeed without the caller hearing of it; `get_node` is several queries. Correct
if: both give the oracle the same guarantees and their readers the same answers.

**Sources** (`olivia/src/sources`). *Ticker*: one stream announces an event per
interval up to a look-ahead, one attests to each at its time; both recompute the
next item from the database, and wait to hear how the last one went. *Redis*: a
thread per list pops JSON items into a channel. *Predicate*: follows each event by
predicates of it. *CompleteRelated*: follows each outcome by those of the
predicates; both wrap a ticker or a Redis source. Hard: streams sleep on what they read before; items are lost,
repeated, overtaken; several daemons run the same ticker. Correct if: the series
has no hole and goes on, events are attested to in order and in time, and an event
and its predicates agree.

**Oracle loop** (`olivia/src/oracle_loop.rs`). One task that takes an item from a
stream, calls the oracle, and reports the result to the stream.

**Event ids and outcomes** (`olivia_core`). Pure functions: kinds and ids are parsed
from text, outcomes written and parsed, prices cut into digits. Correct if: a value
keeps its meaning through all of them.

**Group** (`olivia_secp256k1`). Pure functions: keys and nonces are x coordinates, so
whoever signs has to keep the secret of the point that has an even y. Correct if:
what is revealed opens the point that was anticipated for the outcome, and no other.

**HTTP API** (`olivia/src/rest_api.rs`). Reads only: a URL is an event's id, question
mark and all, or a path, told apart by a chain of routes. Correct if: every event is
found under its own id, and replies are true of the database. **Path prefixes**
(`PrefixedDb`, `prefix_path`). A source knows its events without the path it runs
on. Correct if: an event comes back to its source under the id it left with.

**Descriptions** (`olivia_describe`). Pure functions of an event or an outcome. Correct
if: what they say is true of what is attested to.

**Command line**: `run` is the loop; `add` is one more caller of the oracle; `derive` and
`db init` are one-shot. **Configuration, seed, logging**: set-up.

The components meet in the database: sources read it through `PrefixedDb`, the
loop writes it through the oracle, the HTTP API and other processes read and write
it whenever they like.

## How the modules model it

### Oracle

Per caller a program counter: idle, then the read (`NewRead`, `AddRead`,
`CompleteRead`) with the decision it leads to, then the write (`NewWrite`,
`AddWrite`, `CompleteWrite`). What was read stays in `view`. `public_keys`,
`announcement` and `attestation` are the tables. Two history variables record what
was ever stored (`revealed`) and acknowledged (`acked`). A signature is a record of
key and message; it verifies if both match. Failures: a read or a write fails, a
write is committed but not acknowledged and the connection is gone (`linked`), a
process crashes, and the in-memory database with it.

The database decides which writes are refused: `InsertEvent` by the primary key,
`CompleteEvent` in Postgres by nothing, in memory by `SlotOpen`, the second look.
`Attester` says who completes events. With Postgres the promises need *one* attester
(the assumption `OneWriter`); with two they fail (`Oracle_pg_two`).

### Ticker

Time is divided into slots; `row` is the table of events by slot, each with its
expected time, and `predicate` the rows of their predicates. Each daemon has two
streams (`query`, `wait`, `yielded`, `asleep`, `ended`) and a `job`, the item the loop is
at. `EventQuery` and `OutcomeQuery` read the database and set a wake-up time;
`TakeEvent`/`TakeOutcome` hand the item to the loop; `LoopRead`, `LoopWrite` and
`LoopFails` process it and `Notify` the stream. The wrappers are what a daemon has
still to yield after an item: `derived`, the predicates to announce, `lookup`, the outcome
whose relatives are to be asked for, and `related`, those to attest to; nobody is told
how these went. `initial` is what `initial_time: None` evaluates to at start.
`CommandLineAdd` is `olivia add event`, under any time or none; `added` remembers what
it added. The outcome creators are functions of the event id, so outcomes are left out.

### Feed

`eventList` and `outcomeList` are the Redis lists, popped from the end they are pushed
to (the README of the program says `lpush`, the code `BLPOP`s), `eventChan` and
`outcomeChan` the channels, `derived`, `lookup` and `related` what the wrappers have
still to yield. Events and predicates have the kinds of `olivia_core`.
The oracle is reduced to the ledger: the operations `AddEvent` and `CompleteEvent`
succeed once, are refused afterwards, or fail. `Patient` tells whether the external
program waits for an event to be announced before it reports the outcome.

### NodeTree

`event`, `node` (kinds set by `set_node`) and `tree` (rows of Postgres) are written by
`InsertEvent`, `CompleteEvent` and `SetNode`; one reader at a time asks either database,
one query per step, for any path. One instance of the state serves both databases,
so that `BackendsAgree` can compare them. Names are numbers in the order the
databases sort them; which names are textual prefixes of others, and which share an
ltree label, are constants.

### Outcomes, Secp256k1, Describe and Contract

An id is a list of teams (the last name of the path, cut at its underscores) and the
tokens of its kind. `FromStr`, `TryFrom`, `TryFromIdAndOutcome`, `OutcomeString`,
`AttestationIndexes`, `Descriptor` and `Predicate` are the functions of the same
names. u64 is a word of `Width` bits.

In `Secp256k1` a point is its discrete logarithm, a public key or nonce the set of a point
and its negation, and `EvenY` says which of the two has an even y. Anything that was
negated on one side and not on the other shows as another number.

A behaviour of `Contract` takes one id along: it comes in and is announced with one
nonce per digit (`Announce`), the parties of a contract verify the announcement and
compute the points they need (`Read`), a predicate is derived (`Derive`), an outcome is
reported as text (`Report`), attested to (`Complete`), and the predicate is settled
(`Settle`). `Decode` is what the encoding loses and checks on the way; a signature of the
announcement is in `Oracle`. `Describe` says what the functions of `olivia_describe` claim
of the event, as a claim and its truth rather than as words, and is compared with
what was attested to.

### Paths and RestApi

A path is a text of slashes, dots, underscores and names, and the id of `Outcomes` is its
last name. `PrefixPath`, `StripPrefixPath`, `StripEvent` and `EventIdOf` are the functions of
`path.rs` and `event.rs`; `SeenBySource` is what `PrefixedDb` makes of a row it has found.
`Route` is the chain of routes of `rest_api.rs`: it ends in a refusal, a panic, or
the lookup of an event, a node or the root. `Encoded` and `Verbatim` are the two ways a client may write a URL. They have no state of their own; their
properties are about every id that `Contract` receives, in each of `Directories`.

## Runs

| run | instance | shows |
| --- | --- | --- |
| `Oracle_pg` | daemon, `add event`, a process with another seed; 2 events, 2 outcomes; crashes | all promises, and that the oracle implements `AttestationLedger` |
| `Oracle_mem` | two attesting tasks, crashes that lose the database | the second look under the lock replaces the single attester, and no nonce signs twice |
| `Oracle_pg_two` | two attesters on Postgres | **violated:** an attestation is replaced |
| `Oracle_ecdsa` | in memory | **violated:** the ecdsa signature is made with the announcement key |
| `Ticker_pg` | one daemon with a predicate, 1 fault, 1 crash, an event added by hand, a clock of 3, interval 2, look-ahead 2 | no hole, in order, not early, goes on, all attested to; predicates follow |
| `Ticker_two` | two daemons without a configured start, a tick added under a foreign time | all goes on and is attested to, with races for every tick |
| `Ticker_add` | an event added without its time | **violated:** the loop panics |
| `Feed_faults` | two prices with predicates, a crash, a fault | what is attested to agrees, whatever is lost |
| `Feed_steady` | three events, predicates, garbage, contradicting outcomes | all announced, all settled, the event first |
| `Feed_nested` | an event on a path below another's | **violated:** one event's outcome settles another's predicate |
| `NodeTree` | 5 events on 9 paths, one described node, limit 2 | replies are bracketed by what was and is there; the databases agree |
| `Contract` | words of 3 bits, a group of 31 elements, some 400 kinds on 9 lists of teams in 5 directories | one meaning from the URL to the settled contract; scalars open nothing else; descriptions are true |

**Bounds.** The promises of `Oracle` are about one event and the callers that touch
it; two events, one with a nonce and one without, and two outcomes give every conflict.
Calls are not counted: callers go on for ever. Three callers are the daemon, a
second process with the same seed and one with another. In `Ticker`, a query looks
at the latest event, the earliest one without an attestation, and the one an interval
later: with interval 2 the slots up to the clock of 3 and its look-ahead of 2 hold
three ticks, one that is due, one at work and one ahead, and the event added by
hand comes between two of them. `MaxTime` bounds the clock, so the behaviour ends there, and `Ticker_*` and
`Feed_*` say `CHECK_DEADLOCK FALSE`: when the clock or the external program has
stopped, there may be nothing left to do. In `Ticker_two` the look-ahead is 0: a
longer one would let events exist whose time is past the end of the clock. The two
daemons start at any two times, which is why they need not be given different ones.
`MaxFaults` and `MaxCrashes` bound what fails, not when. In `Feed`, `MaxValue` is 2
(three outcomes of a match; a price below, at and above a threshold). `NodeTree` has a
range with two children, a date map, two events with equal labels, a name that is a prefix of two
others, an event without a time, and more children of the root than the limit; it has
no bound on requests. In `Contract` three bits give prices that fit into one,
two and three digits and prices that do not; the group is large enough that no two
indexes of different digits meet by chance, and its key and nonces are of both
parities. The texts are every kind with every well or badly formed argument, equality
and bound, and team lists with one, two, three and two equal teams, a team that is
empty, also as the only one, that contains a question mark or is one, and one that is called `draw`;
the directories are the root, one, one that could be the path of an event, and two with a dot, of which
one is an id with a question mark. A
behaviour ends when its one outcome is dealt with, hence no deadlock check.

**Fairness.** `Oracle`, `NodeTree` and `Contract` claim safety only and have none.
`Ticker`: weak fairness of the clock, of starting a daemon that is down (something
supervises it), and of every step the runtime polls. `TakeOutcome` has strong
fairness: when both streams are ready `select!` takes either at random, so an outcome that
is ready again and again is taken at some time, while under weak fairness an event
stream that always comes back (it does, in `Ticker_two`) could keep the loop for itself.
None of failures, crashes or the command line. `Feed`: weak fairness of the two threads,
the steps of the loop, and `Start`; none of `Push`, for nothing makes the external
program push.

## What is proved

Every theorem holds for every value of the constants that meets the module's own
assumption, and the one named beside it.

**Oracle** (`OracleProofs`), for all callers, events, outcomes and seeds:

| theorem | of | assuming |
| --- | --- | --- |
| `TypeCorrect` | `TypeOK` | |
| `PublishedAlwaysVerifies` | `PublishedVerifies` | `OneSeedInMemory` |
| `AttestationNeverChanges` | `AttestationFinal` | `OneWriter` |
| `OracleImplementsLedger` | `ImplementsLedger` | `OneWriter`, `DatabaseLives` |
| `AckedAlwaysStays` | `AckedStays` | `OneWriter` |
| `AnswersAlwaysHold` | `AnswersHold` | `OneSeedInMemory`, `OneWriter` |
| `NonceIsNeverReused` | `NonceNeverReused` | `OneSeedInMemory`, `OneWriter`, `DatabaseLives` |
| `OneReportNeverReuses` | `NonceNeverReused` | `OneReport` |

`OneSeedInMemory`: the callers of an in-memory database are tasks of one process and
have its seed. `OneWriter`: with Postgres at most one caller attests. `DatabaseLives`:
an in-memory database is not lost. The code guarantees the first; the second is how
the program is meant to be run, and `Oracle_pg_two` shows what happens otherwise; the
third is needed because after a restart an in-memory oracle attests again. `OneReport`:
a source reports one outcome of an event, as the ticker does; then nothing else is needed.

- `TypeInv` adds to `TypeOK` that a caller about to write has a call, and that only an
  attester, with an outcome and an announcement it has read, is about to attest.
- `SeedInv`: every row was made with the seed whose keys are in `meta`, a caller gets past
  `new` only with that seed, and the announcement it has read is still in the database.
  `PublishedVerifies` alone is not inductive: it says nothing of a caller that is about
  to write.
- `SlotWaits`: while a caller of Postgres is about to write an attestation, the slot is
  empty. It is inductive with one attester only, and turns every step into one of
  three kinds (`EventsStep`): nothing happens to the events, one is announced, or an
  empty slot is filled. Finality, the answers and the refinement follow from that.
- `RevealedIsStored`: every scalar ever revealed is in an attestation that is in the
  database now. Nonces belong to one event (`SeedInv`), which has one attestation, so
  there is one scalar per nonce. `ReportedOnly` takes its place when the database may be lost:
  every scalar is of a reported outcome.

**Ticker** (`TickerProofs`), for any interval, look-ahead, clock, predicates, failures and crashes:

| theorem | of | assuming |
| --- | --- | --- |
| `TickerTypeCorrect` | `TypeOK` | |
| `PredicatesAlwaysInTime` | `PredicatesInTime` | `AddedOnTime` |
| `NeverEarly` | `NotEarly` | `OneDaemon` |
| `ManyDaemonsNeverEarly` | `NotEarly` | `NobodyAdds` |
| `AlwaysInOrder` | `InOrder` | `OneDaemon` |
| `OneDaemonUnbroken` | `Unbroken` | `OneDaemon` |
| `ManyDaemonsUnbroken` | `Unbroken` | `NobodyCrashes` |

The assumptions are the deployments at the end of `Ticker`. What is not in the table is not
true, as TLC shows: with several daemons, one that is started again begins another series with another
initial time, outcomes of two daemons overtake each other, and events of others may lead two of them
past the look-ahead.

- `TickerInv` (`Matured`, `InHand`): a stream waits for a row that is there, with the time it
  waits for, and whatever the wrappers and the loop hold of it has ripened; `TypeOK` and
  `PredicatesInTime` say nothing of an item between the stream and the database.
- `SeriesInv`: the one slot the event stream or the loop is at lies after every event of the series, so
  a daemon only ever appends. `UnbrokenInv` adds that it is one interval after an event that is
  there, `BeginsInv`, for several daemons that race, that or the initial time of the daemon.
- `OrderInv`: everything before the outcome that is awaited is attested to. That is where
  the query (the earliest event without an attestation) comes in.
- `EarlyInv`: with several daemons, that each one's own first slot is the configured one or
  was past when it started.

**Feed** (`FeedProofs`), for any events, predicates, prefixes, failures and crashes:

| theorem | of | assuming |
| --- | --- | --- |
| `FeedTypeCorrect` | `TypeOK` | |
| `FeedImplementsLedger` | the ledger's specification | |
| `RelatedAlwaysAgree` | `RelatedAgree` | `ReportsOnSource`, `ReportsAgree`, `PathsApart` |
| `EventAlwaysBeforePredicate` | `EventBeforePredicate` | `ReportsOnSource`, `PathsApart`, `Undisturbed` |

`ReportsOnSource`: the external program reports on events, not on their predicates; `ReportsAgree`: it does not
contradict itself; `PathsApart`: no event's path is below another's (`Feed_nested` shows
what happens otherwise); `Undisturbed`: it waits for announcements, and no operation fails. `RelatedAgree` is of two
attestations that need not come from one report; `AllReported` says that each one, and every
outcome in the wrapper's hands, follows from some report, whatever was lost on the way. `EventsFirst`
says of every predicate's outcome in hand that the event is attested to.

**NodeTree** (`NodeTreeProofs`), for any paths, events, labels, kinds and limit, without any further assumption:

| theorem | of |
| --- | --- |
| `NodeTreeTypeCorrect` | `TypeOK` |
| `RepliesAlwaysBracketed` | `ReplyBracketed` |
| `RangeAlwaysSpansNext` | `RangeSpansNext` |
| `BackendsAlwaysAgree` | `BackendsAgree` |

`get_node` is up to four queries with writes in between. `TreeInv`: the rows of `tree` are
those of the paths that lead to an event or a node that was set, and all rows to an event are there.
With it the tables of Postgres are those of the in-memory database (`BackendsAgree`). `AskedInv`: what was there
when the request began is there still. `ReplyInv`: what the queries so far have
returned is true in the sense of `IsTrue`: between what there was and what there is. `ReplyBracketed` and `RangeSpansNext`
are about finished replies and say nothing of a half-finished one.

**Secp256k1** (`ContractProofs`), for every group of prime order, every choice of the even
points, and all keys, nonces and indexes:

| theorem | says |
| --- | --- |
| `RevealedVerifies` | a revealed scalar verifies under the announced nonce, so the assertion of keychain.rs:87 cannot fail |
| `VerifiesForOneIndex` | no scalar verifies for two outcomes of one nonce |
| `AnticipatedIsVerified` | a scalar verifies for an outcome exactly if it opens the point anticipated for it |
| `OpensItsPointAlone` | a revealed scalar opens the point anticipated for its outcome and no other point of its nonce |

All rest on `KeptSecret`: the secret that is kept is that of the point the x
coordinate stands for. Two of them need that the order is prime (`Secp256k1Assumption`:
no product of two nonzero numbers below it is a multiple of it) and that the indexes
are below the order less one, as they are. `anticipate_attestations` adds up the points in a loop;
`AnticipatedPoints` shows that the i-th sum is the i-fold nonce plus the key. They are the kernel of `OpensOnlyAttested` and
`AcceptsOnlyAttested` of `Contract`.

**Contract** (`ContractProofs`), for words of any width, any tokens, ids and reports, any group and any keys:

| theorem | of | assuming |
| --- | --- | --- |
| `ContractTypeCorrect` | `ContractTypeOK` | |
| `OutcomesAlwaysParseBack` | `OutcomesParseBack` | |
| `IndexesAlwaysDecode` | `IndexesDecode` | |
| `DerivedAlwaysAccepted` | `DerivedIsAccepted` | |
| `PredicatesAlwaysTrue` | `PredicateIsTrue` | |
| `OnlyAttestedAccepted` | `AcceptsOnlyAttested` | |
| `OnlyAttestedOpened` | `OpensOnlyAttested` | `NoncesApart` |
| `AlwaysDescribedTruly` | `DescribedTruly` | |
| `PromisesAlwaysKept` | `PromisesKept` | |

`NoncesApart`: the nonces of an event have no multiple in common that is ever revealed. They are hashes in
a group of some 2^256 elements, so the code has this but for a collision; were it not so, the scalar of
one digit could open the point of another. The modules' own assumptions are that the texts that come in consist
of tokens, that a displayed number is one token, without separators, which is read as that number, that the
group has more than three elements, and that no key is zero.

- `IInv` is `ContractTypeOK` and `Computed`: everything that is kept (predicate, outcome, attestation,
  announcement, points, scalars) is what its function makes of the id and the reported outcome, and its
  step could be taken. The properties are about two such values, sometimes three steps apart, and say nothing of where
  either comes from. `Computed` is inductive because no step takes back what another has used.
- What is left is about the functions, for every argument. A text is cut at its first separator, wherever
  that is: `CutJoined` says what comes off a text that was joined, `BoundParsed` and `EqualityParsed` that a
  displayed predicate is read as itself unless its target has a question mark, `ParsesBack` that
  outcomes are told apart by their strings: `WinningApart` for teams that win, whatever their names. A match needs different teams for that, which is
  what `TryFromTeams` checks.
- `DigitsAddUp`: the binary digits of a number below a power of two add up to it. `LargestPrice`
  is the shift that caps it, also for no digits and for all 64. `IndexesTellApart` follows: prices with equal
  indexes are equal, or neither fits.
- `OnlyAttestedAccepted` reduces a reader's check to the equality of indexes (`VerifiedIndexes`, by
  `VerifiesForOneIndex`), and that to the equality of outcomes. `OnlyAttestedOpened` takes the points of a scalar's own nonce by
  `OpensItsPointAlone`, those of the others by `NoncesApart`.
- `PlainTruth`: a claim made of one outcome is true of exactly that one. What is said of a predicate is such a claim or its
  denial (`Told`), turned round where it is settled `false`.

**Paths and RestApi** (`PathsProofs`), for any tokens, ids, kinds and directories:

| theorem | of |
| --- | --- |
| `PrefixAlwaysComesOff` | `PrefixComesOff` |
| `UrlsAlwaysAnswered` | `UrlsAnswered` |

`PathsAssumption`: directories are what `Path::from_str` accepts, a team has none of the separators that would
make it end before (they are how the parser finds the team), and a kind has no slash, since the last name of a path begins
after the last one. `ErrorsAreNoIds`: an error is not a value. The invariant is `IInv` of `Contract`: what is
known of an id that has come in is its type and what the parser made of it. The rest is about texts.

- `TeamsJoined`: teams joined by underscores are split into the same teams, also if some are empty. `Split` is a recursive
  function of the length of a text; `SplitByTokens` shows that it exists, `SplitGrows` what one
  token does to it, `SplitOn` and `SplitAt` what a text without separators and a separator do.
- `Laid` says of every place of an id's text whether it is of its directory, its name or its kind. With it
  `LaidTaken` finds the last slash, the first dot after it and thus the parts that were put together:
  any text in which they lie in this way is parsed as the id (`LaidIsEvent`).
- `FoundIsSeen`: an id below a prefix is still laid out once the prefix is off, unless the prefix reaches to the
  last slash or beyond (`LaidBeyond`): then there is no name left and the text is no id.
- `ParserPanics`: the parser panics on an equality of a match or a duel without two teams and on nothing
  else. `ParsedIds`, `EventAnswers`: it returns an id or one of two errors for every text whatsoever.
- `VerbatimParts`, `CutBack`: where a URL is cut at its question mark, and that the handler puts the same text together again.
  `BeforeName` says which of the tokens it can be: none of the directory's, so the name's or the kind's. If it is
  the name's first, what is left ends in a slash, no event route takes it, and it is a node (`RouteVerbatim`).

**LeastNumbers** stands for induction: a set of natural numbers has a least, and a finite one a
greatest. A claim about all numbers is proved by looking at the least one it fails for. A function
that is defined by recursion is its defining equation's solution only if there is one: the proofs
show that there is, and do not take the equation for granted.

## What is only model-checked

Liveness: `TicksContinue`, `TicksAttested`, `PredicatesFollow`, `FeedAnnounced` and
`PredicatesSettled`. It rests on fairness and is outside what the proof system does. Every safety
property of the passing runs is a theorem.

## What the models found

Checked by runs that end in a violation, and quoted in `PROJECT.json`:

1. `Oracle_pg_two`: `_complete_event` (postgres.rs:584) updates without looking, so two
   processes that complete an event with different outcomes both succeed, and two
   scalars are made with one nonce. The in-memory database refuses.
2. `Oracle_ecdsa`: `ecdsa_sign_outcome` (keychain.rs:116) signs with the announcement key;
   verification uses the ecdsa-v1 key.
3. `Ticker_add`: an event without a time on a ticker's path panics the loop.
4. `Feed_nested`: "sibling events" (complete_related.rs:20) include events on paths below.

Met while modelling, and excepted by a condition in a property, which says so:

- An outcome that the oracle refuses, because the event is attested to already, is still used to
  settle predicates (config_impls.rs:326). `RelatedAgree` is checked for sources
  that report one outcome; `Feed_steady` shows that the predicates are still settled by whichever
  outcome comes.
- A predicate that is announced after the outcome was looked up is never settled
  (config_impls.rs:221), although sample_config/predicate_eq.yml:24 has
  `complete-related` "complete the predicated events when this outcome source completes an
  event"; nor is one of an event with two outcomes, which
  complete_related.rs:11 takes not to exist, nor one whose announcement or attestation
  failed. See `PredicatesSettled` and `PredicatesFollow`.
- An event on the ticker's path whose expected time is not the one of its id, when the
  stream comes to the same id, is the next one for ever: `AlreadyExists` does not update the time
  (the TODO at oracle.rs:72), and the series stalls. Everything is still attested to (`TicksContinue`,
  `TicksAttested`).
- Several daemons without `initial_time` on an empty database each begin a series (`Unbroken`).
- An id such as `/foo.vs=draw`, a predicate of a match on a path that does not name two
  teams, panics the parser (event.rs:234), from a URL as well; `UrlsAnswered` says that
  nothing else does. A team with a question mark in its name gives predicates whose ids do
  not parse (`DerivedIsAccepted`).
- An event without nonces (a `.price` without digits) is verified by anybody with any outcome:
  there is nothing to compare. Prices beyond the digits are all accepted for one
  another (`AcceptsOnlyAttested`).
- An event on the very path a source runs on, or in memory on a path that goes on after it,
  comes back to the source without a path, and asking for its kind panics
  (`PrefixComesOff`).
- An id whose last name starts with a question mark, written as it is in a URL, names the
  directory. A node with a dot in its last name is taken for an event, and refused if that is none
  (`UrlsAnswered`).
- A duel with a team called `draw` is described as drawn when that team wins (`Nameable`).
- The descriptor of a predicate lists its outcomes against the order of their indexes
  (event.rs:301).
- What is below a path is decided by text in memory (`/foobar` is below `/foo`) and by
  labels in Postgres (which gives `a-b` and `a+b` the same one). Events without a time are
  first in memory and last in Postgres. A list is cut at 100 children in Postgres only
  (`BackendsAgree`).

## What is not modelled

The signature schemes and key derivation, which are libraries, and the macros that encode
objects as hex, JSON and SQL; the wording, the links and the paths of descriptions; HTTP
responses and CORS; configuration, logging, seeds; `derive` and `db init`, which do one thing and end. None
of them has state, and what they could get wrong a unit test sees.

## Plan

Extend: a module that puts `Oracle` under `Feed`, in place of its ledger, and shows that the
composition implements it.
