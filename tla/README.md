# miti99bot: specifications

TLA+ modules, TLC runs and TLAPS proofs for the Telegram bot of this repository
(Go, one AWS Lambda function behind a webhook, state in DynamoDB, Firestore or
memory). Paths below are relative to the repository's root; `trading/`,
`wordle/` and so on stand for `internal/modules/trading/` and so on.

To check a run: `tlc -config <cfg> <module>` in this directory, with the module
and `.cfg` of the table under "Runs". To check the proofs: `tlapm Loops.tla`,
and the same for `MainProofs`, `StoreProofs`, `WordleProofs`, `LoldleProofs`,
`TwentyqProofs`, `DispatcherProofs` and `LolscheduleProofs`.

## The system

An update of a chat arrives as a POST on `/webhook` (`telegram/webhook.go`),
which runs the one command handler that matches (`modules/dispatcher.go`)
before it answers. Requests, and so handlers, run concurrently as goroutines.
The scheduler starts the daily push by a POST on `/cron/<name>`
(`server/router.go`, `modules/cron_dispatcher.go`). Every module has its own
prefix of one key-value store whose single operations (Get, Put, Delete) are
atomic; everything longer is serialised by the modules themselves, with mutexes
in the memory of the process.

| Component | State | Operations | Talks to | Hard behaviour | Correct when |
|---|---|---|---|---|---|
| `internal/keylock` | map from keys to mutexes, created on demand | Acquire, the unlock it returns | used by trading, wordle, loldle, twentyq | first callers of a key race to create its mutex | one holder per key, keys independent, waiters served |
| trading | a portfolio per user, a cache of valid tickers | top up, buy, sell | store, price service | price is fetched before the lock; a Put can fail or be in doubt; death between Put and reply | an atomic ledger, never in debt, confirmed top-ups kept |
| wordle | a round and the stats of each chat or user | guess, new, give up | store | round and stats are two Puts, saved first, counted second | rounds move by the rules, each counted once |
| loldle | a round, the stats, the round length | guess, give up, set length | store, embedded champion list | counted first, deleted second; length and champion list change under an open round | as above |
| twentyq | a round, the stats | ask, give up | store, limiter, upstream model | the lock is held while a remote model answers, up to twice a command | a question is judged on the stored round |
| `internal/ai` limiter | a token bucket per subject | Allow | twentyq | first callers race to create the bucket | one bucket each, burst and refill bound |
| lolschedule subscribers | one entry: the list of subscribed topics | subscribe, unsubscribe, push and prune | store, Telegram, scheduler | one entry for all; a push works for long on a list it read once | an atomic set, nobody removed without cause |
| lolschedule cache | an entry per date range | look up, walk the pages, fall back to a stale entry | store, lolesports API | page budget, concurrent misses, slow fetches | an answer is recent, and complete unless the budget was spent |
| lolschedule pages, dates | none | parse a date, pick a range, filter, group, order | cache | years left out of a date, month ends, a UTC clock and an ICT calendar | a range is a day or week of Vietnam, the page shows each match of it once |
| stats | counters per command, user and pair | count a command, the four `/stats` views | store | detached goroutine, unlocked read-modify-write (best effort by its own comment); a view lists and then reads entries that change meanwhile | never more than the runs made, exact where nothing failed or raced; a view shows real entries of one user |
| dispatcher, registry | commands, hooks, crons, owners of names | Build, Install, dispatch, DispatchScheduled, `/help` | all modules | detached hook, panics, conflicts between modules | one handler a name, permitted senders only, what is served is what is declared |
| webhook, server | the secrets | POST webhook, POST cron | Telegram, scheduler | redelivery, deadlines, panics, missing secrets | only who has the secret gets in, the answer tells what happened |
| metrics | counters in memory | increment, flush | log | flush races increments; last flush at shutdown | every increment in one log line |
| deploynotify | last announced version | run at startup | store, Telegram | send and record are two steps | recorded only if announced |
| storage back ends | the store | Get, Put, Delete, List | AWS, Google | key spaces shared by modules, pages, eventually consistent queries, key rules that differ | a module sees its own entries and no other's |
| main | none | start, shut down | all | order of shutdown, incomplete configuration | starts complete or not at all |

`PROJECT.json` lists every component with its status, and the hazards, each at
its line with the properties that cover it.

## Modules

| Module | Models | Notes |
|---|---|---|
| `Goroutines` | the goroutines that call the three packages below | constants that `KeyLock`, `RateLimit` and `Metrics` share |
| `KeyLock` | `internal/keylock` | LoadOrStore and Lock are two steps; a mutex is named by the call that allocated it |
| `Ledger` | what trading promises | top-up, purchase and sale each happen at once |
| `Trading` | `trading/handlers.go`, `portfolio.go`, `symbols.go`, `prices.go` | one step per store or service call; implements `Ledger` |
| `GameStats` | `recordResult` of wordle and loldle | shared arithmetic |
| `WordScore` | `wordle/lookup.go`, `compare.go` | pure: reading a guess, the two passes of `CompareWords` |
| `Wordle` | `wordle/handlers.go`, `state.go` | extends `WordScore` |
| `ChampionCompare` | `loldle/lookup.go`, `compare.go` | pure: which champion a text names, the board of a guess |
| `Loldle` | `loldle/handlers.go`, `state.go` | extends `ChampionCompare` |
| `ModelAnswer` | `twentyq/validate.go`, `parser.go` | pure: questions let through, the object found in an answer, its judgement, redaction |
| `Twentyq` | `twentyq/handlers.go`, `state.go`, and what `cmd/server/main.go` wires into it | extends `ModelAnswer` |
| `RateLimit` | `internal/ai/ratelimit.go` | with the library's token bucket, marked external |
| `SubscriberSet` | what the subscriber list promises | |
| `Lolschedule` | a worker of the lolschedule module | extended by `DailyPush` and `Schedule` |
| `DailyPush` | `lolschedule/subscribers.go`, `cron.go`, the two subscription commands | implements `SubscriberSet` |
| `Schedule` | `lolschedule/api_client.go`: `GetEventsCached` and the walk over pages below it | one step per store call and per page |
| `ScheduleDate` | `lolschedule/parse_date.go` | pure: ICT days and weeks, dates out of text; calendar of the proleptic Gregorian kind, as Go's |
| `SchedulePage` | `lolschedule/handlers.go`, `format.go` | the range of each command and the page made of an answer; extends `Schedule` and `ScheduleDate` |
| `Storage` | `internal/storage`: addresses, prefixes, key rules, pages of List of memory, DynamoDB, Firestore | bytes, because prefixes and orders are about them |
| `Stores` | what a `KVProvider` promises | a store per module |
| `StatsViews` | `stats/views.go` over `Storage`, with hooks and other modules writing | implements `Stores` |
| `Registry` | `modules/registry.go`, `validate.go`, `help.go`, the start of `cmd/server/main.go`, secrets | Build and every refusal |
| `Dispatcher` | `modules/dispatcher.go`, `cron_dispatcher.go`, `telegram/webhook.go`, `server/router.go`, `stats/stats.go` | extends `Registry`; the hook's goroutines outlive the request |
| `Metrics` | `internal/metrics/counters.go` | an increment is two steps, a flush one step per counter |
| `Main` | `cmd/server/main.go` from the start of the metrics loop on, `internal/deploynotify` | extends `Metrics` and implements `MetricsSpec` |
| `Lists` | the loop that filters a list, and what it is to return | used by `WordScore`, `ModelAnswer`, `DailyPush`, `Schedule` and `SchedulePage` |
| `Loops` | | lemmas on recursive functions, filters and folds, for the proofs |
| `MainProofs` | | theorems of `KeyLock`, `RateLimit`, `Metrics` and `Main` |
| `LolscheduleProofs` | | theorems of `DailyPush`, `Schedule`, `ScheduleDate` and `SchedulePage` |
| `StoreProofs` | | theorems of `Trading` and `StatsViews` |
| `WordleProofs`, `LoldleProofs`, `TwentyqProofs`, `DispatcherProofs` | | theorems of one module each |
| `MC...` | | model values of the runs |

How they correspond to the code:

* A **worker** is a goroutine with one request. `pc[w]` is the call the handler
  makes next, `req[w]` its command, and `copy`, `round`, `score`, `quote`,
  `limit`, `list`, `walk` are the handler's local variables, forgotten when it
  returns. (`lockAt[c]` and `callAt[c]` are the `pc` of `KeyLock` and `RateLimit`.)
* A handler's **purely local computation** belongs to the step of the store call
  before or after it; each store call, lock, service call and reply that can be
  told apart is a step of its own, so that other workers, failures and crashes
  fall between any two.
* **Failures.** A Get can fail. A Put or Delete can fail with or without having
  been applied. (A failed write is applied by the time it reports, or never: a
  write that arrives after its handler gave up is not modelled.) Service calls
  answer anything or fail. Errors follow the code's paths: replied, returned or
  ignored.
* **Crash** ends every handler of the process and frees its locks; the store
  survives. In `Loldle` the next process may carry another champion list.
* **Replies** are sent under the lock, because the unlock is deferred; they
  matter only where a property speaks of them (`told` in `Trading`).
* **Locks** of `Trading` are indexed by process, so that several processes on
  one store can be expressed. All other modules model one process, the
  deployment the code is written for (`server/timeouts.go:5`; `template.yaml`
  does not enforce it).
* **Data** is abstract: words, champions, questions and tickers are model
  values to the handlers, a digest has no text. What is done to their letters is
  in the pure modules (`WordScore`, `ChampionCompare`, `ModelAnswer`,
  `ScheduleDate`), whose properties quantify over every text up to a bound and
  are checked by the run of the module they belong to. Money is an integer;
  amounts beyond `MaxMoney` stand for the floating-point values JSON cannot
  encode. Share counts wrap at `Half` as int64 does. Rounding of float64 sums is
  not modelled: what `ConfirmedTopUpsKept` adds up is to be read in the arithmetic
  of the code.
* **History variables** (`told`, `results`, `faulty`, `spent`, `mark`,
  `logged`, `counted`, `invoked`, `disturbed`, `before`, `since` and `failed` of
  `StatsViews`, and `asOf` and `pages` of an answer of `Schedule`) record what properties speak of and guard nothing, bounds apart.
* **Modules that meet.** `Trading`, `Wordle`, `Loldle` and `Twentyq` contain the
  mutex of their user or subject as one atomic step: `KeyLock` shows that the
  map of mutexes behaves so. `Main` composes the counters of `Metrics` with the
  requests that increment them and the end of the process. `Dispatcher` and
  `Main` see a command as something that runs and comes back; `Dispatcher` serves
  the registry that `Registry` builds out of the declarations of the modules.
  `StatsViews` works on the addresses of `Storage`.
* **The schedule** of `Schedule` does not change while it is walked, and its
  pages are ascending and disjoint, as the code takes for granted
  (`PagesAscend`, from `api_client.go:235`). A tick is the unit of `CacheTTL` and `StaleMaxAge`; any
  number of ticks may pass within a lookup.
* Commands that only read (`/..._stats`, `/trade_convert`) change no state and
  have no action.

In each module a few operators come in pairs, the code's and a plausible bug's
(`CanLock` is `Free`; `NeverHeld` is what it would be without the lock): the
bugs are the mutants of `PROJECT.json`, under which the named property fails.

## Runs

| Run | Module, cfg | Shows | Bounds |
|---|---|---|---|
| `keylock` | MCKeyLock, KeyLock | locks are per key (exclusion of one key's callers, independence of the others), every Acquire returns | 3 goroutines, 2 keys: two contenders and one on another key |
| `trading` | MCTrading, Trading | the store is a `Ledger`; a handler's copy is current; no debt; nothing sold that is not held; confirmed top-ups stay; locks match their holders | 2 workers, 1 process, 1 user, 1 ticker; amounts 0-2, quantities 0-1, prices 1, 2 and none, money to 2, share counts wrap at 2 |
| `wordle` | MCWordle, Wordle | rules of the round, results fit the round, no lost result, every command returns; a score tells of the target what a player may conclude | 2 workers, 1 subject, 2 words, 2 guesses a round, 2 results; scored: all words of 5 letters out of 3, read: all texts up to 6 characters |
| `wordle_double_loss` | MCWordle, WordleDoubleLoss | **violation**: a lost round given up counts twice | same |
| `loldle` | MCLoldle, Loldle | stored rounds are open, ended ones counted once, replaced only when spent; names and boards say what they mean | 2 workers, 1 subject, 3 champions in changing lists, length 2 set to 1 or 3, 2 results; 4 champions compared, all names of up to 4 characters out of 6 |
| `twentyq` | MCTwentyq, Twentyq | a question is judged on the stored round; no turn lost; rounds counted once; stats fit; text is read safely | 2 workers, 1 subject, 2 questions, 2 results; texts up to 4 characters, answers up to 5 tokens |
| `ratelimit` | MCRateLimit, RateLimit | one bucket each; the allowance is exact: burst and refill bound it, nobody is dropped for another's calls | 2 callers, 2 subjects, 5 ticks |
| `dailypush` | MCDailyPush, DailyPush | the list is a `SubscriberSet`; removal has a cause; OK means all were tried; one digest each | 2 workers, one of which may push, 3 topics in 2 chats, throttling from 2 subscribers on |
| `schedule` | MCSchedule, Schedule | an answer is recent and lists what the walked pages have of the range, all of it unless the budget was spent; pages show each match of it once, in order; commands ask for ICT days and weeks | 2 lookups of one window, a day or a week; 4 pages, budget 3; fresh for 1 tick, usable for 2, 2 ticks; dates over several years, leap years among them |
| `stats_views` | MCStatsViews, StatsViews | rows are real and of one user, nothing settled is missing; back ends keep modules apart (`Stores`) | 3 back ends, 1 view, 2 commands, 2 users, one's id ending in the other's, counts to 3, 2 writes; DynamoDB pages of any length |
| `main` | MCMain, Main | each increment is in one log line or about to be; a recorded version was announced; increments get logged while the process lives | 2 requests at a time, a command and an error counter, 2 requests per command, 2 processes |
| `dispatcher` | MCDispatcher, Dispatcher | a process serves, and `/help` lists, what its modules declare, or does not start; secrets guard both routes; answers tell what happened; usage counts never exceed permitted runs and are exact where nothing failed or raced | 2 workers, 3 commands of the three visibilities, environments sound and with each fault, updates and cron calls of every refusal, 2 runs |

A property ending in `Inv` joins a module's types with the invariant named in its
definition. Two workers are the smallest number that interleave, and a lock is the
only way they affect each other beside the store; a third adds contenders, which
the `keylock` run covers with three. One subject or user is enough because entries
and locks of different subjects are disjoint; so are the entries of different
windows, and a behaviour of `schedule` keeps to one (`OneWindow`, a state
constraint). The other constraint is `CronsComeAlone` in `dispatcher`: a cron call
or a refused request reads only what does not change while a process lives, so it
comes while nothing else is under way. All other bounds are in guards of actions.
`DailyPush`, whose one entry is shared by all chats, has three topics, two of them
in one chat, so that pruning a chat and pruning a topic differ. `MaxPlayed` ends a
run by taking no more commands once that many results are stored; those under way
go on, and end the next round or begin it. `MaxTime` bounds the clock, `MaxRuns`,
`MaxWrites` and `MaxCount` the requests, `MaxStarts` the processes. The schedule's
pages have two events of one start time on either side of a boundary, one whose
time does not parse, and a page without events. Worker symmetry is used only where
no liveness is checked.

Deadlock is checked in every run but `main`: there the process may end after the
last start, and nothing is left to happen.

**Fairness.** `KeyLock`, `Wordle` and `Main` state liveness. Steps of a handler
are weakly fair: each call returns, since the webhook bounds a handler's context
(`webhook.go:32`) and the store's clients honour it. Taking a mutex is strongly
fair: Go's `sync.Mutex` hands itself to a goroutine that has waited for more than
a millisecond. The loop of `internal/metrics` is weakly fair: its ticker ticks, and a
snapshot and a log line are a matter of the process alone. Commands, signals,
failures and crashes are not fair.

**Findings.** The violation is a disagreement between the code and its own
comments; `PROJECT.json` quotes it. Others, read off the code without a run:

* `loldle/handlers.go:79,116`: every `/loldle` reads the round length anew, and a
  length shortened in mid-round ends the round unrecorded, though the reply says
  that it "applies to the next round". `ReplacedOnlyWhenSpent` states what holds.
* `dispatcher.go:105` cuts a command out of UTF-8 text by the UTF-16 offsets of
  its entity: behind a character outside ASCII no command matches.
* `firestore_kv.go:213`: a List of a prefix of 0xFF bytes finds nothing; the
  comment above it speaks of an unbounded scan. `firestore_kv.go:65` refuses a
  key that begins *and* ends with two underscores, its comment says or.
* `registry.go:179`: cron names must be unique among all modules, not within one
  as `module.go:47` says.
* `twentyq/handlers.go:54`: a failed call of the model is an error; only
  unparseable output falls back as the comment says of both.
* `twentyq/validate.go:37` counts bytes and takes 200 of them; its reply asks for
  fewer than 200 characters.
* `keylock.go:27-28` promises an order `sync.Mutex` does not give.
* `ratelimit.go:35` says "5 reqs in any 60s window"; a token bucket grants up to
  9 in just under 60 seconds. What holds is `BurstAndRefill`.
* `main.go:115` passes a nil `*ai.Client` as a non-nil interface, so that twentyq
  does not refuse commands without an API key; `Twentyq` models what happens.
* `main.go:86` promises that the trailing window of the metrics is not lost; the
  last flush comes at the signal, before Shutdown has drained the requests, and
  main does not wait for it. `EveryIncrementLogged` therefore ends at the signal.
* `api_client.go:228` stops walking back at an event that starts exactly at
  `from`, and misses another such event on the page before.
  `AnswersFollowSchedule` makes this exception.
* `webhook.go:98` expects a 500 that becomes a 200.
* The description of `/twentyq_giveup` announces a fresh round that is not
  started.

## Proofs

Proved for any number of workers, keys, users, processes, amounts and times.

* `MainProofs`, on `KeyLock`: `LocksAgree` (`LockIInv` is inductive), `LockExcludes`,
  `KeysIndependent`, and both in `LocksPerKey`. Exclusion alone is not inductive:
  it needs that every caller of a key holds a reference to the mutex in the map,
  and that a mutex is held by a goroutine whose own reference it is
  (`MutexAgreement`).
* `StoreProofs`, on `Trading`: `TypeCorrect` and `LockDiscipline` without assumptions. With
  all workers in one process (`OneProcess`, an assumption of each theorem, since
  the locks do not reach further): `NoLostUpdate` follows from the lock
  discipline, because a worker that writes holds the user's lock and so no other
  worker is between its Get and its reply; from it `TradingImplementsLedger`
  (each step of `Next` is a ledger step on the stored balance, or changes
  nothing), `Solvent`, `ConfirmedKept` and `SalesAreCovered`, the last with
  `Int64Rises`: a purchase that lowers a count has wrapped it. Holdings may be
  negative, but only a purchase that wraps makes them so (the ledger promises as
  much, so the run's refinement covers it). `TradingIsSound` joins them to `TradingInv` and
  `HoldingsCoverSales`.
* `StoreProofs`, on `StatsViews`: `StoresAreApart`, the refinement of `Stores` on every
  back end. An address is spelled name, colon, key, and no name holds a colon
  (`ModuleNames`), so an address that a listing's prefix begins is of that module
  (`NamesDelimit`) and two keys have two addresses (`AddressesDiffer`); then a Put
  or a Delete, done or not, is one step of one module's store or none
  (`PutShows`, `DeleteShows`).
  What a view replies: `RowsAreAlwaysReal`, `ViewsKeepToOneUser` and
  `NothingSettledGoesMissing`, all from `ViewsIInv`, whose parts follow a view's steps.
  Every settled key the List is for has been listed or is behind the cursor
  (`ListInv`, which needs that a page is cut at its greatest key, `PageEnds`); then
  it has been read or is to be read, and what was read was held since the view began
  (`ReadInv`, `WatchInv`); who a name was resolved to had it (`AimInv`); and the rows
  satisfy the three properties (`AnswerInv`). The writers only add to what was held
  (`Grows`), which keeps all of it. Underneath: Lists go by prefix on every
  back end, Firestore's range included (`ListsByPrefix`); the key of a pair tells its
  command and user, though an id may end in another's (`PairDecodes`, `PairOfOne`,
  `CommandOfPair`, `PairsOfOne` for whatever is typed); and the rows told are distinct
  entries', those left out counting no more (`RankedTells`).
* `MainProofs`, on `RateLimit`: `AccountsAgree` (one bucket a subject; granted and left
  balance over every stretch of time), from it `CallsAreBounded` and
  `DropsAreOwed`, and both in `AllowancesAreExact`.
* `WordleProofs`: its `IInv` says that a handler past its load holds the stored
  round and, past its second load, the stored stats; that the results recorded for
  the round are those it calls for (`Fits`), or lack just the one the handler is
  about to add (`Awaits`); and that one about to be replaced is finished or counted.
  From it `ResultsFitRounds`, `NoResultIsLost` and `RoundsFollowRules`. A round out
  of guesses may still be given up and is then counted twice: `ResultsFitRounds`
  allows several losses, and the run `wordle_double_loss` shows them.
  `GuessesAreScored` is about the letters as well, for every alphabet, word length,
  guess, target and text: pass 1 leaves the pool as many of a letter as the target
  has off their place (`PoolHasTheRest`), each yellow takes one (`ConsumedOnce`), so
  that before the i-th letter the pool has what the earlier askers left (`PoolLeft`),
  and of those that ask the leftmost are served (`SmallerNumber`).
* `LoldleProofs`: its `IInv` says of a handler past its load that the round in
  memory is the stored one, that a round it is about to replace is spent, and that
  one it is about to clear has been counted or lost its target; it is inductive
  because one handler at a time is past Acquire (`OneHandlerPerSubject`). A step
  under the lock concerns its worker and subject alone (`LockedStep`), so each
  action is checked against those only. From it `RoundsStayOpen`,
  `RoundsLeaveAGuess`, `EachRoundIsCountedOnce` and `OnlySpentRoundsAreReplaced`,
  with failures, restarts and changes of the champion list. Of `ChampionCompare`:
  `GuessesAreAnswered`, for every champion list and alphabet in which nothing but a
  blank has a blank for its lower case: years of four digits are one exactly if they
  are written the same (`SameYear`), and lists are marked by which of their values
  are in the other (`ListsMarked`).
* `TwentyqProofs`: the same argument. While a question waits for the limiter or
  the model, the round in memory is the stored one, unsolved and uncounted; the
  round about to be saved is the stored one and one new question (`MemoryOf`);
  the stats stay a score rounds can add up to, given that they were loaded from
  the store and not changed since. From it `QuestionsAreJudgedOnTheirRound`,
  `ScoresAddUp`, `QuestionsAreDistinct`, `TurnsAreKept` and
  `EachRoundIsCountedOnce`, whatever the limiter and the model answer.
* `TwentyqProofs`, on `ModelAnswer`: `TextReadSafely`, for every alphabet, text, secret
  and answer, and objects of every length. Where an object is looked for: behind each
  token the scan is outside of strings again, at the depth of the tokens so far
  (`TokenScanned`, `DepthSteps`), so that it first ends with the last one
  (`ObjectScanned`); prose before it has no opening brace, and fences leave no trace
  (`KeepingJoined`, `FirstOne` of `Loops`). What is redacted: a match of the expression
  is a whole word (`MatchesAreWords`), and matches are apart (`CoveredAre`), so the
  loop of `redactSecret` replaces all of them and loses nothing else (`RedactedSoFar`,
  `RestIsKept`); taking words out makes no new one (`NothingNamed`). When questions are
  the same: a collapsed text has no blank to spare (`CollapsedIsCanonical`), and such a
  text is spelled by its letters and by which of them begin a word
  (`SpelledByLetters`). What is assumed: lower case makes no blank and no word
  character of another; a secret is a single word, as those of seeds.go are; and
  "(redacted)" is one sign, which only the code writes.
* `MainProofs`, on `Main`: `MainImplementsMetrics` (each step of a process is a step of
  `Metrics` or leaves the counters alone); `IncrementsAreAccounted`, proved of
  `Metrics` with `MetricsIInv` and carried over by that refinement. The balance
  alone is not inductive: an increment under way must still hold the counter
  that is in the map (`CountersAgree`), which is why drained counters stay there.
  `NoticesAreNotSilenced` needs that a process about to record a version has
  announced it. `ProcessesAreSound` is the three together: types,
  recorded versions and increments.
* `DispatcherProofs`, on Build: for every catalogue and list of modules Build
  refuses exactly the lists with a fault (`BuildRefusesFaults`), and what it
  returns is what the modules declare (`BuildDeclares`); with `HelpTrue`, that a
  process, once started, serves that (`StartsServeWhatIsDeclared`; a secret or a
  store that is missing keeps it from starting as well). Build and `/help` are
  loops, here folds, and the provers have no induction: `Steps`, `FoldExists` and
  `FoldRuns` of `Loops` get it from the least index at which the claim would fail (the
  naturals are well founded). A fold then runs through values of one set, a round
  after another (`LoadModulesRuns` and the like), and `Built` says what the
  registry is after i names: a fault so far, or exactly what they declare.
* `DispatcherProofs`, on serving: `DispatcherIInv` says that a request under way
  carries the secret of its route in the process that let it in (`RequestInv`);
  that a goroutine belongs to a run of a live process (`HooksInv`); and of each
  entry, that it and what any goroutine has read of it count no more than the runs
  whose goroutine is done (`Counted`), and just those while nothing disturbed it
  (`Exact`). The number read matters: without its bound a late Put could overcount.
  From it `NothingRunsWithoutItsSecret`, `AnswersTellTheTruth`,
  `UsageCountsNoneTooMany` (which needs that a run's sender was entitled to the
  command as its module declares it, so `BuildDeclares` too) and
  `SparedUsageIsExact`.
* `LolscheduleProofs`, on `DailyPush`: the filter of the list keeps what it is asked to
  keep and adds nothing (`KeepingRuns`, `KeepingKeeps` of `Loops`, again by `Steps`).
  `DailyPushIInv` says that the list has each topic once; that an edit still to be
  done has its cause, the command or a chat the push has found dead, and that the
  copy about to be put is the list as stored (`EditsCaused`, since only the holder
  of the mutex puts); and that a push has as many outcomes as its place in the code
  calls for (`Advances`). From it `PushesTryEveryone`, `DigestsAreNotRepeated`,
  `NobodyIsRemovedWithoutCause`, and `ListImplementsSubscriberSet`: a Put that
  takes effect is one step of `SubscriberSet`, all else a stutter.
* `LolscheduleProofs`, on `Schedule`: for every schedule whose pages ascend, every
  range and every bound on pages. `ScheduleIInv` says that every record of the
  store follows the schedule and is no older than its stamp says (`Sound`, true even
  of a record that a slow handler puts over a newer one); that a walk holds the events
  of adjacent pages, in order and with nothing in between (`Adjacent`); and that it
  leaves a side only where the pages end, the range is reached or the budget is
  spent (`WalkFollows`). That a page beyond one that reaches the range has nothing
  of it (`WalkIsComplete`) is where the order of the pages counts, and where the
  event that starts exactly at `from` is excepted. From it `AnswersAreFresh` and
  `AnswersListTheRange`.
* `LolscheduleProofs`, on `ScheduleDate`: the calendar, which the module adds up month
  by month, has a closed form (`FirstOfMonth`, `YearLength`, `YearsAscend`), so that
  each day has one date and each date one day (`CivilOf`, `DaysHaveDates`), and the
  round trip through the date refuses exactly the days a month does not have
  (`CandidateExact`). The cuts of a text are taken in order (`Loops`), so the three
  spellings of a date have the same three parts (`FullDates`). What is assumed: the
  digits are ten and no delimiter is one, instants lie before the year 2101, years
  have four digits. (`splitParts` was first written with alternatives that
  overlapped, as on `1-2-3456`: the proof could not choose, TLC had taken the first.)
* `LolscheduleProofs`, on `SchedulePage`: an answer's events lie in the range asked for
  (from `ScheduleIInv`), so the days of a week's page do (`WeekShows`); the leagues
  met, and the days, are each once and in order (`MetIs`, `Sorted`), so the sections
  hold every event of a major league once (`SectionsShowAll`, `ByDayShows`, with
  `FlattenAll` and `FlattenDisjoint` of `Loops`).
  `DaysAreAskedFor` and `PagesShow` have the hypothesis `LookupsAreAsked`: `Schedule`
  takes the ranges looked up as a constant, and the two modules belong together only
  if these are what the commands sent ask for. The run checks that they are.

The assumptions are those named in the modules, next to the constants.

Only model-checked: liveness (outside the prover's reach). Every invariant and every
action property that a passing run checks is stated by a theorem.

## Not modelled

Wording, layout, stickers, prompts, embedded word and champion data, logging and
its middleware, the construction of the AWS, Google and Telegram clients, and the
remote services themselves, which answer anything (see `PROJECT.json`, components).
`json.Unmarshal` and `time.Parse` of the model's and the API's answers are inputs:
a field parsed or missing. Commands that only read (`/wordle_stats` and the like,
`/trade_convert`, `/mstats`) have no action; `/ping` stores a timestamp only
`/mstats` shows. Duplicate deliveries by Telegram are not told apart from commands
typed twice: the bot remembers no update id, so both are applied, and the models
let any command come at any time. Two instances of the function on one store are
expressible in `Trading` but the promises need one. Deadlines appear as failures
and crashes, not as times. A hook is one step in `StatsViews`: what its races lose
is in `Dispatcher`.

## Plan

1. (done) `KeyLock`, `Trading` with `Ledger`, `Wordle`, `Loldle`, `Twentyq`,
   `RateLimit`, `DailyPush` with `SubscriberSet`, `Schedule`, `Dispatcher`, `Main`
   with `Metrics`, and the first proofs.
2. (done) Algorithms as operators against reference definitions: `WordScore`,
   `ChampionCompare`, `ModelAnswer`, `ScheduleDate`, `SchedulePage`.
3. (done) `Registry` and the routes in `Dispatcher`; `Storage`, `Stores`,
   `StatsViews`.
4. (done) `Wordle`, `Loldle` and `Twentyq` proved.
5. (done) `Main` and `Dispatcher` proved, with Build and `/help`; `DailyPush`
   proved, with its refinement; the walk and the cache of `Schedule` proved.
6. (done) The letters of `Wordle` proved; `StatsViews` proved to implement `Stores`.
7. (done) What a view of `StatsViews` replies, and `ChampionCompare`, proved.
8. (done) `ScheduleDate` and `SchedulePage` proved.
9. (done) `ModelAnswer` proved.
