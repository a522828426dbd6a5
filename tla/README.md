# apgsearch: models, checks and proofs

apgsearch (`apgluxe`) searches random "soups" of a cellular automaton: it runs
each soup until it is stable, separates what is left into objects, counts them
in a census and uploads the census as a *haul* to Catagolue. This directory
models the program around the automaton: its launch and rebuilding, the search
loops and their threads, the session with the server, the HTTP client, the
detection of stability, of linear growth and of lifespans, and the bookkeeping
of the census. lifelib, the library that runs the automaton, is
a git submodule outside the repository; it appears as external operators.

`PROJECT.json` lists the components, the runs, the hazards and, for every
definition that models code, the lines it stands for. `M_proofs.tla` holds the
theorems about `M.tla`; `MCM.tla` gives instances of `M.tla` for TLC.

## The system

| Component | State | Operations | What makes it hard |
|---|---|---|---|
| Threaded search (`searching.h`) | `vec`, `nvec`, `idx`, `ts`, `lb`, `maxcount`, `soupsCompletedSinceStart`, the global and the local searchers, `running` | pump an epoch of soup numbers, start a round, claim / census / count a soup, join and aggregate, tally, submit, retry | workers, the main thread and a signal waiter share four counters; soup numbers are pumped a round ahead; a stop may fall between any two reads of `running` |
| Sequential search (`searching.h`) | the same, without rounds | read or number a soup, census it, submit, retry | end of input, stop and full haul may coincide |
| Launch (`apgluxe.h`, `recompile.sh`, `immediate.sh`, `mkparams.py`) | the words of the command line, the options read so far, what the executable was built for | read an option, accept or reject a rule or symmetry, exec the script, build and start again, settle the defaults | order of options; words pass through two scripts and back |
| Session (`apgluxe.h`, `verification.h`, `payosha256.h`, end of `searcher.h`) | host in use, token, seed, iterations left; at the server the hauls stored | review hauls, search, authenticate, log, upload, reseed | answers are lost, hosts fail and are rotated, a haul is logged and sent in two steps |
| HTTP client (`happyhttp.cpp`) | a parser state per response, a queue of responses | request, pump, notice the close | the stream is cut anywhere and may break off |
| Stabilisation (`stabilise.h`) | `depth`, `period`, `security`; a stack of hashes with generations | sample, push / match a hash, repeat | thresholds change under way; two lists must stay in step |
| Census (`searcher.h`) | `census`, `alloccur` | separate with up to six attempts, rate the lifespan, aggregate | limits at several places, what a failed attempt leaves behind |
| Growth and lifespans (`detection.h`, `methudetect`) | a sequence of populations, the period and the qeriod tried, three moments | sample two patterns in turn, try a period, a qeriod, sum up, scan back | windows end at off-by-one boundaries; ints overflow; one read may precede the vector |
| MD5 (`md5.cpp`) | – | – | not modelled, see below |

The launch ends in the main loop or, by way of the scripts, in another launch.
The main loop (Session) calls the search, which calls the census for each soup
(which calls the stabilisation test) and the submission for each haul; review
and submission send their requests through `catagolueRequest`, which is a loop
over the HTTP client. The search models take a soup as atomic between claim and
count; Session takes a search as one step; so each module keeps the whole
control of its part and only the outcome of the part below.

## The modules

**HaulSpec** is the abstract specification of a search: soups are searched one
at a time and none twice; a submission reports `n` and holds exactly the soups
`0 .. n-1`; nothing follows an acknowledged haul.

**ThreadedSearch** is `perpetualSearch` with threads, `partialBalancedSearch`
and `sigwaiter`. A soup is its number and a census the set of soups counted in
it. Every read of `running` by another thread's doing is a step of its own:
`Poll`, `Claim`, `CensusSoup` and `Count` are the four places of the worker's
loop, `StartRound`, `PumpEpoch`, `JoinThread`, `Tally`, `Report`, `Submit`,
`Retry` and `ExitLoop` those of the main thread. `Tally` is one step though it
reads `running` and `ts`: all workers have been joined, so `ts` is final, and
`running` only ever falls. `Gpu` selects the build; the GPU preprocessor lets
through an arbitrary subset of every epoch. `Searched`, the refinement mapping,
is the global census together with those of the workers.

**SequentialSearch** is the other branch of `perpetualSearch`, with
`retrieveSeed`. A line of input is what the code tells apart: whether it starts
with `x`, contains `!` or is empty. It implements HaulSpec too.

**Launch** is `run_apgluxe` up to its main loop, and the scripts it may exec:
`SetNumber`, `SetName`, `Accept` and `SkipWord` are the branches of the loop
over `argv`, `Exec` is its `execvp`, `CountWords` and `Settle` are the code
between the loop and `while (!quitByUser)`, `Rebuild` and `GiveUp` are
`recompile.sh` with `mkparams.py`. A word is a member of a set, with its `atoi`, its
canonical form as a rule (`sanirule`) and the classes of symmetries it is in;
`After` is the scripts' `grep -o`.
`RunsAsAsked` reads the typed words on its own, but takes the defaults for what
was not typed (haul size, threads, reviews) from the operators of the model.

**Session** extends Launch, whose results are its options, with the rest of
`run_apgluxe`, `verifySearch`, `submitResults`,
`authenticate` and `catagolueRequest`. A negative `-p`, which nothing rejects,
ends it in `CrashOfSearch`. The client blocks in a request, so a
request is one step whose outcome is `served`, `refused` (200 with another
text), `unreachable`, `lost` (handled, answer lost) or `bad_status`. `submitResults` is `AuthenticateHaul`,
`WriteLog` and `PostHaul` (or, with `-t`, `PostNothing`), whose order is `after`.
The server's stored hauls and the local logs are `[seed, num]`. `Exhausted` is the
bound on failures, met at a host that never serves.

**HttpSpec** is what an HTTP client promises to its callbacks: statuses and
bodies are heard in order, from their beginnings, none before the last is
whole; failure is possible only on a connection that may be cut and is final.

**HttpClient** is happyhttp's `Response` and `Connection`, fed one symbol of
the stream at a time: the text of a line, a newline, or a byte of a body with
its place in its message, so that a body is seen to be the right one. It implements HttpSpec, with
`heard` mapped to what `OnBegin` and `OnData` have been given.

**Stabilise** is `naivestab_awesome` and `stabilise3`. A universe is any
deterministic orbit, `tail` then `cycle`, with a population and a hash for each
state. The schedule of thresholds, the stride and the loop bounds are
constants, the code's values given in comments.

**Census** is `SoupSearcher` below the classifier, whose tally for a pattern is
an arbitrary choice from a set. Codes have the kinds the code looks at.

**Detection** is `get_popseq`, `linearlyse`, `classifyAperiodic` and the part of
`methudetect` that runs a soup again. A universe is `tail` and then `cycle` for
ever, each lap `growth` cells larger; `stepsize`, `HASHLIFE_ONLY` and
`LARGE_SYMMETRY` are part of a task. Ints wrap modulo a constant. The read of
`popseq[i - p]` before the vector is any outcome. `TrueName` and `TrueLife` say
what the answers should be from the whole future of the universe.

Operators marked `Slip:` are plausible mistakes. `PROJECT.json` pairs each
property with one that makes TLC find it violated.

## The runs

| Run | Bounds | Question |
|---|---|---|
| `cpu_aligned` | 2 workers, epochs of 3, 6 soups per haul, 2 failed uploads | Does a CPU search of whole epochs submit exactly what it reports, whenever it is stopped? Does it implement HaulSpec? Does a stop inside a round end in a submission? |
| `cpu_unaligned` | 3 workers, epochs of 3, 5 soups per haul, 2 failed uploads | Is a soup ever searched twice, a census ever larger than reported, when hauls end inside an epoch? |
| `gpu` | 2 workers, epochs of 2, 4 soups per haul, 32 yields, 1 failed upload | Are epochs pumped once and drained before a haul is submitted, with any yields, none included? |
| `session` | 18 launches, 2 searches unless the options end it earlier, 1 review per round, 4 failures | Has a run the options that were typed, and is it rebuilt at most once? Are tokens used where they came from, exactly `-i` hauls stored, each logged before it is sent, later uploads of a seed larger? Is a serving host found if it is in reach? |
| `sequential` | 2 soups per haul, 60 inputs, 2 failed uploads | Does the census match the count, is the input read to its last pattern, does the key `q` leave no soup unsubmitted? |
| `stabilise` | orbits of up to 8 states, 24 samples, 12 hashes | Is the count of samples below its threshold, is the stack the history it stands for, is a cycle found within two laps? |
| `http` | 61 exchanges, reads of at most 4 symbols | Does the connection implement HttpSpec wherever the stream is cut, is no byte lost, does polling end? |
| `census` | 3 soups, lists of 2, 7 tallies | Are objects counted once over attempts and aggregation, are lists sound and not empty without cause? |
| `detection` | 4 for `maxperiod` and for the period of a settled soup, sequences of 12 to 15, ints modulo 32 | Is a growing pattern named alike at each phase, and as its future says? Does a soup that had settled earn exactly its lifespan? |
| `lost_stop`, `skipped_soups`, `http_empty` | small | the disagreements below |

Why the bounds are enough. A haul of two epochs is the least in which an epoch
is pumped ahead, taken over by the next round and drained; a second failed
upload is the first that meets an `lb` set after a retry. Five soups in epochs
of three put the end of a haul inside an epoch and, after a failure, the next
one at another place of its epoch. Three hosts are all there are; the two
failing hosts take two failures, and the four allowed leave room for proofs of
work given up. Two laps of a cycle of five strides are ten hashes. A stack
entry can be popped from the bottom, the middle or not at all with three
states. A stride of 2 makes cycles of even and odd length differ, and a
fallback of 6 lies between the periods found. A read of four symbols cuts every
kind of line and holds the end of one answer with the beginning of the next. The
launches take each branch of the option loop, each way through the scripts and
each end. A period below 4 can be found, missed or, with steps of 2 and three
states, lie beyond reach; cubes of differences up to 9 pass an int of 32
values; a soup found stable at generations 2, 4, 6 and 7 is below, between and
above the limits, before and after it settles. A
list of two fills up within three soups and a count of three passes its limit.

Fairness. `cpu_aligned` and `gpu` assume weak fairness of each worker and of
the main thread: the operating system schedules threads. `Submit` has none,
as nothing makes a server answer (`StopLeadsToSubmission` and `SearchEnds` end
where the request begins). `session` assumes that its one
thread proceeds; that includes that a request ends, which the code
does not enforce with a timeout, and its bound on failures that a proof of work
tried again is not given up for ever. `http` assumes that the client polls and that
the server sends what it has and closes, as each request's `Connection: close`
asks it to.

## What the runs find

Each is a property that a document, a comment or a message of the program
states, and a behaviour of the code that breaks it.

* `lost_stop`: a signal between the computation of `finished` and the test of
  `while (running)` leaves the search without a submission, although the
  program has just said it "will attempt to submit results before exiting".
* `skipped_soups`: with `-n` inside an epoch, after a failed upload the rest of
  that epoch is pumped but dropped by `narrow`, because `lb` is already past
  it; its soups are reported as completed.
* `http_empty`: a response with an empty body is complete when its headers are,
  but `BeginBody` waits for another byte; the server's close then throws.

Others were met while modelling and are facts of the models without a run of
their own. With `-L 1` a haul whose authentication fails is not logged
(`AuthenticateHaul` leaves `logs` alone), though the README speaks of "a local
log of each haul". A host that answers every request with a bad status is asked
for ever, as only a failed connection or an answer without a token changes the
host: the run `session` has such hosts, and `HaulIsUploaded` is stated for those
before which there is none (`ServerInReach`). A last option without its value takes the word `--immediate`,
which `immediate.sh` appends, for its value after a rebuild (hence `Complete` in
`RunsAsAsked`), and asking for a symmetry alone builds the rule b3s23 whatever
the executable was built for before. The words after every `--rule` come before
those after every `--symmetry` when `mkparams.py` is called, so that a second
rule stands where it expects the symmetry: `--rule B3/S23 --rule D2 --symmetry
C1` builds for D2 (hence `RulesApart` in `RunsAsAsked`). After a failed upload
in a GPU search `lb` may lie an epoch past `maxcount`, and the epoch pumped for
the retry is dropped (hence `UninterruptedHaulCovers` asks for `failures = 0`).
A GPU round cut short is estimated from the survivors of one epoch and the width
of others. The end of the standard input is censused and counted as one more
soup. An answer that refuses a haul is taken for success (hence `NeverRefuses`
in `UploadsExactly`). `-t 1` does not turn off peer review, and `-i` after it
turns off its single iteration. `period` changes at passes 400, 500 and 600 of
`naivestab_awesome` while `depth` is kept, so the period returned may be one
that few of the samples counted were taken at (hence `SteadyPopulation` is about
samples at the present period).

## What is proved

All theorems hold for every value of the constants that satisfies the named
assumptions of the module, and are checked by TLAPS to the last leaf.

**Threaded search** (`ThreadedSearch_proofs`). `TypeCorrect`, `EachSoupOnce`
(`NoSoupTwice`) and `FreshPumping` (`PumpedFresh`) hold for both builds, any
number of threads, epochs and haul sizes, any yield. `NoSoupTwice` is not
inductive; `IInv` adds, besides the type invariant, four parts. `Threads`: where
the threads can be at each step of the main one, and that a joined worker's
census is part of the global one. `Holding`: the soup a busy worker holds is in
`idx`, no other worker holds it, and it has not been censused before; what has
been censused of `nvec` is in `idx`. `Counting`: `ts` plus the number of busy
workers is the number of soups handed out. `Bounds`: all that has been censused,
and all of `nvec`, lies below `lb`, and `vec` lies below the first epoch
boundary above `newi` (above `soupsCompletedSinceStart` between rounds), which
`lb` does not exceed. That is the exact role of `lb`: what `narrow` leaves of
`vec` was never searched.

`ExactHaul` (`HaulExact`) and `ImplementsHaulSpec` (`HaulSafety`) assume
`CpuAligned`: the CPU build and haul sizes that are whole epochs, which is what
separates them from `skipped_soups`. Their invariant `EInv` says that a round
searches exactly the epoch that starts at `soupsCompletedSinceStart` and pumps
the next one unless the haul ends before it; that `idx` is always an initial
segment of that epoch, and the censused soups are those handed out that no worker
still has to census; and that between rounds they are exactly the soups
below `soupsCompletedSinceStart`.

`NeverUnder` (`NeverUnderReports`) assumes only the CPU build, so it covers the
searches that do skip soups. `WInv` follows the two places where `lb` can stand,
at `soupsCompletedSinceStart` or at the boundary above, says that a round has
either all the soups up to its end or, when `narrow` has dropped them, none, and
that `idx` fills up from the beginning of the round. `HaulComplete`
(`UninterruptedHaulCovers`) is for both builds: as long as nothing has stopped
the search or failed, what a round has not yet searched is in `vec`, `nvec` or
`idx` (`CInv`), so that nothing let through by the yield is missing at the end.

**Launch** (`Launch_proofs`, used by the next). The invariant `LaunchInv` is
the types, `RebuiltOnce`, `ReadyToSearch` and `OwnWordsFirst`: an executable a
script has built reads the rule and symmetry it was built for as its first four
words and has accepted each that it has passed, so that no later `--rule` or
`--symmetry` makes it exec the script again.

`RunsAsAsked` needs what the words have become on the way (`AsTyped`). In an
executable that has not been rebuilt they are the words typed; in a rebuilt one
they are its own four and then either all the words typed (`Passed`) or only
words that ask for no search (`Bare`), which never get to a search. Of the words
already read each option holds the last value (`OptionsRead`), and what was
built is what the first `--rule` and `--symmetry` say (`BuildAsked`).
`OptionsReadStep` and `BuildAskedStep` carry the two over one step of the option
loop, `SettledAsAsked` over the code after it, and `RebuildAsTyped` over the
scripts: `ScriptFinds` shows that the `grep -o` of `recompile.sh` finds in the
words what the user typed first.

**Session** (`Session_proofs`). `RebuildsEnd` (`RebuiltOnce`), `LaunchIsReady`
(`ReadyToSearch`: after the launch the haul is positive and at most 10^10, whole
epochs for a GPU, and the threads fit the build). `TypeCorrect`, `TokensUsable`
(`TokenUsable`), `UploadsAreLogged` (`UploadedIsLogged`) and `UploadsGrow`
(`HaulsGrow`) come from an invariant by which the server holds nothing of an unused
seed and of the current seed no more than has been counted; `UploadsAreExact`
(`UploadsExactly`) adds that every seed left behind is stored and that
`left = iterations - seed`. `UploadsAreLogged` follows the haul from its log
through the request to the end of the search (`Logged`): however the request
ends, what the server may have of it was in the log before. They hold for every command line. `RunsAsTyped`
(`RunsAsAsked`) takes the launch's argument into the session, whose other steps
keep words, options and build (`LaunchedOrKept`).

**Sequential search** (`SequentialSearch_proofs`). `TypeCorrect`, `ExactCensus`
(`CensusExact`) and `ImplementsHaulSpec` (`HaulSafety`), from the invariant that
while the search goes on the haul is not full and only a finished search has
been acknowledged. `NothingUnsubmitted` (`QuitSubmitsAll`) rests on the fact that
without a signal waiter `running` is cleared only where a submission follows
(`NoGap`). `PatternsAreRead` (`ReadsToTheEnd`) is about inputs in which each `!`
ends a pattern whose header stands before it (`Closed`): the loop
reads up to the end of the input or of a pattern, and whatever it has passed
then had no other end in it.

**Stabilisation** (`Stabilise_proofs`). For every universe, hashes that collide
included, any schedule of rising thresholds and any bounds of the loops:
`TypeCorrect`, `DepthIsBelow` (`DepthBelowSecurity`), `SamplesAgree`
(`SteadyPopulation`), `StackIsOrdered` (`StackAscends`), `StackRemembers`
(`StackIsHistory`). The invariant adds that the threshold in force is one of the
schedule already reached (`Threshold`), which with the schedule's order shows
that a change only raises it, and that no entry of the stack is ahead of the
clock (`Stamps`). `PositionFound` shows that the place the walk ends at exists
and separates the smaller hashes from the rest, by the least-number principle
(`LeastOf`).

`FoundInTime` (`FoundBySecondLap`) needs no assumption on the hashes either, and
`ShortestCycle` (`FindsCycle`) is about universes whose hashes do not collide.
Their invariant `LInv` relates the stack to all hashes seen, not only those on
it: an entry that is gone was thrown off by a smaller hash (`SeenOnce`,
`Remembered`), and what is on it was seen with only larger hashes since
(`Undercut`). The least hash of a lap is therefore still there when the next lap
brings it again, which ends the search in time; and when the hashes tell states
apart, an entry met again is a whole number of laps old, and no smaller number
of strides can be (`CycleIsLeast`), whatever that entry is.

**Growth and lifespans** (`Detection_proofs`). For every task, window and width
of an int: `TypeCorrect`, `RecordsHistory` (`PopseqIsHistory`), `QeriodIsFound`
(`SomeQeriod`). The invariant says which of the two patterns is ahead and by how
much at the n-th sample (`InTurn`), and that a period once found still repeats,
so that the search for the qeriod cannot pass it (`PeriodFound`).
`LifespansAreExact` (`LifespanExact`) adds that no period above the true one is
tried on a soup that had settled (`BelowTrue`). The windows are long enough to
tell: a period that fits a whole lap of the window fits for ever
(`WindowTells`), and the backward scan stops at the last generation that
differs (`ScanTells`). As it does not look at generation 0, a lifespan of 1 is
found as 0, which earns the same as long as `rerunEmpty` is above 1; the code's
value is 500, and `SizesAssumption` says so.

`NamesHaveNoPhase` (`NameHasNoPhase`) is about the patterns that grow by the same
number each lap. What the code compares is a window of the sequence that begins
wherever the pattern was caught; what the name should be is defined from
generation 0. `WindowTellsGrowth` shows that they agree on every period and on
every qeriod of a period: the differences over a step repeat each lap if the
step is a multiple of `stepsize` or nothing grows (`Tame`, `StepLaps`), what
holds in a window of a lap then holds everywhere (`AgreesEverywhere`), and a step
that is neither fails in every window, at the first sample beyond it that falls
between samples (`PeriodsAreTame`). Hence the invariant `NameSoFar`: what the
loops have passed over is no period and no qeriod, what they have found is the
least, and the moments are the wrapped sums of the differences so far. The
differences over the qeriod come round with the period (`StepsComeRound`), so
that their sum over one period is the same from every start (`SumOfPeriod`), and
an int that wraps at each addition ends where the sum itself wraps (`WrapOnce`).
A pattern caught between the generations `stepsize` allows is outside
`LinearTask`, as are laps longer than `maxperiod`, which the window cannot see
whole.

**Census** (`Census_proofs`). For every classifier, number of soups and limit of
the lists: `TypeCorrect`, `CountsAreExact` (`CountedOnce`), `ListsAreSound`
(`ListsSound`), `ReportsShow` (`ReportedIsListed`). The invariant says of each
code that its count is the sum (`Total`) of what the accepted attempts found,
and that the lists hold soups of such attempts; sums over sequences are reasoned
about through an induction principle for sets of numbers (`SetInduction`).

**HTTP client** (`HttpClient_proofs`). For every sequence of messages, every
size of read and every way to cut the stream: `TypeCorrect`, `NoByteLeft`
(`AllBytesUsed`), `ThrowMeansCut` (`OnlyCutsThrow`) and `ImplementsHttpSpec`
(`ExchangeSafety`). The proof is a specification of the parser by position.
`At(r, m, v)` says what the response's members are once `v` symbols of the
message `m` have been fed: which line of the head it is in and what it has
collected (`InHead`), how much of a body of known length or up to the end of the
connection it has given (`InPlainBody`), which chunk it is in and how much of it
is left, or which line of the trailers it is in (`InChunkedBody`). `Step` shows
that one symbol takes `At` from each `v` to `v + 1`, and to a complete response
exactly at the last one; `Place` and `TakeAllFacts` do the same for the queue of
responses and a whole recv. The invariant `IInv` says that unless something has
failed the client is at some place of the answers to what it has asked, that
what is in the socket and at the server follows that place, and that it reaches
to the end of them unless the connection was cut. The theorems assume
`AllBodied`: no message declares a body of length 0 or has the status 204. That
is what separates them from `http_empty`; every message of the run `http`
satisfies it. Concatenations of any number of chunks and messages are reasoned
about with the same induction principle as the sums of Census.

`HaulExact` and `CensusExact` have no run of their own: they are part of what
`HaulSafety`, which the runs check, says of a submission.

Model-checked only: the liveness properties (`StopLeadsToSubmission`, `SearchEnds`,
`HaulIsUploaded`, `PollingEnds`), which are out of the prover's
reach. Every safety property and every refinement of the passing runs is a
theorem; where it needs an assumption (`CpuAligned`, no GPU, `Closed`,
`AllBodied`), the paragraph above says which.

## What is not modelled

* The regression of `powerlyse`: floating point. Which of its five names it
  returns is arbitrary.
* `md5.cpp`: the reference implementation of a fixed function, called once on a
  short string; no control depends on its value.
* The Cygwin build, whose only difference is that it has no threads.
* Progress messages and their timing; a key is read only with a message, which
  the models allow at any report.
* In happyhttp name lookup and the socket calls; `SocketError` stands for any
  of their failures. `m_WillClose` is read nowhere.
* The data race between `parent->census` in a worker (`searcher.h:214`) and
  `aggregate`: what is read only decides whether a message is printed.
* The lifetime of the signal set that the detached waiter is given.
* `make`, `update-lifelib.sh` and what lifelib generates: a build succeeds or not.
* lifelib itself, and the GPU kernel, which is part of it.

## Plan

The order was: the threaded search with HaulSpec, as the heart of the program
and the part with most interleavings; Session; then Stabilise, HttpClient,
SequentialSearch and Census; proofs for the searches and the session; Launch,
Detection and HttpSpec; proofs for Stabilise, Detection, Census, HttpClient and
Launch. To come: the outcomes of Session's requests derived from HttpClient
instead of chosen.
