------------------------------- MODULE Launch -------------------------------
(***************************************************************************)
(* From a command line to the options of a run: run_apgluxe's pass over    *)
(* argv, and the way round by immediate.sh, recompile.sh and mkparams.py   *)
(* when the executable was built for another rule or symmetry.  The script *)
(* builds the executable anew and starts it with the same words.           *)
(***************************************************************************)
EXTENDS Integers, Sequences, FiniteSets

CONSTANTS
  CommandLines,    \* the launches explored, see LaunchAssumption
  Words,           \* what may be typed
  atoi,            \* the number a word begins with, 0 if none
  DoubleDashed,    \* the words that begin with "--"
  sanirule,        \* lifelib: the canonical form of a rule, Invalid if none
  Invalid,
  Symmetries,      \* lifelib: the valid symmetries
  StdinSymmetries, \* those that read soups from the standard input
  GpuSymmetries,   \* those that begin with G or H
  gpuForm,         \* a symmetry with its C or D replaced by G or H
  DefaultHaul, GpuHaul, StdinHaul,  \* 10000000, 200000000, 100000
  LeastPrompted,   \* 10000000
  MaxHaul,         \* 10000000000
  GpuEpoch,        \* 1000000
  Prompted,        \* numbers typed when asked for,
  PromptedKeys,    \* and keys
  DefaultReviews,  \* 5
  HpcThreads       \* 4: with more threads there are no reviews by default

NumberFlags == {"-n", "-v", "-i", "-L", "-u", "-t", "-p"}
WordFlags == {"-k", "-s"}
Flags == NumberFlags \cup WordFlags
Configurable == {"--rule", "--symmetry"}
Entries == {"apgluxe", "recompile.sh"}
Builds == [rule : Words, symmetry : Words, gpu : BOOLEAN]

ASSUME LaunchAssumption ==
  \A c \in CommandLines :
    c.entry \in Entries /\ c.words \in Seq(Words) /\ c.build \in Builds
ASSUME WordsAssumption ==
  /\ atoi \in [Words -> Int]
  /\ DoubleDashed \subseteq Words /\ Configurable \cup {"--immediate"} \subseteq DoubleDashed
  /\ {"b3s23", "C1", "#anon", "original seed"} \subseteq Words
ASSUME LifelibAssumption ==
  /\ sanirule \in [Words -> Words \cup {Invalid}] /\ Invalid \notin Words
  /\ \A w \in Words : sanirule[w] \notin Flags \cup DoubleDashed
  /\ gpuForm \in [Words -> Words]
  /\ Symmetries \subseteq Words \ (Flags \cup DoubleDashed)
ASSUME SizesAssumption ==
  /\ {DefaultHaul, GpuHaul, StdinHaul, LeastPrompted, MaxHaul, GpuEpoch} \subseteq Nat \ {0}
  /\ MaxHaul % GpuEpoch = 0
  /\ Prompted \subseteq Int /\ PromptedKeys \subseteq Words
  /\ DefaultReviews \in Nat /\ HpcThreads \in Nat

VARIABLES
  typed,     \* the command line as the user typed it
  cmd,       \* argv[1 ..] of the program or script that runs
  build,     \* what the executable was built for
  stage,     \* see Stages
  arg,       \* i of the loop over argv
  opts,      \* the options that are numbers
  names,     \* the key and the seed
  nullargs,  \* words that ask for no search
  consumed,  \* --rule and --symmetry, once met
  rebuilds   \* times the executable was built anew

launchVars == <<typed, cmd, build, stage, arg, opts, names, nullargs, consumed, rebuilds>>

Stages == {"parse", "count", "settle", "script", "ready", "exit"}

\* The rules lifelib can run, in canonical form.
Rules == {sanirule[w] : w \in Words} \ {Invalid}

stdin(b) == b.symmetry \in StdinSymmetries

-----------------------------------------------------------------------------
(* run_apgluxe up to its main loop.                                        *)

DefaultOpts(b) ==
  [f \in NumberFlags |->
     CASE f = "-n" -> IF stdin(b) THEN StdinHaul ELSE IF b.gpu THEN GpuHaul ELSE DefaultHaul
       [] f = "-v" -> IF stdin(b) THEN 0 ELSE -1
       [] f = "-L" -> IF stdin(b) THEN 1 ELSE 0
       [] f = "-u" -> 8192
       [] f \in {"-i", "-t", "-p"} -> 0]

DefaultNames == [f \in WordFlags |-> IF f = "-k" THEN "#anon" ELSE "original seed"]

\* The executable starts.
Started(words, b) ==
  /\ cmd' = words /\ build' = b
  /\ stage' = "parse" /\ arg' = 1
  /\ opts' = DefaultOpts(b) /\ names' = DefaultNames
  /\ nullargs' = 1 /\ consumed' = {}

\* argv[i] with the word after it.
Parsing(flags) == stage = "parse" /\ arg < Len(cmd) /\ cmd[arg] \in flags

\* -t with a number other than 0 asks for one search.
SetNumber ==
  /\ Parsing(NumberFlags)
  /\ LET f == cmd[arg]  x == atoi[cmd[arg + 1]] IN
       opts' = IF f = "-t" /\ x # 0 THEN [opts EXCEPT ![f] = 1, !["-i"] = 1]
               ELSE [opts EXCEPT ![f] = x]
  /\ arg' = arg + 1
  /\ UNCHANGED <<typed, cmd, build, stage, names, nullargs, consumed, rebuilds>>

SetName ==
  /\ Parsing(WordFlags)
  /\ names' = [names EXCEPT ![cmd[arg]] = cmd[arg + 1]]
  /\ arg' = arg + 1
  /\ UNCHANGED <<typed, cmd, build, stage, opts, nullargs, consumed, rebuilds>>

SkipWord ==
  /\ Parsing(Words \ (Flags \cup Configurable))
  /\ arg' = arg + 1
  /\ UNCHANGED <<typed, cmd, build, stage, opts, names, nullargs, consumed, rebuilds>>

Configured(f) == IF f = "--rule" THEN build.rule ELSE build.symmetry

\* Only the first --rule and the first --symmetry are looked at.
Accept ==
  /\ Parsing(Configurable)
  /\ cmd[arg] \in consumed \/ cmd[arg + 1] = Configured(cmd[arg])
  /\ nullargs' = nullargs + 1
  /\ consumed' = consumed \cup {cmd[arg]}
  /\ arg' = arg + 1
  /\ UNCHANGED <<typed, cmd, build, stage, opts, names, rebuilds>>

\* execvp of immediate.sh, which adds a word.
Exec ==
  /\ Parsing(Configurable)
  /\ cmd[arg] \notin consumed /\ cmd[arg + 1] # Configured(cmd[arg])
  /\ cmd' = Append(cmd, "--immediate")
  /\ stage' = "script"
  /\ UNCHANGED <<typed, build, arg, opts, names, nullargs, consumed, rebuilds>>

EndParsing ==
  /\ stage = "parse" /\ arg >= Len(cmd)
  /\ stage' = "count"
  /\ nullargs' = nullargs + Cardinality({j \in 1 .. Len(cmd) : cmd[j] \in DoubleDashed})
  /\ UNCHANGED <<typed, cmd, build, arg, opts, names, consumed, rebuilds>>

\* A command line that only configures the program ends here; one without any
\* word makes it ask.
CountWords ==
  /\ stage = "count"
  /\ stage' = IF Len(cmd) > 0 /\ nullargs = Len(cmd) + 1 THEN "exit" ELSE "settle"
  /\ IF cmd = <<>>
     THEN \E n, p \in Prompted, k \in PromptedKeys :
            /\ opts' = [opts EXCEPT !["-n"] = IF n < LeastPrompted THEN LeastPrompted ELSE n,
                                    !["-p"] = p]
            /\ names' = [names EXCEPT !["-k"] = k]
     ELSE UNCHANGED <<opts, names>>
  /\ UNCHANGED <<typed, cmd, build, arg, nullargs, consumed, rebuilds>>

\* STDIN_SYM has no threads; a GPU search without a number has eight.
CpuThreads(b, x) == IF stdin(b) /\ x > 0 THEN 0 ELSE x
Threads(b, x) == IF b.gpu /\ CpuThreads(b, x) = 0 THEN 8 ELSE CpuThreads(b, x)

Reviews(b, v, p) ==
  IF v >= 0 THEN v ELSE IF CpuThreads(b, p) <= HpcThreads THEN DefaultReviews ELSE 0

\* At most MaxHaul, and whole epochs for a GPU.
HaulSize(b, n) ==
  LET m == IF n > MaxHaul THEN MaxHaul ELSE n IN
  IF b.gpu /\ m % GpuEpoch # 0 THEN m - (m % GpuEpoch) + GpuEpoch ELSE m

Settle ==
  /\ stage = "settle"
  /\ IF opts["-u"] \notin {4096, 8192} \/ opts["-n"] <= 0
     THEN stage' = "exit" /\ opts' = opts
     ELSE /\ stage' = "ready"
          /\ opts' = [opts EXCEPT !["-n"] = HaulSize(build, @),
                                  !["-v"] = Reviews(build, @, opts["-p"]),
                                  !["-p"] = Threads(build, @)]
  /\ UNCHANGED <<typed, cmd, build, arg, names, nullargs, consumed, rebuilds>>

-----------------------------------------------------------------------------
(* recompile.sh and mkparams.py.                                           *)

\* Where a flag stands with a word after it.
Flagged(f) == {j \in 1 .. Len(cmd) - 1 : cmd[j] = f}
Again(f) == {j \in Flagged(f) : \E k \in Flagged(f) : k < j}

Earliest(places) == CHOOSE j \in places : \A k \in places : j <= k
Latest(places) == CHOOSE j \in places : \A k \in places : k <= j

\* The word after the first f (grep -o), or a default.
After(f, default) == IF Flagged(f) = {} THEN default ELSE cmd[1 + Earliest(Flagged(f))]

Typed(w) == \E j \in 1 .. Len(cmd) : cmd[j] = w

\* The second of the words mkparams.py is given, which are those after every
\* --rule and then those after every --symmetry: a second rule takes the place
\* of the symmetry.
SymmetryParameter ==
  IF Again("--rule") = {} THEN After("--symmetry", "C1")
  ELSE cmd[1 + Earliest(Again("--rule"))]

ForGpu == Typed("--cuda") \/ After("--symmetry", "C1") \in GpuSymmetries

\* What the executable will be built for.  Any word more than two hides from
\* mkparams.py that it is for a GPU.
Built ==
  LET gpu == ForGpu /\ Again("--rule") = {} /\ Again("--symmetry") = {}
      s == SymmetryParameter
  IN [rule |-> sanirule[After("--rule", "b3s23")],
      symmetry |-> IF gpu THEN gpuForm[s] ELSE s, gpu |-> gpu]

\* Slips: the script loses the first word; it puts its own words last.
RelaunchedShifted(b, words) ==
  <<"--rule", b.rule, "--symmetry", b.symmetry>> \o SubSeq(words, 2, Len(words))
RelaunchedAfter(b, words) ==
  words \o <<"--rule", b.rule, "--symmetry", b.symmetry>>

\* ./apgluxe --rule $rulearg --symmetry $symmarg "$@"
Relaunched(b, words) ==
  <<"--rule", b.rule, "--symmetry", b.symmetry>> \o words

\* The build succeeds and the new executable starts, unless it is for Windows;
\* without --immediate its only words are the rule and the symmetry.
Rebuild ==
  /\ stage = "script" /\ Built.rule \in Rules /\ Built.symmetry \in Symmetries
  /\ ~Typed("--mingw")
  /\ Started(Relaunched(Built, IF Typed("--immediate") THEN cmd ELSE <<>>), Built)
  /\ rebuilds' = rebuilds + 1
  /\ UNCHANGED typed

\* The script is not there, the parameters are wrong or the build fails; or it
\* was a build for Windows.
GiveUp ==
  /\ stage = "script"
  /\ stage' = "exit"
  /\ UNCHANGED <<typed, cmd, build, arg, opts, names, nullargs, consumed, rebuilds>>

-----------------------------------------------------------------------------
LaunchInit ==
  /\ \E c \in CommandLines :
       /\ typed = c.words /\ cmd = c.words /\ build = c.build
       /\ stage = IF c.entry = "apgluxe" THEN "parse" ELSE "script"
       /\ opts = DefaultOpts(c.build)
  /\ arg = 1 /\ names = DefaultNames
  /\ nullargs = 1 /\ consumed = {} /\ rebuilds = 0

LaunchNext == SetNumber \/ SetName \/ SkipWord \/ Accept \/ Exec \/ EndParsing
              \/ CountWords \/ Settle \/ Rebuild \/ GiveUp

LaunchTypeOK ==
  /\ typed \in Seq(Words) /\ cmd \in Seq(Words) /\ build \in Builds
  /\ stage \in Stages /\ arg \in Nat \ {0}
  /\ opts \in [NumberFlags -> Int] /\ names \in [WordFlags -> Words]
  /\ nullargs \in Nat /\ consumed \subseteq Configurable
  /\ rebuilds \in Nat

-----------------------------------------------------------------------------
(* The options of a run are those the user typed, however it came about.   *)

Places(f) == {j \in 1 .. Len(typed) - 1 : typed[j] = f}

\* The word after the last f, or after the first.
LastOf(f) == typed[1 + Latest(Places(f))]
FirstOf(f) == typed[1 + Earliest(Places(f))]

Asked(f) == IF Places(f) = {} THEN DefaultOpts(build)[f] ELSE atoi[LastOf(f)]

\* A -t that asks for one search and no later -i.
OneSearch == \E j \in Places("-t") : /\ atoi[typed[j + 1]] # 0
                                     /\ \A k \in Places("-i") : k < j

\* No option without its value at the end (the word a script adds there would
\* become its value).
Complete == typed # <<>> /\ typed[Len(typed)] \notin Flags

\* No rule has the name of a symmetry (a second rule with such a name would be
\* built for in the place of the symmetry).
RulesApart == \A j \in Places("--rule") : typed[j + 1] \notin Symmetries

\* A run that reaches the search has the rule and the symmetry it was asked
\* for, in their canonical forms, and of each option what was typed last, though
\* a script may have read the words, built another executable and passed
\* them on.  (What is asked for interactively is not typed before.)
RunsAsAsked ==
  stage = "ready" /\ Complete /\ RulesApart =>
    /\ Places("--rule") # {} => build.rule \in {FirstOf("--rule"), sanirule[FirstOf("--rule")]}
    /\ Places("--symmetry") # {} =>
         build.symmetry \in {FirstOf("--symmetry"), gpuForm[FirstOf("--symmetry")]}
    /\ \A f \in WordFlags :
         names[f] = IF Places(f) = {} THEN DefaultNames[f] ELSE LastOf(f)
    /\ opts["-L"] = Asked("-L") /\ opts["-u"] = Asked("-u")
    /\ (opts["-t"] # 0) = (Asked("-t") # 0)
    /\ opts["-i"] = IF OneSearch THEN 1 ELSE Asked("-i")
    /\ opts["-n"] = HaulSize(build, Asked("-n"))
    /\ opts["-p"] = Threads(build, Asked("-p"))
    /\ opts["-v"] = Reviews(build, Asked("-v"), Asked("-p"))

\* The program that a script has built finds itself to be what was asked for:
\* program and script do not call each other for ever.
RebuiltOnce == rebuilds <= 1 /\ (rebuilds = 1 => stage # "script")

\* What the search relies on: a haul of at least one soup and of whole epochs
\* for a GPU, a number of reviews, and threads where there must be some.
ReadyToSearch ==
  stage = "ready" =>
    /\ opts["-n"] \in 1 .. MaxHaul /\ opts["-v"] \in Nat
    /\ build.gpu => opts["-n"] % GpuEpoch = 0 /\ opts["-p"] # 0
    /\ stdin(build) /\ ~build.gpu => opts["-p"] <= 0
=============================================================================
