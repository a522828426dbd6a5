--------------------------- MODULE Launch_proofs ---------------------------
(* Lemmas about Launch, for every command line and every build: they speak *)
(* of its steps, and Session_proofs of its behaviours.                     *)
EXTENDS Launch, FiniteSetTheorems, SequenceTheorems, WellFoundedInduction, TLAPS

\* The words a script puts first, and that they have been met once the loop is
\* past them.
OwnWordsFirst ==
  rebuilds = 1 =>
    /\ Len(cmd) >= 4
    /\ cmd[1] = "--rule" /\ cmd[2] = build.rule
    /\ cmd[3] = "--symmetry" /\ cmd[4] = build.symmetry
    /\ {build.rule, build.symmetry} \cap (Flags \cup DoubleDashed) = {}
    /\ arg > 1 => "--rule" \in consumed
    /\ arg > 3 => "--symmetry" \in consumed

LaunchInv == LaunchTypeOK /\ RebuiltOnce /\ OwnWordsFirst /\ ReadyToSearch

\* A fresh start has options of their types.
LEMMA DefaultsTyped ==
  ASSUME NEW b PROVE DefaultOpts(b) \in [NumberFlags -> Int]
<1> DEFINE haul == IF stdin(b) THEN StdinHaul ELSE IF b.gpu THEN GpuHaul ELSE DefaultHaul
           Given(f) == CASE f = "-n" -> haul
                         [] f = "-v" -> IF stdin(b) THEN 0 ELSE -1
                         [] f = "-L" -> IF stdin(b) THEN 1 ELSE 0
                         [] f = "-u" -> 8192
                         [] f \in {"-i", "-t", "-p"} -> 0
<1>1. DefaultOpts(b) = [f \in NumberFlags |-> Given(f)]
  BY DEF DefaultOpts
<1>2. haul \in Int
  BY SizesAssumption
<1> HIDE DEF haul
<1>3. /\ Given("-n") \in Int /\ Given("-v") \in Int /\ Given("-L") \in Int
      /\ Given("-u") \in Int
  BY <1>2
<1>4. Given("-i") \in Int /\ Given("-t") \in Int /\ Given("-p") \in Int
  OBVIOUS
<1> HIDE DEF Given
<1>5. \A f \in NumberFlags : Given(f) \in Int
  BY <1>3, <1>4 DEF NumberFlags
<1> QED BY <1>1, <1>5

LEMMA DefaultNamesTyped == DefaultNames \in [WordFlags -> Words]
  BY WordsAssumption DEF DefaultNames, WordFlags

\* The invariant holds at the start.
LEMMA LaunchInitInv == LaunchInit => LaunchInv
<1> SUFFICES ASSUME LaunchInit PROVE LaunchInv
  OBVIOUS
<1>1. PICK c \in CommandLines :
        /\ typed = c.words /\ cmd = c.words /\ build = c.build
        /\ stage = IF c.entry = "apgluxe" THEN "parse" ELSE "script"
        /\ opts = DefaultOpts(c.build)
  BY DEF LaunchInit
<1>2. /\ arg = 1 /\ names = DefaultNames
      /\ nullargs = 1 /\ consumed = {} /\ rebuilds = 0
  BY DEF LaunchInit
<1>3. LaunchTypeOK
  BY <1>1, <1>2, LaunchAssumption, DefaultsTyped, DefaultNamesTyped
     DEF LaunchTypeOK, Stages
<1> QED BY <1>1, <1>2, <1>3 DEF LaunchInv, RebuiltOnce, OwnWordsFirst, ReadyToSearch

\* What the script starts is the executable for the parameters it was given,
\* with its own words first.
LEMMA RelaunchedWords ==
  ASSUME NEW b \in Builds, NEW words \in Seq(Words)
  PROVE  LET r == Relaunched(b, words) IN
         /\ r \in Seq(Words) /\ Len(r) >= 4
         /\ r[1] = "--rule" /\ r[2] = b.rule
         /\ r[3] = "--symmetry" /\ r[4] = b.symmetry
<1> DEFINE own == <<"--rule", b.rule, "--symmetry", b.symmetry>>
<1>1. "--rule" \in Words /\ "--symmetry" \in Words
  BY WordsAssumption DEF Configurable
<1>2. b.rule \in Words /\ b.symmetry \in Words
  BY DEF Builds
<1>3. own \in Seq(Words) /\ Len(own) = 4
  BY <1>1, <1>2
<1>4. own \o words \in Seq(Words) /\ Len(own \o words) = 4 + Len(words) /\ Len(words) \in Nat
  BY <1>3
<1>5. \A j \in 1 .. 4 : (own \o words)[j] = own[j]
  BY <1>3
<1> QED BY <1>4, <1>5 DEF Relaunched

\* A haul is at least one soup, at most the maximum, and of whole epochs.
LEMMA HaulSizeBounds ==
  ASSUME NEW b, NEW n \in Int, n > 0
  PROVE  /\ HaulSize(b, n) \in 1 .. MaxHaul
         /\ b.gpu => HaulSize(b, n) % GpuEpoch = 0
<1> DEFINE m == IF n > MaxHaul THEN MaxHaul ELSE n
           E == GpuEpoch
           k == m \div E
           l == MaxHaul \div E
<1>0. MaxHaul \in Nat \ {0} /\ E \in Nat \ {0} /\ MaxHaul % E = 0
  BY SizesAssumption
<1>1. m \in 1 .. MaxHaul
  BY <1>0
<1>2. CASE ~b.gpu \/ m % E = 0
  BY <1>1, <1>2 DEF HaulSize
<1>3. CASE b.gpu /\ m % E # 0
  <2> HIDE DEF m, E, k, l
  <2>1. m = E * k + (m % E) /\ m % E \in 0 .. E - 1 /\ k \in Int
    <3>1. E \in Int /\ E > 0 /\ m \in Int
      BY <1>0, <1>1
    <3> QED BY <3>1 DEF k
  <2>2. MaxHaul = E * l /\ l \in Int
    BY <1>0 DEF l
  <2>3. m % E > 0 /\ E * k < E * l
    BY <1>0, <1>1, <1>3, <2>1, <2>2
  <2>4. k < l
    <3> SUFFICES ASSUME l <= k PROVE FALSE
      BY <2>1, <2>2
    <3>1. E * l <= E * k
      BY <1>0, <2>1, <2>2
    <3> QED BY <1>0, <2>1, <2>2, <2>3, <3>1
  <2>5. E * (k + 1) <= E * l
    BY <1>0, <2>1, <2>2, <2>4
  <2>6. HaulSize(b, n) = m - (m % E) + E
    BY <1>3 DEF HaulSize, m, E
  <2>7. HaulSize(b, n) = E * (k + 1)
    BY <1>0, <2>1, <2>6
  <2>8. k >= 0
    BY <1>0, <1>1 DEF k
  <2>9. E * (k + 1) >= 1
    BY <1>0, <2>1, <2>8
  <2>10. (E * (k + 1)) % E = 0
    BY <1>0, <2>1
  <2>11. E * (k + 1) \in Int
    BY <1>0, <2>1
  <2> QED BY <1>0, <2>2, <2>5, <2>7, <2>9, <2>10, <2>11 DEF E
<1> QED BY <1>2, <1>3

\* Options of their types stay so while a word is read, and nothing else does
\* harm to the invariant.
LEMMA ParsingInv ==
  ASSUME LaunchInv, SetNumber \/ SetName \/ SkipWord \/ Accept
  PROVE  LaunchInv'
<1> USE DEF LaunchInv
<1>1. /\ UNCHANGED <<typed, cmd, build, stage, rebuilds>>
      /\ stage = "parse" /\ arg' = arg + 1 /\ arg < Len(cmd)
      /\ consumed \subseteq consumed'
      /\ cmd[arg] \in Configurable => consumed' = consumed \cup {cmd[arg]}
  BY DEF SetNumber, SetName, SkipWord, Accept, Parsing, NumberFlags, WordFlags, Configurable
<1>2. cmd[arg] \in Words /\ cmd[arg + 1] \in Words
  BY <1>1 DEF LaunchTypeOK
<1>3. opts' \in [NumberFlags -> Int]
  <2>1. CASE SetNumber
    <3> DEFINE f == cmd[arg]  x == atoi[cmd[arg + 1]]
    <3>1. x \in Int
      BY <1>2, WordsAssumption
    <3>2. opts' = [opts EXCEPT ![f] = 1, !["-i"] = 1] \/ opts' = [opts EXCEPT ![f] = x]
      BY <2>1 DEF SetNumber
    <3> HIDE DEF f, x
    <3> QED BY <3>1, <3>2 DEF LaunchTypeOK
  <2>2. CASE SetName \/ SkipWord \/ Accept
    BY <2>2 DEF SetName, SkipWord, Accept, LaunchTypeOK
  <2> QED BY <2>1, <2>2
<1>4. names' \in [WordFlags -> Words]
  BY <1>2 DEF SetNumber, SetName, SkipWord, Accept, LaunchTypeOK
<1>5. nullargs' \in Nat /\ consumed' \subseteq Configurable
  BY DEF SetNumber, SetName, SkipWord, Accept, Parsing, LaunchTypeOK
<1>6. LaunchTypeOK'
  BY <1>1, <1>3, <1>4, <1>5 DEF LaunchTypeOK
<1>7. OwnWordsFirst'
  <2> SUFFICES ASSUME rebuilds = 1
               PROVE  /\ arg + 1 > 1 => "--rule" \in consumed'
                      /\ arg + 1 > 3 => "--symmetry" \in consumed'
    BY <1>1 DEF OwnWordsFirst
  <2>1. arg \in Nat \ {0}
    BY DEF LaunchTypeOK
  <2>2. "--rule" \in consumed'
    <3>1. CASE arg = 1
      BY <1>1, <3>1 DEF OwnWordsFirst, Configurable
    <3>2. CASE arg > 1
      BY <1>1, <3>2 DEF OwnWordsFirst
    <3> QED BY <2>1, <3>1, <3>2
  <2>3. arg + 1 > 3 => "--symmetry" \in consumed'
    <3>1. CASE arg = 3
      BY <1>1, <3>1 DEF OwnWordsFirst, Configurable
    <3>2. CASE arg > 3
      BY <1>1, <3>2 DEF OwnWordsFirst
    <3> QED BY <2>1, <3>1, <3>2
  <2> QED BY <2>2, <2>3
<1> QED BY <1>1, <1>6, <1>7 DEF RebuiltOnce, ReadyToSearch

\* An executable that a script has built does not call the script.
LEMMA NoSecondScript == ASSUME LaunchInv, Exec PROVE rebuilds = 0
<1> SUFFICES ASSUME rebuilds = 1 PROVE FALSE
  BY DEF LaunchInv, LaunchTypeOK, RebuiltOnce
<1>1. OwnWordsFirst /\ arg \in Nat \ {0}
  BY DEF LaunchInv, LaunchTypeOK
<1>2. /\ cmd[arg] \in Configurable /\ cmd[arg] \notin consumed
      /\ cmd[arg + 1] # Configured(cmd[arg])
  BY DEF Exec, Parsing
<1>3. CASE arg = 1
  BY <1>1, <1>2, <1>3 DEF OwnWordsFirst, Configured
<1>4. CASE arg = 2
  BY <1>1, <1>2, <1>4, WordsAssumption DEF OwnWordsFirst
<1>5. CASE arg = 3
  <2>1. cmd[3] = "--symmetry" /\ cmd[4] = build.symmetry
    BY <1>1 DEF OwnWordsFirst
  <2>2. arg + 1 = 4 /\ Configured("--symmetry") = build.symmetry
    BY <1>5 DEF Configured
  <2> QED BY <1>2, <1>5, <2>1, <2>2, Zenon
<1>6. CASE arg > 3
  BY <1>1, <1>2, <1>6 DEF OwnWordsFirst, Configurable
<1> QED BY <1>1, <1>3, <1>4, <1>5, <1>6

\* Every step of a launch keeps the invariant.
LEMMA LaunchNextInv ==
  ASSUME LaunchInv, LaunchNext PROVE LaunchInv'
<1>0. LaunchTypeOK /\ RebuiltOnce /\ OwnWordsFirst /\ ReadyToSearch
  BY DEF LaunchInv
<1>1. CASE SetNumber \/ SetName \/ SkipWord \/ Accept
  BY <1>1, ParsingInv
<1>2. CASE Exec
  <2>1. rebuilds = 0
    BY <1>2, NoSecondScript
  <2>2. cmd' \in Seq(Words)
    <3>1. "--immediate" \in Words
      BY WordsAssumption
    <3> QED BY <1>0, <1>2, <3>1 DEF Exec, LaunchTypeOK
  <2>3. /\ UNCHANGED <<typed, build, arg, opts, names, nullargs, consumed, rebuilds>>
        /\ stage' = "script"
    BY <1>2 DEF Exec
  <2> QED BY <1>0, <2>1, <2>2, <2>3
          DEF LaunchInv, LaunchTypeOK, RebuiltOnce, OwnWordsFirst, ReadyToSearch, Stages
<1>3. CASE EndParsing \/ GiveUp
  <2>1. /\ UNCHANGED <<typed, cmd, build, arg, opts, names, consumed, rebuilds>>
        /\ stage' \in {"count", "exit"} /\ nullargs' \in Nat
    <3>1. CASE GiveUp
      BY <1>0, <3>1 DEF GiveUp, LaunchTypeOK
    <3>2. CASE EndParsing
      <4>1. IsFiniteSet({j \in 1 .. Len(cmd) : cmd[j] \in DoubleDashed})
        <5>1. Len(cmd) \in Nat
          BY <1>0 DEF LaunchTypeOK
        <5>2. IsFiniteSet(1 .. Len(cmd))
          BY <5>1, FS_Interval
        <5> QED BY <5>2, FS_Subset
      <4>2. Cardinality({j \in 1 .. Len(cmd) : cmd[j] \in DoubleDashed}) \in Nat
        BY <4>1, FS_CardinalityType
      <4> QED BY <1>0, <3>2, <4>2 DEF EndParsing, LaunchTypeOK
    <3> QED BY <1>3, <3>1, <3>2
  <2> QED BY <1>0, <2>1
          DEF LaunchInv, LaunchTypeOK, RebuiltOnce, OwnWordsFirst, ReadyToSearch, Stages
<1>4. CASE CountWords
  <2>1. /\ UNCHANGED <<typed, cmd, build, arg, nullargs, consumed, rebuilds>>
        /\ stage' \in {"exit", "settle"}
    BY <1>4 DEF CountWords
  <2>2. opts' \in [NumberFlags -> Int] /\ names' \in [WordFlags -> Words]
    <3>1. CASE cmd = <<>>
      <4>1. PICK n \in Prompted, p \in Prompted, k \in PromptedKeys :
              /\ opts' = [opts EXCEPT !["-n"] = IF n < LeastPrompted THEN LeastPrompted ELSE n,
                                      !["-p"] = p]
              /\ names' = [names EXCEPT !["-k"] = k]
        BY <1>4, <3>1 DEF CountWords
      <4>2. n \in Int /\ p \in Int /\ k \in Words /\ LeastPrompted \in Int
        BY SizesAssumption
      <4> QED BY <1>0, <4>1, <4>2 DEF LaunchTypeOK
    <3>2. CASE cmd # <<>>
      BY <1>0, <1>4, <3>2 DEF CountWords, LaunchTypeOK
    <3> QED BY <3>1, <3>2
  <2> QED BY <1>0, <2>1, <2>2
          DEF LaunchInv, LaunchTypeOK, RebuiltOnce, OwnWordsFirst, ReadyToSearch, Stages
<1>5. CASE Settle
  <2>1. UNCHANGED <<typed, cmd, build, arg, names, nullargs, consumed, rebuilds>>
    BY <1>5 DEF Settle
  <2>2. CASE stage' = "exit" /\ opts' = opts
    BY <1>0, <2>1, <2>2
       DEF LaunchInv, LaunchTypeOK, RebuiltOnce, OwnWordsFirst, ReadyToSearch, Stages
  <2>3. CASE /\ opts["-n"] > 0 /\ stage' = "ready"
             /\ opts' = [opts EXCEPT !["-n"] = HaulSize(build, @),
                                     !["-v"] = Reviews(build, @, opts["-p"]),
                                     !["-p"] = Threads(build, @)]
    <3>1. opts["-n"] \in Int /\ opts["-v"] \in Int /\ opts["-p"] \in Int
      BY <1>0 DEF LaunchTypeOK, NumberFlags
    <3>2. /\ HaulSize(build, opts["-n"]) \in 1 .. MaxHaul
          /\ build.gpu => HaulSize(build, opts["-n"]) % GpuEpoch = 0
      BY <2>3, <3>1, HaulSizeBounds
    <3>3. Reviews(build, opts["-v"], opts["-p"]) \in Nat
      BY <3>1, SizesAssumption DEF Reviews
    <3>4. /\ Threads(build, opts["-p"]) \in Int
          /\ build.gpu => Threads(build, opts["-p"]) # 0
          /\ stdin(build) /\ ~build.gpu => Threads(build, opts["-p"]) <= 0
      BY <3>1 DEF Threads, CpuThreads
    <3>5. /\ opts'["-n"] = HaulSize(build, opts["-n"])
          /\ opts'["-v"] = Reviews(build, opts["-v"], opts["-p"])
          /\ opts'["-p"] = Threads(build, opts["-p"])
      BY <1>0, <2>3 DEF LaunchTypeOK, NumberFlags
    <3>6. MaxHaul \in Nat
      BY SizesAssumption
    <3>7. opts' \in [NumberFlags -> Int]
      <4> DEFINE n == HaulSize(build, opts["-n"])
                 v == Reviews(build, opts["-v"], opts["-p"])
                 p == Threads(build, opts["-p"])
      <4>1. n \in Int /\ v \in Int /\ p \in Int
        BY <3>2, <3>3, <3>4, <3>6
      <4>2. opts' = [opts EXCEPT !["-n"] = n, !["-v"] = v, !["-p"] = p]
        BY <1>0, <2>3 DEF LaunchTypeOK
      <4> HIDE DEF n, v, p
      <4> QED BY <1>0, <4>1, <4>2 DEF LaunchTypeOK
    <3>8. LaunchTypeOK'
      BY <1>0, <2>1, <2>3, <3>7 DEF LaunchTypeOK, Stages
    <3>9. ReadyToSearch'
      BY <2>1, <3>2, <3>3, <3>4, <3>5 DEF ReadyToSearch, stdin
    <3> QED BY <1>0, <2>1, <2>3, <3>8, <3>9 DEF LaunchInv, RebuiltOnce, OwnWordsFirst
  <2> QED
    <3>1. opts["-n"] \in Int
      BY <1>0 DEF LaunchTypeOK, NumberFlags
    <3> QED BY <1>5, <2>2, <2>3, <3>1 DEF Settle
<1>6. CASE Rebuild
  <2> DEFINE words == IF Typed("--immediate") THEN cmd ELSE <<>>
  <2>1. /\ stage = "script" /\ Built.rule \in Rules /\ Built.symmetry \in Symmetries
        /\ Started(Relaunched(Built, words), Built)
        /\ rebuilds' = rebuilds + 1 /\ typed' = typed
    BY <1>6 DEF Rebuild
  <2>2. Built.rule \in Words /\ {Built.rule, Built.symmetry} \cap (Flags \cup DoubleDashed) = {}
    BY <2>1, LifelibAssumption DEF Rules
  <2>3. Built \in Builds
    <3>1. Built.symmetry \in Words
      BY <2>1, LifelibAssumption
    <3>2. Built.gpu \in BOOLEAN
      BY DEF Built
    <3>3. Built = [rule |-> Built.rule, symmetry |-> Built.symmetry, gpu |-> Built.gpu]
      BY DEF Built
    <3> HIDE DEF Built
    <3> QED BY <2>2, <3>1, <3>2, <3>3 DEF Builds
  <2>4. rebuilds = 0
    BY <1>0, <2>1 DEF RebuiltOnce, LaunchTypeOK
  <2>5. words \in Seq(Words)
    BY <1>0 DEF LaunchTypeOK
  <2> DEFINE r == Relaunched(Built, words)
  <2>6. /\ r \in Seq(Words) /\ Len(r) >= 4
        /\ r[1] = "--rule" /\ r[2] = Built.rule
        /\ r[3] = "--symmetry" /\ r[4] = Built.symmetry
    BY <2>3, <2>5, RelaunchedWords
  <2>7. /\ cmd' = r /\ build' = Built /\ stage' = "parse" /\ arg' = 1
        /\ opts' = DefaultOpts(Built) /\ names' = DefaultNames
        /\ nullargs' = 1 /\ consumed' = {} /\ rebuilds' = 1 /\ typed' = typed
    BY <2>1, <2>4 DEF Started
  <2> HIDE DEF r, words
  <2>8. LaunchTypeOK'
    BY <1>0, <2>3, <2>6, <2>7, DefaultsTyped, DefaultNamesTyped DEF LaunchTypeOK, Stages
  <2>9. OwnWordsFirst'
    BY <2>2, <2>6, <2>7 DEF OwnWordsFirst
  <2> QED BY <2>7, <2>8, <2>9 DEF LaunchInv, RebuiltOnce, ReadyToSearch
<1> QED BY <1>1, <1>2, <1>3, <1>4, <1>5, <1>6 DEF LaunchNext

-----------------------------------------------------------------------------
(* The first and the last of some places.                                  *)

LEMMA LatestIs ==
  ASSUME NEW S \in SUBSET Int, NEW j \in S, \A k \in S : k <= j
  PROVE  Latest(S) = j
<1>1. Latest(S) \in S /\ \A k \in S : k <= Latest(S)
  BY DEF Latest
<1>2. Latest(S) <= j /\ j <= Latest(S) /\ Latest(S) \in Int /\ j \in Int
  BY <1>1
<1> QED BY <1>2

LEMMA EarliestIs ==
  ASSUME NEW S \in SUBSET Int, NEW j \in S, \A k \in S : j <= k
  PROVE  Earliest(S) = j
<1>1. Earliest(S) \in S /\ \A k \in S : Earliest(S) <= k
  BY DEF Earliest
<1>2. Earliest(S) <= j /\ j <= Earliest(S) /\ Earliest(S) \in Int /\ j \in Int
  BY <1>1
<1> QED BY <1>2

LEMMA EarliestExists ==
  ASSUME NEW S \in SUBSET Nat, S # {}
  PROVE  Earliest(S) \in S /\ \A k \in S : Earliest(S) <= k
<1> DEFINE LessThan == {ss \in Nat \X Nat : ss[1] < ss[2]}
<1>1. IsWellFoundedOn(LessThan, Nat)
  BY NatLessThanWellFounded DEF OpToRel
<1>2. \A m, n \in Nat : m < n => <<m, n>> \in LessThan
  OBVIOUS
<1> HIDE DEF LessThan
<1>3. PICK x \in S : \A y \in S : <<y, x>> \notin LessThan
  BY <1>1, WFMin, Zenon
<1>4. x \in Nat /\ \A y \in S : y \in Nat
  OBVIOUS
<1>5. \A y \in S : x <= y
  <2>1. TAKE y \in S
  <2>2. ~(y < x)
    BY <1>2, <1>3, <1>4
  <2> QED BY <1>4, <2>2
<1> QED BY <1>5 DEF Earliest

-----------------------------------------------------------------------------
(* What has been read of the words the user typed.                         *)

\* The number of words a script has put before them.
Own == IF rebuilds = 1 THEN 4 ELSE 0

\* The places of a flag that the loop over argv is past.
Met(f) == {j \in Places(f) : j + Own < arg}

LastMet(f) == typed[1 + Latest(Met(f))]
Read(f) == IF Met(f) = {} THEN DefaultOpts(build)[f] ELSE atoi[LastMet(f)]
OneSeen == \E j \in Met("-t") : /\ atoi[typed[j + 1]] # 0
                                /\ \A k \in Met("-i") : k < j

Reading == stage \in {"parse", "count", "settle"}

\* The words typed are there, after those of the script and before the one
\* that a call of the script adds.
Passed ==
  /\ Len(cmd) \in {Own + Len(typed), Own + Len(typed) + 1}
  /\ \A j \in 1 .. Len(typed) : cmd[Own + j] = typed[j]
  /\ Len(cmd) = Own + Len(typed) + 1 => cmd[Len(cmd)] = "--immediate"
  /\ rebuilds = 0 /\ Reading => Len(cmd) = Len(typed)

\* The script was not told to go on: its own words ask for no search.
Bare ==
  /\ rebuilds = 1 /\ Len(cmd) = 4
  /\ stage \in {"parse", "count", "exit"}
  /\ stage = "parse" => nullargs = 1 + (IF arg > 1 THEN 1 ELSE 0) + (IF arg > 3 THEN 1 ELSE 0)
  /\ stage = "count" => nullargs = 5

\* The options are those of the words read, so far.
OptionsRead ==
  /\ \A f \in NumberFlags \ {"-i", "-t"} : opts[f] = Read(f)
  /\ opts["-t"] # 0 <=> Read("-t") # 0
  /\ opts["-i"] = IF OneSeen THEN 1 ELSE Read("-i")
  /\ \A f \in WordFlags : names[f] = IF Met(f) = {} THEN DefaultNames[f] ELSE LastMet(f)

\* The executable was built for the rule and the symmetry that come first, or
\* was found to be when they were met.
BuildAsked ==
  IF rebuilds = 1
  THEN /\ Places("--rule") # {} => build.rule = sanirule[FirstOf("--rule")]
       /\ Places("--symmetry") # {} =>
            build.symmetry \in {FirstOf("--symmetry"), gpuForm[FirstOf("--symmetry")]}
  ELSE Reading => \A f \in Configurable :
         IF f \in consumed THEN FirstOf(f) = Configured(f) ELSE Met(f) = {}

AsTyped ==
  Complete /\ RulesApart =>
    /\ Bare \/ (Passed /\ (Reading => OptionsRead))
    /\ BuildAsked
    /\ stage \in {"count", "settle"} => arg >= Len(cmd)

\* The start has read nothing.
LEMMA LaunchInitAsTyped == LaunchInit => AsTyped /\ RunsAsAsked
<1> SUFFICES ASSUME LaunchInit PROVE AsTyped /\ RunsAsAsked
  OBVIOUS
<1>1. PICK c \in CommandLines :
        /\ typed = c.words /\ cmd = c.words /\ build = c.build
        /\ stage = IF c.entry = "apgluxe" THEN "parse" ELSE "script"
        /\ opts = DefaultOpts(c.build)
  BY DEF LaunchInit
<1>2. /\ arg = 1 /\ names = DefaultNames
      /\ nullargs = 1 /\ consumed = {} /\ rebuilds = 0
  BY DEF LaunchInit
<1>3. typed \in Seq(Words)
  BY <1>1, LaunchAssumption
<1>4. Own = 0 /\ \A f : Met(f) = {}
  BY <1>2, <1>3 DEF Own, Met, Places
<1>5. Passed
  BY <1>1, <1>2, <1>3, <1>4 DEF Passed
<1>6. OptionsRead
  BY <1>1, <1>2, <1>4 DEF OptionsRead, Read, OneSeen, NumberFlags, DefaultOpts
<1>7. BuildAsked /\ stage \notin {"count", "settle", "ready"}
  BY <1>1, <1>2, <1>4 DEF BuildAsked
<1> QED BY <1>5, <1>6, <1>7 DEF AsTyped, RunsAsAsked

\* A flag the loop comes upon is one the user typed, with the word after it; it
\* becomes the last of its kind, and the others are as before.
LEMMA WordRead ==
  ASSUME LaunchInv, Complete, Passed, stage = "parse", arg < Len(cmd),
         arg' = arg + 1, UNCHANGED <<typed, cmd, build, rebuilds>>
  PROVE  /\ \A f : f # cmd[arg] => /\ Met(f)' = Met(f) /\ LastMet(f)' = LastMet(f)
                                   /\ Read(f)' = Read(f)
         /\ \A f : f = cmd[arg] /\ (f \in Flags \/ (f \in Configurable /\ rebuilds = 0)) =>
              /\ arg - Own \in Places(f) /\ Met(f)' = Met(f) \cup {arg - Own}
              /\ LastMet(f)' = cmd[arg + 1] /\ typed[arg - Own + 1] = cmd[arg + 1]
<1> DEFINE j == arg - Own
<1>1. /\ arg \in Nat \ {0} /\ Own \in {0, 4} /\ j \in Int
      /\ typed \in Seq(Words) /\ Len(typed) \in Nat /\ cmd \in Seq(Words) /\ Len(cmd) \in Nat
  BY DEF LaunchInv, LaunchTypeOK, Own
<1>2. Own' = Own /\ \A f : Places(f)' = Places(f)
  BY DEF Own, Places
<1>3. \A f : \A k \in Places(f) : k \in 1 .. Len(typed) - 1 /\ typed[k] = f
  BY DEF Places
<1>4. \A f : Met(f)' = Met(f) \cup {k \in Places(f) : k = j}
  <2>1. TAKE f
  <2>2. \A k \in Places(f) : k + Own < arg + 1 <=> k + Own < arg \/ k = j
    BY <1>1, <1>3
  <2> QED BY <1>2, <2>2 DEF Met
<1>5. \A k \in 1 .. Len(typed) : cmd[Own + k] = typed[k]
  BY DEF Passed
<1>6. ASSUME NEW f, f # cmd[arg]
      PROVE  Met(f)' = Met(f) /\ LastMet(f)' = LastMet(f) /\ Read(f)' = Read(f)
  <2>1. j \notin Places(f)
    <3> SUFFICES ASSUME j \in Places(f) PROVE FALSE
      OBVIOUS
    <3>1. j \in 1 .. Len(typed) /\ typed[j] = f
      BY <1>1, <1>3
    <3>2. cmd[Own + j] = f
      BY <1>5, <3>1
    <3>3. Own + j = arg
      BY <1>1
    <3> QED BY <1>6, <3>2, <3>3
  <2>2. Met(f)' = Met(f)
    BY <1>4, <2>1
  <2>3. LastMet(f)' = LastMet(f)
    BY <2>2 DEF LastMet
  <2> QED BY <2>2, <2>3 DEF Read
<1>7. ASSUME NEW f, f = cmd[arg], f \in Flags \/ (f \in Configurable /\ rebuilds = 0)
      PROVE  /\ j \in Places(f) /\ Met(f)' = Met(f) \cup {j}
             /\ LastMet(f)' = cmd[arg + 1] /\ typed[j + 1] = cmd[arg + 1]
  <2>1. j \in 1 .. Len(typed) - 1
    <3>1. CASE rebuilds = 0
      BY <1>1, <3>1 DEF Passed, Own, Reading
    <3>2. CASE rebuilds = 1
      <4>1. arg \notin 1 .. 4
        <5>1. /\ cmd[1] = "--rule" /\ cmd[2] = build.rule
              /\ cmd[3] = "--symmetry" /\ cmd[4] = build.symmetry
              /\ {build.rule, build.symmetry} \cap Flags = {}
          BY <3>2 DEF LaunchInv, OwnWordsFirst
        <5>2. f \in Flags
          BY <1>7, <3>2
        <5>3. cmd[1] \notin Flags /\ cmd[2] \notin Flags /\ cmd[3] \notin Flags /\ cmd[4] \notin Flags
          BY <5>1 DEF Flags, NumberFlags, WordFlags
        <5> QED BY <1>7, <5>2, <5>3
      <4>2. Own = 4 /\ j \in 1 .. Len(typed)
        BY <1>1, <3>2, <4>1 DEF Passed, Own
      <4>3. j # Len(typed)
        <5> SUFFICES ASSUME j = Len(typed) PROVE FALSE
          OBVIOUS
        <5>1. cmd[Own + j] = typed[j] /\ Own + j = arg
          BY <1>1, <1>5, <4>2
        <5> QED BY <1>7, <3>2, <5>1 DEF Complete
      <4> QED BY <1>1, <4>2, <4>3
    <3> QED BY <3>1, <3>2 DEF LaunchInv, LaunchTypeOK, RebuiltOnce
  <2>2. cmd[arg] = typed[j] /\ cmd[arg + 1] = typed[j + 1]
    <3>1. j \in 1 .. Len(typed) /\ j + 1 \in 1 .. Len(typed)
      BY <1>1, <2>1
    <3>2. cmd[Own + j] = typed[j] /\ cmd[Own + (j + 1)] = typed[j + 1]
      BY <1>5, <3>1
    <3>3. Own + j = arg /\ Own + (j + 1) = arg + 1
      BY <1>1
    <3> QED BY <3>2, <3>3
  <2>3. j \in Places(f)
    BY <1>7, <2>1, <2>2 DEF Places
  <2>4. Met(f)' = Met(f) \cup {j}
    BY <1>4, <2>3
  <2>5. \A k \in Met(f) : k \in Int /\ k <= j
    BY <1>1, <1>3 DEF Met
  <2>6. Latest(Met(f) \cup {j}) = j
    <3> DEFINE S == Met(f) \cup {j}
    <3>1. S \in SUBSET Int /\ j \in S /\ \A k \in S : k <= j
      BY <1>1, <2>5
    <3> HIDE DEF S, j
    <3>2. Latest(S) = j
      BY <3>1, LatestIs
    <3> QED BY <3>2 DEF S
  <2>7. LastMet(f)' = typed[j + 1]
    <3>1. LastMet(f)' = typed[1 + Latest(Met(f)')]
      BY DEF LastMet, Latest
    <3>2. 1 + j = j + 1
      BY <1>1
    <3> QED BY <2>4, <2>6, <3>1, <3>2
  <2> QED BY <2>2, <2>3, <2>4, <2>7
<1> QED BY <1>6, <1>7

\* A word read in the loop is accounted for.
LEMMA OptionsReadStep ==
  ASSUME LaunchInv, Complete, Passed, OptionsRead, SetNumber \/ SetName \/ SkipWord \/ Accept
  PROVE  OptionsRead'
<1> DEFINE c == cmd[arg]  w == cmd[arg + 1]  x == atoi[w]  j == arg - Own
<1>1. /\ UNCHANGED <<typed, cmd, build, stage, rebuilds>>
      /\ stage = "parse" /\ arg' = arg + 1 /\ arg < Len(cmd)
  BY DEF SetNumber, SetName, SkipWord, Accept, Parsing
<1>2. \A f : f # c => Met(f)' = Met(f) /\ LastMet(f)' = LastMet(f) /\ Read(f)' = Read(f)
  BY <1>1, WordRead
<1>3. \A f : f = c /\ f \in Flags =>
        /\ j \in Places(f) /\ Met(f)' = Met(f) \cup {j}
        /\ LastMet(f)' = w /\ typed[j + 1] = w
  BY <1>1, WordRead
<1>4. \A f : f = c /\ f \in Flags => Read(f)' = atoi[w]
  BY <1>3 DEF Read
<1>5. /\ opts \in [NumberFlags -> Int] /\ names \in [WordFlags -> Words]
      /\ arg \in Nat \ {0} /\ Own \in {0, 4} /\ j \in Int
  BY DEF LaunchInv, LaunchTypeOK, Own
<1>6. \A f : \A k \in Met(f) : k \in Int /\ k < j
  <2>1. TAKE f
  <2>2. \A k \in Met(f) : k \in Int /\ k + Own < arg
    BY <1>5 DEF Met, Places, LaunchInv, LaunchTypeOK
  <2> QED BY <1>5, <2>2
<1>7. c \notin {"-t", "-i"} => OneSeen' = OneSeen
  BY <1>1, <1>2 DEF OneSeen
<1> HIDE DEF j
<1>8. CASE SetNumber
  <2>1. /\ c \in NumberFlags /\ names' = names
        /\ opts' = IF c = "-t" /\ x # 0 THEN [opts EXCEPT ![c] = 1, !["-i"] = 1]
                   ELSE [opts EXCEPT ![c] = x]
    BY <1>8 DEF SetNumber, Parsing
  <2>2. c \in Flags /\ \A f \in WordFlags : f # c
    BY <2>1 DEF Flags, NumberFlags, WordFlags
  <2>3. \A f \in WordFlags : names'[f] = IF Met(f)' = {} THEN DefaultNames[f] ELSE LastMet(f)'
    BY <1>2, <2>1, <2>2 DEF OptionsRead
  <2>4. \A f \in NumberFlags \ {"-i", "-t"} : opts'[f] = Read(f)'
    <3>1. SUFFICES ASSUME NEW f \in NumberFlags \ {"-i", "-t"} PROVE opts'[f] = Read(f)'
      OBVIOUS
    <3>2. CASE f = c
      BY <1>4, <1>5, <2>1, <2>2, <3>2
    <3>3. CASE f # c
      <4>1. opts'[f] = opts[f]
        BY <1>5, <2>1, <3>3
      <4> QED BY <1>2, <3>3, <4>1 DEF OptionsRead
    <3> QED BY <3>2, <3>3
  <2>5. opts'["-t"] # 0 <=> Read("-t")' # 0
    <3>1. CASE c = "-t"
      <4>1. Read("-t")' = x
        BY <1>4, <2>2, <3>1
      <4>2. opts'["-t"] = IF x # 0 THEN 1 ELSE x
        BY <1>5, <2>1, <3>1 DEF NumberFlags
      <4> QED BY <4>1, <4>2
    <3>2. CASE c # "-t"
      <4>1. opts'["-t"] = opts["-t"]
        BY <1>5, <2>1, <3>2
      <4> QED BY <1>2, <3>2, <4>1 DEF OptionsRead
    <3> QED BY <3>1, <3>2
  <2>6. opts'["-i"] = IF OneSeen' THEN 1 ELSE Read("-i")'
    <3>0. OneSeen' <=> \E k \in Met("-t")' : /\ atoi[typed[k + 1]] # 0
                                            /\ \A l \in Met("-i")' : l < k
      BY <1>1 DEF OneSeen
    <3>1. CASE c = "-t"
      <4>1. /\ Met("-t")' = Met("-t") \cup {j} /\ typed[j + 1] = w
            /\ Met("-i")' = Met("-i") /\ Read("-i")' = Read("-i")
        BY <1>2, <1>3, <2>2, <3>1
      <4>2. CASE x # 0
        <5>1. opts'["-i"] = 1
          BY <1>5, <2>1, <3>1, <4>2 DEF NumberFlags
        <5>2. j \in Met("-t")' /\ \A l \in Met("-i")' : l < j
          BY <1>6, <4>1
        <5>3. OneSeen'
          BY <3>0, <4>1, <4>2, <5>2
        <5> QED BY <5>1, <5>3
      <4>3. CASE x = 0
        <5>1. opts'["-i"] = opts["-i"]
          BY <1>5, <2>1, <3>1, <4>3
        <5>2. OneSeen' <=> OneSeen
          BY <3>0, <4>1, <4>3 DEF OneSeen
        <5> QED BY <4>1, <5>1, <5>2 DEF OptionsRead
      <4> QED BY <4>2, <4>3
    <3>2. CASE c = "-i"
      <4>1. /\ Met("-i")' = Met("-i") \cup {j} /\ Read("-i")' = x
            /\ Met("-t")' = Met("-t")
        BY <1>2, <1>3, <1>4, <2>2, <3>2
      <4>2. ~OneSeen'
        <5> SUFFICES ASSUME NEW k \in Met("-t")', \A l \in Met("-i")' : l < k PROVE FALSE
          BY <3>0
        <5>1. j < k /\ k \in Int /\ k < j /\ j \in Int
          BY <1>5, <1>6, <4>1
        <5> QED BY <5>1
      <4>3. opts'["-i"] = x
        BY <1>5, <2>1, <3>2 DEF NumberFlags
      <4> QED BY <4>1, <4>2, <4>3
    <3>3. CASE c \notin {"-t", "-i"}
      <4>1. opts'["-i"] = opts["-i"]
        BY <1>5, <2>1, <3>3
      <4> QED BY <1>2, <1>7, <3>3, <4>1 DEF OptionsRead
    <3> QED BY <3>1, <3>2, <3>3
  <2> QED BY <2>3, <2>4, <2>5, <2>6 DEF OptionsRead
<1>9. CASE SetName
  <2>1. c \in WordFlags /\ opts' = opts /\ names' = [names EXCEPT ![c] = w]
    BY <1>9 DEF SetName, Parsing
  <2>2. c \in Flags /\ \A f \in NumberFlags : f # c
    BY <2>1 DEF Flags, NumberFlags, WordFlags
  <2>3. ASSUME NEW f \in WordFlags
        PROVE  names'[f] = IF Met(f)' = {} THEN DefaultNames[f] ELSE LastMet(f)'
    <3>1. CASE f = c
      BY <1>3, <1>5, <2>1, <2>2, <3>1
    <3>2. CASE f # c
      BY <1>2, <1>5, <2>1, <3>2 DEF OptionsRead
    <3> QED BY <3>1, <3>2
  <2>4. \A f \in NumberFlags : Met(f)' = Met(f) /\ Read(f)' = Read(f)
    BY <1>2, <2>2
  <2>5. OneSeen' = OneSeen
    BY <1>7, <2>2 DEF NumberFlags
  <2> QED BY <2>1, <2>3, <2>4, <2>5 DEF OptionsRead, NumberFlags
<1>10. CASE SkipWord \/ Accept
  <2>1. c \notin Flags /\ opts' = opts /\ names' = names
    BY <1>10 DEF SkipWord, Accept, Parsing, Configurable, Flags, NumberFlags, WordFlags
  <2>2. \A f \in Flags : Met(f)' = Met(f) /\ Read(f)' = Read(f) /\ LastMet(f)' = LastMet(f)
    BY <1>2, <2>1
  <2>3. OneSeen' = OneSeen
    BY <1>7, <2>1 DEF Flags, NumberFlags
  <2> QED BY <2>1, <2>2, <2>3 DEF OptionsRead, Flags, NumberFlags
<1> QED BY <1>8, <1>9, <1>10

\* The first --rule and the first --symmetry are looked at, no later one.
LEMMA BuildAskedStep ==
  ASSUME LaunchInv, Complete, Passed, BuildAsked, SetNumber \/ SetName \/ SkipWord \/ Accept
  PROVE  BuildAsked'
<1> DEFINE c == cmd[arg]
<1>1. /\ UNCHANGED <<typed, cmd, build, stage, rebuilds>>
      /\ stage = "parse" /\ arg' = arg + 1 /\ arg < Len(cmd)
  BY DEF SetNumber, SetName, SkipWord, Accept, Parsing
<1>2. \A f : FirstOf(f)' = FirstOf(f) /\ Configured(f)' = Configured(f) /\ Places(f)' = Places(f)
  BY <1>1 DEF FirstOf, Places, Configured
<1>3. CASE rebuilds = 1
  BY <1>1, <1>2, <1>3 DEF BuildAsked
<1>4. CASE rebuilds # 1
  <2>0. rebuilds = 0 /\ arg \in Nat \ {0} /\ Own = 0 /\ typed \in Seq(Words)
    BY <1>4 DEF LaunchInv, LaunchTypeOK, RebuiltOnce, Own
  <2>1. \A f \in Configurable : IF f \in consumed THEN FirstOf(f) = Configured(f) ELSE Met(f) = {}
    BY <1>1, <1>4 DEF BuildAsked, Reading
  <2>2. \A f : f # c => Met(f)' = Met(f)
    BY <1>1, WordRead
  <2>3. CASE SetNumber \/ SetName \/ SkipWord
    <3>1. consumed' = consumed /\ c \notin Configurable
      BY <2>3 DEF SetNumber, SetName, SkipWord, Parsing, NumberFlags, WordFlags, Configurable
    <3> QED BY <1>1, <1>2, <1>4, <2>1, <2>2, <3>1 DEF BuildAsked
  <2>4. CASE Accept
    <3>1. /\ c \in Configurable /\ consumed' = consumed \cup {c}
          /\ c \in consumed \/ cmd[arg + 1] = Configured(c)
      BY <2>4 DEF Accept, Parsing
    <3>2. c \notin consumed => FirstOf(c) = Configured(c)
      <4> SUFFICES ASSUME c \notin consumed PROVE FirstOf(c) = Configured(c)
        OBVIOUS
      <4>1. Met(c) = {}
        BY <2>1, <3>1
      <4>2. arg - 0 \in Places(c) /\ typed[arg - 0 + 1] = cmd[arg + 1]
        BY <1>1, <2>0, <3>1, WordRead
      <4>3. \A k \in Places(c) : k \in Int /\ ~(k + 0 < arg)
        BY <2>0, <4>1 DEF Met, Places
      <4>4. Places(c) \in SUBSET Int /\ arg \in Places(c) /\ \A k \in Places(c) : arg <= k
        BY <2>0, <4>2, <4>3
      <4> HIDE DEF c
      <4>5. Earliest(Places(c)) = arg
        BY <4>4, EarliestIs
      <4>6. FirstOf(c) = cmd[arg + 1]
        BY <2>0, <4>2, <4>5 DEF FirstOf
      <4> QED BY <3>1, <4>6
    <3>3. \A f \in Configurable :
            IF f \in consumed' THEN FirstOf(f) = Configured(f) ELSE Met(f)' = {}
      BY <2>1, <2>2, <3>1, <3>2
    <3> QED BY <1>1, <1>2, <1>4, <3>3 DEF BuildAsked
  <2> QED BY <2>3, <2>4
<1> QED BY <1>3, <1>4

\* The four words of a script are met one by one, and each of its flags once.
LEMMA BareStep ==
  ASSUME LaunchInv, Bare, SetNumber \/ SetName \/ SkipWord \/ Accept
  PROVE  Bare'
<1>1. /\ UNCHANGED <<typed, cmd, build, stage, rebuilds>>
      /\ stage = "parse" /\ arg' = arg + 1 /\ arg < Len(cmd)
      /\ nullargs' = IF cmd[arg] \in Configurable THEN nullargs + 1 ELSE nullargs
  BY DEF SetNumber, SetName, SkipWord, Accept, Parsing, NumberFlags, WordFlags, Configurable
<1>2. /\ Len(cmd) = 4 /\ rebuilds = 1 /\ arg \in 1 .. 3
      /\ nullargs = 1 + (IF arg > 1 THEN 1 ELSE 0) + (IF arg > 3 THEN 1 ELSE 0)
  BY <1>1 DEF Bare, LaunchInv, LaunchTypeOK
<1>3. cmd[1] \in Configurable /\ cmd[2] \notin Configurable /\ cmd[3] \in Configurable
  BY <1>2, WordsAssumption DEF LaunchInv, OwnWordsFirst, Configurable
<1>4. nullargs' = 1 + (IF arg + 1 > 1 THEN 1 ELSE 0) + (IF arg + 1 > 3 THEN 1 ELSE 0)
  <2>1. CASE arg = 1
    BY <1>1, <1>2, <1>3, <2>1
  <2>2. CASE arg = 2
    BY <1>1, <1>2, <1>3, <2>2
  <2>3. CASE arg = 3
    BY <1>1, <1>2, <1>3, <2>3
  <2> QED BY <1>2, <2>1, <2>2, <2>3
<1> QED BY <1>1, <1>2, <1>4 DEF Bare

\* The script's own words are as many as ask for no search.
LEMMA BareCounted == ASSUME LaunchInv, Bare, EndParsing PROVE Bare'
<1> DEFINE D == {j \in 1 .. Len(cmd) : cmd[j] \in DoubleDashed}
<1>1. /\ UNCHANGED <<cmd, arg, build, rebuilds>> /\ stage' = "count"
      /\ stage = "parse" /\ arg >= Len(cmd)
      /\ nullargs' = nullargs + Cardinality(D)
  BY DEF EndParsing
<1>2. Len(cmd) = 4 /\ rebuilds = 1 /\ nullargs = 3
  BY <1>1 DEF Bare, LaunchInv, LaunchTypeOK
<1>3. /\ cmd[1] \in DoubleDashed /\ cmd[2] \notin DoubleDashed
      /\ cmd[3] \in DoubleDashed /\ cmd[4] \notin DoubleDashed
  BY <1>2, WordsAssumption DEF LaunchInv, OwnWordsFirst, Configurable
<1>4. D = {1, 3}
  <2>1. \A j : j \in 1 .. 4 <=> j \in {1, 2, 3, 4}
    OBVIOUS
  <2> QED BY <1>2, <1>3, <2>1
<1>5. Cardinality(D) = 2
  <2>1. IsFiniteSet({1}) /\ Cardinality({1}) = 1
    BY FS_Singleton
  <2>2. 3 \notin {1} /\ {1, 3} = {1} \cup {3}
    OBVIOUS
  <2>3. Cardinality({1} \cup {3}) = Cardinality({1}) + 1
    BY <2>1, <2>2, FS_AddElement
  <2>4. Cardinality({1, 3}) = 2
    BY <2>1, <2>2, <2>3
  <2> QED BY <1>4, <2>4
<1> QED BY <1>1, <1>2, <1>5 DEF Bare

\* Once the loop is over, every option typed has been read.
LEMMA AllMet ==
  ASSUME LaunchInv, Passed, arg >= Len(cmd)
  PROVE  \A f : Met(f) = Places(f)
<1>1. arg \in Nat /\ Own \in Nat /\ Len(typed) \in Nat /\ Len(cmd) >= Own + Len(typed)
  BY DEF LaunchInv, LaunchTypeOK, Passed, Own
<1>2. \A f : \A j \in Places(f) : j + Own < arg
  BY <1>1 DEF Places
<1> QED BY <1>2 DEF Met

\* What the checks before the main loop make of the options read.
LEMMA SettledAsAsked ==
  ASSUME LaunchInv, Passed, OptionsRead, BuildAsked, Settle, arg >= Len(cmd),
         stage' = "ready"
  PROVE  RunsAsAsked'
<1>1. /\ UNCHANGED <<typed, build, names, rebuilds, consumed>> /\ stage = "settle"
      /\ opts' = [opts EXCEPT !["-n"] = HaulSize(build, @),
                              !["-v"] = Reviews(build, @, opts["-p"]),
                              !["-p"] = Threads(build, @)]
  BY DEF Settle
<1>2. \A f : Met(f) = Places(f)
  BY AllMet
<1>3. \A f : Read(f) = Asked(f) /\ LastMet(f) = LastOf(f)
  BY <1>2 DEF Read, Asked, LastMet, LastOf
<1>4. OneSeen <=> OneSearch
  BY <1>2 DEF OneSeen, OneSearch
<1>5. opts \in [NumberFlags -> Int]
  BY DEF LaunchInv, LaunchTypeOK
<1>6. /\ opts'["-n"] = HaulSize(build, opts["-n"])
      /\ opts'["-v"] = Reviews(build, opts["-v"], opts["-p"])
      /\ opts'["-p"] = Threads(build, opts["-p"])
      /\ \A f \in {"-L", "-u", "-t", "-i"} : opts'[f] = opts[f]
  BY <1>1, <1>5 DEF NumberFlags
<1>7. /\ \A f \in {"-n", "-v", "-L", "-u", "-p"} : opts[f] = Asked(f)
      /\ opts["-t"] # 0 <=> Asked("-t") # 0
      /\ opts["-i"] = IF OneSearch THEN 1 ELSE Asked("-i")
      /\ \A f \in WordFlags : names[f] = IF Places(f) = {} THEN DefaultNames[f] ELSE LastOf(f)
  BY <1>2, <1>3, <1>4 DEF OptionsRead, NumberFlags
<1>8. /\ \A f : Places(f)' = Places(f) /\ Asked(f)' = Asked(f) /\ LastOf(f)' = LastOf(f)
                /\ FirstOf(f)' = FirstOf(f)
      /\ OneSearch' <=> OneSearch
  BY <1>1 DEF Places, Asked, LastOf, FirstOf, OneSearch
<1>9. /\ Places("--rule") # {} =>
           build.rule \in {FirstOf("--rule"), sanirule[FirstOf("--rule")]}
      /\ Places("--symmetry") # {} =>
           build.symmetry \in {FirstOf("--symmetry"), gpuForm[FirstOf("--symmetry")]}
  <2>1. CASE rebuilds = 1
    BY <2>1 DEF BuildAsked
  <2>2. CASE rebuilds # 1
    <3>1. \A f \in Configurable : Places(f) # {} => FirstOf(f) = Configured(f)
      BY <1>1, <1>2, <2>2 DEF BuildAsked, Reading
    <3> QED BY <3>1 DEF Configurable, Configured
  <2> QED BY <2>1, <2>2
<1>10. /\ opts'["-n"] = HaulSize(build, Asked("-n"))
       /\ opts'["-v"] = Reviews(build, Asked("-v"), Asked("-p"))
       /\ opts'["-p"] = Threads(build, Asked("-p"))
       /\ opts'["-L"] = Asked("-L") /\ opts'["-u"] = Asked("-u")
       /\ opts'["-t"] # 0 <=> Asked("-t") # 0
       /\ opts'["-i"] = IF OneSearch THEN 1 ELSE Asked("-i")
  BY <1>6, <1>7
<1> HIDE DEF WordFlags
<1> QED BY <1>1, <1>7, <1>8, <1>9, <1>10 DEF RunsAsAsked

\* What a script finds in the words it is called with.
LEMMA ScriptFinds ==
  ASSUME LaunchInv, Passed, rebuilds = 0, NEW f
  PROVE  /\ \A d : Places(f) # {} => After(f, d) = FirstOf(f)
         /\ Flagged(f) \in SUBSET Nat
         /\ \A j \in Flagged(f) :
              \/ j \in Places(f) /\ cmd[j + 1] = typed[j + 1]
              \/ cmd[j + 1] = "--immediate"
<1> DEFINE n == Len(typed)
<1>1. /\ typed \in Seq(Words) /\ cmd \in Seq(Words) /\ n \in Nat
      /\ Len(cmd) \in {n, n + 1} /\ \A j \in 1 .. n : cmd[j] = typed[j]
      /\ Len(cmd) = n + 1 => cmd[n + 1] = "--immediate"
  BY DEF LaunchInv, LaunchTypeOK, Passed, Own
<1> HIDE DEF n
<1>2. Places(f) = {j \in 1 .. n - 1 : typed[j] = f}
  BY DEF Places, n
<1>3. \A j \in Places(f) : j \in Flagged(f) /\ j \in 1 .. n - 1 /\ cmd[j + 1] = typed[j + 1]
  BY <1>1, <1>2 DEF Flagged
<1>4. \A j \in Flagged(f) : /\ j \in Nat
                            /\ j \in Places(f) \/ (j = n /\ cmd[j + 1] = "--immediate")
  BY <1>1, <1>2 DEF Flagged
<1>5. ASSUME NEW d, Places(f) # {} PROVE After(f, d) = FirstOf(f)
  <2> DEFINE m == Earliest(Places(f))
  <2>1. Places(f) \in SUBSET Nat /\ Flagged(f) \in SUBSET Int
    BY <1>3, <1>4
  <2>2. m \in Places(f) /\ \A k \in Places(f) : m <= k
    BY <1>5, <2>1, EarliestExists
  <2> HIDE DEF m
  <2>3. m \in Flagged(f) /\ m \in 1 .. n - 1 /\ cmd[m + 1] = typed[m + 1]
    BY <1>3, <2>2
  <2>4. \A k \in Flagged(f) : m <= k
    BY <1>1, <1>4, <2>2, <2>3
  <2>5. Earliest(Flagged(f)) = m
    BY <2>1, <2>3, <2>4, EarliestIs
  <2>6. 1 + m = m + 1 /\ Flagged(f) # {}
    BY <2>3
  <2>7. After(f, d) = cmd[m + 1] /\ FirstOf(f) = typed[m + 1]
    BY <2>5, <2>6 DEF After, FirstOf, m
  <2> QED BY <2>3, <2>7
<1>6. Flagged(f) \in SUBSET Nat
  BY <1>4
<1>7. \A j \in Flagged(f) : \/ j \in Places(f) /\ cmd[j + 1] = typed[j + 1]
                            \/ cmd[j + 1] = "--immediate"
  BY <1>3, <1>4
<1> QED BY <1>5, <1>6, <1>7

\* The executable that the script builds is the one asked for.
LEMMA BuiltAsAsked ==
  ASSUME LaunchInv, RulesApart, Passed, rebuilds = 0, Built.symmetry \in Symmetries
  PROVE  /\ Places("--rule") # {} => Built.rule = sanirule[FirstOf("--rule")]
         /\ Places("--symmetry") # {} =>
              Built.symmetry \in {FirstOf("--symmetry"), gpuForm[FirstOf("--symmetry")]}
<1>1. Places("--rule") # {} => Built.rule = sanirule[FirstOf("--rule")]
  BY ScriptFinds DEF Built
<1>2. Again("--rule") = {}
  <2> SUFFICES ASSUME Again("--rule") # {} PROVE FALSE
    OBVIOUS
  <2> DEFINE a == Earliest(Again("--rule"))
  <2>1. Flagged("--rule") \in SUBSET Nat
    BY ScriptFinds
  <2>2. Again("--rule") \in SUBSET Nat
    BY <2>1 DEF Again
  <2>3. a \in Again("--rule")
    BY <2>2, EarliestExists
  <2> HIDE DEF a
  <2>4. a \in Flagged("--rule") /\ a \in Nat
    BY <2>2, <2>3 DEF Again
  <2>5. \/ a \in Places("--rule") /\ cmd[a + 1] = typed[a + 1]
        \/ cmd[a + 1] = "--immediate"
    BY <2>4, ScriptFinds
  <2>6. "--immediate" \notin Symmetries
    BY WordsAssumption, LifelibAssumption
  <2>7. cmd[a + 1] \notin Symmetries
    BY <2>5, <2>6 DEF RulesApart
  <2>8. Built.symmetry = cmd[1 + a]
    BY DEF Built, SymmetryParameter, a
  <2>9. 1 + a = a + 1
    BY <2>4
  <2> QED BY <2>7, <2>8, <2>9
<1>3. ASSUME Places("--symmetry") # {}
      PROVE  Built.symmetry \in {FirstOf("--symmetry"), gpuForm[FirstOf("--symmetry")]}
  <2>1. SymmetryParameter = FirstOf("--symmetry")
    BY <1>2, <1>3, ScriptFinds DEF SymmetryParameter
  <2> QED BY <2>1 DEF Built
<1> QED BY <1>1, <1>3

\* The executable that a script starts has all the words before it, or only the
\* script's own.
LEMMA RebuildAsTyped ==
  ASSUME LaunchInv, Complete, RulesApart, Passed, Rebuild
  PROVE  AsTyped'
<1> DEFINE words == IF Typed("--immediate") THEN cmd ELSE <<>>
           r == Relaunched(Built, words)
<1>1. /\ stage = "script" /\ Built.rule \in Rules /\ Built.symmetry \in Symmetries
      /\ Started(r, Built) /\ rebuilds' = rebuilds + 1 /\ typed' = typed
  BY DEF Rebuild
<1>2. rebuilds = 0
  BY <1>1 DEF LaunchInv, LaunchTypeOK, RebuiltOnce
<1>3. /\ cmd' = r /\ build' = Built /\ stage' = "parse" /\ arg' = 1
      /\ opts' = DefaultOpts(Built) /\ names' = DefaultNames
      /\ nullargs' = 1 /\ rebuilds' = 1
  BY <1>1, <1>2 DEF Started
<1>4. /\ typed \in Seq(Words) /\ cmd \in Seq(Words) /\ Len(typed) \in Nat
      /\ Len(cmd) \in {Len(typed), Len(typed) + 1} /\ Own' = 4
      /\ \A j \in 1 .. Len(typed) : cmd[j] = typed[j]
      /\ Len(cmd) = Len(typed) + 1 => cmd[Len(cmd)] = "--immediate"
  BY <1>2, <1>3 DEF LaunchInv, LaunchTypeOK, Passed, Own
<1>5. BuildAsked'
  <2>1. \A f : Places(f)' = Places(f) /\ FirstOf(f)' = FirstOf(f)
    BY <1>1 DEF Places, FirstOf
  <2>2. /\ Places("--rule") # {} => Built.rule = sanirule[FirstOf("--rule")]
        /\ Places("--symmetry") # {} =>
             Built.symmetry \in {FirstOf("--symmetry"), gpuForm[FirstOf("--symmetry")]}
    BY <1>1, <1>2, BuiltAsAsked
  <2> HIDE DEF r
  <2> QED BY <1>3, <2>1, <2>2 DEF BuildAsked
<1>6. OptionsRead'
  <2>1. \A f : Met(f)' = {}
    BY <1>1, <1>3, <1>4 DEF Met, Places
  <2>2. OneSeen' = FALSE /\ \A f : Read(f)' = DefaultOpts(Built)[f]
    BY <1>3, <2>1 DEF OneSeen, Read
  <2> DEFINE d == DefaultOpts(Built)
  <2>3. opts' = d /\ names' = DefaultNames
    BY <1>3
  <2>4. \A f : Read(f)' = d[f]
    BY <2>2
  <2> HIDE DEF r, d
  <2>5. /\ \A f \in NumberFlags \ {"-i", "-t"} : opts'[f] = Read(f)'
        /\ opts'["-t"] # 0 <=> Read("-t")' # 0
    BY <2>3, <2>4
  <2>6. opts'["-i"] = IF OneSeen' THEN 1 ELSE Read("-i")'
    BY <2>2, <2>3, <2>4
  <2>7. \A f \in WordFlags : names'[f] = IF Met(f)' = {} THEN DefaultNames[f] ELSE LastMet(f)'
    BY <2>1, <2>3
  <2> QED BY <2>5, <2>6, <2>7 DEF OptionsRead
<1>7. Bare' \/ Passed'
  <2> DEFINE own == <<"--rule", Built.rule, "--symmetry", Built.symmetry>>
  <2>1. /\ own \in Seq(Words) /\ Len(own) = 4
    <3>1. "--rule" \in Words /\ "--symmetry" \in Words
      BY WordsAssumption DEF Configurable
    <3>2. Built.rule \in Words /\ Built.symmetry \in Words
      BY <1>1, LifelibAssumption DEF Rules
    <3> HIDE DEF Built
    <3> QED BY <3>1, <3>2
  <2> HIDE DEF own
  <2>2. r = own \o words
    BY DEF r, Relaunched, own
  <2>3. CASE ~Typed("--immediate")
    <3>1. words = <<>>
      BY <2>3
    <3>2. r = own \o <<>>
      BY <2>2, <3>1
    <3>3. Len(own \o <<>>) = 4
      BY <2>1
    <3> HIDE DEF r
    <3> QED BY <1>3, <3>2, <3>3 DEF Bare
  <2>4. CASE Typed("--immediate")
    <3>1. r = own \o cmd
      BY <2>2, <2>4
    <3>2. /\ Len(own \o cmd) = 4 + Len(cmd) /\ Len(cmd) \in Nat
          /\ \A j \in 1 .. Len(cmd) : (own \o cmd)[4 + j] = cmd[j]
      <4>0. /\ own \o cmd \in Seq(Words) /\ Len(own \o cmd) = Len(own) + Len(cmd)
            /\ \A i \in 1 .. Len(own) + Len(cmd) :
                 (own \o cmd)[i] = IF i <= Len(own) THEN own[i] ELSE cmd[i - Len(own)]
        <5>1. own \in Seq(Words) /\ cmd \in Seq(Words)
          BY <1>4, <2>1
        <5> HIDE DEF words, r
        <5> QED BY <5>1, ConcatProperties, Zenon
      <4>1. Len(own \o cmd) = 4 + Len(cmd) /\ Len(cmd) \in Nat
        BY <1>4, <2>1, <4>0
      <4>2. ASSUME NEW j \in 1 .. Len(cmd) PROVE (own \o cmd)[4 + j] = cmd[j]
        <5>1. 4 + j \in 1 .. Len(own) + Len(cmd) /\ ~(4 + j <= Len(own)) /\ (4 + j) - Len(own) = j
          BY <2>1, <4>1
        <5>2. (own \o cmd)[4 + j] = cmd[(4 + j) - Len(own)]
          BY <4>0, <5>1
        <5> QED BY <5>1, <5>2
      <4> QED BY <4>1, <4>2
    <3> HIDE DEF r, words
    <3>3. cmd' = own \o cmd
      BY <1>3, <3>1
    <3>4. Len(cmd') = 4 + Len(cmd) /\ \A j \in 1 .. Len(cmd) : cmd'[4 + j] = cmd[j]
      BY <3>2, <3>3
    <3> HIDE DEF own
    <3>5. Len(cmd') \in {4 + Len(typed), 4 + Len(typed) + 1}
      BY <1>4, <3>2, <3>4
    <3>6. \A j \in 1 .. Len(typed) : cmd'[4 + j] = typed[j]
      BY <1>4, <3>2, <3>4
    <3>7. Len(cmd') = 4 + Len(typed) + 1 => cmd'[Len(cmd')] = "--immediate"
      <4> SUFFICES ASSUME Len(cmd') = 4 + Len(typed) + 1 PROVE cmd'[Len(cmd')] = "--immediate"
        OBVIOUS
      <4>1. Len(cmd) = Len(typed) + 1 /\ Len(cmd) \in 1 .. Len(cmd)
        BY <1>4, <3>2, <3>4
      <4>2. cmd'[4 + Len(cmd)] = cmd[Len(cmd)]
        BY <3>4, <4>1
      <4> QED BY <1>4, <3>4, <4>1, <4>2
    <3>8. rebuilds' # 0 /\ typed' = typed
      BY <1>1, <1>3
    <3> QED BY <1>4, <3>5, <3>6, <3>7, <3>8 DEF Passed
  <2> QED BY <2>3, <2>4
<1>8. stage' = "parse"
  BY <1>3
<1> HIDE DEF r, words
<1> QED BY <1>5, <1>6, <1>7, <1>8 DEF AsTyped

\* Every step of a launch accounts for the words typed.
LEMMA LaunchNextAsTyped ==
  ASSUME LaunchInv, AsTyped, LaunchNext
  PROVE  AsTyped' /\ RunsAsAsked'
<1>1. typed' = typed
  BY DEF LaunchNext, SetNumber, SetName, SkipWord, Accept, Exec, EndParsing,
         CountWords, Settle, Rebuild, GiveUp
<1>2. \A f : Places(f)' = Places(f) /\ FirstOf(f)' = FirstOf(f)
  BY <1>1 DEF Places, FirstOf
<1>3. (Complete /\ RulesApart)' <=> Complete /\ RulesApart
  BY <1>1, <1>2 DEF Complete, RulesApart
<1>4. CASE ~(Complete /\ RulesApart)
  BY <1>3, <1>4 DEF AsTyped, RunsAsAsked
<1>5. CASE Complete /\ RulesApart
  <2>0. /\ Bare \/ (Passed /\ (Reading => OptionsRead))
        /\ BuildAsked
        /\ stage \in {"count", "settle"} => arg >= Len(cmd)
    BY <1>5 DEF AsTyped
  <2>1. CASE SetNumber \/ SetName \/ SkipWord \/ Accept
    <3>1. stage = "parse" /\ stage' = "parse" /\ UNCHANGED <<typed, cmd, build, rebuilds>>
      BY <2>1 DEF SetNumber, SetName, SkipWord, Accept, Parsing
    <3>2. CASE Bare
      <4>1. Bare'
        BY <2>1, <3>2, BareStep
      <4>2. BuildAsked'
        BY <1>2, <2>0, <3>1, <3>2 DEF BuildAsked, Bare
      <4> QED BY <3>1, <4>1, <4>2 DEF AsTyped, RunsAsAsked
    <3>3. CASE Passed /\ OptionsRead
      <4>1. OptionsRead' /\ BuildAsked'
        BY <1>5, <2>0, <2>1, <3>3, OptionsReadStep, BuildAskedStep
      <4>2. Passed'
        BY <3>1, <3>3 DEF Passed, Own, Reading
      <4> QED BY <3>1, <4>1, <4>2 DEF AsTyped, RunsAsAsked
    <3> QED BY <2>0, <3>1, <3>2, <3>3 DEF Reading
  <2>2. CASE Exec
    <3>1. rebuilds = 0
      BY <2>2, NoSecondScript
    <3>2. /\ UNCHANGED <<typed, build, rebuilds>> /\ stage = "parse" /\ stage' = "script"
          /\ cmd' = Append(cmd, "--immediate")
      BY <2>2 DEF Exec, Parsing
    <3>3. Passed /\ Len(cmd) = Len(typed)
      BY <2>0, <3>1, <3>2 DEF Bare, Passed, Reading
    <3>4. cmd \in Seq(Words) /\ typed \in Seq(Words) /\ Len(typed) \in Nat
      BY DEF LaunchInv, LaunchTypeOK
    <3>5. /\ Len(cmd') = Len(typed) + 1 /\ cmd'[Len(typed) + 1] = "--immediate"
          /\ \A j \in 1 .. Len(typed) : cmd'[j] = cmd[j]
      BY <3>2, <3>3, <3>4
    <3>6. \A j \in 1 .. Len(typed) : cmd'[0 + j] = typed[j]
      BY <3>1, <3>3, <3>4, <3>5 DEF Passed, Own
    <3>7. Passed'
      BY <3>1, <3>2, <3>4, <3>5, <3>6 DEF Passed, Own, Reading
    <3> QED BY <3>1, <3>2, <3>7 DEF AsTyped, BuildAsked, Reading, RunsAsAsked
  <2>3. CASE EndParsing
    <3>1. /\ UNCHANGED <<typed, cmd, build, arg, opts, names, consumed, rebuilds>>
          /\ stage = "parse" /\ stage' = "count" /\ arg >= Len(cmd)
      BY <2>3 DEF EndParsing
    <3>2. BuildAsked'
      BY <1>2, <2>0, <3>1 DEF BuildAsked, Reading, Met, Own, Configured
    <3>3. CASE Bare
      <4>1. Bare'
        BY <2>3, <3>3, BareCounted
      <4> QED BY <3>1, <3>2, <4>1 DEF AsTyped, RunsAsAsked
    <3>4. CASE Passed /\ OptionsRead
      <4>1. Passed'
        BY <3>1, <3>4 DEF Passed, Own, Reading
      <4>2. /\ \A f : Met(f)' = Met(f) /\ LastMet(f)' = LastMet(f) /\ Read(f)' = Read(f)
            /\ OneSeen' <=> OneSeen
        BY <3>1 DEF Met, Places, Own, LastMet, Read, OneSeen
      <4>3. OptionsRead'
        BY <3>1, <3>4, <4>2 DEF OptionsRead
      <4> QED BY <3>1, <3>2, <4>1, <4>3 DEF AsTyped, RunsAsAsked
    <3> QED BY <2>0, <3>1, <3>3, <3>4 DEF Reading
  <2>4. CASE CountWords
    <3>1. /\ UNCHANGED <<typed, cmd, build, arg, nullargs, consumed, rebuilds>>
          /\ stage = "count" /\ arg >= Len(cmd)
          /\ stage' = IF Len(cmd) > 0 /\ nullargs = Len(cmd) + 1 THEN "exit" ELSE "settle"
          /\ cmd # <<>> => UNCHANGED <<opts, names>>
      BY <2>0, <2>4 DEF CountWords
    <3>2. BuildAsked'
      BY <1>2, <2>0, <3>1 DEF BuildAsked, Reading, Met, Own, Configured
    <3>3. CASE Bare
      <4>1. Bare'
        BY <3>1, <3>3 DEF Bare
      <4> QED BY <3>1, <3>2, <4>1 DEF AsTyped, RunsAsAsked
    <3>4. CASE Passed /\ OptionsRead
      <4>1. Passed'
        BY <3>1, <3>4 DEF Passed, Own, Reading
      <4>2. cmd # <<>>
        BY <1>5, <3>4 DEF Passed, Complete, Own, LaunchInv, LaunchTypeOK
      <4>3. /\ \A f : Met(f)' = Met(f) /\ LastMet(f)' = LastMet(f) /\ Read(f)' = Read(f)
            /\ OneSeen' <=> OneSeen
        BY <3>1 DEF Met, Places, Own, LastMet, Read, OneSeen
      <4>4. OptionsRead'
        BY <3>1, <3>4, <4>2, <4>3 DEF OptionsRead
      <4> QED BY <3>1, <3>2, <4>1, <4>4 DEF AsTyped, RunsAsAsked
    <3> QED BY <2>0, <3>1, <3>3, <3>4 DEF Reading
  <2>5. CASE Settle
    <3>1. /\ UNCHANGED <<typed, cmd, build, rebuilds>> /\ stage = "settle"
          /\ stage' \in {"exit", "ready"} /\ arg >= Len(cmd)
      BY <2>0, <2>5 DEF Settle
    <3>2. Passed /\ OptionsRead
      BY <2>0, <3>1 DEF Bare, Reading
    <3>3. Passed'
      BY <3>1, <3>2 DEF Passed, Own, Reading
    <3>4. BuildAsked'
      BY <1>2, <2>0, <3>1 DEF BuildAsked, Reading
    <3>5. RunsAsAsked'
      <4>1. CASE stage' = "ready"
        BY <2>0, <2>5, <3>1, <3>2, <4>1, SettledAsAsked
      <4>2. CASE stage' # "ready"
        BY <4>2 DEF RunsAsAsked
      <4> QED BY <4>1, <4>2
    <3> QED BY <3>1, <3>3, <3>4, <3>5 DEF AsTyped, Reading
  <2>6. CASE Rebuild
    <3>1. stage = "script" /\ stage' = "parse"
      BY <2>6 DEF Rebuild, Started
    <3>2. Passed
      BY <2>0, <3>1 DEF Bare
    <3>3. AsTyped'
      BY <1>5, <2>6, <3>2, RebuildAsTyped
    <3> QED BY <3>1, <3>3 DEF RunsAsAsked
  <2>7. CASE GiveUp
    <3>1. /\ UNCHANGED <<typed, cmd, build, arg, opts, names, nullargs, consumed, rebuilds>>
          /\ stage = "script" /\ stage' = "exit"
      BY <2>7 DEF GiveUp
    <3>2. Passed
      BY <2>0, <3>1 DEF Bare
    <3>3. Passed'
      BY <3>1, <3>2 DEF Passed, Own, Reading
    <3>4. BuildAsked'
      BY <1>2, <2>0, <3>1 DEF BuildAsked, Reading
    <3> QED BY <3>1, <3>3, <3>4 DEF AsTyped, Reading, RunsAsAsked
  <2> QED BY <2>1, <2>2, <2>3, <2>4, <2>5, <2>6, <2>7 DEF LaunchNext
<1> QED BY <1>4, <1>5

\* Nor is anything lost while nothing is launched.
LEMMA LaunchKeptAsTyped ==
  ASSUME UNCHANGED launchVars
  PROVE  /\ AsTyped => AsTyped'
         /\ RunsAsAsked => RunsAsAsked'
<1> USE DEF launchVars
<1>1. \A f : Places(f)' = Places(f)
  BY DEF Places
<1>2. \A f : LastOf(f)' = LastOf(f) /\ FirstOf(f)' = FirstOf(f) /\ Asked(f)' = Asked(f)
  BY <1>1 DEF LastOf, FirstOf, Asked
<1>3. (OneSearch' <=> OneSearch) /\ (Complete' <=> Complete) /\ (RulesApart' <=> RulesApart)
  BY <1>1 DEF OneSearch, Complete, RulesApart
<1>4. Own' = Own /\ (Reading' <=> Reading) /\ \A f : Met(f)' = Met(f)
  BY <1>1 DEF Own, Reading, Met
<1>5. \A f : LastMet(f)' = LastMet(f) /\ Read(f)' = Read(f)
  BY <1>4 DEF LastMet, Read
<1>6. OneSeen' <=> OneSeen
  BY <1>4 DEF OneSeen
<1>7. OptionsRead' <=> OptionsRead
  BY <1>4, <1>5, <1>6 DEF OptionsRead
<1>8. (Passed' <=> Passed) /\ (Bare' <=> Bare)
  BY <1>4 DEF Passed, Bare
<1>9. BuildAsked' <=> BuildAsked
  BY <1>1, <1>2, <1>4 DEF BuildAsked, Configured
<1>10. AsTyped => AsTyped'
  BY <1>3, <1>4, <1>7, <1>8, <1>9 DEF AsTyped
<1>11. RunsAsAsked => RunsAsAsked'
  BY <1>1, <1>2, <1>3 DEF RunsAsAsked
<1> QED BY <1>10, <1>11
=============================================================================
