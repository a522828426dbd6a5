------------------------------- MODULE Census -------------------------------
(***************************************************************************)
(* SoupSearcher (searcher.h): censusing soups into census and alloccur,    *)
(* with attempts repeated while pathological objects turn up, and adding   *)
(* one searcher's results to another's (aggregate).  What the classifier   *)
(* (lifelib) finds in a pattern is a tally: how often it saw each object.  *)
(***************************************************************************)
EXTENDS Integers, Sequences, FiniteSetsExt

CONSTANTS
  Codes,      \* apgcodes the classifier may give to objects
  kind,       \* the sort of each code: "x", "y", "z" or "PATHOLOGICAL"
  Specials,   \* megasized_, messless_ and methuselah_ codes
  Tallies,    \* the tallies explored: [objects seen -> how often]
  Soups,      \* soups censused, in their order: 1 .. Soups
  size,       \* the length of each soup's suffix
  StandardLife,   \* STANDARD_LIFE
  MaxListed,      \* 10: soups listed per object
  MaxCount,       \* 1000: objects seen more often get no more soups listed
  MaxPenalty      \* 5760

ASSUME CodesAssumption ==
  /\ kind \in [Codes -> {"x", "y", "z", "PATHOLOGICAL"}]
  /\ Specials \cap Codes = {}
ASSUME TalliesAssumption ==
  \A t \in Tallies : DOMAIN t \subseteq Codes /\ \A c \in DOMAIN t : t[c] \in Nat \ {0}
ASSUME LimitsAssumption ==
  /\ Soups \in Nat /\ size \in [1 .. Soups -> Nat] /\ StandardLife \in BOOLEAN
  /\ MaxListed \in Nat \ {0} /\ MaxCount \in Nat /\ MaxPenalty \in Nat

AllCodes == Codes \cup Specials

VARIABLES
  pc,
  soup,       \* the soup being censused
  nonempty,   \* pat.nonempty()
  attempt,
  local,      \* a local SoupSearcher: its census and alloccur
  global,     \* the SoupSearcher it is aggregated into
  accepted    \* auxiliary: the tally each soup was counted with

vars == <<pc, soup, nonempty, attempt, local, global, accepted>>

NewSearcher == [census |-> [c \in AllCodes |-> 0], alloccur |-> [c \in AllCodes |-> <<>>]]

Init ==
  /\ pc = "next" /\ soup = 0
  /\ nonempty = TRUE /\ attempt = 0
  /\ local = NewSearcher /\ global = NewSearcher
  /\ accepted = [s \in 1 .. Soups |-> <<>>]

-----------------------------------------------------------------------------
(* What one object adds to a searcher.                                     *)

roomFor(aa) == Len(aa) < MaxListed

\* What listing the soup would cost.
penalty(aa) == size[soup] + MapThenSumSet(LAMBDA k : 4 * size[aa[k]], DOMAIN aa)

\* Slip: the limit is one too low.
countedOut(ca) == ca >= MaxCount

tooMany(ca) == ca > MaxCount

notLast(aa) == aa = <<>> \/ aa[Len(aa)] # soup

\* ca is the count with this soup's objects.
listed(aa, ca) ==
  IF ~tooMany(ca) /\ notLast(aa) /\ roomFor(aa) /\ penalty(aa) <= MaxPenalty
  THEN Append(aa, soup) ELSE aa

ignored(t) == IF \E c \in DOMAIN t : kind[c] = "y"
              THEN {c \in DOMAIN t : kind[c] = "PATHOLOGICAL"} ELSE {}

\* The loop over the tally at the end of separate.
counted(s, t) ==
  LET new == DOMAIN t \ ignored(t) IN
  [census   |-> [c \in AllCodes |-> s.census[c] + (IF c \in new THEN t[c] ELSE 0)],
   alloccur |-> [c \in AllCodes |-> IF c \in new THEN listed(s.alloccur[c], s.census[c] + t[c])
                                    ELSE s.alloccur[c]]]

\* methudetect: the codes earned by the final population and the lifespan.
methudetect(s, earned) ==
  [census   |-> [c \in AllCodes |-> s.census[c] + (IF c \in earned THEN 1 ELSE 0)],
   alloccur |-> [c \in AllCodes |-> IF c \in earned /\ roomFor(s.alloccur[c])
                                    THEN Append(s.alloccur[c], soup) ELSE s.alloccur[c]]]

\* Slip: what is already there takes no room.
aggregatedFar(all, new) == all \o SubSeq(new, 1, IF Len(new) < MaxListed THEN Len(new) ELSE MaxListed)

\* As many of the new soups as there is room for.
aggregatedList(all, new) ==
  all \o SubSeq(new, 1, IF Len(all) + Len(new) <= MaxListed THEN Len(new) ELSE MaxListed - Len(all))

aggregate(s, new) ==
  [census   |-> [c \in AllCodes |-> s.census[c] + new.census[c]],
   alloccur |-> [c \in AllCodes |-> aggregatedList(s.alloccur[c], new.alloccur[c])]]

\* Whether the tally asks for another attempt.
pathological(t) ==
  \E c \in DOMAIN t : \/ kind[c] = "PATHOLOGICAL"
                      \/ kind[c] = "z" /\ StandardLife /\ attempt <= 2

\* Slip: the attempts are not limited.
neverProceeds == FALSE

proceedNonetheless == attempt >= 5

-----------------------------------------------------------------------------
(* censusSoup.                                                             *)

\* A soup runs until it is stable.
NextSoup ==
  /\ pc = "next" /\ soup < Soups
  /\ soup' = soup + 1
  /\ nonempty' \in BOOLEAN
  /\ attempt' = 0
  /\ pc' = "attempt"
  /\ UNCHANGED <<local, global, accepted>>

\* All cells died: only the lifespan is rated.
CensusNothing ==
  /\ pc = "attempt" /\ ~nonempty
  /\ IF StandardLife
     THEN \E earned \in SUBSET Specials : local' = methudetect(local, earned)
     ELSE UNCHANGED local
  /\ pc' = "next"
  /\ UNCHANGED <<soup, nonempty, attempt, global, accepted>>

\* Slip: the objects of a failed attempt are counted.
kept(t) == counted(local, t)

\* separate counts nothing when it asks for another attempt.
dropped(t) == local

\* The pattern runs on and may die.
FailAttempt ==
  /\ pc = "attempt" /\ nonempty
  /\ \E t \in Tallies : pathological(t) /\ local' = dropped(t)
  /\ ~proceedNonetheless
  /\ nonempty' \in BOOLEAN
  /\ attempt' = attempt + 1
  /\ UNCHANGED <<pc, soup, global, accepted>>

\* In the first attempt, the lifespan is rated too.
rates(t) == StandardLife /\ attempt = 0 /\ \A c \in DOMAIN t : kind[c] # "y"

\* separate counts the objects.
Succeed ==
  /\ pc = "attempt" /\ nonempty
  /\ \E t \in Tallies :
       /\ pathological(t) => proceedNonetheless
       /\ accepted' = [accepted EXCEPT ![soup] = t]
       /\ IF rates(t)
          THEN \E earned \in SUBSET Specials :
                 local' = methudetect(counted(local, t), earned)
          ELSE local' = counted(local, t)
  /\ pc' = "next"
  /\ UNCHANGED <<soup, nonempty, attempt, global>>

\* A round of soups is over; the next has a new local searcher.
Aggregate ==
  /\ pc = "next"
  /\ local # NewSearcher
  /\ global' = aggregate(global, local)
  /\ local' = NewSearcher
  /\ UNCHANGED <<pc, soup, nonempty, attempt, accepted>>

Terminated == pc = "next" /\ soup = Soups /\ UNCHANGED vars

Next == NextSoup \/ CensusNothing \/ FailAttempt \/ Succeed \/ Aggregate \/ Terminated

Spec == Init /\ [][Next]_vars

-----------------------------------------------------------------------------
TypeOK ==
  /\ pc \in {"next", "attempt"} /\ soup \in 0 .. Soups
  /\ nonempty \in BOOLEAN /\ attempt \in 0 .. 5
  /\ \A s \in {local, global} :
       /\ s.census \in [AllCodes -> Nat]
       /\ \A c \in AllCodes : s.alloccur[c] \in Seq(1 .. Soups)

Holds(s, c) == c \in DOMAIN accepted[s]

\* How often these tallies, one for each soup, have seen object c.
Total(tallies, c) ==
  LET sum[n \in 0 .. Soups] ==
        IF n = 0 THEN 0
        ELSE sum[n - 1] + (IF c \in DOMAIN tallies[n] THEN tallies[n][c] ELSE 0)
  IN  sum[Soups]

\* However many attempts a soup takes, its objects are counted once: the
\* local and the global census add up to the tallies accepted.
CountedOnce ==
  \A c \in Codes : kind[c] # "PATHOLOGICAL" =>
    local.census[c] + global.census[c] = Total(accepted, c)

\* The soups listed for an object had it, none is listed twice, and a list
\* never gets longer than ten, whether it grew soup by soup or by aggregation.
ListsSound ==
  \A s \in {local, global} : \A c \in Codes :
    LET aa == s.alloccur[c] IN
    /\ Len(aa) <= MaxListed
    /\ \A k \in 1 .. Len(aa) : Holds(aa[k], c)
    /\ \A k, l \in 1 .. Len(aa) : k # l => aa[k] # aa[l]

\* An object that is reported, and is not too common, has a soup to show for
\* it, if suffixes are short enough to be listed.
ReportedIsListed ==
  (\A s \in 1 .. Soups : size[s] <= MaxPenalty) =>
    \A c \in AllCodes : global.census[c] \in 1 .. MaxCount => global.alloccur[c] # <<>>
=============================================================================
