------------------------------ MODULE Session ------------------------------
(***************************************************************************)
(* A run of apgluxe as Catagolue sees it: its launch (Launch), the main    *)
(* loop of run_apgluxe, the review of other hauls (verification.h), the    *)
(* submission of a haul (submitResults) and the payosha256 exchange below  *)
(* both (payosha256.h).                                                    *)
(* The search itself is ThreadedSearch; here it is a step that adds to     *)
(* numsoups.  The client blocks in each request, so a request is one step  *)
(* whose outcome is what the network and the server made of it.            *)
(***************************************************************************)
EXTENDS Launch

CONSTANTS
  Conditions,   \* the ways the hosts may behave: [Hosts -> SUBSET Outcomes]
  MaxFailures,  \* bound: requests that do not end as the client hopes
  MaxSearches   \* bound: searches that are left but by the end of a run

Hosts == 0 .. 2   \* indices of __possible_catagolues

\* What becomes of a request: "served" is answered as hoped, "refused" is
\* answered 200 with some other text, "unreachable" never arrives and "lost" is
\* handled but the answer does not arrive (both throw Wobbly), "bad_status" is
\* answered with another status.
Outcomes == {"served", "refused", "unreachable", "lost", "bad_status"}

ASSUME WorldAssumption == /\ Conditions \subseteq [Hosts -> SUBSET Outcomes]
                          /\ MaxFailures \in Nat /\ MaxSearches \in Nat

VARIABLES
  running,      \* the atomic flag
  pc,           \* where run_apgluxe is, see Locations
  reviewed,     \* j of the verification loop
  left,         \* iterations still to go
  seed,         \* the current root seed (each reseed gives a new one)
  numsoups,     \* hauls' worth of soups censused for this seed
  retries,      \* __catagolue_retries % 3, the host in use
  token,        \* the authstring held between two requests
  uploaded,     \* searches that ended with "Connection was successful."
  logs,         \* local log files, as [seed, num]
  stored,       \* the server's hauls, as [seed, num]
  failures,     \* requests and proofs of work that failed
  condition     \* how each host behaves

clientVars == <<running, pc, reviewed, left, seed, numsoups, retries, token,
                uploaded, logs>>
worldVars == <<stored, failures, condition>>
vars == <<clientVars, worldVars, launchVars>>

verifications == opts["-v"]  \* hauls reviewed before each search
iterations == opts["-i"]     \* searches before exiting; no limit if not positive
testing == opts["-t"] # 0
local_log == opts["-L"] # 0
numThreads == opts["-p"]

Locations == {"launch", "round", "work", "fetch", "reauth", "review", "search", "haul",
              "auth", "log", "post", "leave", "done", "crashed"}

NoToken == [op |-> "none", host |-> 0]

Ops == {"verify_apgsearch_haul", "submit_verification", "post_apgsearch_haul"}

Init ==
  /\ LaunchInit
  /\ running = TRUE /\ pc = "launch"
  /\ reviewed = 0 /\ left = 0
  /\ seed = 0 /\ numsoups = 0
  /\ retries = 0
  /\ token = NoToken
  /\ uploaded = 0 /\ logs = {}
  /\ stored = {} /\ failures = 0
  /\ condition \in Conditions

-----------------------------------------------------------------------------
(* catagolueRequest and authenticate.                                      *)

\* A request to the current host, with its outcome and whether that is what
\* the client hopes for.
catagolueRequest(o, good) ==
  /\ o \in condition[retries]
  /\ good \/ failures < MaxFailures
  /\ failures' = IF good THEN failures ELSE failures + 1
  /\ UNCHANGED <<condition, launchVars>>

\* Slip: the hosts are used in turn.
rotatesAlways(o) == TRUE

\* Slip: the next host is tried after a bad status only.
rotatesOnStatus(o) == o = "bad_status"

\* A connection that fails makes the client try the next host.
rotates(o) == o \in {"unreachable", "lost"}

\* Slip: __catagolue_retries used as an index.
RotatedUnwrapped(r) == r + 1

Rotated(r) == (r + 1) % 3

\* One call of authenticate: pc goes to ok with a token, or to failed without.
\* An answer that holds no token makes the client try the next host; a proof of
\* work given up after 244823040 nonces does not.
authenticate(op, ok, failed) ==
  \E o \in Outcomes, worked \in BOOLEAN :
    /\ catagolueRequest(o, o = "served" /\ worked)
    /\ retries' = IF rotates(o) \/ o = "refused" THEN Rotated(retries) ELSE retries
    /\ IF o = "served" /\ worked
       THEN token' = [op |-> op, host |-> retries] /\ pc' = ok
       ELSE token' = NoToken /\ pc' = failed
    /\ UNCHANGED stored

\* A request that pays with the token held.
Pay(o) ==
  /\ catagolueRequest(o, o = "served")
  /\ retries' = IF rotates(o) THEN Rotated(retries) ELSE retries
  /\ token' = NoToken

\* Slip: an upload counts once it has been sent.
sentAtAll(o) == o # "unreachable"

\* The client sees an answer with a text, whatever it says.
nonEmpty(o) == o \in {"served", "refused"}

-----------------------------------------------------------------------------
(* The main loop.                                                          *)

\* A step from the command line towards the main loop.
Launching ==
  /\ pc = "launch" /\ LaunchNext
  /\ UNCHANGED <<clientVars, worldVars>>

Begin ==
  /\ pc = "launch" /\ stage \in {"ready", "exit"}
  /\ pc' = IF stage = "ready" THEN "round" ELSE "done"
  /\ left' = iterations
  /\ UNCHANGED <<running, reviewed, seed, numsoups, retries, token, uploaded, logs,
                 worldVars, launchVars>>

StartRound ==
  /\ pc = "round"
  /\ reviewed' = 0
  /\ pc' = IF verifications > 0 THEN "work" ELSE "search"
  /\ UNCHANGED <<running, left, seed, numsoups, retries, token, uploaded, logs,
                 worldVars, launchVars>>

\* obtainWork; any failure ends the review of hauls.
ObtainWork ==
  /\ pc = "work"
  /\ authenticate("verify_apgsearch_haul", "fetch", "search")
  /\ UNCHANGED <<running, reviewed, left, seed, numsoups, uploaded, logs>>

\* Work may be there or "No more hauls to verify.".
FetchWork ==
  /\ pc = "fetch"
  /\ \E o \in Outcomes, some \in BOOLEAN :
       /\ Pay(o)
       /\ pc' = IF nonEmpty(o) /\ some THEN "reauth" ELSE "search"
  /\ UNCHANGED <<running, reviewed, left, seed, numsoups, uploaded, logs, stored>>

Reauthenticate ==
  /\ pc = "reauth"
  /\ authenticate("submit_verification", "review", "search")
  /\ UNCHANGED <<running, reviewed, left, seed, numsoups, uploaded, logs>>

\* The soups are censused again and the result is posted; the answer is not
\* looked at.
SubmitReview ==
  /\ pc = "review"
  /\ \E o \in Outcomes : Pay(o)
  /\ reviewed' = reviewed + 1
  /\ pc' = IF reviewed + 1 < verifications THEN "work" ELSE "search"
  /\ UNCHANGED <<running, left, seed, numsoups, uploaded, logs, stored>>

\* while (running) of perpetualSearch.
EnterSearch ==
  /\ pc = "search"
  /\ pc' = IF running THEN "haul" ELSE "leave"
  /\ UNCHANGED <<running, reviewed, left, seed, numsoups, retries, token,
                 uploaded, logs, worldVars, launchVars>>

\* Slip: a haul is logged when it has been accepted.
afterAccepted == [auth |-> "post", post |-> "log", log |-> "leave"]

\* The steps of submitResults, each with what follows its success.
after == [auth |-> "log", log |-> "post", post |-> "leave"]

\* The search fills a haul; a stop cuts it short, or falls between two rounds
\* and ends it there.
SearchHaul ==
  /\ pc = "haul" /\ numThreads >= 0
  /\ \/ /\ numsoups' \in IF running THEN {numsoups + 1} ELSE {numsoups, numsoups + 1}
        /\ pc' = IF testing THEN after.auth ELSE "auth"
     \/ ~running /\ numsoups' = numsoups /\ pc' = "leave"
  /\ UNCHANGED <<running, reviewed, left, seed, retries, token, uploaded, logs,
                 worldVars, launchVars>>

\* A negative -p passes all checks and is no size for the vector of searchers.
CrashOfSearch ==
  /\ pc = "haul" /\ numThreads < 0
  /\ pc' = "crashed"
  /\ UNCHANGED <<running, reviewed, left, seed, numsoups, retries, token, uploaded,
                 logs, worldVars, launchVars>>

\* submitResults up to the authentication.
AuthenticateHaul ==
  /\ pc = "auth"
  /\ authenticate("post_apgsearch_haul", after.auth, "search")
  /\ UNCHANGED <<running, reviewed, left, seed, numsoups, uploaded, logs>>

\* The local log is written before anything is sent, with -t too.
WriteLog ==
  /\ pc = "log"
  /\ logs' = IF local_log THEN logs \cup {[seed |-> seed, num |-> numsoups]} ELSE logs
  /\ pc' = after.log
  /\ UNCHANGED <<running, reviewed, left, seed, numsoups, retries, token, uploaded,
                 worldVars, launchVars>>

\* The server's side of an upload.
Store(o) == IF o \in {"served", "lost"}
            THEN stored \cup {[seed |-> seed, num |-> numsoups]} ELSE stored

\* The request that uploads; a non-empty answer ends the search.
PostHaul ==
  /\ pc = "post" /\ ~testing
  /\ \E o \in Outcomes :
       /\ Pay(o)
       /\ stored' = Store(o)
       /\ pc' = IF nonEmpty(o) THEN after.post ELSE "search"
       /\ uploaded' = IF nonEmpty(o) THEN uploaded + 1 ELSE uploaded
  /\ UNCHANGED <<running, reviewed, left, seed, numsoups, logs>>

\* With -t nothing is sent and the answer is "testing".
PostNothing ==
  /\ pc = "post" /\ testing
  /\ uploaded' = uploaded + 1
  /\ pc' = after.post
  /\ UNCHANGED <<running, reviewed, left, seed, numsoups, retries, token, logs,
                 worldVars, launchVars>>

\* Slip: no new seed for the next search.
SameSeed == seed

reseed == seed + 1

\* quitByUser = !running; a new seed; one iteration less.
LeaveSearch ==
  /\ pc = "leave"
  /\ left - 1 = 0 \/ ~running \/ seed + 1 < MaxSearches
  /\ seed' = reseed
  /\ numsoups' = 0
  /\ left' = left - 1
  /\ pc' = IF left - 1 = 0 \/ ~running THEN "done" ELSE "round"
  /\ UNCHANGED <<running, reviewed, retries, token, uploaded, logs, worldVars, launchVars>>

\* sigwaiter, or 'q' in an interactive search.
Stop ==
  /\ running /\ pc \notin {"launch", "done", "crashed"}
  /\ running' = FALSE
  /\ UNCHANGED <<pc, reviewed, left, seed, numsoups, retries, token, uploaded,
                 logs, worldVars, launchVars>>

Terminated == pc \in {"done", "crashed"} /\ UNCHANGED vars

Step == \/ Launching \/ Begin \/ CrashOfSearch
        \/ StartRound \/ ObtainWork \/ FetchWork \/ Reauthenticate \/ SubmitReview
        \/ EnterSearch \/ SearchHaul \/ AuthenticateHaul \/ WriteLog \/ PostHaul
        \/ PostNothing \/ LeaveSearch

\* The bound: no more failures are explored of a host that never serves.
Exhausted ==
  /\ failures = MaxFailures /\ "served" \notin condition[retries]
  /\ UNCHANGED vars

Next == Step \/ Stop \/ Terminated \/ Exhausted

Spec == Init /\ [][Next]_vars

\* Every request ends somehow and the search proceeds; nobody has to stop it.
\* (The bound on failures makes a proof of work that is tried again succeed.)
FairSpec == Spec /\ WF_vars(Step)

-----------------------------------------------------------------------------
TypeOK ==
  /\ LaunchTypeOK
  /\ running \in BOOLEAN /\ pc \in Locations
  /\ reviewed \in Nat /\ left \in Int
  /\ seed \in Nat /\ numsoups \in Nat
  /\ retries \in Hosts
  /\ token \in [op : Ops \cup {"none"}, host : Hosts]
  /\ uploaded \in Nat
  /\ logs \subseteq [seed : Nat, num : Nat]
  /\ stored \subseteq [seed : Nat, num : Nat]
  /\ failures \in Nat
  /\ condition \in [Hosts -> SUBSET Outcomes]

\* What each paying request needs.
Needs(l) == CASE l = "fetch"  -> "verify_apgsearch_haul"
              [] l = "review" -> "submit_verification"
              [] l \in {"log", "post"} -> "post_apgsearch_haul"

\* A token is spent on the operation it was asked for and at the host that gave
\* it out: the answer that brings it changes no host, and nothing is sent
\* between the two.
TokenUsable ==
  pc \in {"fetch", "review"} \/ (pc \in {"log", "post"} /\ ~testing) =>
    token = [op |-> Needs(pc), host |-> retries]

\* A haul that is uploaded again, because an answer was lost, replaces what the
\* server has of its seed by no less: the later upload has as many soups.
HaulsGrow ==
  [][\A h \in stored' \ stored :
       \A g \in stored : g.seed = h.seed => g.num < h.num]_vars

NeverRefuses == \A h \in Hosts : "refused" \notin condition[h]

\* "Upload exactly 10 hauls before exiting": the server has hauls of exactly
\* as many seeds as -i says, whatever was lost on the way, if it never answers
\* a haul with a refusal (which the code takes for a success).
UploadsExactly ==
  pc = "done" /\ stage = "ready" /\ running /\ ~testing /\ NeverRefuses =>
    Cardinality({h.seed : h \in stored}) = iterations

\* With -L each haul the server may hold, and each that ends a search, is in a
\* log of its own with its number of soups: also one whose answer was lost or was
\* a refusal, one that was sent again with more soups, and one of a test.
UploadedIsLogged ==
  local_log =>
    /\ stored \subseteq logs
    /\ pc = "leave" /\ running => [seed |-> seed, num |-> numsoups] \in logs

\* Going through the hosts in turn ends at one that always serves: those before
\* it never do, and none of them answers with a bad status, after which the same
\* host is asked again for ever.
ServerInReach ==
  \E h \in Hosts :
    /\ condition[h] = {"served"}
    /\ \A g \in 0 .. h - 1 : condition[g] \subseteq {"refused", "unreachable", "lost"}

\* The first search uploads its haul, unless it is stopped or was not to be, if
\* a host that serves is in reach.
HaulIsUploaded ==
  ServerInReach => <>(uploaded > 0 \/ ~running \/ stage = "exit" \/ numThreads < 0)
=============================================================================
