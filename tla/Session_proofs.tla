--------------------------- MODULE Session_proofs ---------------------------
(* Proofs about Session for every command line, every behaviour of the     *)
(* hosts and any number of failures.                                       *)
EXTENDS Session, Launch_proofs

\* The server has no seed that is not yet used, and of the current seed no more
\* soups than have been censused.
StoredBelow ==
  \A g \in stored : g.seed <= seed /\ (g.seed = seed => g.num <= numsoups)

\* Nothing has been uploaded before the main loop.
NothingAtLaunch == pc = "launch" => stored = {} /\ seed = 0

IInv == TypeOK /\ LaunchInv /\ NothingAtLaunch /\ TokenUsable /\ StoredBelow

\* The launch keeps its invariant and its options once it is over.
LEMMA LaunchKept ==
  ASSUME UNCHANGED launchVars
  PROVE  /\ LaunchInv <=> LaunchInv'
         /\ testing' = testing /\ local_log' = local_log /\ iterations' = iterations
         /\ opts' = opts /\ stage' = stage
  BY DEF launchVars, LaunchInv, LaunchTypeOK, RebuiltOnce, OwnWordsFirst, ReadyToSearch,
         testing, local_log, iterations, Configured

\* The invariant holds at the start.
LEMMA InitIInv == Init => IInv
<1> SUFFICES ASSUME Init PROVE IInv
  OBVIOUS
<1>0. 0 \in Hosts
  BY DEF Hosts
<1>a. condition \in [Hosts -> SUBSET Outcomes]
  BY WorldAssumption DEF Init
<1>b. token \in [op : Ops \cup {"none"}, host : Hosts]
  BY <1>0 DEF Init, NoToken
<1>c. LaunchInv /\ LaunchTypeOK
  BY LaunchInitInv DEF Init, LaunchInv
<1>1. TypeOK
  BY <1>0, <1>a, <1>b, <1>c DEF Init, TypeOK, Locations
<1>2. TokenUsable /\ StoredBelow /\ NothingAtLaunch
  BY DEF Init, TokenUsable, StoredBelow, NothingAtLaunch
<1> QED BY <1>1, <1>2, <1>c DEF IInv

\* Trying the next host stays within the list of hosts.
LEMMA RotatedHost == ASSUME NEW r \in Hosts PROVE Rotated(r) \in Hosts
  BY DEF Hosts, Rotated

\* authenticate yields a token for its operation at the host in use, or none.
LEMMA AuthenticateStep ==
  ASSUME TypeOK, NEW op \in Ops, NEW ok \in Locations, NEW failed \in Locations,
         authenticate(op, ok, failed)
  PROVE  /\ retries' \in Hosts /\ failures' \in Nat
         /\ UNCHANGED <<condition, launchVars>> /\ stored' = stored
         /\ token' \in [op : Ops \cup {"none"}, host : Hosts]
         /\ \/ pc' = ok /\ token' = [op |-> op, host |-> retries']
            \/ pc' = failed
<1>1. PICK o \in Outcomes, worked \in BOOLEAN :
        /\ catagolueRequest(o, o = "served" /\ worked)
        /\ retries' = IF rotates(o) \/ o = "refused" THEN Rotated(retries) ELSE retries
        /\ IF o = "served" /\ worked
           THEN token' = [op |-> op, host |-> retries] /\ pc' = ok
           ELSE token' = NoToken /\ pc' = failed
        /\ UNCHANGED stored
  BY DEF authenticate
<1>2. retries' \in Hosts
  BY <1>1, RotatedHost DEF TypeOK
<1>3. failures' \in Nat /\ UNCHANGED <<condition, launchVars>>
  BY <1>1 DEF catagolueRequest, TypeOK
<1>4. CASE o = "served" /\ worked
  <2>1. retries' = retries
    BY <1>1, <1>4 DEF rotates
  <2> QED BY <1>1, <1>2, <1>3, <1>4, <2>1 DEF TypeOK
<1>5. CASE ~(o = "served" /\ worked)
  BY <1>1, <1>2, <1>3, <1>5 DEF NoToken, Hosts
<1> QED BY <1>4, <1>5

\* A request that pays spends the token and keeps the host within the list.
LEMMA PayStep ==
  ASSUME TypeOK, NEW o \in Outcomes, Pay(o)
  PROVE  /\ retries' \in Hosts /\ failures' \in Nat
         /\ UNCHANGED <<condition, launchVars>>
         /\ token' \in [op : Ops \cup {"none"}, host : Hosts]
<1>1. retries' \in Hosts
  BY RotatedHost DEF TypeOK, Pay
<1> QED BY <1>1 DEF TypeOK, Pay, catagolueRequest, NoToken, Hosts

\* Nothing is stored but what has been searched for the current seed.
LEMMA StoreStep ==
  ASSUME TypeOK, StoredBelow, NEW o \in Outcomes, stored' = Store(o),
         seed' = seed, numsoups' = numsoups
  PROVE  stored' \subseteq [seed : Nat, num : Nat] /\ StoredBelow'
<1> DEFINE new == [seed |-> seed, num |-> numsoups]
<1>1. new \in [seed : Nat, num : Nat] /\ new.seed = seed /\ new.num = numsoups
  BY DEF TypeOK
<1>2. stored' = stored \/ stored' = stored \cup {new}
  BY DEF Store
<1> QED BY <1>1, <1>2 DEF TypeOK, StoredBelow

\* Every step keeps the invariant.
LEMMA NextIInv == IInv /\ [Next]_vars => IInv'
<1> SUFFICES ASSUME IInv, [Next]_vars PROVE IInv'
  OBVIOUS
<1>0. TypeOK /\ LaunchInv /\ NothingAtLaunch /\ TokenUsable /\ StoredBelow
  BY DEF IInv
<1>a. UNCHANGED launchVars => LaunchInv' /\ LaunchTypeOK' /\ testing' = testing
  BY <1>0, LaunchKept DEF LaunchInv
<1> USE DEF clientVars, worldVars, Locations
<1>b. CASE Launching
  <2>1. LaunchInv' /\ UNCHANGED <<clientVars, worldVars>> /\ pc = "launch"
    BY <1>0, <1>b, LaunchNextInv DEF Launching
  <2> QED BY <1>0, <2>1
          DEF IInv, TypeOK, LaunchInv, NothingAtLaunch, TokenUsable, StoredBelow
<1>c. CASE Begin
  <2>1. /\ UNCHANGED <<running, reviewed, seed, numsoups, retries, token, uploaded, logs,
                       stored, failures, condition, launchVars>>
        /\ pc' \in {"round", "done"} /\ left' = iterations
    BY <1>c DEF Begin
  <2>2. iterations \in Int
    BY <1>0 DEF LaunchInv, LaunchTypeOK, iterations, NumberFlags
  <2> QED BY <1>0, <1>a, <2>1, <2>2
          DEF IInv, TypeOK, NothingAtLaunch, TokenUsable, StoredBelow
<1>1. CASE StartRound \/ EnterSearch \/ Stop \/ CrashOfSearch \/ UNCHANGED vars
  <2>1. /\ UNCHANGED <<retries, token, seed, numsoups, stored, uploaded, logs,
                       left, failures, condition, launchVars>>
        /\ reviewed' \in Nat /\ running' \in BOOLEAN /\ pc' \in Locations
        /\ pc' \in {"work", "search", "haul", "leave", "crashed"} \/ pc' = pc
    <3>1. CASE StartRound
      BY <1>0, <3>1 DEF StartRound, TypeOK
    <3>2. CASE EnterSearch
      BY <1>0, <3>2 DEF EnterSearch, TypeOK
    <3>3. CASE Stop
      BY <1>0, <3>3 DEF Stop, TypeOK
    <3>4. CASE CrashOfSearch
      BY <1>0, <3>4 DEF CrashOfSearch, TypeOK
    <3>5. CASE UNCHANGED vars
      BY <1>0, <3>5 DEF vars, TypeOK
    <3> QED BY <1>1, <3>1, <3>2, <3>3, <3>4, <3>5
  <2> QED BY <1>0, <1>a, <2>1
          DEF IInv, TypeOK, NothingAtLaunch, TokenUsable, StoredBelow, Needs
<1>2. CASE ObtainWork \/ Reauthenticate \/ AuthenticateHaul
  <2>1. PICK op \in Ops, ok \in {"fetch", "review", "log"} :
          /\ authenticate(op, ok, "search")
          /\ op = Needs(ok)
          /\ ok = "log" => pc = "auth"
    BY <1>2 DEF ObtainWork, Reauthenticate, AuthenticateHaul, Ops, Needs, after
  <2>2. UNCHANGED <<running, reviewed, left, seed, numsoups, uploaded, logs>>
    BY <1>2 DEF ObtainWork, Reauthenticate, AuthenticateHaul
  <2>3. /\ retries' \in Hosts /\ failures' \in Nat
        /\ UNCHANGED <<condition, launchVars>> /\ stored' = stored
        /\ token' \in [op : Ops \cup {"none"}, host : Hosts]
        /\ \/ pc' = ok /\ token' = [op |-> op, host |-> retries']
           \/ pc' = "search"
    BY <1>0, <2>1, AuthenticateStep
  <2>4. TypeOK' /\ LaunchInv' /\ NothingAtLaunch'
    BY <1>0, <1>a, <2>1, <2>2, <2>3 DEF TypeOK, NothingAtLaunch
  <2>5. TokenUsable'
    BY <2>1, <2>3 DEF TokenUsable, Needs
  <2>6. StoredBelow'
    BY <1>0, <2>2, <2>3 DEF StoredBelow
  <2> QED BY <2>4, <2>5, <2>6 DEF IInv
<1>3. CASE FetchWork \/ SubmitReview
  <2>1. PICK o \in Outcomes : Pay(o)
    BY <1>3 DEF FetchWork, SubmitReview
  <2>2. /\ UNCHANGED <<running, left, seed, numsoups, uploaded, logs, stored>>
        /\ reviewed' \in Nat /\ pc' \in {"work", "reauth", "search"}
    BY <1>0, <1>3 DEF FetchWork, SubmitReview, TypeOK
  <2>3. TypeOK' /\ LaunchInv' /\ NothingAtLaunch'
    BY <1>0, <1>a, <2>1, <2>2, PayStep DEF TypeOK, NothingAtLaunch
  <2>4. TokenUsable' /\ StoredBelow'
    BY <1>0, <2>2 DEF TokenUsable, StoredBelow
  <2> QED BY <2>3, <2>4 DEF IInv
<1>4. CASE SearchHaul
  <2>1. /\ UNCHANGED <<running, reviewed, left, seed, retries, token, uploaded,
                       logs, stored, failures, condition, launchVars>>
        /\ numsoups' \in Nat /\ numsoups <= numsoups'
        /\ pc' \in {"auth", "leave"} \/ (pc' = "log" /\ testing)
    BY <1>0, <1>4 DEF SearchHaul, TypeOK, after
  <2>2. TypeOK' /\ LaunchInv' /\ NothingAtLaunch' /\ TokenUsable'
    BY <1>0, <1>a, <2>1 DEF TypeOK, NothingAtLaunch, TokenUsable
  <2>3. StoredBelow'
    BY <1>0, <2>1 DEF StoredBelow, TypeOK
  <2> QED BY <2>2, <2>3 DEF IInv
<1>5. CASE PostHaul
  <2>1. PICK o \in Outcomes :
          /\ Pay(o) /\ stored' = Store(o)
          /\ pc' \in {"leave", "search"} /\ uploaded' \in Nat
    BY <1>0, <1>5 DEF PostHaul, after, TypeOK
  <2>2. UNCHANGED <<running, reviewed, left, seed, numsoups, logs>>
    BY <1>5 DEF PostHaul
  <2>3. stored' \subseteq [seed : Nat, num : Nat] /\ StoredBelow'
    BY <1>0, <2>1, <2>2, StoreStep
  <2>4. TypeOK' /\ LaunchInv' /\ NothingAtLaunch'
    BY <1>0, <1>a, <2>1, <2>2, <2>3, PayStep DEF TypeOK, NothingAtLaunch
  <2>5. TokenUsable'
    BY <2>1 DEF TokenUsable
  <2> QED BY <2>3, <2>4, <2>5 DEF IInv
<1>6. CASE PostNothing
  <2>1. /\ UNCHANGED <<running, reviewed, left, seed, numsoups, retries, token, logs,
                       stored, failures, condition, launchVars>>
        /\ uploaded' \in Nat /\ pc' = "leave"
    BY <1>0, <1>6 DEF PostNothing, after, TypeOK
  <2> QED BY <1>0, <1>a, <2>1 DEF IInv, TypeOK, NothingAtLaunch, TokenUsable, StoredBelow
<1>7. CASE LeaveSearch
  <2>1. /\ UNCHANGED <<running, reviewed, retries, token, uploaded, logs, stored,
                       failures, condition, launchVars>>
        /\ seed' = seed + 1 /\ numsoups' = 0 /\ left' \in Int
        /\ pc' \in {"done", "round"}
    BY <1>0, <1>7 DEF LeaveSearch, reseed, TypeOK
  <2>2. TypeOK' /\ LaunchInv' /\ NothingAtLaunch' /\ TokenUsable'
    BY <1>0, <1>a, <2>1 DEF TypeOK, NothingAtLaunch, TokenUsable
  <2>3. StoredBelow'
    BY <1>0, <2>1 DEF StoredBelow, TypeOK
  <2> QED BY <2>2, <2>3 DEF IInv
<1>8. CASE WriteLog
  <2>1. /\ UNCHANGED <<running, reviewed, left, seed, numsoups, retries, token, uploaded,
                       stored, failures, condition, launchVars>>
        /\ logs' \subseteq [seed : Nat, num : Nat]
        /\ pc = "log" /\ pc' = "post"
    BY <1>0, <1>8 DEF WriteLog, after, TypeOK
  <2> QED BY <1>0, <1>a, <2>1
          DEF IInv, TypeOK, NothingAtLaunch, TokenUsable, StoredBelow, Needs
<1> QED BY <1>b, <1>c, <1>1, <1>2, <1>3, <1>4, <1>5, <1>6, <1>7, <1>8
        DEF Next, Step, Terminated, Exhausted

\* The invariant holds in every reachable state.
LEMMA Inductive == Spec => []IInv
  BY InitIInv, NextIInv, PTL DEF Spec

\* The client's and the server's variables keep their types.
THEOREM TypeCorrect == Spec => []TypeOK
<1>1. IInv => TypeOK
  BY DEF IInv
<1> QED BY <1>1, Inductive, PTL

\* Whatever the hosts do, a token is spent on its operation at its host.
THEOREM TokensUsable == Spec => []TokenUsable
<1>1. IInv => TokenUsable
  BY DEF IInv
<1> QED BY <1>1, Inductive, PTL

\* Uploads of one seed grow, however many answers are lost.
THEOREM UploadsGrow == Spec => HaulsGrow
<1> DEFINE Grow == \A h \in stored' \ stored :
                     \A g \in stored : g.seed = h.seed => g.num < h.num
<1>1. IInv /\ [Next]_vars => Grow
  <2> SUFFICES ASSUME IInv, [Next]_vars, NEW h \in stored' \ stored,
                      NEW g \in stored, g.seed = h.seed
               PROVE  g.num < h.num
    OBVIOUS
  <2>1. PostHaul
    <3> SUFFICES ASSUME ~PostHaul PROVE stored' = stored
      OBVIOUS
    <3> QED BY DEF Next, Step, Launching, Begin, CrashOfSearch, StartRound, ObtainWork, FetchWork, Reauthenticate,
                   SubmitReview, EnterSearch, SearchHaul, AuthenticateHaul, WriteLog,
                   PostNothing, LeaveSearch, Stop, Terminated, Exhausted, vars, clientVars,
                   worldVars, authenticate
  <2>2. h = [seed |-> seed, num |-> numsoups]
    BY <2>1 DEF PostHaul, Store
  <2>3. g \in [seed : Nat, num : Nat] /\ numsoups \in Nat
    BY DEF IInv, TypeOK
  <2>4. g.num <= numsoups
    BY <2>2 DEF IInv, StoredBelow
  <2>5. g.num # numsoups
    BY <2>2, <2>3
  <2> QED BY <2>2, <2>3, <2>4, <2>5
<1>2. IInv /\ [Next]_vars => [Grow]_vars
  BY <1>1
<1> QED BY <1>2, Inductive, PTL DEF Spec, HaulsGrow

\* A haul is in a log from the writing of the log on, through the request and as
\* long as what has been stored of it is kept.
Logged ==
  local_log =>
    /\ stored \subseteq logs
    /\ pc = "post" \/ (pc = "leave" /\ running) => [seed |-> seed, num |-> numsoups] \in logs

\* Every step keeps the logs of what is stored or is about to be sent.
LEMMA LoggedStep ==
  ASSUME IInv, Logged, [Next]_vars
  PROVE  Logged'
<1> DEFINE new == [seed |-> seed, num |-> numsoups]
<1> USE DEF clientVars, worldVars
<1>1. CASE Launching
  BY <1>1 DEF Launching, IInv, NothingAtLaunch, Logged
<1>2. CASE WriteLog
  <2>1. /\ UNCHANGED <<seed, numsoups, stored, launchVars>>
        /\ local_log => logs' = logs \cup {new}
    BY <1>2 DEF WriteLog
  <2> QED BY <2>1, LaunchKept DEF Logged
<1>3. CASE PostHaul
  <2>1. PICK o \in Outcomes : Pay(o) /\ stored' = Store(o)
    BY <1>3 DEF PostHaul
  <2>2. stored' \subseteq stored \cup {new}
    BY <2>1 DEF Store
  <2>3. local_log' = local_log
    BY <2>1, LaunchKept DEF Pay, catagolueRequest
  <2>4. pc = "post" /\ UNCHANGED <<logs, seed, numsoups>>
    BY <1>3 DEF PostHaul
  <2> QED BY <2>2, <2>3, <2>4 DEF Logged
<1>4. CASE PostNothing \/ Stop \/ UNCHANGED vars
  <2>1. /\ UNCHANGED <<logs, seed, numsoups, stored, launchVars>>
        /\ (running' => running) /\ (pc = "post" \/ pc' = pc)
    BY <1>4 DEF PostNothing, Stop, vars
  <2> QED BY <2>1, LaunchKept DEF Logged
<1>5. CASE \/ Begin \/ CrashOfSearch \/ StartRound \/ ObtainWork \/ FetchWork
           \/ Reauthenticate \/ SubmitReview \/ EnterSearch \/ SearchHaul
           \/ AuthenticateHaul \/ LeaveSearch
  <2>1. UNCHANGED <<logs, stored, launchVars>>
    BY <1>5 DEF Begin, CrashOfSearch, StartRound, ObtainWork, FetchWork, Reauthenticate,
                SubmitReview, EnterSearch, SearchHaul, AuthenticateHaul, LeaveSearch,
                authenticate, Pay, catagolueRequest
  <2>2. pc' # "post" /\ (pc' = "leave" => ~running')
    <3>1. CASE \/ Begin \/ CrashOfSearch \/ StartRound \/ EnterSearch \/ SearchHaul
               \/ LeaveSearch \/ FetchWork \/ SubmitReview
      BY <3>1 DEF Begin, CrashOfSearch, StartRound, EnterSearch, SearchHaul, LeaveSearch,
                  FetchWork, SubmitReview, after
    <3>2. CASE ObtainWork \/ Reauthenticate \/ AuthenticateHaul
      BY <3>2 DEF ObtainWork, Reauthenticate, AuthenticateHaul, authenticate, after
    <3> QED BY <1>5, <3>1, <3>2
  <2> QED BY <2>1, <2>2, LaunchKept DEF Logged
<1> QED BY <1>1, <1>2, <1>3, <1>4, <1>5 DEF Next, Step, Terminated, Exhausted

\* The log comes first: what the server may hold is in it, however the request
\* ends and however often the haul is sent again, and so is what is taken for
\* uploaded.
THEOREM UploadsAreLogged == Spec => []UploadedIsLogged
<1>1. Init => Logged
  BY DEF Init, Logged
<1>2. IInv /\ Logged /\ [Next]_vars => Logged'
  BY LoggedStep
<1>3. Logged => UploadedIsLogged
  BY DEF Logged, UploadedIsLogged
<1> QED BY <1>1, <1>2, <1>3, Inductive, PTL DEF Spec

-----------------------------------------------------------------------------
(* Exactly as many hauls as -i says.                                       *)

Searching == pc \in {"search", "haul", "auth", "log", "post", "leave", "crashed"}

Stored(n) == \E h \in stored : h.seed = n

\* Each seed that was left behind unstopped is stored.
EachSeedStored ==
  /\ pc # "launch" => left = iterations - seed
  /\ pc = "done" /\ stage = "ready" /\ running => left = 0
  /\ ~Searching => \A h \in stored : h.seed < seed
  /\ running /\ ~testing /\ NeverRefuses => \A n \in 0 .. seed - 1 : Stored(n)
  /\ running /\ ~testing /\ NeverRefuses /\ pc = "leave" => Stored(seed)

\* Every step keeps one stored haul for each upload counted.
LEMMA EachSeedStoredStep ==
  ASSUME IInv, EachSeedStored, [Next]_vars
  PROVE  EachSeedStored'
<1>0. TypeOK /\ StoredBelow /\ EachSeedStored
  BY DEF IInv
<1>a. UNCHANGED launchVars =>
        testing' = testing /\ iterations' = iterations /\ stage' = stage
  BY LaunchKept
<1> USE DEF clientVars, worldVars, Searching
<1>b. CASE Launching
  <2>1. /\ UNCHANGED <<running, pc, seed, stored, condition>> /\ pc = "launch"
        /\ stored = {} /\ seed = 0
    BY <1>b DEF Launching, IInv, NothingAtLaunch
  <2> QED BY <2>1 DEF EachSeedStored
<1>c. CASE Begin
  <2>1. /\ UNCHANGED <<running, seed, stored, condition, launchVars>> /\ left' = iterations
        /\ stored = {} /\ seed = 0
        /\ pc' = IF stage = "ready" THEN "round" ELSE "done"
    BY <1>c DEF Begin, IInv, NothingAtLaunch
  <2>2. iterations \in Int
    BY DEF IInv, LaunchInv, LaunchTypeOK, iterations, NumberFlags
  <2> QED BY <1>a, <2>1, <2>2 DEF EachSeedStored
<1>1. CASE \/ StartRound \/ EnterSearch \/ Stop \/ SearchHaul \/ PostNothing
           \/ WriteLog \/ CrashOfSearch \/ UNCHANGED vars
  <2>1. /\ UNCHANGED <<seed, left, stored, condition, launchVars>> /\ (running' => running)
        /\ pc' # pc => pc \notin {"launch", "done"} /\ pc' # "done"
        /\ pc = "launch" => pc' = "launch"
        /\ Searching => Searching'
        /\ running' /\ ~testing /\ pc' = "leave" => pc = "leave"
    BY <1>0, <1>1 DEF StartRound, EnterSearch, Stop, SearchHaul, PostNothing, WriteLog,
                      CrashOfSearch, vars, after
  <2> QED BY <1>0, <1>a, <2>1 DEF EachSeedStored, Stored, NeverRefuses
<1>2. CASE \/ ObtainWork \/ FetchWork \/ Reauthenticate \/ SubmitReview
           \/ AuthenticateHaul
  <2>1. /\ UNCHANGED <<running, seed, left, stored, condition, launchVars>>
        /\ pc # "launch" /\ pc' \notin {"leave", "done"} /\ (Searching => Searching')
    BY <1>2 DEF ObtainWork, FetchWork, Reauthenticate, SubmitReview,
                AuthenticateHaul, authenticate, Pay, catagolueRequest, after
  <2> QED BY <1>0, <1>a, <2>1 DEF EachSeedStored, Stored, NeverRefuses
<1>3. CASE PostHaul
  <2>1. PICK o \in Outcomes :
          /\ Pay(o) /\ stored' = Store(o)
          /\ pc' = IF nonEmpty(o) THEN "leave" ELSE "search"
    BY <1>3 DEF PostHaul, after
  <2>2. UNCHANGED <<running, seed, left, numsoups, condition, launchVars>> /\ pc = "post"
    BY <1>3, <2>1 DEF PostHaul, Pay, catagolueRequest
  <2>3. NeverRefuses => o # "refused"
    BY <1>0, <2>1 DEF NeverRefuses, TypeOK, Pay, catagolueRequest
  <2>4. NeverRefuses /\ pc' = "leave" => \E h \in stored' : h.seed = seed
    <3> SUFFICES ASSUME NeverRefuses, pc' = "leave" PROVE \E h \in stored' : h.seed = seed
      OBVIOUS
    <3>1. o = "served"
      BY <2>1, <2>3 DEF nonEmpty
    <3>2. [seed |-> seed, num |-> numsoups] \in stored'
      BY <2>1, <3>1 DEF Store
    <3> QED BY <3>2
  <2>5. stored \subseteq stored' /\ Searching'
    BY <2>1 DEF Store
  <2> QED BY <1>0, <1>a, <2>1, <2>2, <2>4, <2>5 DEF EachSeedStored, Stored, NeverRefuses
<1>4. CASE LeaveSearch
  <2>1. /\ UNCHANGED <<running, stored, condition, launchVars>> /\ pc = "leave"
        /\ seed' = seed + 1 /\ left' = left - 1
        /\ pc' = IF left - 1 = 0 \/ ~running THEN "done" ELSE "round"
    BY <1>4 DEF LeaveSearch, reseed
  <2>2. seed \in Nat /\ left \in Int /\ iterations \in Int
        /\ \A h \in stored : h.seed \in Nat
    BY <1>0 DEF TypeOK, IInv, LaunchInv, LaunchTypeOK, iterations, NumberFlags
  <2>3. left' = iterations' - seed'
    BY <1>0, <1>a, <2>1, <2>2 DEF EachSeedStored
  <2>4. \A h \in stored' : h.seed < seed'
    BY <1>0, <2>1, <2>2 DEF StoredBelow
  <2>5. running' /\ ~testing /\ NeverRefuses => \A n \in 0 .. seed' - 1 : Stored(n)'
    <3> SUFFICES ASSUME running', ~testing, NeverRefuses, NEW n \in 0 .. seed' - 1
                 PROVE  Stored(n)'
      OBVIOUS
    <3>1. n \in 0 .. seed - 1 \/ n = seed
      BY <2>1, <2>2
    <3>2. Stored(n)
      BY <1>0, <2>1, <3>1 DEF EachSeedStored
    <3> QED BY <2>1, <3>2 DEF Stored
  <2>6. NeverRefuses' <=> NeverRefuses
    BY <2>1 DEF NeverRefuses
  <2> QED BY <1>0, <1>a, <2>1, <2>2, <2>3, <2>4, <2>5, <2>6 DEF EachSeedStored
<1> QED BY <1>b, <1>c, <1>1, <1>2, <1>3, <1>4 DEF Next, Step, Terminated, Exhausted

\* If no host answers 200 with something else than was asked for, a run that is
\* not stopped uploads hauls of exactly "iterations" seeds.
THEOREM UploadsAreExact == Spec => []UploadsExactly
<1>1. Init => EachSeedStored
  BY DEF Init, EachSeedStored, Searching
<1>2. IInv /\ EachSeedStored /\ [Next]_vars => EachSeedStored'
  BY EachSeedStoredStep
<1>3. IInv /\ EachSeedStored => UploadsExactly
  <2> SUFFICES ASSUME IInv, EachSeedStored, pc = "done", stage = "ready",
                      running, ~testing, NeverRefuses
               PROVE  Cardinality({h.seed : h \in stored}) = iterations
    BY DEF UploadsExactly
  <2>1. seed = iterations /\ iterations \in Nat
    <3>1. left = iterations - seed /\ left = 0
      BY DEF EachSeedStored
    <3>2. seed \in Nat /\ iterations \in Int
      BY DEF IInv, TypeOK, LaunchInv, LaunchTypeOK, iterations, NumberFlags
    <3> QED BY <3>1, <3>2
  <2>2. \A h \in stored : h.seed \in 0 .. iterations - 1
    BY <2>1 DEF EachSeedStored, Searching, IInv, TypeOK
  <2>3. \A n \in 0 .. iterations - 1 : \E h \in stored : h.seed = n
    BY <2>1 DEF EachSeedStored, Stored, NeverRefuses
  <2>4. {h.seed : h \in stored} = 0 .. iterations - 1
    BY <2>2, <2>3
  <2>5. Cardinality(0 .. iterations - 1) = iterations
    <3>1. 0 \in Int /\ iterations - 1 \in Int
      BY <2>1
    <3>2. Cardinality(0 .. iterations - 1)
            = IF 0 > iterations - 1 THEN 0 ELSE (iterations - 1) - 0 + 1
      BY <3>1, FS_Interval
    <3> QED BY <2>1, <3>2
  <2> QED BY <2>4, <2>5
<1> QED BY <1>1, <1>2, <1>3, Inductive, PTL DEF Spec

-----------------------------------------------------------------------------
(* The launch.                                                             *)

\* Whatever is typed and whatever lifelib makes of it, the executable is built
\* anew at most once: the words the script puts first satisfy it.
THEOREM RebuildsEnd == Spec => []RebuiltOnce
<1>1. IInv => RebuiltOnce
  BY DEF IInv, LaunchInv
<1> QED BY <1>1, Inductive, PTL

\* The checks before the main loop leave no haul that is empty or no whole
\* number of epochs, no undecided number of reviews and no GPU without threads.
THEOREM LaunchIsReady == Spec => []ReadyToSearch
<1>1. IInv => ReadyToSearch
  BY DEF IInv, LaunchInv
<1> QED BY <1>1, Inductive, PTL

\* Nothing but a launch touches the options of a run.
LEMMA LaunchedOrKept ==
  ASSUME [Next]_vars PROVE LaunchNext \/ UNCHANGED launchVars
<1>1. CASE Next
  <2>1. CASE ObtainWork \/ Reauthenticate \/ AuthenticateHaul
    BY <2>1 DEF ObtainWork, Reauthenticate, AuthenticateHaul, authenticate, catagolueRequest
  <2>2. CASE FetchWork \/ SubmitReview \/ PostHaul
    BY <2>2 DEF FetchWork, SubmitReview, PostHaul, Pay, catagolueRequest
  <2>3. CASE \/ Launching \/ Begin \/ CrashOfSearch \/ StartRound \/ EnterSearch
             \/ SearchHaul \/ WriteLog \/ PostNothing \/ LeaveSearch \/ Stop
             \/ Terminated \/ Exhausted
    BY <2>3 DEF Launching, Begin, CrashOfSearch, StartRound, EnterSearch, SearchHaul, WriteLog,
                PostNothing, LeaveSearch, Stop, Terminated, Exhausted, vars
  <2> QED BY <1>1, <2>1, <2>2, <2>3 DEF Next, Step
<1>2. CASE UNCHANGED vars
  BY <1>2 DEF vars
<1> QED BY <1>1, <1>2

\* Whatever is typed: a run that begins has the rule, the symmetry and the options
\* that were typed, however many programs and scripts the words went through.
THEOREM RunsAsTyped == Spec => []RunsAsAsked
<1>1. Init => AsTyped /\ RunsAsAsked
  BY LaunchInitAsTyped DEF Init
<1>2. IInv /\ AsTyped /\ RunsAsAsked /\ [Next]_vars => (AsTyped /\ RunsAsAsked)'
  <2> SUFFICES ASSUME IInv, AsTyped, RunsAsAsked, [Next]_vars
               PROVE  AsTyped' /\ RunsAsAsked'
    OBVIOUS
  <2>1. LaunchNext \/ UNCHANGED launchVars
    BY LaunchedOrKept
  <2>2. CASE LaunchNext
    BY <2>2, LaunchNextAsTyped DEF IInv
  <2>3. CASE UNCHANGED launchVars
    BY <2>3, LaunchKeptAsTyped
  <2> QED BY <2>1, <2>2, <2>3
<1> QED BY <1>1, <1>2, Inductive, PTL DEF Spec
=============================================================================
