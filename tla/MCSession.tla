----------------------------- MODULE MCSession -----------------------------
(* Instances of Session for TLC. *)
EXTENDS Session

\* Requests may fail in any way, but what is answered 200 is as hoped.
NoRefusals == {[h \in Hosts |-> Outcomes \ {"refused"}]}

\* Each host behaves one way, and one of them serves.
OneServes ==
  {c \in [Hosts -> {{o} : o \in Outcomes}] : \E h \in Hosts : c[h] = {"served"}}

Mixed == NoRefusals \cup OneServes

-----------------------------------------------------------------------------
(* Words and what lifelib makes of them.                                   *)

AllWords ==
  NumberFlags \cup WordFlags \cup Configurable
    \cup {"--immediate", "--cuda", "--mingw", "b3s23", "B3/S23", "b3/x", "C1", "G1", "stdin",
          "D2", "H2", "#anon", "me", "original seed", "0", "1", "2", "-1", "7", "30", "4096"}

Atoi == [w \in AllWords |->
           CASE w = "1" -> 1 [] w = "2" -> 2 [] w = "-1" -> -1 [] w = "7" -> 7
             [] w = "30" -> 30 [] w = "4096" -> 4096 [] OTHER -> 0]

Dashed == Configurable \cup {"--immediate", "--cuda", "--mingw"}

Canonical == [w \in AllWords |-> CASE w \in {"b3s23", "B3/S23"} -> "b3s23" [] OTHER -> "no rule"]

ForG == [w \in AllWords |-> CASE w = "C1" -> "G1" [] w = "D2" -> "H2" [] OTHER -> w]

-----------------------------------------------------------------------------
(* Ways to start the program.                                              *)

Cpu == [rule |-> "b3s23", symmetry |-> "C1", gpu |-> FALSE]
CpuD2 == [Cpu EXCEPT !.symmetry = "D2"]
Gpu == [rule |-> "b3s23", symmetry |-> "G1", gpu |-> TRUE]
Stdin == [Cpu EXCEPT !.symmetry = "stdin"]

Launches ==
  { \* two hauls, whatever else is said on the way
    [entry |-> "apgluxe", build |-> Cpu,
     words |-> <<"-i", "7", "-L", "1", "-v", "1", "-i", "2">>],
    \* another rule of the same name, options before and after
    [entry |-> "apgluxe", build |-> CpuD2,
     words |-> <<"-L", "1", "-v", "0", "--rule", "B3/S23", "-k", "me", "-n", "7", "-i", "1">>],
    \* one search of a test, then a number of searches after all
    [entry |-> "apgluxe", build |-> Cpu, words |-> <<"-t", "1", "-L", "1">>],
    [entry |-> "apgluxe", build |-> CpuD2,
     words |-> <<"-t", "1", "--symmetry", "C1", "--rule", "B3/S23", "-i", "2", "-v", "0">>],
    \* a GPU build is asked for, twice the same word
    [entry |-> "apgluxe", build |-> Cpu,
     words |-> <<"-t", "1", "-n", "7", "--symmetry", "D2", "--cuda", "-s", "-k", "-k", "me">>],
    [entry |-> "apgluxe", build |-> Gpu, words |-> <<"--symmetry", "G1", "-t", "7", "-n", "30", "-p", "30">>],
    \* soups from the standard input, which has no threads
    [entry |-> "apgluxe", build |-> Stdin, words |-> <<"-p", "7", "-t", "2", "-u", "4096">>],
    [entry |-> "apgluxe", build |-> Cpu, words |-> <<"--symmetry", "stdin", "-t", "1", "-L", "0">>],
    \* nothing said
    [entry |-> "apgluxe", build |-> Cpu, words |-> <<>>],
    \* no search is asked for, or none is possible
    [entry |-> "apgluxe", build |-> Cpu, words |-> <<"--rule", "b3s23", "--symmetry", "C1">>],
    [entry |-> "apgluxe", build |-> Cpu, words |-> <<"--rule", "b3/x", "-i", "1">>],
    [entry |-> "apgluxe", build |-> Cpu, words |-> <<"--rule", "B3/S23", "--rule", "b3s23", "-i", "1">>],
    [entry |-> "apgluxe", build |-> Cpu, words |-> <<"-n", "0">>],
    [entry |-> "apgluxe", build |-> Cpu, words |-> <<"-u", "7", "-n", "1">>],
    [entry |-> "apgluxe", build |-> Cpu, words |-> <<"-p", "-1", "-v", "0">>],
    \* the script itself
    [entry |-> "recompile.sh", build |-> Cpu, words |-> <<"--cuda">>],
    [entry |-> "recompile.sh", build |-> Cpu, words |-> <<"--mingw">>],
    [entry |-> "recompile.sh", build |-> Cpu,
     words |-> <<"--symmetry", "G1", "--immediate", "-t", "1">>] }
=============================================================================
