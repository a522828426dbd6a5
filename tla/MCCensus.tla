------------------------------ MODULE MCCensus ------------------------------
(* An instance of Census for TLC. *)
EXTENDS Census, TLC

Kinds == "xs" :> "x" @@ "yl" :> "y" @@ "zz" :> "z" @@ "PATHOLOGICAL" :> "PATHOLOGICAL"

SomeTallies ==
  {"xs" :> n : n \in 1 .. 3}
    \cup {"xs" :> 1 @@ "PATHOLOGICAL" :> 1, "xs" :> 1 @@ "zz" :> 1,
          "yl" :> 1 @@ "PATHOLOGICAL" :> 1, "yl" :> 2}

Sizes == <<1, 1, 2>>
=============================================================================
