------------------------------ MODULE MCEnvAsOf ------------------------------
(***************************************************************************)
(* Two streams of up to four records each, any of which may lack the       *)
(* container (as BeginRun does in the scan store).  Either both streams    *)
(* declare one algorithm, each with "x" or with "x" and "y", or stream 1   *)
(* declares "x" and stream 0 another algorithm with "x" and "y"; nobody    *)
(* declares "z".                                                           *)
(***************************************************************************)
EXTENDS EnvAsOf, TLC

Timelines == {<<>>, <<2>>, <<1, 2, 3, 4>>, <<1, 3, 3>>, <<2, 3, 5, 6>>}

Lines(alg, timelines) ==
    UNION {{[i \in DOMAIN times |-> [ts |-> times[i], algs |-> IF i \in with THEN {alg} ELSE {}]]
               : with \in SUBSET DOMAIN times} : times \in timelines}

Few == {<<2>>, <<1, 3, 3>>}

OneAlg(first, second) == <<[tables |-> 0 :> first @@ 1 :> second]>>
SameFields == OneAlg({"x", "y"}, {"x", "y"})
OwnFields == {OneAlg({"x", "y"}, {"x"}), OneAlg({"x"}, {"x", "y"})}
TwoAlgs == <<[tables |-> 1 :> {"x"}], [tables |-> 0 :> {"x", "y"}]>>

MCStores ==
    {[algs |-> algs, records |-> 0 :> first @@ 1 :> second] :
        algs \in {SameFields} \cup OwnFields,
        first \in Lines(1, Timelines), second \in Lines(1, Few)}
    \cup {[algs |-> TwoAlgs, records |-> 0 :> first @@ 1 :> second] :
        first \in Lines(2, Few), second \in Lines(1, Timelines)}
    \cup {[algs |-> SameFields, records |-> 1 :> second] : second \in Lines(1, Few)}

MCQueries == [var : {"x", "y", "z"}, ts : {0, 2, 3, 7}]
=============================================================================
