-------------------------- MODULE MCPhase41Capture --------------------------
(* An instance of Phase41Capture: an exchange whose best ask goes, which     *)
(* brings an ask to the top that a snapshot of one level a side did not      *)
(* reach, then adds a deeper ask and moves its bid to the price of the old   *)
(* ask.  A book missing an update is one-sided, crossed or simply wrong.     *)
EXTENDS Phase41Capture

\* The single level each update writes, and its new size.
MCChange == << [level |-> <<"ask", 2>>, size |-> 0],
               [level |-> <<"ask", 4>>, size |-> 1],
               [level |-> <<"bid", 2>>, size |-> 1],
               [level |-> <<"bid", 1>>, size |-> 0] >>

MCHistory ==
  [n \in 0..LastId |->
     [l \in Level |->
        LET writes == {i \in 1..n : MCChange[i].level = l}
        IN  IF writes = {}
            THEN (IF l \in {<<"bid", 1>>, <<"ask", 2>>, <<"ask", 3>>} THEN 1 ELSE 0)
            ELSE MCChange[CHOOSE i \in writes : \A j \in writes : j <= i].size]]

MCTouch == [n \in 1..LastId |-> {MCChange[n].level}]
=============================================================================
