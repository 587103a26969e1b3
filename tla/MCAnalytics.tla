---------------------------- MODULE MCAnalytics ----------------------------
(* A small instance of Analytics, and with it of MasterCatalog. *)
EXTENDS Analytics, TLC

\* Two tenants; the second has a country of its own only.
MCSeed ==
  [country |-> (1 :> [tenant |-> 1, parent |-> None]) @@ (2 :> [tenant |-> 2, parent |-> None]),
   university |-> (3 :> [tenant |-> 1, parent |-> 1]) @@ (4 :> [tenant |-> 1, parent |-> 1]),
   program |-> (5 :> [tenant |-> 1, parent |-> 3])]

MCBranches == (1 :> 1)

\* A template of the program with a document, a student of day 0, and two applications of day
\* 0, one of which is of the time before applications had a branch.
MCEarlier ==
  [template |-> (6 :> [tenant |-> 1, parent |-> 5]),
   uploads |-> (1 :> 6),
   students |-> (1 :> [tenant |-> 1, branch |-> 1, targets |-> <<1, 3, 5>>, created |-> 0]),
   applications |->
     (1 :> [tenant |-> 1, branch |-> None, university |-> 3, program |-> 5,
            stage |-> "counseling", created |-> 0])
     @@ (2 :> [tenant |-> 1, branch |-> 1, university |-> 3, program |-> 5,
               stage |-> "registered", created |-> 1])]

Perms == Permutations(Threads)
=============================================================================
