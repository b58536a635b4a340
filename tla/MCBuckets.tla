------------------------------- MODULE MCBuckets ------------------------------
(* The scenarios of the runs of Buckets. *)
EXTENDS Buckets

(* Two accounts after one bucket name *)
TwoAccounts ==
    [clients |-> {"first", "second"}, regions |-> {"us-east-1"},
     ops |-> {"create", "ensure", "location", "exists"}, calls |-> 1, cut |-> {"ensure"}]

(* One client, configured for its endpoint or for another one *)
TwoRegions ==
    [clients |-> {"first"}, regions |-> {"us-east-1", "mars-1"},
     ops |-> {"create", "ensure", "location", "exists"}, calls |-> 2, cut |-> {"ensure"}]

(* One client and its object, with requests of earlier calls on their way *)
OneObject ==
    [clients |-> {"first"}, regions |-> {"mars-1"},
     ops |-> {"ensure", "upload", "delete", "size"}, calls |-> 3, cut |-> {"upload", "delete"}]

(* The answer of GetBucketLocation, cut short *)
CutLocation ==
    [clients |-> {"first"}, regions |-> {"fsn1"}, ops |-> {"location"}, calls |-> 1,
     cut |-> {"location"}]

MCScenarios ==
    ("two accounts" :> TwoAccounts) @@ ("two regions" :> TwoRegions) @@ ("one object" :> OneObject)
MCCutScenarios == "cut location" :> CutLocation
=============================================================================
