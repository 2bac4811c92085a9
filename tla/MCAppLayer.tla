---------------------------- MODULE MCAppLayer ----------------------------
(* Values for AppLayer: how much each user hands to its channels, and which *)
(* stations lose their lower layer.                                         *)
EXTENDS AppLayer

CONSTANTS Polls, Answers, Unsols, MasterDowns, OutstationDowns

SomeOfEach == [k \in {Master, Outstation} \X {"sol", "uns"} |->
  CASE k = <<Master, "sol">>     -> Polls
    [] k = <<Outstation, "sol">> -> Answers
    [] k = <<Outstation, "uns">> -> Unsols
    [] OTHER                     -> 0]

Losses == [p \in {Master, Outstation} |-> IF p = Master THEN MasterDowns ELSE OutstationDowns]
=============================================================================
