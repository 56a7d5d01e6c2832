----------------------------- MODULE MCServices -----------------------------
(***************************************************************************)
(* Five small parts for TLC: the registry of buffers, the rails of the     *)
(* plugin, the search for paths, the predictor, and drain_ready against    *)
(* any other calls of the executor.  They share no state, so a behaviour   *)
(* is one of them at work while the others stay in one initial state of    *)
(* theirs.                                                                 *)
(***************************************************************************)
EXTENDS MemoryRegistry, PluginRails, PathSearch, Predictor, MCExecutorDrain

VARIABLE scene  \* the part that is at work

serviceVars == <<scene, registryVars, railsVars, searchVars, predictorVars, drainVars>>

Gpu(n, i) == [node |-> n, kind |-> "gpu", id |-> i]
Cpu(n) == [node |-> n, kind |-> "cpu", id |-> 0]

(* Between nodes with 1, 2 and 4 GPUs; within nodes with 2, 4 and 8 GPUs,  *)
(* the last with the k of initialize.                                      *)
MCSearches ==
  [nodes : {2}, gpus : {1, 2}, src : {Gpu(0, 0)}, dst : {Gpu(1, 0)}, k : {1, 2, 3, 6},
   max_hops : 2..5]
    \cup [nodes : {2}, gpus : {4}, src : {Gpu(0, 0)}, dst : {Gpu(1, 0)}, k : {3}, max_hops : {4}]
    \cup [nodes : {1}, gpus : {2, 4}, src : {Gpu(0, 0)}, dst : {Gpu(0, 0), Gpu(0, 1), Cpu(0)},
          k : {1, 3, 6}, max_hops : 1..4]
    \cup [nodes : {1}, gpus : {8}, src : {Gpu(0, 0)}, dst : {Gpu(0, 1)}, k : {6}, max_hops : {4}]

(* Every format with every end, and whole v2 files with every shape.       *)
MCWeightFiles ==
  [format : Formats, ends : Ends, layer1 : {"file"}, layer2 : {"file"}]
    \cup [format : {"v2"}, ends : {"in layer 2", "whole"}, layer1 : Shapes, layer2 : Shapes]

AtRest(at) ==
  /\ at # "registry" => cuda = FALSE
  /\ at # "rails" => found = 0
  /\ at # "search" => search = CHOOSE s \in Searches : TRUE
  /\ at # "predictor" => edges = CHOOSE n \in PredictedEdges : TRUE
  /\ at # "predictor" => cursor = CHOOSE c \in FirstCursors : TRUE

ServicesInit ==
  /\ scene \in {"registry", "rails", "search", "predictor", "drain"}
  /\ RegistryInit /\ RailsInit /\ SearchInit /\ PredictorInit /\ DrainInit
  /\ AtRest(scene)

ServicesNext ==
  \/ scene = "registry" /\ RegistryNext
       /\ UNCHANGED <<scene, railsVars, searchVars, predictorVars, drainVars>>
  \/ scene = "rails" /\ RailsNext
       /\ UNCHANGED <<scene, registryVars, searchVars, predictorVars, drainVars>>
  \/ scene = "search" /\ SearchNext
       /\ UNCHANGED <<scene, registryVars, railsVars, predictorVars, drainVars>>
  \/ scene = "predictor" /\ PredictorNext
       /\ UNCHANGED <<scene, registryVars, railsVars, searchVars, drainVars>>
  \/ scene = "drain" /\ DrainNext
       /\ UNCHANGED <<scene, registryVars, railsVars, searchVars, predictorVars>>

(* The drain's own fairness; nothing else is fair.                         *)
ServicesSpec ==
  ServicesInit /\ [][ServicesNext]_serviceVars /\ WF_drainVars(DrainStep)
=============================================================================
