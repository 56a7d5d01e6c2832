------------------------------ MODULE Predictor ------------------------------
(***************************************************************************)
(* The LSTM predictor's state (lstm/lstm_predictor.cpp) and the part of    *)
(* the shim that feeds it (shim/shim.cpp: the loading of the weights in    *)
(* initialize, run_profiling_sweep and refresh_predictions).               *)
(*                                                                         *)
(* run_profiling_sweep samples and predicts every edge once, then          *)
(* refreshes until 200 ms are over: a refresh samples every edge and       *)
(* predicts the next Batch of them, from a cursor that all shims of a      *)
(* thread share, so where it starts is open.  A sweep may be run again.    *)
(*                                                                         *)
(* Abstracted: a sample is the number of the push that brought it, the     *)
(* same for all edges, 0 where the history still has its filling; a        *)
(* prediction is the history it was computed from.  The forward pass, the  *)
(* quantization and online_update, which nothing calls, are left out; of   *)
(* the weights it is kept where each part of them comes from.              *)
(***************************************************************************)
EXTENDS Integers, Sequences

CONSTANTS
  PredictedEdges,  \* graph_->edges().size(), the sizes to look at
  HistoryLen,      \* HISTORY_LEN
  Batch,           \* kBatch
  FirstCursors,    \* where another shim of the thread may have left the cursor
  WeightFiles,     \* the files initialize may be given
  MaxPushes        \* bound on the samples of an edge

(* A file has a format (with the magic, version, hidden and nlayers of a   *)
(* header), a place where it ends, and for each layer of a v2 file what    *)
(* the predictor has of it once it is read: the layer the network needs,   *)
(* or one with other numbers of rows (none at all, for one) or inputs.     *)
Formats == {"missing", "legacy", "v2", "v2 with another header"}
Shapes == {"file", "other rows", "other inputs"}
Ends == {"in header", "in layer 1", "in layer 2", "before head", "in head",
         "whole"}

ASSUME PredictorAssumption ==
  /\ PredictedEdges \subseteq Nat \ {0} /\ {HistoryLen, Batch} \subseteq Nat \ {0}
  /\ FirstCursors \subseteq Nat /\ MaxPushes \in Nat
  /\ WeightFiles \subseteq [format : Formats, ends : Ends, layer1 : Shapes, layer2 : Shapes]

VARIABLES
  edges,    \* the number of edges
  weights,  \* layers_, the head and weights_loaded_; refused: load_weights failed
  pushes,   \* the number of samples pushed so far, for each edge
  history,  \* edge_history_, with edge_hist_count_
  predicted,\* prediction_cache_
  cursor,   \* cursor of refresh_predictions
  turn      \* where the shim is: what it does next

predictorVars == <<edges, weights, pushes, history, predicted, cursor, turn>>

EdgeIds == 0 .. (edges - 1)

Unfilled == [i \in 1..HistoryLen |-> 0]

Defaults == [layer1 |-> "default", layer2 |-> "default", head |-> "default", loaded |-> FALSE,
             refused |-> FALSE]

PredictorInit ==
  /\ edges \in PredictedEdges
  /\ weights = Defaults
  /\ pushes = 0
  /\ history = [e \in EdgeIds |-> [samples |-> Unfilled, count |-> 0]]
  /\ predicted = [e \in EdgeIds |-> Unfilled]
  /\ cursor \in FirstCursors
  /\ turn = [at |-> "load"]

-----------------------------------------------------------------------------
(* load_weights *)

Refused(w) == [w EXCEPT !.refused = TRUE]
Loaded(w) == [w EXCEPT !.loaded = TRUE]

(* A v2 file replaces the layers before they are read: layers the file     *)
(* does not reach are empty, the one it ends in is not what it was nor     *)
(* what the file says.  Each layer brings its own numbers of rows and of   *)
(* inputs, which are taken as they are.  The head is read last; the file   *)
(* whose head has another size is refused like one that ends before it.    *)
Layers(w, layer1, layer2) == [w EXCEPT !.layer1 = layer1, !.layer2 = layer2]

\* mutant: the end of the head is not checked
LoadV2Unchecked(w, file) ==
  LET read == Layers(w, file.layer1, file.layer2)
  IN CASE file.ends = "in header" -> Refused(w)
       [] file.ends = "in layer 1" -> Refused(Layers(w, "broken", "empty"))
       [] file.ends = "in layer 2" -> Refused(Layers(w, file.layer1, "broken"))
       [] file.ends = "before head" -> Refused(read)
       [] file.ends = "in head" -> Loaded([read EXCEPT !.head = "broken"])
       [] file.ends = "whole" -> Loaded([read EXCEPT !.head = "file"])

LoadV2(w, file) ==
  LET read == Layers(w, file.layer1, file.layer2)
  IN CASE file.ends = "in header" -> Refused(w)
       [] file.ends = "in layer 1" -> Refused(Layers(w, "broken", "empty"))
       [] file.ends = "in layer 2" -> Refused(Layers(w, file.layer1, "broken"))
       [] file.ends = "before head" -> Refused(read)
       [] file.ends = "in head" -> Refused([read EXCEPT !.head = "broken"])
       [] file.ends = "whole" -> Loaded([read EXCEPT !.head = "file"])

(* Anything without the magic is read over the first layer, which keeps    *)
(* its shape.                                                              *)
LoadLegacy(w, ends) ==
  IF ends = "whole" THEN Loaded([w EXCEPT !.layer1 = "file"])
  ELSE Refused([w EXCEPT !.layer1 = "broken"])

(* initialize: no file, or one that may or may not be what it should.      *)
Load ==
  /\ turn.at = "load"
  /\ \/ UNCHANGED weights
     \/ \E file \in WeightFiles :
          weights' = CASE file.format = "v2" -> LoadV2(weights, file)
                       [] file.format = "legacy" -> LoadLegacy(weights, file.ends)
                       [] OTHER -> Refused(weights)
  /\ turn' = [at |-> "sweep"]
  /\ UNCHANGED <<edges, pushes, history, predicted, cursor>>

-----------------------------------------------------------------------------
(* Samples and predictions *)

(* push_sample: the history fills from its start, then moves on.           *)
Pushed(h, sample) ==
  IF h.count < HistoryLen
  THEN [samples |-> [h.samples EXCEPT ![h.count + 1] = sample], count |-> h.count + 1]
  ELSE [samples |-> Append(Tail(h.samples), sample), count |-> h.count]

PushAll ==
  /\ pushes < MaxPushes
  /\ pushes' = pushes + 1
  /\ history' = [e \in EdgeIds |-> Pushed(history[e], pushes + 1)]

(* run_profiling_sweep: a sample of every edge...                          *)
SampleAll ==
  /\ turn.at = "sweep"
  /\ PushAll
  /\ turn' = [at |-> "warmup", edge |-> 0]
  /\ UNCHANGED <<edges, weights, predicted, cursor>>

(* ... then predict_edge and update_cache, edge by edge.                   *)
WarmUp ==
  /\ turn.at = "warmup"
  /\ predicted' = [predicted EXCEPT ![turn.edge] = history[turn.edge].samples]
  /\ turn' = IF turn.edge + 1 < edges THEN [turn EXCEPT !.edge = @ + 1] ELSE [at |-> "loop"]
  /\ UNCHANGED <<edges, weights, pushes, history, cursor>>

(* refresh_predictions.                                                    *)
SampleAgain ==
  /\ turn.at = "loop"
  /\ PushAll
  /\ turn' = [at |-> "refresh", i |-> 0]
  /\ UNCHANGED <<edges, weights, predicted, cursor>>

\* mutant: the cursor moves past an edge that was not predicted
AfterBatchSkips == (cursor + Batch + 1) % edges

AfterBatch == (cursor + Batch) % edges

Refresh ==
  LET e == (cursor + turn.i) % edges
      last == turn.i + 1 = Batch
  IN /\ turn.at = "refresh"
     /\ predicted' = [predicted EXCEPT ![e] = history[e].samples]
     /\ turn' = IF last THEN [at |-> "loop"] ELSE [turn EXCEPT !.i = @ + 1]
     /\ cursor' = IF last THEN AfterBatch ELSE cursor
     /\ UNCHANGED <<edges, weights, pushes, history>>

(* The 200 ms are over; the application may run another sweep.             *)
EndSweep ==
  /\ turn.at = "loop"
  /\ turn' = [at |-> "sweep"]
  /\ UNCHANGED <<edges, weights, pushes, history, predicted, cursor>>

PredictorNext ==
  Load \/ SampleAll \/ WarmUp \/ SampleAgain \/ Refresh \/ EndSweep

PredictorSpec == PredictorInit /\ [][PredictorNext]_predictorVars

-----------------------------------------------------------------------------
(* Properties *)

(* The history as it should be after some pushes: the newest samples in    *)
(* their order, with the filling behind them while they are few.           *)
HistoryAfter(n) ==
  [i \in 1..HistoryLen |->
     IF n >= HistoryLen THEN n - HistoryLen + i ELSE IF i <= n THEN i ELSE 0]

(* Once an edge has been warmed up, its prediction is never older than the *)
(* refreshes the cursor needs to come around: it was computed from the     *)
(* newest samples as they were at most that many pushes ago, whatever the  *)
(* number of edges and wherever another shim left the cursor               *)
(* (shim.cpp:102-113, "predict a rotating window of edges each call").     *)
Rounds == (edges + Batch - 1) \div Batch

PredictionsKeepUp ==
  turn.at \in {"loop", "refresh"} =>
    \A e \in EdgeIds :
      \E lag \in 0 .. Rounds : lag < pushes /\ predicted[e] = HistoryAfter(pushes - lag)

(* weights_loaded() is only true of a file that was read to its end: the   *)
(* first layer is the file's, no part was left empty or half read by a     *)
(* file that ended, and the second layer is the file's exactly when the    *)
(* head is, so that no file leaves a mixture; wherever files end and       *)
(* whatever shapes they give the layers (load_weights, the returns at      *)
(* lstm_predictor.cpp:129, 150-166, 170 and 174).  It does not say that    *)
(* the layers fit the network: a whole file with other numbers of rows or  *)
(* inputs, none included, is loaded as well (149-155).                     *)
LoadedMeansRead ==
  weights.loaded =>
    /\ {weights.layer1, weights.layer2, weights.head} \cap {"empty", "broken"} = {}
    /\ weights.layer1 # "default"
    /\ weights.layer2 = "default" <=> weights.head = "default"

(* initialize says of a file that cannot be loaded: "failed to load LSTM   *)
(* weights from ... (using defaults)" (shim.cpp:36-37).                    *)
FailedLoadKeepsDefaults ==
  weights.refused => weights = [Defaults EXCEPT !.refused = TRUE]
=============================================================================
