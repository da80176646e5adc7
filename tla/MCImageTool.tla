---------------------------- MODULE MCImageTool ----------------------------
(***************************************************************************)
(* ImageTool on two anchors and two classes.  The frame is neither square  *)
(* nor a multiple of the model's input; one of the boxes reaches out of it *)
(* on the left, the other two lie in it.                                   *)
(***************************************************************************)
EXTENDS ImageTool

CONSTANT Scores

Geometries == {<<0, 3, 5, 1>>, <<2, 3, 1, 2>>, <<3, 1, 2, 1>>}

Columns == {g \o s : g \in Geometries, s \in [1 .. NumClasses -> Scores]}

Cells == 0 .. (4 + NumClasses) * NumDetections - 1

MCTensors ==
  {[cell \in Cells |->
      columns[cell % NumDetections][cell \div NumDetections + 1]] :
     columns \in [0 .. NumDetections - 1 -> Columns]}
=============================================================================
