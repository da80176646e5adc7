--------------------------- MODULE MCPostprocess ---------------------------
(***************************************************************************)
(* Postprocess on two anchors and two classes.  The sides of the frame are *)
(* no multiples of the model's input, so the casts to int do drop          *)
(* fractions, and the boxes reach out of the frame on every side.          *)
(***************************************************************************)
EXTENDS Postprocess

CONSTANT Scores

\* Centre and extent of a box: across the left edge, past the lower right
\* corner, and larger than the frame.
Geometries == {<<0, 3, 5, 1>>, <<4, 4, 1, 6>>, <<3, 1, 9, 9>>}

\* The columns of a tensor: what the model says of one anchor.
Columns == {g \o s : g \in Geometries, s \in [1 .. NumClasses -> Scores]}

MCTensors ==
  {[cell \in Cells |-> columns[cell % NumDetections][cell \div NumDetections + 1]] :
     columns \in [Anchors -> Columns]}
=============================================================================
