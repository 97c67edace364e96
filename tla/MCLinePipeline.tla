--------------------------- MODULE MCLinePipeline ---------------------------
(* One line, alone: what forecast_line_item may store for it.              *)
EXTENDS LinePipeline

MCOffsets     == {<<-2, 2>>, <<-3, -1>>}
MCPoints      == {-4, 3}
MCDriverFolds == {<< <<30, 30>>, <<20, 22>> >>}
=============================================================================
