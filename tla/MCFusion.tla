------------------------------ MODULE MCFusion ------------------------------
(* Inputs of small graphs: a matrix, which also serves as weight, and a row. *)
EXTENDS Fusion

OfGemms ==
  [kinds |-> {"mm", "linear", "addmm", "add", "relu"}, shapes |-> <<"mat", "row">>,
   alphas |-> [add |-> {One}, addmm |-> {One, Two}], maxNodes |-> 3]

OfPointwise ==
  [kinds |-> {"add", "scale", "relu"}, shapes |-> <<"mat">>,
   alphas |-> [add |-> {Two}, addmm |-> {One}], maxNodes |-> 4]

OfInPlace ==
  [kinds |-> {"mm", "mul", "relu_", "silu"}, shapes |-> <<"mat">>,
   alphas |-> [add |-> {One}, addmm |-> {One}], maxNodes |-> 3]

OfScaledSums ==
  [kinds |-> {"mm", "add", "relu"}, shapes |-> <<"mat", "row">>,
   alphas |-> [add |-> {One, Two}, addmm |-> {One}], maxNodes |-> 3]

AllFamilies  == {OfGemms, OfPointwise, OfInPlace}
AlphaFamily  == {OfScaledSums}
=============================================================================
