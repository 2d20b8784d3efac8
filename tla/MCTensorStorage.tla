-------------------------- MODULE MCTensorStorage --------------------------
(* Instances of TensorStorage: variables, storages and values are          *)
(* interchangeable.                                                        *)
EXTENDS TensorStorage, TLC

Interchangeable ==
  Permutations(Tensors) \cup Permutations(Storages) \cup Permutations(Vals)
=============================================================================
