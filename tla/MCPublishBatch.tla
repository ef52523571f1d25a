----------------------------- MODULE MCPublishBatch -----------------------------
(* Two file names for three batches of two outputs: names are taken again. *)
EXTENDS PublishBatch, TLC

KeySymmetry == Permutations(Keys)
=============================================================================
