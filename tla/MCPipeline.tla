----------------------------- MODULE MCPipeline -----------------------------
(* Pipeline with interchangeable mbufs.                                    *)
EXTENDS Pipeline, TLC

Symmetry == Permutations(Mbufs)
=============================================================================
