----------------------------- MODULE MCDtStart ------------------------------
(***************************************************************************)
(* Model checking of DtStart.                                              *)
(***************************************************************************)
EXTENDS DtStart

\* A uniformly mapped source, one mapped anywhere, and mapped memory.
MCSources == <<"umap", "plain", "addr">>

\* One source, mapped anywhere.
MCPlainSource == <<"plain">>
=============================================================================
