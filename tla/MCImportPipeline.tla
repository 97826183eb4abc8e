-------------------------- MODULE MCImportPipeline --------------------------
(* Instances of ImportPipeline for TLC. *)
EXTENDS ImportPipeline, TLC
CONSTANTS f1, f2, p1, p2, u1, u2
OneFile == {f1}
TwoFiles == {f1, f2}
OnePlugin == {p1}
TwoPlugins == {p1, p2}
OneUser == {u1}
TwoUsers == {u1, u2}

\* Files, plugins and users are interchangeable: sound for the safety runs.
Symmetry == Permutations(TwoFiles) \cup Permutations(TwoPlugins) \cup Permutations(TwoUsers)
=============================================================================
