------------------------------ MODULE MCCatalog ------------------------------
(* Instances of Catalog for TLC.                                            *)
EXTENDS Catalog, TLC

CONSTANTS w1, w2

(* Every upload fills in the whole form.                                    *)
FullForm == [u \in Uploads |-> Fields]

(* Every file is of the same genre.                                         *)
OneGenre == [k \in Keys |-> "genre"]

(* Workers of a Run, and Runs, are interchangeable.                         *)
Interchangeable == Permutations(Workers) \cup Permutations(Scans)
==============================================================================
