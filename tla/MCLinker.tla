------------------------------- MODULE MCLinker -------------------------------
(* Four modules, so that a second exporter comes between two importers, and  *)
(* one name, as names are resolved independently of each other.  Pairs of    *)
(* sources show the order in which any two of them are asked.                *)
EXTENDS Linker

MCProfiles == {S \in SUBSET Source : Cardinality(S) <= 2}
=============================================================================
