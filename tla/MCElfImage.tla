------------------------------ MODULE MCElfImage ------------------------------
(* Three segments over three pages, sharing pages in every way.              *)
EXTENDS ElfImage

MCProtections == {{"R"}, {"R", "X"}, {"R", "W"}}
=============================================================================
