------------------------------- MODULE MCPages -------------------------------
(***************************************************************************)
(* An instance of Pages: two items with a batch each.                      *)
(***************************************************************************)
EXTENDS Pages, TLC

CONSTANTS bolt, nut, bolts, nuts

MCItem == {bolt, nut}
MCBatch == {bolts, nuts}
MCItemOf == (bolts :> bolt @@ nuts :> nut)
MCFilters == {"", "DRAFT", "ASSIGNED"}

=============================================================================
