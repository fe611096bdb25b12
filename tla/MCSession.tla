----------------------------- MODULE MCSession -----------------------------
(***************************************************************************)
(* Constants for model-checking Session.  The three files tell the         *)
(* assertions apart: two groups of one row, one of them null; one group of *)
(* three rows, with other columns; and an empty table.                     *)
(***************************************************************************)
EXTENDS Session, TLC

Symmetry == Permutations(Sessions)

FileContents ==
    {[columns |-> "id", groups |-> <<1, 1>>, nulls |-> 1],
     [columns |-> "id, amount", groups |-> <<1, 3>>, nulls |-> 1],
     [columns |-> "id", groups |-> <<>>, nulls |-> 0]}

Checked(kind, min, max, rate) == [kind |-> kind, min |-> min, max |-> max, rate |-> rate]

AllAssertions ==
    {Checked("row_count", {1}, {2}, 0), Checked("null_rate", {}, {}, 40),
     Checked("unique", {}, {}, 0), Checked("group_row_count", {2}, {2}, 0),
     Checked("group_row_count", {2}, {}, 0), Checked("cross", {}, {}, 0)}
=============================================================================
