---------------------------- MODULE MCRfcReader ----------------------------
(***************************************************************************)
(* Constants for model-checking RfcReader: three records so that every     *)
(* filter splits the catalogue in another way.                             *)
(***************************************************************************)
EXTENDS RfcReader

ThreeRecords ==
    <<[lifecycle |-> "active", status |-> "planned", tags |-> {1}],
      [lifecycle |-> "implemented", status |-> "done", tags |-> {1}],
      [lifecycle |-> "active", status |-> "planned", tags |-> {}]>>

Ranks == [s \in {"done", "planned"} |-> IF s = "done" THEN 1 ELSE 2]

FoundBy == [q \in {"", "lineage"} |-> IF q = "" THEN 1..3 ELSE {2, 3}]

Plain == [q |-> "", scope |-> "", status |-> "", sort |-> "", tags |-> {}, rfc |-> 0]

\* The bare page, a shared record, a record its own filter hides, a bookmarked
\* tag, and an address with both a status and a scope.
SharedLinks ==
    {Plain, [Plain EXCEPT !.rfc = 3], [Plain EXCEPT !.rfc = 2, !.scope = "active"],
     [Plain EXCEPT !.tags = {1}], [Plain EXCEPT !.status = "done", !.scope = "active"]}
=============================================================================
