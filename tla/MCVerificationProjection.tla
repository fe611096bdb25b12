---------------------- MODULE MCVerificationProjection ----------------------
(***************************************************************************)
(* Constants for model-checking VerificationProjection: a check that       *)
(* fails, is waived, and passes when it is run again; a run of a stale     *)
(* number that claims to supersede the rerun; a revocation; evidence with  *)
(* equal numbers; and another scope, with a negative number.               *)
(***************************************************************************)
EXTENDS VerificationProjection

Basic == [id |-> 0, scope |-> "day", sequence |-> 0, lifecycle |-> "complete",
          outcome |-> "passed", assurance |-> "verified", finality |-> "final",
          supersedes |-> {}, covered |-> 1, total |-> 2, unit |-> "rows",
          context |-> {}]

Emitted ==
    {[Basic EXCEPT !.id = 1, !.sequence = 1, !.outcome = "failed", !.context = {"a"}],
     [Basic EXCEPT !.id = 2, !.sequence = 2, !.outcome = "failed", !.assurance = "waived",
                   !.supersedes = {1}],
     [Basic EXCEPT !.id = 3, !.sequence = 3, !.context = {"b"}],
     [Basic EXCEPT !.id = 4, !.sequence = 1, !.outcome = "errored", !.assurance = "sampled",
                   !.lifecycle = "blocked", !.supersedes = {3}],
     [Basic EXCEPT !.id = 5, !.sequence = 4, !.finality = "revoked", !.outcome = "unknown",
                   !.supersedes = {2}],
     [Basic EXCEPT !.id = 6, !.sequence = 3, !.lifecycle = "running", !.outcome = "skipped",
                   !.assurance = "attested", !.supersedes = {1}, !.context = {"c"},
                   !.unit = "files", !.covered = 3, !.total = 5],
     [Basic EXCEPT !.id = 7, !.sequence = -2, !.scope = "week", !.lifecycle = "superseded",
                   !.outcome = "mixed", !.covered = -1, !.context = {"d"}]}
=============================================================================
