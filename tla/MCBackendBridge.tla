--------------------------- MODULE MCBackendBridge ---------------------------
(***************************************************************************)
(* Constants for model-checking BackendBridge: every chain of up to three  *)
(* operators over a source, four deeper ones, joins of sources and chains  *)
(* of one, alone and below a generator or a window, and joins with a       *)
(* generator and a window on both sides. Two generators of different       *)
(* columns let one execution leave behind columns that are wrong for the   *)
(* next.                                                                   *)
(***************************************************************************)
EXTENDS BackendBridge

Source == Rel("read", <<"orders">>, <<>>, <<>>)

OrdersColumns == <<"orders">> :> <<"id">>

Over(rels) ==
    UNION {{Rel("filter", <<>>, <<>>, <<r>>), Rel("project", <<"added">>, <<>>, <<r>>),
            Rel("window", <<"rank">>, <<>>, <<r>>), Rel("generate", <<"tag">>, <<>>, <<r>>),
            Rel("generate", <<"item">>, <<>>, <<r>>)} : r \in rels}

Chains1 == Over({Source})
Chains2 == Over(Chains1)
Chains3 == Over(Chains2)

ShortChains == {Source} \cup Chains1 \cup Chains2

Joins(rels) == {Rel("join", <<>>, <<>>, <<l, r>>) : l \in rels, r \in rels}

\* The deepest shapes, once each.
DeepPlans ==
    LET tagged(r) == Rel("generate", <<"tag">>, <<>>, <<r>>)
        ranked(r) == Rel("window", <<"rank">>, <<>>, <<r>>)
        kept(r) == Rel("filter", <<>>, <<>>, <<r>>)
        added(r) == Rel("project", <<"added">>, <<>>, <<r>>)
    IN {added(ranked(tagged(ranked(Source)))), ranked(tagged(kept(ranked(Source)))),
        kept(tagged(kept(ranked(ranked(Source))))), ranked(kept(tagged(ranked(Source))))}

SingleSourcePlans == ShortChains \cup Chains3 \cup DeepPlans

AllPlans ==
    LET tagged(r) == Rel("generate", <<"tag">>, <<>>, <<r>>)
        ranked(r) == Rel("window", <<"rank">>, <<>>, <<r>>)
        joins == Joins({Source} \cup Chains1)
    IN SingleSourcePlans \cup joins
       \cup {tagged(j) : j \in joins} \cup {ranked(j) : j \in joins}
       \cup Joins({tagged(ranked(Source)), ranked(tagged(Source))})
=============================================================================
