---------------------------- MODULE MCPrismStore ----------------------------
(***************************************************************************)
(* Constants for model-checking PrismStore.  A payload is an expression    *)
(* and whether a typed wrapper surrounds it.                               *)
(***************************************************************************)
EXTENDS PrismStore

Bare(e) == [expr |-> e, typed |-> FALSE]
Wrapped(e) == [expr |-> e, typed |-> TRUE]

EmptySelect == Bare("")

\* Every cursor method, with one payload each and the two that are refused.
ApiPayload ==
    [k \in Kind |->
        CASE k = "ReadNamedTable" -> {Bare("orders"), Bare("")}
          [] k = "Limit"          -> {Bare("3"), Bare("-1")}
          [] k = "SelectProject"  -> {EmptySelect, Bare("a")}
          [] OTHER                -> {Bare("a")}]

\* Few operations, deeper stores: filters whose expression comes with and
\* without a typed wrapper, and joins.
AdoptionPayload ==
    [k \in Kind |->
        CASE k = "ReadNamedTable" -> {Bare("orders")}
          [] k = "Filter"         -> {Bare("a"), Wrapped("a")}
          [] k = "Join"           -> {Bare("on")}
          [] OTHER                -> {}]

AcceptedPayload(kind, payload) ==
    /\ kind = "ReadNamedTable" => payload.expr # ""
    /\ kind = "Limit" => payload.expr # "-1"

WithoutWrapper(payload) == Bare(payload.expr)
=============================================================================
