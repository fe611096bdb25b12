------------------------------ MODULE Carousel ------------------------------
(***************************************************************************)
(* What the architecture tour of the documentation site promises a reader, *)
(* without its timers, observers and page swaps                            *)
(* (docs/javascripts/crystalline.js): layers advance one by one, and only  *)
(* while the tour plays; a choice of the reader is shown and ends the      *)
(* tour; nothing else moves the layer the reader is looking at.            *)
(***************************************************************************)
EXTENDS Naturals, Sequences

CONSTANTS
    LayerOrder,   \* the layers, in the order the tour shows them
    NoLayer       \* shown by a page without a system path

Layers == {LayerOrder[k] : k \in 1..Len(LayerOrder)}

VARIABLES
    layer,    \* the layer on display
    wanted,   \* the tour is switched on
    playing,  \* it is moving
    visit     \* counts the times the page was set up

vars == <<layer, wanted, playing, visit>>

IndexOf(l) == CHOOSE k \in 1..Len(LayerOrder) : LayerOrder[k] = l

NextLayer(l) == LayerOrder[(IndexOf(l) % Len(LayerOrder)) + 1]

-----------------------------------------------------------------------------

Init ==
    /\ layer \in Layers
    /\ wanted \in BOOLEAN
    /\ playing \in BOOLEAN
    /\ playing => wanted
    /\ visit \in Nat

Advance ==
    /\ playing
    /\ layer' = NextLayer(layer)
    /\ UNCHANGED <<wanted, playing, visit>>

Pick(l) ==
    /\ layer' = l
    /\ wanted' = FALSE
    /\ playing' = FALSE
    /\ UNCHANGED visit

Preview(l) ==
    /\ ~playing
    /\ layer' = l
    /\ UNCHANGED <<wanted, playing, visit>>

\* Switched on or off, paused or resumed: the reader keeps the layer.
Control ==
    /\ wanted' \in BOOLEAN
    /\ playing' \in BOOLEAN
    /\ playing' => wanted'
    /\ UNCHANGED <<layer, visit>>

SetUp ==
    /\ visit' \in Nat
    /\ visit' > visit
    /\ layer' \in Layers \cup {NoLayer}
    /\ wanted' \in BOOLEAN
    /\ playing' \in BOOLEAN
    /\ playing' => wanted'
    /\ layer' = NoLayer => ~wanted'

Next ==
    \/ Advance
    \/ \E l \in Layers : Pick(l) \/ Preview(l)
    \/ Control
    \/ SetUp

Spec == Init /\ [][Next]_vars
=============================================================================
