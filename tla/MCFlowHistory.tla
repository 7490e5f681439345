--------------------------- MODULE MCFlowHistory ---------------------------
EXTENDS FlowHistory

(* A small sale and a purchase that stands out. *)
MCTrades == {[kind |-> "swap", in |-> <<2, 0>>, out |-> <<0, 1>>],
             [kind |-> "swap", in |-> <<0, 5>>, out |-> <<7, 0>>]}
=============================================================================
