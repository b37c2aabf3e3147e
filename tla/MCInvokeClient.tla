--------------------------- MODULE MCInvokeClient ---------------------------
EXTENDS InvokeClient, TLC
CONSTANTS f1, w1, w2, o1
\* Two publishes of one function: another module, or another egress list.
MCOfferSets ==
    {{[function |-> f1, content_hash |-> w1, egress_allow |-> {}],
      [function |-> f1, content_hash |-> w, egress_allow |-> {o1}]} : w \in {w1, w2}}
Symmetry == Permutations(Bodies)
=============================================================================
