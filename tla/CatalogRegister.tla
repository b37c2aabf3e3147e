-------------------------- MODULE CatalogRegister ---------------------------
(***************************************************************************)
(* What publishing promises to the hosts, without locks, clocks, handlers  *)
(* or lost writes: a function serves what one of its publishes offered, as *)
(* a whole, once the module is in the bucket; and the generation it serves *)
(* never goes back.                                                        *)
(***************************************************************************)
EXTENDS Naturals

CONSTANTS
    Functions,      \* function names
    Wasms,          \* wasm modules; a module stands for its content hash
    Origins,        \* egress origins
    Generations,    \* the generations rows may have
    OfferSets,      \* what is published: sets of offers
    Absent          \* no row

Offer == [function: Functions, content_hash: Wasms, egress_allow: SUBSET Origins]

ASSUME RegisterAssumption ==
    /\ OfferSets \subseteq SUBSET Offer
    /\ Generations \subseteq Nat

VARIABLES
    offered,        \* the publishes of this behaviour
    artifacts,      \* hashes in the bucket
    catalog         \* function -> the row of label "latest"

registerVars == <<offered, artifacts, catalog>>

CatalogRow == [content_hash: Wasms, queued_at: Nat, egress_allow: SUBSET Origins]

RegisterTypeOK ==
    /\ offered \in OfferSets
    /\ artifacts \subseteq Wasms
    /\ catalog \in [Functions -> CatalogRow \cup {Absent}]

RegisterInit ==
    /\ offered \in OfferSets
    /\ artifacts = {}
    /\ catalog = [f \in Functions |-> Absent]

Upload(o) ==
    /\ artifacts' = artifacts \cup {o.content_hash}
    /\ UNCHANGED <<offered, catalog>>

Serve(o, generation) ==
    LET row == catalog[o.function] IN
    /\ o.content_hash \in artifacts
    /\ row # Absent => row.queued_at <= generation
    /\ catalog' = [catalog EXCEPT ![o.function] =
                    [content_hash |-> o.content_hash, queued_at |-> generation,
                     egress_allow |-> o.egress_allow]]
    /\ UNCHANGED <<offered, artifacts>>

RegisterNext ==
    \E o \in offered : Upload(o) \/ \E g \in Generations : Serve(o, g)

RegisterSpec == RegisterInit /\ [][RegisterNext]_registerVars
=============================================================================
