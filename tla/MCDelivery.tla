----------------------------- MODULE MCDelivery -----------------------------
(***************************************************************************)
(* One run for two components that keep no state in common: the outbox and *)
(* the search flow.  A behaviour is one of one of them: part says which,   *)
(* and the other stays in its initial state, where nothing that is fair    *)
(* can happen.                                                             *)
(***************************************************************************)
EXTENDS Outbox, SearchFlow

VARIABLE part

OneLive == <<"p1">>
AskedFor == {<<>>, <<"client_web">>}
NothingOrNote == {{}, {"note"}}
\* Good results of few sources: the next plan has the variants of the first, so
\* that a later call meets the cache entries of an earlier one.
GoodOfFew == {<<"good", "low">>}

DeliveryInit == part \in {"outbox", "search"} /\ Init /\ SearchInit
DeliveryNext ==
    /\ UNCHANGED part
    /\ \/ part = "outbox" /\ Next /\ UNCHANGED searchVars
       \/ part = "search" /\ SearchNext /\ UNCHANGED vars
DeliverySpec == /\ DeliveryInit /\ [][DeliveryNext]_<<part, vars, searchVars>>
                /\ Fairness /\ SearchFairness
=============================================================================
