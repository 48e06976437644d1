------------------------------ MODULE Services ------------------------------
(***************************************************************************)
(* Four components that do not interact, side by side: a behaviour is one  *)
(* of them, chosen at the start, and the others stay as they began.        *)
(***************************************************************************)
EXTENDS DataFeed, ConsolePage, EdgeGateway, SettledFeed

VARIABLE part
servicesVars == <<part, feedVars, pageVars, edgeVars, settledVars>>

\* Of the components that do not run, one initial state.
ServicesInit ==
    /\ part \in {"feed", "page", "edge", "settled"}
    /\ FeedInit /\ (part # "feed" => healthy = {})
    /\ PageInit /\ (part # "page" => \A t \in Tabs : copies[t] = 0)
    /\ EdgeInit /\ (part # "edge" => env = Settings /\ followed = CHOOSE f \in Bindings \X Ips : TRUE)
    /\ SettledInit

ServicesNext ==
    \/ part = "feed" /\ FeedNext /\ UNCHANGED <<part, pageVars, edgeVars, settledVars>>
    \/ part = "page" /\ PageNext /\ UNCHANGED <<part, feedVars, edgeVars, settledVars>>
    \/ part = "edge" /\ EdgeNext /\ UNCHANGED <<part, feedVars, pageVars, settledVars>>
    \/ part = "settled" /\ SettledNext /\ UNCHANGED <<part, feedVars, pageVars, edgeVars>>

ServicesSpec == ServicesInit /\ [][ServicesNext]_servicesVars

\* FeedFairness speaks of the feed: of the fair behaviours, each is one of the
\* feed; the safety properties are checked in all.
FairServices == ServicesSpec /\ FeedFairness
-----------------------------------------------------------------------------
(* Properties *)

\* Every variable of the four components holds a value its code can put there:
\* delays stay within their limit, pages within theirs, a pull reads only rows
\* that were committed.
ServicesTypeOK == FeedTypeOK /\ PageTypeOK /\ EdgeTypeOK /\ SettledTypeOK
=============================================================================
