--------------------------- MODULE MCDemoPlatform ---------------------------
(* The demo platform for TLC.  A pod whose drill could not read the alert has *)
(* its clients, crashes and is deleted.  While a drill runs, and after it,    *)
(* the pod is only probed, and the dependency refuses, and is never silent.   *)
EXTENDS DemoPlatform

Probed ==
    /\ \A c \in Clients : conn[c] = "closed"
    /\ gone = {} /\ crashes = 0 /\ ~terminating

PodOnly == outcome = "refused" /\ alert = "inactive" /\ ~manual

MCNext == PlatformNext /\ (PodOnly \/ Probed')
MCSpec == PlatformInit /\ [][MCNext]_platformVars /\ PlatformFairness
==============================================================================
