------------------------ MODULE MCActionExecutorLive ------------------------
(***************************************************************************)
(* The instance for liveness.  The history variable unwritten holds the    *)
(* intents whose final state write itself failed: their execution has      *)
(* ended, and nothing in the code writes their state column any more.      *)
(***************************************************************************)
EXTENDS MCActionExecutor

VARIABLE unwritten

\* Thread t's handler ends at its last write without having written.
WriteFails(t) == thread[t].at = "settle" /\ unhandled_error(t)

LiveInit == Init /\ unwritten = {}

LiveNext ==
    /\ NextNoCrash
    /\ unwritten' = unwritten \cup
           {i \in Intents : \E t \in Threads : WriteFails(t) /\ thread[t].intent = i}

LiveSpec == LiveInit /\ [][LiveNext]_<<vars, unwritten>> /\ FairServe

\* Every claimed execution ends, through timeouts, refusals, storage errors and
\* expiries: the intent leaves EXECUTING, unless the very write of its final state
\* in execute_intent failed.
ExecutionEnds == \A i \in Intents :
    (state[i] = "EXECUTING") ~> (state[i] # "EXECUTING" \/ i \in unwritten)
=============================================================================
