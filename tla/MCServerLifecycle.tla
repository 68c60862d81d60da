------------------------- MODULE MCServerLifecycle --------------------------
(* ServerLifecycle with the connections and the queue length of the cfg.   *)
EXTENDS ServerLifecycle
=============================================================================
