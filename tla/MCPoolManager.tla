--------------------------- MODULE MCPoolManager ---------------------------
(* Which caller makes which call, for TLC: one caller of each kind. *)
EXTENDS PoolManager

CONSTANTS Registering, Initializing, Ensuring, Starting, Submitting, Spawning, Closing

MCCallers ==
  Registering \cup Initializing \cup Ensuring \cup Starting \cup Submitting \cup Spawning \cup Closing

MCCall ==
  [c \in MCCallers |-> CASE c \in Registering -> "register" [] c \in Initializing -> "initialize"
                         [] c \in Ensuring -> "ensure"      [] c \in Starting -> "ensureWith"
                         [] c \in Submitting -> "submit"    [] c \in Spawning -> "spawn"
                         [] c \in Closing -> "shutdown"]
=============================================================================
