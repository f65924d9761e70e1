--------------------------- MODULE MCStreamingClient ---------------------------
(* Instances of StreamingClient for TLC. *)
EXTENDS StreamingClient

\* Every combination of the other flags with a file; a pipe with all of them and
\* with none.
SomeFlagSets == SUBSET (Flags \ {"use_pipe"}) \cup {Flags, {"use_pipe"}}
===============================================================================
