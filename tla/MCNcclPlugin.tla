---------------------------- MODULE MCNcclPlugin ----------------------------
(***************************************************************************)
(* The plugin for TLC: two pairs of communicators with a buffer at each    *)
(* end that share the table of requests, a size of one quantum and one     *)
(* above it, and ticks that leave a request half done.                     *)
(***************************************************************************)
EXTENDS NcclPlugin

MCPaths == {{}}
MCCommOf == [s1 |-> "c1", r1 |-> "c1", s2 |-> "c2", r2 |-> "c2"]
MCRailOf == [p \in MCPaths |-> 0]
=============================================================================
