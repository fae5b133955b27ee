---------------------------- MODULE MCOspreyDriver ----------------------------
(* Command lines and descriptor sets for checking OspreyDriver.             *)
EXTENDS OspreyDriver

Trace == Option("trace-filebase", "trace")
Prog == Word("target")

(* Both passes; each alone; watching, where it is allowed and where it is   *)
(* not; and the lines the driver turns away or ends at once.                *)
MCCommandLines ==
  { <<Trace, Prog>>,
    <<Flag("speculative-only"), Trace, Option("tracing-algorithm", "fifo"), Flag("--"), Prog>>,
    <<Flag("programmed-only"), Trace, Option("programming-algorithm", "watch_only"), Prog, Flag("-v")>>,
    <<Option("programming-algorithm", "WATCH_DEBUG"), Trace, Prog>>,
    <<Trace, Option("tracing-algorithm", "lru"), Prog>>,
    <<Flag("cleanup-only"), Trace>>,
    <<Flag("cleanup-only")>>,
    <<Flag("trace-filebase"), Word("trace"), Prog>>,
    <<Trace>>,
    <<>> }

BothPasses == { <<Trace, Prog>> }

(* Nothing inherited; a low descriptor; parent_comm_fd itself; enough that  *)
(* the pair lands on parent_comm_fd; that it just fits once; and that there *)
(* is no room for one.                                                      *)
MCInheritedSets == { {}, {3}, {7}, {3, 4, 5, 6}, {3, 5, 6}, {3, 4, 5, 6, 8} }
Nothing == { {} }
===============================================================================
