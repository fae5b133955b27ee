------------------------------- MODULE MageTools -------------------------------
(***************************************************************************)
(* The front end tools/planner.cpp: what becomes of its arguments.  The    *)
(* registries, the configuration file and the planner's pipeline are in    *)
(* the mage submodule.                                                     *)
(***************************************************************************)
EXTENDS Integers

CONSTANTS MagePrograms,   \* the registered programs,
          MageProtocols,  \* protocols
          MagePlugins     \* and placement plugins

\* What std::strtoull or a stream says is out of range; text that is no number at
\* all is read as 0.
OutOfRange == -1

\* What parse_party_id does not understand.
NoParty == -1

\* The plan of a worker is made, or the program says why not.  config[party] is how
\* many workers the configuration has for that party.  A name that is a plugin's and
\* no protocol's passes the look-up, and then the protocol, which is null, is asked
\* for its plugin.
Planner(argc, program, protocol, config, party, index, size) ==
  IF argc # 7 \/ program \notin MagePrograms \/ protocol \notin MageProtocols \cup MagePlugins
     \/ party = NoParty THEN "refused"
  ELSE IF index = OutOfRange \/ index >= config[party] \/ size \in {OutOfRange, 0} THEN "refused"
  ELSE IF protocol \notin MageProtocols THEN "undefined"
  ELSE "planned"
=============================================================================
