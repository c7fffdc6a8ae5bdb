------------------------------ MODULE MCEnvironment ----------------------------
(* A command, a scan, a warm start and the bridge write to the cache.  The *)
(* scenes add and remove an object.                                        *)
EXTENDS Environment
CONSTANTS command, scan, warm
MCCallers == {command, scan, warm}
MCCommands == {command}
MCScans == {scan}
MCPresets == <<"bounds">>
MCObjects == <<{"a"}, {"a", "b"}, {"b"}>>
=============================================================================
