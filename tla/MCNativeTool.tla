----------------------------- MODULE MCNativeTool -----------------------------
(***************************************************************************)
(* Definitions of two arguments for NativeTool.                            *)
(***************************************************************************)
EXTENDS NativeTool

Arg(ty, required, default, positional, is_stdin) ==
  [ty |-> ty, required |-> required, default |-> default,
   positional |-> positional, is_stdin |-> is_stdin]

MCValues == {"string", "integer", "false", "null"}
MCAbsent == "absent"

\* A file name, a flag, an option whose default has another type, text for
\* stdin, and anything at all for stdin.
MCArgs ==
  {Arg("string", TRUE, "absent", TRUE, FALSE),
   Arg("boolean", FALSE, "false", FALSE, FALSE),
   Arg("integer", FALSE, "string", FALSE, FALSE),
   Arg("string", TRUE, "absent", FALSE, TRUE),
   Arg("any", FALSE, "string", TRUE, TRUE)}

MCDefinitions == {<<a, b>> : a, b \in MCArgs}
=============================================================================
