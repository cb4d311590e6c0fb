----------------------------- MODULE MCDialogs -----------------------------
(* Two dialogs with a device that says up to five cells: "c" is the        *)
(* command's, "p" twice is the prompt, and "n" ends a line.                *)
EXTENDS Dialogs
Dialogs4 == {"console", "query", "set", "log"}
Cells3 == {"c", "p", "n"}
Bytes2 == {"p", "n"}
CommandLine == <<"c">>
Prompt == <<"p", "p">>
=============================================================================
