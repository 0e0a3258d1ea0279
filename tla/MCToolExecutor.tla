--------------------------- MODULE MCToolExecutor ---------------------------
(***************************************************************************)
(* Instances of ToolExecutor for TLC.                                      *)
(***************************************************************************)
EXTENDS ToolExecutor

Kind(known, safe, bash, cancel) ==
    [known |-> known, safe |-> safe, bash |-> bash, cancel |-> cancel]

ReadTool    == Kind(TRUE, TRUE, FALSE, FALSE)
EditTool    == Kind(TRUE, FALSE, FALSE, TRUE)
SafeBash    == Kind(TRUE, TRUE, TRUE, FALSE)
UnknownTool == Kind(FALSE, TRUE, FALSE, FALSE)

AllKinds == {ReadTool, EditTool, SafeBash, UnknownTool}
=============================================================================
