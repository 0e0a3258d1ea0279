------------------------------- MODULE MCTurn -------------------------------
(***************************************************************************)
(* Instances of Turn for TLC.                                              *)
(***************************************************************************)
EXTENDS Turn, TLC

K(mode, priority, main, slash, meta, via) ==
    [mode |-> mode, priority |-> priority, main |-> main, slash |-> slash,
     meta |-> meta, via |-> via]

UserPrompt == K("prompt", 1, TRUE, FALSE, FALSE, "user")
SlashCmd   == K("prompt", 1, TRUE, TRUE, FALSE, "user")
BashCmd    == K("bash", 1, TRUE, FALSE, FALSE, "user")
AgentNote  == K("task-notification", 1, FALSE, FALSE, FALSE, "program")
CronPrompt == K("prompt", 2, TRUE, FALSE, TRUE, "program")
InboxMail  == K("prompt", 1, TRUE, FALSE, FALSE, "inbox")

MainClasses == {UserPrompt, SlashCmd, BashCmd, CronPrompt, InboxMail}
LiveClasses == {UserPrompt, AgentNote}

\* Slots and commands are interchangeable.
Symmetry == Permutations(Exec) \cup Permutations(Cmd)
=============================================================================
