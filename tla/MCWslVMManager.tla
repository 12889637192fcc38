--------------------------- MODULE MCWslVMManager ---------------------------
(* A small instance of WslVMManager for TLC.                                 *)
EXTENDS WslVMManager

\* One file for the calls; the others have a kernel line in its section or only
\* elsewhere, and a section below.
PlainFile == <<"memory">>
MCConfigFiles ==
    { PlainFile,
      <<"[wsl2]", "kernel=old">>,
      <<"[other]", "kernel=old", "[wsl2]">>,
      <<"[wsl2]", "memory", "[other]">> }

\* No call but create looks at .wslconfig, and no command that was left behind
\* does: with another file than the plain one there is nothing else.
CallsOrFiles ==
    config = PlainFile \/ (op.call \in {"none", "create"} /\ stray = {} /\ ~orphans)
=============================================================================
