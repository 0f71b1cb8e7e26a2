--------------------------- MODULE MCControlFlags ---------------------------
\* Small instances of ControlFlags: the operations asked for, by question.
EXTENDS ControlFlags, TLC

TaskSymmetry == Permutations(Tasks)

EngineOps == {"kill", "start", "auto", "stop", "eod", "tick", "analyze"}
FaultOps  == {"kill", "flatten", "start", "tick", "analyze", "recover", "activate"}
AdminOps  == {"kill", "flatten", "resume", "reset", "lock", "safe", "pause", "activate",
              "recover"}
UndoOps   == {"kill", "resume", "start", "analyze"}
ClearOps  == {"flatten", "clear", "resume", "reset"}
=============================================================================
