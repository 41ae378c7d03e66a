--------------------------- MODULE MCJournalLock ----------------------------
(* Four runs of the program, two of which get the same pid: enough for an    *)
(* owner and two elected reapers to die one after the other.                 *)
EXTENDS JournalLock, TLC

CONSTANTS a, b, c, d

MCPid == a :> 1 @@ b :> 2 @@ c :> 3 @@ d :> 1
=============================================================================
