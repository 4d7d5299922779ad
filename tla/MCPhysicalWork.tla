--------------------------- MODULE MCPhysicalWork ---------------------------
(* PhysicalWork with requests of every kind over small limits.             *)
EXTENDS PhysicalWork

Request(mode, class, heavy, scratch, parallelism) ==
    [mode |-> mode, class |-> class, heavy |-> heavy, scratch |-> scratch, parallelism |-> parallelism]

MCLimits == [scratch |-> 2, background |-> 1, crash |-> 1, heavy |-> 1, workers |-> 2]

AllRequests ==
    {Request("runUntil", "Background", TRUE, 3, 1),
     Request("admit", "CrashCollection", TRUE, 0, 2),
     Request("admit", "Foreground", FALSE, 0, 3),
     Request("reserve", "Foreground", FALSE, 3, 0),
     Request("tryReserve", "Foreground", FALSE, 1, 0),
     Request("inline", "Foreground", FALSE, 4, 1)}

CancelRequests ==
    {Request("run", "Background", FALSE, 0, 1), Request("admit", "Background", FALSE, 0, 1)}
=============================================================================
