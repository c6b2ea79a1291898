----------------------------- MODULE MCLogScan -----------------------------
(* A small chain for LogScan: blocks without a log, with a log sent, and    *)
(* with a log of a transfer to oneself and one received.                    *)
EXTENDS LogScan

SomePatterns ==
    {{},
     {[logIndex |-> 1, dirs |-> {"sent"}]},
     {[logIndex |-> 1, dirs |-> {"sent", "received"}],
      [logIndex |-> 2, dirs |-> {"received"}]}}
=============================================================================
