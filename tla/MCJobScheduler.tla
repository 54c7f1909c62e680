--------------------------- MODULE MCJobScheduler ---------------------------
(* Constant values for the runs of JobScheduler and JobQueueView. *)
EXTENDS JobQueueView

LoweredMaximum == [maxConcurrent : {1}, maxAgents : {2, 3}, enabled : {TRUE}]
SlotsOrOff     == [maxConcurrent : {1, 2}, maxAgents : {3}, enabled : {TRUE}]
                    \union [maxConcurrent : {2}, maxAgents : {3}, enabled : {FALSE}]
=============================================================================
