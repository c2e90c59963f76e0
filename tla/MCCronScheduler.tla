--------------------------- MODULE MCCronScheduler ---------------------------
(* Instances of CronScheduler for TLC. *)
EXTENDS CronScheduler, TLC

CONSTANTS c1, c2, s1

\* One cron on one server.
OneOccurs == c1 :> {1, 3, 4}
OneCovers == c1 :> {s1}

\* Two crons on one server, due together in the last second.
TwoOccurs == c1 :> {3} @@ c2 :> {1, 3}
TwoCovers == c1 :> {s1} @@ c2 :> {s1}
=============================================================================
