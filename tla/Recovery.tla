------------------------------ MODULE Recovery ------------------------------
(***************************************************************************)
(* AntiStuck under names of its own: for its run, and for proofs next to   *)
(* those of Navigation, whose tick it is a part of.                        *)
(***************************************************************************)
CONSTANTS Places, Distance(_, _), Progress, MaxTick, StallTime, RecoveryTime,
          MaxDetours, None

VARIABLES memory, position, waypoint, directive, elapsed, turns

A == INSTANCE AntiStuck WITH goal <- waypoint, MaxAttempts <- MaxDetours

ASSUME AntiStuckAssumption == A!AntiStuckAssumption

RecoverySpec == A!FairSpec

\* How long the bot goes on without progress: not too long, and not too short
\* (AntiStuck::adjust).
StallInv == A!StallInv

\* Until a reset the best distance only shrinks, and the detours are granted
\* again only for progress (AntiStuck::adjust).
BestOnlyShrinks == A!BestOnlyShrinks

\* A detour keeps its heading although the wanted yaw turns (AntiStuck::adjust).
DetourKeepsHeading == A!DetourKeepsHeading

\* The pursuit of a waypoint ends: it is reached, replaced or given up.
PursuitEnds == A!PursuitEnds
=============================================================================
