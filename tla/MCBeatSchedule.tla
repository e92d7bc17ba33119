---------------------------- MODULE MCBeatSchedule ---------------------------
(* An instance of BeatSchedule for TLC.                                    *)
EXTENDS BeatSchedule, TLC

CONSTANTS p, q

EveryTier == Intervals
TwoProcesses == {p, q}
ProcessSymmetry == Permutations(TwoProcesses)

Hour == 60
Day == 24 * Hour
\* The tiers up to 1h repeat every hour, those up to 1d every day.
Cycles ==
  [tier \in EveryTier |-> IF BarLength(tier) <= Hour THEN Hour
                          ELSE IF BarLength(tier) <= Day THEN Day ELSE Week]
==============================================================================
