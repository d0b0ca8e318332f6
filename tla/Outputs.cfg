SPECIFICATION FairSpec
CONSTANT Output <- MCOutput
INVARIANTS DrivenOffStaysOff StateMatchesRelays
PROPERTIES WedgedIsMadeSafe StopEnds
