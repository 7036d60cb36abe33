\* Two requests on one session, one of them with the grant.
CONSTANTS
    Requests = {r1, r2}
    Granted = {r1}
    Long = {r2}
    MaxTurns = 2
    MaxToolCalls = 2
    Selected <- OneSkill
SPECIFICATION FairSpec
INVARIANTS StreamIsDense RequestsDoNotInterleave MutationsAreRecorded AnswersAreRemembered
