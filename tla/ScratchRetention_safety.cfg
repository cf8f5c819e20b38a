SPECIFICATION FairSpec
CONSTANTS
    Orgs <- MCOrgs
    Intents <- MCIntents
    Questions <- MCQuestions
    OrgOf <- MCOrgOf
    About <- MCAbout
    DaysOptions = {1}
    MaxLifetime = 3
    UrlLife = 1
    MetadataLife = 1
    StaleAfter = 1
    MaxAge = 2
    BatchSize = 1
    MaxUpdates = 2
    NoPolicy = NoPolicy
PROPERTIES ExpiredStaysExpired SweepSparesLiveUploads QuestionsSettle RetentionDrains
