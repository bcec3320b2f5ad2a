CONSTANTS
    low = low
    high = high
    none = none
    Replica = Replica
    Routes <- MCRoutes
    Limit <- MCLimit
    Minute = 4
    MaxWindow = 6
    Queriers = {1, 2, 3, 4}
    ProviderOf <- MCProviderOf
    NeedOf <- MCNeedOf
    MajorOf <- MCMajorOf
    Initial = 1
    Broken = {4}
    Fields = {1, 2, 3}
    ParentOf <- MCParentOf
    Kinds <- MCKinds
    Undeclared <- MCUndeclared
    Long = 3
    Short = 2
    Strings = {1, 2, 3}
    Texts <- MCTexts
    Locale = 2
    Source = 1
    Getters = {1, 2}
    Setters = {11, 12}
SPECIFICATION PartsSpec
INVARIANTS PartsTypeOK WindowBound RunsWhatIsValid CacheableAsDeclared ErrorsUntagged
INVARIANTS TranslationIsOwn AnswersDoNotGoBack
CHECK_DEADLOCK FALSE
