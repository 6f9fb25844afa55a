\* All requests are answered: nothing is left to do.
CHECK_DEADLOCK FALSE
SPECIFICATION CaptchaFairSpec
CONSTANTS
    MaxRequests = 3
    Captchas <- MCCaptchas
    MaxSettings = 2
    max_fail_count_ = 3
INVARIANTS
    CaptchaInv
    AnsweredOnceInOrder
    SentWithCurrentSettingsUnlessOvertaken
PROPERTY AnsweredOrSentForever
