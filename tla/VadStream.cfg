CONSTANTS
    Hop = 2
    StartFrames = 2
    SilenceFrames = 2
    PreSpeechFrames = 3
    KeepTailFrames = 1
    MinSegment = 9
    FirstPartial = 7
    FeedSizes = {3, 4}
    MaxPartials = 1
    MaxSpeech = 10
    MaxFrames = 13
SPECIFICATION Spec
INVARIANTS AnnouncementsPaired SpeechIsHeard StampsFollowTheAudio
CHECK_DEADLOCK FALSE
