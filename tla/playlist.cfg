SPECIFICATION SceneSpec
CONSTANTS
    \* the live playlist
    s1 = s1
    s2 = s2
    n1 = n1
    n2 = n2
    MaxChannels = 3
    MaxOrder = 3
    MaxPriority = 3
    Sources = {s1, s2}
    Names = {n1, n2}
    NameOf <- BothNamed
    Asked = {2}
    Locks = {TRUE, FALSE}
    \* starts and openings
    Offered <- Started
    Reels <- Played
    Unusable = Unusable
    DvbCap = 1
    MkvCap = 1
    MaxStarts = 1
    Nobody = Nobody
    Openers = {o1, o2}
    MaxOpens = 2
    MaxFlips = 1
    \* the guide
    e1 = e1
    e2 = e2
    x = x
    y = y
    ch = ch
    g1 = g1
    g2 = g2
    Feeds = {e1, e2}
    EpgIds = {x, y}
    Channels = {ch}
    Fits <- OneFits
    MaxChanges = 2
    MaxPulls = 1
    NoId = NoId
    NoGuide = NoGuide
    GuideSources = {e1, e2}
    FeedOrder <- InRowOrder
    Guests = {g1, g2}
    TvgIds = {"x"}
    Timetables <- Tables
    Shifts = {0, 1}
    Now = 1
    Horizon = 3
    MaxPolicies = 2
    NoTvg = NoTvg
    Legacy = Legacy
    \* reviews
    Titles = {t1, t2}
    Slots = {i1, i2}
    Findings <- MayFind
    MaxScans = 2
    MaxTouches = 1
    OwnWord = OwnWord
    NoTitle = NoTitle
    \* templates and deliveries
    red = red
    cop = cop
    own = own
    film = film
    clip = clip
    soap = soap
    Templates = {red, cop, own}
    BuiltIn = {red, cop}
    CopyPreset = cop
    Factory <- Shipped
    Saves <- MaySave
    Items = {film, clip}
    KindOfItem <- FilmAndFile
    NoTpl = NoTpl
    Editors = {d1, d2}
    MaxTemplateEdits = 2
    \* outputs
    se = se
    se2 = se2
    ep = ep
    ep2 = ep2
    gA = gA
    ga = ga
    gB = gB
    Rows <- AllRows
    KindOf <- AllKinds
    Seasons = {se, se2}
    ShowOf <- BothSeasons
    NumberOf <- OneNumber
    Episodes = {ep, ep2}
    SeasonOf <- AnEpisodeEach
    Groups = {gA, ga, gB}
    Folded <- Folding
    Requests = {q1, q2}
    MaxEdits = 2
    MaxGeneration = 3
INVARIANTS
    WellTyped PlaylistInOrder FacesAgree OutputFits OpeningsEndClean GuideKeepsUp FirstLayerShows
    OneIdOneGuide LineIsAnswered  SameForEveryClient FreshPlaylists
PROPERTIES LockedKeepNumber OnlyWhatWasReported
\* a playlist of which every bound is reached may stop
CHECK_DEADLOCK FALSE
