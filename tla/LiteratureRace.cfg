SPECIFICATION LiteratureSpec
CONSTANTS
    d1 = d1
    d2 = d2
    d3 = d3
    i1 = i1
    i2 = i2
    i3 = i3
    LitCall = {c1, c2, c3}
    Document = {d1, d2, d3}
    WorkId = {i1, i2, i3}
    Identity <- CopyIds
    UrlIds <- CopyUrls
    Mentions <- CopyMentions
    BlockedPages = {}
    Titled = {d1}
    Overlapping = {}
    Listing = {d2}
    BlockedIds = {}
INVARIANT ScreenRemembers
CHECK_DEADLOCK FALSE
