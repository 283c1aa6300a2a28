SPECIFICATION Spec
CONSTANTS
    Viewers = {v1, v2}
    TOAST_LIMIT = 1
    MaxToasts = 2
    Widths <- MCWidths
    MOBILE_BREAKPOINT = 768
    MaxSlides = 3
    MaxApis = 2
    Items <- MCItems
    Configs <- MCConfigs
    Labels <- MCLabels
    LabelKeys <- MCLabelKeys
    Fields = {"a", "b"}
    Messages = {"", "required"}
    MaxIds = 3
    Charts = {1, 2}
    GivenIds = {"", "a"}
    Palettes <- MCPalettes
    Months = 2
    DaysPerMonth = 2
    MaxEdits = 2
    MaxRounds = 3
    Calls = {c1}
    Runtimes = {"browser", "native"}
    Accounts = {"a"}
    Requests <- MCRequests
    Responses <- MCResponses
INVARIANTS CarouselPromise ChartsPromise FieldPromise FocusIsKept CodegenExplained FetchPromise
PROPERTIES ToastsPromise SidebarPromise StartsWhatWasBuilt
CHECK_DEADLOCK FALSE
