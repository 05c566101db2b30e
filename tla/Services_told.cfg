SPECIFICATION Spec
CONSTANTS
    Studied = {"assistant"}
    Workers = {"w1", "w2", "w3"}
    MaxOutages = 1
    Readers = {"w1"}
    Marshal = "w2"
    Simulator = "w3"
    Densities = {20, 30, 70}
    MaxStep = 12
    MaxRecords = 2
    Visitors = {"w1"}
    Operators = {"w2", "w3"}
    Fields = {"title", "timings"}
    MaxEdits = 2
    Requesters = {"w1", "w2"}
    SendLimit = 1
    MaxAttempts = 1
    MaxCodes = 2
    Zones = {"temple_main", "bhima_ghat"}
    Minutes = {45}
    Currents = {0, 29, 60, 95}
    Hours = 12
    Hosts = {"w1", "w2"}
    Listings = {"kitchen"}
    RowLimit = 1
    ListLimit = 1
    Desks = {"w1", "w2"}
    MaxReports = 3
    Chats = {"w1", "w2"}
    RATE_LIMIT_MESSAGES = 2
    MaxDeaths = 1
    Asker = "w1"
    Spots <- MCSpots
    Radii = {150}
    Limits = {1, 5}
    AskedHours = {3}
    Pois <- MCPois
    Offers <- MCOffers
    max_requests = 1
    Ranks = {0, 2, 3}
    Lengths = {300, 2000}
    MaxShifts = 1
    Warmers = {"w1", "w2"}
    Speaker = "w1"
    Prompts = {1, 2}
    LiveTexts = {1, 3}
    MarathiTexts = {3}
    Pieces = 2
    MAX_CONCURRENCY = 1
    Lines = {"w1", "w2"}
    MaxSessions = 2
    Called = {"report_lost_found", "trigger_sos", "get_nearby_facility", "made_up"}
    Messages <- MCMessages
    MaxCalls = 3
INVARIANT ReferenceTold
CHECK_DEADLOCK FALSE
