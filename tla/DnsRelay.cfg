\* Two concurrent requests and the cron job under every configuration, over more
\* than a day, one entity per fetch.  A behaviour ends when all requests are
\* answered and MaxTime is reached: deadlock is no error.
\* Two administrators at a time, any number one after another, with three pages of
\* one to three hosts.
CONSTANTS
    d1 = d1
    d2 = d2
    ip1 = ip1
    ip2 = ip2
    Domains = {d1}
    BadName = badname
    Ips = {ip1}
    CANT_RESOLVE = cant_resolve
    Unbound = unbound
    NoKey = nokey
    Requests = {r1, r2}
    Keys = {1, 2}
    Configs <- AllConfigs
    Life = 1
    Day = 2
    CronLife = 2
    Batch = 1
    MaxTime = 3
    Admins = {a1, a2}
    HostKeys = {1, 2, 3}
    Pages <- SomePages
    Localhost = localhost
CHECK_DEADLOCK FALSE
SPECIFICATION SSpec
INVARIANTS
    StaleOnlyIf
    NeverOvercounts
    UnboundOnlyIf
    AloneIsExact
    TwiceOnlyIfOverlapped
PROPERTY CronEnds
