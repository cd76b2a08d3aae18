\* Two starts, two requests that post an announcement or delete the other's,
\* a script and a webhook.
CONSTANTS
    p1 = p1  p2 = p2  good = good  twice = twice
    t1 = t1  t2 = t2  host = host
    a1 = a1  a2 = a2  u1 = u1  u2 = u2
    Starts = {p1, p2}
    Nobody = Nobody
    Configs = {good, twice}
    Accounts <- MCAccounts
    Ingestible = {good}
    Competitors = {t1, t2}
    Requests = {a1, a2}
    EventHandlers = 1
    Webhooks = {u1}
SPECIFICATION LiveSpec
INVARIANTS AccountsWhole TeamsOfTheTable ClientsShowTable
PROPERTIES ScriptsHear WebhooksHearInTheEnd
CHECK_DEADLOCK FALSE
