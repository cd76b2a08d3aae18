\* One start, two announcements, and two webhooks of which one need not answer.
CONSTANTS
    p1 = p1  p2 = p2  good = good  twice = twice
    t1 = t1  t2 = t2  host = host
    a1 = a1  a2 = a2  u1 = u1  u2 = u2
    Starts = {p1}
    Nobody = Nobody
    Configs = {good}
    Accounts <- MCAccounts
    Ingestible = {good}
    Competitors = {t1, t2}
    Requests = {a1, a2}
    EventHandlers = 1
    Webhooks = {u1, u2}
SPECIFICATION LiveSpec
PROPERTY WebhooksHear
CHECK_DEADLOCK FALSE
