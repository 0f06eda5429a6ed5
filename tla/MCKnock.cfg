SPECIFICATION FairKnockSpec
CONSTANTS
    k1 = k1
    alice = alice
    bob = bob
    Txs <- OneKnock
    Ports <- SshAndWeb
    SshPort = 22
    Anywhere = Anywhere
    Ips <- TwoLogins
    NoIp = NoIp
    NoTask = NoTask
    MaxFailures = 1
    Filters <- AnyoneOrAlice
INVARIANTS RulesMatchSessions WideRulesClosed
PROPERTY SessionsEnd
