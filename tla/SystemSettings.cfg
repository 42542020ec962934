SPECIFICATION Spec
CONSTANTS
    Adapters = {a1, a2}
    MaxGen = 2
INVARIANTS
    ProxySettingsBack
    DnsServersBack
    DnsBackupIsUsers
    SentinelFrees
