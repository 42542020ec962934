---- MODULE SystemSettingsProofs ----
(***************************************************************************)
(* What SystemSettings gives back to the user, for any adapters and any    *)
(* number of starts: theorems about the model, with their proofs.          *)
(***************************************************************************)
EXTENDS SystemSettings, TLAPS

\* A proxy that runs was started; a goroutine sets DNS servers only once there
\* is a backup to go back to.
Shape ==
    /\ running => gen \in Gens
    /\ \A r \in applies : r.at = "set" => origDNS # NoBackup
    /\ \A r \in restores : r.at = "set" => origDNS # NoBackup

\* A program that is not up has no goroutines; one that has not started has
\* nothing under way, nor is its address set in Windows.
Life ==
    /\ ~up => ~running /\ sets = {} /\ snapshot = "none"
    /\ up /\ ~started => ~running /\ sets = {} /\ snapshot = "none" /\ reg # "luna"

\* Where the proxy settings of the user are.
ProxyInv ==
    ~proxyLost =>
        /\ running /\ opt.proxy => snapshot = "user"
        /\ running /\ ~opt.proxy => reg = "user" /\ sets = {}
        /\ ~running => reg = "user" /\ sets = {}

\* Where the DNS servers of the user are.
DnsInv ==
    ~dnsLost =>
        /\ origDNS = NoBackup => \A a \in Adapters : dns[a] = "user"
        /\ origDNS # NoBackup =>
              /\ origDNS.servers = "user"
              /\ \A a \in Adapters : dns[a] # "user" =>
                    a = origDNS.on /\ (restores # {} \/ (running /\ opt.dns))
        /\ applies # {} => running /\ opt.dns

SettingsInv == TypeOK /\ Shape /\ Life /\ ProxyInv /\ DnsInv

----------------------------------------------------------------------------

LEMMA SettingsInit == Init => SettingsInv
<1> SUFFICES ASSUME Init PROVE SettingsInv
  OBVIOUS
<1> USE DEF Init
<1>1. TypeOK
  <2>1. gen \in 0..MaxGen
    BY MaxGenAssumption
  <2>2. dns \in [Adapters -> Servers]
    BY DEF Servers
  <2>3. up \in BOOLEAN /\ started \in BOOLEAN /\ running \in BOOLEAN
    OBVIOUS
  <2>4. proxyLost \in BOOLEAN /\ dnsLost \in BOOLEAN
    OBVIOUS
  <2> QED
    BY <2>1, <2>2, <2>3, <2>4 DEF TypeOK, Proxies
<1>2. Shape
  BY DEF Shape
<1>3. Life /\ ProxyInv
  BY DEF Life, ProxyInv
<1>4. DnsInv
  BY DEF DnsInv
<1> QED
  BY <1>1, <1>2, <1>3, <1>4 DEF SettingsInv

\* Types, and with them that only a backup is ever written back.
LEMMA TypesKept == TypeOK /\ Shape /\ [Next]_vars => TypeOK' /\ Shape'
<1> SUFFICES ASSUME TypeOK, Shape, [Next]_vars PROVE TypeOK' /\ Shape'
  OBVIOUS
<1> USE DEF TypeOK, Shape
<1>1. CASE Boot
  BY <1>1 DEF Boot, SentinelCheck, dnsVars, Proxies
<1>2. CASE Start
  <2>1. gen + 1 \in Gens /\ gen + 1 \in 0..MaxGen
    BY <1>2, MaxGenAssumption DEF Start, Gens
  <2>2. applies' \subseteq [gen : Gens, at : {"find", "backup", "set"}, on : Adapters]
    BY <1>2, <2>1 DEF Start
  <2>3. snapshot' \in Proxies \cup {"none"} /\ sets' \subseteq Gens
    BY <1>2, <2>1 DEF Start, BackupSystemProxy
  <2>4. \A r \in applies' : r.at = "set" => origDNS' # NoBackup
    BY <1>2 DEF Start
  <2>5. TypeOK'
    BY <1>2, <2>1, <2>2, <2>3 DEF Start
  <2> QED
    BY <1>2, <2>1, <2>4, <2>5 DEF Start
<1>3. CASE Stop
  <2>1. restores' \subseteq [gen : Gens, at : {"read", "set"}]
    BY <1>3 DEF Stop
  <2>2. reg' \in Proxies
    BY <1>3 DEF Stop, RestoreSystemProxy, Proxies
  <2>3. proxyLost' \in BOOLEAN /\ dnsLost' \in BOOLEAN /\ running' \in BOOLEAN
    BY <1>3 DEF Stop
  <2>4. Shape'
    BY <1>3 DEF Stop
  <2> QED
    BY <1>3, <2>1, <2>2, <2>3, <2>4 DEF Stop
<1>4. CASE SaveSettings
  BY <1>4 DEF SaveSettings, life
<1>5. CASE Exit
  BY <1>5 DEF Exit
<1>6. CASE SwitchAdapter
  BY <1>6 DEF SwitchAdapter, life, proxyVars, dnsVars
<1>7. ASSUME NEW n \in Gens, SetSystemProxy(n) PROVE TypeOK' /\ Shape'
  BY <1>7 DEF SetSystemProxy, life, dnsVars, Proxies
<1>8. ASSUME NEW r \in applies, ApplyFinds(r) \/ ApplyBacksUp(r) \/ ApplySets(r)
      PROVE TypeOK' /\ Shape'
  <2>0. r \in [gen : Gens, at : {"find", "backup", "set"}, on : Adapters]
    OBVIOUS
  <2>1. CASE ApplyFinds(r)
    <3>1. [r EXCEPT !.at = "backup", !.on = active]
              \in [gen : Gens, at : {"find", "backup", "set"}, on : Adapters]
      BY <2>0
    <3> QED
      BY <2>1, <3>1 DEF ApplyFinds, ApplyEnds, life, proxyVars
  <2>2. CASE ApplyBacksUp(r)
    <3>1. [r EXCEPT !.at = "set"]
              \in [gen : Gens, at : {"find", "backup", "set"}, on : Adapters]
      BY <2>0
    <3>2. origDNS' \in [on : Adapters, servers : Servers] \cup {NoBackup}
      BY <2>0, <2>2 DEF ApplyBacksUp, BackupDNS, Servers
    <3>3. dnsLost' \in BOOLEAN
      BY <2>2 DEF ApplyBacksUp, BackupDNS
    <3>4. origDNS' # NoBackup
      BY <2>0, <2>2 DEF ApplyBacksUp, BackupDNS, Servers, NoBackup
    <3> QED
      BY <2>2, <3>1, <3>2, <3>3, <3>4 DEF ApplyBacksUp, ApplyMoves, life, proxyVars
  <2>3. CASE ApplySets(r)
    <3>1. dns' \in [Adapters -> Servers]
      BY <2>0, <2>3 DEF ApplySets, Servers
    <3>2. dnsLost' \in BOOLEAN
      BY <2>3 DEF ApplySets
    <3> QED
      BY <2>3, <3>1, <3>2 DEF ApplySets, ApplyEnds, life, proxyVars
  <2> QED
    BY <1>8, <2>1, <2>2, <2>3
<1>9. ASSUME NEW r \in restores, RestoreReads(r) \/ RestoreSets(r) PROVE TypeOK' /\ Shape'
  <2>1. CASE RestoreReads(r)
    <3>1. [r EXCEPT !.at = "set"] \in [gen : Gens, at : {"read", "set"}]
      OBVIOUS
    <3> QED
      BY <2>1, <3>1 DEF RestoreReads, life, proxyVars
  <2>2. CASE RestoreSets(r)
    <3>1. dns' \in [Adapters -> Servers]
      BY <2>2 DEF RestoreSets
    <3> QED
      BY <2>2, <3>1 DEF RestoreSets, life, proxyVars
  <2> QED
    BY <1>9, <2>1, <2>2
<1>10. CASE UNCHANGED vars
  BY <1>10 DEF vars, life, proxyVars, dnsVars
<1> QED
  BY <1>1, <1>2, <1>3, <1>4, <1>5, <1>6, <1>7, <1>8, <1>9, <1>10 DEF Next

\* The goroutines of the DNS servers, and a change of the network, touch nothing
\* the proxy settings depend on.
LEMMA DnsStepsLeaveProxy ==
    ASSUME \/ SwitchAdapter
           \/ \E r \in applies : ApplyFinds(r) \/ ApplyBacksUp(r) \/ ApplySets(r)
           \/ \E r \in restores : RestoreReads(r) \/ RestoreSets(r)
           \/ UNCHANGED vars
    PROVE  UNCHANGED <<life, opt, proxyVars>>
BY DEF SwitchAdapter, ApplyFinds, ApplyBacksUp, ApplySets, RestoreReads, RestoreSets, vars

LEMMA LifeKept == TypeOK /\ Life /\ [Next]_vars => Life'
<1> SUFFICES ASSUME TypeOK, Life, [Next]_vars PROVE Life'
  OBVIOUS
<1> USE DEF Life
<1>1. CASE Boot
  BY <1>1 DEF Boot, SentinelCheck
<1>2. CASE Start
  BY <1>2 DEF Start
<1>3. CASE Stop
  BY <1>3 DEF Stop
<1>4. CASE SaveSettings
  BY <1>4 DEF SaveSettings, life
<1>5. CASE Exit
  BY <1>5 DEF Exit
<1>6. ASSUME NEW n \in Gens, SetSystemProxy(n) PROVE Life'
  BY <1>6 DEF SetSystemProxy, life
<1>7. CASE UNCHANGED <<life, opt, proxyVars>>
  BY <1>7 DEF life, proxyVars
<1> QED
  BY <1>1, <1>2, <1>3, <1>4, <1>5, <1>6, <1>7, DnsStepsLeaveProxy DEF Next

LEMMA ProxyKept == TypeOK /\ ProxyInv /\ [Next]_vars => ProxyInv'
<1> SUFFICES ASSUME TypeOK, ProxyInv, [Next]_vars, ~proxyLost' PROVE ProxyInv'
  BY DEF ProxyInv
<1> USE DEF ProxyInv
<1>1. CASE Boot
  BY <1>1 DEF Boot, SentinelCheck
<1>2. CASE Start
  BY <1>2 DEF Start, BackupSystemProxy
<1>3. CASE Stop
  BY <1>3 DEF Stop, RestoreSystemProxy
<1>4. CASE SaveSettings
  BY <1>4 DEF SaveSettings, life
<1>5. CASE Exit
  BY <1>5 DEF Exit
<1>6. ASSUME NEW n \in Gens, SetSystemProxy(n) PROVE ProxyInv'
  BY <1>6 DEF SetSystemProxy, life
<1>7. CASE UNCHANGED <<life, opt, proxyVars>>
  BY <1>7 DEF life, proxyVars
<1> QED
  BY <1>1, <1>2, <1>3, <1>4, <1>5, <1>6, <1>7, DnsStepsLeaveProxy DEF Next

LEMMA DnsKept == TypeOK /\ Shape /\ DnsInv /\ [Next]_vars => DnsInv'
<1> SUFFICES ASSUME TypeOK, Shape, DnsInv, [Next]_vars, ~dnsLost' PROVE DnsInv'
  BY DEF DnsInv
<1> USE DEF DnsInv
<1>1. CASE Boot
  BY <1>1 DEF Boot, dnsVars
<1>2. CASE Start
  BY <1>2 DEF Start
<1>3. CASE Stop
  BY <1>3 DEF Stop
<1>4. CASE SaveSettings
  BY <1>4 DEF SaveSettings, life, TypeOK, Options
<1>5. CASE Exit
  BY <1>5 DEF Exit
<1>6. CASE SwitchAdapter \/ \E n \in Gens : SetSystemProxy(n)
  BY <1>6 DEF SwitchAdapter, SetSystemProxy, life, dnsVars
<1>7. ASSUME NEW r \in applies, ApplyFinds(r) \/ ApplyBacksUp(r) \/ ApplySets(r)
      PROVE DnsInv'
  <2>0. r \in [gen : Gens, at : {"find", "backup", "set"}, on : Adapters]
    BY DEF TypeOK
  <2>1. CASE ApplyFinds(r)
    BY <2>1 DEF ApplyFinds, ApplyEnds, life
  <2>2. CASE ApplyBacksUp(r)
    <3>1. CASE origDNS # NoBackup
      BY <2>2, <3>1 DEF ApplyBacksUp, BackupDNS, life
    <3>2. CASE origDNS = NoBackup
      <4>1. origDNS' = [on |-> r.on, servers |-> "user"] /\ ~dnsLost
        BY <2>0, <2>2, <3>2 DEF ApplyBacksUp, BackupDNS
      <4>2. \A a \in Adapters : dns'[a] = "user"
        BY <2>2, <3>2, <4>1 DEF ApplyBacksUp
      <4> QED
        BY <2>2, <4>1, <4>2 DEF ApplyBacksUp, life, NoBackup
    <3> QED
      BY <3>1, <3>2
  <2>3. CASE ApplySets(r)
    <3>1. origDNS # NoBackup
      BY <2>3 DEF ApplySets, Shape
    <3>2. \A a \in Adapters : dns'[a] # "user" => a = origDNS.on
      BY <2>0, <2>3, <3>1 DEF ApplySets, TypeOK
    <3> QED
      BY <2>3, <3>1, <3>2 DEF ApplySets, ApplyEnds, life
  <2> QED
    BY <1>7, <2>1, <2>2, <2>3
<1>8. ASSUME NEW r \in restores, RestoreReads(r) \/ RestoreSets(r) PROVE DnsInv'
  <2>1. CASE RestoreReads(r)
    BY <2>1 DEF RestoreReads, life
  <2>2. CASE RestoreSets(r)
    <3>1. origDNS # NoBackup
      BY <2>2 DEF RestoreSets, Shape
    <3>2. \A a \in Adapters : dns'[a] = "user"
      BY <2>2, <3>1 DEF RestoreSets, TypeOK
    <3> QED
      BY <2>2, <3>1, <3>2 DEF RestoreSets, life
  <2> QED
    BY <1>8, <2>1, <2>2
<1>9. CASE UNCHANGED vars
  BY <1>9 DEF vars, life, dnsVars
<1> QED
  BY <1>1, <1>2, <1>3, <1>4, <1>5, <1>6, <1>7, <1>8, <1>9 DEF Next

\* The strengthened invariant of every behaviour, from which the theorems follow.
THEOREM SettingsInvariance == Spec => []SettingsInv
<1>1. SettingsInv /\ [Next]_vars => SettingsInv'
  BY TypesKept, LifeKept, ProxyKept, DnsKept DEF SettingsInv
<1> QED
  BY SettingsInit, <1>1, PTL DEF Spec

\* Every variable keeps its type: no setting is ever written back that was not
\* saved (RestoreSystemProxy's proxyBackedUp, RestoreDNS's origDNSAdapter).
THEOREM SettingsTypes == Spec => []TypeOK
<1>1. SettingsInv => TypeOK
  BY DEF SettingsInv
<1> QED
  BY SettingsInvariance, <1>1, PTL

\* The proxy settings of Windows are the user's again whenever the proxy is off and
\* SetSystemProxy has returned, over any number of starts, stops and runs, as long
\* as none of the events the code does not undo has happened.
THEOREM ProxyBack == Spec => []ProxySettingsBack
<1>1. SettingsInv => ProxySettingsBack
  BY DEF SettingsInv, ProxyInv, ProxySettingsBack
<1> QED
  BY SettingsInvariance, <1>1, PTL

\* Likewise the DNS servers of every adapter, whatever order the goroutines of
\* ApplyDNS and RestoreDNS run in.
THEOREM DnsBack == Spec => []DnsServersBack
<1>1. SettingsInv => DnsServersBack
  BY DEF SettingsInv, DnsInv, DnsServersBack
<1> QED
  BY SettingsInvariance, <1>1, PTL

\* The backup of the DNS servers is never one of this program's own settings.
THEOREM BackupIsUsers == Spec => []DnsBackupIsUsers
<1>1. SettingsInv => DnsBackupIsUsers
  BY DEF SettingsInv, DnsInv, DnsBackupIsUsers
<1> QED
  BY SettingsInvariance, <1>1, PTL

\* After any crash, Windows is off the dead proxy of this program as soon as the
\* next boot is past SentinelCheck.
THEOREM SentinelAlwaysFrees == Spec => []SentinelFrees
<1>1. SettingsInv => SentinelFrees
  BY DEF SettingsInv, Life, SentinelFrees
<1> QED
  BY SettingsInvariance, <1>1, PTL

====
