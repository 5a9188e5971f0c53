---------------------------- MODULE GatewayProofs -----------------------------
(***************************************************************************)
(* Proofs about Gateway, for any sets of requests, tenants and hosts and   *)
(* any scenarios: the inductive invariant, the steps that leave the cache  *)
(* of hosts alone, those that do not, and the theorems.                    *)
(***************************************************************************)
EXTENDS Gateway, TLAPS

\* A leaf that names no prover is tried with SMT, then Zenon, then SMT again.
USE SMTT(30), ZenonT(30), SMTT(60), SMTT(90)

-----------------------------------------------------------------------------
(* Requests, by the step they are at.                                      *)

AskPCs == {"get", "query"}
HostPCs == {"found", "sent"}
ReadPCs == {"getSettings", "querySettings"}
AimedPCs == {"lookup", "succeed", "fail", "activate"}

Asking == [pc : AskPCs, host : Hosts, route : Routes]
Filling == [pc : {"fill"}, host : Hosts, route : Routes, found : Resolution, late : BOOLEAN]
Hosted == [pc : HostPCs, host : Hosts, route : Routes, found : Resolution]
Reading == [pc : ReadPCs, tenant : Tenants, patch : Uses]
Caching == [pc : {"cache"}, tenant : Tenants, value : Settings, patch : Uses]
Updating == [pc : {"update"}, tenant : Tenants, value : Settings]
Inserting == [pc : {"insert"}, tenant : Tenants, host : Hosts, type : DomainTypes]
Aimed == [pc : AimedPCs, tenant : Tenants, host : Hosts]
Committing == [pc : {"commit"}, tenant : Tenants, status : {"active", "suspended"}, hosts : SUBSET Hosts]
Invalidating == [pc : {"invalidate"}, hosts : SUBSET Hosts, status : Statuses]
Answered == [pc : {"done"}, status : Statuses]

\* A process is of one of these kinds.
LEMMA ProcessCases ==
  Process = {Idle} \cup Asking \cup Filling \cup Hosted \cup Reading \cup Caching \cup Updating
              \cup Inserting \cup Aimed \cup Committing \cup Invalidating \cup Answered
  BY DEF Process, Asking, Filling, Hosted, Reading, Caching, Updating, Inserting, Aimed, Committing,
     Invalidating, Answered, AskPCs, HostPCs, ReadPCs, AimedPCs

\* The step a process is at tells which record it is.
LEMMA Shape ==
  ASSUME NEW x \in Process
  PROVE  /\ x.pc = "idle" => x = Idle
         /\ x.pc \in AskPCs => x \in Asking
         /\ x.pc = "fill" => x \in Filling
         /\ x.pc \in HostPCs => x \in Hosted
         /\ x.pc \in ReadPCs => x \in Reading
         /\ x.pc = "cache" => x \in Caching
         /\ x.pc = "update" => x \in Updating
         /\ x.pc = "insert" => x \in Inserting
         /\ x.pc \in AimedPCs => x \in Aimed
         /\ x.pc = "commit" => x \in Committing
         /\ x.pc = "invalidate" => x \in Invalidating
<1>1. \/ x = Idle \/ x \in Asking \/ x \in Filling \/ x \in Hosted \/ x \in Reading \/ x \in Caching
      \/ x \in Updating \/ x \in Inserting \/ x \in Aimed \/ x \in Committing \/ x \in Invalidating
      \/ x \in Answered
  BY ProcessCases
<1>2. /\ x = Idle => x.pc = "idle"
      /\ x \in Asking => x.pc \in AskPCs
      /\ x \in Filling => x.pc = "fill"
      /\ x \in Hosted => x.pc \in HostPCs
      /\ x \in Reading => x.pc \in ReadPCs
      /\ x \in Caching => x.pc = "cache"
  BY DEF Idle, Asking, Filling, Hosted, Reading, Caching
<1>3. /\ x \in Updating => x.pc = "update"
      /\ x \in Inserting => x.pc = "insert"
      /\ x \in Aimed => x.pc \in AimedPCs
      /\ x \in Committing => x.pc = "commit"
      /\ x \in Invalidating => x.pc = "invalidate"
      /\ x \in Answered => x.pc = "done"
  BY DEF Updating, Inserting, Aimed, Committing, Invalidating, Answered
<1>4. QED
  BY <1>1, <1>2, <1>3 DEF AskPCs, HostPCs, ReadPCs, AimedPCs

\* The absent row is no domain, ...
LEMMA NoRowIsNoDomain == NoRow \notin Domain
  BY DEF NoRow, Domain

\* ... no cache entry, ...
LEMMA NoRowIsNoEntry == NoRow \notin Entry
  BY DEF NoRow, Entry

\* ... and no patch.
LEMMA NoRowIsNoPatch == NoRow \notin Patches
  BY DEF NoRow, Patches

-----------------------------------------------------------------------------
(* The inductive invariant.                                                *)

\* Resolution r is that of host h, and h resolves, with the domains ds and the tenants ts.
Owns(h, r, ds) == ds[h] # NoRow /\ r.tenant = ds[h].tenant /\ r.type = ds[h].type
Serves(h, ds, ts) == /\ ds[h] # NoRow
                     /\ ds[h].verified
                     /\ ds[h].active
                     /\ ts[ds[h].tenant] = "active"

\* What a request x knows: a resolution it carries is that of its host; one it is about to
\* cache resolves still, unless it is marked late; a domain it is about to change exists and
\* is the tenant's; what it has forwarded it may forward.
ProcOK(x, ds, ts) ==
  /\ x \in Process
  /\ x.pc \in {"fill", "found", "sent"} => Owns(x.host, x.found, ds)
  /\ x.pc = "fill" => x.late = TRUE \/ Serves(x.host, ds, ts)
  /\ x.pc \in AimedPCs => ds[x.host] # NoRow /\ ds[x.host].tenant = x.tenant
  /\ x.pc = "sent" => x.found.type \in RequiredApp(x.route)

ProcsOK ==
  /\ procs \in [Processes -> Process]
  /\ \A p \in Processes : ProcOK(procs[p], domains, tenants)

\* The columns of a domain agree.
Agrees(d) ==
  /\ d.verified <=> d.state = "verified"
  /\ d.verified <=> ~d.token
  /\ d.active => d.verified

RowsOK ==
  /\ tenants \in [Tenants -> {"none", "active", "suspended"}]
  /\ audit \in [Tenants -> SUBSET {"active", "suspended"}]
  /\ domains \in [Hosts -> Domain \cup {NoRow}]
  /\ \A h \in Hosts : domains[h] # NoRow => Agrees(domains[h])

CacheOK ==
  /\ domainCache \in [Hosts -> Entry \cup {Miss}]
  /\ \A h \in Hosts : domainCache[h] # Miss => Owns(h, domainCache[h].value, domains)
  /\ StaleHasACause

SettingsOK ==
  /\ settings \in [Tenants -> Settings \cup {NoRow}]
  /\ settingsCache \in [Tenants -> [value : Settings, ttl : BOOLEAN] \cup {Miss}]
  /\ changes \in Nat

HostsOK == RowsOK /\ ProcsOK /\ CacheOK
IInv == HostsOK /\ SettingsOK

-----------------------------------------------------------------------------
(* Steps of one request.                                                   *)

\* A request moves on and leaves hosts, tenants and the cache of hosts alone.
LEMMA Quiet ==
  ASSUME IInv, NEW p \in Processes, NEW x, ProcOK(x, domains, tenants), Become(p, x),
         UNCHANGED <<tenants, domains, audit, domainCache>>, procs[p].pc # "invalidate"
  PROVE  HostsOK'
<1>1. RowsOK'
  BY DEF IInv, HostsOK, RowsOK
<1>2. procs' \in [Processes -> Process] /\ procs'[p] = x /\ \A q \in Processes \ {p} : procs'[q] = procs[q]
  BY DEF IInv, HostsOK, ProcsOK, Become, ProcOK
<1>3. ProcsOK'
  BY <1>2 DEF IInv, HostsOK, ProcsOK
<1>4. \A h \in Hosts : Routable(h) <=> Routable(h)'
  BY DEF Routable
<1>5. StaleHasACause'
  BY <1>2, <1>4 DEF IInv, HostsOK, CacheOK, StaleHasACause, In
<1>6. CacheOK'
  BY <1>5 DEF IInv, HostsOK, CacheOK
<1>7. QED
  BY <1>1, <1>3, <1>6 DEF HostsOK

\* What the invariant asks of a request holds of one that is answered, ...
LEMMA AnsweredOK ==
  ASSUME NEW status \in Statuses
  PROVE  ProcOK([pc |-> "done", status |-> status], domains, tenants)
<1>1. [pc |-> "done", status |-> status] \in Answered
  BY DEF Answered
<1>2. QED
  BY <1>1, ProcessCases DEF ProcOK, AimedPCs

\* ... and of a slot without one.
LEMMA IdleOK == ProcOK(Idle, domains, tenants)
<1>1. Idle \in Process
  BY ProcessCases
<1>2. QED
  BY <1>1 DEF ProcOK, AimedPCs, Idle

\* An answer that changes nothing else keeps the invariant, ...
LEMMA Answers ==
  ASSUME IInv, NEW p \in Processes, NEW status \in Statuses, Answer(p, status),
         UNCHANGED <<tenants, domains, audit, domainCache>>, procs[p].pc # "invalidate"
  PROVE  HostsOK'
  BY AnsweredOK, Quiet DEF Answer

\* ... and so does a refusal.
LEMMA Refuses ==
  ASSUME IInv, NEW p \in Processes, NEW status \in Statuses, Refuse(p, status), procs[p].pc # "invalidate"
  PROVE  HostsOK'
<1>1. Answer(p, status) /\ UNCHANGED <<tenants, domains, audit, domainCache>>
  BY DEF Refuse, tables
<1>2. QED
  BY <1>1, Answers

\* What is known of a request before its step.
LEMMA AtStep ==
  ASSUME IInv, NEW p \in Processes
  PROVE  procs[p] \in Process /\ ProcOK(procs[p], domains, tenants)
  BY DEF IInv, HostsOK, ProcsOK

\* To go to a step is to become the same request at that step.
LEMMA GotoIsBecome ==
  ASSUME NEW p, NEW pc, Goto(p, pc)
  PROVE  Become(p, [procs[p] EXCEPT !.pc = pc])
  BY DEF Goto, Become

\* Resolutions: what is found, in the cache or by the query, is that of the host.
LEMMA Resolutions ==
  ASSUME IInv, NEW p \in Processes, Ask(p) \/ GetDomain(p) \/ QueryDomain(p) \/ TLSAuthorized(p)
  PROVE  HostsOK'
<1>1. UNCHANGED <<tenants, domains, audit, domainCache>> /\ procs[p].pc # "invalidate"
  BY DEF Ask, GetDomain, QueryDomain, TLSAuthorized, In, tables
<1>2. ProcOK(procs[p], domains, tenants) /\ (procs[p].pc \in AskPCs => procs[p] \in Asking)
  BY AtStep, Shape
<1>3. CASE Ask(p)
  <2>1. PICK h \in Hosts, r \in Routes : Become(p, [pc |-> "get", host |-> h, route |-> r])
    BY <1>3 DEF Ask
  <2> DEFINE x == [pc |-> "get", host |-> h, route |-> r]
  <2>2. x \in Asking
    BY DEF Asking, AskPCs
  <2>3. ProcOK(x, domains, tenants)
    BY <2>2, ProcessCases DEF ProcOK, AimedPCs
  <2> HIDE DEF x
  <2>4. Become(p, x)
    BY <2>1 DEF x
  <2>5. QED
    BY <1>1, <2>3, <2>4, Quiet
<1>4. CASE GetDomain(p)
  <2>1. procs[p] \in Asking
    BY <1>2, <1>4 DEF GetDomain, In, AskPCs
  <2>2. CASE domainCache[procs[p].host] # Miss /\ Hit(p, domainCache[procs[p].host].value)
    <3> DEFINE r == domainCache[procs[p].host].value
               x == [pc |-> "found", host |-> procs[p].host, route |-> procs[p].route, found |-> r]
    <3>1. procs[p].host \in Hosts /\ procs[p].route \in Routes
      BY <2>1 DEF Asking
    <3>2. domainCache[procs[p].host] \in Entry /\ Owns(procs[p].host, r, domains)
      BY <2>2, <3>1 DEF IInv, HostsOK, CacheOK
    <3>3. r \in Resolution
      BY <3>2 DEF Entry
    <3>4. x \in Hosted
      BY <3>1, <3>3 DEF Hosted, HostPCs
    <3>5. ProcOK(x, domains, tenants)
      BY <3>2, <3>4, ProcessCases DEF ProcOK, AimedPCs
    <3>6. Become(p, x)
      BY <2>2 DEF Hit
    <3> HIDE DEF x
    <3>7. QED
      BY <1>1, <3>5, <3>6, Quiet
  <2>3. CASE Goto(p, "query")
    <3> DEFINE x == [procs[p] EXCEPT !.pc = "query"]
    <3>1. x \in Asking /\ x.pc = "query"
      BY <2>1 DEF Asking, AskPCs
    <3>2. ProcOK(x, domains, tenants)
      BY <3>1, ProcessCases DEF ProcOK, AimedPCs
    <3>3. Become(p, x)
      BY <2>3, GotoIsBecome
    <3> HIDE DEF x
    <3>4. QED
      BY <1>1, <3>2, <3>3, Quiet
  <2>4. QED
    BY <1>4, <2>2, <2>3 DEF GetDomain
<1>5. CASE QueryDomain(p)
  <2> DEFINE h == procs[p].host
  <2>1. procs[p] \in Asking /\ h \in Hosts /\ procs[p].route \in Routes
    BY <1>2, <1>5 DEF QueryDomain, In, AskPCs, Asking
  <2>2. CASE Routable(h)
    <3> DEFINE x == [pc |-> "fill", host |-> h, route |-> procs[p].route, found |-> Resolved(h), late |-> FALSE]
    <3>1. domains[h] \in Domain
      BY <2>1, <2>2 DEF IInv, HostsOK, RowsOK, Routable
    <3>2. Resolved(h) \in Resolution /\ Owns(h, Resolved(h), domains) /\ Serves(h, domains, tenants)
      BY <2>2, <3>1 DEF Resolved, Resolution, Owns, Serves, Routable, Domain
    <3>3. x \in Filling
      BY <2>1, <3>2 DEF Filling
    <3>4. ProcOK(x, domains, tenants)
      BY <3>2, <3>3, ProcessCases DEF ProcOK, AimedPCs
    <3>5. Become(p, x)
      BY <1>5, <2>2 DEF QueryDomain
    <3> HIDE DEF x
    <3>6. QED
      BY <1>1, <3>4, <3>5, Quiet
  <2>3. CASE ~Routable(h)
    <3>1. Answer(p, NotFound(procs[p].route)) /\ NotFound(procs[p].route) \in Statuses
      BY <1>5, <2>3 DEF QueryDomain, NotFound, Statuses
    <3>2. QED
      BY <1>1, <3>1, Answers
  <2>4. QED
    BY <2>2, <2>3
<1>6. CASE TLSAuthorized(p)
  BY <1>1, <1>6, Answers DEF TLSAuthorized, Statuses
<1>7. QED
  BY <1>3, <1>4, <1>5, <1>6

\* The gateway's handlers: a request goes on with what was found, on hosts of its route's app.
LEMMA Relays ==
  ASSUME IInv, NEW p \in Processes, Relaying(p) \/ Unresolved(p) \/ UpstreamError(p)
  PROVE  HostsOK'
<1>1. UNCHANGED <<tenants, domains, audit, domainCache>> /\ procs[p].pc # "invalidate"
  BY DEF Relaying, Proxy, Auth, Config, Frontend, Handles, PublicConfig, Unresolved, UpstreamError, In, tables
<1>2. ProcOK(procs[p], domains, tenants) /\ (procs[p].pc \in HostPCs => procs[p] \in Hosted)
  BY AtStep, Shape
<1>3. ASSUME NEW status \in {"502", "504", "403"}, Answer(p, status) PROVE HostsOK'
  BY <1>1, <1>3, Answers DEF Statuses
<1>4. ASSUME In(p, "found"), procs[p].found.type \in RequiredApp(procs[p].route), Goto(p, "sent") PROVE HostsOK'
  <2> DEFINE x == [procs[p] EXCEPT !.pc = "sent"]
  <2>1. procs[p] \in Hosted /\ Owns(procs[p].host, procs[p].found, domains)
    BY <1>2, <1>4 DEF In, HostPCs, ProcOK
  <2>2. /\ x \in Hosted /\ x.pc = "sent"
        /\ x.host = procs[p].host /\ x.found = procs[p].found /\ x.route = procs[p].route
    BY <2>1 DEF Hosted, HostPCs
  <2>3. ProcOK(x, domains, tenants)
    BY <1>4, <2>1, <2>2, ProcessCases DEF ProcOK, AimedPCs
  <2>4. Become(p, x)
    BY <1>4, GotoIsBecome
  <2> HIDE DEF x
  <2>5. QED
    BY <1>1, <2>3, <2>4, Quiet
<1>5. In(p, "found") => procs[p].found.type \in DomainTypes
  BY <1>2 DEF In, HostPCs, Hosted, Resolution
<1>6. CASE Proxy(p)
  BY <1>3, <1>4, <1>6 DEF Proxy, Handles
<1>7. CASE Auth(p)
  BY <1>3, <1>4, <1>7 DEF Auth, Handles, RequiredApp
<1>8. CASE Config(p) \/ Frontend(p)
  BY <1>4, <1>5, <1>8 DEF Config, Frontend, Handles, RequiredApp
<1>9. CASE PublicConfig(p)
  <2> DEFINE x == [pc |-> "getSettings", tenant |-> procs[p].found.tenant, patch |-> Again]
  <2>1. procs[p].found.tenant \in Tenants
    BY <1>2, <1>9 DEF PublicConfig, In, HostPCs, Hosted, Resolution
  <2>2. x \in Reading
    BY <2>1 DEF Reading, ReadPCs, Uses
  <2>3. ProcOK(x, domains, tenants)
    BY <2>2, ProcessCases DEF ProcOK, AimedPCs
  <2>4. Become(p, x)
    BY <1>9 DEF PublicConfig
  <2> HIDE DEF x
  <2>5. QED
    BY <1>1, <2>3, <2>4, Quiet
<1>10. CASE Unresolved(p) \/ UpstreamError(p)
  BY <1>3, <1>10 DEF Unresolved, UpstreamError
<1>11. QED
  BY <1>6, <1>7, <1>8, <1>9, <1>10 DEF Relaying

\* A request that carries no host, or one it has yet to look at.
LEMMA Carries ==
  ASSUME IInv, NEW p \in Processes,
         NEW x \in {Idle} \cup Reading \cup Caching \cup Updating \cup Inserting \cup Committing, Become(p, x),
         UNCHANGED <<tenants, domains, audit, domainCache>>, procs[p].pc # "invalidate"
  PROVE  HostsOK'
<1>1. x \in Process
  BY ProcessCases
<1>2. x.pc \in {"idle", "cache", "update", "insert", "commit"} \cup ReadPCs
  BY DEF Idle, Reading, Caching, Updating, Inserting, Committing
<1>3. ProcOK(x, domains, tenants)
  BY <1>1, <1>2 DEF ProcOK, AimedPCs, ReadPCs
<1>4. QED
  BY <1>3, Quiet

\* A request is about to change a domain it has found to be the tenant's.
LEMMA Aims ==
  ASSUME IInv, NEW p \in Processes, NEW t \in Tenants, NEW h \in Hosts, NEW pc \in AimedPCs,
         GetTenantDomain(t, h) # NoRow, Become(p, [pc |-> pc, tenant |-> t, host |-> h]),
         UNCHANGED <<tenants, domains, audit, domainCache>>, procs[p].pc # "invalidate"
  PROVE  HostsOK'
<1> DEFINE x == [pc |-> pc, tenant |-> t, host |-> h]
<1>1. x \in Aimed
  BY DEF Aimed
<1>2. ProcOK(x, domains, tenants)
  BY <1>1, ProcessCases DEF ProcOK, AimedPCs, GetTenantDomain
<1> HIDE DEF x
<1>3. Become(p, x)
  BY DEF x
<1>4. QED
  BY <1>2, <1>3, Quiet

\* The first steps of the requests that change domains and tenants.
LEMMA DomainRequests ==
  ASSUME IInv, NEW p \in Processes,
         CreateDomain(p) \/ VerifyDomain(p) \/ ActivateDomain(p) \/ LookupTXT(p) \/ SetTenantStatus(p)
  PROVE  HostsOK'
<1>0. procs[p].pc # "invalidate"
  BY ZenonT(60) DEF CreateDomain, VerifyDomain, ActivateDomain, LookupTXT, SetTenantStatus, Start, In
<1>1. ASSUME NEW status \in {"200", "404", "409"}, Refuse(p, status) PROVE HostsOK'
  BY <1>0, <1>1, Refuses DEF Statuses
<1>2. CASE CreateDomain(p)
  <2>1. PICK t \in Tenants, h \in Hosts, type \in DomainTypes :
          CASE GetTenant(t) = "none" -> Refuse(p, "404")
            [] GetTenant(t) = "suspended" -> Refuse(p, "409")
            [] GetTenant(t) = "active" ->
                 /\ Become(p, [pc |-> "insert", tenant |-> t, host |-> h, type |-> type])
                 /\ UNCHANGED <<tables, domainCache, settingsCache, load>>
    BY <1>2, ZenonT(60) DEF CreateDomain
  <2>2. GetTenant(t) \in {"none", "active", "suspended"}
    BY DEF GetTenant, IInv, HostsOK, RowsOK
  <2>3. [pc |-> "insert", tenant |-> t, host |-> h, type |-> type] \in Inserting
    BY DEF Inserting
  <2>4. \/ Refuse(p, "404") \/ Refuse(p, "409")
        \/ /\ Become(p, [pc |-> "insert", tenant |-> t, host |-> h, type |-> type])
           /\ UNCHANGED <<tenants, domains, audit, domainCache>>
    BY <2>1, <2>2, ZenonT(60) DEF tables
  <2>5. QED
    BY <1>0, <1>1, <2>3, <2>4, Carries
<1>3. CASE VerifyDomain(p)
  <2>1. PICK t \in Tenants, h \in Hosts :
          \/ Refuse(p, "404") \/ Refuse(p, "200") \/ Refuse(p, "409")
          \/ /\ GetTenantDomain(t, h) # NoRow
             /\ Become(p, [pc |-> "lookup", tenant |-> t, host |-> h])
             /\ UNCHANGED <<tenants, domains, audit, domainCache>>
    BY <1>3 DEF VerifyDomain, GetTenantDomainForVerification, tables
  <2>2. QED
    BY <1>0, <1>1, <2>1, Aims, ZenonT(60) DEF AimedPCs
<1>4. CASE ActivateDomain(p)
  <2>1. PICK t \in Tenants, h \in Hosts :
          \/ Refuse(p, "404") \/ Refuse(p, "409")
          \/ /\ GetTenantDomain(t, h) # NoRow
             /\ Become(p, [pc |-> "activate", tenant |-> t, host |-> h])
             /\ UNCHANGED <<tenants, domains, audit, domainCache>>
    BY <1>4 DEF ActivateDomain, tables
  <2>2. QED
    BY <1>0, <1>1, <2>1, Aims, ZenonT(60) DEF AimedPCs
<1>5. CASE LookupTXT(p)
  <2>1. PICK pc \in {"succeed", "fail"} : Goto(p, pc)
    BY <1>5 DEF LookupTXT
  <2> DEFINE x == [procs[p] EXCEPT !.pc = pc]
  <2>2. procs[p] \in Aimed /\ ProcOK(procs[p], domains, tenants) /\ procs[p].pc = "lookup"
    BY <1>5, AtStep, Shape DEF LookupTXT, In, AimedPCs
  <2>3. x \in Aimed /\ x.pc = pc /\ x.host = procs[p].host /\ x.tenant = procs[p].tenant
    BY <2>2 DEF Aimed, AimedPCs
  <2>4. ProcOK(x, domains, tenants)
    BY <2>2, <2>3, ProcessCases DEF ProcOK, AimedPCs
  <2>5. Become(p, x) /\ UNCHANGED <<tenants, domains, audit, domainCache>>
    BY <1>5, <2>1, GotoIsBecome DEF LookupTXT, tables
  <2> HIDE DEF x
  <2>6. QED
    BY <1>0, <2>4, <2>5, Quiet
<1>6. CASE SetTenantStatus(p)
  <2>1. PICK t \in Tenants, status \in {"active", "suspended"} :
          \/ Refuse(p, "404")
          \/ /\ Become(p, [pc |-> "commit", tenant |-> t, status |-> status, hosts |-> Hostnames(t)])
             /\ UNCHANGED <<tenants, domains, audit, domainCache>>
    BY <1>6 DEF SetTenantStatus, tables
  <2>2. [pc |-> "commit", tenant |-> t, status |-> status, hosts |-> Hostnames(t)] \in Committing
    BY DEF Committing, Hostnames
  <2>3. QED
    BY <1>0, <1>1, <2>1, <2>2, Carries
<1>7. QED
  BY <1>2, <1>3, <1>4, <1>5, <1>6

\* Settings that are merged are valid, or refused.
LEMMA Merges ==
  ASSUME IInv, NEW p \in Processes, NEW current, NEW patch \in Uses,
         procs[p].tenant \in Tenants, Merge(p, current, patch),
         UNCHANGED <<tenants, domains, audit, domainCache>>, procs[p].pc # "invalidate"
  PROVE  HostsOK'
<1> DEFINE merged == [current EXCEPT ![patch.field] = patch.value]
           x == [pc |-> "update", tenant |-> procs[p].tenant, value |-> merged]
           y == [pc |-> "getSettings", tenant |-> procs[p].tenant, patch |-> NoPatch]
<1>1. Answer(p, "200") \/ Answer(p, "400") \/ (merged \in Settings /\ Become(p, x)) \/ Become(p, y)
  BY DEF Merge
<1>2. ASSUME merged \in Settings PROVE x \in Updating
  BY <1>2 DEF Updating
<1>3. y \in Reading
  BY DEF Reading, ReadPCs, Uses
<1> HIDE DEF x, y, merged
<1>4. QED
  BY <1>1, <1>2, <1>3, Answers, Carries DEF Statuses

\* Requests for settings leave hosts alone.
LEMMA SettingsHosts ==
  ASSUME IInv, NEW p \in Processes,
         \/ ReadSettings(p) \/ UpdateSettings(p) \/ GetSettings(p) \/ QuerySettings(p) \/ StoreSettings(p)
         \/ CacheSettings(p) \/ Done(p)
  PROVE  HostsOK'
<1>0. procs[p].pc # "invalidate" /\ UNCHANGED <<tenants, domains, audit, domainCache>>
  BY DEF ReadSettings, UpdateSettings, GetSettings, QuerySettings, StoreSettings, CacheSettings, Done, Start, In, tables
<1>1. /\ procs[p].pc \in ReadPCs => procs[p] \in Reading
      /\ procs[p].pc = "cache" => procs[p] \in Caching
      /\ procs[p].pc = "update" => procs[p] \in Updating
  BY AtStep, Shape
<1>2. CASE ReadSettings(p)
  <2>1. PICK t \in Tenants : Become(p, [pc |-> "getSettings", tenant |-> t, patch |-> NoPatch])
    BY <1>2 DEF ReadSettings
  <2>2. [pc |-> "getSettings", tenant |-> t, patch |-> NoPatch] \in Reading
    BY DEF Reading, ReadPCs, Uses
  <2>3. QED
    BY <1>0, <2>1, <2>2, Carries
<1>3. CASE UpdateSettings(p)
  <2>1. PICK t \in Tenants, patch \in Patches :
          Answer(p, "403") \/ Become(p, [pc |-> "getSettings", tenant |-> t, patch |-> patch])
    BY <1>3 DEF UpdateSettings
  <2>2. [pc |-> "getSettings", tenant |-> t, patch |-> patch] \in Reading
    BY DEF Reading, ReadPCs, Uses
  <2>3. QED
    BY <1>0, <2>1, <2>2, Answers, Carries DEF Statuses
<1>4. CASE GetSettings(p)
  <2>1. procs[p] \in Reading /\ procs[p].tenant \in Tenants /\ procs[p].patch \in Uses
    BY <1>1, <1>4 DEF GetSettings, In, ReadPCs, Reading
  <2>2. CASE Merge(p, settingsCache[procs[p].tenant].value, procs[p].patch)
    BY <1>0, <2>1, <2>2, Merges
  <2>3. CASE Goto(p, "querySettings")
    <3> DEFINE x == [procs[p] EXCEPT !.pc = "querySettings"]
    <3>1. x \in Reading
      BY <2>1 DEF Reading, ReadPCs
    <3>2. Become(p, x)
      BY <2>3, GotoIsBecome
    <3> HIDE DEF x
    <3>3. QED
      BY <1>0, <3>1, <3>2, Carries
  <2>4. QED
    BY <1>4, <2>2, <2>3 DEF GetSettings
<1>5. CASE QuerySettings(p)
  <2> DEFINE x == [pc |-> "cache", tenant |-> procs[p].tenant, value |-> settings[procs[p].tenant], patch |-> procs[p].patch]
  <2>1. procs[p].tenant \in Tenants /\ procs[p].patch \in Uses
    BY <1>1, <1>5 DEF QuerySettings, In, ReadPCs, Reading
  <2>2. Answer(p, "404") \/ (settings[procs[p].tenant] # NoRow /\ Become(p, x))
    BY <1>5 DEF QuerySettings, GetTenantSettings
  <2>3. settings[procs[p].tenant] # NoRow => x \in Caching
    BY <2>1 DEF Caching, IInv, SettingsOK
  <2> HIDE DEF x
  <2>4. QED
    BY <1>0, <2>2, <2>3, Answers, Carries DEF Statuses
<1>6. CASE StoreSettings(p)
  <2> DEFINE x == [pc |-> "cache", tenant |-> procs[p].tenant, value |-> procs[p].value, patch |-> NoPatch]
  <2>1. Become(p, x)
    BY <1>6 DEF StoreSettings
  <2>2. x \in Caching
    BY <1>1, <1>6 DEF StoreSettings, In, Updating, Caching, Uses
  <2> HIDE DEF x
  <2>3. QED
    BY <1>0, <2>1, <2>2, Carries
<1>7. CASE CacheSettings(p)
  <2>1. procs[p].tenant \in Tenants /\ procs[p].patch \in Uses
    BY <1>1, <1>7 DEF CacheSettings, In, Caching
  <2>2. Merge(p, procs[p].value, procs[p].patch)
    BY <1>7 DEF CacheSettings
  <2>3. QED
    BY <1>0, <2>1, <2>2, Merges
<1>8. CASE Done(p)
  BY <1>0, <1>8, Carries DEF Done
<1>9. QED
  BY <1>2, <1>3, <1>4, <1>5, <1>6, <1>7, <1>8

-----------------------------------------------------------------------------
(* Steps that change domains and tenants.                                  *)

\* Domains keep their tenant and their type.
Keeps(ds, next) ==
  \A h \in Hosts : ds[h] # NoRow => /\ next[h] # NoRow
                                    /\ next[h].tenant = ds[h].tenant
                                    /\ next[h].type = ds[h].type

\* Request y is x, or x marked late.
Follows(x, y) ==
  \/ y = x
  \/ /\ x.pc = "fill" /\ y.pc = "fill" /\ y.late = TRUE
     /\ y.host = x.host /\ y.found = x.found /\ y.route = x.route

\* Marking requests late changes those that are about to cache one of the hosts, and only them.
LEMMA LateRequests ==
  ASSUME NEW others \in [Processes -> Process], NEW hosts
  PROVE  /\ LateFor(hosts, others) \in [Processes -> Process]
         /\ \A q \in Processes : Follows(others[q], LateFor(hosts, others)[q])
         /\ \A q \in Processes : others[q].pc = "fill" /\ others[q].host \in hosts => LateFor(hosts, others)[q].late = TRUE
         /\ \A q \in Processes : others[q].pc # "fill" => LateFor(hosts, others)[q] = others[q]
<1>1. ASSUME NEW q \in Processes, others[q].pc = "fill"
      PROVE  LET y == [others[q] EXCEPT !.late = TRUE]
             IN  y \in Process /\ Follows(others[q], y) /\ y.late = TRUE
  <2> DEFINE y == [others[q] EXCEPT !.late = TRUE]
  <2>1. others[q] \in Filling
    BY <1>1, Shape
  <2>2. y \in Filling
    BY <2>1, ZenonT(60) DEF Filling
  <2>3. y.late = TRUE /\ y.pc = "fill" /\ y.host = others[q].host /\ y.found = others[q].found /\ y.route = others[q].route
    BY <2>1 DEF Filling
  <2>4. QED
    BY <1>1, <2>2, <2>3, ProcessCases DEF Follows
<1>2. ASSUME NEW q \in Processes
      PROVE  /\ LateFor(hosts, others)[q] \in Process
             /\ Follows(others[q], LateFor(hosts, others)[q])
             /\ others[q].pc = "fill" /\ others[q].host \in hosts => LateFor(hosts, others)[q].late = TRUE
             /\ others[q].pc # "fill" => LateFor(hosts, others)[q] = others[q]
  <2>1. CASE others[q].pc = "fill" /\ others[q].host \in hosts
    <3>1. LateFor(hosts, others)[q] = [others[q] EXCEPT !.late = TRUE]
      BY <2>1 DEF LateFor
    <3>2. QED
      BY <1>1, <2>1, <3>1
  <2>2. CASE ~(others[q].pc = "fill" /\ others[q].host \in hosts)
    <3>1. LateFor(hosts, others)[q] = others[q]
      BY <2>2 DEF LateFor
    <3>2. QED
      BY <2>2, <3>1 DEF Follows
  <2>3. QED
    BY <2>1, <2>2, ZenonT(60)
<1>3. LateFor(hosts, others) \in [Processes -> Process]
  BY <1>2, ZenonT(60) DEF LateFor
<1>4. QED
  BY <1>2, <1>3, ZenonT(60)

\* Requests survive a change of the domains, if those that are about to cache a host that no
\* longer resolves are marked late.
LEMMA ProcsKept ==
  ASSUME IInv, NEW p \in Processes, procs' \in [Processes -> Process],
         ProcOK(procs'[p], domains', tenants'), Keeps(domains, domains'),
         \A q \in Processes \ {p} : Follows(procs[q], procs'[q]),
         \A q \in Processes \ {p} : procs[q].pc = "fill" =>
           \/ procs'[q].late = TRUE
           \/ Serves(procs[q].host, domains, tenants) => Serves(procs[q].host, domains', tenants')
  PROVE  ProcsOK'
<1>1. ASSUME NEW q \in Processes \ {p} PROVE ProcOK(procs'[q], domains', tenants')
  <2>1. ProcOK(procs[q], domains, tenants) /\ procs[q] \in Process /\ procs'[q] \in Process
    BY AtStep
  <2>2. procs[q].pc \in {"fill", "found", "sent"} \cup AimedPCs => procs[q].host \in Hosts
    BY <2>1, Shape DEF Filling, Hosted, Aimed, HostPCs
  <2>3. procs'[q].pc = procs[q].pc
    BY DEF Follows
  <2>4. procs[q].pc \in {"fill", "found", "sent"} => Owns(procs'[q].host, procs'[q].found, domains')
    BY <2>1, <2>2 DEF Follows, ProcOK, Owns, Keeps
  <2>5. procs[q].pc = "fill" => procs'[q].late = TRUE \/ Serves(procs'[q].host, domains', tenants')
    BY <2>1 DEF Follows, ProcOK
  <2>6. procs[q].pc # "fill" => procs'[q] = procs[q]
    BY DEF Follows
  <2>7. procs[q].pc \in AimedPCs => domains'[procs'[q].host] # NoRow /\ domains'[procs'[q].host].tenant = procs'[q].tenant
    BY <2>1, <2>2, <2>6 DEF ProcOK, Keeps, AimedPCs
  <2>8. procs[q].pc = "sent" => procs'[q].found.type \in RequiredApp(procs'[q].route)
    BY <2>1, <2>6 DEF ProcOK
  <2>9. QED
    BY <2>1, <2>3, <2>4, <2>5, <2>7, <2>8 DEF ProcOK
<1>2. QED
  BY <1>1 DEF ProcsOK

\* The cache survives a change of the domains, if the hosts that no longer resolve are going
\* to be deleted from it.
LEMMA CacheKept ==
  ASSUME IInv, Keeps(domains, domains'), UNCHANGED domainCache,
         \A q \in Processes : procs[q].pc = "invalidate" => procs'[q] = procs[q],
         \A h \in Hosts : domainCache[h] # Miss /\ Routable(h) =>
           \/ Routable(h)'
           \/ \E q \in Processes : procs'[q].pc = "invalidate" /\ h \in procs'[q].hosts
  PROVE  CacheOK'
<1>1. \A h \in Hosts : domainCache'[h] # Miss => Owns(h, domainCache'[h].value, domains')
  BY DEF IInv, HostsOK, CacheOK, Owns, Keeps
<1>2. StaleHasACause'
  BY DEF IInv, HostsOK, CacheOK, StaleHasACause, In
<1>3. QED
  BY <1>1, <1>2 DEF IInv, HostsOK, CacheOK

\* A row is stored with the columns of its host's old row that never change, and its cache
\* entry is going to be deleted.
LEMMA Stores ==
  ASSUME IInv, NEW p \in Processes, NEW h \in Hosts, NEW row \in Domain, NEW status \in Statuses,
         Store(p, h, row, status), procs[p].pc # "invalidate", Agrees(row),
         domains[h] # NoRow, row.tenant = domains[h].tenant, row.type = domains[h].type,
         domains[h].verified => row.verified
  PROVE  HostsOK'
<1> DEFINE x == [pc |-> "invalidate", hosts |-> {h}, status |-> status]
           others == [procs EXCEPT ![p] = x]
           denied == IF row.active THEN {} ELSE {h}
<1>1. /\ domains' = [domains EXCEPT ![h] = row] /\ procs' = LateFor(denied, others)
      /\ UNCHANGED <<tenants, audit, domainCache>>
  BY DEF Store
<1>2. /\ domains \in [Hosts -> Domain \cup {NoRow}] /\ domains' \in [Hosts -> Domain \cup {NoRow}]
      /\ domains'[h] = row /\ \A g \in Hosts \ {h} : domains'[g] = domains[g]
  BY <1>1 DEF IInv, HostsOK, RowsOK
<1>3. RowsOK'
  BY <1>1, <1>2 DEF IInv, HostsOK, RowsOK
<1>4. Keeps(domains, domains')
  BY <1>2, NoRowIsNoDomain DEF Keeps
<1>5. x \in Process /\ x.pc = "invalidate" /\ x.hosts = {h}
  <2>1. x \in Invalidating
    BY DEF Invalidating
  <2>2. QED
    BY <2>1, ProcessCases
<1>6. /\ others \in [Processes -> Process] /\ others[p] = x
      /\ \A q \in Processes \ {p} : others[q] = procs[q]
  BY <1>5 DEF IInv, HostsOK, ProcsOK
<1> HIDE DEF x, others
<1>7. /\ procs' \in [Processes -> Process]
      /\ \A q \in Processes : Follows(others[q], procs'[q])
      /\ \A q \in Processes : others[q].pc = "fill" /\ others[q].host \in denied => procs'[q].late = TRUE
      /\ \A q \in Processes : others[q].pc # "fill" => procs'[q] = others[q]
  BY <1>1, <1>6, LateRequests, ZenonT(60)
<1>8. procs'[p] = x
  BY <1>5, <1>6, <1>7
<1>9. ProcOK(x, domains', tenants')
  BY <1>5 DEF ProcOK, AimedPCs
<1>10. \A g \in Hosts : g \notin denied /\ Serves(g, domains, tenants) => Serves(g, domains', tenants')
  BY <1>1, <1>2, NoRowIsNoDomain DEF Serves
<1>11. ASSUME NEW q \in Processes \ {p}, procs[q].pc = "fill"
       PROVE  \/ procs'[q].late = TRUE
              \/ Serves(procs[q].host, domains, tenants) => Serves(procs[q].host, domains', tenants')
  <2>1. procs[q].host \in Hosts
    BY <1>11, AtStep, Shape DEF Filling
  <2>2. QED
    BY <1>6, <1>7, <1>10, <1>11, <2>1
<1>12. ProcsOK'
  BY <1>4, <1>6, <1>7, <1>8, <1>9, <1>11, ProcsKept, ZenonT(60)
<1>13. \A q \in Processes : procs[q].pc = "invalidate" => procs'[q] = procs[q]
  BY <1>6, <1>7
<1>14. ASSUME NEW g \in Hosts, Routable(g)
       PROVE  \/ Routable(g)'
              \/ \E q \in Processes : procs'[q].pc = "invalidate" /\ g \in procs'[q].hosts
  <2>1. CASE g = h
    BY <1>5, <1>8, <2>1
  <2>2. CASE g # h
    BY <1>1, <1>2, <1>14, <2>2 DEF Routable
  <2>3. QED
    BY <2>1, <2>2
<1>15. CacheOK'
  BY <1>1, <1>4, <1>13, <1>14, CacheKept, ZenonT(60)
<1>16. QED
  BY <1>3, <1>12, <1>15 DEF HostsOK

\* Verifications, activations and deactivations store such a row.
LEMMA DomainStores ==
  ASSUME IInv, NEW p \in Processes,
         MarkVerificationSucceeded(p) \/ MarkVerificationFailed(p) \/ StoreActive(p) \/ DeactivateDomain(p)
  PROVE  HostsOK'
<1>0. procs[p].pc # "invalidate"
  BY DEF MarkVerificationSucceeded, MarkVerificationFailed, StoreActive, DeactivateDomain, Start, In
<1>1. ASSUME procs[p].pc \in AimedPCs
      PROVE  /\ procs[p].host \in Hosts
             /\ domains[procs[p].host] \in Domain /\ domains[procs[p].host] # NoRow
             /\ Agrees(domains[procs[p].host])
             /\ GetTenantDomain(procs[p].tenant, procs[p].host) = domains[procs[p].host]
  <2>1. procs[p] \in Aimed /\ ProcOK(procs[p], domains, tenants)
    BY <1>1, AtStep, Shape
  <2>2. procs[p].host \in Hosts /\ domains[procs[p].host] # NoRow /\ domains[procs[p].host].tenant = procs[p].tenant
    BY <1>1, <2>1 DEF Aimed, ProcOK
  <2>3. QED
    BY <2>2 DEF GetTenantDomain, IInv, HostsOK, RowsOK
<1>2. ASSUME NEW status \in {"200", "404"}, Refuse(p, status) PROVE HostsOK'
  BY <1>0, <1>2, Refuses DEF Statuses
<1>3. CASE MarkVerificationSucceeded(p)
  <2> DEFINE h == procs[p].host
             row == [domains[h] EXCEPT !.verified = TRUE, !.state = "verified", !.token = FALSE]
  <2>1. /\ h \in Hosts /\ domains[h] \in Domain /\ domains[h] # NoRow
        /\ GetTenantDomain(procs[p].tenant, h) = domains[h]
    BY <1>1, <1>3 DEF MarkVerificationSucceeded, In, AimedPCs
  <2>2. /\ row \in Domain /\ row.verified = TRUE /\ row.state = "verified" /\ row.token = FALSE
        /\ row.tenant = domains[h].tenant /\ row.type = domains[h].type
    BY <2>1, ZenonT(60) DEF Domain
  <2>3. Agrees(row)
    BY <2>2 DEF Agrees
  <2>4. Store(p, h, row, "200")
    BY <1>3, <2>1 DEF MarkVerificationSucceeded, MarkDomainVerificationSucceeded
  <2> HIDE DEF h, row
  <2>5. QED
    BY <1>0, <2>1, <2>2, <2>3, <2>4, Stores DEF Statuses
<1>4. CASE MarkVerificationFailed(p)
  <2> DEFINE h == procs[p].host
             row == [domains[h] EXCEPT !.state = "failed"]
  <2>1. /\ h \in Hosts /\ domains[h] \in Domain /\ domains[h] # NoRow /\ Agrees(domains[h])
        /\ GetTenantDomain(procs[p].tenant, h) = domains[h]
    BY <1>1, <1>4 DEF MarkVerificationFailed, In, AimedPCs
  <2>2. CASE Refuse(p, "200")
    BY <1>2, <2>2
  <2>3. CASE ~domains[h].verified /\ Store(p, h, row, "422")
    <3>1. /\ row \in Domain /\ row.verified = domains[h].verified /\ row.state = "failed"
          /\ row.token = domains[h].token /\ row.active = domains[h].active
          /\ row.tenant = domains[h].tenant /\ row.type = domains[h].type
      BY <2>1 DEF Domain
    <3>2. Agrees(row)
      BY <2>1, <2>3, <3>1 DEF Agrees
    <3>3. Store(p, h, row, "422")
      BY <2>3
    <3> HIDE DEF h, row
    <3>4. QED
      BY <1>0, <2>1, <2>3, <3>1, <3>2, <3>3, Stores DEF Statuses
  <2>4. QED
    BY <1>4, <2>1, <2>2, <2>3 DEF MarkVerificationFailed, MarkDomainVerificationFailed
<1>5. CASE StoreActive(p)
  <2> DEFINE h == procs[p].host
             row == [domains[h] EXCEPT !.active = TRUE]
  <2>1. /\ h \in Hosts /\ domains[h] \in Domain /\ domains[h] # NoRow /\ Agrees(domains[h])
        /\ GetTenantDomain(procs[p].tenant, h) = domains[h]
    BY <1>1, <1>5 DEF StoreActive, In, AimedPCs
  <2>2. CASE Refuse(p, "404")
    BY <1>2, <2>2
  <2>3. CASE domains[h].verified /\ Store(p, h, row, "200")
    <3>1. /\ row \in Domain /\ row.verified = domains[h].verified /\ row.state = domains[h].state
          /\ row.token = domains[h].token /\ row.active = TRUE
          /\ row.tenant = domains[h].tenant /\ row.type = domains[h].type
      BY <2>1, ZenonT(60) DEF Domain
    <3>2. Agrees(row)
      BY <2>1, <2>3, <3>1 DEF Agrees
    <3>3. Store(p, h, row, "200")
      BY <2>3
    <3> HIDE DEF h, row
    <3>4. QED
      BY <1>0, <2>1, <2>3, <3>1, <3>2, <3>3, Stores, ZenonT(60) DEF Statuses
  <2>4. QED
    BY <1>5, <2>1, <2>2, <2>3 DEF StoreActive, ActivateTenantDomain
<1>6. CASE DeactivateDomain(p)
  <2>1. PICK t \in Tenants, h \in Hosts :
          LET row == DeactivateTenantDomain(t, h)
          IN  IF row = NoRow THEN Refuse(p, "404") ELSE Store(p, h, row, "200")
    BY <1>6 DEF DeactivateDomain
  <2>2. CASE Refuse(p, "404")
    BY <1>2, <2>2
  <2>3. CASE ~Refuse(p, "404")
    <3> DEFINE row == [domains[h] EXCEPT !.active = FALSE]
    <3>1. domains[h] # NoRow /\ Store(p, h, row, "200")
      BY <2>1, <2>3, ZenonT(60) DEF DeactivateTenantDomain, GetTenantDomain
    <3>2. domains[h] \in Domain /\ Agrees(domains[h])
      BY <3>1 DEF IInv, HostsOK, RowsOK
    <3>3. /\ row \in Domain /\ row.verified = domains[h].verified /\ row.state = domains[h].state
          /\ row.token = domains[h].token /\ row.active = FALSE
          /\ row.tenant = domains[h].tenant /\ row.type = domains[h].type
      BY <3>2, ZenonT(60) DEF Domain
    <3>4. Agrees(row)
      BY <3>2, <3>3 DEF Agrees
    <3> HIDE DEF row
    <3>5. QED
      BY <1>0, <3>1, <3>3, <3>4, Stores DEF Statuses
  <2>4. QED
    BY <2>2, <2>3
<1>7. QED
  BY <1>3, <1>4, <1>5, <1>6

\* A hostname that is new is cached nowhere and on its way to no cache.
LEMMA Inserts ==
  ASSUME IInv, NEW p \in Processes, InsertDomain(p)
  PROVE  HostsOK'
<1> DEFINE h == procs[p].host
           t == procs[p].tenant
           row == CreateTenantDomain(t, procs[p].type)
<1>0. procs[p].pc # "invalidate" /\ procs[p] \in Inserting
  BY AtStep, Shape DEF InsertDomain, In
<1>1. CASE Refuse(p, "404") \/ Refuse(p, "409")
  BY <1>0, <1>1, Refuses DEF Statuses
<1>2. CASE ~(Refuse(p, "404") \/ Refuse(p, "409"))
  <2>1. /\ row # NoRow /\ domains[h] = NoRow
        /\ domains' = [domains EXCEPT ![h] = row] /\ Answer(p, "201")
        /\ UNCHANGED <<tenants, audit, domainCache>>
    BY <1>2 DEF InsertDomain
  <2>2. h \in Hosts /\ t \in Tenants /\ procs[p].type \in DomainTypes
    BY <1>0 DEF Inserting
  <2>3. row = [tenant |-> t, type |-> procs[p].type, verified |-> FALSE, active |-> FALSE,
               state |-> "pending", token |-> TRUE]
    BY <2>1 DEF CreateTenantDomain
  <2>4. row \in Domain /\ Agrees(row) /\ row.active = FALSE
    BY <2>2, <2>3 DEF Domain, Agrees
  <2> HIDE DEF row
  <2>5. /\ domains' \in [Hosts -> Domain \cup {NoRow}]
        /\ domains'[h] = row /\ \A g \in Hosts \ {h} : domains'[g] = domains[g]
    BY <2>1, <2>2, <2>4 DEF IInv, HostsOK, RowsOK
  <2>6. RowsOK'
    BY <2>1, <2>4, <2>5 DEF IInv, HostsOK, RowsOK
  <2>7. Keeps(domains, domains')
    BY <2>1, <2>5 DEF Keeps
  <2> DEFINE x == [pc |-> "done", status |-> "201"]
  <2>8. x \in Process /\ x.pc = "done"
    <3>1. x \in Answered
      BY DEF Answered, Statuses
    <3>2. QED
      BY <3>1, ProcessCases
  <2>9. /\ procs' \in [Processes -> Process] /\ procs'[p] = x
        /\ \A q \in Processes \ {p} : procs'[q] = procs[q]
    BY <2>1, <2>8 DEF Answer, Become, IInv, HostsOK, ProcsOK
  <2> HIDE DEF x
  <2>10. ProcOK(x, domains', tenants')
    BY <2>8 DEF ProcOK, AimedPCs
  <2>11. \A g \in Hosts : Serves(g, domains, tenants) => Serves(g, domains', tenants')
    BY <2>1, <2>5 DEF Serves
  <2>12. \A q \in Processes : procs[q].pc = "fill" => procs[q].host \in Hosts
    BY AtStep, Shape DEF Filling
  <2>13. ProcsOK'
    BY <2>7, <2>9, <2>10, <2>11, <2>12, ProcsKept, ZenonT(60) DEF Follows
  <2>14. \A g \in Hosts : Routable(g) => Routable(g)'
    BY <2>11 DEF Routable, Serves
  <2>15. CacheOK'
    BY <1>0, <2>1, <2>7, <2>9, <2>14, CacheKept
  <2>16. QED
    BY <2>6, <2>13, <2>15 DEF HostsOK
<1>3. QED
  BY <1>1, <1>2

\* A tenant that is founded takes no host from anybody.
LEMMA Founds ==
  ASSUME IInv, NEW p \in Processes, CreateTenant(p)
  PROVE  HostsOK' /\ SettingsOK'
<1>0. procs[p].pc # "invalidate" /\ changes' \in Nat
  BY DEF CreateTenant, Start, In, IInv, SettingsOK
<1>1. PICK t \in Tenants, input \in [Fields -> Inputs] :
        /\ tenants[t] = "none"
        /\ IF Normalized(input) \notin Settings THEN Refuse(p, "400")
           ELSE /\ tenants' = [tenants EXCEPT ![t] = "active"]
                /\ settings' = InitializeTenantSettings(t, Normalized(input))
                /\ Become(p, [pc |-> "cache", tenant |-> t, value |-> Normalized(input), patch |-> NoPatch])
                /\ UNCHANGED <<domains, audit, domainCache, settingsCache, load>>
  BY DEF CreateTenant
<1>2. CASE Refuse(p, "400")
  <2>1. UNCHANGED <<settings, settingsCache>>
    BY <1>2 DEF Refuse, tables
  <2>2. SettingsOK'
    BY <1>0, <2>1 DEF IInv, SettingsOK
  <2>3. QED
    BY <1>0, <1>2, <2>2, Refuses DEF Statuses
<1>3. CASE ~Refuse(p, "400")
  <2> DEFINE value == Normalized(input)
             x == [pc |-> "cache", tenant |-> t, value |-> value, patch |-> NoPatch]
  <2>1. /\ value \in Settings /\ tenants' = [tenants EXCEPT ![t] = "active"]
        /\ settings' = [settings EXCEPT ![t] = value] /\ Become(p, x)
        /\ UNCHANGED <<domains, audit, domainCache, settingsCache, load>>
    BY <1>1, <1>3 DEF InitializeTenantSettings
  <2> HIDE DEF value
  <2>2. SettingsOK'
    BY <1>0, <2>1, ZenonT(60) DEF IInv, SettingsOK
  <2>3. /\ tenants' \in [Tenants -> {"none", "active", "suspended"}]
        /\ tenants'[t] = "active" /\ \A u \in Tenants \ {t} : tenants'[u] = tenants[u]
    BY <2>1 DEF IInv, HostsOK, RowsOK
  <2>5. RowsOK'
    BY <2>1, <2>3 DEF IInv, HostsOK, RowsOK
  <2>6. x \in Process /\ x.pc = "cache"
    <3>1. x \in Caching
      BY <2>1 DEF Caching, Uses
    <3>2. QED
      BY <3>1, ProcessCases
  <2>7. /\ procs' \in [Processes -> Process] /\ procs'[p] = x
        /\ \A q \in Processes \ {p} : procs'[q] = procs[q]
    BY <2>1, <2>6 DEF Become, IInv, HostsOK, ProcsOK
  <2> HIDE DEF x
  <2>8. ProcOK(x, domains', tenants')
    BY <2>6 DEF ProcOK, AimedPCs
  <2>9. Keeps(domains, domains')
    BY <2>1 DEF Keeps
  <2>10. \A g \in Hosts : Serves(g, domains, tenants) => Serves(g, domains', tenants')
    <3>1. \A g \in Hosts : domains[g] # NoRow => domains[g].tenant \in Tenants
      BY DEF IInv, HostsOK, RowsOK, Domain
    <3>2. QED
      BY <2>1, <2>3, <3>1 DEF Serves
  <2>11. \A q \in Processes : procs[q].pc = "fill" => procs[q].host \in Hosts
    BY AtStep, Shape DEF Filling
  <2>12. ProcsOK'
    BY <2>7, <2>8, <2>9, <2>10, <2>11, ProcsKept, ZenonT(60) DEF Follows
  <2>13. \A g \in Hosts : Routable(g) => Routable(g)'
    BY <2>10 DEF Routable, Serves
  <2>14. CacheOK'
    BY <1>0, <2>1, <2>7, <2>9, <2>13, CacheKept
  <2>15. QED
    BY <2>2, <2>5, <2>12, <2>14 DEF HostsOK
<1>4. QED
  BY <1>2, <1>3


-----------------------------------------------------------------------------
(* Steps that change the cache of hosts.                                   *)

\* Entries that are excused stay what they are.
LEMMA Excuses ==
  ASSUME IInv, NEW hosts
  PROVE  /\ Excuse(hosts, domainCache) \in [Hosts -> Entry \cup {Miss}]
         /\ \A h \in Hosts :
              /\ Excuse(hosts, domainCache)[h] # Miss =>
                   /\ domainCache[h] # Miss
                   /\ Excuse(hosts, domainCache)[h].value = domainCache[h].value
                   /\ domainCache[h].excused => Excuse(hosts, domainCache)[h].excused
                   /\ h \in hosts => Excuse(hosts, domainCache)[h].excused
<1>0. domainCache \in [Hosts -> Entry \cup {Miss}]
  BY DEF IInv, HostsOK, CacheOK
<1>1. ASSUME NEW h \in Hosts
      PROVE  /\ Excuse(hosts, domainCache)[h] \in Entry \cup {Miss}
             /\ Excuse(hosts, domainCache)[h] # Miss =>
                   /\ domainCache[h] # Miss
                   /\ Excuse(hosts, domainCache)[h].value = domainCache[h].value
                   /\ domainCache[h].excused => Excuse(hosts, domainCache)[h].excused
                   /\ h \in hosts => Excuse(hosts, domainCache)[h].excused
  <2>1. CASE h \in hosts /\ domainCache[h] # Miss
    <3> DEFINE e == [domainCache[h] EXCEPT !.excused = TRUE]
    <3>1. Excuse(hosts, domainCache)[h] = e
      BY <2>1 DEF Excuse
    <3>2. domainCache[h] \in Entry
      BY <1>0, <2>1
    <3>3. e \in Entry /\ e.value = domainCache[h].value /\ e.excused = TRUE
      BY <3>2, ZenonT(60) DEF Entry
    <3> HIDE DEF e
    <3>4. QED
      BY <2>1, <3>1, <3>3
  <2>2. CASE ~(h \in hosts /\ domainCache[h] # Miss)
    <3>1. Excuse(hosts, domainCache)[h] = domainCache[h]
      BY <2>2 DEF Excuse
    <3>2. QED
      BY <1>0, <2>2, <3>1
  <2>3. QED
    BY <2>1, <2>2
<1>2. Excuse(hosts, domainCache) \in [Hosts -> Entry \cup {Miss}]
  BY <1>1 DEF Excuse
<1>3. QED
  BY <1>1, <1>2

\* A read that was overtaken by a denial is excused when it reaches the cache.
LEMMA Fills ==
  ASSUME IInv, NEW p \in Processes, FillDomain(p)
  PROVE  HostsOK'
<1> DEFINE h == procs[p].host
           r == procs[p].found
           x == [pc |-> "found", host |-> h, route |-> procs[p].route, found |-> r]
<1>1. procs[p] \in Filling /\ ProcOK(procs[p], domains, tenants) /\ procs[p].pc = "fill"
  BY AtStep, Shape DEF FillDomain, In
<1>2. /\ h \in Hosts /\ procs[p].route \in Routes /\ r \in Resolution /\ procs[p].late \in BOOLEAN
      /\ Owns(h, r, domains) /\ (procs[p].late \/ Serves(h, domains, tenants))
  BY <1>1 DEF Filling, ProcOK
<1>3. Become(p, x) /\ UNCHANGED <<tenants, domains, audit>>
  BY DEF FillDomain, Hit, tables
<1>4. x \in Process /\ x.pc = "found" /\ x.host = h /\ x.found = r
  <2>1. x \in Hosted
    BY <1>2 DEF Hosted, HostPCs
  <2>2. QED
    BY <2>1, ProcessCases
<1>5. ProcOK(x, domains, tenants)
  BY <1>2, <1>4, ZenonT(60) DEF ProcOK, AimedPCs
<1>6. CASE UNCHANGED domainCache
  <2> HIDE DEF x
  <2>1. QED
    BY <1>1, <1>3, <1>5, <1>6, Quiet
<1>7. CASE domainCache' = [domainCache EXCEPT ![h] = NewEntry(r, procs[p].late)]
  <2> DEFINE e == NewEntry(r, procs[p].late)
  <2>1. e \in Entry /\ e.value = r /\ e.excused = procs[p].late
    BY <1>2, ZenonT(60) DEF NewEntry, Entry
  <2>2. domainCache' = [domainCache EXCEPT ![h] = e]
    BY <1>7
  <2> HIDE DEF e, x
  <2>3. /\ domainCache' \in [Hosts -> Entry \cup {Miss}] /\ domainCache'[h] = e
        /\ \A g \in Hosts \ {h} : domainCache'[g] = domainCache[g]
    BY <1>2, <2>1, <2>2, ZenonT(60) DEF IInv, HostsOK, CacheOK
  <2>4. /\ procs' \in [Processes -> Process] /\ procs'[p] = x
        /\ \A q \in Processes \ {p} : procs'[q] = procs[q]
    BY <1>3, <1>4 DEF Become, IInv, HostsOK, ProcsOK
  <2>5. RowsOK'
    BY <1>3 DEF IInv, HostsOK, RowsOK
  <2>6. ProcsOK'
    BY <1>3, <1>5, <2>4 DEF IInv, HostsOK, ProcsOK
  <2>7. \A g \in Hosts : (Routable(g)' <=> Routable(g)) /\ (Serves(g, domains, tenants) => Routable(g))
    BY <1>3 DEF Routable, Serves
  <2>8. \A g \in Hosts : domainCache'[g] # Miss => Owns(g, domainCache'[g].value, domains')
    BY <1>2, <1>3, <2>1, <2>3 DEF IInv, HostsOK, CacheOK
  <2>9. ASSUME NEW g \in Hosts, domainCache'[g] # Miss, ~Routable(g)'
        PROVE  \/ domainCache'[g].excused
               \/ \E q \in Processes : In(q, "invalidate")' /\ g \in procs'[q].hosts
    <3>1. CASE g = h
      BY <1>2, <2>1, <2>3, <2>7, <2>9, <3>1
    <3>2. CASE g # h
      <4>1. domainCache[g] # Miss /\ ~Routable(g) /\ domainCache'[g] = domainCache[g]
        BY <2>3, <2>7, <2>9, <3>2
      <4>2. \/ domainCache[g].excused
            \/ \E q \in Processes : procs[q].pc = "invalidate" /\ g \in procs[q].hosts
        BY <4>1 DEF IInv, HostsOK, CacheOK, StaleHasACause, In
      <4>3. QED
        BY <1>1, <2>4, <4>1, <4>2 DEF In
    <3>3. QED
      BY <3>1, <3>2
  <2>10. CacheOK'
    BY <2>3, <2>8, <2>9 DEF CacheOK, StaleHasACause
  <2>11. QED
    BY <2>5, <2>6, <2>10 DEF HostsOK
<1>8. QED
  BY <1>6, <1>7 DEF FillDomain

\* Entries go, or are excused, for the hosts that a request no longer means to delete.
LEMMA Shrinks ==
  ASSUME IInv, NEW p \in Processes, NEW x, ProcOK(x, domains, tenants), Become(p, x),
         UNCHANGED <<tenants, domains, audit>>, domainCache' \in [Hosts -> Entry \cup {Miss}],
         \A h \in Hosts : domainCache'[h] # Miss =>
           /\ domainCache[h] # Miss
           /\ domainCache'[h].value = domainCache[h].value
           /\ domainCache[h].excused => domainCache'[h].excused
           /\ \/ domainCache'[h].excused
              \/ procs[p].pc = "invalidate" /\ h \in procs[p].hosts => x.pc = "invalidate" /\ h \in x.hosts
  PROVE  HostsOK'
<1>1. /\ procs' \in [Processes -> Process] /\ procs'[p] = x
      /\ \A q \in Processes \ {p} : procs'[q] = procs[q]
  BY DEF Become, IInv, HostsOK, ProcsOK, ProcOK
<1>2. RowsOK'
  BY DEF IInv, HostsOK, RowsOK
<1>3. ProcsOK'
  BY <1>1 DEF IInv, HostsOK, ProcsOK
<1>4. \A g \in Hosts : (Routable(g)' <=> Routable(g))
  BY DEF Routable
<1>5. \A g \in Hosts : domainCache'[g] # Miss => Owns(g, domainCache'[g].value, domains')
  BY DEF IInv, HostsOK, CacheOK, Owns
<1>6. ASSUME NEW g \in Hosts, domainCache'[g] # Miss, ~Routable(g)'
      PROVE  \/ domainCache'[g].excused
             \/ \E q \in Processes : In(q, "invalidate")' /\ g \in procs'[q].hosts
  <2>1. domainCache[g] # Miss /\ ~Routable(g)
    BY <1>4, <1>6
  <2>2. \/ domainCache[g].excused
        \/ \E q \in Processes : procs[q].pc = "invalidate" /\ g \in procs[q].hosts
    BY <2>1 DEF IInv, HostsOK, CacheOK, StaleHasACause, In
  <2>3. CASE domainCache[g].excused
    BY <1>6, <2>3
  <2>4. ASSUME NEW q \in Processes, procs[q].pc = "invalidate", g \in procs[q].hosts
        PROVE  domainCache'[g].excused \/ (procs'[q].pc = "invalidate" /\ g \in procs'[q].hosts)
    BY <1>1, <1>6, <2>4
  <2>5. QED
    BY <2>2, <2>3, <2>4 DEF In
<1>7. CacheOK'
  BY <1>5, <1>6 DEF CacheOK, StaleHasACause
<1>8. QED
  BY <1>2, <1>3, <1>7 DEF HostsOK

\* A deletion, whether or not it reaches Redis.
LEMMA Invalidates ==
  ASSUME IInv, NEW p \in Processes, InvalidateDomain(p)
  PROVE  HostsOK'
<1> DEFINE left == procs[p].hosts
<1>1. procs[p] \in Invalidating /\ procs[p].pc = "invalidate" /\ UNCHANGED <<tenants, domains, audit>>
  BY AtStep, Shape DEF InvalidateDomain, In, tables
<1>2. left \subseteq Hosts /\ procs[p].status \in Statuses
  BY <1>1 DEF Invalidating
<1>3. domainCache \in [Hosts -> Entry \cup {Miss}]
  BY DEF IInv, HostsOK, CacheOK
<1>4. CASE left = {} /\ Answer(p, procs[p].status) /\ UNCHANGED domainCache
  <2> DEFINE x == [pc |-> "done", status |-> procs[p].status]
  <2>1. ProcOK(x, domains, tenants)
    BY <1>2, AnsweredOK
  <2>2. Become(p, x)
    BY <1>4 DEF Answer
  <2> HIDE DEF x
  <2>3. QED
    BY <1>1, <1>3, <1>4, <2>1, <2>2, Shrinks
<1>5. ASSUME NEW h \in left,
             \/ domainCache' = [domainCache EXCEPT ![h] = Miss]
             \/ domainCache' = Excuse({h}, domainCache),
             procs' = [procs EXCEPT ![p].hosts = left \ {h}]
      PROVE  HostsOK'
  <2> DEFINE x == [procs[p] EXCEPT !.hosts = left \ {h}]
  <2>1. x \in Invalidating /\ x.pc = "invalidate" /\ x.hosts = left \ {h}
    BY <1>1, <1>2 DEF Invalidating
  <2>2. ProcOK(x, domains, tenants)
    BY <2>1, ProcessCases DEF ProcOK, AimedPCs
  <2>3. Become(p, x)
    BY <1>5 DEF Become
  <2>4. h \in Hosts
    BY <1>2
  <2> HIDE DEF x
  <2>5. CASE domainCache' = [domainCache EXCEPT ![h] = Miss]
    <3>1. /\ domainCache' \in [Hosts -> Entry \cup {Miss}] /\ domainCache'[h] = Miss
          /\ \A g \in Hosts \ {h} : domainCache'[g] = domainCache[g]
      BY <1>3, <2>4, <2>5
    <3>2. QED
      BY <1>1, <2>1, <2>2, <2>3, <3>1, Shrinks
  <2>6. CASE domainCache' = Excuse({h}, domainCache)
    BY <1>1, <2>1, <2>2, <2>3, <2>6, Excuses, Shrinks
  <2>7. QED
    BY <1>5, <2>5, <2>6
<1>6. QED
  BY <1>4, <1>5, ZenonT(60) DEF InvalidateDomain

\* A request that is lost; the deletions it still had to do are excused.
LEMMA Crashes ==
  ASSUME IInv, NEW p \in Processes, Crash(p)
  PROVE  HostsOK'
<1>1. UNCHANGED <<tenants, domains, audit>> /\ Become(p, Idle)
  BY DEF Crash, tables
<1>2. domainCache \in [Hosts -> Entry \cup {Miss}]
  BY DEF IInv, HostsOK, CacheOK
<1>3. CASE In(p, "invalidate")
  <2>1. domainCache' = Excuse(procs[p].hosts, domainCache)
    BY <1>3 DEF Crash
  <2>2. QED
    BY <1>1, <2>1, IdleOK, Excuses, Shrinks
<1>4. CASE ~In(p, "invalidate")
  <2>1. domainCache' = domainCache
    BY <1>4 DEF Crash
  <2>2. QED
    BY <1>1, <1>4, <2>1, IdleOK, Quiet DEF In
<1>5. QED
  BY <1>3, <1>4

\* An entry expires.
LEMMA Expires ==
  ASSUME IInv, NEW h \in Hosts, ExpireDomain(h)
  PROVE  HostsOK'
<1>1. UNCHANGED <<tenants, domains, audit, procs>>
  BY DEF ExpireDomain, tables
<1>2. /\ domainCache' \in [Hosts -> Entry \cup {Miss}] /\ domainCache'[h] = Miss
      /\ \A g \in Hosts \ {h} : domainCache'[g] = domainCache[g]
  BY DEF ExpireDomain, IInv, HostsOK, CacheOK
<1>3. RowsOK' /\ ProcsOK'
  BY <1>1 DEF IInv, HostsOK, RowsOK, ProcsOK
<1>4. \A g \in Hosts : (Routable(g)' <=> Routable(g))
  BY <1>1 DEF Routable
<1>5. CacheOK'
  BY <1>1, <1>2, <1>4 DEF IInv, HostsOK, CacheOK, StaleHasACause, In
<1>6. QED
  BY <1>3, <1>5 DEF HostsOK

\* A suspension: hosts of the tenant that were not listed are excused, the others are going to
\* be deleted.
LEMMA Commits ==
  ASSUME IInv, NEW p \in Processes, CommitStatus(p)
  PROVE  HostsOK'
<1> DEFINE t == procs[p].tenant
           status == procs[p].status
           denied == IF status = "active" THEN {} ELSE Hostnames(t)
           x == [pc |-> "invalidate", hosts |-> procs[p].hosts, status |-> "200"]
           others == [procs EXCEPT ![p] = x]
<1>1. /\ tenants' = [tenants EXCEPT ![t] = status] /\ audit' = [audit EXCEPT ![t] = audit[t] \cup {status}]
      /\ domainCache' = Excuse(denied \ procs[p].hosts, domainCache)
      /\ procs' = LateFor(denied, others) /\ domains' = domains
  BY DEF CommitStatus
<1>2. /\ t \in Tenants /\ status \in {"active", "suspended"} /\ procs[p].hosts \subseteq Hosts
      /\ procs[p].pc = "commit"
  <2>1. procs[p] \in Committing /\ procs[p].pc = "commit"
    BY AtStep, Shape DEF CommitStatus, In
  <2>2. QED
    BY <2>1 DEF Committing
<1>3. x \in Process /\ x.pc = "invalidate" /\ x.hosts = procs[p].hosts
  <2>1. x \in Invalidating
    BY <1>2 DEF Invalidating, Statuses
  <2>2. QED
    BY <2>1, ProcessCases
<1>4. /\ others \in [Processes -> Process] /\ others[p] = x
      /\ \A q \in Processes \ {p} : others[q] = procs[q]
  BY <1>3 DEF IInv, HostsOK, ProcsOK
<1>5. /\ tenants' \in [Tenants -> {"none", "active", "suspended"}]
      /\ audit' \in [Tenants -> SUBSET {"active", "suspended"}]
      /\ tenants'[t] = status /\ \A u \in Tenants \ {t} : tenants'[u] = tenants[u]
  BY <1>1, <1>2 DEF IInv, HostsOK, RowsOK
<1>6. RowsOK'
  BY <1>1, <1>5 DEF IInv, HostsOK, RowsOK
<1>7. \A g \in Hosts : g \notin denied /\ Serves(g, domains, tenants) => Serves(g, domains', tenants')
  <2>1. \A g \in Hosts : domains[g] # NoRow => domains[g].tenant \in Tenants
    BY DEF IInv, HostsOK, RowsOK, Domain
  <2>2. QED
    BY <1>1, <1>2, <1>5, <2>1 DEF Serves, Hostnames, GetTenantDomain
<1> HIDE DEF x, others, denied
<1>8. /\ procs' \in [Processes -> Process]
      /\ \A q \in Processes : Follows(others[q], procs'[q])
      /\ \A q \in Processes : others[q].pc = "fill" /\ others[q].host \in denied => procs'[q].late = TRUE
      /\ \A q \in Processes : others[q].pc # "fill" => procs'[q] = others[q]
  BY <1>1, <1>4, LateRequests, ZenonT(60)
<1>9. procs'[p] = x
  BY <1>3, <1>4, <1>8
<1>10. ProcOK(x, domains', tenants')
  BY <1>3 DEF ProcOK, AimedPCs
<1>11. ASSUME NEW q \in Processes \ {p}, procs[q].pc = "fill"
       PROVE  \/ procs'[q].late = TRUE
              \/ Serves(procs[q].host, domains, tenants) => Serves(procs[q].host, domains', tenants')
  <2>1. procs[q].host \in Hosts
    BY <1>11, AtStep, Shape DEF Filling
  <2>2. QED
    BY <1>4, <1>7, <1>8, <1>11, <2>1
<1>12. Keeps(domains, domains')
  BY <1>1 DEF Keeps
<1>13. ProcsOK'
  BY <1>4, <1>8, <1>9, <1>10, <1>11, <1>12, ProcsKept, ZenonT(60)
<1>14. /\ domainCache' \in [Hosts -> Entry \cup {Miss}]
       /\ \A g \in Hosts : domainCache'[g] # Miss =>
            /\ domainCache[g] # Miss /\ domainCache'[g].value = domainCache[g].value
            /\ domainCache[g].excused => domainCache'[g].excused
            /\ g \in denied \ procs[p].hosts => domainCache'[g].excused
  BY <1>1, Excuses
<1>15. \A g \in Hosts : domainCache'[g] # Miss => Owns(g, domainCache'[g].value, domains')
  BY <1>1, <1>14, ZenonT(60) DEF IInv, HostsOK, CacheOK, Owns
<1>16. ASSUME NEW g \in Hosts, domainCache'[g] # Miss, ~Routable(g)'
       PROVE  \/ domainCache'[g].excused
              \/ \E q \in Processes : In(q, "invalidate")' /\ g \in procs'[q].hosts
  <2>1. CASE g \in denied
    BY <1>3, <1>9, <1>14, <1>16, <2>1 DEF In
  <2>2. CASE g \notin denied
    <3>1. ~Routable(g)
      BY <1>7, <1>16, <2>2 DEF Routable, Serves
    <3>2. \/ domainCache[g].excused
          \/ \E q \in Processes : procs[q].pc = "invalidate" /\ g \in procs[q].hosts
      BY <1>14, <1>16, <3>1 DEF IInv, HostsOK, CacheOK, StaleHasACause, In
    <3>3. \A q \in Processes : procs[q].pc = "invalidate" => procs'[q] = procs[q]
      BY <1>2, <1>4, <1>8
    <3>4. QED
      BY <1>14, <1>16, <3>2, <3>3 DEF In
  <2>3. QED
    BY <2>1, <2>2
<1>17. CacheOK'
  BY <1>14, <1>15, <1>16 DEF CacheOK, StaleHasACause
<1>18. QED
  BY <1>6, <1>13, <1>17 DEF HostsOK

-----------------------------------------------------------------------------
(* The invariant holds.                                                    *)

\* Settings and their cache keep their shape.
LEMMA SettingsStep ==
  ASSUME IInv, [Next]_vars
  PROVE  SettingsOK'
<1>0. /\ settings \in [Tenants -> Settings \cup {NoRow}]
      /\ settingsCache \in [Tenants -> [value : Settings, ttl : BOOLEAN] \cup {Miss}]
      /\ changes \in Nat
  BY DEF IInv, SettingsOK
<1>1. ASSUME UNCHANGED <<settings, settingsCache>>, changes' = changes \/ (changes > 0 /\ changes' = changes - 1)
      PROVE  SettingsOK'
  BY <1>0, <1>1 DEF SettingsOK
<1>2. ASSUME NEW p \in Processes, PlatformProxy(p) PROVE SettingsOK'
  <2>1. CASE CreateTenant(p)
    BY <2>1, Founds
  <2>2. CASE SetTenantStatus(p) \/ CreateDomain(p) \/ VerifyDomain(p) \/ ActivateDomain(p) \/ DeactivateDomain(p)
    <3>1. changes > 0 /\ changes' = changes - 1
      BY <2>2, ZenonT(60) DEF SetTenantStatus, CreateDomain, VerifyDomain, ActivateDomain, DeactivateDomain, Start
    <3>2. CASE CreateDomain(p)
      <4>1. PICK t \in Tenants, h \in Hosts, type \in DomainTypes :
              CASE GetTenant(t) = "none" -> Refuse(p, "404")
                [] GetTenant(t) = "suspended" -> Refuse(p, "409")
                [] GetTenant(t) = "active" ->
                     /\ Become(p, [pc |-> "insert", tenant |-> t, host |-> h, type |-> type])
                     /\ UNCHANGED <<tables, domainCache, settingsCache, load>>
        BY <3>2, ZenonT(60) DEF CreateDomain
      <4>2. GetTenant(t) \in {"none", "active", "suspended"}
        BY DEF GetTenant, IInv, HostsOK, RowsOK
      <4>3. QED
        BY <1>1, <3>1, <4>1, <4>2, ZenonT(60) DEF Refuse, tables
    <3>3. CASE SetTenantStatus(p) \/ VerifyDomain(p) \/ ActivateDomain(p) \/ DeactivateDomain(p)
      BY <1>1, <3>1, <3>3, ZenonT(60) DEF SetTenantStatus, VerifyDomain, ActivateDomain, DeactivateDomain, Store, Refuse, tables
    <3>4. QED
      BY <2>2, <3>2, <3>3
  <2>3. QED
    BY <1>2, <2>1, <2>2 DEF PlatformProxy
<1>3. ASSUME NEW p \in Processes, Requesting(p) \/ Resolving(p) \/ Relaying(p) \/ Unresolved(p) \/ UpstreamError(p) \/ Crash(p)
      PROVE  SettingsOK'
  BY <1>1, <1>3, ZenonT(60) DEF Requesting, Ask, ReadSettings, UpdateSettings, Start, Resolving, GetDomain, QueryDomain,
     FillDomain, TLSAuthorized, Relaying, Proxy, Auth, Config, Frontend, Handles, PublicConfig, Unresolved,
     UpstreamError, Crash, tables
<1>4. ASSUME NEW p \in Processes, Serving(p) PROVE SettingsOK'
  <2>1. CASE \/ InsertDomain(p) \/ LookupTXT(p) \/ MarkVerificationSucceeded(p) \/ MarkVerificationFailed(p)
             \/ StoreActive(p) \/ InvalidateDomain(p) \/ CommitStatus(p)
             \/ GetSettings(p) \/ QuerySettings(p) \/ Done(p)
    BY <1>1, <2>1 DEF InsertDomain, LookupTXT, MarkVerificationSucceeded, MarkVerificationFailed, StoreActive,
       InvalidateDomain, CommitStatus, GetSettings, QuerySettings, Done, Store, Refuse, tables
  <2>2. CASE StoreSettings(p)
    <3>1. procs[p].tenant \in Tenants /\ procs[p].value \in Settings
      BY <2>2, AtStep, Shape, ZenonT(60) DEF StoreSettings, In, Updating
    <3>2. QED
      BY <1>0, <2>2, <3>1 DEF StoreSettings, UpdateTenantSettings, SettingsOK
  <2>3. CASE CacheSettings(p)
    <3>1. procs[p].tenant \in Tenants /\ procs[p].value \in Settings
      BY <2>3, AtStep, Shape DEF CacheSettings, In, Caching
    <3>2. QED
      <4> DEFINE e == SettingsEntry(procs[p].value)
      <4>1. e \in [value : Settings, ttl : BOOLEAN]
        BY <3>1 DEF SettingsEntry
      <4>2. /\ UNCHANGED <<settings, changes>>
            /\ UNCHANGED settingsCache \/ settingsCache' = [settingsCache EXCEPT ![procs[p].tenant] = e]
        BY <2>3 DEF CacheSettings, tables
      <4> HIDE DEF e
      <4>3. QED
        BY <1>0, <3>1, <4>1, <4>2 DEF SettingsOK
  <2>4. QED
    BY <1>4, <2>1, <2>2, <2>3 DEF Serving
<1>5. ASSUME NEW h \in Hosts, ExpireDomain(h) PROVE SettingsOK'
  BY <1>1, <1>5 DEF ExpireDomain, tables
<1>6. ASSUME NEW t \in Tenants, ExpireSettings(t) PROVE SettingsOK'
  BY <1>0, <1>6 DEF ExpireSettings, SettingsOK, tables
<1>7. CASE UNCHANGED vars
  BY <1>1, <1>7 DEF vars, tables
<1>8. QED
  BY <1>2, <1>3, <1>4, <1>5, <1>6, <1>7 DEF Next, Expiring

\* Every step keeps hosts, requests and the cache of hosts in order.
LEMMA HostsStep ==
  ASSUME IInv, [Next]_vars
  PROVE  HostsOK'
<1>1. ASSUME NEW p \in Processes, PlatformProxy(p) PROVE HostsOK'
  BY <1>1, DomainRequests, DomainStores, Founds DEF PlatformProxy
<1>2. ASSUME NEW p \in Processes, Requesting(p) \/ Resolving(p) PROVE HostsOK'
  BY <1>2, Resolutions, SettingsHosts, Fills DEF Requesting, Resolving
<1>3. ASSUME NEW p \in Processes, Serving(p) PROVE HostsOK'
  BY <1>3, Inserts, DomainRequests, DomainStores, Invalidates, Commits, SettingsHosts DEF Serving
<1>4. ASSUME NEW p \in Processes, Relaying(p) \/ Unresolved(p) \/ UpstreamError(p) \/ Crash(p) PROVE HostsOK'
  BY <1>4, Relays, Crashes
<1>5. ASSUME NEW h \in Hosts, ExpireDomain(h) PROVE HostsOK'
  BY <1>5, Expires
<1>6. ASSUME UNCHANGED <<tenants, domains, audit, domainCache, procs>> PROVE HostsOK'
  <2>1. \A g \in Hosts : (Routable(g)' <=> Routable(g))
    BY <1>6 DEF Routable
  <2>2. QED
    BY <1>6, <2>1, ZenonT(60) DEF IInv, HostsOK, RowsOK, ProcsOK, CacheOK, StaleHasACause, In
<1>7. ASSUME NEW t \in Tenants, ExpireSettings(t) PROVE HostsOK'
  BY <1>6, <1>7 DEF ExpireSettings, tables
<1>8. CASE UNCHANGED vars
  BY <1>6, <1>8 DEF vars, tables
<1>9. QED
  BY <1>1, <1>2, <1>3, <1>4, <1>5, <1>7, <1>8 DEF Next, Expiring

\* A scenario starts in order.
LEMMA InitOK == Init => IInv
<1> SUFFICES ASSUME Init PROVE IInv
  OBVIOUS
<1>1. PICK s \in Scenarios :
        /\ tenants = [t \in Tenants |-> IF t \in s.founded THEN "active" ELSE "none"]
        /\ domains = [h \in Hosts |-> IF h \in DOMAIN s.hosts
                      THEN [tenant |-> s.hosts[h].tenant, type |-> s.hosts[h].type, verified |-> TRUE,
                            active |-> TRUE, state |-> "verified", token |-> FALSE]
                      ELSE NoRow]
        /\ changes = s.budget
  BY ZenonT(60) DEF Init
<1>2. /\ s.founded \subseteq Tenants /\ s.budget \in Nat
      /\ \A h \in DOMAIN s.hosts : s.hosts[h] \in [tenant : s.founded, type : DomainTypes]
  BY TenantsAssumption
<1>3. ASSUME NEW h \in Hosts, domains[h] # NoRow PROVE domains[h] \in Domain /\ Agrees(domains[h])
  <2> DEFINE d == [tenant |-> s.hosts[h].tenant, type |-> s.hosts[h].type, verified |-> TRUE,
                   active |-> TRUE, state |-> "verified", token |-> FALSE]
  <2>1. h \in DOMAIN s.hosts /\ domains[h] = d
    BY <1>1, <1>3
  <2>2. s.hosts[h].tenant \in Tenants /\ s.hosts[h].type \in DomainTypes
    BY <1>2, <2>1
  <2>3. d \in Domain /\ Agrees(d)
    BY <2>2 DEF Domain, Agrees
  <2>4. QED
    BY <2>1, <2>3
<1>4. domains \in [Hosts -> Domain \cup {NoRow}]
  <2>1. domains = [h \in Hosts |-> domains[h]]
    BY <1>1
  <2>2. QED
    BY <1>3, <2>1
<1>5. RowsOK
  <2>1. tenants \in [Tenants -> {"none", "active", "suspended"}] /\ \A t \in Tenants : tenants[t] # "suspended"
    BY <1>1
  <2>2. audit \in [Tenants -> SUBSET {"active", "suspended"}]
    BY DEF Init
  <2>3. QED
    BY <1>3, <1>4, <2>1, <2>2 DEF RowsOK
<1>6. ProcsOK
  <2>1. \A p \in Processes : procs[p] = Idle
    BY DEF Init
  <2>2. procs \in [Processes -> Process]
    BY IdleOK, ZenonT(60) DEF Init, ProcOK
  <2>3. QED
    BY <2>1, <2>2, IdleOK DEF ProcsOK
<1>7. CacheOK
  <2>1. domainCache \in [Hosts -> Entry \cup {Miss}] /\ \A h \in Hosts : domainCache[h] = Miss
    BY DEF Init
  <2>2. QED
    BY <2>1 DEF CacheOK, StaleHasACause
<1>8. SettingsOK
  <2>1. [f \in Fields |-> 1] \in Settings
    BY DEF Settings, Valid
  <2>2. settings \in [Tenants -> Settings \cup {NoRow}]
    BY <2>1 DEF Init
  <2>3. settingsCache \in [Tenants -> [value : Settings, ttl : BOOLEAN] \cup {Miss}]
    BY ZenonT(60) DEF Init
  <2>4. QED
    BY <1>1, <1>2, <2>2, <2>3 DEF SettingsOK
<1>9. QED
  BY <1>5, <1>6, <1>7, <1>8 DEF IInv, HostsOK

\* The inductive invariant holds of every behaviour.
THEOREM Inductive == Spec => []IInv
<1>1. IInv /\ [Next]_vars => IInv'
  BY HostsStep, SettingsStep DEF IInv
<1>2. QED
  BY <1>1, InitOK, PTL DEF Spec

\* Every row, cache entry and request keeps its shape.
THEOREM TypeCorrect == Spec => []TypeOK
<1>1. IInv => TypeOK
  BY DEF IInv, HostsOK, RowsOK, ProcsOK, CacheOK, SettingsOK, TypeOK
<1>2. QED
  BY <1>1, Inductive, PTL

\* However verifications and activations race, the columns of a domain agree.
THEOREM VerifiedAgreesHolds == Spec => []VerifiedAgrees
<1>1. IInv => VerifiedAgrees
  BY DEF IInv, HostsOK, RowsOK, Agrees, VerifiedAgrees
<1>2. QED
  BY <1>1, Inductive, PTL

\* A resolution, however old, is that of the host's own tenant and app type.
THEOREM ResolvesToTheOwnerHolds == Spec => []ResolvesToTheOwner
<1>1. IInv => ResolvesToTheOwner
  BY ZenonT(60) DEF IInv, HostsOK, ProcsOK, ProcOK, CacheOK, Owns, ResolvesToTheOwner
<1>2. QED
  BY <1>1, Inductive, PTL

\* What is forwarded is on a host of the app type of its route.
THEOREM ForwardedToItsAppHolds == Spec => []ForwardedToItsApp
<1>1. IInv => ForwardedToItsApp
  BY DEF IInv, HostsOK, ProcsOK, ProcOK, Owns, ForwardedToItsApp, In
<1>2. QED
  BY <1>1, Inductive, PTL

\* A cached host that no longer resolves is about to be deleted, or has one of three causes.
THEOREM StaleHasACauseHolds == Spec => []StaleHasACause
<1>1. IInv => StaleHasACause
  BY DEF IInv, HostsOK, CacheOK
<1>2. QED
  BY <1>1, Inductive, PTL

\* A step of one request leaves a lookup of another one alone.
LEMMA OthersStay ==
  ASSUME IInv, NEW q \in Processes, NEW p \in Processes \ {q}, procs[p].pc \in AskPCs,
         \/ PlatformProxy(q) \/ Requesting(q) \/ Resolving(q) \/ Serving(q) \/ Relaying(q)
         \/ Unresolved(q) \/ UpstreamError(q) \/ Crash(q)
  PROVE  procs'[p] = procs[p]
<1>0. procs \in [Processes -> Process] /\ procs[p].pc # "fill"
  BY DEF IInv, HostsOK, ProcsOK, AskPCs
<1>1. ASSUME NEW x, Become(q, x) PROVE procs'[p] = procs[p]
  BY <1>0, <1>1 DEF Become
<1>2. ASSUME NEW x, NEW hosts, procs' = LateFor(hosts, [procs EXCEPT ![q] = x]) PROVE procs'[p] = procs[p]
  BY <1>0, <1>2 DEF LateFor
<1>3. ASSUME NEW pc, Goto(q, pc) PROVE procs'[p] = procs[p]
  BY <1>0, <1>3 DEF Goto
<1>4. ASSUME NEW status, Refuse(q, status) \/ Answer(q, status) PROVE procs'[p] = procs[p]
  BY <1>1, <1>4 DEF Refuse, Answer
<1>5. ASSUME NEW h, NEW row, NEW status, Store(q, h, row, status) PROVE procs'[p] = procs[p]
  BY <1>2, <1>5, ZenonT(60) DEF Store
<1>6. ASSUME NEW current, NEW patch, Merge(q, current, patch) PROVE procs'[p] = procs[p]
  BY <1>1, <1>4, <1>6, ZenonT(60) DEF Merge
<1>7. CASE CreateDomain(q)
  <2>1. PICK t \in Tenants, h \in Hosts, type \in DomainTypes :
          CASE GetTenant(t) = "none" -> Refuse(q, "404")
            [] GetTenant(t) = "suspended" -> Refuse(q, "409")
            [] GetTenant(t) = "active" ->
                 /\ Become(q, [pc |-> "insert", tenant |-> t, host |-> h, type |-> type])
                 /\ UNCHANGED <<tables, domainCache, settingsCache, load>>
    BY <1>7, ZenonT(60) DEF CreateDomain
  <2>2. GetTenant(t) \in {"none", "active", "suspended"}
    BY DEF GetTenant, IInv, HostsOK, RowsOK
  <2>3. QED
    BY <1>1, <1>4, <2>1, <2>2, ZenonT(60)
<1>8. CASE CreateTenant(q) \/ SetTenantStatus(q) \/ VerifyDomain(q) \/ ActivateDomain(q) \/ DeactivateDomain(q)
  BY <1>1, <1>4, <1>5, <1>8, ZenonT(60) DEF CreateTenant, SetTenantStatus, VerifyDomain, ActivateDomain, DeactivateDomain
<1>9. CASE Requesting(q) \/ Resolving(q) \/ Crash(q)
  BY <1>1, <1>3, <1>4, <1>9, ZenonT(60) DEF Requesting, Ask, ReadSettings, UpdateSettings, Resolving, GetDomain,
     QueryDomain, FillDomain, TLSAuthorized, Hit, Crash
<1>10. CASE Relaying(q) \/ Unresolved(q) \/ UpstreamError(q)
  BY <1>1, <1>3, <1>4, <1>10, ZenonT(60) DEF Relaying, Proxy, Auth, Config, Frontend, PublicConfig, Unresolved, UpstreamError
<1>11. CASE InsertDomain(q) \/ LookupTXT(q) \/ MarkVerificationSucceeded(q) \/ MarkVerificationFailed(q) \/ StoreActive(q)
  BY <1>3, <1>4, <1>5, <1>11, ZenonT(60) DEF InsertDomain, LookupTXT, MarkVerificationSucceeded, MarkVerificationFailed, StoreActive
<1>12. CASE InvalidateDomain(q)
  BY <1>0, <1>4, <1>12, ZenonT(60) DEF InvalidateDomain
<1>13. CASE CommitStatus(q)
  BY <1>2, <1>13, ZenonT(60) DEF CommitStatus
<1>14. CASE GetSettings(q) \/ QuerySettings(q) \/ StoreSettings(q) \/ CacheSettings(q) \/ Done(q)
  BY <1>1, <1>3, <1>4, <1>6, <1>14, ZenonT(60) DEF GetSettings, QuerySettings, StoreSettings, CacheSettings, Done
<1>15. QED
  BY <1>7, <1>8, <1>9, <1>10, <1>11, <1>12, <1>13, <1>14, ZenonT(60) DEF PlatformProxy, Serving

\* A lookup that ends in a denial has just queried a host that does not resolve.
LEMMA DenialIsTrue ==
  ASSUME IInv, [Next]_vars, NEW p \in Processes, procs[p].pc \in AskPCs,
         procs'[p] = [pc |-> "done", status |-> NotFound(procs[p].route)]
  PROVE  ~Routable(procs[p].host)
<1>0. procs \in [Processes -> Process]
  BY ZenonT(60) DEF IInv, HostsOK, ProcsOK
<1>1. procs'[p].pc = "done" /\ procs'[p] # procs[p]
  BY DEF AskPCs
<1>2. ASSUME NEW x, Become(p, x) PROVE procs'[p] = x
  BY <1>0, <1>2 DEF Become
<1>3. CASE \E q \in Processes :
             \/ PlatformProxy(q) \/ Requesting(q) \/ Resolving(q) \/ Serving(q) \/ Relaying(q)
             \/ Unresolved(q) \/ UpstreamError(q) \/ Crash(q)
  <2>1. PICK q \in Processes :
             \/ PlatformProxy(q) \/ Requesting(q) \/ Resolving(q) \/ Serving(q) \/ Relaying(q)
             \/ Unresolved(q) \/ UpstreamError(q) \/ Crash(q)
    BY <1>3, ZenonT(60)
  <2>2. q = p
    BY <1>1, <2>1, OthersStay, ZenonT(60)
  <2>3. ~PlatformProxy(p) /\ ~Requesting(p)
    BY ZenonT(60) DEF PlatformProxy, CreateTenant, SetTenantStatus, CreateDomain, VerifyDomain, ActivateDomain,
       DeactivateDomain, Requesting, Ask, ReadSettings, UpdateSettings, Start, In, AskPCs
  <2>4. ~Serving(p)
    BY DEF Serving, InsertDomain, LookupTXT, MarkVerificationSucceeded, MarkVerificationFailed, StoreActive,
       InvalidateDomain, CommitStatus, GetSettings, QuerySettings, StoreSettings, CacheSettings, Done, In, AskPCs
  <2>5. ~Relaying(p) /\ ~UpstreamError(p) /\ ~FillDomain(p) /\ ~TLSAuthorized(p)
    BY ZenonT(60) DEF Relaying, Proxy, Auth, Config, Frontend, Handles, PublicConfig, UpstreamError, FillDomain,
       TLSAuthorized, In, AskPCs
  <2>6. ~Crash(p)
    BY <1>1, <1>2 DEF Crash, Idle
  <2>7. ~Unresolved(p)
    <3>1. Unresolved(p) => procs'[p] = [pc |-> "done", status |-> "502"]
      BY <1>2 DEF Unresolved, Answer
    <3>2. NotFound(procs[p].route) # "502"
      BY DEF NotFound
    <3>3. QED
      BY <3>1, <3>2
  <2>8. ~GetDomain(p)
    <3>1. ASSUME NEW r, Hit(p, r) PROVE FALSE
      <4>1. procs'[p] = [pc |-> "found", host |-> procs[p].host, route |-> procs[p].route, found |-> r]
        BY <1>2, <3>1 DEF Hit
      <4>2. QED
        BY <1>1, <4>1
    <3>2. Goto(p, "query") => procs'[p] = [procs[p] EXCEPT !.pc = "query"]
      BY <1>0 DEF Goto
    <3>3. procs[p] \in Asking
      BY AtStep, Shape, ZenonT(60)
    <3>4. [procs[p] EXCEPT !.pc = "query"].pc = "query"
      BY <3>3 DEF Asking
    <3>5. ~Goto(p, "query")
      BY <1>1, <3>2, <3>4
    <3>6. QED
      BY <3>1, <3>5 DEF GetDomain
  <2>9. CASE QueryDomain(p)
    <3>1. Routable(procs[p].host) => procs'[p].pc = "fill"
      BY <1>2, <2>9 DEF QueryDomain
    <3>2. QED
      BY <1>1, <3>1
  <2>10. QED
    BY <2>1, <2>2, <2>3, <2>4, <2>5, <2>6, <2>7, <2>8, <2>9, ZenonT(60) DEF Resolving
<1>4. CASE UNCHANGED procs
  BY <1>1, <1>4, ZenonT(60)
<1>5. Expiring \/ UNCHANGED vars => UNCHANGED procs
  BY ZenonT(60) DEF Expiring, ExpireDomain, ExpireSettings, vars
<1>6. QED
  BY <1>3, <1>4, <1>5, ZenonT(60) DEF Next

\* A host is reported missing only when it does not resolve at that moment.
THEOREM NoFalseDenialHolds == Spec => NoFalseDenial
<1>1. IInv /\ [Next]_vars =>
        [\A p \in Processes :
           In(p, "get") \/ In(p, "query") => (procs'[p] = [pc |-> "done", status |-> NotFound(procs[p].route)]
                                                => ~Routable(procs[p].host))]_vars
  BY DenialIsTrue, ZenonT(60) DEF In, AskPCs
<1>2. QED
  BY <1>1, Inductive, PTL DEF Spec, NoFalseDenial
=============================================================================
