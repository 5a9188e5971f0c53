------------------------------- MODULE Tenants -------------------------------
(***************************************************************************)
(* tenant-service: tenants, their hostnames and their settings in          *)
(* PostgreSQL, with read-through caches of both in Redis.                  *)
(*                                                                         *)
(* A process is one request in flight.  Each of its steps is one           *)
(* transaction, one Redis call or one DNS lookup, and anything may happen  *)
(* between two steps: what a request read may have changed when it writes. *)
(* A query of generated/queries.sql.go is an operator that yields the row  *)
(* the statement returns, or NoRow when its WHERE clause matches nothing.  *)
(***************************************************************************)
EXTENDS Naturals, FiniteSets

CONSTANTS
  Processes,
  Tenants,
  Hosts,       \* normalised hostnames; a domain row is identified by its hostname
  Routes,      \* what callers of the resolver want of a host
  Inputs,      \* values a request may give a settings field
  Scenarios    \* the tenants and hosts a behaviour starts with, the requests it sees and
               \* a bound on those that change something

DomainTypes == {"admin", "booking"}

\* Two fields stand for the seven of Settings.  As a field's value 0 is the zero value
\* of the request's field, 1 the default, 2 another valid value, 3 one out of range.
Fields == {"interval", "offsets"}
Valid == {1, 2}
NoRow == [row |-> "none"]
Miss == NoRow

ASSUME TenantsAssumption ==
  /\ Inputs \subseteq 0..3
  /\ \A s \in Scenarios :
       /\ s.founded \subseteq Tenants
       /\ DOMAIN s.hosts \subseteq Hosts
       /\ s.budget \in Nat
       /\ \A h \in DOMAIN s.hosts : s.hosts[h] \in [tenant : s.founded, type : DomainTypes]

VARIABLES
  tenants,        \* public.tenants: status, or "none"
  domains,        \* public.tenant_domains
  settings,       \* public.tenant_settings
  audit,          \* the statuses in the rows of public.platform_audit_log, which created_at
                  \* does not order as they were committed
  domainCache,    \* Redis, tenant-domain:<hostname>
  settingsCache,  \* Redis, tenant-settings:<tenant>
  procs,
  load,           \* the requests this behaviour sees
  changes         \* requests that may still change something

tables == <<tenants, domains, settings, audit>>
vars == <<tables, domainCache, settingsCache, procs, load, changes>>

-----------------------------------------------------------------------------
Domain == [tenant : Tenants, type : DomainTypes, verified : BOOLEAN, active : BOOLEAN,
           state : {"pending", "verified", "failed"}, token : BOOLEAN]
Settings == [Fields -> Valid]
Resolution == [tenant : Tenants, type : DomainTypes]
Entry == [value : Resolution, excused : BOOLEAN, ttl : BOOLEAN]
Patches == [field : Fields, value : Inputs]
NoPatch == NoRow
Again == [row |-> "again"]
Uses == Patches \cup {NoPatch, Again}   \* what becomes of settings once they are read
Statuses == {"200", "201", "400", "403", "404", "409", "422", "502", "504"}

Idle == [pc |-> "idle"]
Process ==
       {Idle}
  \cup [pc : {"get", "query"}, host : Hosts, route : Routes]
  \cup [pc : {"fill"}, host : Hosts, route : Routes, found : Resolution, late : BOOLEAN]
  \cup [pc : {"found", "sent"}, host : Hosts, route : Routes, found : Resolution]
  \cup [pc : {"getSettings", "querySettings"}, tenant : Tenants, patch : Uses]
  \cup [pc : {"cache"}, tenant : Tenants, value : Settings, patch : Uses]
  \cup [pc : {"update"}, tenant : Tenants, value : Settings]
  \cup [pc : {"insert"}, tenant : Tenants, host : Hosts, type : DomainTypes]
  \cup [pc : {"lookup", "succeed", "fail", "activate"}, tenant : Tenants, host : Hosts]
  \cup [pc : {"commit"}, tenant : Tenants, status : {"active", "suspended"}, hosts : SUBSET Hosts]
  \cup [pc : {"invalidate"}, hosts : SUBSET Hosts, status : Statuses]
  \cup [pc : {"done"}, status : Statuses]

In(p, pc) == procs[p].pc = pc
Become(p, process) == procs' = [procs EXCEPT ![p] = process]
Goto(p, pc) == procs' = [procs EXCEPT ![p].pc = pc]
Answer(p, status) == Become(p, [pc |-> "done", status |-> status])

\* A request for a change arrives.
Start(p, operation) ==
  /\ In(p, "idle")
  /\ operation \in load
  /\ changes > 0
  /\ changes' = changes - 1

-----------------------------------------------------------------------------
(* The queries.                                                            *)

GetTenant(t) == tenants[t]
GetTenantDomain(t, h) == IF domains[h] # NoRow /\ domains[h].tenant = t THEN domains[h] ELSE NoRow
GetTenantDomainForVerification(t, h) == GetTenantDomain(t, h)
Hostnames(t) == {h \in Hosts : GetTenantDomain(t, h) # NoRow}

CreateTenantDomain(t, type) ==
  IF tenants[t] = "active"
  THEN [tenant |-> t, type |-> type, verified |-> FALSE, active |-> FALSE,
        state |-> "pending", token |-> TRUE]
  ELSE NoRow

MarkDomainVerificationSucceeded(t, h) ==
  LET d == GetTenantDomain(t, h)
  IN  IF d = NoRow THEN NoRow
      ELSE [d EXCEPT !.verified = TRUE, !.state = "verified", !.token = FALSE]

\* Mistake: the statement does not ask for verified = false.
MarkAnyFailed(t, h) ==
  LET d == GetTenantDomain(t, h)
  IN  IF d = NoRow THEN NoRow ELSE [d EXCEPT !.state = "failed"]

MarkDomainVerificationFailed(t, h) ==
  LET d == GetTenantDomain(t, h)
  IN  IF d = NoRow THEN NoRow
      ELSE IF d.verified THEN NoRow ELSE [d EXCEPT !.state = "failed"]

ActivateTenantDomain(t, h) ==
  LET d == GetTenantDomain(t, h)
  IN  IF d = NoRow THEN NoRow
      ELSE IF d.verified /\ tenants[t] = "active" THEN [d EXCEPT !.active = TRUE] ELSE NoRow

DeactivateTenantDomain(t, h) ==
  LET d == GetTenantDomain(t, h)
  IN  IF d = NoRow THEN NoRow ELSE [d EXCEPT !.active = FALSE]

GetTenantSettings(t) == settings[t]
InitializeTenantSettings(t, value) == [settings EXCEPT ![t] = value]
UpdateTenantSettings(t, value) == [settings EXCEPT ![t] = value]

\* resolve_verified_domain
Routable(h) ==
  /\ domains[h] # NoRow
  /\ domains[h].verified
  /\ domains[h].active
  /\ tenants[domains[h].tenant] = "active"

Resolved(h) == [tenant |-> domains[h].tenant, type |-> domains[h].type]

-----------------------------------------------------------------------------
(* ResolveDomain, for the gateway and for Caddy.                           *)

Ask(p) ==
  /\ In(p, "idle")
  /\ \E h \in Hosts, r \in Routes \cap load : Become(p, [pc |-> "get", host |-> h, route |-> r])
  /\ UNCHANGED <<tables, domainCache, settingsCache, load, changes>>

Hit(p, resolution) ==
  Become(p, [pc |-> "found", host |-> procs[p].host, route |-> procs[p].route, found |-> resolution])

\* Mistake: a Redis error counts as an unknown host.
GetDomainOrNone(p) ==
  /\ In(p, "get")
  /\ \/ /\ domainCache[procs[p].host] # Miss
        /\ Hit(p, domainCache[procs[p].host].value)
     \/ Answer(p, "404")
  /\ UNCHANGED <<tables, domainCache, settingsCache, load, changes>>

\* A Redis error counts as a miss.
GetDomain(p) ==
  /\ In(p, "get")
  /\ \/ /\ domainCache[procs[p].host] # Miss
        /\ Hit(p, domainCache[procs[p].host].value)
     \/ Goto(p, "query")
  /\ UNCHANGED <<tables, domainCache, settingsCache, load, changes>>

\* Caddy is refused, the gateway told that there is no such host.
NotFound(route) == IF route = "tls" THEN "403" ELSE "404"

QueryDomain(p) ==
  /\ In(p, "query")
  /\ LET h == procs[p].host
     IN  IF Routable(h)
         THEN Become(p, [pc |-> "fill", host |-> h, route |-> procs[p].route,
                         found |-> Resolved(h), late |-> FALSE])
         ELSE Answer(p, NotFound(procs[p].route))
  /\ UNCHANGED <<tables, domainCache, settingsCache, load, changes>>

\* Mistake: the entry never expires.
EntryForever(resolution, late) == [value |-> resolution, excused |-> late, ttl |-> FALSE]

\* SET with a time to live.  The ghost "excused" says that the entry may outlive its host.
NewEntry(resolution, late) == [value |-> resolution, excused |-> late, ttl |-> TRUE]

\* The SET is tried; its error is ignored.
FillDomain(p) ==
  /\ In(p, "fill")
  /\ \/ domainCache' = [domainCache EXCEPT ![procs[p].host] = NewEntry(procs[p].found, procs[p].late)]
     \/ UNCHANGED domainCache
  /\ Hit(p, procs[p].found)
  /\ UNCHANGED <<tables, settingsCache, load, changes>>

\* TLSAuthorized: Caddy only needs to know that the host resolves.
TLSAuthorized(p) ==
  /\ In(p, "found")
  /\ procs[p].route = "tls"
  /\ Answer(p, "200")
  /\ UNCHANGED <<tables, domainCache, settingsCache, load, changes>>

ExpireDomain(h) ==
  /\ domainCache[h] # Miss
  /\ domainCache[h].ttl
  /\ domainCache' = [domainCache EXCEPT ![h] = Miss]
  /\ UNCHANGED <<tables, settingsCache, procs, load, changes>>

-----------------------------------------------------------------------------
(* Changes to domains.                                                     *)

\* The ghost part of a commit that denies hosts: reads of them that are on their way to
\* the cache are late now.
LateFor(hosts, others) ==
  [q \in Processes |-> IF others[q].pc = "fill" /\ others[q].host \in hosts
                       THEN [others[q] EXCEPT !.late = TRUE] ELSE others[q]]

\* The row is written; its cache entry is deleted by the steps that follow.
Store(p, h, row, status) ==
  /\ domains' = [domains EXCEPT ![h] = row]
  /\ procs' = LateFor(IF row.active THEN {} ELSE {h},
                      [procs EXCEPT ![p] = [pc |-> "invalidate", hosts |-> {h}, status |-> status]])
  /\ UNCHANGED <<tenants, settings, audit, domainCache, settingsCache, load>>

Refuse(p, status) ==
  /\ Answer(p, status)
  /\ UNCHANGED <<tables, domainCache, settingsCache, load>>

\* CreateDomain: activeTenant, in a statement of its own.
CreateDomain(p) ==
  /\ Start(p, "create")
  /\ \E t \in Tenants, h \in Hosts, type \in DomainTypes :
       CASE GetTenant(t) = "none" -> Refuse(p, "404")
         [] GetTenant(t) = "suspended" -> Refuse(p, "409")
         [] GetTenant(t) = "active" ->
              /\ Become(p, [pc |-> "insert", tenant |-> t, host |-> h, type |-> type])
              /\ UNCHANGED <<tables, domainCache, settingsCache, load>>

\* Mistake: a conflict on the hostname updates the row.
UpsertDomain(p) ==
  /\ In(p, "insert")
  /\ LET row == CreateTenantDomain(procs[p].tenant, procs[p].type)
     IN  IF row = NoRow THEN Refuse(p, "404")
         ELSE /\ domains' = [domains EXCEPT ![procs[p].host] = row]
              /\ Answer(p, "201")
              /\ UNCHANGED <<tenants, settings, audit, domainCache, settingsCache, load>>
  /\ UNCHANGED changes

\* CreateDomain: the INSERT, which UNIQUE (hostname) may refuse.  A new host is cached
\* nowhere and nothing is invalidated.
InsertDomain(p) ==
  /\ In(p, "insert")
  /\ LET row == CreateTenantDomain(procs[p].tenant, procs[p].type)
     IN  IF row = NoRow THEN Refuse(p, "404")
         ELSE IF domains[procs[p].host] # NoRow THEN Refuse(p, "409")
         ELSE /\ domains' = [domains EXCEPT ![procs[p].host] = row]
              /\ Answer(p, "201")
              /\ UNCHANGED <<tenants, settings, audit, domainCache, settingsCache, load>>
  /\ UNCHANGED changes

\* VerifyDomain: a verified domain is verified already.
VerifyDomain(p) ==
  /\ Start(p, "verify")
  /\ \E t \in Tenants, h \in Hosts :
       LET d == GetTenantDomainForVerification(t, h)
       IN  IF d = NoRow THEN Refuse(p, "404")
           ELSE IF d.verified THEN Refuse(p, "200")
           ELSE IF ~d.token THEN Refuse(p, "409")
           ELSE /\ Become(p, [pc |-> "lookup", tenant |-> t, host |-> h])
                /\ UNCHANGED <<tables, domainCache, settingsCache, load>>

\* The TXT record holds the value whose hash was stored, or does not, or DNS fails.
LookupTXT(p) ==
  /\ In(p, "lookup")
  /\ Goto(p, "succeed") \/ Goto(p, "fail")
  /\ UNCHANGED <<tables, domainCache, settingsCache, load, changes>>

MarkVerificationSucceeded(p) ==
  /\ In(p, "succeed")
  /\ Store(p, procs[p].host, MarkDomainVerificationSucceeded(procs[p].tenant, procs[p].host), "200")
  /\ UNCHANGED changes

\* The domain may have been verified by another request since it was read.
MarkVerificationFailed(p) ==
  /\ In(p, "fail")
  /\ LET row == MarkDomainVerificationFailed(procs[p].tenant, procs[p].host)
     IN  IF row = NoRow THEN Refuse(p, "200") ELSE Store(p, procs[p].host, row, "422")
  /\ UNCHANGED changes

ActivateDomain(p) ==
  /\ Start(p, "activate")
  /\ \E t \in Tenants, h \in Hosts :
       LET d == GetTenantDomain(t, h)
       IN  IF d = NoRow THEN Refuse(p, "404")
           ELSE IF ~d.verified THEN Refuse(p, "409")
           ELSE /\ Become(p, [pc |-> "activate", tenant |-> t, host |-> h])
                /\ UNCHANGED <<tables, domainCache, settingsCache, load>>

StoreActive(p) ==
  /\ In(p, "activate")
  /\ LET row == ActivateTenantDomain(procs[p].tenant, procs[p].host)
     IN  IF row = NoRow THEN Refuse(p, "404") ELSE Store(p, procs[p].host, row, "200")
  /\ UNCHANGED changes

\* Mistake: the cached resolution is left alone.
DeactivateOnly(p) ==
  /\ Start(p, "deactivate")
  /\ \E t \in Tenants, h \in Hosts :
       LET row == DeactivateTenantDomain(t, h)
       IN  IF row = NoRow THEN Refuse(p, "404")
           ELSE /\ domains' = [domains EXCEPT ![h] = row]
                /\ procs' = LateFor({h}, [procs EXCEPT ![p] = [pc |-> "done", status |-> "200"]])
                /\ UNCHANGED <<tenants, settings, audit, domainCache, settingsCache, load>>

DeactivateDomain(p) ==
  /\ Start(p, "deactivate")
  /\ \E t \in Tenants, h \in Hosts :
       LET row == DeactivateTenantDomain(t, h)
       IN  IF row = NoRow THEN Refuse(p, "404") ELSE Store(p, h, row, "200")

\* The entries of hosts are not deleted although they should be (ghost).
Excuse(hosts, cache) ==
  [h \in Hosts |-> IF h \in hosts /\ cache[h] # Miss THEN [cache[h] EXCEPT !.excused = TRUE] ELSE cache[h]]

\* invalidateDomain: one DEL, whose error is ignored.
InvalidateDomain(p) ==
  /\ In(p, "invalidate")
  /\ LET left == procs[p].hosts
     IN  \/ /\ left = {}
            /\ Answer(p, procs[p].status)
            /\ UNCHANGED domainCache
         \/ \E h \in left :
              /\ \/ domainCache' = [domainCache EXCEPT ![h] = Miss]
                 \/ domainCache' = Excuse({h}, domainCache)
              /\ procs' = [procs EXCEPT ![p].hosts = left \ {h}]
  /\ UNCHANGED <<tables, settingsCache, load, changes>>

-----------------------------------------------------------------------------
(* Tenants.                                                                *)

\* normalizeSettings
Normalized(input) == [f \in Fields |-> IF input[f] = 0 THEN 1 ELSE input[f]]

\* CreateTenant: the tenant and its settings in one transaction.
CreateTenant(p) ==
  /\ Start(p, "found")
  /\ \E t \in Tenants, input \in [Fields -> Inputs] :
       /\ tenants[t] = "none"
       /\ IF Normalized(input) \notin Settings THEN Refuse(p, "400")
          ELSE /\ tenants' = [tenants EXCEPT ![t] = "active"]
               /\ settings' = InitializeTenantSettings(t, Normalized(input))
               /\ Become(p, [pc |-> "cache", tenant |-> t, value |-> Normalized(input), patch |-> NoPatch])
               /\ UNCHANGED <<domains, audit, domainCache, settingsCache, load>>

\* SetTenantStatus up to its COMMIT: the row is updated, and locked, and the tenant's
\* hostnames are read.
SetTenantStatus(p) ==
  /\ Start(p, "status")
  /\ \E t \in Tenants, status \in {"active", "suspended"} :
       /\ \A q \in Processes : In(q, "commit") => procs[q].tenant # t
       /\ IF tenants[t] = "none" THEN Refuse(p, "404")
          ELSE /\ Become(p, [pc |-> "commit", tenant |-> t, status |-> status,
                             hosts |-> Hostnames(t)])
               /\ UNCHANGED <<tables, domainCache, settingsCache, load>>

\* The COMMIT.  A host created since the hostnames were read is not invalidated.
CommitStatus(p) ==
  /\ In(p, "commit")
  /\ LET t == procs[p].tenant
         denied == IF procs[p].status = "active" THEN {} ELSE Hostnames(t)
     IN  /\ tenants' = [tenants EXCEPT ![t] = procs[p].status]
         /\ audit' = [audit EXCEPT ![t] = @ \cup {procs[p].status}]
         /\ domainCache' = Excuse(denied \ procs[p].hosts, domainCache)
         /\ procs' = LateFor(denied, [procs EXCEPT ![p] =
              [pc |-> "invalidate", hosts |-> procs[p].hosts, status |-> "200"]])
  /\ UNCHANGED <<domains, settings, settingsCache, load, changes>>

-----------------------------------------------------------------------------
(* Settings.                                                               *)

\* Reads of the settings, by the admin app and by the other services.
ReadSettings(p) ==
  /\ In(p, "idle")
  /\ "settings" \in load
  /\ \E t \in Tenants : Become(p, [pc |-> "getSettings", tenant |-> t, patch |-> NoPatch])
  /\ UNCHANGED <<tables, domainCache, settingsCache, load, changes>>

\* CanManageTenantSettings
CanManageTenantSettings(role) == role \in {"OWNER", "MANAGER"}

\* updateAdminSettings: a PATCH by a member of that role.
UpdateSettings(p) ==
  /\ Start(p, "patch")
  /\ \E role \in {"OWNER", "MANAGER", "BARBER", "RECEPTIONIST"}, t \in Tenants, patch \in Patches :
       IF ~CanManageTenantSettings(role) THEN Answer(p, "403")
       ELSE Become(p, [pc |-> "getSettings", tenant |-> t, patch |-> patch])
  /\ UNCHANGED <<tables, domainCache, settingsCache, load>>

\* mergeSettings and validateSettings, applied to what Settings returned.  Tenant, which
\* publicConfig calls next, reads the settings again.
Merge(p, current, patch) ==
  LET merged == [current EXCEPT ![patch.field] = patch.value]
  IN  IF patch = NoPatch THEN Answer(p, "200")
      ELSE IF patch = Again
      THEN Become(p, [pc |-> "getSettings", tenant |-> procs[p].tenant, patch |-> NoPatch])
      ELSE IF merged \notin Settings THEN Answer(p, "400")
      ELSE Become(p, [pc |-> "update", tenant |-> procs[p].tenant, value |-> merged])

GetSettings(p) ==
  /\ In(p, "getSettings")
  /\ \/ /\ settingsCache[procs[p].tenant] # Miss
        /\ Merge(p, settingsCache[procs[p].tenant].value, procs[p].patch)
     \/ Goto(p, "querySettings")
  /\ UNCHANGED <<tables, domainCache, settingsCache, load, changes>>

QuerySettings(p) ==
  /\ In(p, "querySettings")
  /\ LET t == procs[p].tenant
         stored == GetTenantSettings(t)
     IN  IF stored = NoRow THEN Answer(p, "404")
         ELSE Become(p, [pc |-> "cache", tenant |-> t, value |-> stored, patch |-> procs[p].patch])
  /\ UNCHANGED <<tables, domainCache, settingsCache, load, changes>>

\* UpdateTenantSettings writes every field.
StoreSettings(p) ==
  /\ In(p, "update")
  /\ settings' = UpdateTenantSettings(procs[p].tenant, procs[p].value)
  /\ Become(p, [pc |-> "cache", tenant |-> procs[p].tenant, value |-> procs[p].value, patch |-> NoPatch])
  /\ UNCHANGED <<tenants, domains, audit, domainCache, settingsCache, load, changes>>

\* Mistake: the entry never expires.
SettingsForever(value) == [value |-> value, ttl |-> FALSE]

SettingsEntry(value) == [value |-> value, ttl |-> TRUE]

\* cacheSettings: the SET after a read and after a write; its error is ignored.
CacheSettings(p) ==
  /\ In(p, "cache")
  /\ \/ settingsCache' = [settingsCache EXCEPT ![procs[p].tenant] = SettingsEntry(procs[p].value)]
     \/ UNCHANGED settingsCache
  /\ Merge(p, procs[p].value, procs[p].patch)
  /\ UNCHANGED <<tables, domainCache, load, changes>>

ExpireSettings(t) ==
  /\ settingsCache[t] # Miss
  /\ settingsCache[t].ttl
  /\ settingsCache' = [settingsCache EXCEPT ![t] = Miss]
  /\ UNCHANGED <<tables, domainCache, procs, load, changes>>

-----------------------------------------------------------------------------
\* The process dies, or a transaction of it fails: nothing more of the request happens.
Crash(p) ==
  /\ procs[p].pc \notin {"idle", "done"}
  /\ domainCache' = IF In(p, "invalidate") THEN Excuse(procs[p].hosts, domainCache) ELSE domainCache
  /\ Become(p, Idle)
  /\ UNCHANGED <<tables, settingsCache, load, changes>>

\* Mistake: what the request carried stays behind.
DoneKeepsRecord(p) ==
  /\ procs[p].pc \in {"done", "sent"}
  /\ Goto(p, "idle")
  /\ UNCHANGED <<tables, domainCache, settingsCache, load, changes>>

\* The answer reaches the caller.
Done(p) ==
  /\ procs[p].pc \in {"done", "sent"}
  /\ Become(p, Idle)
  /\ UNCHANGED <<tables, domainCache, settingsCache, load, changes>>

\* A seeded host is verified and active; a tenant of the installation has default settings.
Init ==
  /\ \E s \in Scenarios :
       /\ tenants = [t \in Tenants |-> IF t \in s.founded THEN "active" ELSE "none"]
       /\ domains = [h \in Hosts |-> IF h \in DOMAIN s.hosts
                      THEN [tenant |-> s.hosts[h].tenant, type |-> s.hosts[h].type, verified |-> TRUE,
                            active |-> TRUE, state |-> "verified", token |-> FALSE]
                      ELSE NoRow]
       /\ load = s.load
       /\ changes = s.budget
  /\ settings = [t \in Tenants |-> IF tenants[t] = "none" THEN NoRow ELSE [f \in Fields |-> 1]]
  /\ audit = [t \in Tenants |-> {}]
  /\ domainCache = [h \in Hosts |-> Miss]
  /\ settingsCache = [t \in Tenants |-> Miss]
  /\ procs = [p \in Processes |-> Idle]

Resolving(p) == GetDomain(p) \/ QueryDomain(p) \/ FillDomain(p) \/ TLSAuthorized(p)

Requesting(p) == Ask(p) \/ ReadSettings(p) \/ UpdateSettings(p)

Serving(p) ==
  \/ InsertDomain(p) \/ LookupTXT(p) \/ MarkVerificationSucceeded(p) \/ MarkVerificationFailed(p)
  \/ StoreActive(p) \/ InvalidateDomain(p) \/ CommitStatus(p)
  \/ GetSettings(p) \/ QuerySettings(p) \/ StoreSettings(p) \/ CacheSettings(p) \/ Done(p)

Expiring == (\E h \in Hosts : ExpireDomain(h)) \/ (\E t \in Tenants : ExpireSettings(t))
=============================================================================
