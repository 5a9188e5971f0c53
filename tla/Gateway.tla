------------------------------- MODULE Gateway -------------------------------
(***************************************************************************)
(* gateway-service in front of tenant-service: every request for a tenant  *)
(* page or API names a host, the gateway resolves it through Tenants and   *)
(* forwards the request, with the tenant it found, or refuses it.          *)
(***************************************************************************)
EXTENDS Tenants

\* The app type a route is registered for; pages and the public configuration are served
\* on both.
RequiredApp(route) ==
  CASE route = "auth" -> {"admin"}
    [] route = "admin" -> {"admin"}
    [] route = "public" -> {"booking"}
    [] route \in {"page", "config"} -> DomainTypes
    [] route = "tls" -> {}

\* Resolver.Resolve: anything but 200 and 404 is an error, and the gateway's 502.
Unresolved(p) ==
  /\ procs[p].pc \in {"get", "query"}
  /\ procs[p].route # "tls"
  /\ Answer(p, "502")
  /\ UNCHANGED <<tables, domainCache, settingsCache, load, changes>>

\* A handler whose host was resolved: the request goes on with the tenant that was found.
Handles(p, routes) ==
  /\ In(p, "found")
  /\ procs[p].route \in routes
  /\ UNCHANGED <<tables, domainCache, settingsCache, load, changes>>

\* To a service, on hosts of the app type that the route belongs to.
Proxy(p) ==
  /\ Handles(p, {"admin", "public"})
  /\ IF procs[p].found.type \in RequiredApp(procs[p].route) THEN Goto(p, "sent") ELSE Answer(p, "403")

\* To auth-service.
Auth(p) ==
  /\ Handles(p, {"auth"})
  /\ IF procs[p].found.type = "admin" THEN Goto(p, "sent") ELSE Answer(p, "403")

\* To tenant-service's public configuration.
Config(p) == Handles(p, {"config"}) /\ Goto(p, "sent")

\* To the web application of the app type.
Frontend(p) == Handles(p, {"page"}) /\ Goto(p, "sent")

\* publicConfig reads the settings twice, for the tenant the gateway names.
PublicConfig(p) ==
  /\ In(p, "sent")
  /\ procs[p].route = "config"
  /\ Become(p, [pc |-> "getSettings", tenant |-> procs[p].found.tenant, patch |-> Again])
  /\ UNCHANGED <<tables, domainCache, settingsCache, load, changes>>

\* upstreamError: a timeout is told apart from any other failure.
UpstreamError(p) ==
  /\ In(p, "sent")
  /\ Answer(p, "504") \/ Answer(p, "502")
  /\ UNCHANGED <<tables, domainCache, settingsCache, load, changes>>

\* platformProxy names no host: the platform's own credential admits it to tenant-service.
PlatformProxy(p) ==
  \/ CreateTenant(p) \/ SetTenantStatus(p)
  \/ CreateDomain(p) \/ VerifyDomain(p) \/ ActivateDomain(p) \/ DeactivateDomain(p)

Relaying(p) == Proxy(p) \/ Auth(p) \/ Config(p) \/ Frontend(p) \/ PublicConfig(p)

Next ==
  \/ \E p \in Processes :
       PlatformProxy(p) \/ Requesting(p) \/ Resolving(p) \/ Serving(p) \/ Relaying(p) \/ Unresolved(p) \/ UpstreamError(p) \/ Crash(p)
  \/ Expiring

Spec == Init /\ [][Next]_vars

\* Calls have timeouts, so a request in flight goes on; Redis expires its entries.  Nothing
\* makes requests arrive.
FairSpec ==
  /\ Spec
  /\ \A p \in Processes : WF_vars(Resolving(p) \/ Serving(p) \/ Relaying(p))
  /\ \A h \in Hosts : WF_vars(ExpireDomain(h))
  /\ \A t \in Tenants : WF_vars(ExpireSettings(t))

-----------------------------------------------------------------------------
(* Properties.                                                             *)

\* Every row, cache entry and request has its shape.
TypeOK ==
  /\ tenants \in [Tenants -> {"none", "active", "suspended"}]
  /\ domains \in [Hosts -> Domain \cup {NoRow}]
  /\ settings \in [Tenants -> Settings \cup {NoRow}]
  /\ audit \in [Tenants -> SUBSET {"active", "suspended"}]
  /\ domainCache \in [Hosts -> Entry \cup {Miss}]
  /\ settingsCache \in [Tenants -> [value : Settings, ttl : BOOLEAN] \cup {Miss}]
  /\ procs \in [Processes -> Process]
  /\ changes \in Nat

\* Whatever verifications and activations race, the columns of a domain agree: it is
\* verified exactly when its state says so and its token is gone, and active only when
\* verified (MarkDomainVerificationFailed must not undo a concurrent success).
VerifiedAgrees ==
  \A h \in Hosts : domains[h] # NoRow =>
    /\ domains[h].verified <=> domains[h].state = "verified"
    /\ domains[h].verified <=> ~domains[h].token
    /\ domains[h].active => domains[h].verified

\* A resolution, cached, on its way to the cache or used to forward a request, is that of
\* the host's own tenant and app type, however old it is: hostnames never change hands
\* (UNIQUE (hostname); no statement rewrites tenant_id or domain_type).
ResolvesToTheOwner ==
  LET Owns(h, r) == domains[h] # NoRow /\ r.tenant = domains[h].tenant /\ r.type = domains[h].type
  IN  /\ \A h \in Hosts : domainCache[h] # Miss => Owns(h, domainCache[h].value)
      /\ \A p \in Processes : procs[p].pc \in {"fill", "found", "sent"} => Owns(procs[p].host, procs[p].found)

\* A forwarded request is on a host of the app type its route belongs to (proxy, auth).
ForwardedToItsApp ==
  \A p \in Processes : In(p, "sent") => domains[procs[p].host].type \in RequiredApp(procs[p].route)

\* The deletion of denied hosts from the cache is not immediate (DenialIsImmediate), but
\* a cached host that no longer resolves is about to be deleted, or is there for one of
\* three causes: it was filled from a read before the change (the SET of
\* ResolveDomain comes after its query), its DEL was lost, or it was created while the
\* suspension of its tenant had already listed the hostnames to delete.
StaleHasACause ==
  \A h \in Hosts : domainCache[h] # Miss /\ ~Routable(h) =>
    \/ domainCache[h].excused
    \/ \E p \in Processes : In(p, "invalidate") /\ h \in procs[p].hosts

\* What the README says of a host that is deactivated, and a comment of SetTenantStatus of
\* the hosts of a suspended tenant: it is evicted "immediately".  After the deletion the
\* cache takes up no host that does not resolve.
DenialIsImmediate ==
  [][\A h \in Hosts : domainCache[h] = Miss /\ domainCache'[h] # Miss =>
       \/ Routable(h)
       \/ \E p \in Processes : In(p, "invalidate") /\ h \in procs[p].hosts]_vars

\* A host is reported missing only when it does not resolve at that moment: a failed lookup
\* is never cached.
NoFalseDenial ==
  [][\A p \in Processes :
       In(p, "get") \/ In(p, "query") => (procs'[p] = [pc |-> "done", status |-> NotFound(procs[p].route)]
                                            => ~Routable(procs[p].host))]_vars

\* A host that is denied for good is forgotten by the cache for good, whatever fills were
\* late and whatever deletions were lost: entries expire and hits do not renew them.
DenialReachesTheCache ==
  \A h \in Hosts : <>[]~Routable(h) => <>[](domainCache[h] = Miss)

\* Once a tenant's settings stay as they are, the cache holds them or nothing.
SettingsCacheSettles ==
  \A t \in Tenants, s \in Settings :
    <>[](settings[t] = s) => <>[](settingsCache[t] = Miss \/ settingsCache[t].value = s)
=============================================================================
