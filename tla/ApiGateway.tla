----------------------------- MODULE ApiGateway -----------------------------
(***************************************************************************)
(* The API Gateway mock: the store of its management API, every operation  *)
(* of which is one critical section of MemoryStore.mu, and the requests    *)
(* that the gateway's data plane takes through routes, services and users, *)
(* which read the store three times and hold no lock in between.           *)
(*                                                                         *)
(* IDs are UUIDs and are never used again.  Of names only those are kept   *)
(* which the store copies into other records.  What a transformation, a    *)
(* CORS or an IP configuration says is data; "user" stands for the schemes *)
(* basic, hmac and jwt, which find a consumer by a credential's name.      *)
(***************************************************************************)
EXTENDS Naturals, FiniteSets

CONSTANTS
    Subscriptions, Services, Routes, Oidcs,   \* the IDs there can be
    Users, Groups, Domains, Certificates,
    Names,             \* of services, groups, certificates and OIDC configurations
    HostNames,         \* of custom domains
    Credentials,       \* user names of credentials
    Requests,          \* data-plane requests that can be in flight at once
    None,
    MaxSubscriptions,  \* maxSubscriptions
    MaxMade            \* bound on the resources ever made

Ids == Subscriptions \cup Services \cup Routes \cup Oidcs
         \cup Users \cup Groups \cup Domains \cup Certificates

ASSUME ApiGatewayAssumption ==
    /\ None \notin Ids \cup Names \cup Credentials
    /\ MaxSubscriptions \in Nat
    /\ MaxMade \in Nat

VARIABLES
    subscriptions, services, routes, oidcs,     \* MemoryStore's maps
    users, groups, domains, certificates,
    made,       \* the UUIDs issued so far
    req         \* per data-plane request, what it has read

gateway == <<subscriptions, services, routes, oidcs>>
people  == <<users, groups>>
hosts   == <<domains, certificates>>
store   == <<gateway, people, hosts, made>>
vars    == <<store, req>>

-----------------------------------------------------------------------------
(* Types *)

Subscription == [bound : Services \cup {None}, name : Names \cup {None}]
Service ==
    [sub : Subscriptions, name : Names, auth : {"none", "user", "oidc"},
     oidc : Oidcs \cup {None}, oidcName : Names \cup {None}]
\* hosts without RouteHost, the service's own.  acl: the group names by id.
Acl   == (UNION {[G -> Names] : G \in SUBSET Groups}) \cup {None}
Route == [svc : Services, hosts : SUBSET HostNames, acl : Acl]
User  == [cred : Credentials \cup {None}, groups : SUBSET Groups]
Domain == [host : HostNames, cert : Certificates \cup {None},
           certName : Names \cup {None}]

\* A request after match, and after GetService.
Request == [route : Routes, svc : Services, acl : Acl,
            auth : {"unread", "none", "user", "oidc"}]

ASSUME NoneAssumption ==
    /\ None \notin Subscription /\ None \notin Service /\ None \notin Route
    /\ None \notin User /\ None \notin Domain /\ None \notin Request
    /\ \A G \in SUBSET Groups : None \notin [G -> Names]

TypeOK ==
    /\ subscriptions \in [Subscriptions -> Subscription \cup {None}]
    /\ services \in [Services -> Service \cup {None}]
    /\ routes \in [Routes -> Route \cup {None}]
    /\ oidcs \in [Oidcs -> Names \cup {None}]
    /\ users \in [Users -> User \cup {None}]
    /\ groups \in [Groups -> Names \cup {None}]
    /\ domains \in [Domains -> Domain \cup {None}]
    /\ certificates \in [Certificates -> Names \cup {None}]
    /\ made \in SUBSET Ids
    /\ req \in [Requests -> Request \cup {None}]

Live(map) == {id \in DOMAIN map : map[id] # None}

\* Whether another record of a map that holds names has this one.
Named(map, name, but) == \E x \in Live(map) \ {but} : map[x] = name

\* uuid.NewString: an ID that was never issued.
Fresh(id) ==
    /\ id \notin made /\ Cardinality(made) < MaxMade
    /\ made' = made \cup {id}

-----------------------------------------------------------------------------
(* Subscriptions *)

CreateSubscription(b) ==
    /\ Cardinality(Live(subscriptions)) < MaxSubscriptions
    /\ Fresh(b)
    /\ subscriptions' = [subscriptions EXCEPT ![b] = [bound |-> None, name |-> None]]
    /\ UNCHANGED <<services, routes, oidcs, people, hosts, req>>

\* Mutation: a subscription is deleted whatever is bound to it.
DeleteAnySubscription(b) ==
    /\ subscriptions[b] # None
    /\ subscriptions' = [subscriptions EXCEPT ![b] = None]
    /\ UNCHANGED <<services, routes, oidcs, people, hosts, made, req>>

DeleteSubscription(b) ==
    /\ subscriptions[b] # None /\ subscriptions[b].bound = None
    /\ subscriptions' = [subscriptions EXCEPT ![b] = None]
    /\ UNCHANGED <<services, routes, oidcs, people, hosts, made, req>>

-----------------------------------------------------------------------------
(* Services *)

NameTaken(map, name, but) == \E x \in Live(map) \ {but} : map[x].name = name

\* resolveOidcLocked: what a service may say of its authentication.
Resolvable(auth, o) ==
    IF o = None THEN auth # "oidc" ELSE oidcs[o] # None

\* Mutation: the ID stands where its name should.
OidcIdOf(o) == o

OidcNameOf(o) == IF o = None THEN None ELSE oidcs[o]

CreateService(s, b, name, auth, o) ==
    /\ subscriptions[b] # None /\ subscriptions[b].bound = None
    /\ ~ NameTaken(services, name, None)
    /\ Resolvable(auth, o)
    /\ Fresh(s)
    /\ services' = [services EXCEPT ![s] =
                      [sub |-> b, name |-> name, auth |-> auth, oidc |-> o,
                       oidcName |-> OidcNameOf(o)]]
    /\ subscriptions' = [subscriptions EXCEPT ![b] = [bound |-> s, name |-> name]]
    /\ UNCHANGED <<routes, oidcs, people, hosts, req>>

\* The service keeps its subscription, which is told the new name.
UpdateService(s, name, auth, o) ==
    /\ services[s] # None
    /\ ~ NameTaken(services, name, s)
    /\ Resolvable(auth, o)
    /\ services' = [services EXCEPT ![s] =
                      [sub |-> @.sub, name |-> name, auth |-> auth, oidc |-> o,
                       oidcName |-> OidcNameOf(o)]]
    /\ subscriptions' = [subscriptions EXCEPT ![services[s].sub].name = name]
    /\ UNCHANGED <<routes, oidcs, people, hosts, made, req>>

\* Mutation: routes are not looked at.
DeleteServiceWithRoutes(s) ==
    /\ services[s] # None
    /\ services' = [services EXCEPT ![s] = None]
    /\ subscriptions' = [subscriptions EXCEPT
                           ![services[s].sub] = [bound |-> None, name |-> None]]
    /\ UNCHANGED <<routes, oidcs, people, hosts, made, req>>

\* Refused while a route is left; releases the subscription.
DeleteService(s) ==
    /\ services[s] # None
    /\ \A r \in Live(routes) : routes[r].svc # s
    /\ services' = [services EXCEPT ![s] = None]
    /\ subscriptions' = [subscriptions EXCEPT
                           ![services[s].sub] = [bound |-> None, name |-> None]]
    /\ UNCHANGED <<routes, oidcs, people, hosts, made, req>>

-----------------------------------------------------------------------------
(* Routes *)

\* validateRouteHostsLocked
Registered(H) == \A h \in H : \E d \in Live(domains) : domains[d].host = h

CreateRoute(r, s, H) ==
    /\ services[s] # None
    /\ Registered(H)
    /\ Fresh(r)
    /\ routes' = [routes EXCEPT ![r] = [svc |-> s, hosts |-> H, acl |-> None]]
    /\ UNCHANGED <<subscriptions, services, oidcs, people, hosts, req>>

\* Keeps what only the authorization request sets.
UpdateRoute(r, H) ==
    /\ routes[r] # None
    /\ Registered(H)
    /\ routes' = [routes EXCEPT ![r].hosts = H]
    /\ UNCHANGED <<subscriptions, services, oidcs, people, hosts, made, req>>

DeleteRoute(r) ==
    /\ routes[r] # None
    /\ routes' = [routes EXCEPT ![r] = None]
    /\ UNCHANGED <<subscriptions, services, oidcs, people, hosts, made, req>>

\* Each group must exist; its name is copied.  G = {} turns the list off.
SetRouteAuthorization(r, G) ==
    /\ routes[r] # None
    /\ G \subseteq Live(groups)
    /\ routes' = [routes EXCEPT ![r].acl =
                    IF G = {} THEN None ELSE [g \in G |-> groups[g]]]
    /\ UNCHANGED <<subscriptions, services, oidcs, people, hosts, made, req>>

-----------------------------------------------------------------------------
(* Users and groups *)

CreateUser(u) ==
    /\ Fresh(u)
    /\ users' = [users EXCEPT ![u] = [cred |-> None, groups |-> {}]]
    /\ UNCHANGED <<gateway, groups, hosts, req>>

DeleteUser(u) ==
    /\ users[u] # None
    /\ users' = [users EXCEPT ![u] = None]
    /\ UNCHANGED <<gateway, groups, hosts, made, req>>

\* Mutation: only the user's own credential is looked at.
UpsertCredentialUnchecked(u, cred) ==
    /\ users[u] # None
    /\ users[u].cred # cred
    /\ users' = [users EXCEPT ![u].cred = cred]
    /\ UNCHANGED <<gateway, groups, hosts, made, req>>

UpsertUserAuthentication(u, cred) ==
    /\ users[u] # None
    /\ \A v \in Live(users) \ {u} : users[v].cred # cred
    /\ users' = [users EXCEPT ![u].cred = cred]
    /\ UNCHANGED <<gateway, groups, hosts, made, req>>

\* One entry of handleUpdateUserGroups, each of which is a critical section:
\* an entry that is refused leaves the ones before it done.
AssignUserGroup(u, g, assigned) ==
    /\ users[u] # None /\ groups[g] # None
    /\ users' = [users EXCEPT ![u].groups = IF assigned THEN @ \cup {g} ELSE @ \ {g}]
    /\ UNCHANGED <<gateway, groups, hosts, made, req>>

CreateGroup(g, name) ==
    /\ ~ Named(groups, name, None)
    /\ Fresh(g)
    /\ groups' = [groups EXCEPT ![g] = name]
    /\ UNCHANGED <<gateway, users, hosts, req>>

\* Mutation: the copies of the name are not renewed.
UpdateGroupOnly(g, name) ==
    /\ groups[g] # None
    /\ ~ Named(groups, name, g)
    /\ groups' = [groups EXCEPT ![g] = name]
    /\ UNCHANGED <<gateway, users, hosts, made, req>>

UpdateGroup(g, name) ==
    /\ groups[g] # None
    /\ ~ Named(groups, name, g)
    /\ groups' = [groups EXCEPT ![g] = name]
    /\ routes' = [r \in Routes |->
                    IF routes[r] # None /\ routes[r].acl # None
                    THEN [routes[r] EXCEPT !.acl =
                            [k \in DOMAIN @ |-> IF k = g THEN name ELSE @[k]]]
                    ELSE routes[r]]
    /\ UNCHANGED <<subscriptions, services, oidcs, users, hosts, made, req>>

\* The routes once g is off their lists; a list may be left empty.
WithoutGroup(g) ==
    [r \in Routes |->
       IF routes[r] # None /\ routes[r].acl # None
       THEN [routes[r] EXCEPT !.acl = [k \in DOMAIN @ \ {g} |-> @[k]]]
       ELSE routes[r]]

\* Mutation: memberships are left as they are.
DeleteGroupOfRoutes(g) ==
    /\ groups[g] # None
    /\ groups' = [groups EXCEPT ![g] = None]
    /\ routes' = WithoutGroup(g)
    /\ UNCHANGED <<subscriptions, services, oidcs, users, hosts, made, req>>

\* Cascades: out of memberships and of the routes' lists.
DeleteGroup(g) ==
    /\ groups[g] # None
    /\ groups' = [groups EXCEPT ![g] = None]
    /\ users' = [u \in Users |-> IF users[u] = None THEN None
                                 ELSE [users[u] EXCEPT !.groups = @ \ {g}]]
    /\ routes' = WithoutGroup(g)
    /\ UNCHANGED <<subscriptions, services, oidcs, hosts, made, req>>

-----------------------------------------------------------------------------
(* Domains and certificates *)

CertNameOf(c) == IF c = None THEN None ELSE certificates[c]

CreateDomain(d, h, c) ==
    /\ \A e \in Live(domains) : domains[e].host # h
    /\ c # None => certificates[c] # None
    /\ Fresh(d)
    /\ domains' = [domains EXCEPT ![d] = [host |-> h, cert |-> c, certName |-> CertNameOf(c)]]
    /\ UNCHANGED <<gateway, people, certificates, req>>

\* The certificate's ID is assigned before it is looked up: a request that is
\* refused, the certificate being unknown, has changed it all the same.  (No
\* request knows a UUID before it is issued.)
UpdateDomain(d, c) ==
    /\ domains[d] # None
    /\ c \in made \cup {None}
    /\ domains' = [domains EXCEPT ![d].cert = c,
                     ![d].certName = IF c # None /\ certificates[c] = None
                                     THEN @ ELSE CertNameOf(c)]
    /\ UNCHANGED <<gateway, people, certificates, made, req>>

\* Mutation: routes are not looked at.
DeleteDomainInUse(d) ==
    /\ domains[d] # None
    /\ domains' = [domains EXCEPT ![d] = None]
    /\ UNCHANGED <<gateway, people, certificates, made, req>>

DeleteDomain(d) ==
    /\ domains[d] # None
    /\ \A r \in Live(routes) : domains[d].host \notin routes[r].hosts
    /\ domains' = [domains EXCEPT ![d] = None]
    /\ UNCHANGED <<gateway, people, certificates, made, req>>

CreateCertificate(c, name) ==
    /\ ~ Named(certificates, name, None)
    /\ Fresh(c)
    /\ certificates' = [certificates EXCEPT ![c] = name]
    /\ UNCHANGED <<gateway, people, domains, req>>

UpdateCertificate(c, name) ==
    /\ certificates[c] # None
    /\ ~ Named(certificates, name, c)
    /\ certificates' = [certificates EXCEPT ![c] = name]
    /\ domains' = [d \in Domains |->
                     IF domains[d] # None /\ domains[d].cert = c
                     THEN [domains[d] EXCEPT !.certName = name] ELSE domains[d]]
    /\ UNCHANGED <<gateway, people, made, req>>

DeleteCertificate(c) ==
    /\ certificates[c] # None
    /\ \A d \in Live(domains) : domains[d].cert # c
    /\ certificates' = [certificates EXCEPT ![c] = None]
    /\ UNCHANGED <<gateway, people, domains, made, req>>

-----------------------------------------------------------------------------
(* OIDC configurations *)

CreateOidc(o, name) ==
    /\ ~ Named(oidcs, name, None)
    /\ Fresh(o)
    /\ oidcs' = [oidcs EXCEPT ![o] = name]
    /\ UNCHANGED <<subscriptions, services, routes, people, hosts, req>>

UpdateOidc(o, name) ==
    /\ oidcs[o] # None
    /\ ~ Named(oidcs, name, o)
    /\ oidcs' = [oidcs EXCEPT ![o] = name]
    /\ services' = [s \in Services |->
                      IF services[s] # None /\ services[s].oidc = o
                      THEN [services[s] EXCEPT !.oidcName = name] ELSE services[s]]
    /\ UNCHANGED <<subscriptions, routes, people, hosts, made, req>>

DeleteOidc(o) ==
    /\ oidcs[o] # None
    /\ \A s \in Live(services) : services[s].oidc # o
    /\ oidcs' = [oidcs EXCEPT ![o] = None]
    /\ UNCHANGED <<subscriptions, services, routes, people, hosts, made, req>>

-----------------------------------------------------------------------------
(* A request of the data plane *)

\* RoutesByHost: the request has one of the route's hosts, or the service's.
Match(q, r) ==
    /\ req[q] = None
    /\ routes[r] # None
    /\ req' = [req EXCEPT ![q] = [route |-> r, svc |-> routes[r].svc,
                                  acl |-> routes[r].acl, auth |-> "unread"]]
    /\ UNCHANGED store

\* GetService; a service that has gone is a Bad Gateway.
GetService(q) ==
    /\ req[q] # None /\ req[q].auth = "unread"
    /\ req' = [req EXCEPT ![q] = IF services[@.svc] = None THEN None
                                 ELSE [@ EXCEPT !.auth = services[req[q].svc].auth]]
    /\ UNCHANGED store

\* checkACL, with the list as it was when the route matched.
Allows(acl, auth, u) ==
    acl # None /\ auth # "oidc" => u # None /\ DOMAIN acl \cap users[u].groups # {}

\* Authentication finds the user of a credential, or none is asked for; then
\* the list is checked and the request is forwarded or refused.
Admit(q, u) ==
    /\ req[q] # None /\ req[q].auth # "unread"
    /\ u # None <=> req[q].auth = "user"
    /\ u # None => users[u] # None /\ users[u].cred # None
    /\ Allows(req[q].acl, req[q].auth, u)
    /\ req' = [req EXCEPT ![q] = None]
    /\ UNCHANGED store

Refuse(q) ==
    /\ req[q] # None /\ req[q].auth # "unread"
    /\ req' = [req EXCEPT ![q] = None]
    /\ UNCHANGED store

-----------------------------------------------------------------------------
Init ==
    /\ subscriptions = [b \in Subscriptions |-> None]
    /\ services = [s \in Services |-> None]
    /\ routes = [r \in Routes |-> None]
    /\ oidcs = [o \in Oidcs |-> None]
    /\ users = [u \in Users |-> None]
    /\ groups = [g \in Groups |-> None]
    /\ domains = [d \in Domains |-> None]
    /\ certificates = [c \in Certificates |-> None]
    /\ made = {}
    /\ req = [q \in Requests |-> None]

ServiceOps ==
    \/ \E b \in Subscriptions : CreateSubscription(b) \/ DeleteSubscription(b)
    \/ \E s \in Services :
         \/ \E name \in Names, auth \in {"none", "user", "oidc"}, o \in Oidcs \cup {None} :
              \/ UpdateService(s, name, auth, o)
              \/ \E b \in Subscriptions : CreateService(s, b, name, auth, o)
         \/ DeleteService(s)
    \/ \E o \in Oidcs :
         \/ \E name \in Names : CreateOidc(o, name) \/ UpdateOidc(o, name)
         \/ DeleteOidc(o)

RouteOps ==
    \E r \in Routes :
        \/ \E H \in SUBSET HostNames :
             UpdateRoute(r, H) \/ \E s \in Services : CreateRoute(r, s, H)
        \/ \E G \in SUBSET Groups : SetRouteAuthorization(r, G)
        \/ DeleteRoute(r)

UserOps ==
    \/ \E u \in Users :
         \/ CreateUser(u) \/ DeleteUser(u)
         \/ \E cred \in Credentials : UpsertUserAuthentication(u, cred)
         \/ \E g \in Groups, assigned \in BOOLEAN : AssignUserGroup(u, g, assigned)
    \/ \E g \in Groups :
         \/ \E name \in Names : CreateGroup(g, name) \/ UpdateGroup(g, name)
         \/ DeleteGroup(g)

DomainOps ==
    \/ \E d \in Domains :
         \/ \E c \in Certificates \cup {None} :
              UpdateDomain(d, c) \/ \E h \in HostNames : CreateDomain(d, h, c)
         \/ DeleteDomain(d)
    \/ \E c \in Certificates :
         \/ \E name \in Names : CreateCertificate(c, name) \/ UpdateCertificate(c, name)
         \/ DeleteCertificate(c)

DataPlane ==
    \E q \in Requests :
        \/ \E r \in Routes : Match(q, r)
        \/ GetService(q)
        \/ \E u \in Users \cup {None} : Admit(q, u)
        \/ Refuse(q)

Next == ServiceOps \/ RouteOps \/ UserOps \/ DomainOps \/ DataPlane

Spec == Init /\ [][Next]_vars

-----------------------------------------------------------------------------
(* Safety *)

\* "Subscriptions bind to at most one service": a service and its subscription
\* always name each other, and so do their copies of its name.
BindingsAgree ==
    /\ \A s \in Live(services) :
         /\ subscriptions[services[s].sub] # None
         /\ subscriptions[services[s].sub] = [bound |-> s, name |-> services[s].name]
    /\ \A b \in Live(subscriptions) :
         subscriptions[b].bound # None =>
             services[subscriptions[b].bound] # None /\ services[subscriptions[b].bound].sub = b

\* What a service or a route refers to exists for as long as it does: the
\* route's service, its custom hosts, and the OIDC configuration of a service,
\* without which it could authenticate nobody.
RoutesServed ==
    /\ \A r \in Live(routes) :
         /\ services[routes[r].svc] # None
         /\ Registered(routes[r].hosts)
    /\ \A s \in Live(services) :
         IF services[s].oidc = None THEN services[s].auth # "oidc"
         ELSE oidcs[services[s].oidc] # None

\* A group that was deleted is in no user's memberships and on no route's list,
\* so a user can pass a list only by a group there is.
MembershipsSound ==
    /\ \A u \in Live(users) : users[u].groups \subseteq Live(groups)
    /\ \A r \in Live(routes) :
         routes[r].acl # None => DOMAIN routes[r].acl \subseteq Live(groups)

\* The copies of a name that the store keeps in other records are that name
\* still, after every rename, cascade and refused request.
NamesInSync ==
    /\ \A r \in Live(routes) : routes[r].acl # None =>
         \A g \in DOMAIN routes[r].acl : routes[r].acl[g] = groups[g]
    /\ \A s \in Live(services) : services[s].oidcName = OidcNameOf(services[s].oidc)
    /\ \A d \in Live(domains) :
         domains[d].cert \in Live(certificates) =>
             domains[d].certName = certificates[domains[d].cert]

\* A credential finds at most one user, which is what the data plane takes for
\* granted when it takes the first user that has it.
CredentialsUnique ==
    \A u, v \in Live(users) :
        users[u].cred = users[v].cred /\ users[u].cred # None => u = v

\* All of these: what a record names is there, is its own, and has the name the
\* record has of it.
ReferencesSound ==
    /\ BindingsAgree /\ RoutesServed /\ MembershipsSound
    /\ NamesInSync /\ CredentialsUnique

\* A request that matched a route fails for want of its service only if the
\* route has been deleted as well since.
BadGatewayOnlyIfGone ==
    \A q \in Requests :
        req[q] # None /\ req[q].auth = "unread" /\ services[req[q].svc] = None
            => routes[req[q].route] = None

\* A request that is admitted by a list which is out of date by then is admitted
\* by a group that still exists, of which its user is still a member.
AdmittedByLiveGroup ==
    [][\A q \in Requests : \A u \in Users :
         Admit(q, u) /\ req[q].acl # None /\ req[q].auth = "user"
             => \E g \in DOMAIN req[q].acl : groups[g] # None /\ g \in users[u].groups]_vars
=============================================================================
