------------------------- MODULE ApiGateway_proofs -------------------------
(***************************************************************************)
(* Proofs about the API Gateway mock, for any number of resources of each  *)
(* kind, of names, and of requests in flight.                              *)
(*                                                                         *)
(* That what is referred to is there, and has the name the store copied,   *)
(* rests on an ID never being issued again (Issued): a record that is made *)
(* is nobody's yet, although a domain may still name a certificate that    *)
(* was deleted.  Requests rest on a route keeping its service (RequestInv).*)
(***************************************************************************)
EXTENDS ApiGateway, TLAPS

\* RoutesServed, MembershipsSound and NamesInSync, by what they relate.
RoutesHaveService == \A r \in Live(routes) : services[routes[r].svc] # None

HostsRegistered == \A r \in Live(routes) : Registered(routes[r].hosts)

OidcsAgree ==
    \A s \in Live(services) :
        IF services[s].oidc = None
        THEN services[s].auth # "oidc" /\ services[s].oidcName = None
        ELSE /\ oidcs[services[s].oidc] # None
             /\ services[s].oidcName = oidcs[services[s].oidc]

MembersSound == \A u \in Live(users) : users[u].groups \subseteq Live(groups)

ListsAgree ==
    \A r \in Live(routes) :
        routes[r].acl # None =>
            \A g \in DOMAIN routes[r].acl : groups[g] # None /\ routes[r].acl[g] = groups[g]

CertificatesAgree ==
    \A d \in Live(domains) :
        domains[d].cert # None =>
            /\ domains[d].cert \in made
            /\ certificates[domains[d].cert] # None =>
                 domains[d].certName = certificates[domains[d].cert]

RefsInv ==
    /\ BindingsAgree /\ RoutesHaveService /\ HostsRegistered /\ OidcsAgree
    /\ MembersSound /\ ListsAgree /\ CertificatesAgree /\ CredentialsUnique

\* There is no record but under an ID that was issued.
Issued ==
    /\ Live(subscriptions) \subseteq made /\ Live(services) \subseteq made
    /\ Live(routes) \subseteq made /\ Live(oidcs) \subseteq made
    /\ Live(users) \subseteq made /\ Live(groups) \subseteq made
    /\ Live(domains) \subseteq made /\ Live(certificates) \subseteq made

RequestInv(q) ==
    req[q] # None =>
        /\ req[q].route \in made
        /\ routes[req[q].route] # None => routes[req[q].route].svc = req[q].svc

RequestsInv == \A q \in Requests : RequestInv(q)

IInv == TypeOK /\ RefsInv /\ Issued /\ RequestsInv

-----------------------------------------------------------------------------
(* Maps, and the records in them *)

\* A record is made, changed or (v being None) deleted.
LEMMA SubscriptionsPut ==
  ASSUME TypeOK, NEW x \in Subscriptions, NEW v \in Subscription \cup {None},
         subscriptions' = [subscriptions EXCEPT ![x] = v]
  PROVE  /\ subscriptions' \in [Subscriptions -> Subscription \cup {None}]
         /\ Live(subscriptions') = IF v = None THEN Live(subscriptions) \ {x}
                            ELSE Live(subscriptions) \cup {x}
         /\ subscriptions'[x] = v /\ \A y \in Subscriptions \ {x} : subscriptions'[y] = subscriptions[y]
<1>1. subscriptions \in [Subscriptions -> Subscription \cup {None}]
  BY DEF TypeOK
<1> QED
  BY <1>1 DEF Live

LEMMA ServicesPut ==
  ASSUME TypeOK, NEW x \in Services, NEW v \in Service \cup {None},
         services' = [services EXCEPT ![x] = v]
  PROVE  /\ services' \in [Services -> Service \cup {None}]
         /\ Live(services') = IF v = None THEN Live(services) \ {x}
                            ELSE Live(services) \cup {x}
         /\ services'[x] = v /\ \A y \in Services \ {x} : services'[y] = services[y]
<1>1. services \in [Services -> Service \cup {None}]
  BY DEF TypeOK
<1> QED
  BY <1>1 DEF Live

LEMMA RoutesPut ==
  ASSUME TypeOK, NEW x \in Routes, NEW v \in Route \cup {None},
         routes' = [routes EXCEPT ![x] = v]
  PROVE  /\ routes' \in [Routes -> Route \cup {None}]
         /\ Live(routes') = IF v = None THEN Live(routes) \ {x}
                            ELSE Live(routes) \cup {x}
         /\ routes'[x] = v /\ \A y \in Routes \ {x} : routes'[y] = routes[y]
<1>1. routes \in [Routes -> Route \cup {None}]
  BY DEF TypeOK
<1> QED
  BY <1>1 DEF Live

LEMMA OidcsPut ==
  ASSUME TypeOK, NEW x \in Oidcs, NEW v \in Names \cup {None},
         oidcs' = [oidcs EXCEPT ![x] = v]
  PROVE  /\ oidcs' \in [Oidcs -> Names \cup {None}]
         /\ Live(oidcs') = IF v = None THEN Live(oidcs) \ {x}
                            ELSE Live(oidcs) \cup {x}
         /\ oidcs'[x] = v /\ \A y \in Oidcs \ {x} : oidcs'[y] = oidcs[y]
<1>1. oidcs \in [Oidcs -> Names \cup {None}]
  BY DEF TypeOK
<1> QED
  BY <1>1 DEF Live

LEMMA UsersPut ==
  ASSUME TypeOK, NEW x \in Users, NEW v \in User \cup {None},
         users' = [users EXCEPT ![x] = v]
  PROVE  /\ users' \in [Users -> User \cup {None}]
         /\ Live(users') = IF v = None THEN Live(users) \ {x}
                            ELSE Live(users) \cup {x}
         /\ users'[x] = v /\ \A y \in Users \ {x} : users'[y] = users[y]
<1>1. users \in [Users -> User \cup {None}]
  BY DEF TypeOK
<1> QED
  BY <1>1 DEF Live

LEMMA GroupsPut ==
  ASSUME TypeOK, NEW x \in Groups, NEW v \in Names \cup {None},
         groups' = [groups EXCEPT ![x] = v]
  PROVE  /\ groups' \in [Groups -> Names \cup {None}]
         /\ Live(groups') = IF v = None THEN Live(groups) \ {x}
                            ELSE Live(groups) \cup {x}
         /\ groups'[x] = v /\ \A y \in Groups \ {x} : groups'[y] = groups[y]
<1>1. groups \in [Groups -> Names \cup {None}]
  BY DEF TypeOK
<1> QED
  BY <1>1 DEF Live

LEMMA DomainsPut ==
  ASSUME TypeOK, NEW x \in Domains, NEW v \in Domain \cup {None},
         domains' = [domains EXCEPT ![x] = v]
  PROVE  /\ domains' \in [Domains -> Domain \cup {None}]
         /\ Live(domains') = IF v = None THEN Live(domains) \ {x}
                            ELSE Live(domains) \cup {x}
         /\ domains'[x] = v /\ \A y \in Domains \ {x} : domains'[y] = domains[y]
<1>1. domains \in [Domains -> Domain \cup {None}]
  BY DEF TypeOK
<1> QED
  BY <1>1 DEF Live

LEMMA CertificatesPut ==
  ASSUME TypeOK, NEW x \in Certificates, NEW v \in Names \cup {None},
         certificates' = [certificates EXCEPT ![x] = v]
  PROVE  /\ certificates' \in [Certificates -> Names \cup {None}]
         /\ Live(certificates') = IF v = None THEN Live(certificates) \ {x}
                            ELSE Live(certificates) \cup {x}
         /\ certificates'[x] = v /\ \A y \in Certificates \ {x} : certificates'[y] = certificates[y]
<1>1. certificates \in [Certificates -> Names \cup {None}]
  BY DEF TypeOK
<1> QED
  BY <1>1 DEF Live

LEMMA Records ==
  ASSUME TypeOK
  PROVE  /\ \A b : b \in Live(subscriptions) <=> b \in Subscriptions /\ subscriptions[b] # None
         /\ \A b \in Live(subscriptions) : subscriptions[b] \in Subscription
         /\ \A s : s \in Live(services) <=> s \in Services /\ services[s] # None
         /\ \A s \in Live(services) : services[s] \in Service
         /\ \A r : r \in Live(routes) <=> r \in Routes /\ routes[r] # None
         /\ \A r \in Live(routes) : routes[r] \in Route
         /\ \A o : o \in Live(oidcs) <=> o \in Oidcs /\ oidcs[o] # None
         /\ \A u : u \in Live(users) <=> u \in Users /\ users[u] # None
         /\ \A u \in Live(users) : users[u] \in User
         /\ \A g : g \in Live(groups) <=> g \in Groups /\ groups[g] # None
         /\ \A d : d \in Live(domains) <=> d \in Domains /\ domains[d] # None
         /\ \A d \in Live(domains) : domains[d] \in Domain
         /\ \A c : c \in Live(certificates) <=> c \in Certificates /\ certificates[c] # None
BY DEF TypeOK, Live

LEMMA Fields ==
  /\ \A x \in Subscription : x.bound \in Services \cup {None} /\ x.name \in Names \cup {None}
  /\ \A x \in Service :
       /\ x.sub \in Subscriptions /\ x.name \in Names /\ x.auth \in {"none", "user", "oidc"}
       /\ x.oidc \in Oidcs \cup {None} /\ x.oidcName \in Names \cup {None}
  /\ \A x \in Route : x.svc \in Services /\ x.hosts \subseteq HostNames /\ x.acl \in Acl
  /\ \A x \in User : x.cred \in Credentials \cup {None} /\ x.groups \subseteq Groups
  /\ \A x \in Domain :
       /\ x.host \in HostNames /\ x.cert \in Certificates \cup {None}
       /\ x.certName \in Names \cup {None}
BY DEF Subscription, Service, Route, User, Domain

\* None is not a name, an ID or a record.
LEMMA NothingIsNone ==
  /\ None \notin Names /\ None \notin Credentials
  /\ None \notin Subscriptions /\ None \notin Services /\ None \notin Routes
  /\ None \notin Oidcs /\ None \notin Users /\ None \notin Groups
  /\ None \notin Domains /\ None \notin Certificates
  /\ None \notin Subscription /\ None \notin Service /\ None \notin Route
  /\ None \notin User /\ None \notin Domain /\ None \notin Request
BY ApiGatewayAssumption, NoneAssumption DEF Ids

\* A service and its subscription name each other.
LEMMA Bound ==
  ASSUME IInv, NEW s \in Live(services)
  PROVE  LET b == services[s].sub
         IN  /\ s \in Services /\ b \in Subscriptions /\ b \in Live(subscriptions)
             /\ subscriptions[b] \in Subscription
             /\ subscriptions[b].bound = s /\ subscriptions[b].name = services[s].name
<1> DEFINE b == services[s].sub
<1>1. s \in Services /\ b \in Subscriptions
  BY Records, Fields DEF IInv
<1>2. subscriptions[b] # None /\ subscriptions[b] = [bound |-> s, name |-> services[s].name]
  BY DEF IInv, RefsInv, BindingsAgree
<1>3. b \in Live(subscriptions) /\ subscriptions[b] \in Subscription
  BY <1>1, <1>2, Records DEF IInv
<1> QED
  BY <1>1, <1>2, <1>3

\* What relates variables that do not change holds still.
LEMMA Frame ==
  ASSUME RefsInv
  PROVE  /\ UNCHANGED <<services, subscriptions>> => BindingsAgree'
         /\ UNCHANGED <<services, routes>> => RoutesHaveService'
         /\ UNCHANGED <<routes, domains>> => HostsRegistered'
         /\ UNCHANGED <<services, oidcs>> => OidcsAgree'
         /\ UNCHANGED <<users, groups>> => MembersSound'
         /\ UNCHANGED <<routes, groups>> => ListsAgree'
         /\ UNCHANGED <<domains, certificates>> /\ made \subseteq made' => CertificatesAgree'
         /\ UNCHANGED users => CredentialsUnique'
<1>1. UNCHANGED <<services, subscriptions>> => BindingsAgree'
  BY DEF RefsInv, BindingsAgree
<1>2. UNCHANGED <<services, routes>> => RoutesHaveService'
  BY DEF RefsInv, RoutesHaveService
<1>3. UNCHANGED <<routes, domains>> => HostsRegistered'
  BY DEF RefsInv, HostsRegistered, Registered
<1>4. UNCHANGED <<services, oidcs>> => OidcsAgree'
  BY DEF RefsInv, OidcsAgree
<1>5. UNCHANGED <<users, groups>> => MembersSound'
  BY DEF RefsInv, MembersSound
<1>6. UNCHANGED <<routes, groups>> => ListsAgree'
  BY DEF RefsInv, ListsAgree
<1>7. UNCHANGED <<domains, certificates>> /\ made \subseteq made' => CertificatesAgree'
  BY DEF RefsInv, CertificatesAgree
<1>8. UNCHANGED users => CredentialsUnique'
  BY DEF RefsInv, CredentialsUnique
<1> QED
  BY <1>1, <1>2, <1>3, <1>4, <1>5, <1>6, <1>7, <1>8

\* Requests in flight do not notice while routes stay or go, and IDs are issued.
LEMMA RequestsStay ==
  ASSUME IInv, UNCHANGED req, made \subseteq made',
         \A r \in Routes : r \in made /\ routes'[r] # None =>
           routes[r] # None /\ routes'[r].svc = routes[r].svc
  PROVE  RequestsInv'
<1>1. \A q \in Requests : req[q] # None => req[q].route \in Routes
  BY DEF IInv, TypeOK, Request
<1> QED
  BY <1>1 DEF IInv, RequestsInv, RequestInv

-----------------------------------------------------------------------------
(* Subscriptions *)

LEMMA CreateSubscriptionStep ==
  ASSUME IInv, NEW b \in Subscriptions, CreateSubscription(b)
  PROVE  IInv'
<1> DEFINE v == [bound |-> None, name |-> None]
<1>1. /\ b \notin made /\ made' = made \cup {b}
      /\ subscriptions' = [subscriptions EXCEPT ![b] = v]
      /\ UNCHANGED <<services, routes, oidcs, people, hosts, req>>
  BY DEF CreateSubscription, Fresh
<1>2. v \in Subscription /\ v # None /\ v.bound = None
  BY NothingIsNone DEF Subscription
<1> HIDE DEF v
<1>3. /\ subscriptions' \in [Subscriptions -> Subscription \cup {None}]
      /\ Live(subscriptions') = Live(subscriptions) \cup {b}
      /\ subscriptions'[b] = v
      /\ \A y \in Subscriptions \ {b} : subscriptions'[y] = subscriptions[y]
  BY <1>1, <1>2, SubscriptionsPut DEF IInv
<1>4. TypeOK'
  BY <1>1, <1>3 DEF IInv, TypeOK, people, hosts, Ids
<1>5. subscriptions[b] = None
  BY <1>1, Records DEF IInv, Issued
<1>6. BindingsAgree'
  <2>1. \A s \in Live(services) : services[s].sub # b /\ services[s].sub \in Subscriptions
    BY <1>5, Records, Fields DEF IInv, RefsInv, BindingsAgree
  <2>2. ASSUME NEW s \in Live(services)
        PROVE  /\ subscriptions'[services[s].sub] # None
               /\ subscriptions'[services[s].sub] = [bound |-> s, name |-> services[s].name]
    BY <1>3, <2>1 DEF IInv, RefsInv, BindingsAgree
  <2>3. ASSUME NEW y \in Live(subscriptions'), subscriptions'[y].bound # None
        PROVE  /\ services[subscriptions'[y].bound] # None
               /\ services[subscriptions'[y].bound].sub = y
    <3>1. y \in Live(subscriptions) /\ y # b /\ y \in Subscriptions
      BY <1>2, <1>3, <2>3, Records DEF IInv
    <3> QED
      BY <1>3, <2>3, <3>1 DEF IInv, RefsInv, BindingsAgree
  <2>4. services' = services
    BY <1>1
  <2> QED
    BY <2>2, <2>3, <2>4 DEF BindingsAgree
<1>7. RefsInv'
  BY <1>1, <1>6, Frame DEF IInv, RefsInv, people, hosts
<1>8. Issued'
  BY <1>1, <1>3 DEF IInv, Issued, people, hosts
<1>9. RequestsInv'
  BY <1>1, RequestsStay
<1> QED
  BY <1>4, <1>7, <1>8, <1>9 DEF IInv

LEMMA DeleteSubscriptionStep ==
  ASSUME IInv, NEW b \in Subscriptions, DeleteSubscription(b)
  PROVE  IInv'
<1>1. /\ subscriptions[b] # None /\ subscriptions[b].bound = None
      /\ subscriptions' = [subscriptions EXCEPT ![b] = None]
      /\ UNCHANGED <<services, routes, oidcs, people, hosts, made, req>>
  BY DEF DeleteSubscription
<1>2. /\ subscriptions' \in [Subscriptions -> Subscription \cup {None}]
      /\ Live(subscriptions') = Live(subscriptions) \ {b}
      /\ \A y \in Subscriptions \ {b} : subscriptions'[y] = subscriptions[y]
  BY <1>1, SubscriptionsPut DEF IInv
<1>3. TypeOK'
  BY <1>1, <1>2 DEF IInv, TypeOK, people, hosts
<1>4. BindingsAgree'
  <2>1. \A s \in Live(services) : services[s].sub \in Subscriptions \ {b}
    <3> SUFFICES ASSUME NEW s \in Live(services)
                 PROVE  services[s].sub \in Subscriptions \ {b}
      OBVIOUS
    <3>1. /\ s \in Services /\ services[s].sub \in Subscriptions
          /\ subscriptions[services[s].sub].bound = s
      BY Bound
    <3> QED
      BY <1>1, <3>1, NothingIsNone
  <2>2. ASSUME NEW s \in Live(services)
        PROVE  /\ subscriptions'[services[s].sub] # None
               /\ subscriptions'[services[s].sub] = [bound |-> s, name |-> services[s].name]
    BY <1>2, <2>1 DEF IInv, RefsInv, BindingsAgree
  <2>3. ASSUME NEW y \in Live(subscriptions'), subscriptions'[y].bound # None
        PROVE  /\ services[subscriptions'[y].bound] # None
               /\ services[subscriptions'[y].bound].sub = y
    <3>1. y \in Live(subscriptions) /\ y \in Subscriptions \ {b}
      BY <1>2, Records DEF IInv
    <3> QED
      BY <1>2, <2>3, <3>1 DEF IInv, RefsInv, BindingsAgree
  <2>4. services' = services
    BY <1>1
  <2> QED
    BY <2>2, <2>3, <2>4 DEF BindingsAgree
<1>5. RefsInv'
  BY <1>1, <1>4, Frame DEF IInv, RefsInv, people, hosts
<1>6. Issued'
  BY <1>1, <1>2 DEF IInv, Issued, people, hosts
<1>7. RequestsInv'
  BY <1>1, RequestsStay
<1> QED
  BY <1>3, <1>5, <1>6, <1>7 DEF IInv

-----------------------------------------------------------------------------
(* Services *)

\* What a service may say of its authentication agrees with the configurations.
LEMMA OidcResolved ==
  ASSUME TypeOK, NEW o \in Oidcs \cup {None}, NEW auth, Resolvable(auth, o)
  PROVE  /\ OidcNameOf(o) \in Names \cup {None}
         /\ IF o = None THEN auth # "oidc" /\ OidcNameOf(o) = None
                        ELSE oidcs[o] # None /\ OidcNameOf(o) = oidcs[o]
BY DEF TypeOK, Resolvable, OidcNameOf

LEMMA CreateServiceStep ==
  ASSUME IInv, NEW s \in Services, NEW b \in Subscriptions, NEW name \in Names,
         NEW auth \in {"none", "user", "oidc"}, NEW o \in Oidcs \cup {None},
         CreateService(s, b, name, auth, o)
  PROVE  IInv'
<1> DEFINE v == [sub |-> b, name |-> name, auth |-> auth, oidc |-> o,
                 oidcName |-> OidcNameOf(o)]
           w == [bound |-> s, name |-> name]
<1>1. /\ subscriptions[b] # None /\ subscriptions[b].bound = None
      /\ Resolvable(auth, o) /\ s \notin made /\ made' = made \cup {s}
      /\ services' = [services EXCEPT ![s] = v]
      /\ subscriptions' = [subscriptions EXCEPT ![b] = w]
      /\ UNCHANGED <<routes, oidcs, people, hosts, req>>
  BY DEF CreateService, Fresh
<1>2. /\ OidcNameOf(o) \in Names \cup {None}
      /\ IF o = None THEN auth # "oidc" /\ OidcNameOf(o) = None
                     ELSE oidcs[o] # None /\ OidcNameOf(o) = oidcs[o]
  BY <1>1, OidcResolved DEF IInv
<1>3. /\ v \in Service /\ v.sub = b /\ v.name = name /\ v.auth = auth /\ v.oidc = o
      /\ v.oidcName = OidcNameOf(o) /\ v # None
  BY <1>2, NothingIsNone DEF Service
<1>4. w \in Subscription /\ w.bound = s /\ w # None
  BY NothingIsNone DEF Subscription
<1>5. w = [bound |-> s, name |-> v.name]
  OBVIOUS
<1> HIDE DEF v, w
<1>6. /\ services' \in [Services -> Service \cup {None}]
      /\ Live(services') = Live(services) \cup {s}
      /\ services'[s] = v /\ \A y \in Services \ {s} : services'[y] = services[y]
  BY <1>1, <1>3, ServicesPut DEF IInv
<1>7. /\ subscriptions' \in [Subscriptions -> Subscription \cup {None}]
      /\ Live(subscriptions') = Live(subscriptions) \cup {b}
      /\ subscriptions'[b] = w
      /\ \A y \in Subscriptions \ {b} : subscriptions'[y] = subscriptions[y]
  BY <1>1, <1>4, SubscriptionsPut DEF IInv
<1>8. TypeOK'
  BY <1>1, <1>6, <1>7 DEF IInv, TypeOK, people, hosts, Ids
<1>9. services[s] = None
  BY <1>1, Records DEF IInv, Issued
<1>10. \A x \in Live(services) : x \in Services /\ x # s /\ services[x].sub \in Subscriptions
  BY <1>9, Records, Fields DEF IInv
<1>11. BindingsAgree'
  <2>1. \A x \in Live(services) : services[x].sub # b
    BY <1>1, Bound, NothingIsNone
  <2>2. ASSUME NEW x \in Live(services')
        PROVE  /\ subscriptions'[services'[x].sub] # None
               /\ subscriptions'[services'[x].sub]
                    = [bound |-> x, name |-> services'[x].name]
    <3>1. CASE x = s
      BY <1>3, <1>4, <1>5, <1>6, <1>7, <3>1
    <3>2. CASE x # s
      <4>1. x \in Live(services) /\ services'[x] = services[x]
        BY <1>6, <1>10, <2>2, <3>2
      <4> QED
        BY <1>7, <1>10, <2>1, <4>1 DEF IInv, RefsInv, BindingsAgree
    <3> QED
      BY <3>1, <3>2
  <2>3. ASSUME NEW y \in Live(subscriptions'), subscriptions'[y].bound # None
        PROVE  services'[subscriptions'[y].bound] # None
               /\ services'[subscriptions'[y].bound].sub = y
    <3>1. CASE y = b
      BY <1>3, <1>4, <1>6, <1>7, <3>1
    <3>2. CASE y # b
      <4>1. y \in Live(subscriptions) /\ y \in Subscriptions
            /\ subscriptions'[y] = subscriptions[y]
        BY <1>7, <2>3, <3>2, Records DEF IInv
      <4>2. subscriptions[y].bound \in Services
        BY <2>3, <4>1, Records, Fields DEF IInv
      <4>3. services[subscriptions[y].bound] # None /\ services[subscriptions[y].bound].sub = y
        BY <2>3, <4>1 DEF IInv, RefsInv, BindingsAgree
      <4> QED
        BY <1>6, <1>9, <4>1, <4>2, <4>3
    <3> QED
      BY <3>1, <3>2
  <2> QED
    BY <2>2, <2>3 DEF BindingsAgree
<1>12. RoutesHaveService'
  <2>1. \A r \in Live(routes) : routes[r].svc \in Services /\ routes[r].svc # s
    BY <1>9, Records, Fields DEF IInv, RefsInv, RoutesHaveService
  <2> QED
    BY <1>1, <1>6, <2>1 DEF IInv, RefsInv, RoutesHaveService
<1>13. OidcsAgree'
  BY <1>1, <1>2, <1>3, <1>6, <1>10 DEF IInv, RefsInv, OidcsAgree
<1>14. RefsInv'
  BY <1>1, <1>11, <1>12, <1>13, Frame DEF IInv, RefsInv, people, hosts
<1>15. Issued'
  <2>1. b \in made
    BY <1>1, Records DEF IInv, Issued
  <2> QED
    BY <1>1, <1>6, <1>7, <2>1 DEF IInv, Issued, people, hosts
<1>16. RequestsInv'
  BY <1>1, RequestsStay
<1> QED
  BY <1>8, <1>14, <1>15, <1>16 DEF IInv

\* Renaming what a subscription is bound to.
LEMMA Renamed ==
  ASSUME NEW x \in Subscription, NEW name, NEW y, y = [x EXCEPT !.name = name]
  PROVE  y = [bound |-> x.bound, name |-> name]
BY DEF Subscription

LEMMA UpdateServiceStep ==
  ASSUME IInv, NEW s \in Services, NEW name \in Names,
         NEW auth \in {"none", "user", "oidc"}, NEW o \in Oidcs \cup {None},
         UpdateService(s, name, auth, o)
  PROVE  IInv'
<1> DEFINE b == services[s].sub
           v == [sub |-> b, name |-> name, auth |-> auth, oidc |-> o,
                 oidcName |-> OidcNameOf(o)]
           w == [bound |-> s, name |-> name]
<1>1. /\ services[s] # None /\ Resolvable(auth, o)
      /\ services' = [services EXCEPT ![s] = v]
      /\ subscriptions' = [subscriptions EXCEPT ![b].name = name]
      /\ UNCHANGED <<routes, oidcs, people, hosts, made, req>>
  BY DEF UpdateService
<1>2. /\ OidcNameOf(o) \in Names \cup {None}
      /\ IF o = None THEN auth # "oidc" /\ OidcNameOf(o) = None
                     ELSE oidcs[o] # None /\ OidcNameOf(o) = oidcs[o]
  BY <1>1, OidcResolved DEF IInv
<1>3. s \in Live(services) /\ b \in Subscriptions
  BY <1>1, Records, Fields DEF IInv
<1>4. subscriptions[b] # None /\ subscriptions[b] = [bound |-> s, name |-> services[s].name]
  BY <1>3 DEF IInv, RefsInv, BindingsAgree
<1>5. subscriptions' = [subscriptions EXCEPT ![b] = w]
  <2>1. subscriptions[b] \in Subscription /\ subscriptions[b].bound = s
    BY <1>3, <1>4, Records DEF IInv
  <2>2. [subscriptions[b] EXCEPT !.name = name] = w
    BY <2>1, Renamed
  <2> QED
    BY <1>1, <2>2
<1>6. /\ v \in Service /\ v.sub = b /\ v.name = name /\ v.auth = auth /\ v.oidc = o
      /\ v.oidcName = OidcNameOf(o) /\ v # None
  BY <1>2, <1>3, NothingIsNone DEF Service
<1>7. w \in Subscription /\ w.bound = s /\ w # None
  BY NothingIsNone DEF Subscription
<1>8. w = [bound |-> s, name |-> v.name]
  OBVIOUS
<1> HIDE DEF b, v, w
<1>9. /\ services' \in [Services -> Service \cup {None}]
      /\ Live(services') = Live(services) \cup {s}
      /\ services'[s] = v /\ \A y \in Services \ {s} : services'[y] = services[y]
  BY <1>1, <1>6, ServicesPut DEF IInv
<1>10. /\ subscriptions' \in [Subscriptions -> Subscription \cup {None}]
       /\ Live(subscriptions') = Live(subscriptions) \cup {b}
       /\ subscriptions'[b] = w
       /\ \A y \in Subscriptions \ {b} : subscriptions'[y] = subscriptions[y]
  BY <1>3, <1>5, <1>7, SubscriptionsPut DEF IInv
<1>11. TypeOK'
  BY <1>1, <1>9, <1>10 DEF IInv, TypeOK, people, hosts
<1>12. \A x \in Live(services) : x \in Services /\ services[x].sub \in Subscriptions
  BY Records, Fields DEF IInv
<1>13. BindingsAgree'
  <2>1. \A x \in Live(services) : x # s => services[x].sub # b
    BY <1>3, Bound DEF b
  <2>2. ASSUME NEW x \in Live(services')
        PROVE  /\ subscriptions'[services'[x].sub] # None
               /\ subscriptions'[services'[x].sub]
                    = [bound |-> x, name |-> services'[x].name]
    <3>1. CASE x = s
      BY <1>6, <1>7, <1>8, <1>9, <1>10, <3>1
    <3>2. CASE x # s
      <4>1. x \in Live(services) /\ services'[x] = services[x]
        BY <1>9, <1>12, <2>2, <3>2
      <4> QED
        BY <1>10, <1>12, <2>1, <3>2, <4>1 DEF IInv, RefsInv, BindingsAgree
    <3> QED
      BY <3>1, <3>2
  <2>3. ASSUME NEW y \in Live(subscriptions'), subscriptions'[y].bound # None
        PROVE  services'[subscriptions'[y].bound] # None
               /\ services'[subscriptions'[y].bound].sub = y
    <3>1. CASE y = b
      BY <1>6, <1>7, <1>9, <1>10, <3>1
    <3>2. CASE y # b
      <4>1. y \in Live(subscriptions) /\ y \in Subscriptions
            /\ subscriptions'[y] = subscriptions[y]
        BY <1>10, <2>3, <3>2, Records DEF IInv
      <4>2. subscriptions[y].bound \in Services
        BY <2>3, <4>1, Records, Fields DEF IInv
      <4>3. services[subscriptions[y].bound] # None /\ services[subscriptions[y].bound].sub = y
        BY <2>3, <4>1 DEF IInv, RefsInv, BindingsAgree
      <4>4. subscriptions[y].bound # s
        BY <3>2, <4>3 DEF b
      <4> QED
        BY <1>9, <4>1, <4>2, <4>3, <4>4
    <3> QED
      BY <3>1, <3>2
  <2> QED
    BY <2>2, <2>3 DEF BindingsAgree
<1>14. RoutesHaveService'
  <2>1. \A r \in Live(routes) : routes[r].svc \in Services
    BY Records, Fields DEF IInv
  <2> QED
    BY <1>1, <1>6, <1>9, <2>1 DEF IInv, RefsInv, RoutesHaveService
<1>15. OidcsAgree'
  BY <1>1, <1>2, <1>6, <1>9, <1>12 DEF IInv, RefsInv, OidcsAgree
<1>16. RefsInv'
  BY <1>1, <1>13, <1>14, <1>15, Frame DEF IInv, RefsInv, people, hosts
<1>17. Issued'
  <2>1. b \in Live(subscriptions)
    BY <1>3, <1>4, Records DEF IInv
  <2>2. Live(subscriptions') \subseteq made /\ Live(services') \subseteq made
    BY <1>3, <1>9, <1>10, <2>1 DEF IInv, Issued
  <2> QED
    BY <1>1, <2>2 DEF IInv, Issued, people, hosts
<1>18. RequestsInv'
  BY <1>1, RequestsStay
<1> QED
  BY <1>11, <1>16, <1>17, <1>18 DEF IInv

LEMMA DeleteServiceStep ==
  ASSUME IInv, NEW s \in Services, DeleteService(s)
  PROVE  IInv'
<1> DEFINE b == services[s].sub
           w == [bound |-> None, name |-> None]
<1>1. /\ services[s] # None /\ \A r \in Live(routes) : routes[r].svc # s
      /\ services' = [services EXCEPT ![s] = None]
      /\ subscriptions' = [subscriptions EXCEPT ![b] = w]
      /\ UNCHANGED <<routes, oidcs, people, hosts, made, req>>
  BY DEF DeleteService
<1>2. s \in Live(services) /\ b \in Subscriptions
  BY <1>1, Records, Fields DEF IInv
<1>3. subscriptions[b] # None /\ subscriptions[b].bound = s
  BY <1>2, Bound, Records DEF IInv
<1>4. w \in Subscription /\ w.bound = None /\ w # None
  BY NothingIsNone DEF Subscription
<1> HIDE DEF b, w
<1>5. /\ services' \in [Services -> Service \cup {None}]
      /\ Live(services') = Live(services) \ {s}
      /\ \A y \in Services \ {s} : services'[y] = services[y]
  BY <1>1, ServicesPut DEF IInv
<1>6. /\ subscriptions' \in [Subscriptions -> Subscription \cup {None}]
      /\ Live(subscriptions') = Live(subscriptions) \cup {b}
      /\ subscriptions'[b] = w
      /\ \A y \in Subscriptions \ {b} : subscriptions'[y] = subscriptions[y]
  BY <1>1, <1>2, <1>4, SubscriptionsPut DEF IInv
<1>7. TypeOK'
  BY <1>1, <1>5, <1>6 DEF IInv, TypeOK, people, hosts
<1>8. \A x \in Live(services) : x \in Services /\ services[x].sub \in Subscriptions
  BY Records, Fields DEF IInv
<1>9. BindingsAgree'
  <2>1. \A x \in Live(services) : x # s => services[x].sub # b
    BY <1>3, Bound
  <2>2. \A x \in Live(services') :
          /\ subscriptions'[services'[x].sub] # None
          /\ subscriptions'[services'[x].sub] = [bound |-> x, name |-> services'[x].name]
    BY <1>5, <1>6, <1>8, <2>1 DEF IInv, RefsInv, BindingsAgree
  <2>3. ASSUME NEW y \in Live(subscriptions'), subscriptions'[y].bound # None
        PROVE  services'[subscriptions'[y].bound] # None
               /\ services'[subscriptions'[y].bound].sub = y
    <3>1. y # b
      BY <1>4, <1>6, <2>3
    <3>2. y \in Live(subscriptions) /\ y \in Subscriptions /\ subscriptions'[y] = subscriptions[y]
      BY <1>6, <2>3, <3>1, Records DEF IInv
    <3>3. subscriptions[y].bound \in Services
      BY <2>3, <3>2, Records, Fields DEF IInv
    <3>4. services[subscriptions[y].bound] # None /\ services[subscriptions[y].bound].sub = y
      BY <2>3, <3>2 DEF IInv, RefsInv, BindingsAgree
    <3>5. subscriptions[y].bound # s
      BY <3>1, <3>4 DEF b
    <3> QED
      BY <1>5, <3>2, <3>3, <3>4, <3>5
  <2> QED
    BY <2>2, <2>3 DEF BindingsAgree
<1>10. RoutesHaveService'
  <2>1. \A r \in Live(routes) : routes[r].svc \in Services
    BY Records, Fields DEF IInv
  <2> QED
    BY <1>1, <1>5, <2>1 DEF IInv, RefsInv, RoutesHaveService
<1>11. OidcsAgree'
  BY <1>1, <1>5, <1>8 DEF IInv, RefsInv, OidcsAgree
<1>12. RefsInv'
  BY <1>1, <1>9, <1>10, <1>11, Frame DEF IInv, RefsInv, people, hosts
<1>13. Issued'
  <2>1. b \in Live(subscriptions)
    BY <1>2, <1>3, Records DEF IInv
  <2> QED
    BY <1>1, <1>5, <1>6, <2>1 DEF IInv, Issued, people, hosts
<1>14. RequestsInv'
  BY <1>1, RequestsStay
<1> QED
  BY <1>7, <1>12, <1>13, <1>14 DEF IInv

-----------------------------------------------------------------------------
(* OIDC configurations *)

LEMMA CreateOidcStep ==
  ASSUME IInv, NEW o \in Oidcs, NEW name \in Names, CreateOidc(o, name)
  PROVE  IInv'
<1>1. /\ o \notin made /\ made' = made \cup {o}
      /\ oidcs' = [oidcs EXCEPT ![o] = name]
      /\ UNCHANGED <<subscriptions, services, routes, people, hosts, req>>
  BY DEF CreateOidc, Fresh
<1>2. /\ oidcs' \in [Oidcs -> Names \cup {None}]
      /\ Live(oidcs') = Live(oidcs) \cup {o}
      /\ \A y \in Oidcs \ {o} : oidcs'[y] = oidcs[y]
  BY <1>1, OidcsPut, NothingIsNone DEF IInv
<1>3. TypeOK'
  BY <1>1, <1>2 DEF IInv, TypeOK, people, hosts, Ids
<1>4. oidcs[o] = None
  BY <1>1, Records DEF IInv, Issued
<1>5. OidcsAgree'
  <2>1. \A s \in Live(services) : services[s].oidc \in Oidcs \cup {None}
    BY Records, Fields DEF IInv
  <2> QED
    BY <1>1, <1>2, <1>4, <2>1 DEF IInv, RefsInv, OidcsAgree
<1>6. RefsInv'
  BY <1>1, <1>5, Frame DEF IInv, RefsInv, people, hosts
<1>7. Issued'
  BY <1>1, <1>2 DEF IInv, Issued, people, hosts
<1>8. RequestsInv'
  BY <1>1, RequestsStay
<1> QED
  BY <1>3, <1>6, <1>7, <1>8 DEF IInv

LEMMA WithOidcName ==
  ASSUME NEW x \in Service, NEW name \in Names, NEW y, y = [x EXCEPT !.oidcName = name]
  PROVE  /\ y \in Service
         /\ y.sub = x.sub /\ y.name = x.name /\ y.auth = x.auth /\ y.oidc = x.oidc
         /\ y.oidcName = name
BY DEF Service

LEMMA UpdateOidcStep ==
  ASSUME IInv, NEW o \in Oidcs, NEW name \in Names, UpdateOidc(o, name)
  PROVE  IInv'
<1>1. /\ oidcs[o] # None
      /\ oidcs' = [oidcs EXCEPT ![o] = name]
      /\ services' = [s \in Services |->
                        IF services[s] # None /\ services[s].oidc = o
                        THEN [services[s] EXCEPT !.oidcName = name] ELSE services[s]]
      /\ UNCHANGED <<subscriptions, routes, people, hosts, made, req>>
  BY DEF UpdateOidc
<1>2. /\ oidcs' \in [Oidcs -> Names \cup {None}]
      /\ Live(oidcs') = Live(oidcs) \cup {o}
      /\ oidcs'[o] = name /\ \A y \in Oidcs \ {o} : oidcs'[y] = oidcs[y]
  BY <1>1, OidcsPut, NothingIsNone DEF IInv
<1>3. ASSUME NEW s \in Live(services)
      PROVE  LET x == services[s]
                 y == services'[s]
             IN  /\ y \in Service /\ y # None
                 /\ y.sub = x.sub /\ y.name = x.name /\ y.auth = x.auth /\ y.oidc = x.oidc
                 /\ y.oidcName = IF x.oidc = o THEN name ELSE x.oidcName
  <2>1. s \in Services /\ services[s] # None /\ services[s] \in Service
    BY Records DEF IInv
  <2>2. CASE services[s].oidc = o
    <3>1. services'[s] = [services[s] EXCEPT !.oidcName = name]
      BY <1>1, <2>1, <2>2
    <3> QED
      BY <2>1, <2>2, <3>1, WithOidcName, NothingIsNone
  <2>3. CASE services[s].oidc # o
    <3>1. services'[s] = services[s]
      BY <1>1, <2>1, <2>3
    <3> QED
      BY <2>1, <2>3, <3>1
  <2> QED
    BY <2>2, <2>3
<1>4. \A s \in Services : s \notin Live(services) => services'[s] = None
  BY <1>1, Records DEF IInv
<1>5. services' \in [Services -> Service \cup {None}] /\ Live(services') = Live(services)
  <2>1. \A s \in Services : services'[s] \in Service \cup {None}
    BY <1>3, <1>4
  <2>2. services' = [s \in Services |-> services'[s]]
    BY <1>1
  <2>3. services' \in [Services -> Service \cup {None}]
    BY <2>1, <2>2
  <2>4. \A s : s \in Live(services') <=> s \in Services /\ services'[s] # None
    BY <2>3 DEF Live
  <2> QED
    BY <1>3, <1>4, <2>3, <2>4, Records DEF IInv
<1>6. TypeOK'
  BY <1>1, <1>2, <1>5 DEF IInv, TypeOK, people, hosts
<1>7. BindingsAgree'
  <2>1. ASSUME NEW s \in Live(services')
        PROVE  /\ subscriptions'[services'[s].sub] # None
               /\ subscriptions'[services'[s].sub] = [bound |-> s, name |-> services'[s].name]
    <3>1. services'[s].sub = services[s].sub /\ services'[s].name = services[s].name
      BY <1>3, <1>5
    <3> QED
      BY <1>1, <1>5, <3>1 DEF IInv, RefsInv, BindingsAgree
  <2>2. ASSUME NEW b \in Live(subscriptions'), subscriptions'[b].bound # None
        PROVE  /\ services'[subscriptions'[b].bound] # None
               /\ services'[subscriptions'[b].bound].sub = b
    <3> DEFINE s == subscriptions[b].bound
    <3>1. services[s] # None /\ services[s].sub = b /\ s \in Services
      BY <1>1, <2>2, Records, Fields DEF IInv, RefsInv, BindingsAgree
    <3>2. s \in Live(services)
      BY <3>1, Records DEF IInv
    <3> QED
      BY <1>1, <1>3, <3>1, <3>2
  <2> QED
    BY <2>1, <2>2 DEF BindingsAgree
<1>8. RoutesHaveService'
  <2>1. \A r \in Live(routes) : routes[r].svc \in Live(services)
    BY Records, Fields DEF IInv, RefsInv, RoutesHaveService
  <2> QED
    BY <1>1, <1>3, <2>1 DEF RoutesHaveService
<1>9. OidcsAgree'
  <2>1. ASSUME NEW s \in Live(services)
        PROVE  IF services'[s].oidc = None
               THEN services'[s].auth # "oidc" /\ services'[s].oidcName = None
               ELSE /\ oidcs'[services'[s].oidc] # None
                    /\ services'[s].oidcName = oidcs'[services'[s].oidc]
    <3>1. /\ services[s].oidc \in Oidcs \cup {None}
          /\ services'[s].oidc = services[s].oidc /\ services'[s].auth = services[s].auth
          /\ services'[s].oidcName = IF services[s].oidc = o THEN name ELSE services[s].oidcName
      BY <1>3, Records, Fields DEF IInv
    <3> QED
      BY <1>2, <3>1, NothingIsNone DEF IInv, RefsInv, OidcsAgree
  <2> QED
    BY <1>5, <2>1 DEF OidcsAgree
<1>10. RefsInv'
  BY <1>1, <1>7, <1>8, <1>9, Frame DEF IInv, RefsInv, people, hosts
<1>11. Issued'
  <2>1. o \in Live(oidcs)
    BY <1>1, Records DEF IInv
  <2>2. Live(oidcs') \subseteq made /\ Live(services') \subseteq made
    BY <1>2, <1>5, <2>1 DEF IInv, Issued
  <2> QED
    BY <1>1, <2>2 DEF IInv, Issued, people, hosts
<1>12. RequestsInv'
  BY <1>1, RequestsStay
<1> QED
  BY <1>6, <1>10, <1>11, <1>12 DEF IInv

LEMMA DeleteOidcStep ==
  ASSUME IInv, NEW o \in Oidcs, DeleteOidc(o)
  PROVE  IInv'
<1>1. /\ \A s \in Live(services) : services[s].oidc # o
      /\ oidcs' = [oidcs EXCEPT ![o] = None]
      /\ UNCHANGED <<subscriptions, services, routes, people, hosts, made, req>>
  BY DEF DeleteOidc
<1>2. /\ oidcs' \in [Oidcs -> Names \cup {None}]
      /\ Live(oidcs') = Live(oidcs) \ {o}
      /\ \A y \in Oidcs \ {o} : oidcs'[y] = oidcs[y]
  BY <1>1, OidcsPut DEF IInv
<1>3. TypeOK'
  BY <1>1, <1>2 DEF IInv, TypeOK, people, hosts
<1>4. OidcsAgree'
  <2>1. \A s \in Live(services) : services[s].oidc \in Oidcs \cup {None}
    BY Records, Fields DEF IInv
  <2> QED
    BY <1>1, <1>2, <2>1 DEF IInv, RefsInv, OidcsAgree
<1>5. RefsInv'
  BY <1>1, <1>4, Frame DEF IInv, RefsInv, people, hosts
<1>6. Issued'
  BY <1>1, <1>2 DEF IInv, Issued, people, hosts
<1>7. RequestsInv'
  BY <1>1, RequestsStay
<1> QED
  BY <1>3, <1>5, <1>6, <1>7 DEF IInv

-----------------------------------------------------------------------------
(* Routes *)

\* A list that is not None gives names of groups.
LEMMA ListTyped ==
  /\ None \in Acl
  /\ \A a \in Acl : a # None => DOMAIN a \in SUBSET Groups /\ a \in [DOMAIN a -> Names]
  /\ \A G \in SUBSET Groups : \A a \in [G -> Names] : a \in Acl /\ a # None
<1>1. \A a : a \in Acl <=> a = None \/ \E G \in SUBSET Groups : a \in [G -> Names]
  <2> DEFINE Lists == {[G -> Names] : G \in SUBSET Groups}
  <2>1. \A L : L \in Lists <=> \E G \in SUBSET Groups : L = [G -> Names]
    BY Zenon
  <2>2. \A a : a \in UNION Lists <=> \E L \in Lists : a \in L
    BY Zenon
  <2>3. Acl = (UNION Lists) \cup {None}
    BY DEF Acl
  <2>4. \A G \in SUBSET Groups : [G -> Names] \in Lists
    BY Zenon
  <2> HIDE DEF Lists
  <2>5. ASSUME NEW a \in Acl, a # None
        PROVE  \E G \in SUBSET Groups : a \in [G -> Names]
    <3> a \in UNION Lists
      BY <2>3, <2>5
    <3>1. PICK L \in Lists : a \in L
      BY <2>2, Zenon
    <3>2. PICK G \in SUBSET Groups : L = [G -> Names]
      BY <2>1, Zenon
    <3> QED
      BY <3>1, <3>2, Zenon
  <2>6. ASSUME NEW G \in SUBSET Groups, NEW a \in [G -> Names]
        PROVE  a \in Acl
    BY <2>2, <2>3, <2>4, Zenon
  <2>7. None \in Acl
    BY <2>3
  <2> QED
    BY <2>5, <2>6, <2>7
<1>2. \A a : \A G \in SUBSET Groups : a \in [G -> Names] =>
        DOMAIN a = G /\ a \in [DOMAIN a -> Names]
  OBVIOUS
<1>3. \A a \in Acl : a # None => DOMAIN a \in SUBSET Groups /\ a \in [DOMAIN a -> Names]
  <2> SUFFICES ASSUME NEW a \in Acl, a # None
               PROVE  DOMAIN a \in SUBSET Groups /\ a \in [DOMAIN a -> Names]
    OBVIOUS
  <2>1. PICK G \in SUBSET Groups : a \in [G -> Names]
    BY <1>1
  <2> QED
    BY <1>2, <2>1
<1>4. \A G \in SUBSET Groups : \A a \in [G -> Names] : a \in Acl /\ a # None
  BY <1>1, NoneAssumption
<1> QED
  BY <1>1, <1>3, <1>4

LEMMA CreateRouteStep ==
  ASSUME IInv, NEW r \in Routes, NEW s \in Services, NEW H \in SUBSET HostNames,
         CreateRoute(r, s, H)
  PROVE  IInv'
<1> DEFINE v == [svc |-> s, hosts |-> H, acl |-> None]
<1>1. /\ services[s] # None /\ Registered(H) /\ r \notin made /\ made' = made \cup {r}
      /\ routes' = [routes EXCEPT ![r] = v]
      /\ UNCHANGED <<subscriptions, services, oidcs, people, hosts, req>>
  BY DEF CreateRoute, Fresh
<1>2. v \in Route /\ v # None /\ v.svc = s /\ v.hosts = H /\ v.acl = None
  BY NothingIsNone, ListTyped DEF Route
<1> HIDE DEF v
<1>3. /\ routes' \in [Routes -> Route \cup {None}]
      /\ Live(routes') = Live(routes) \cup {r}
      /\ routes'[r] = v /\ \A y \in Routes \ {r} : routes'[y] = routes[y]
  BY <1>1, <1>2, RoutesPut DEF IInv
<1>4. TypeOK'
  BY <1>1, <1>3 DEF IInv, TypeOK, people, hosts, Ids
<1>5. \A x \in Live(routes) : x \in Routes \ {r}
  BY <1>1, Records DEF IInv, Issued
<1>6. RoutesHaveService'
  BY <1>1, <1>2, <1>3, <1>5 DEF IInv, RefsInv, RoutesHaveService
<1>7. HostsRegistered'
  BY <1>1, <1>2, <1>3, <1>5 DEF IInv, RefsInv, HostsRegistered, Registered, hosts
<1>8. ListsAgree'
  BY <1>1, <1>2, <1>3, <1>5 DEF IInv, RefsInv, ListsAgree, people
<1>9. RefsInv'
  BY <1>1, <1>6, <1>7, <1>8, Frame DEF IInv, RefsInv, people, hosts
<1>10. Issued'
  BY <1>1, <1>3 DEF IInv, Issued, people, hosts
<1>11. RequestsInv'
  BY <1>1, <1>3, RequestsStay
<1> QED
  BY <1>4, <1>9, <1>10, <1>11 DEF IInv

LEMMA WithHosts ==
  ASSUME NEW x \in Route, NEW H \in SUBSET HostNames, NEW y, y = [x EXCEPT !.hosts = H]
  PROVE  y \in Route /\ y.svc = x.svc /\ y.hosts = H /\ y.acl = x.acl
BY DEF Route

LEMMA WithList ==
  ASSUME NEW x \in Route, NEW a \in Acl, NEW y, y = [x EXCEPT !.acl = a]
  PROVE  y \in Route /\ y.svc = x.svc /\ y.hosts = x.hosts /\ y.acl = a
BY DEF Route

LEMMA UpdateRouteStep ==
  ASSUME IInv, NEW r \in Routes, NEW H \in SUBSET HostNames, UpdateRoute(r, H)
  PROVE  IInv'
<1> DEFINE v == [routes[r] EXCEPT !.hosts = H]
<1>1. /\ routes[r] # None /\ Registered(H)
      /\ routes' = [routes EXCEPT ![r] = v]
      /\ UNCHANGED <<subscriptions, services, oidcs, people, hosts, made, req>>
  BY DEF UpdateRoute
<1>2. r \in Live(routes) /\ routes[r] \in Route
  BY <1>1, Records DEF IInv
<1>3. /\ v \in Route /\ v # None
      /\ v.svc = routes[r].svc /\ v.hosts = H /\ v.acl = routes[r].acl
  BY <1>2, WithHosts, NothingIsNone
<1> HIDE DEF v
<1>4. /\ routes' \in [Routes -> Route \cup {None}]
      /\ Live(routes') = Live(routes)
      /\ routes'[r] = v /\ \A y \in Routes \ {r} : routes'[y] = routes[y]
  <2>1. Live(routes) \cup {r} = Live(routes)
    BY <1>2
  <2> QED
    BY <1>1, <1>3, <2>1, RoutesPut DEF IInv
<1>5. TypeOK'
  BY <1>1, <1>4 DEF IInv, TypeOK, people, hosts
<1>6. \A x \in Live(routes) : x \in Routes
  BY Records DEF IInv
<1>7. RoutesHaveService'
  BY <1>1, <1>2, <1>3, <1>4, <1>6 DEF IInv, RefsInv, RoutesHaveService
<1>8. HostsRegistered'
  BY <1>1, <1>3, <1>4, <1>6 DEF IInv, RefsInv, HostsRegistered, Registered, hosts
<1>9. ListsAgree'
  BY <1>1, <1>2, <1>3, <1>4, <1>6 DEF IInv, RefsInv, ListsAgree, people
<1>10. RefsInv'
  BY <1>1, <1>7, <1>8, <1>9, Frame DEF IInv, RefsInv, people, hosts
<1>11. Issued'
  BY <1>1, <1>4 DEF IInv, Issued, people, hosts
<1>12. RequestsInv'
  BY <1>1, <1>3, <1>4, RequestsStay
<1> QED
  BY <1>5, <1>10, <1>11, <1>12 DEF IInv

LEMMA DeleteRouteStep ==
  ASSUME IInv, NEW r \in Routes, DeleteRoute(r)
  PROVE  IInv'
<1>1. /\ routes' = [routes EXCEPT ![r] = None]
      /\ UNCHANGED <<subscriptions, services, oidcs, people, hosts, made, req>>
  BY DEF DeleteRoute
<1>2. /\ routes' \in [Routes -> Route \cup {None}]
      /\ Live(routes') = Live(routes) \ {r}
      /\ routes'[r] = None /\ \A y \in Routes \ {r} : routes'[y] = routes[y]
  BY <1>1, RoutesPut DEF IInv
<1>3. TypeOK'
  BY <1>1, <1>2 DEF IInv, TypeOK, people, hosts
<1>4. \A x \in Live(routes) : x \in Routes
  BY Records DEF IInv
<1>5. RoutesHaveService'
  BY <1>1, <1>2, <1>4 DEF IInv, RefsInv, RoutesHaveService
<1>6. HostsRegistered'
  BY <1>1, <1>2, <1>4 DEF IInv, RefsInv, HostsRegistered, Registered, hosts
<1>7. ListsAgree'
  BY <1>1, <1>2, <1>4 DEF IInv, RefsInv, ListsAgree, people
<1>8. RefsInv'
  BY <1>1, <1>5, <1>6, <1>7, Frame DEF IInv, RefsInv, people, hosts
<1>9. Issued'
  BY <1>1, <1>2 DEF IInv, Issued, people, hosts
<1>10. RequestsInv'
  BY <1>1, <1>2, RequestsStay
<1> QED
  BY <1>3, <1>8, <1>9, <1>10 DEF IInv

\* Only lists change.
LEMMA ListsChange ==
  ASSUME IInv, NEW map, map = routes',
         map \in [Routes -> Route \cup {None}],
         \A r \in Routes : map[r] # None <=> routes[r] # None,
         \A r \in Live(routes) : map[r].svc = routes[r].svc /\ map[r].hosts = routes[r].hosts,
         UNCHANGED <<services, domains, made, req>>
  PROVE  /\ Live(routes') = Live(routes)
         /\ RoutesHaveService' /\ HostsRegistered' /\ RequestsInv'
<1>1. \A r : r \in Live(routes) <=> r \in Routes /\ routes[r] # None
  BY Records DEF IInv
<1>2. Live(routes') = Live(routes)
  BY <1>1 DEF Live
<1>3. RoutesHaveService'
  BY <1>2 DEF IInv, RefsInv, RoutesHaveService
<1>4. HostsRegistered'
  BY <1>2 DEF IInv, RefsInv, HostsRegistered, Registered
<1>5. RequestsInv'
  BY <1>1, RequestsStay
<1> QED
  BY <1>2, <1>3, <1>4, <1>5

LEMMA SetRouteAuthorizationStep ==
  ASSUME IInv, NEW r \in Routes, NEW G \in SUBSET Groups, SetRouteAuthorization(r, G)
  PROVE  IInv'
<1> DEFINE a == IF G = {} THEN None ELSE [g \in G |-> groups[g]]
           v == [routes[r] EXCEPT !.acl = a]
<1>1. /\ routes[r] # None /\ G \subseteq Live(groups)
      /\ routes' = [routes EXCEPT ![r] = v]
      /\ UNCHANGED <<subscriptions, services, oidcs, people, hosts, made, req>>
  BY DEF SetRouteAuthorization
<1>2. \A g \in G : groups[g] # None /\ groups[g] \in Names
  BY <1>1, Records DEF IInv, TypeOK
<1>3. /\ a \in Acl
      /\ a # None => DOMAIN a = G /\ \A g \in G : a[g] = groups[g]
  <2>1. [g \in G |-> groups[g]] \in [G -> Names]
    BY <1>2
  <2> QED
    BY <2>1, ListTyped
<1> HIDE DEF a
<1>4. r \in Live(routes) /\ routes[r] \in Route
  BY <1>1, Records DEF IInv
<1>5. /\ v \in Route /\ v # None
      /\ v.svc = routes[r].svc /\ v.hosts = routes[r].hosts /\ v.acl = a
  BY <1>3, <1>4, WithList, NothingIsNone
<1> HIDE DEF v
<1>6. /\ routes' \in [Routes -> Route \cup {None}]
      /\ routes'[r] = v /\ \A y \in Routes \ {r} : routes'[y] = routes[y]
  BY <1>1, <1>5, RoutesPut DEF IInv
<1>7. \A x \in Live(routes) : x \in Routes
  BY Records DEF IInv
<1>8. Live(routes') = Live(routes) /\ RoutesHaveService' /\ HostsRegistered' /\ RequestsInv'
  <2>1. \A x \in Routes : routes'[x] # None <=> routes[x] # None
    BY <1>1, <1>5, <1>6
  <2>2. \A x \in Live(routes) :
          routes'[x].svc = routes[x].svc /\ routes'[x].hosts = routes[x].hosts
    BY <1>5, <1>6, <1>7
  <2>3. UNCHANGED <<services, domains, made, req>>
    BY <1>1 DEF hosts
  <2> QED
    BY <1>6, <2>1, <2>2, <2>3, ListsChange
<1>9. TypeOK'
  BY <1>1, <1>6 DEF IInv, TypeOK, people, hosts
<1>10. ListsAgree'
  BY <1>1, <1>2, <1>3, <1>5, <1>6, <1>7, <1>8 DEF IInv, RefsInv, ListsAgree, people
<1>11. RefsInv'
  BY <1>1, <1>8, <1>10, Frame DEF IInv, RefsInv, people, hosts
<1>12. Issued'
  BY <1>1, <1>8 DEF IInv, Issued, people, hosts
<1> QED
  BY <1>8, <1>9, <1>11, <1>12 DEF IInv

-----------------------------------------------------------------------------
(* Users *)

\* A user there is, or one just made, becomes v; its memberships are sound and
\* its credential is no other user's.
LEMMA UserStep ==
  ASSUME IInv, NEW u \in Users, NEW v \in User, v # None,
         users' = [users EXCEPT ![u] = v],
         v.groups \subseteq Live(groups),
         v.cred # None => \A x \in Live(users) \ {u} : users[x].cred # v.cred,
         u \in made', made \subseteq made', made' \subseteq Ids,
         UNCHANGED <<gateway, groups, hosts, req>>
  PROVE  IInv'
<1>1. UNCHANGED <<subscriptions, services, routes, oidcs, groups, domains, certificates, req>>
  BY DEF gateway, hosts
<1>2. /\ users' \in [Users -> User \cup {None}]
      /\ Live(users') = Live(users) \cup {u}
      /\ users'[u] = v /\ \A y \in Users \ {u} : users'[y] = users[y]
  BY UsersPut DEF IInv
<1>3. TypeOK'
  BY <1>1, <1>2 DEF IInv, TypeOK
<1>4. \A x \in Live(users) : x \in Users
  BY Records DEF IInv
<1>5. MembersSound'
  BY <1>1, <1>2, <1>4 DEF IInv, RefsInv, MembersSound
<1>6. CredentialsUnique'
  <2> SUFFICES ASSUME NEW x \in Live(users'), NEW y \in Live(users'),
                      users'[x].cred = users'[y].cred, users'[x].cred # None
               PROVE  x = y
    BY DEF CredentialsUnique
  <2>1. CASE x # u /\ y # u
    BY <1>2, <1>4, <2>1 DEF IInv, RefsInv, CredentialsUnique
  <2>2. CASE x = u \/ y = u
    BY <1>2, <1>4, <2>2
  <2> QED
    BY <2>1, <2>2
<1>7. RefsInv'
  BY <1>1, <1>5, <1>6, Frame DEF IInv, RefsInv
<1>8. Issued'
  BY <1>1, <1>2 DEF IInv, Issued
<1>9. RequestsInv'
  BY <1>1, RequestsStay
<1> QED
  BY <1>3, <1>7, <1>8, <1>9 DEF IInv

LEMMA CreateUserStep ==
  ASSUME IInv, NEW u \in Users, CreateUser(u)
  PROVE  IInv'
<1> DEFINE v == [cred |-> None, groups |-> {}]
<1>1. /\ made' = made \cup {u} /\ users' = [users EXCEPT ![u] = v]
      /\ UNCHANGED <<gateway, groups, hosts, req>>
  BY DEF CreateUser, Fresh
<1>2. v \in User /\ v # None /\ v.cred = None /\ v.groups = {}
  BY NothingIsNone DEF User
<1>3. made' \subseteq Ids
  BY <1>1 DEF IInv, TypeOK, Ids
<1> HIDE DEF v
<1> QED
  BY <1>1, <1>2, <1>3, UserStep

LEMMA DeleteUserStep ==
  ASSUME IInv, NEW u \in Users, DeleteUser(u)
  PROVE  IInv'
<1>1. /\ users' = [users EXCEPT ![u] = None]
      /\ UNCHANGED <<subscriptions, services, routes, oidcs, groups, domains, certificates,
                     made, req>>
  BY DEF DeleteUser, gateway, hosts
<1>2. /\ users' \in [Users -> User \cup {None}]
      /\ Live(users') = Live(users) \ {u}
      /\ \A y \in Users \ {u} : users'[y] = users[y]
  BY <1>1, UsersPut DEF IInv
<1>3. TypeOK'
  BY <1>1, <1>2 DEF IInv, TypeOK
<1>4. \A x \in Live(users') : x \in Live(users) /\ users'[x] = users[x]
  BY <1>2, Records DEF IInv
<1>5. MembersSound'
  BY <1>1, <1>4 DEF IInv, RefsInv, MembersSound
<1>6. CredentialsUnique'
  BY <1>4 DEF IInv, RefsInv, CredentialsUnique
<1>7. RefsInv'
  BY <1>1, <1>5, <1>6, Frame DEF IInv, RefsInv
<1>8. Issued'
  BY <1>1, <1>2 DEF IInv, Issued
<1>9. RequestsInv'
  BY <1>1, RequestsStay
<1> QED
  BY <1>3, <1>7, <1>8, <1>9 DEF IInv

LEMMA WithCredential ==
  ASSUME NEW x \in User, NEW cred \in Credentials, NEW y, y = [x EXCEPT !.cred = cred]
  PROVE  y \in User /\ y.cred = cred /\ y.groups = x.groups
BY DEF User

LEMMA WithGroups ==
  ASSUME NEW x \in User, NEW G \in SUBSET Groups, NEW y, y = [x EXCEPT !.groups = G]
  PROVE  y \in User /\ y.cred = x.cred /\ y.groups = G
BY DEF User

LEMMA UserThere ==
  ASSUME IInv, NEW u \in Users, users[u] # None
  PROVE  /\ u \in Live(users) /\ u \in made /\ made \subseteq Ids
         /\ users[u] \in User /\ users[u].groups \subseteq Live(groups)
         /\ Live(groups) \subseteq Groups
<1>1. u \in Live(users) /\ users[u] \in User
  BY Records DEF IInv
<1> QED
  BY <1>1, Records DEF IInv, TypeOK, Issued, RefsInv, MembersSound

LEMMA UpsertUserAuthenticationStep ==
  ASSUME IInv, NEW u \in Users, NEW cred \in Credentials, UpsertUserAuthentication(u, cred)
  PROVE  IInv'
<1> DEFINE v == [users[u] EXCEPT !.cred = cred]
<1>1. /\ users[u] # None /\ \A x \in Live(users) \ {u} : users[x].cred # cred
      /\ users' = [users EXCEPT ![u] = v]
      /\ UNCHANGED <<gateway, groups, hosts, made, req>>
  BY DEF UpsertUserAuthentication
<1>2. /\ u \in made /\ made \subseteq Ids
      /\ users[u] \in User /\ users[u].groups \subseteq Live(groups)
  BY <1>1, UserThere
<1>3. v \in User /\ v # None /\ v.cred = cred /\ v.groups = users[u].groups
  BY <1>2, WithCredential, NothingIsNone
<1> HIDE DEF v
<1> QED
  BY <1>1, <1>2, <1>3, UserStep

LEMMA AssignUserGroupStep ==
  ASSUME IInv, NEW u \in Users, NEW g \in Groups, NEW assigned \in BOOLEAN,
         AssignUserGroup(u, g, assigned)
  PROVE  IInv'
<1> DEFINE G == IF assigned THEN users[u].groups \cup {g} ELSE users[u].groups \ {g}
           v == [users[u] EXCEPT !.groups = G]
<1>1. /\ users[u] # None /\ groups[g] # None
      /\ users' = [users EXCEPT ![u] = v]
      /\ UNCHANGED <<gateway, groups, hosts, made, req>>
  BY DEF AssignUserGroup
<1>2. /\ u \in Live(users) /\ u \in made /\ made \subseteq Ids
      /\ users[u] \in User /\ users[u].groups \subseteq Live(groups)
      /\ Live(groups) \subseteq Groups
  BY <1>1, UserThere
<1>3. g \in Live(groups)
  BY <1>1, Records DEF IInv
<1>4. G \subseteq Live(groups) /\ G \in SUBSET Groups
  BY <1>2, <1>3
<1> HIDE DEF G
<1>5. v \in User /\ v # None /\ v.cred = users[u].cred /\ v.groups = G
  BY <1>2, <1>4, WithGroups, NothingIsNone
<1> HIDE DEF v
<1>6. v.cred # None => \A x \in Live(users) \ {u} : users[x].cred # v.cred
  BY <1>2, <1>5 DEF IInv, RefsInv, CredentialsUnique
<1> QED
  BY <1>1, <1>2, <1>4, <1>5, <1>6, UserStep

-----------------------------------------------------------------------------
(* Groups *)

LEMMA CreateGroupStep ==
  ASSUME IInv, NEW g \in Groups, NEW name \in Names, CreateGroup(g, name)
  PROVE  IInv'
<1>1. /\ g \notin made /\ made' = made \cup {g}
      /\ groups' = [groups EXCEPT ![g] = name]
      /\ UNCHANGED <<subscriptions, services, routes, oidcs, users, domains, certificates, req>>
  BY DEF CreateGroup, Fresh, gateway, hosts
<1>2. /\ groups' \in [Groups -> Names \cup {None}]
      /\ Live(groups') = Live(groups) \cup {g}
      /\ \A y \in Groups \ {g} : groups'[y] = groups[y]
  BY <1>1, GroupsPut, NothingIsNone DEF IInv
<1>3. TypeOK'
  BY <1>1, <1>2 DEF IInv, TypeOK, Ids
<1>4. groups[g] = None
  BY <1>1, Records DEF IInv, Issued
<1>5. MembersSound'
  BY <1>1, <1>2 DEF IInv, RefsInv, MembersSound
<1>6. ListsAgree'
  <2>1. ASSUME NEW r \in Live(routes), routes[r].acl # None, NEW k \in DOMAIN routes[r].acl
        PROVE  k \in Groups \ {g} /\ groups[k] # None /\ routes[r].acl[k] = groups[k]
    <3>1. routes[r].acl \in Acl
      BY Records, Fields DEF IInv
    <3>2. k \in Groups
      BY <2>1, <3>1, ListTyped
    <3> QED
      BY <1>4, <2>1, <3>2 DEF IInv, RefsInv, ListsAgree
  <2> QED
    BY <1>1, <1>2, <2>1 DEF ListsAgree
<1>7. RefsInv'
  BY <1>1, <1>5, <1>6, Frame DEF IInv, RefsInv
<1>8. Issued'
  BY <1>1, <1>2 DEF IInv, Issued
<1>9. RequestsInv'
  BY <1>1, RequestsStay
<1> QED
  BY <1>3, <1>7, <1>8, <1>9 DEF IInv

\* The list of a route, and what it has of the groups.
LEMMA ListThere ==
  ASSUME IInv, NEW r \in Live(routes), routes[r].acl # None
  PROVE  LET a == routes[r].acl
         IN  /\ DOMAIN a \in SUBSET Groups /\ a \in [DOMAIN a -> Names]
             /\ \A k \in DOMAIN a : k \in Live(groups) /\ a[k] = groups[k]
<1> DEFINE a == routes[r].acl
<1>1. a \in Acl
  BY Records, Fields DEF IInv
<1>2. DOMAIN a \in SUBSET Groups /\ a \in [DOMAIN a -> Names]
  BY <1>1, ListTyped
<1>3. \A k \in DOMAIN a : groups[k] # None /\ a[k] = groups[k]
  BY DEF IInv, RefsInv, ListsAgree
<1> QED
  BY <1>2, <1>3, Records DEF IInv

\* Every list that is there becomes the one L has for its route.
LEMMA ListsBecome ==
  ASSUME IInv, NEW L,
         routes' = [r \in Routes |->
                      IF routes[r] # None /\ routes[r].acl # None
                      THEN [routes[r] EXCEPT !.acl = L[r]] ELSE routes[r]],
         \A r \in Live(routes) : routes[r].acl # None => L[r] \in Acl /\ L[r] # None,
         UNCHANGED <<services, domains, made, req>>
  PROVE  /\ routes' \in [Routes -> Route \cup {None}]
         /\ \A r \in Live(routes) :
              IF routes[r].acl = None THEN routes'[r].acl = None ELSE routes'[r].acl = L[r]
         /\ Live(routes') = Live(routes)
         /\ RoutesHaveService' /\ HostsRegistered' /\ RequestsInv'
<1>1. ASSUME NEW r \in Live(routes)
      PROVE  LET x == routes[r]
                 y == routes'[r]
             IN  /\ y \in Route /\ y # None /\ y.svc = x.svc /\ y.hosts = x.hosts
                 /\ IF x.acl = None THEN y.acl = None ELSE y.acl = L[r]
  <2>1. r \in Routes /\ routes[r] # None /\ routes[r] \in Route
    BY Records DEF IInv
  <2>2. CASE routes[r].acl = None
    <3>1. routes'[r] = routes[r]
      BY <2>1, <2>2
    <3> QED
      BY <2>1, <2>2, <3>1
  <2>3. CASE routes[r].acl # None
    <3>1. routes'[r] = [routes[r] EXCEPT !.acl = L[r]]
      BY <2>1, <2>3
    <3>2. L[r] \in Acl
      BY <2>3
    <3> QED
      BY <2>1, <2>3, <3>1, <3>2, WithList, NothingIsNone
  <2> QED
    BY <2>2, <2>3
<1>2. \A r \in Routes : r \notin Live(routes) => routes'[r] = None /\ routes[r] = None
  BY Records DEF IInv
<1>3. routes' = [r \in Routes |-> routes'[r]]
  OBVIOUS
<1>4. \A r \in Routes : routes'[r] \in Route \cup {None}
  BY <1>1, <1>2
<1>5. routes' \in [Routes -> Route \cup {None}]
  BY <1>3, <1>4
<1>6. \A r \in Routes : routes'[r] # None <=> routes[r] # None
  BY <1>1, <1>2, Records DEF IInv
<1>7. \A r \in Live(routes) :
        routes'[r].svc = routes[r].svc /\ routes'[r].hosts = routes[r].hosts
  BY <1>1
<1> HIDE DEF Live
<1>8. Live(routes') = Live(routes) /\ RoutesHaveService' /\ HostsRegistered' /\ RequestsInv'
  BY <1>5, <1>6, <1>7, ListsChange
<1> QED
  BY <1>1, <1>5, <1>8

LEMMA UpdateGroupStep ==
  ASSUME IInv, NEW g \in Groups, NEW name \in Names, UpdateGroup(g, name)
  PROVE  IInv'
<1> DEFINE L == [r \in Routes |->
                   [k \in DOMAIN routes[r].acl |-> IF k = g THEN name ELSE routes[r].acl[k]]]
<1>1. /\ groups[g] # None
      /\ groups' = [groups EXCEPT ![g] = name]
      /\ routes' = [r \in Routes |->
                      IF routes[r] # None /\ routes[r].acl # None
                      THEN [routes[r] EXCEPT !.acl = L[r]] ELSE routes[r]]
      /\ UNCHANGED <<subscriptions, services, oidcs, users, domains, certificates, made, req>>
  BY DEF UpdateGroup, hosts
<1>2. /\ groups' \in [Groups -> Names \cup {None}]
      /\ Live(groups') = Live(groups)
      /\ groups'[g] = name /\ \A y \in Groups \ {g} : groups'[y] = groups[y]
  <2>1. Live(groups) \cup {g} = Live(groups)
    BY <1>1, Records DEF IInv
  <2> QED
    BY <1>1, <2>1, GroupsPut, NothingIsNone DEF IInv
<1>3. ASSUME NEW r \in Live(routes), routes[r].acl # None
      PROVE  /\ L[r] \in Acl /\ L[r] # None
             /\ \A k \in DOMAIN L[r] : k \in Live(groups') /\ L[r][k] = groups'[k]
  <2> DEFINE a == routes[r].acl
  <2>1. /\ DOMAIN a \in SUBSET Groups /\ a \in [DOMAIN a -> Names]
        /\ \A k \in DOMAIN a : k \in Live(groups) /\ a[k] = groups[k]
    BY <1>3, ListThere
  <2>2. L[r] = [k \in DOMAIN a |-> IF k = g THEN name ELSE a[k]]
    BY Records DEF IInv
  <2> HIDE DEF L, a
  <2>3. L[r] \in [DOMAIN a -> Names]
    BY <2>1, <2>2
  <2>4. L[r] \in Acl /\ L[r] # None
    BY <2>1, <2>3, ListTyped
  <2>5. \A k \in DOMAIN L[r] : k \in Live(groups') /\ L[r][k] = groups'[k]
    BY <1>2, <2>1, <2>2
  <2> QED
    BY <2>4, <2>5
<1> HIDE DEF L
<1>4. /\ routes' \in [Routes -> Route \cup {None}]
      /\ \A r \in Live(routes) :
           IF routes[r].acl = None THEN routes'[r].acl = None ELSE routes'[r].acl = L[r]
      /\ Live(routes') = Live(routes)
      /\ RoutesHaveService' /\ HostsRegistered' /\ RequestsInv'
  BY <1>1, <1>3, ListsBecome
<1>5. TypeOK'
  BY <1>1, <1>2, <1>4 DEF IInv, TypeOK
<1>6. ListsAgree'
  <2>1. \A k \in Live(groups') : groups'[k] # None
    BY DEF Live
  <2> QED
    BY <1>3, <1>4, <2>1 DEF ListsAgree
<1>7. MembersSound'
  BY <1>1, <1>2 DEF IInv, RefsInv, MembersSound
<1>8. RefsInv'
  BY <1>1, <1>4, <1>6, <1>7, Frame DEF IInv, RefsInv
<1>9. Issued'
  BY <1>1, <1>2, <1>4 DEF IInv, Issued
<1> QED
  BY <1>4, <1>5, <1>8, <1>9 DEF IInv

LEMMA DeleteGroupStep ==
  ASSUME IInv, NEW g \in Groups, DeleteGroup(g)
  PROVE  IInv'
<1> DEFINE L == [r \in Routes |->
                   [k \in DOMAIN routes[r].acl \ {g} |-> routes[r].acl[k]]]
<1>1. /\ groups' = [groups EXCEPT ![g] = None]
      /\ users' = [u \in Users |-> IF users[u] = None THEN None
                                   ELSE [users[u] EXCEPT !.groups = @ \ {g}]]
      /\ routes' = [r \in Routes |->
                      IF routes[r] # None /\ routes[r].acl # None
                      THEN [routes[r] EXCEPT !.acl = L[r]] ELSE routes[r]]
      /\ UNCHANGED <<subscriptions, services, oidcs, domains, certificates, made, req>>
  BY DEF DeleteGroup, WithoutGroup, hosts
<1>2. /\ groups' \in [Groups -> Names \cup {None}]
      /\ Live(groups') = Live(groups) \ {g}
      /\ \A y \in Groups \ {g} : groups'[y] = groups[y]
  BY <1>1, GroupsPut DEF IInv
<1>3. ASSUME NEW r \in Live(routes), routes[r].acl # None
      PROVE  /\ L[r] \in Acl /\ L[r] # None
             /\ \A k \in DOMAIN L[r] : k \in Live(groups') /\ L[r][k] = groups'[k]
  <2> DEFINE a == routes[r].acl
  <2>1. /\ DOMAIN a \in SUBSET Groups /\ a \in [DOMAIN a -> Names]
        /\ \A k \in DOMAIN a : k \in Live(groups) /\ a[k] = groups[k]
    BY <1>3, ListThere
  <2>2. L[r] = [k \in DOMAIN a \ {g} |-> a[k]]
    BY Records DEF IInv
  <2> HIDE DEF L, a
  <2>3. DOMAIN a \ {g} \in SUBSET Groups /\ L[r] \in [DOMAIN a \ {g} -> Names]
    BY <2>1, <2>2
  <2>4. L[r] \in Acl /\ L[r] # None
    BY <2>3, ListTyped
  <2>5. \A k \in DOMAIN L[r] : k \in Live(groups') /\ L[r][k] = groups'[k]
    BY <1>2, <2>1, <2>2
  <2> QED
    BY <2>4, <2>5
<1> HIDE DEF L
<1>4. /\ routes' \in [Routes -> Route \cup {None}]
      /\ \A r \in Live(routes) :
           IF routes[r].acl = None THEN routes'[r].acl = None ELSE routes'[r].acl = L[r]
      /\ Live(routes') = Live(routes)
      /\ RoutesHaveService' /\ HostsRegistered' /\ RequestsInv'
  BY <1>1, <1>3, ListsBecome
<1>5. ASSUME NEW u \in Live(users)
      PROVE  /\ users'[u] \in User /\ users'[u] # None
             /\ users'[u].cred = users[u].cred
             /\ users'[u].groups = users[u].groups \ {g}
  <2>1. u \in Users /\ users[u] # None /\ users[u] \in User
    BY Records DEF IInv
  <2>2. users'[u] = [users[u] EXCEPT !.groups = users[u].groups \ {g}]
    BY <1>1, <2>1
  <2>3. users[u].groups \ {g} \in SUBSET Groups
    BY <2>1, Fields
  <2> QED
    BY <2>1, <2>2, <2>3, WithGroups, NothingIsNone
<1>6. users' \in [Users -> User \cup {None}] /\ Live(users') = Live(users)
  <2>1. \A u \in Users : u \notin Live(users) => users'[u] = None
    BY <1>1, Records DEF IInv
  <2>2. \A u \in Users : users'[u] \in User \cup {None}
    BY <1>5, <2>1
  <2>3. users' = [u \in Users |-> users'[u]]
    BY <1>1
  <2>4. users' \in [Users -> User \cup {None}]
    BY <2>2, <2>3
  <2>5. \A u : u \in Live(users') <=> u \in Users /\ users'[u] # None
    BY <2>4 DEF Live
  <2> QED
    BY <1>5, <2>1, <2>4, <2>5, Records DEF IInv
<1>7. TypeOK'
  BY <1>1, <1>2, <1>4, <1>6 DEF IInv, TypeOK
<1>8. ListsAgree'
  <2>1. \A k \in Live(groups') : groups'[k] # None
    BY DEF Live
  <2> QED
    BY <1>3, <1>4, <2>1 DEF ListsAgree
<1>9. MembersSound'
  BY <1>2, <1>5, <1>6 DEF IInv, RefsInv, MembersSound
<1>10. CredentialsUnique'
  BY <1>5, <1>6 DEF IInv, RefsInv, CredentialsUnique
<1>11. RefsInv'
  BY <1>1, <1>4, <1>8, <1>9, <1>10, Frame DEF IInv, RefsInv
<1>12. Issued'
  BY <1>1, <1>2, <1>4, <1>6 DEF IInv, Issued
<1> QED
  BY <1>4, <1>7, <1>11, <1>12 DEF IInv

-----------------------------------------------------------------------------
(* Domains and certificates *)

\* A host that a route has stays registered when no domain of that host goes.
LEMMA HostsStay ==
  ASSUME IInv, UNCHANGED routes,
         \A r \in Live(routes) : \A d \in Live(domains) :
           domains[d].host \in routes[r].hosts =>
             d \in Live(domains') /\ domains'[d].host = domains[d].host
  PROVE  HostsRegistered'
<1> SUFFICES ASSUME NEW r \in Live(routes), NEW h \in routes[r].hosts
             PROVE  \E d \in Live(domains') : domains'[d].host = h
  BY DEF HostsRegistered, Registered
<1>1. PICK d \in Live(domains) : domains[d].host = h
  BY DEF IInv, RefsInv, HostsRegistered, Registered
<1> QED
  BY <1>1

LEMMA CreateDomainStep ==
  ASSUME IInv, NEW d \in Domains, NEW h \in HostNames, NEW c \in Certificates \cup {None},
         CreateDomain(d, h, c)
  PROVE  IInv'
<1> DEFINE v == [host |-> h, cert |-> c, certName |-> CertNameOf(c)]
<1>1. /\ c # None => certificates[c] # None
      /\ d \notin made /\ made' = made \cup {d}
      /\ domains' = [domains EXCEPT ![d] = v]
      /\ UNCHANGED <<subscriptions, services, routes, oidcs, people, certificates, req>>
  BY DEF CreateDomain, Fresh, gateway
<1>2. CertNameOf(c) \in Names \cup {None} /\ (c # None => CertNameOf(c) = certificates[c])
  BY DEF CertNameOf, IInv, TypeOK
<1>3. v \in Domain /\ v # None /\ v.cert = c /\ v.certName = CertNameOf(c)
  BY <1>2, NothingIsNone DEF Domain
<1> HIDE DEF v
<1>4. /\ domains' \in [Domains -> Domain \cup {None}]
      /\ Live(domains') = Live(domains) \cup {d}
      /\ domains'[d] = v /\ \A y \in Domains \ {d} : domains'[y] = domains[y]
  BY <1>1, <1>3, DomainsPut DEF IInv
<1>5. TypeOK'
  BY <1>1, <1>4 DEF IInv, TypeOK, people, Ids
<1>6. \A x \in Live(domains) : x \in Domains \ {d}
  BY <1>1, Records DEF IInv, Issued
<1>7. HostsRegistered'
  BY <1>1, <1>4, <1>6, HostsStay
<1>8. CertificatesAgree'
  <2>1. c # None => c \in made
    BY <1>1, Records DEF IInv, Issued
  <2> QED
    BY <1>1, <1>2, <1>3, <1>4, <1>6, <2>1 DEF IInv, RefsInv, CertificatesAgree
<1>9. RefsInv'
  BY <1>1, <1>7, <1>8, Frame DEF IInv, RefsInv, people
<1>10. Issued'
  BY <1>1, <1>4 DEF IInv, Issued, people
<1>11. RequestsInv'
  BY <1>1, RequestsStay
<1> QED
  BY <1>5, <1>9, <1>10, <1>11 DEF IInv

LEMMA WithCertificate ==
  ASSUME NEW x \in Domain, NEW c, NEW n
  PROVE  [x EXCEPT !.cert = c, !.certName = n] = [host |-> x.host, cert |-> c, certName |-> n]
<1> DEFINE y == [x EXCEPT !.cert = c, !.certName = n]
<1>1. y = [x EXCEPT !.cert = c, !.certName = n]
  OBVIOUS
<1> HIDE DEF y
<1>2. y = [host |-> x.host, cert |-> c, certName |-> n]
  BY <1>1 DEF Domain
<1> QED
  BY <1>2 DEF y

LEMMA UpdateDomainStep ==
  ASSUME IInv, NEW d \in Domains, NEW c \in Certificates \cup {None}, UpdateDomain(d, c)
  PROVE  IInv'
<1> DEFINE n == IF c # None /\ certificates[c] = None THEN domains[d].certName
                ELSE CertNameOf(c)
           v == [host |-> domains[d].host, cert |-> c, certName |-> n]
<1>1. /\ domains[d] # None /\ c \in made \cup {None}
      /\ domains' = [domains EXCEPT ![d].cert = c,
                       ![d].certName = IF c # None /\ certificates[c] = None
                                       THEN @ ELSE CertNameOf(c)]
      /\ UNCHANGED <<subscriptions, services, routes, oidcs, people, certificates, made, req>>
  BY DEF UpdateDomain, gateway
<1>2. d \in Live(domains) /\ domains[d] \in Domain
  BY <1>1, Records DEF IInv
<1>3. /\ n \in Names \cup {None}
      /\ c # None /\ certificates[c] # None => n = certificates[c]
  <2>1. certificates \in [Certificates -> Names \cup {None}] /\ domains[d].certName \in Names \cup {None}
    BY <1>2, Fields DEF IInv, TypeOK
  <2> QED
    BY <2>1 DEF CertNameOf
<1>4. domains' = [domains EXCEPT ![d] = v]
  <2>1. domains' = [domains EXCEPT ![d] = [domains[d] EXCEPT !.cert = c, !.certName = n]]
    BY <1>1, <1>2
  <2>2. [domains[d] EXCEPT !.cert = c, !.certName = n] = v
    <3>1. domains[d] \in Domain
      BY <1>2
    <3> HIDE DEF n
    <3> QED
      BY <3>1, WithCertificate, Zenon
  <2> QED
    BY <2>1, <2>2
<1> HIDE DEF n
<1>5. /\ v \in Domain /\ v # None
      /\ v.host = domains[d].host /\ v.cert = c /\ v.certName = n
  BY <1>2, <1>3, Fields, NothingIsNone DEF Domain
<1> HIDE DEF v
<1>6. /\ domains' \in [Domains -> Domain \cup {None}]
      /\ Live(domains') = Live(domains)
      /\ domains'[d] = v /\ \A y \in Domains \ {d} : domains'[y] = domains[y]
  <2>1. Live(domains) \cup {d} = Live(domains)
    BY <1>2
  <2> QED
    BY <1>4, <1>5, <2>1, DomainsPut DEF IInv
<1>7. TypeOK'
  BY <1>1, <1>6 DEF IInv, TypeOK, people
<1>8. \A x \in Live(domains) : x \in Domains
  BY Records DEF IInv
<1>9. HostsRegistered'
  BY <1>1, <1>5, <1>6, <1>8, HostsStay
<1>10. CertificatesAgree'
  <2>1. UNCHANGED <<made, certificates>> /\ (c # None => c \in made)
    BY <1>1
  <2> QED
    BY <1>3, <1>5, <1>6, <1>8, <2>1 DEF IInv, RefsInv, CertificatesAgree
<1>11. RefsInv'
  BY <1>1, <1>9, <1>10, Frame DEF IInv, RefsInv, people
<1>12. Issued'
  BY <1>1, <1>6 DEF IInv, Issued, people
<1>13. RequestsInv'
  BY <1>1, RequestsStay
<1> QED
  BY <1>7, <1>11, <1>12, <1>13 DEF IInv

LEMMA DeleteDomainStep ==
  ASSUME IInv, NEW d \in Domains, DeleteDomain(d)
  PROVE  IInv'
<1>1. /\ \A r \in Live(routes) : domains[d].host \notin routes[r].hosts
      /\ domains' = [domains EXCEPT ![d] = None]
      /\ UNCHANGED <<subscriptions, services, routes, oidcs, people, certificates, made, req>>
  BY DEF DeleteDomain, gateway
<1>2. /\ domains' \in [Domains -> Domain \cup {None}]
      /\ Live(domains') = Live(domains) \ {d}
      /\ \A y \in Domains \ {d} : domains'[y] = domains[y]
  BY <1>1, DomainsPut DEF IInv
<1>3. TypeOK'
  BY <1>1, <1>2 DEF IInv, TypeOK, people
<1>4. \A x \in Live(domains) : x \in Domains
  BY Records DEF IInv
<1>5. HostsRegistered'
  BY <1>1, <1>2, <1>4, HostsStay
<1>6. CertificatesAgree'
  BY <1>1, <1>2, <1>4 DEF IInv, RefsInv, CertificatesAgree
<1>7. RefsInv'
  BY <1>1, <1>5, <1>6, Frame DEF IInv, RefsInv, people
<1>8. Issued'
  BY <1>1, <1>2 DEF IInv, Issued, people
<1>9. RequestsInv'
  BY <1>1, RequestsStay
<1> QED
  BY <1>3, <1>7, <1>8, <1>9 DEF IInv

\* No domain names a certificate that is not made yet, though it may name one
\* that was deleted.
LEMMA CreateCertificateStep ==
  ASSUME IInv, NEW c \in Certificates, NEW name \in Names, CreateCertificate(c, name)
  PROVE  IInv'
<1>1. /\ c \notin made /\ made' = made \cup {c}
      /\ certificates' = [certificates EXCEPT ![c] = name]
      /\ UNCHANGED <<subscriptions, services, routes, oidcs, people, domains, req>>
  BY DEF CreateCertificate, Fresh, gateway
<1>2. /\ certificates' \in [Certificates -> Names \cup {None}]
      /\ Live(certificates') = Live(certificates) \cup {c}
      /\ \A y \in Certificates \ {c} : certificates'[y] = certificates[y]
  BY <1>1, CertificatesPut, NothingIsNone DEF IInv
<1>3. TypeOK'
  BY <1>1, <1>2 DEF IInv, TypeOK, people, Ids
<1>4. CertificatesAgree'
  <2>1. \A d \in Live(domains) : domains[d].cert \in Certificates \cup {None}
    BY Records, Fields DEF IInv
  <2> QED
    BY <1>1, <1>2, <2>1 DEF IInv, RefsInv, CertificatesAgree
<1>5. RefsInv'
  BY <1>1, <1>4, Frame DEF IInv, RefsInv, people
<1>6. Issued'
  BY <1>1, <1>2 DEF IInv, Issued, people
<1>7. RequestsInv'
  BY <1>1, RequestsStay
<1> QED
  BY <1>3, <1>5, <1>6, <1>7 DEF IInv

LEMMA WithCertificateName ==
  ASSUME NEW x \in Domain, NEW n \in Names, NEW y, y = [x EXCEPT !.certName = n]
  PROVE  y \in Domain /\ y.host = x.host /\ y.cert = x.cert /\ y.certName = n
BY DEF Domain

LEMMA UpdateCertificateStep ==
  ASSUME IInv, NEW c \in Certificates, NEW name \in Names, UpdateCertificate(c, name)
  PROVE  IInv'
<1>1. /\ certificates[c] # None
      /\ certificates' = [certificates EXCEPT ![c] = name]
      /\ domains' = [d \in Domains |->
                       IF domains[d] # None /\ domains[d].cert = c
                       THEN [domains[d] EXCEPT !.certName = name] ELSE domains[d]]
      /\ UNCHANGED <<subscriptions, services, routes, oidcs, people, made, req>>
  BY DEF UpdateCertificate, gateway
<1>2. /\ certificates' \in [Certificates -> Names \cup {None}]
      /\ Live(certificates') = Live(certificates)
      /\ certificates'[c] = name
      /\ \A y \in Certificates \ {c} : certificates'[y] = certificates[y]
  <2>1. Live(certificates) \cup {c} = Live(certificates)
    BY <1>1, Records DEF IInv
  <2> QED
    BY <1>1, <2>1, CertificatesPut, NothingIsNone DEF IInv
<1>3. ASSUME NEW d \in Live(domains)
      PROVE  LET x == domains[d]
                 y == domains'[d]
             IN  /\ y \in Domain /\ y # None /\ y.host = x.host /\ y.cert = x.cert
                 /\ y.certName = IF x.cert = c THEN name ELSE x.certName
  <2>1. d \in Domains /\ domains[d] # None /\ domains[d] \in Domain
    BY Records DEF IInv
  <2>2. CASE domains[d].cert = c
    <3>1. domains'[d] = [domains[d] EXCEPT !.certName = name]
      BY <1>1, <2>1, <2>2
    <3> QED
      BY <2>1, <2>2, <3>1, WithCertificateName, NothingIsNone
  <2>3. CASE domains[d].cert # c
    <3>1. domains'[d] = domains[d]
      BY <1>1, <2>1, <2>3
    <3> QED
      BY <2>1, <2>3, <3>1
  <2> QED
    BY <2>2, <2>3
<1>4. domains' \in [Domains -> Domain \cup {None}] /\ Live(domains') = Live(domains)
  <2>1. \A d \in Domains : d \notin Live(domains) => domains'[d] = None
    BY <1>1, Records DEF IInv
  <2>2. \A d \in Domains : domains'[d] \in Domain \cup {None}
    BY <1>3, <2>1
  <2>3. domains' = [d \in Domains |-> domains'[d]]
    BY <1>1
  <2>4. domains' \in [Domains -> Domain \cup {None}]
    BY <2>2, <2>3
  <2>5. \A d : d \in Live(domains') <=> d \in Domains /\ domains'[d] # None
    BY <2>4 DEF Live
  <2> QED
    BY <1>3, <2>1, <2>4, <2>5, Records DEF IInv
<1>5. TypeOK'
  BY <1>1, <1>2, <1>4 DEF IInv, TypeOK, people
<1>6. HostsRegistered'
  BY <1>1, <1>3, <1>4, HostsStay
<1>7. CertificatesAgree'
  <2>1. ASSUME NEW d \in Live(domains), domains'[d].cert # None
        PROVE  /\ domains'[d].cert \in made
               /\ certificates'[domains'[d].cert] # None =>
                    domains'[d].certName = certificates'[domains'[d].cert]
    <3>1. /\ domains'[d].cert = domains[d].cert /\ domains[d].cert \in Certificates
          /\ domains'[d].certName = IF domains[d].cert = c THEN name ELSE domains[d].certName
      BY <1>3, <2>1, Records, Fields DEF IInv
    <3> QED
      BY <1>2, <2>1, <3>1 DEF IInv, RefsInv, CertificatesAgree
  <2> QED
    BY <1>1, <1>4, <2>1 DEF CertificatesAgree
<1>8. RefsInv'
  BY <1>1, <1>6, <1>7, Frame DEF IInv, RefsInv, people
<1>9. Issued'
  BY <1>1, <1>2, <1>4 DEF IInv, Issued, people
<1>10. RequestsInv'
  BY <1>1, RequestsStay
<1> QED
  BY <1>5, <1>8, <1>9, <1>10 DEF IInv

LEMMA DeleteCertificateStep ==
  ASSUME IInv, NEW c \in Certificates, DeleteCertificate(c)
  PROVE  IInv'
<1>1. /\ \A d \in Live(domains) : domains[d].cert # c
      /\ certificates' = [certificates EXCEPT ![c] = None]
      /\ UNCHANGED <<subscriptions, services, routes, oidcs, people, domains, made, req>>
  BY DEF DeleteCertificate, gateway
<1>2. /\ certificates' \in [Certificates -> Names \cup {None}]
      /\ Live(certificates') = Live(certificates) \ {c}
      /\ \A y \in Certificates \ {c} : certificates'[y] = certificates[y]
  BY <1>1, CertificatesPut DEF IInv
<1>3. TypeOK'
  BY <1>1, <1>2 DEF IInv, TypeOK, people
<1>4. CertificatesAgree'
  <2>1. \A d \in Live(domains) : domains[d].cert \in Certificates \cup {None}
    BY Records, Fields DEF IInv
  <2> QED
    BY <1>1, <1>2, <2>1 DEF IInv, RefsInv, CertificatesAgree
<1>5. RefsInv'
  BY <1>1, <1>4, Frame DEF IInv, RefsInv, people
<1>6. Issued'
  BY <1>1, <1>2 DEF IInv, Issued, people
<1>7. RequestsInv'
  BY <1>1, RequestsStay
<1> QED
  BY <1>3, <1>5, <1>6, <1>7 DEF IInv

-----------------------------------------------------------------------------
(* Requests *)

\* A step of one request reads the store and does not change it.
LEMMA RequestStep ==
  ASSUME IInv, NEW q \in Requests, NEW v \in Request \cup {None},
         req' = [req EXCEPT ![q] = v], UNCHANGED store,
         v # None => /\ v.route \in made
                     /\ routes[v.route] # None => routes[v.route].svc = v.svc
  PROVE  IInv'
<1>1. UNCHANGED <<subscriptions, services, routes, oidcs, users, groups, domains, certificates, made>>
  BY DEF store, gateway, people, hosts
<1>2. req \in [Requests -> Request \cup {None}]
  BY DEF IInv, TypeOK
<1>3. /\ req' \in [Requests -> Request \cup {None}]
      /\ req'[q] = v /\ \A p \in Requests \ {q} : req'[p] = req[p]
  BY <1>2
<1>4. TypeOK'
  BY <1>1, <1>3 DEF IInv, TypeOK
<1>5. RefsInv'
  BY <1>1, Frame DEF IInv, RefsInv
<1>6. Issued'
  BY <1>1 DEF IInv, Issued
<1>7. RequestsInv'
  BY <1>1, <1>3 DEF IInv, RequestsInv, RequestInv
<1> QED
  BY <1>4, <1>5, <1>6, <1>7 DEF IInv

LEMMA MatchStep ==
  ASSUME IInv, NEW q \in Requests, NEW r \in Routes, Match(q, r)
  PROVE  IInv'
<1> DEFINE v == [route |-> r, svc |-> routes[r].svc, acl |-> routes[r].acl, auth |-> "unread"]
<1>1. routes[r] # None /\ req' = [req EXCEPT ![q] = v] /\ UNCHANGED store
  BY DEF Match
<1>2. r \in Live(routes) /\ r \in made /\ routes[r].svc \in Services /\ routes[r].acl \in Acl
  BY <1>1, Records, Fields DEF IInv, Issued
<1>3. v \in Request /\ v.route = r /\ v.svc = routes[r].svc
  BY <1>2 DEF Request
<1> HIDE DEF v
<1> QED
  BY <1>1, <1>2, <1>3, RequestStep

LEMMA WithAuth ==
  ASSUME NEW x \in Request, NEW auth \in {"none", "user", "oidc"}, NEW y,
         y = [x EXCEPT !.auth = auth]
  PROVE  y \in Request /\ y.route = x.route /\ y.svc = x.svc
BY DEF Request

LEMMA GetServiceStep ==
  ASSUME IInv, NEW q \in Requests, GetService(q)
  PROVE  IInv'
<1> DEFINE s == req[q].svc
           w == [req[q] EXCEPT !.auth = services[s].auth]
           v == IF services[s] = None THEN None ELSE w
<1>1. req[q] # None /\ req' = [req EXCEPT ![q] = v] /\ UNCHANGED store
  BY DEF GetService
<1>2. req[q] \in Request /\ s \in Services
  BY <1>1 DEF IInv, TypeOK, Request
<1>3. CASE services[s] = None
  BY <1>1, <1>3, RequestStep
<1>4. CASE services[s] # None
  <2>1. services[s].auth \in {"none", "user", "oidc"}
    BY <1>2, <1>4, Records, Fields DEF IInv
  <2>2. w \in Request /\ w.route = req[q].route /\ w.svc = s
    BY <1>2, <2>1, WithAuth
  <2>3. req' = [req EXCEPT ![q] = w]
    BY <1>1, <1>4
  <2>4. /\ req[q].route \in made
        /\ routes[req[q].route] # None => routes[req[q].route].svc = s
    BY <1>1 DEF IInv, RequestsInv, RequestInv
  <2>5. w.route \in made /\ (routes[w.route] # None => routes[w.route].svc = w.svc)
    BY <2>2, <2>4
  <2> HIDE DEF w
  <2> QED
    BY <1>1, <2>2, <2>3, <2>5, RequestStep
<1> QED
  BY <1>3, <1>4

LEMMA AnsweredStep ==
  ASSUME IInv, NEW q \in Requests, req' = [req EXCEPT ![q] = None], UNCHANGED store
  PROVE  IInv'
BY RequestStep

-----------------------------------------------------------------------------
(* Invariance *)

LEMMA InitOK == Init => IInv
<1> SUFFICES ASSUME Init
             PROVE  IInv
  OBVIOUS
<1>1. /\ subscriptions = [b \in Subscriptions |-> None] /\ services = [s \in Services |-> None]
      /\ routes = [r \in Routes |-> None] /\ oidcs = [o \in Oidcs |-> None]
      /\ users = [u \in Users |-> None] /\ groups = [g \in Groups |-> None]
      /\ domains = [d \in Domains |-> None] /\ certificates = [c \in Certificates |-> None]
      /\ made = {} /\ req = [q \in Requests |-> None]
  BY DEF Init
<1>2. TypeOK
  BY <1>1 DEF TypeOK
<1>3. /\ Live(subscriptions) = {} /\ Live(services) = {} /\ Live(routes) = {} /\ Live(oidcs) = {}
      /\ Live(users) = {} /\ Live(groups) = {} /\ Live(domains) = {} /\ Live(certificates) = {}
  BY <1>1 DEF Live
<1>4. RefsInv
  BY <1>3 DEF RefsInv, BindingsAgree, RoutesHaveService, HostsRegistered, OidcsAgree,
              MembersSound, ListsAgree, CertificatesAgree, CredentialsUnique
<1>5. Issued
  BY <1>3 DEF Issued
<1>6. RequestsInv
  BY <1>1 DEF RequestsInv, RequestInv
<1> QED
  BY <1>2, <1>4, <1>5, <1>6 DEF IInv

LEMMA StepOK == IInv /\ [Next]_vars => IInv'
<1> SUFFICES ASSUME IInv, [Next]_vars
             PROVE  IInv'
  OBVIOUS
<1>1. CASE ServiceOps
  BY <1>1, CreateSubscriptionStep, DeleteSubscriptionStep, CreateServiceStep,
     UpdateServiceStep, DeleteServiceStep, CreateOidcStep, UpdateOidcStep, DeleteOidcStep,
     Zenon DEF ServiceOps
<1>2. CASE RouteOps
  BY <1>2, CreateRouteStep, UpdateRouteStep, DeleteRouteStep, SetRouteAuthorizationStep,
     Zenon DEF RouteOps
<1>3. CASE UserOps
  BY <1>3, CreateUserStep, DeleteUserStep, UpsertUserAuthenticationStep, AssignUserGroupStep,
     CreateGroupStep, UpdateGroupStep, DeleteGroupStep, Zenon DEF UserOps
<1>4. CASE DomainOps
  BY <1>4, CreateDomainStep, UpdateDomainStep, DeleteDomainStep, CreateCertificateStep,
     UpdateCertificateStep, DeleteCertificateStep, Zenon DEF DomainOps
<1>5. CASE DataPlane
  BY <1>5, MatchStep, GetServiceStep, AnsweredStep, Zenon DEF DataPlane, Admit, Refuse
<1>6. CASE UNCHANGED vars
  <2>1. UNCHANGED store /\ UNCHANGED req
    BY <1>6 DEF vars
  <2>2. UNCHANGED <<subscriptions, services, routes, oidcs, users, groups, domains, certificates, made>>
    BY <2>1 DEF store, gateway, people, hosts
  <2>3. TypeOK'
    BY <2>1, <2>2 DEF IInv, TypeOK
  <2>4. RefsInv'
    BY <2>2, Frame DEF IInv, RefsInv
  <2>5. Issued'
    BY <2>2 DEF IInv, Issued
  <2>6. RequestsInv'
    BY <2>1, <2>2, RequestsStay
  <2> QED
    BY <2>3, <2>4, <2>5, <2>6 DEF IInv
<1> QED
  BY <1>1, <1>2, <1>3, <1>4, <1>5, <1>6 DEF Next

LEMMA Invariance == Spec => []IInv
BY InitOK, StepOK, PTL DEF Spec

\* Every record of the store has the fields of its kind, and every request in
\* flight has read what it should.
THEOREM TypeCorrect == Spec => []TypeOK
<1>1. IInv => TypeOK
  BY DEF IInv
<1> QED
  BY <1>1, Invariance, PTL

\* What a record refers to is there and is its own, and the names the store
\* copied are the names still, after every rename, cascade and refused request.
THEOREM ReferencesStaySound == Spec => []ReferencesSound
<1>1. IInv => ReferencesSound
  <2> SUFFICES ASSUME IInv
               PROVE  ReferencesSound
    OBVIOUS
  <2>1. RoutesServed
    BY DEF IInv, RefsInv, RoutesHaveService, HostsRegistered, OidcsAgree, RoutesServed
  <2>2. MembershipsSound
    <3>1. \A r \in Live(routes) :
            routes[r].acl # None => DOMAIN routes[r].acl \subseteq Live(groups)
      BY ListThere
    <3> QED
      BY <3>1 DEF IInv, RefsInv, MembersSound, MembershipsSound
  <2>3. NamesInSync
    <3>1. \A d \in Live(domains) : domains[d].cert \in Live(certificates) =>
            domains[d].cert # None /\ certificates[domains[d].cert] # None
      BY Records, NothingIsNone DEF IInv
    <3> QED
      BY <3>1 DEF IInv, RefsInv, ListsAgree, OidcsAgree, CertificatesAgree, NamesInSync,
                  OidcNameOf
  <2> QED
    BY <2>1, <2>2, <2>3 DEF IInv, RefsInv, ReferencesSound
<1> QED
  BY <1>1, Invariance, PTL

\* A request that has matched a route gets no Bad Gateway while the route is
\* there, whatever is deleted and made between its reads of the store: the
\* service of a route cannot be deleted before it, and the ID of neither is
\* issued again.
THEOREM BadGatewayExplained == Spec => []BadGatewayOnlyIfGone
<1>1. IInv => BadGatewayOnlyIfGone
  <2> SUFFICES ASSUME IInv, NEW q \in Requests, req[q] # None, services[req[q].svc] = None
               PROVE  routes[req[q].route] = None
    BY DEF BadGatewayOnlyIfGone
  <2>1. req[q].route \in Routes
    BY DEF IInv, TypeOK, Request
  <2>2. routes[req[q].route] # None => routes[req[q].route].svc = req[q].svc
    BY DEF IInv, RequestsInv, RequestInv
  <2> QED
    BY <2>1, <2>2, Records DEF IInv, RefsInv, RoutesHaveService
<1> QED
  BY <1>1, Invariance, PTL

\* Whoever a list admits is a member, at that moment, of a group on it that is
\* there, though the list was read when the route matched.
THEOREM AdmittedAsMember == Spec => AdmittedByLiveGroup
<1>1. IInv => \A q \in Requests : \A u \in Users :
                Admit(q, u) /\ req[q].acl # None /\ req[q].auth = "user"
                  => \E g \in DOMAIN req[q].acl : groups[g] # None /\ g \in users[u].groups
  <2> SUFFICES ASSUME IInv, NEW q \in Requests, NEW u \in Users,
                      Admit(q, u), req[q].acl # None, req[q].auth = "user"
               PROVE  \E g \in DOMAIN req[q].acl : groups[g] # None /\ g \in users[u].groups
    OBVIOUS
  <2>1. users[u] # None /\ DOMAIN req[q].acl \cap users[u].groups # {}
    BY NothingIsNone DEF Admit, Allows
  <2>2. users[u].groups \subseteq Live(groups)
    BY <2>1, UserThere
  <2>3. PICK g \in DOMAIN req[q].acl : g \in users[u].groups
    BY <2>1
  <2> QED
    BY <2>2, <2>3, Records DEF IInv
<1> QED
  BY <1>1, Invariance, PTL DEF AdmittedByLiveGroup, Spec
=============================================================================
