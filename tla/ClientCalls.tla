----------------------------- MODULE ClientCalls -----------------------------
(***************************************************************************)
(* What the methods of the clients ask of HttpClient, as a table, and what *)
(* the sharing of calls does with it.  Two calls of one URL may be served  *)
(* by one request: memoization and the caches compare cacheKey, the single *)
(* flight compares the inflightKey of each method.  The table says, for    *)
(* every method, which of its arguments reach the URL, the parameters, and *)
(* nothing but headers or the handling of the answer ("extras").           *)
(*                                                                         *)
(* Arguments have the values 1 and 2.  Headers and parameters that are the *)
(* same in all calls of a method are left out, and so are the bodies of    *)
(* writes, which nothing compares.  How flights and memoized calls fail    *)
(* and are cancelled is the matter of SharedCalls.                         *)
(***************************************************************************)
EXTENDS Naturals, FiniteSets

CONSTANT Calls    \* 1..2: what two calls share is told by the keys of the two

-----------------------------------------------------------------------------
(* HttpClient's verbs.  Of fills in the client and its baseURL, as a host and  *)
(* the part of the URL that follows it; "url" is all that follows the host.    *)

Method(verb, name, url, path, params) ==
    [verb |-> verb, name |-> name, url |-> url, path |-> path, params |-> params,
     extras |-> {}, key |-> "none", type |-> "json", memoizable |-> FALSE,
     cacheable |-> {}, checked |-> FALSE, client |-> "", host |-> "", prefix |-> ""]

Get(name, url, path, params) ==
    [Method("get", name, url, path, params) EXCEPT
        !.memoizable = TRUE, !.cacheable = {"memory"}]
Buffer(name, url, path) ==
    [Method("get", name, url, path, {}) EXCEPT
        !.type = "arraybuffer", !.cacheable = {"disk"}]
Stream(name, url, path, params) ==
    [Method("get", name, url, path, params) EXCEPT !.type = "stream"]
Write(verb, name, url, path, params) == Method(verb, name, url, path, params)

\* The rest of a method's config: inflightKey, cacheable, arguments that become
\* headers or nullIfNotFound, a check of the arguments that may throw.
ByURL(m) == [m EXCEPT !.key = "url"]
ByQuery(m) == [m EXCEPT !.key = "query"]
CachedIn(m, layers) == [m EXCEPT !.cacheable = layers, !.memoizable = @ /\ layers # {}]
Extras(m, names) == [m EXCEPT !.extras = names]
Checked(m) == [m EXCEPT !.checked = TRUE]

Of(client, host, prefix, methods) ==
    {[m EXCEPT !.client = client, !.host = host, !.prefix = prefix] : m \in methods}

AnyLayer == {"memory", "disk"}

-----------------------------------------------------------------------------
(* Apps, Registry and Assets: a released app's files have one URL in all three *)
(* (in Assets if the account is the app's vendor), a linked app's in two.      *)

FileURL(linked) == IF linked THEN "<account>/<workspace>/apps/<app>/files"
                             ELSE "<account>/master/registry/<app>/files"
BundleURL(linked) == IF linked THEN "<account>/<workspace>/apps/<app>/bundle"
                               ELSE "<account>/master/registry/<app>/bundle"

AppsOperations == {
    Write("post", "installApp", "<workspace>/apps", {}, {}),
    Write("delete", "uninstallApp", "<workspace>/apps/<app>", {"app"}, {}),
    Write("put", "acknowledgeApp", "<workspace>/apps/<app>/acknowledge", {"app", "service"}, {}),
    Checked(Write("put", "link", "<workspace>/v2/links", {"app"}, {})),
    Checked(Write("patch", "patch", "<workspace>/v2/links", {"app"}, {"deletedFiles"})),
    Write("delete", "unlink", "<workspace>/links/<app>", {"app"}, {}),
    Write("delete", "unlinkAll", "<workspace>/links", {}, {})}

\* Mutant: the list of apps is shared by URL, whatever its filter.
AppsListsByURL == {
    Write("put", "saveAppSettings", "<workspace>/apps/<app>/settings", {"app"}, {}),
    ByURL(Get("listApps", "<workspace>/apps", {}, {"oldVersion", "service", "since"})),
    ByURL(Get("listLinks", "<workspace>/links", {}, {}))}
    \cup {ByQuery(Get("listAppFiles", FileURL(linked), {"app"}, {"marker", "prefix"})) :
              linked \in BOOLEAN}
AppsLists == {
    Write("put", "saveAppSettings", "<workspace>/apps/<app>/settings", {"app"}, {}),
    ByQuery(Get("listApps", "<workspace>/apps", {}, {"oldVersion", "service", "since"})),
    ByURL(Get("listLinks", "<workspace>/links", {}, {}))}
    \cup {ByQuery(Get("listAppFiles", FileURL(linked), {"app"}, {"marker", "prefix"})) :
              linked \in BOOLEAN}

AppsFiles(linked) == {
    ByURL(CachedIn(Buffer("getAppFile", FileURL(linked), {"app", "path"}),
                   IF linked THEN {"memory"} ELSE {"disk"})),
    ByURL(CachedIn(Extras(Get("getAppJSON", FileURL(linked), {"app", "path"}, {}), {"nullIfNotFound"}),
                   IF linked THEN {"memory"} ELSE AnyLayer)),
    Stream("getAppFileStream", FileURL(linked), {"app", "path"}, {})}

\* getAllAppsSettings calls listApps and getAppSettings of each app.
AppsReads ==
    (UNION {AppsFiles(linked) : linked \in BOOLEAN})
    \cup {Stream("getAppBundle", BundleURL(linked), {"app", "path"}, {"generatePackageJson"}) :
              linked \in BOOLEAN}
    \cup {
    ByURL(Extras(Get("getFileFromApps", FileURL(TRUE), {"app", "path"}, {}), {"nullIfNotFound"})),
    ByURL(Get("getApp", "<workspace>/apps/<app>", {"app"}, {})),
    ByURL(Get("getAppSettings", "<workspace>/apps/<app>/settings", {"app"}, {}))}

AppsDependencies == {
    ByURL(Get("getAppsMetaInfos", "<workspace>/v2/apps", {}, {})),
    ByQuery(Get("getDependencies", "<workspace>/dependencies", {}, {"filter"})),
    Write("put", "updateDependencies", "<workspace>/dependencies", {}, {}),
    Write("patch", "updateDependency", "<workspace>/apps", {}, {}),
    ByQuery(Get("resolveDependencies", "<workspace>/dependencies/_resolve", {},
                {"apps", "registries", "filter"})),
    Write("post", "resolveDependenciesWithManifest", "<workspace>/v2/apps/_resolve", {}, {"filter"}),
    Write("patch", "installRuntime", "http://apps.aws-us-east-1.vtex.io", {}, {})}

RegistryReads == {
    ByQuery(Get("getAppState", "<account>/master/registry/<app>/state", {"app"}, {})),
    ByURL(Get("listApps", "<account>/master/registry", {}, {})),
    ByURL(Get("listVersionsByApp", "<account>/master/registry/<name>", {"name"}, {})),
    ByQuery(Get("getAppManifest", "<account>/master/registry/<app>", {"app"}, {"resolveDeps"})),
    ByQuery(Get("listAppFiles", FileURL(FALSE), {"app"}, {"prefix"}))}

RegistryFiles == {
    ByURL(Buffer("getAppFile", FileURL(FALSE), {"app", "path"})),
    ByURL(CachedIn(Extras(Get("getAppJSON", FileURL(FALSE), {"app", "path"}, {}), {"nullIfNotFound"}),
                   AnyLayer)),
    Stream("getAppFileStream", FileURL(FALSE), {"app", "path"}, {}),
    Stream("getAppBundle", BundleURL(FALSE), {"app", "path"}, {"generatePackageJson"})}

RegistryWrites ==
    {Write("patch", name, "<account>/master/registry/<app>", {"app"}, {}) :
         name \in {"deprecateApp", "undeprecateApp", "validateApp"}}
    \cup {Checked(Write("post", "publishApp", "v2/registry", {}, {"tag"})),
          Checked(Write("post", "publishAppRc", "v2/registry/rc", {}, {"tag"})),
          Write("post", "resolveDependenciesWithManifest", "v2/registry/_resolve", {}, {"filter"})}

\* By account for linked apps, by vendor for released ones.
AssetsMethods ==
    {Stream("getAppBundleByVendor", BundleURL(linked), {"app", "path"}, {"generatePackageJson"}) :
         linked \in BOOLEAN}
    \cup {ByURL(CachedIn(Extras(Get("getJSON", FileURL(linked), {"app", "path"}, {}), {"nullIfNotFound"}),
                         IF linked THEN {"memory"} ELSE AnyLayer)) : linked \in BOOLEAN}
    \cup {ByURL(CachedIn(Extras(Buffer("getFile", FileURL(linked), {"app", "path"}), {"nullIfNotFound"}),
                         AnyLayer)) : linked \in BOOLEAN}

-----------------------------------------------------------------------------
(* The other services of the infrastructure.                                  *)

VBaseReads == {
    ByURL(Get("getBucket", "buckets/<bucket>", {"bucket"}, {})),
    ByQuery(Get("listFiles", "buckets/<bucket>/files", {"bucket"}, {"prefix", "next", "limit"})),
    ByURL(Buffer("getFile", "buckets/<bucket>/files/<path>", {"bucket", "path"})),
    ByURL(Extras(Get("getJSON", "buckets/<bucket>/files/<path>", {"bucket", "path"}, {}),
                 {"nullIfNotFound", "conflictsResolver"})),
    Stream("getFileStream", "buckets/<bucket>/files/<path>", {"bucket", "path"}, {}),
    Method("head", "getFileMetadata", "buckets/<bucket>/files/<path>", {"bucket", "path"}, {}),
    Get("getConflicts", "buckets/<bucket>/conflicts", {"bucket"}, {})}

VBaseWrites == {
    Write("delete", "resetBucket", "buckets/<bucket>/files", {"bucket"}, {}),
    Extras(Write("put", "saveJSON", "buckets/<bucket>/files/<path>", {"bucket", "path"}, {}), {"ifMatch"}),
    Extras(Checked(Write("put", "saveFile", "buckets/<bucket>/files/<path>", {"bucket", "path"}, {})),
           {"gzip", "ttl", "ifMatch"}),
    Extras(Checked(Write("put", "saveZippedContent", "buckets/<bucket>/files/<path>",
                         {"bucket", "path"}, {})), {"ifMatch"}),
    Extras(Write("delete", "deleteFile", "buckets/<bucket>/files/<path>", {"bucket", "path"}, {}),
           {"ifMatch"}),
    Write("patch", "resolveConflict", "buckets/<bucket>/conflicts", {"bucket"}, {})}

RouterMethods == {
    Get("listAvailableIoVersions", "_io", {}, {}),
    Checked(Get("getInstalledIoVersion", "<workspace>/io", {}, {})),
    Checked(Write("put", "installIo", "<workspace>/io", {}, {})),
    Get("listAvailableServices", "_services", {}, {}),
    Get("getAvailableVersions", "_services/<name>", {"name"}, {}),
    Checked(Get("listInstalledServices", "<workspace>/services", {}, {})),
    Checked(Write("post", "installService", "<workspace>/services", {}, {}))}

WorkspacesMethods == {
    Get("list", "<account>", {"account"}, {}),
    Get("get", "<account>/<workspace>", {"account", "workspace"}, {}),
    Write("put", "set", "<account>/<workspace>", {"account", "workspace"}, {}),
    Write("post", "create", "<account>", {"account"}, {}),
    Write("delete", "delete", "<account>/<workspace>", {"account", "workspace"}, {}),
    Write("put", "reset", "<account>/<workspace>", {"account", "workspace"}, {}),
    Write("put", "promote", "<account>/master/_promote", {"account"}, {})}

MetadataMethods == {
    Get("getBuckets", "meta/<bucket>", {"bucket"}, {}),
    Get("list", "meta/<bucket>/metadata", {"bucket"}, {"value", "_limit", "_marker"}),
    Get("listAll", "meta/<bucket>/metadata", {"bucket"}, {"value"}),
    Get("get", "meta/<bucket>/metadata/<key>", {"bucket", "key"}, {}),
    Write("put", "save", "meta/<bucket>/metadata/<key>", {"bucket", "key"}, {}),
    Write("put", "saveAll", "meta/<bucket>/metadata", {"bucket"}, {}),
    Write("delete", "delete", "meta/<bucket>/metadata/<key>", {"bucket", "key"}, {}),
    Write("delete", "deleteAll", "meta/<bucket>/metadata", {"bucket"}, {})}

EventsMethods == {Write("put", "sendEvent", "events/<route>", {"route"}, {"resource"})}

HousekeeperMethods == {
    Write("post", "apply", "v2/housekeeping/apply", {}, {}),
    Write("post", "perform", "v2/_housekeeping/perform", {}, {}),
    Get("resolve", "v2/housekeeping/resolve", {}, {})}

SphinxMethods == {
    Write("post", "validatePolicies", "policies/validate", {}, {}),
    Get("isAdmin", "user/<email>/isAdmin", {"email"}, {})}

BillingMetricsMethods == {Write("post", "sendMetric", "metrics", {}, {})}

-----------------------------------------------------------------------------
(* Apps one depends on.  getWithBody puts a hash of the body, that is of the  *)
(* query and its variables, into the parameters; here the hash of a method's  *)
(* body is a parameter with the method's name.                                *)

Query(name) == ByQuery(Get(name, "_v/graphql", {}, {name}))
Mutation(name) == Write("post", name, "_v/graphql", {}, {})

MessagesMethods ==
    {Query(name) : name \in {"translateV2", "translate", "translateWithDependencies", "userTranslations"}}
    \cup {Mutation("saveV2")}

CatalogMethods == {Query(name) : name \in {"sku", "product", "category", "brand"}}

BuilderMethods ==
    {Extras(CachedIn(Get("availability", "_v/builder/0/availability", {"app"}, {}), {}), {"hintIndex"}),
     Write("post", "clean", "_v/builder/0/clean", {"app"}, {}),
     Get("getPinnedDependencies", "_v/builder/0/pinneddeps", {}, {}),
     Extras(Write("put", "relinkApp", "_v/builder/0/relink", {"app"}, {"params"}), {"stickyHost"})}
    \cup {Extras(Checked(Write("post", name, "_v/builder/0/<link, publish, test>", {"app"},
                               {"params", "tag"})),
                 {"stickyHost"}) : name \in {"linkApp", "publishApp", "testApp"}}

SettingsMethods ==
    {ByQuery(Get("getSettings", "settings/<app>/<hash>", {"app", "hash"}, {"merge", "files"}))}

BillingMethods == {Get("status", "_v/contractStatus", {}, {})}

-----------------------------------------------------------------------------
(* The Janus gateway and other hosts.                                         *)

SegmentMethods ==
    {ByQuery(Get(name, "api/segments", {"token"}, {"product", "workspace"})) :
         name \in {"getSegment", "getSegmentByToken", "getOrCreateSegment"}}
    \cup {ByQuery(Get("getOrCreateSegment", "api/segments", {"token"},
                       {"query", "product", "workspace"}))}

SessionMethods == {
    Extras(Get("getSession", "api/sessions", {}, {"items"}), {"token"}),
    Extras(Write("post", "updateSession", "api/sessions", {}, {"items"}), {"token"})}

TenantMethods == {ByQuery(Get("info", "api/tenant/tenants", {}, {"q"}))}

LicenseManagerMethods == {
    Extras(ByQuery(Get("getAccountData", "api/license-manager/account", {}, {})), {"authCookie"}),
    Extras(Get("getTopbarData", "api/license-manager/site/pvt/newtopbar", {}, {}), {"authCookie"}),
    Extras(Get("canAccessResource", "api/license-manager/resources/<key>/access", {"key"}, {}),
           {"authCookie"})}

IDMethods == {
    Get("getTemporaryToken", "start", {}, {}),
    Get("sendCodeToEmail", "accesskey/send", {}, {"token", "email"}),
    Get("getEmailCodeAuthenticationToken", "accesskey/validate", {}, {"token", "email", "code"}),
    Get("getPasswordAuthenticationToken", "classic/validate", {}, {"token", "email", "password"})}

MasterDataReads == {
    Get("getSchema", "<entity>/schemas/<schema>", {"entity", "schema"}, {}),
    Get("getPublicSchema", "<entity>/schemas/<schema>/public", {"entity", "schema"}, {}),
    Get("getDocument", "<entity>/documents/<id>", {"entity", "id"}, {"_fields"})}

\* The page asked for is a header, REST-Range, and a page below 1 is refused.
MasterDataSearches ==
    {Extras(Checked(Get(name, "<entity>/search", {"entity"}, {"_fields", "_schema", "_sort", "_where"})),
            {"pagination"}) : name \in {"searchDocuments", "searchDocumentsWithPaginationInfo"}}
    \cup {Get("scrollDocuments", "<entity>/scroll", {"entity"},
              {"_fields", "_schema", "_size", "_sort", "_token"})}

MasterDataWrites == {
    Write("put", "createOrUpdateSchema", "<entity>/schemas/<schema>", {"entity", "schema"}, {}),
    Write("post", "createDocument", "<entity>/documents", {"entity"}, {"_schema"}),
    Write("put", "createOrUpdateEntireDocument", "<entity>/documents", {"entity"}, {"_schema"}),
    Write("patch", "createOrUpdatePartialDocument", "<entity>/documents", {"entity"}, {"_schema"}),
    Write("put", "updateEntireDocument", "<entity>/documents/<id>", {"entity", "id"}, {"_schema"}),
    Write("patch", "updatePartialDocument", "<entity>/documents/<id>", {"entity", "id"}, {"_schema"}),
    Write("delete", "deleteDocument", "<entity>/documents/<id>", {"entity", "id"}, {})}

PaymentMethods == {
    Write("post", "callback", "transactions/<payment>/notification", {"payment"}, {}),
    Write("post", "inbound", "transactions/<payment>/inbound-request", {"payment", "action"}, {})}

-----------------------------------------------------------------------------

\* InfraClient, AppClient and JanusClient give each client its baseURL.
Table == UNION {
    Of("Apps", "apps", "", AppsOperations \cup AppsLists \cup AppsReads \cup AppsDependencies),
    Of("Registry", "apps", "<account>/master", RegistryReads \cup RegistryFiles \cup RegistryWrites),
    Of("Assets", "apps", "", AssetsMethods),
    Of("VBase", "vbase", "<workspace>", VBaseReads \cup VBaseWrites),
    Of("Router", "platform", "", RouterMethods),
    Of("Workspaces", "platform", "", WorkspacesMethods),
    Of("Metadata", "platform", "<workspace>", MetadataMethods),
    Of("Events", "courier", "<workspace>", EventsMethods),
    Of("Housekeeper", "housekeeper", "<workspace>", HousekeeperMethods),
    Of("Sphinx", "sphinx", "<workspace>", SphinxMethods),
    Of("BillingMetrics", "colossus", "<workspace>", BillingMetricsMethods),
    Of("MessagesGraphQL", "messages", "<workspace>", MessagesMethods),
    Of("CatalogGraphQL", "catalog-graphql", "<workspace>", CatalogMethods),
    Of("Builder", "builder-hub", "<workspace>", BuilderMethods),
    Of("Settings", "settings-server", "<workspace>", SettingsMethods),
    Of("Billing", "billing", "<workspace>", BillingMethods),
    Of("Segment", "portal", "", SegmentMethods),
    Of("Session", "portal", "", SessionMethods),
    Of("Tenant", "portal", "", TenantMethods),
    Of("LicenseManager", "portal", "", LicenseManagerMethods),
    Of("ID", "vtexid", "", IDMethods),
    Of("MasterData", "dataentities", "", MasterDataReads \cup MasterDataSearches \cup MasterDataWrites),
    Of("PaymentProvider", "vtexpayments", "", PaymentMethods)}

-----------------------------------------------------------------------------

VARIABLES
    call,      \* what each call asks: a method, its arguments, the incoming request; or <<>>
    progress,  \* "new", "asking", "answered" or "refused"
    source     \* the call whose request to the origin serves each call

callVars == <<call, progress, source>>

Arguments(m) == m.path \cup m.params \cup m.extras

\* The values a call gives to some of its arguments.
Values(c, names) == [a \in names |-> call[c].args[a]]

\* Clients are made anew for every incoming request, which has one locale.
SameClient(c, d) ==
    /\ call[c].request = call[d].request
    /\ call[c].method.client = call[d].method.client

\* cacheKey: the locale, baseURL, url and parameters.
CacheKey(c) == LET m == call[c].method IN
    <<call[c].locale, m.host, m.prefix, m.url, Values(c, m.path), Values(c, m.params)>>

\* inflightURL and inflightUrlWithQuery.
FlightKey(c) == LET m == call[c].method IN
    <<m.host, m.url, Values(c, m.path), IF m.key = "query" THEN Values(c, m.params) ELSE Values(c, {})>>

CallsInit ==
    /\ call = <<>>
    /\ progress = [c \in Calls |-> "new"]
    /\ source = [c \in Calls |-> c]

\* Two calls, the first with all arguments 1, the second with those in differing 2.
TwoCalls(m, n, requests, locales, differing) ==
    [c \in Calls |->
        IF c = 1
        THEN [method |-> m, request |-> 1, locale |-> 1, args |-> [a \in Arguments(m) |-> 1]]
        ELSE [method |-> n, request |-> requests, locale |-> locales,
              args |-> [a \in Arguments(n) |-> IF a \in differing THEN 2 ELSE 1]]]

\* Which calls are made: two of one URL, at most one argument of the second different,
\* of one incoming request or of two.
Choose ==
    /\ call = <<>>
    /\ \E m \in Table, n \in Table, requests \in {1, 2}, locales \in {1, 2} :
          /\ m.host = n.host /\ m.url = n.url
          /\ locales <= requests
          /\ \E differing \in {{}} \cup {{a} : a \in Arguments(n)} :
                call' = TwoCalls(m, n, requests, locales, differing)
    /\ UNCHANGED <<progress, source>>

\* The method throws before it calls: files without a manifest, a stream that is
\* none, a page below 1, a context without a workspace.
Refuse(c) ==
    /\ progress[c] = "new"
    /\ call[c].method.checked
    /\ progress' = [progress EXCEPT ![c] = "refused"]
    /\ UNCHANGED <<call, source>>

\* Calls whose promise the memoized map of the client, or the map of flights, has.
Memoized(c) == {d \in Calls \ {c} :
    /\ progress[d] \in {"asking", "answered"}
    /\ call[c].method.memoizable /\ call[d].method.memoizable
    /\ SameClient(c, d)
    /\ CacheKey(c) = CacheKey(d)}

Flights(c) == {d \in Calls \ {c} :
    /\ progress[d] = "asking" /\ source[d] = d
    /\ call[c].method.key # "none" /\ call[d].method.key # "none"
    /\ FlightKey(c) = FlightKey(d)}

\* Calls whose answer a cache layer may have kept for this one.
Cached(c) == {d \in Calls \ {c} :
    /\ progress[d] = "answered"
    /\ call[c].method.cacheable \cap call[d].method.cacheable # {}
    /\ CacheKey(c) = CacheKey(d)}

Ask(c, d) ==
    /\ progress' = [progress EXCEPT ![c] = "asking"]
    /\ source' = [source EXCEPT ![c] = source[d]]
    /\ UNCHANGED call

AwaitMemoized(c) == progress[c] = "new" /\ \E d \in Memoized(c) : Ask(c, d)

JoinFlight(c) ==
    /\ progress[c] = "new" /\ Memoized(c) = {}
    /\ \E d \in Flights(c) : Ask(c, d)

\* In a cache, or else at the origin: a cache may also have dropped the answer,
\* or the origin may have forbidden to keep it.
AskCacheOrOrigin(c) ==
    /\ progress[c] = "new" /\ Memoized(c) = {} /\ Flights(c) = {}
    /\ \E d \in Cached(c) \cup {c} : Ask(c, d)

Answer(c) ==
    /\ progress[c] = "asking"
    /\ source[c] # c => progress[source[c]] = "answered"
    /\ progress' = [progress EXCEPT ![c] = "answered"]
    /\ UNCHANGED <<call, source>>

CallsNext ==
    \/ Choose
    \/ \E c \in DOMAIN call :
          Refuse(c) \/ AwaitMemoized(c) \/ JoinFlight(c) \/ AskCacheOrOrigin(c) \/ Answer(c)

CallsSpec == CallsInit /\ [][CallsNext]_callVars

-----------------------------------------------------------------------------

CallsTypeOK ==
    /\ \A c \in DOMAIN call : call[c].method \in Table
    /\ progress \in [Calls -> {"new", "asking", "answered", "refused"}]
    /\ source \in [Calls -> Calls]

\* The same URL with the same parameters, and no write is ever served by another
\* request or serves one.  Only flights mix the locales of different incoming
\* requests; memoization and the caches keep them apart.
ContentIsOwn == \A c \in DOMAIN call : LET d == source[c] IN
    d # c =>
        /\ call[c].method.verb = "get" /\ call[d].method.verb = "get"
        /\ Values(c, call[c].method.path) = Values(d, call[d].method.path)
        /\ Values(c, call[c].method.params) = Values(d, call[d].method.params)
        /\ call[c].locale # call[d].locale => call[c].method.key # "none"

\* No key compares what becomes a header or the handling of the answer, nor how
\* it is parsed.  These are the URLs at which two calls may get each other's
\* answer in spite of that: files read both raw and parsed, with and without
\* nullIfNotFound or detection of conflicts, and methods that take a credential
\* or a page as a header.
MixedURLs == {FileURL(TRUE), FileURL(FALSE), "buckets/<bucket>/files/<path>", "api/sessions",
              "api/license-manager/account", "api/license-manager/site/pvt/newtopbar",
              "api/license-manager/resources/<key>/access", "<entity>/search"}

ShapeIsOwn == \A c \in DOMAIN call : LET d == source[c] IN
    call[c].method.url \notin MixedURLs =>
        /\ call[c].method.type = call[d].method.type
        /\ Values(c, call[c].method.extras) = Values(d, call[d].method.extras)

\* A call served by another call's request reads what it asked to read, in the shape
\* it asked for.  The keys compare less than that, baseURL and url with or without
\* the parameters, so each method's key must suit its arguments.
SharedAnswersMatch == ContentIsOwn /\ ShapeIsOwn

=============================================================================
