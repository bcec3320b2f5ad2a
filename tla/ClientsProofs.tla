----------------------------- MODULE ClientsProofs -----------------------------
(***************************************************************************)
(* Four parts of the clients that do not interact, and the four together.  *)
(* Shared calls: whoever may be served by another call's request, by the   *)
(* table of methods, only reads, by a key that says all it reads.          *)
(* Meta infos: no refresh of a process undoes another on disk.  Its writes *)
(* wait in the order of their versions, but for those of memoized lists:   *)
(* its flights follow one another, so what a flight reads is not older     *)
(* than anything the process read before, nor what memory keeps for a      *)
(* locale than anything it read for that locale.  Conflicts: the merge of  *)
(* arrays is the three-way merge, by what each round of its loops does.    *)
(* Metrics: each counter is the number of calls it should count, because a *)
(* call adds to it once, at its end, and what it adds is decided by what   *)
(* has become of the call.                                                 *)
(***************************************************************************)
EXTENDS MCClients, Loops

-----------------------------------------------------------------------------
(* What calls share: the methods, one by one.                               *)

IsMethod(m) ==
    DOMAIN m = {"verb", "name", "url", "path", "params", "extras", "key", "type", "memoizable",
                "cacheable", "checked", "client", "host", "prefix"}

\* Whether m may be served by another call's request.
Shareable(m) == m.key # "none" \/ m.memoizable = TRUE \/ m.cacheable # {}

WellKeyed(m) == IsMethod(m) /\ (Shareable(m) =>
    /\ m.verb = "get"
    /\ m.key \in {"none", "query"} \/ m.params = {}
    /\ m.url \in MixedURLs \/ (m.type = "json" /\ m.extras = {}))

\* What HttpClient's verbs make of their arguments: the members that keys and caches read.
LEMMA MethodTells ==
  \A verb, name, url, path, params : LET m == Method(verb, name, url, path, params) IN
    /\ IsMethod(m) /\ m.verb = verb /\ m.url = url /\ m.params = params
    /\ m.type = "json" /\ m.extras = {} /\ m.key = "none" /\ m.memoizable = FALSE
    /\ m.cacheable = {}
BY DEF Method, IsMethod

\* A write is neither memoized, cached nor in a flight.
LEMMA WriteTells ==
  \A verb, name, url, path, params : LET m == Write(verb, name, url, path, params) IN
    IsMethod(m) /\ m.key = "none" /\ m.memoizable = FALSE /\ m.cacheable = {}
BY MethodTells DEF Write

\* A get reads JSON with the parameters it was given.
LEMMA GetTells ==
  \A name, url, path, params : LET m == Get(name, url, path, params) IN
    /\ IsMethod(m) /\ m.verb = "get" /\ m.url = url /\ m.params = params
    /\ m.type = "json" /\ m.extras = {} /\ m.key = "none"
<1> TAKE name, url, path, params
<1> DEFINE m == Method("get", name, url, path, params)
<1>1. /\ IsMethod(m) /\ m.verb = "get" /\ m.url = url /\ m.params = params
      /\ m.type = "json" /\ m.extras = {} /\ m.key = "none"
  BY MethodTells
<1> HIDE DEF m
<1>2. Get(name, url, path, params) = [m EXCEPT !.memoizable = TRUE, !.cacheable = {"memory"}]
  BY DEF Get, m
<1> QED BY <1>1, <1>2 DEF IsMethod

\* A stream is shared by nobody.
LEMMA StreamTells ==
  \A name, url, path, params : LET m == Stream(name, url, path, params) IN
    IsMethod(m) /\ m.key = "none" /\ m.memoizable = FALSE /\ m.cacheable = {}
<1> TAKE name, url, path, params
<1> DEFINE m == Method("get", name, url, path, params)
<1>1. IsMethod(m) /\ m.key = "none" /\ m.memoizable = FALSE /\ m.cacheable = {}
  BY MethodTells
<1> HIDE DEF m
<1>2. Stream(name, url, path, params) = [m EXCEPT !.type = "stream"]
  BY DEF Stream, m
<1> QED BY <1>1, <1>2 DEF IsMethod

\* A buffer takes no parameters.
LEMMA BufferTells ==
  \A name, url, path : LET m == Buffer(name, url, path) IN
    /\ IsMethod(m) /\ m.verb = "get" /\ m.url = url /\ m.params = {}
<1> TAKE name, url, path
<1> DEFINE m == Method("get", name, url, path, {})
<1>1. /\ IsMethod(m) /\ m.verb = "get" /\ m.url = url /\ m.params = {}
  BY MethodTells
<1> HIDE DEF m
<1>2. Buffer(name, url, path) = [m EXCEPT !.type = "arraybuffer", !.cacheable = {"disk"}]
  BY DEF Buffer, m
<1> QED BY <1>1, <1>2 DEF IsMethod

\* What is said of a method besides leaves the rest of it.
LEMMA ByURLTells ==
  \A m : IsMethod(m) => LET t == ByURL(m) IN
      /\ IsMethod(t) /\ t.verb = m.verb /\ t.url = m.url /\ t.params = m.params
      /\ t.type = m.type /\ t.extras = m.extras /\ t.key = "url"
BY DEF IsMethod, ByURL

LEMMA ByQueryTells ==
  \A m : IsMethod(m) => LET t == ByQuery(m) IN
      /\ IsMethod(t) /\ t.verb = m.verb /\ t.url = m.url /\ t.params = m.params
      /\ t.type = m.type /\ t.extras = m.extras /\ t.key = "query"
BY DEF IsMethod, ByQuery

LEMMA CheckedTells ==
  \A m : IsMethod(m) => LET t == Checked(m) IN
      /\ IsMethod(t) /\ t.verb = m.verb /\ t.url = m.url /\ t.params = m.params
      /\ t.type = m.type /\ t.extras = m.extras /\ t.key = m.key
      /\ t.memoizable = m.memoizable /\ t.cacheable = m.cacheable
BY DEF IsMethod, Checked

LEMMA ExtrasTells ==
  \A m, names : IsMethod(m) => LET t == Extras(m, names) IN
      /\ IsMethod(t) /\ t.verb = m.verb /\ t.url = m.url /\ t.params = m.params
      /\ t.type = m.type /\ t.extras = names /\ t.key = m.key
      /\ t.memoizable = m.memoizable /\ t.cacheable = m.cacheable
BY DEF IsMethod, Extras

LEMMA CachedInTells ==
  \A m, layers : IsMethod(m) => LET t == CachedIn(m, layers) IN
      /\ IsMethod(t) /\ t.verb = m.verb /\ t.url = m.url /\ t.params = m.params
      /\ t.type = m.type /\ t.extras = m.extras /\ t.key = m.key /\ t.cacheable = layers
      /\ layers = {} => t.memoizable = FALSE
BY DEF IsMethod, CachedIn

\* Files of apps are read both raw and parsed.
LEMMA FilesAreMixed ==
  /\ FileURL(TRUE) \in MixedURLs /\ FileURL(FALSE) \in MixedURLs
  /\ \A linked \in BOOLEAN : FileURL(linked) \in MixedURLs
BY DEF MixedURLs

\* Files read with nullIfNotFound, or from a layer of the method's.
LEMMA FilesWellKeyed ==
  ASSUME NEW name, NEW url \in MixedURLs, NEW path, NEW names, NEW layers
  PROVE  /\ WellKeyed(ByURL(Extras(Get(name, url, path, {}), names)))
         /\ WellKeyed(ByURL(CachedIn(Extras(Get(name, url, path, {}), names), layers)))
         /\ WellKeyed(ByURL(Buffer(name, url, path)))
         /\ WellKeyed(ByURL(CachedIn(Buffer(name, url, path), layers)))
         /\ WellKeyed(ByURL(CachedIn(Extras(Buffer(name, url, path), names), layers)))
<1> DEFINE Reads(m) == IsMethod(m) /\ m.verb = "get" /\ m.url \in MixedURLs /\ m.params = {}
<1>1. Reads(Get(name, url, path, {})) /\ Reads(Buffer(name, url, path))
  BY GetTells, BufferTells
<1>2. ASSUME NEW m, Reads(m)
      PROVE  WellKeyed(ByURL(m)) /\ Reads(Extras(m, names)) /\ Reads(CachedIn(m, layers))
  BY <1>2, ByURLTells, ExtrasTells, CachedInTells DEF WellKeyed
<1> HIDE DEF Reads
<1> QED BY <1>1, <1>2

\* Writes, whatever else is said of them.
LEMMA WritesWellKeyed ==
  ASSUME NEW verb, NEW name, NEW url, NEW path, NEW params, NEW names
  PROVE  /\ WellKeyed(Write(verb, name, url, path, params))
         /\ WellKeyed(Checked(Write(verb, name, url, path, params)))
         /\ WellKeyed(Extras(Write(verb, name, url, path, params), names))
         /\ WellKeyed(Extras(Checked(Write(verb, name, url, path, params)), names))
<1> DEFINE Idle(m) == IsMethod(m) /\ m.key = "none" /\ m.memoizable = FALSE /\ m.cacheable = {}
<1>1. Idle(Write(verb, name, url, path, params))
  BY WriteTells
<1>2. ASSUME NEW m, Idle(m) PROVE Idle(Checked(m)) /\ Idle(Extras(m, names)) /\ WellKeyed(m)
  BY <1>2, CheckedTells, ExtrasTells DEF WellKeyed, Shareable
<1> HIDE DEF Idle
<1> QED BY <1>1, <1>2

\* Every set of methods of the table, one after the other.
LEMMA AppsFilesWellKeyed == \A linked \in BOOLEAN : \A m \in AppsFiles(linked) : WellKeyed(m)
BY GetTells, StreamTells, BufferTells, ByURLTells, ExtrasTells, CachedInTells, FilesAreMixed
   DEF AppsFiles, WellKeyed, Shareable

LEMMA AppsOperationsWellKeyed == \A m \in AppsOperations : WellKeyed(m)
BY WriteTells, CheckedTells
   DEF AppsOperations, WellKeyed, Shareable

LEMMA AppsListsWellKeyed == \A m \in AppsLists : WellKeyed(m)
BY WriteTells, GetTells, ByURLTells, ByQueryTells
   DEF AppsLists, WellKeyed, Shareable

LEMMA AppsReadsWellKeyed == \A m \in AppsReads : WellKeyed(m)
<1> DEFINE Files == UNION {AppsFiles(linked) : linked \in BOOLEAN}
           Bundles == {Stream("getAppBundle", BundleURL(linked), {"app", "path"},
                              {"generatePackageJson"}) : linked \in BOOLEAN}
           File == ByURL(Extras(Get("getFileFromApps", FileURL(TRUE), {"app", "path"}, {}),
                                {"nullIfNotFound"}))
           App == ByURL(Get("getApp", "<workspace>/apps/<app>", {"app"}, {}))
           Settings == ByURL(Get("getAppSettings", "<workspace>/apps/<app>/settings", {"app"}, {}))
<1>1. AppsReads = Files \cup Bundles \cup {File, App, Settings}
  BY Zenon DEF AppsReads
<1>2. \A m \in Files : WellKeyed(m)
  BY AppsFilesWellKeyed
<1>3. \A m \in Bundles : WellKeyed(m)
  BY StreamTells DEF WellKeyed, Shareable
<1>4. WellKeyed(File)
  BY FilesWellKeyed, FilesAreMixed
<1>5. WellKeyed(App) /\ WellKeyed(Settings)
  BY GetTells, ByURLTells DEF WellKeyed, Shareable
<1> HIDE DEF Files, Bundles, File, App, Settings
<1> QED BY <1>1, <1>2, <1>3, <1>4, <1>5

LEMMA AppsDependenciesWellKeyed == \A m \in AppsDependencies : WellKeyed(m)
BY WriteTells, GetTells, ByURLTells, ByQueryTells
   DEF AppsDependencies, WellKeyed, Shareable

LEMMA RegistryReadsWellKeyed == \A m \in RegistryReads : WellKeyed(m)
BY GetTells, ByURLTells, ByQueryTells
   DEF RegistryReads, WellKeyed, Shareable, MixedURLs, FileURL

LEMMA RegistryFilesWellKeyed == \A m \in RegistryFiles : WellKeyed(m)
<1>1. \A name, url, path, params : WellKeyed(Stream(name, url, path, params))
  BY StreamTells DEF WellKeyed, Shareable
<1>2. /\ WellKeyed(ByURL(Buffer("getAppFile", FileURL(FALSE), {"app", "path"})))
      /\ WellKeyed(ByURL(CachedIn(Extras(Get("getAppJSON", FileURL(FALSE), {"app", "path"}, {}),
                                         {"nullIfNotFound"}), AnyLayer)))
  BY FilesWellKeyed, FilesAreMixed
<1> QED BY <1>1, <1>2 DEF RegistryFiles

LEMMA RegistryWritesWellKeyed == \A m \in RegistryWrites : WellKeyed(m)
BY WriteTells, CheckedTells
   DEF RegistryWrites, WellKeyed, Shareable

LEMMA AssetsMethodsWellKeyed == \A m \in AssetsMethods : WellKeyed(m)
BY GetTells, StreamTells, BufferTells, ByURLTells, ExtrasTells, CachedInTells
   DEF AssetsMethods, WellKeyed, Shareable, MixedURLs, FileURL

LEMMA VBaseReadsWellKeyed == \A m \in VBaseReads : WellKeyed(m)
BY MethodTells, GetTells, StreamTells, BufferTells, ByURLTells, ByQueryTells, ExtrasTells
   DEF VBaseReads, WellKeyed, Shareable, MixedURLs, FileURL

LEMMA VBaseWritesWellKeyed == \A m \in VBaseWrites : WellKeyed(m)
BY WriteTells, CheckedTells, ExtrasTells
   DEF VBaseWrites, WellKeyed, Shareable, MixedURLs, FileURL

LEMMA RouterMethodsWellKeyed == \A m \in RouterMethods : WellKeyed(m)
BY WriteTells, GetTells, CheckedTells
   DEF RouterMethods, WellKeyed, Shareable

LEMMA WorkspacesMethodsWellKeyed == \A m \in WorkspacesMethods : WellKeyed(m)
BY WriteTells, GetTells
   DEF WorkspacesMethods, WellKeyed, Shareable

LEMMA MetadataMethodsWellKeyed == \A m \in MetadataMethods : WellKeyed(m)
BY WriteTells, GetTells
   DEF MetadataMethods, WellKeyed, Shareable

LEMMA EventsMethodsWellKeyed == \A m \in EventsMethods : WellKeyed(m)
BY WriteTells
   DEF EventsMethods, WellKeyed, Shareable

LEMMA HousekeeperMethodsWellKeyed == \A m \in HousekeeperMethods : WellKeyed(m)
BY WriteTells, GetTells
   DEF HousekeeperMethods, WellKeyed, Shareable

LEMMA SphinxMethodsWellKeyed == \A m \in SphinxMethods : WellKeyed(m)
BY WriteTells, GetTells
   DEF SphinxMethods, WellKeyed, Shareable

LEMMA BillingMetricsMethodsWellKeyed == \A m \in BillingMetricsMethods : WellKeyed(m)
BY WriteTells
   DEF BillingMetricsMethods, WellKeyed, Shareable

LEMMA MessagesMethodsWellKeyed == \A m \in MessagesMethods : WellKeyed(m)
BY WriteTells, GetTells, ByQueryTells
   DEF MessagesMethods, WellKeyed, Shareable, Query, Mutation

LEMMA CatalogMethodsWellKeyed == \A m \in CatalogMethods : WellKeyed(m)
BY GetTells, ByQueryTells
   DEF CatalogMethods, WellKeyed, Shareable, Query

LEMMA BuilderMethodsWellKeyed == \A m \in BuilderMethods : WellKeyed(m)
<1>1. WellKeyed(Extras(CachedIn(Get("availability", "_v/builder/0/availability", {"app"}, {}), {}),
                       {"hintIndex"}))
  BY GetTells, CachedInTells, ExtrasTells DEF WellKeyed, Shareable
<1>2. /\ WellKeyed(Write("post", "clean", "_v/builder/0/clean", {"app"}, {}))
      /\ WellKeyed(Extras(Write("put", "relinkApp", "_v/builder/0/relink", {"app"}, {"params"}),
                          {"stickyHost"}))
  BY WriteTells, ExtrasTells DEF WellKeyed, Shareable
<1>3. WellKeyed(Get("getPinnedDependencies", "_v/builder/0/pinneddeps", {}, {}))
  BY GetTells DEF WellKeyed, Shareable
<1>4. ASSUME NEW name
      PROVE  WellKeyed(Extras(Checked(Write("post", name, "_v/builder/0/<link, publish, test>",
                                            {"app"}, {"params", "tag"})), {"stickyHost"}))
  BY WritesWellKeyed
<1> QED BY <1>1, <1>2, <1>3, <1>4 DEF BuilderMethods

LEMMA SettingsMethodsWellKeyed == \A m \in SettingsMethods : WellKeyed(m)
BY GetTells, ByQueryTells
   DEF SettingsMethods, WellKeyed, Shareable

LEMMA BillingMethodsWellKeyed == \A m \in BillingMethods : WellKeyed(m)
BY GetTells
   DEF BillingMethods, WellKeyed, Shareable

LEMMA SegmentMethodsWellKeyed == \A m \in SegmentMethods : WellKeyed(m)
BY GetTells, ByQueryTells
   DEF SegmentMethods, WellKeyed, Shareable

LEMMA SessionMethodsWellKeyed == \A m \in SessionMethods : WellKeyed(m)
BY WriteTells, GetTells, ExtrasTells
   DEF SessionMethods, WellKeyed, Shareable, MixedURLs, FileURL

LEMMA TenantMethodsWellKeyed == \A m \in TenantMethods : WellKeyed(m)
BY GetTells, ByQueryTells
   DEF TenantMethods, WellKeyed, Shareable

LEMMA LicenseManagerMethodsWellKeyed == \A m \in LicenseManagerMethods : WellKeyed(m)
BY GetTells, ByQueryTells, ExtrasTells
   DEF LicenseManagerMethods, WellKeyed, Shareable, MixedURLs, FileURL

LEMMA IDMethodsWellKeyed == \A m \in IDMethods : WellKeyed(m)
BY GetTells
   DEF IDMethods, WellKeyed, Shareable

LEMMA MasterDataReadsWellKeyed == \A m \in MasterDataReads : WellKeyed(m)
BY GetTells
   DEF MasterDataReads, WellKeyed, Shareable

LEMMA MasterDataSearchesWellKeyed == \A m \in MasterDataSearches : WellKeyed(m)
BY GetTells, CheckedTells, ExtrasTells
   DEF MasterDataSearches, WellKeyed, Shareable, MixedURLs, FileURL

LEMMA MasterDataWritesWellKeyed == \A m \in MasterDataWrites : WellKeyed(m)
BY WriteTells
   DEF MasterDataWrites, WellKeyed, Shareable

LEMMA PaymentMethodsWellKeyed == \A m \in PaymentMethods : WellKeyed(m)
BY WriteTells
   DEF PaymentMethods, WellKeyed, Shareable


\* Giving a client to methods leaves their keys as they are.
LEMMA OfWellKeyed ==
  ASSUME NEW methods, \A m \in methods : WellKeyed(m), NEW client, NEW host, NEW prefix
  PROVE  \A m \in Of(client, host, prefix, methods) : WellKeyed(m)
<1>1. ASSUME NEW m \in methods
      PROVE  WellKeyed([m EXCEPT !.client = client, !.host = host, !.prefix = prefix])
  <2> DEFINE t == [m EXCEPT !.client = client, !.host = host, !.prefix = prefix]
  <2>1. WellKeyed(m) /\ IsMethod(m)
    BY DEF WellKeyed
  <2>2. /\ IsMethod(t) /\ t.verb = m.verb /\ t.url = m.url /\ t.params = m.params
        /\ t.type = m.type /\ t.extras = m.extras /\ t.key = m.key
        /\ t.memoizable = m.memoizable /\ t.cacheable = m.cacheable
    BY <2>1 DEF IsMethod
  <2> HIDE DEF t
  <2>3. WellKeyed(t)
    BY <2>1, <2>2 DEF WellKeyed, Shareable
  <2> QED BY <2>3 DEF t
<1> QED BY <1>1 DEF Of

\* Every method of the table that may be shared only reads, by a key that suits it.
LEMMA TableWellKeyed == \A m \in Table : WellKeyed(m)
<1>1. /\ \A m \in AppsOperations \cup AppsLists \cup AppsReads \cup AppsDependencies : WellKeyed(m)
      /\ \A m \in RegistryReads \cup RegistryFiles \cup RegistryWrites : WellKeyed(m)
      /\ \A m \in VBaseReads \cup VBaseWrites : WellKeyed(m)
      /\ \A m \in MasterDataReads \cup MasterDataSearches \cup MasterDataWrites : WellKeyed(m)
  BY AppsOperationsWellKeyed, AppsListsWellKeyed, AppsReadsWellKeyed, AppsDependenciesWellKeyed,
     RegistryReadsWellKeyed, RegistryFilesWellKeyed, RegistryWritesWellKeyed,
     VBaseReadsWellKeyed, VBaseWritesWellKeyed,
     MasterDataReadsWellKeyed, MasterDataSearchesWellKeyed, MasterDataWritesWellKeyed
<1> DEFINE AppsCalls            == Of("Apps", "apps", "",
                                      AppsOperations \cup AppsLists \cup AppsReads \cup AppsDependencies)
           RegistryCalls        == Of("Registry", "apps", "<account>/master",
                                      RegistryReads \cup RegistryFiles \cup RegistryWrites)
           AssetsCalls          == Of("Assets", "apps", "", AssetsMethods)
           VBaseCalls           == Of("VBase", "vbase", "<workspace>", VBaseReads \cup VBaseWrites)
           RouterCalls          == Of("Router", "platform", "", RouterMethods)
           WorkspacesCalls      == Of("Workspaces", "platform", "", WorkspacesMethods)
           MetadataCalls        == Of("Metadata", "platform", "<workspace>", MetadataMethods)
           EventsCalls          == Of("Events", "courier", "<workspace>", EventsMethods)
           HousekeeperCalls     == Of("Housekeeper", "housekeeper", "<workspace>",
                                      HousekeeperMethods)
           SphinxCalls          == Of("Sphinx", "sphinx", "<workspace>", SphinxMethods)
           BillingMetricsCalls  == Of("BillingMetrics", "colossus", "<workspace>",
                                      BillingMetricsMethods)
           MessagesGraphQLCalls == Of("MessagesGraphQL", "messages", "<workspace>", MessagesMethods)
           CatalogGraphQLCalls  == Of("CatalogGraphQL", "catalog-graphql", "<workspace>",
                                      CatalogMethods)
           BuilderCalls         == Of("Builder", "builder-hub", "<workspace>", BuilderMethods)
           SettingsCalls        == Of("Settings", "settings-server", "<workspace>", SettingsMethods)
           BillingCalls         == Of("Billing", "billing", "<workspace>", BillingMethods)
           SegmentCalls         == Of("Segment", "portal", "", SegmentMethods)
           SessionCalls         == Of("Session", "portal", "", SessionMethods)
           TenantCalls          == Of("Tenant", "portal", "", TenantMethods)
           LicenseManagerCalls  == Of("LicenseManager", "portal", "", LicenseManagerMethods)
           IDCalls              == Of("ID", "vtexid", "", IDMethods)
           MasterDataCalls      == Of("MasterData", "dataentities", "",
                                      MasterDataReads \cup MasterDataSearches \cup MasterDataWrites)
           PaymentProviderCalls == Of("PaymentProvider", "vtexpayments", "", PaymentMethods)
<1>2. Table = UNION {
        AppsCalls, RegistryCalls, AssetsCalls, VBaseCalls, RouterCalls, WorkspacesCalls,
        MetadataCalls, EventsCalls, HousekeeperCalls, SphinxCalls, BillingMetricsCalls,
        MessagesGraphQLCalls, CatalogGraphQLCalls, BuilderCalls, SettingsCalls,
        BillingCalls, SegmentCalls, SessionCalls, TenantCalls, LicenseManagerCalls, IDCalls,
        MasterDataCalls, PaymentProviderCalls}
  BY Zenon DEF Table
<1> DEFINE Keyed(methods) == \A m \in methods : WellKeyed(m)
<1>3. \A client, host, prefix, methods : Keyed(methods) => Keyed(Of(client, host, prefix, methods))
  BY OfWellKeyed
<1>4. /\ Keyed(AppsOperations \cup AppsLists \cup AppsReads \cup AppsDependencies)
      /\ Keyed(RegistryReads \cup RegistryFiles \cup RegistryWrites)
      /\ Keyed(AssetsMethods)
      /\ Keyed(VBaseReads \cup VBaseWrites)
      /\ Keyed(RouterMethods)
      /\ Keyed(WorkspacesMethods)
      /\ Keyed(MetadataMethods)
      /\ Keyed(EventsMethods)
      /\ Keyed(HousekeeperMethods)
      /\ Keyed(SphinxMethods)
      /\ Keyed(BillingMetricsMethods)
      /\ Keyed(MessagesMethods)
      /\ Keyed(CatalogMethods)
      /\ Keyed(BuilderMethods)
      /\ Keyed(SettingsMethods)
      /\ Keyed(BillingMethods)
      /\ Keyed(SegmentMethods)
      /\ Keyed(SessionMethods)
      /\ Keyed(TenantMethods)
      /\ Keyed(LicenseManagerMethods)
      /\ Keyed(IDMethods)
      /\ Keyed(MasterDataReads \cup MasterDataSearches \cup MasterDataWrites)
      /\ Keyed(PaymentMethods)
  BY <1>1, AssetsMethodsWellKeyed, RouterMethodsWellKeyed, WorkspacesMethodsWellKeyed,
     MetadataMethodsWellKeyed, EventsMethodsWellKeyed, HousekeeperMethodsWellKeyed,
     SphinxMethodsWellKeyed, BillingMetricsMethodsWellKeyed, MessagesMethodsWellKeyed,
     CatalogMethodsWellKeyed, BuilderMethodsWellKeyed, SettingsMethodsWellKeyed,
     BillingMethodsWellKeyed, SegmentMethodsWellKeyed, SessionMethodsWellKeyed,
     TenantMethodsWellKeyed, LicenseManagerMethodsWellKeyed, IDMethodsWellKeyed,
     PaymentMethodsWellKeyed
<1> HIDE DEF Keyed
<1>5. Keyed(AppsCalls) /\ Keyed(RegistryCalls) /\ Keyed(AssetsCalls) /\ Keyed(VBaseCalls) /\
        Keyed(RouterCalls) /\ Keyed(WorkspacesCalls)
  BY <1>3, <1>4, Zenon
<1>6. Keyed(MetadataCalls) /\ Keyed(EventsCalls) /\ Keyed(HousekeeperCalls) /\
        Keyed(SphinxCalls) /\ Keyed(BillingMetricsCalls) /\ Keyed(MessagesGraphQLCalls)
  BY <1>3, <1>4, Zenon
<1>7. Keyed(CatalogGraphQLCalls) /\ Keyed(BuilderCalls) /\ Keyed(SettingsCalls) /\
        Keyed(BillingCalls) /\ Keyed(SegmentCalls) /\ Keyed(SessionCalls)
  BY <1>3, <1>4, Zenon
<1>8. Keyed(TenantCalls) /\ Keyed(LicenseManagerCalls) /\ Keyed(IDCalls) /\
        Keyed(MasterDataCalls) /\ Keyed(PaymentProviderCalls)
  BY <1>3, <1>4, Zenon
<1> HIDE DEF AppsCalls, RegistryCalls, AssetsCalls, VBaseCalls, RouterCalls,
             WorkspacesCalls, MetadataCalls, EventsCalls, HousekeeperCalls, SphinxCalls,
             BillingMetricsCalls, MessagesGraphQLCalls, CatalogGraphQLCalls, BuilderCalls,
             SettingsCalls, BillingCalls, SegmentCalls, SessionCalls, TenantCalls,
             LicenseManagerCalls, IDCalls, MasterDataCalls, PaymentProviderCalls
<1>9. \A m \in Table : \E client \in {
        AppsCalls, RegistryCalls, AssetsCalls, VBaseCalls, RouterCalls, WorkspacesCalls,
        MetadataCalls, EventsCalls, HousekeeperCalls, SphinxCalls, BillingMetricsCalls,
        MessagesGraphQLCalls, CatalogGraphQLCalls, BuilderCalls, SettingsCalls,
        BillingCalls, SegmentCalls, SessionCalls, TenantCalls, LicenseManagerCalls, IDCalls,
        MasterDataCalls, PaymentProviderCalls} :
          m \in client
  BY <1>2
<1> QED BY <1>9, <1>5, <1>6, <1>7, <1>8 DEF Keyed

-----------------------------------------------------------------------------
\* Calls of one URL, all but the first by one method for one incoming request.
CallsAreAlike ==
    /\ DOMAIN call = Calls
    /\ \A c \in Calls : call[c].method \in Table
    /\ \A c, d \in Calls : call[c].method.url = call[d].method.url
    /\ \A c, d \in Calls : c # 1 /\ d # 1 =>
          call[c].method = call[d].method /\ call[c].locale = call[d].locale

\* What c may have read at the request of d.
ReadsTheSame(c, d) ==
    /\ Shareable(call[c].method) /\ Shareable(call[d].method)
    /\ Values(c, call[c].method.path) = Values(d, call[d].method.path)
    /\ Values(c, call[c].method.params) = Values(d, call[d].method.params)
    /\ call[c].locale # call[d].locale => call[c].method.key # "none"

\* A call that is new has no source but itself and serves no other.
CallsInv ==
    /\ CallsTypeOK
    /\ call = <<>> => \A c \in Calls : progress[c] = "new"
    /\ call # <<>> => CallsAreAlike
    /\ \A c \in Calls : progress[c] = "new" => source[c] = c
    /\ \A c \in Calls : source[c] # c =>
          /\ progress[source[c]] # "new"
          /\ ReadsTheSame(c, source[c])

\* Before a choice there are no calls.
LEMMA CallsInvInit == CallsInit => CallsInv
<1> SUFFICES ASSUME CallsInit PROVE CallsInv
  OBVIOUS
<1>1. DOMAIN call = {}
  BY DEF CallsInit
<1> QED BY <1>1 DEF CallsInit, CallsInv, CallsTypeOK

\* Calls are made in the initial state only, all of one URL.
LEMMA ChooseKeepsInv == CallsInv /\ Choose => CallsInv'
<1> SUFFICES ASSUME CallsInv, Choose PROVE CallsInv'
  OBVIOUS
<1>1. PICK m \in Table, n \in Table, requests \in {1, 2}, locales \in {1, 2} :
        /\ m.host = n.host /\ m.url = n.url
        /\ locales <= requests
        /\ \E differing \in {{}} \cup {{a} : a \in Arguments(n)} :
              call' = TwoCalls(m, n, requests, locales, differing)
  BY DEF Choose
<1>0. PICK differing : call' = TwoCalls(m, n, requests, locales, differing)
  BY <1>1
<1>2. \A c \in Calls :
        /\ call'[c].method = IF c = 1 THEN m ELSE n
        /\ call'[c].locale = IF c = 1 THEN 1 ELSE locales
  BY <1>0 DEF TwoCalls
<1>3. DOMAIN call' = Calls
  BY <1>0 DEF TwoCalls
<1>4. progress' = progress /\ source' = source /\ call = <<>>
  BY DEF Choose
<1>5. \A c \in Calls : progress'[c] = "new" /\ source'[c] = c
  BY <1>4 DEF CallsInv
<1>6. CallsAreAlike'
  BY <1>1, <1>2, <1>3 DEF CallsAreAlike
<1>7. CallsTypeOK'
  BY <1>3, <1>4, <1>6 DEF CallsTypeOK, CallsInv, CallsAreAlike
<1> QED BY <1>5, <1>6, <1>7 DEF CallsInv

\* What is said of two calls does not depend on how far they are.
LEMMA ReadsTheSameKept ==
  ASSUME call' = call
  PROVE  \A c, d : ReadsTheSame(c, d)' = ReadsTheSame(c, d)
BY DEF ReadsTheSame, Values

\* A call with the cacheKey of another has its locale, arguments and parameters.
LEMMA CacheKeysTell ==
  ASSUME NEW c, NEW d, CacheKey(c) = CacheKey(d)
  PROVE  /\ call[c].locale = call[d].locale
         /\ Values(c, call[c].method.path) = Values(d, call[d].method.path)
         /\ Values(c, call[c].method.params) = Values(d, call[d].method.params)
BY DEF CacheKey

\* A call with the inflightKey of another too, the locale excepted.
LEMMA FlightKeysTell ==
  ASSUME NEW c, NEW d, FlightKey(c) = FlightKey(d),
         call[c].method \in Table, call[d].method \in Table,
         call[c].method.key # "none", call[d].method.key # "none"
  PROVE  /\ Values(c, call[c].method.path) = Values(d, call[d].method.path)
         /\ Values(c, call[c].method.params) = Values(d, call[d].method.params)
<1> DEFINE m == call[c].method
           n == call[d].method
<1>1. /\ m.key = "query" \/ m.params = {}
      /\ n.key = "query" \/ n.params = {}
  BY TableWellKeyed DEF WellKeyed, Shareable
<1>2. /\ Values(c, m.path) = Values(d, n.path)
      /\ (IF m.key = "query" THEN Values(c, m.params) ELSE Values(c, {})) =
         (IF n.key = "query" THEN Values(d, n.params) ELSE Values(d, {}))
  BY DEF FlightKey
<1> HIDE DEF m, n
<1>3. Values(c, m.params) = Values(d, n.params)
  BY <1>1, <1>2
<1> QED BY <1>2, <1>3 DEF m, n

\* A call that asks at the request of one like it reads the same.
LEMMA AskKeepsInv ==
  ASSUME CallsInv, call # <<>>, NEW c \in Calls, progress[c] = "new",
         NEW d \in Calls, Ask(c, d),
         d # c => progress[d] # "new" /\ ReadsTheSame(c, d),
         d # c => source[d] = d \/ call[c].locale = call[d].locale
  PROVE  CallsInv'
<1>1. /\ call' = call
      /\ \A b \in Calls : progress'[b] = IF b = c THEN "asking" ELSE progress[b]
      /\ \A b \in Calls : source'[b] = IF b = c THEN source[d] ELSE source[b]
  BY DEF Ask, CallsInv, CallsTypeOK
<1>2. CallsTypeOK'
  BY DEF Ask, CallsInv, CallsTypeOK
<1>3. CallsAreAlike'
  BY <1>1 DEF CallsInv, CallsAreAlike
<1>4. \A b \in Calls : source[b] \in Calls
  BY DEF CallsInv, CallsTypeOK
<1>5. \A b \in Calls : progress'[b] = "new" => source'[b] = b
  BY <1>1 DEF CallsInv
<1>6. ASSUME NEW b \in Calls, source'[b] # b
      PROVE  (progress[source[b]] # "new" /\ ReadsTheSame(b, source[b]))'
  <2>1. CASE b # c
    BY <1>1, <1>4, <1>6, <2>1, ReadsTheSameKept DEF CallsInv
  <2>2. CASE b = c /\ source[d] = d
    BY <1>1, <1>6, <2>2, ReadsTheSameKept
  <2>3. CASE b = c /\ source[d] # d
    <3> DEFINE e == source[d]
    <3>1. d # c
      BY <2>3 DEF CallsInv
    <3>2. e \in Calls /\ e # c /\ source'[b] = e /\ progress[e] # "new" /\ ReadsTheSame(d, e)
      BY <1>1, <1>4, <2>3 DEF CallsInv
    <3>3. ReadsTheSame(c, d) /\ call[c].locale = call[d].locale
      BY <2>3, <3>1
    <3>4. call[c].locale # call[e].locale => call[c].method.key # "none"
      BY <3>1, <3>2, <3>3 DEF CallsInv, CallsAreAlike, ReadsTheSame
    <3> HIDE DEF e
    <3>5. ReadsTheSame(c, e)
      BY <3>2, <3>3, <3>4 DEF ReadsTheSame
    <3> QED BY <1>1, <2>3, <3>2, <3>5, ReadsTheSameKept
  <2> QED BY <2>1, <2>2, <2>3
<1> QED BY <1>1, <1>2, <1>3, <1>5, <1>6 DEF CallsInv

\* Every step keeps the invariant.
LEMMA CallsInvInductive == CallsInv /\ [CallsNext]_callVars => CallsInv'
<1> SUFFICES ASSUME CallsInv, [CallsNext]_callVars PROVE CallsInv'
  OBVIOUS
<1>1. CASE Choose
  BY <1>1, ChooseKeepsInv
<1>2. ASSUME NEW c \in DOMAIN call PROVE call # <<>> /\ c \in Calls /\ CallsAreAlike
  <2>1. call # <<>>
    BY <1>2
  <2> QED BY <1>2, <2>1 DEF CallsInv, CallsAreAlike
<1>3. ASSUME NEW c \in DOMAIN call, Refuse(c) \/ Answer(c) PROVE CallsInv'
  <2>1. /\ call' = call /\ source' = source /\ c \in Calls /\ call # <<>>
        /\ \A b \in Calls : progress'[b] = "new" <=> progress[b] = "new" /\ b # c
        /\ progress' \in [Calls -> {"new", "asking", "answered", "refused"}]
    BY <1>2, <1>3 DEF Refuse, Answer, CallsInv, CallsTypeOK
  <2>2. \A b \in Calls : source[b] \in Calls
    BY DEF CallsInv, CallsTypeOK
  <2>3. CallsTypeOK' /\ CallsAreAlike'
    BY <2>1, <1>2 DEF CallsInv, CallsTypeOK, CallsAreAlike
  <2>4. \A b \in Calls : source'[b] # b =>
          (progress[source[b]] # "new" /\ ReadsTheSame(b, source[b]))'
    BY <2>1, <2>2, ReadsTheSameKept DEF CallsInv
  <2> QED BY <2>1, <2>3, <2>4 DEF CallsInv
<1>4. ASSUME NEW c \in DOMAIN call, AwaitMemoized(c) PROVE CallsInv'
  <2>1. PICK d \in Memoized(c) : Ask(c, d)
    BY <1>4 DEF AwaitMemoized
  <2>2. d \in Calls /\ d # c /\ progress[d] # "new" /\ CacheKey(c) = CacheKey(d)
        /\ Shareable(call[c].method) /\ Shareable(call[d].method)
    BY <2>1 DEF Memoized, Shareable
  <2>3. ReadsTheSame(c, d) /\ call[c].locale = call[d].locale
    BY <2>2, CacheKeysTell DEF ReadsTheSame
  <2> QED BY <1>2, <1>4, <2>1, <2>2, <2>3, AskKeepsInv DEF AwaitMemoized
<1>5. ASSUME NEW c \in DOMAIN call, JoinFlight(c) PROVE CallsInv'
  <2>1. PICK d \in Flights(c) : Ask(c, d)
    BY <1>5 DEF JoinFlight
  <2>2. d \in Calls /\ d # c /\ progress[d] # "new" /\ source[d] = d
        /\ FlightKey(c) = FlightKey(d)
        /\ call[c].method.key # "none" /\ call[d].method.key # "none"
    BY <2>1 DEF Flights
  <2>3. ReadsTheSame(c, d)
    BY <1>2, <2>2, FlightKeysTell DEF ReadsTheSame, Shareable, CallsAreAlike
  <2> QED BY <1>2, <1>5, <2>1, <2>2, <2>3, AskKeepsInv DEF JoinFlight
<1>6. ASSUME NEW c \in DOMAIN call, AskCacheOrOrigin(c) PROVE CallsInv'
  <2>1. PICK d \in Cached(c) \cup {c} : Ask(c, d)
    BY <1>6 DEF AskCacheOrOrigin
  <2>2. CASE d = c
    BY <1>2, <1>6, <2>1, <2>2, AskKeepsInv DEF AskCacheOrOrigin
  <2>3. CASE d \in Cached(c)
    <3>1. d \in Calls /\ d # c /\ progress[d] # "new" /\ CacheKey(c) = CacheKey(d)
          /\ Shareable(call[c].method) /\ Shareable(call[d].method)
      BY <2>3 DEF Cached, Shareable
    <3>2. ReadsTheSame(c, d) /\ call[c].locale = call[d].locale
      BY <3>1, CacheKeysTell DEF ReadsTheSame
    <3> QED BY <1>2, <1>6, <2>1, <3>1, <3>2, AskKeepsInv DEF AskCacheOrOrigin
  <2> QED BY <2>1, <2>2, <2>3
<1>7. CASE UNCHANGED callVars
  BY <1>7, ReadsTheSameKept DEF callVars, CallsInv, CallsTypeOK, CallsAreAlike
<1> QED BY <1>1, <1>3, <1>4, <1>5, <1>6, <1>7 DEF CallsNext

\* The invariant says that shared answers match: only reads are shared, and outside
\* of MixedURLs only those that take JSON without extras.
LEMMA CallsInvImplies == CallsInv => SharedAnswersMatch
<1> SUFFICES ASSUME CallsInv, NEW c \in DOMAIN call
             PROVE  LET d == source[c] IN
                    /\ d # c =>
                        /\ call[c].method.verb = "get" /\ call[d].method.verb = "get"
                        /\ Values(c, call[c].method.path) = Values(d, call[d].method.path)
                        /\ Values(c, call[c].method.params) = Values(d, call[d].method.params)
                        /\ call[c].locale # call[d].locale => call[c].method.key # "none"
                    /\ call[c].method.url \notin MixedURLs =>
                        /\ call[c].method.type = call[d].method.type
                        /\ Values(c, call[c].method.extras) = Values(d, call[d].method.extras)
  BY DEF SharedAnswersMatch, ContentIsOwn, ShapeIsOwn
<1> DEFINE d == source[c]
           m == call[c].method
           n == call[d].method
<1>1. call # <<>>
  OBVIOUS
<1>2. CallsAreAlike /\ c \in Calls /\ d \in Calls
  BY <1>1 DEF CallsInv, CallsAreAlike, CallsTypeOK
<1>3. m \in Table /\ n \in Table /\ m.url = n.url
  BY <1>2 DEF CallsAreAlike
<1>4. CASE d = c
  BY <1>4
<1>5. CASE d # c
  <2>1. ReadsTheSame(c, d)
    BY <1>2, <1>5 DEF CallsInv
  <2>2. /\ m.verb = "get" /\ n.verb = "get"
        /\ m.url \in MixedURLs \/ (m.type = "json" /\ m.extras = {})
        /\ n.url \in MixedURLs \/ (n.type = "json" /\ n.extras = {})
    BY <1>3, <2>1, TableWellKeyed DEF WellKeyed, ReadsTheSame
  <2>3. Values(c, {}) = Values(d, {})
    BY DEF Values
  <2> HIDE DEF d, m, n
  <2>4. m.url \notin MixedURLs => m.type = n.type /\ Values(c, m.extras) = Values(d, n.extras)
    BY <1>3, <2>2, <2>3
  <2> QED BY <2>1, <2>2, <2>4 DEF ReadsTheSame, d, m, n
<1> QED BY <1>4, <1>5

\* What a call gets by another call's request is what it asked for, whatever the
\* calls and their steps: HttpClient's keys and the config of every client's method.
THEOREM SharedReadsMatch == CallsSpec => []SharedAnswersMatch
<1>1. CallsSpec => []CallsInv
  BY CallsInvInit, CallsInvInductive, PTL DEF CallsSpec
<1> QED BY <1>1, CallsInvImplies, PTL

-----------------------------------------------------------------------------
(* The meta infos on disk.                                                   *)

\* Nothing in the queue of a process that is of one of the locales X is newer than n.
UpTo(ws, X, n) == \A j \in 1..Len(ws) : ws[j].locale \in X => ws[j].version <= n

\* Neither the disk nor what is before it in the queue is undone by a write.
InOrder(ws, d) == \A j \in 1..Len(ws) :
    Follows(d, ws[j]) /\ \A i \in 1..j : Follows(ws[i], ws[j])

OwnWrites == \A w \in Workers : \A j \in 1..Len(writes[w]) : writes[w][j].worker = w

WritesInOrder == \A w \in Workers : InOrder(writes[w], disk)

\* At most one request is under way in a process, and memory has nothing for it; none
\* is of a call that has not asked yet; and a client memoizes those of its process.
OneFlight ==
    /\ \A l, m \in underway : Worker(l) = Worker(m) => l = m
    /\ \A l \in underway : inMemory[Worker(l)][Locale(l)] = 0
    /\ \A c \in MetaCalls : await[c] \in {"begin", "disk"} =>
           c \notin underway /\ read[c] = 0 /\ \A r \in Incoming : memoized[r] # c
    /\ \A r \in Incoming : memoized[r] # NoCall => Worker(memoized[r]) = WorkerOf[r]

\* n is not older than anything process w has read for one of the locales X, whether
\* it is on disk or may still get there.
Newest(w, X, n) ==
    /\ disk.worker = w /\ disk.locale \in X => disk.version <= n
    /\ UpTo(writes[w], X, n)
    /\ \A m \in MetaCalls : Worker(m) = w /\ Locale(m) \in X => read[m] <= n

PublishedIsNewest ==
    /\ \A w \in Workers : Newest(w, Locales, published)
    /\ \A w \in Workers, x \in Locales : inMemory[w][x] <= published

FlightsAreNewest ==
    \A l \in underway : read[l] # 0 => Newest(Worker(l), Locales, read[l])

KeptIsNewest ==
    \A w \in Workers, x \in Locales : inMemory[w][x] # 0 => Newest(w, {x}, inMemory[w][x])

Ages == PublishedIsNewest /\ FlightsAreNewest /\ KeptIsNewest

MetaInv == MetaTypeOK /\ OneFlight /\ OwnWrites /\ WritesInOrder /\ Ages

LEMMA CallsPlaced ==
    \A c \in MetaCalls : /\ RequestOf[c] \in Incoming
                         /\ Worker(c) \in Workers /\ Locale(c) \in Locales
BY MetaAssumption DEF Incoming, Worker, Locale

LEMMA VersionsTyped ==
    ASSUME MetaTypeOK
    PROVE  /\ published \in Nat /\ MaxPublished \in Nat /\ disk.version \in Nat
           /\ \A m \in MetaCalls : read[m] \in Nat
           /\ \A w \in Workers : writes[w] \in Seq(Lists)
           /\ \A w \in Workers : \A j \in 1..Len(writes[w]) :
                 writes[w][j] \in Lists /\ writes[w][j].version \in Nat
           /\ \A w \in Workers, x \in Locales : inMemory[w][x] \in Nat
<1>1. /\ published \in Nat /\ MaxPublished \in Nat
      /\ \A m \in MetaCalls : read[m] \in Nat
      /\ \A w \in Workers : writes[w] \in Seq(Lists)
      /\ \A w \in Workers, x \in Locales : inMemory[w][x] \in Nat
  BY MetaAssumption DEF MetaTypeOK
<1>2. disk.version \in Nat
  BY <1>1 DEF MetaTypeOK, Lists, NoList
<1>3. \A w \in Workers : \A j \in 1..Len(writes[w]) : writes[w][j] \in Lists
  BY <1>1, ElementOfSeq
<1>4. \A s \in Lists : s.version \in Nat
  BY <1>1 DEF Lists
<1> QED BY <1>1, <1>2, <1>3, <1>4

-----------------------------------------------------------------------------
(* The queue.                                                              *)

LEMMA UpToConcat ==
    ASSUME NEW ws \in Seq(Lists), NEW vs \in Seq(Lists), NEW X, NEW n, UpTo(ws, X, n), UpTo(vs, X, n)
    PROVE  UpTo(ws \o vs, X, n)
BY ConcatProperties DEF UpTo

\* Behind a queue in order, writes of one list that undo nothing before them.
LEMMA InOrderConcat ==
    ASSUME NEW ws \in Seq(Lists), NEW vs \in Seq(Lists), NEW d, NEW b, InOrder(ws, d),
           \A j \in 1..Len(vs) : vs[j] = b,
           Follows(d, b), \A i \in 1..Len(ws) : Follows(ws[i], b), Follows(b, b)
    PROVE  InOrder(ws \o vs, d)
<1> SUFFICES ASSUME NEW j \in 1..Len(ws \o vs)
             PROVE  /\ Follows(d, (ws \o vs)[j])
                    /\ \A i \in 1..j : Follows((ws \o vs)[i], (ws \o vs)[j])
  BY DEF InOrder
<1>1. CASE j <= Len(ws)
  <2>1. j \in 1..Len(ws) /\ \A i \in 1..j : (ws \o vs)[i] = ws[i]
    BY <1>1, ConcatProperties
  <2> QED BY <2>1 DEF InOrder
<1>2. CASE j > Len(ws)
  <2>1. (ws \o vs)[j] = b
    BY <1>2, ConcatProperties
  <2>2. ASSUME NEW i \in 1..j PROVE Follows((ws \o vs)[i], b)
    <3>1. CASE i <= Len(ws)
      <4>1. i \in 1..Len(ws) /\ (ws \o vs)[i] = ws[i]
        BY <3>1, ConcatProperties
      <4> QED BY <4>1
    <3>2. CASE i > Len(ws)
      <4>1. i - Len(ws) \in 1..Len(vs) /\ (ws \o vs)[i] = vs[i - Len(ws)]
        BY <3>2, ConcatProperties, LenProperties
      <4> QED BY <4>1
    <3> QED BY <3>1, <3>2, LenProperties
  <2> QED BY <2>1, <2>2
<1> QED BY <1>1, <1>2, LenProperties

LEMMA InOrderTail ==
    ASSUME NEW ws \in Seq(Lists), ws # <<>>, NEW d, InOrder(ws, d)
    PROVE  /\ Tail(ws) \in Seq(Lists) /\ Head(ws) \in Lists /\ Head(ws) = ws[1] /\ 1 \in 1..Len(ws)
           /\ \A j \in 1..Len(Tail(ws)) : j + 1 \in 1..Len(ws) /\ Tail(ws)[j] = ws[j + 1]
           /\ InOrder(Tail(ws), d) /\ InOrder(Tail(ws), Head(ws))
           /\ Follows(d, Head(ws))
<1>1. /\ Tail(ws) \in Seq(Lists) /\ Len(ws) \in Nat \ {0} /\ Head(ws) = ws[1]
      /\ Len(Tail(ws)) = Len(ws) - 1 /\ Head(ws) \in Lists
      /\ \A i \in 1..Len(Tail(ws)) : Tail(ws)[i] = ws[i + 1]
  BY HeadTailProperties, LenProperties, EmptySeq
<1>2. InOrder(Tail(ws), d) /\ InOrder(Tail(ws), Head(ws))
  <2> SUFFICES ASSUME NEW j \in 1..Len(Tail(ws))
               PROVE  /\ Follows(d, Tail(ws)[j]) /\ Follows(ws[1], Tail(ws)[j])
                      /\ \A i \in 1..j : Follows(Tail(ws)[i], Tail(ws)[j])
    BY <1>1 DEF InOrder
  <2>1. j + 1 \in 1..Len(ws) /\ Tail(ws)[j] = ws[j + 1] /\ 1 \in 1..(j + 1)
    BY <1>1
  <2>2. \A i \in 1..j : i + 1 \in 1..(j + 1) /\ Tail(ws)[i] = ws[i + 1]
    BY <1>1
  <2> QED BY <2>1, <2>2 DEF InOrder
<1>3. Follows(d, Head(ws))
  BY <1>1 DEF InOrder
<1> QED BY <1>1, <1>2, <1>3

-----------------------------------------------------------------------------
(* Steps in which a process reads a version, queues it, or both.             *)

\* The writes of version v, read by process w for locale x.
Copies(vs, v, from, w, x) ==
    /\ vs \in Seq(Lists)
    /\ \A j \in 1..Len(vs) : vs[j] = [version |-> v, source |-> from, worker |-> w, locale |-> x]

\* vs is queued, and reads are v, or nothing, or what they were.
Adds(vs, v, from, w, x) ==
    /\ Copies(vs, v, from, w, x)
    /\ disk' = disk
    /\ writes' = [writes EXCEPT ![w] = @ \o vs]
    /\ \A m \in MetaCalls : \/ read'[m] = read[m] \/ read'[m] = 0
                            \/ Worker(m) = w /\ Locale(m) = x /\ read'[m] = v

LEMMA NoCopies == \A v, from, w, x : Copies(<<>>, v, from, w, x)
<1>1. <<>> \in Seq(Lists) /\ 1..Len(<<>>) = {}
  BY EmptySeq
<1> QED BY <1>1 DEF Copies

\* One write behind the others.
LEMMA OneCopy ==
    ASSUME NEW v \in 1..MaxPublished, NEW from \in Sources, NEW w \in Workers, NEW x \in Locales
    PROVE  Copies(<<[version |-> v, source |-> from, worker |-> w, locale |-> x]>>, v, from, w, x)
<1> DEFINE s == [version |-> v, source |-> from, worker |-> w, locale |-> x]
           vs == <<s>>
<1>1. s \in Lists
  BY DEF Lists
<1> HIDE DEF s
<1>2. vs \in Seq(Lists) /\ Len(vs) = 1 /\ vs[1] = s
  BY <1>1
<1> HIDE DEF vs
<1>3. \A j \in 1..Len(vs) : vs[j] = s
  BY <1>2
<1> QED BY <1>2, <1>3 DEF Copies, vs, s

LEMMA QueueUnchanged ==
    ASSUME MetaTypeOK, NEW w \in Workers
    PROVE  writes = [writes EXCEPT ![w] = @ \o <<>>]
<1>1. writes[w] \o <<>> = writes[w]
  BY ConcatEmptySeq DEF MetaTypeOK
<1> QED BY <1>1 DEF MetaTypeOK

\* What is newest stays so unless what is added is newer.
LEMMA AddsNewest ==
    ASSUME MetaTypeOK, NEW w \in Workers, NEW X, NEW n \in Nat, Newest(w, X, n),
           NEW vs, NEW v, NEW from, NEW ww \in Workers, NEW x, Adds(vs, v, from, ww, x),
           w = ww /\ x \in X => v <= n
    PROVE  Newest(w, X, n)'
<1>1. UpTo(writes'[w], X, n)
  <2>1. CASE w = ww
    <3>1. writes'[w] = writes[w] \o vs /\ writes[w] \in Seq(Lists) /\ vs \in Seq(Lists)
      BY <2>1 DEF Adds, Copies, MetaTypeOK
    <3>2. UpTo(vs, X, n)
      BY <2>1 DEF Adds, Copies, UpTo
    <3>3. UpTo(writes[w], X, n)
      BY DEF Newest
    <3> QED BY <3>1, <3>2, <3>3, UpToConcat
  <2>2. CASE w # ww
    <3>1. writes'[w] = writes[w]
      BY <2>2 DEF Adds, MetaTypeOK
    <3> QED BY <3>1 DEF Newest
  <2> QED BY <2>1, <2>2
<1>2. \A m \in MetaCalls : Worker(m) = w /\ Locale(m) \in X => read'[m] <= n
  BY DEF Newest, Adds
<1>3. disk' = disk
  BY DEF Adds
<1> QED BY <1>1, <1>2, <1>3 DEF Newest

\* What may be queued without undoing anything: what is memoized, what is not older
\* than anything of its locale from memory, or than anything at all from the origin.
Timely(v, from, w, x) ==
    \/ from = "memo"
    \/ from = "memory" /\ Newest(w, {x}, v)
    \/ from = "origin" /\ Newest(w, Locales, v)

LEMMA TimelyFollows ==
    ASSUME MetaInv, NEW v \in Nat, NEW from, NEW w \in Workers, NEW x \in Locales,
           Timely(v, from, w, x), NEW b, b = [version |-> v, source |-> from, worker |-> w, locale |-> x]
    PROVE  /\ Follows(disk, b) /\ Follows(b, b)
           /\ \A i \in 1..Len(writes[w]) : Follows(writes[w][i], b)
<1>1. b.version = v /\ b.source = from /\ b.worker = w /\ b.locale = x
  OBVIOUS
<1>2. \A i \in 1..Len(writes[w]) : writes[w][i].locale \in Locales
  BY VersionsTyped DEF MetaInv, Lists
<1>3. disk.worker = w /\ disk.locale \notin Locales => disk.version = 0
  BY DEF MetaInv, MetaTypeOK, Lists, NoList
<1>4. Follows(b, b)
  BY <1>1 DEF Follows
<1>5. CASE from = "memo"
  BY <1>1, <1>4, <1>5 DEF Follows
<1>6. CASE from = "memory" /\ Newest(w, {x}, v)
  BY <1>1, <1>4, <1>6 DEF Follows, Newest, UpTo
<1>7. CASE from = "origin" /\ Newest(w, Locales, v)
  <2>1. Follows(disk, b)
    BY <1>1, <1>3, <1>7 DEF Follows, Newest
  <2>2. \A i \in 1..Len(writes[w]) : Follows(writes[w][i], b)
    BY <1>1, <1>2, <1>7 DEF Follows, Newest, UpTo
  <2> QED BY <1>4, <2>1, <2>2
<1> QED BY <1>5, <1>6, <1>7 DEF Timely

LEMMA AddsInOrder ==
    ASSUME MetaInv, NEW vs, NEW v \in Nat, NEW from, NEW w \in Workers, NEW x \in Locales,
           Adds(vs, v, from, w, x), Timely(v, from, w, x)
    PROVE  OwnWrites' /\ WritesInOrder' /\ writes' \in [Workers -> Seq(Lists)]
<1> DEFINE b == [version |-> v, source |-> from, worker |-> w, locale |-> x]
<1>0. /\ MetaTypeOK /\ OwnWrites /\ WritesInOrder /\ disk' = disk
      /\ vs \in Seq(Lists) /\ \A j \in 1..Len(vs) : vs[j] = b
  BY DEF MetaInv, Adds, Copies
<1>1. /\ writes[w] \in Seq(Lists) /\ writes'[w] = writes[w] \o vs
      /\ \A u \in Workers \ {w} : writes'[u] = writes[u]
      /\ DOMAIN writes = Workers
  BY <1>0 DEF MetaTypeOK, Adds
<1>2. b.worker = w
  OBVIOUS
<1>3. /\ Follows(disk, b) /\ Follows(b, b)
      /\ \A i \in 1..Len(writes[w]) : Follows(writes[w][i], b)
  BY TimelyFollows
<1> HIDE DEF b
<1>4. InOrder(writes'[w], disk)
  BY <1>0, <1>1, <1>3, InOrderConcat DEF WritesInOrder
<1>5. \A j \in 1..Len(writes'[w]) : writes'[w][j].worker = w
  <2>1. \A j \in 1..Len(writes[w]) : writes[w][j].worker = w
    BY <1>0 DEF OwnWrites
  <2> QED BY <1>0, <1>1, <1>2, <2>1, ConcatProperties
<1>6. writes' \in [Workers -> Seq(Lists)]
  BY <1>0, <1>1, ConcatProperties DEF Adds, MetaTypeOK
<1> QED BY <1>0, <1>1, <1>4, <1>5, <1>6 DEF OwnWrites, WritesInOrder

-----------------------------------------------------------------------------

LEMMA InitMetaInv == MetaInit => MetaInv
<1> SUFFICES ASSUME MetaInit PROVE MetaInv
  OBVIOUS
<1>0. \A w \in Workers : writes[w] = <<>> /\ 1..Len(writes[w]) = {} /\ writes[w] \in Seq(Lists)
  BY EmptySeq DEF MetaInit
<1>1. MetaTypeOK
  <2>1. writes \in [Workers -> Seq(Lists)]
    BY <1>0 DEF MetaInit
  <2>2. inMemory \in [Workers -> [Locales -> 0..MaxPublished]]
    BY MetaAssumption DEF MetaInit
  <2> QED BY <2>1, <2>2, MetaAssumption DEF MetaInit, MetaTypeOK
<1>2. OneFlight
  BY MetaAssumption DEF MetaInit, OneFlight
<1>3. OwnWrites /\ WritesInOrder
  BY <1>0 DEF OwnWrites, WritesInOrder, InOrder
<1>4. \A w \in Workers : \A X : \A n \in Nat : Newest(w, X, n)
  BY <1>0 DEF MetaInit, Newest, UpTo, NoList
<1>5. \A w \in Workers, x \in Locales : inMemory[w][x] \in {0, 1}
  BY MetaAssumption DEF MetaInit
<1>6. Ages
  BY <1>4, <1>5 DEF MetaInit, Ages, PublishedIsNewest, FlightsAreNewest, KeptIsNewest
<1> QED BY <1>1, <1>2, <1>3, <1>6 DEF MetaInv

\* The entries of memory after a step that adds v: gone, as they were, or v itself.
MemoryAfter(v, w, x) ==
    \A u \in Workers, y \in Locales : inMemory'[u][y] # 0 =>
        \/ inMemory'[u][y] = inMemory[u][y] /\ (u = w /\ y = x => v <= inMemory[u][y])
        \/ inMemory'[u][y] = v /\ u = w /\ y = x /\ Newest(w, {x}, v)

\* Its flights: as they were, or just answered by the origin.
FlightsAfter(v, w) ==
    /\ underway' \subseteq MetaCalls
    /\ \A l \in underway' : read'[l] # 0 =>
          \/ l \in underway /\ read'[l] = read[l] /\ (Worker(l) = w => v <= read[l])
          \/ read'[l] = published

\* The ages after a step that adds version v.
LEMMA AddsKeepsAges ==
    ASSUME MetaInv, NEW vs, NEW v \in Nat, NEW from, NEW w \in Workers, NEW x \in Locales,
           Adds(vs, v, from, w, x), v <= published,
           published' = published, MemoryAfter(v, w, x), FlightsAfter(v, w)
    PROVE  Ages'
<1>0. MetaTypeOK /\ PublishedIsNewest /\ FlightsAreNewest /\ KeptIsNewest
  BY DEF MetaInv, Ages
<1>1. PublishedIsNewest'
  <2>1. \A u \in Workers : Newest(u, Locales, published)'
    BY <1>0, VersionsTyped, AddsNewest DEF PublishedIsNewest
  <2>2. ASSUME NEW u \in Workers, NEW y \in Locales PROVE inMemory'[u][y] <= published
    <3>1. inMemory'[u][y] = 0 \/ inMemory'[u][y] = inMemory[u][y] \/ inMemory'[u][y] = v
      BY DEF MemoryAfter
    <3> QED BY <1>0, <3>1, VersionsTyped DEF PublishedIsNewest
  <2> QED BY <2>1, <2>2 DEF PublishedIsNewest
<1>2. KeptIsNewest'
  <2> SUFFICES ASSUME NEW u \in Workers, NEW y \in Locales, inMemory'[u][y] # 0,
                      NEW n \in Nat, n = inMemory'[u][y]
               PROVE  Newest(u, {y}, n)'
    <3>1. \A u \in Workers, y \in Locales : inMemory'[u][y] # 0 => inMemory'[u][y] \in Nat
      BY <1>0, VersionsTyped DEF MemoryAfter
    <3> QED BY <3>1 DEF KeptIsNewest, Newest, UpTo
  <2>1. CASE n = inMemory[u][y] /\ (u = w /\ y = x => v <= n)
    <3>1. Newest(u, {y}, n)
      BY <1>0, <2>1 DEF KeptIsNewest
    <3> QED BY <1>0, <2>1, <3>1, AddsNewest
  <2>2. CASE n = v /\ u = w /\ y = x /\ Newest(w, {x}, v)
    BY <1>0, <2>2, AddsNewest
  <2> QED BY <2>1, <2>2 DEF MemoryAfter
<1>3. FlightsAreNewest'
  <2> SUFFICES ASSUME NEW l \in underway', read'[l] # 0
               PROVE  (Newest(Worker(l), Locales, read[l]))'
    BY DEF FlightsAreNewest
  <2>0. l \in MetaCalls
    BY DEF FlightsAfter
  <2>1. CASE l \in underway /\ read'[l] = read[l] /\ (Worker(l) = w => v <= read[l])
    <3>1. l \in MetaCalls /\ read[l] \in Nat /\ Worker(l) \in Workers
      BY <1>0, <2>1, VersionsTyped, CallsPlaced DEF MetaTypeOK
    <3>2. Newest(Worker(l), Locales, read[l])
      BY <1>0, <2>1 DEF FlightsAreNewest
    <3>3. ASSUME NEW n \in Nat, n = read[l] PROVE Newest(Worker(l), Locales, n)'
      BY <1>0, <3>1, <3>2, <3>3, <2>1, AddsNewest
    <3> QED BY <3>1, <3>3, <2>1 DEF Newest
  <2>2. CASE read'[l] = published
    <3>1. (Newest(Worker(l), Locales, published))'
      BY <1>1, <2>0, CallsPlaced DEF PublishedIsNewest
    <3> QED BY <3>1, <2>2 DEF Newest
  <2> QED BY <2>1, <2>2 DEF FlightsAfter
<1> QED BY <1>1, <1>2, <1>3 DEF Ages

\* A step that adds a timely version to the queue of its process, or nothing.
LEMMA AddsKeepsInv ==
    ASSUME MetaInv, NEW vs, NEW v \in Nat, NEW from, NEW w \in Workers, NEW x \in Locales,
           Adds(vs, v, from, w, x), Timely(v, from, w, x), v <= published,
           published' = published, MemoryAfter(v, w, x), FlightsAfter(v, w),
           (writes' \in [Workers -> Seq(Lists)]) => MetaTypeOK', OneFlight'
    PROVE  MetaInv'
BY AddsInOrder, AddsKeepsAges DEF MetaInv

\* What leader l is served by an answer it had before, or by memory, goes to the queue of
\* the process of call c, which has no flight, or one that is newer.
LEMMA LeaderPlaced ==
    ASSUME MetaInv, NEW c \in MetaCalls, await[c] \in {"begin", "disk"}
    PROVE  /\ Leader(c) \in MetaCalls /\ Worker(Leader(c)) = Worker(c)
           /\ Leader(c) = c => UnderwayIn(Worker(c)) = {}
           /\ \A d \in MetaCalls : d # c /\ await[d] \in {"begin", "disk"} => Leader(c) # d
<1> DEFINE m == memoized[RequestOf[c]]
           F == UnderwayIn(Worker(c))
<1>0. /\ MetaTypeOK /\ OneFlight /\ RequestOf[c] \in Incoming /\ NoCall \notin MetaCalls
      /\ m \in MetaCalls \cup {NoCall} /\ m # c
  BY CallsPlaced, MetaAssumption DEF MetaInv, MetaTypeOK, OneFlight
<1>1. F \subseteq MetaCalls /\ (\A l \in F : Worker(l) = Worker(c) /\ l \in underway)
  BY <1>0 DEF UnderwayIn, MetaTypeOK
<1>2. CASE m # NoCall
  <2>1. Leader(c) = m
    BY <1>2 DEF Leader
  <2>2. Worker(m) = Worker(c)
    BY <1>0, <1>2 DEF OneFlight, Worker
  <2> QED BY <1>0, <1>2, <2>1, <2>2 DEF OneFlight
<1>3. CASE m = NoCall /\ F # {}
  <2>1. Leader(c) = CHOOSE l \in F : TRUE
    BY <1>3 DEF Leader
  <2> HIDE DEF F
  <2>2. Leader(c) \in F
    BY <1>3, <2>1
  <2> QED BY <1>0, <1>1, <2>2 DEF OneFlight
<1>4. CASE m = NoCall /\ F = {}
  BY <1>4 DEF Leader
<1> QED BY <1>2, <1>3, <1>4

\* A call that asks joins what is memoized or under way, begins the only flight of its
\* process, or is served by memory.
LEMMA FetchKeepsInv ==
    ASSUME MetaInv, NEW c \in MetaCalls, await[c] \in {"begin", "disk"},
           NEW stale \in 0..MaxPublished, Fetch(c, stale)
    PROVE  MetaInv'
<1> DEFINE l == Leader(c)
           w == Worker(c)
<1>0. /\ MetaTypeOK /\ OneFlight /\ PublishedIsNewest /\ FlightsAreNewest /\ KeptIsNewest
      /\ RequestOf[c] \in Incoming /\ w \in Workers /\ Locale(c) \in Locales
      /\ c \notin underway /\ read[c] = 0
  BY CallsPlaced DEF MetaInv, Ages, OneFlight
<1>00. /\ published \in Nat /\ MaxPublished \in Nat /\ \A m \in MetaCalls : read[m] \in Nat
       /\ \A u \in Workers, y \in Locales : inMemory[u][y] \in Nat
  BY <1>0, VersionsTyped
<1>1. /\ l \in MetaCalls /\ Worker(l) = w /\ (l = c => UnderwayIn(w) = {})
      /\ \A d \in MetaCalls : d # c /\ await[d] \in {"begin", "disk"} => l # d
  BY LeaderPlaced
<1> HIDE DEF l
<1>2. /\ published' = published /\ disk' = disk /\ inMemory' = inMemory
      /\ leader' = [leader EXCEPT ![c] = l] /\ memoized' = [memoized EXCEPT ![RequestOf[c]] = l]
      /\ Asks(c, l, stale) \/ FromMemory(c, l, stale) \/ FromMemo(c, l, stale)
  BY DEF Fetch, l
<1>3. ASSUME await' \in [MetaCalls -> {"begin", "disk", "request", "end"}],
             \A d \in MetaCalls : await'[d] \in {"begin", "disk"} =>
                d # c /\ await[d] \in {"begin", "disk"} /\ read'[d] = read[d],
             underway' = underway \/ (underway' = underway \cup {c} /\ l = c /\ inMemory[w][Locale(c)] = 0)
      PROVE  OneFlight'
  <2>1. \A d, e \in underway' : Worker(d) = Worker(e) => d = e
    BY <1>0, <1>1, <1>3 DEF OneFlight, UnderwayIn
  <2>2. \A d \in underway' : inMemory'[Worker(d)][Locale(d)] = 0
    BY <1>0, <1>2, <1>3 DEF OneFlight
  <2>3. ASSUME NEW d \in MetaCalls, await'[d] \in {"begin", "disk"}
        PROVE  d \notin underway' /\ read'[d] = 0 /\ \A r \in Incoming : memoized'[r] # d
    <3>1. d # c /\ await[d] \in {"begin", "disk"} /\ read'[d] = read[d]
      BY <1>3, <2>3
    <3>2. d \notin underway' /\ read'[d] = 0
      BY <1>0, <1>3, <3>1 DEF OneFlight
    <3>3. \A r \in Incoming : memoized[r] # d
      BY <1>0, <3>1 DEF OneFlight
    <3> QED BY <1>0, <1>1, <1>2, <3>1, <3>2, <3>3 DEF MetaTypeOK
  <2>4. \A r \in Incoming : memoized'[r] # NoCall => Worker(memoized'[r]) = WorkerOf[r]
    BY <1>0, <1>1, <1>2 DEF OneFlight, MetaTypeOK, Worker
  <2> QED BY <2>1, <2>2, <2>3, <2>4 DEF OneFlight
<1>4. CASE Asks(c, l, stale)
  <2>1. /\ UNCHANGED <<writes, read>>
        /\ underway' = underway \/ (underway' = underway \cup {c} /\ l = c /\ inMemory[w][Locale(c)] = 0)
    BY <1>4 DEF Asks
  <2>2. OneFlight'
    BY <1>0, <1>3, <1>4, <2>1 DEF Asks, MetaTypeOK
  <2>3. MetaTypeOK'
    BY <1>0, <1>1, <1>2, <1>4, <2>1 DEF Asks, MetaTypeOK
  <2>4. Adds(<<>>, 0, "memo", w, Locale(c))
    BY <1>0, <1>2, <2>1, NoCopies, QueueUnchanged DEF Adds
  <2>5. MemoryAfter(0, w, Locale(c)) /\ FlightsAfter(0, w) /\ Timely(0, "memo", w, Locale(c))
    BY <1>0, <1>00, <1>2, <2>1 DEF MemoryAfter, FlightsAfter, Timely, MetaTypeOK
  <2> QED BY <1>0, <1>00, <1>2, <2>2, <2>3, <2>4, <2>5, AddsKeepsInv
<1>5. CASE FromMemory(c, l, stale)
  <2> DEFINE v == inMemory[w][Locale(c)]
             vs == <<[version |-> v, source |-> "memory", worker |-> w, locale |-> Locale(c)]>>
  <2>1. /\ l = c /\ v # 0 /\ v \in 1..MaxPublished /\ v <= published
        /\ underway' = underway /\ read' = [read EXCEPT ![c] = v]
    BY <1>0, <1>00, <1>5 DEF FromMemory, PublishedIsNewest, MetaTypeOK
  <2>2. writes' = [writes EXCEPT ![w] = Append(@, [version |-> v, source |-> "memory",
                                                    worker |-> w, locale |-> Locale(c)])]
    <3>1. WriteOf(c, "memory")' = [version |-> read'[c], source |-> "memory",
                                   worker |-> w, locale |-> Locale(c)]
      BY DEF WriteOf
    <3>2. read'[c] = v
      BY <1>0, <2>1 DEF MetaTypeOK
    <3> QED BY <1>5, <3>1, <3>2 DEF FromMemory
  <2>3. Copies(vs, v, "memory", w, Locale(c))
    BY <1>0, <2>1, OneCopy DEF Sources
  <2>4. writes' = [writes EXCEPT ![w] = @ \o vs]
    <3>1. writes[w] \in Seq(Lists)
      BY <1>0 DEF MetaTypeOK
    <3> DEFINE s == [version |-> v, source |-> "memory", worker |-> w, locale |-> Locale(c)]
    <3>2. s \in Lists
      BY <1>0, <2>1 DEF Lists, Sources
    <3> HIDE DEF s
    <3>3. Append(writes[w], s) = writes[w] \o <<s>>
      BY <3>1, <3>2, AppendIsConcat
    <3> QED BY <1>0, <2>2, <3>3 DEF s, MetaTypeOK
  <2> HIDE DEF vs
  <2>5. Adds(vs, v, "memory", w, Locale(c))
    BY <1>0, <1>2, <2>1, <2>3, <2>4 DEF Adds, MetaTypeOK
  <2>6. Timely(v, "memory", w, Locale(c))
    BY <1>0, <2>1 DEF Timely, KeptIsNewest
  <2>7. MemoryAfter(v, w, Locale(c))
    BY <1>2, <1>00, <1>0 DEF MemoryAfter
  <2>8. FlightsAfter(v, w)
    BY <1>0, <1>1, <2>1 DEF FlightsAfter, UnderwayIn, MetaTypeOK
  <2>9. OneFlight'
    BY <1>0, <1>3, <1>5, <2>1 DEF FromMemory, MetaTypeOK
  <2>10. (writes' \in [Workers -> Seq(Lists)]) => MetaTypeOK'
    BY <1>0, <1>1, <1>2, <1>5, <2>1 DEF FromMemory, MetaTypeOK
  <2> QED BY <1>0, <1>00, <1>2, <2>1, <2>5, <2>6, <2>7, <2>8, <2>9, <2>10, AddsKeepsInv
<1>6. CASE FromMemo(c, l, stale)
  <2> DEFINE v == read[l]
             x == Locale(l)
             vs == Again(l)
  <2>1. /\ l # c /\ l \notin underway /\ v \in Nat /\ x \in Locales /\ v \in 0..MaxPublished
        /\ UNCHANGED <<underway, read>> /\ writes' = [writes EXCEPT ![w] = @ \o vs]
    BY <1>0, <1>1, <1>00, <1>6, CallsPlaced DEF FromMemo, MetaTypeOK
  <2>2. Copies(vs, v, "memo", w, x)
    <3>1. CASE v = 0
      BY <3>1, NoCopies DEF Again
    <3>2. CASE v # 0
      <4>1. v \in 1..MaxPublished
        BY <2>1, <3>2, <1>00
      <4> QED BY <1>0, <1>1, <2>1, <3>2, <4>1, OneCopy DEF Again, WriteOf, Sources
    <3> QED BY <3>1, <3>2
  <2> HIDE DEF vs
  <2>3. Adds(vs, v, "memo", w, x) /\ Timely(v, "memo", w, x)
    BY <1>2, <2>1, <2>2 DEF Adds, Timely
  <2>4. v <= published
    BY <1>0, <1>1, CallsPlaced DEF PublishedIsNewest, Newest
  <2>5. MemoryAfter(v, w, x)
    BY <1>0, <1>1, <1>2 DEF MemoryAfter, KeptIsNewest, Newest
  <2>6. FlightsAfter(v, w)
    BY <1>0, <1>1, <2>1, CallsPlaced DEF FlightsAfter, FlightsAreNewest, Newest, MetaTypeOK
  <2>7. OneFlight'
    BY <1>0, <1>3, <1>6, <2>1 DEF FromMemo, MetaTypeOK
  <2>8. (writes' \in [Workers -> Seq(Lists)]) => MetaTypeOK'
    BY <1>0, <1>1, <1>2, <1>6, <2>1 DEF FromMemo, MetaTypeOK
  <2> QED BY <1>0, <1>00, <1>2, <2>1, <2>3, <2>4, <2>5, <2>6, <2>7, <2>8, AddsKeepsInv
<1> QED BY <1>2, <1>4, <1>5, <1>6

\* Every step of the calls, the flights, the memory and the disk keeps the order.
LEMMA MetaInvInductive == MetaInv /\ [MetaNext]_metaVars => MetaInv'
<1> SUFFICES ASSUME MetaInv, [MetaNext]_metaVars PROVE MetaInv'
  OBVIOUS
<1>0. /\ MetaTypeOK /\ OneFlight /\ OwnWrites /\ WritesInOrder
      /\ PublishedIsNewest /\ FlightsAreNewest /\ KeptIsNewest
  BY DEF MetaInv, Ages
<1>00. /\ published \in Nat /\ disk.version \in Nat /\ MaxPublished \in Nat
       /\ \A m \in MetaCalls : read[m] \in Nat
       /\ \A u \in Workers, y \in Locales : inMemory[u][y] \in Nat
       /\ underway \subseteq MetaCalls
  BY <1>0, VersionsTyped DEF MetaTypeOK
<1>1. CASE Publish
  <2>1. MetaTypeOK' /\ OneFlight' /\ OwnWrites' /\ WritesInOrder'
    BY <1>0, <1>1, MetaAssumption DEF Publish, MetaTypeOK, OneFlight, OwnWrites, WritesInOrder
  <2>2. \A u \in Workers : \A X, n : Newest(u, X, n) => Newest(u, X, n)'
    BY <1>1 DEF Publish, Newest
  <2>3. \A u \in Workers : Newest(u, Locales, published) => Newest(u, Locales, published + 1)
    BY <1>0, <1>00, VersionsTyped DEF Newest, UpTo
  <2>4. published' = published + 1 /\ underway' = underway /\ read' = read /\ inMemory' = inMemory
    BY <1>1 DEF Publish
  <2>5. PublishedIsNewest'
    <3>1. ASSUME NEW n \in Nat, n = published + 1, NEW u \in Workers PROVE Newest(u, Locales, n)'
      BY <1>0, <1>00, <2>2, <2>3, <3>1 DEF PublishedIsNewest
    <3>2. \A u \in Workers, x \in Locales : inMemory'[u][x] <= published'
      BY <1>0, <1>00, <2>4 DEF PublishedIsNewest
    <3> QED BY <1>00, <2>4, <3>1, <3>2 DEF PublishedIsNewest, Newest, UpTo
  <2>6. FlightsAreNewest' /\ KeptIsNewest'
    BY <1>0, <1>1 DEF Publish, FlightsAreNewest, KeptIsNewest, Newest
  <2> QED BY <2>1, <2>5, <2>6 DEF MetaInv, Ages
<1>2. ASSUME NEW w \in Workers, DiskWrite(w) PROVE MetaInv'
  <2> DEFINE ws == writes[w]
  <2>1. /\ ws \in Seq(Lists) /\ ws # <<>> /\ InOrder(ws, disk) /\ DOMAIN writes = Workers
        /\ writes'[w] = Tail(ws) /\ \A u \in Workers \ {w} : writes'[u] = writes[u]
        /\ disk' \in {Head(ws), disk, NoList}
    BY <1>0, <1>2 DEF DiskWrite, WritesInOrder, MetaTypeOK
  <2>2. /\ Tail(ws) \in Seq(Lists) /\ Head(ws) \in Lists /\ Head(ws) = ws[1] /\ 1 \in 1..Len(ws)
        /\ \A j \in 1..Len(Tail(ws)) : j + 1 \in 1..Len(ws) /\ Tail(ws)[j] = ws[j + 1]
        /\ InOrder(Tail(ws), disk) /\ InOrder(Tail(ws), Head(ws))
    BY <2>1, InOrderTail
  <2> HIDE DEF ws
  <2>3. MetaTypeOK' /\ OneFlight'
    BY <1>0, <1>2, <2>1, <2>2 DEF DiskWrite, MetaTypeOK, OneFlight, ws
  <2>4. OwnWrites' /\ Head(ws).worker = w
    <3>1. \A j \in 1..Len(ws) : ws[j].worker = w
      BY <1>0 DEF OwnWrites, ws
    <3>2. \A j \in 1..Len(Tail(ws)) : Tail(ws)[j].worker = w
      BY <2>2, <3>1
    <3>3. \A u \in Workers \ {w} : \A j \in 1..Len(writes'[u]) : writes'[u][j].worker = u
      BY <1>0, <2>1 DEF OwnWrites
    <3>4. OwnWrites'
      BY <2>1, <3>2, <3>3 DEF OwnWrites
    <3> QED BY <2>2, <3>1, <3>4
  <2>5. ASSUME NEW u \in Workers PROVE InOrder(writes'[u], disk')
    <3>1. CASE disk' = NoList
      <4>1. \A j \in 1..Len(writes'[u]) : Follows(NoList, writes'[u][j])
        <5>0. \A s \in Lists : s.version \in Nat
          BY <1>00 DEF Lists
        <5>1. writes'[u] \in Seq(Lists)
          BY <2>3 DEF MetaTypeOK
        <5>2. \A j \in 1..Len(writes'[u]) : writes'[u][j] \in Lists
          BY <5>1, ElementOfSeq
        <5>3. \A s \in Lists : Follows(NoList, s)
          BY <5>0, <1>00 DEF Follows, NoList
        <5> QED BY <5>2, <5>3
      <4>2. InOrder(writes'[u], disk)
        BY <1>0, <2>1, <2>2 DEF WritesInOrder
      <4> QED BY <3>1, <4>1, <4>2 DEF InOrder
    <3>2. CASE u = w /\ disk' # NoList
      BY <2>1, <2>2, <3>2
    <3>3. CASE u # w /\ disk' = disk
      BY <1>0, <2>1, <3>3 DEF WritesInOrder
    <3>4. CASE u # w /\ disk' = Head(ws)
      <4>1. writes'[u] = writes[u] /\ InOrder(writes[u], disk)
        BY <1>0, <2>1, <3>4 DEF WritesInOrder
      <4>2. \A j \in 1..Len(writes[u]) : writes[u][j].worker = u
        BY <1>0 DEF OwnWrites
      <4>3. \A j \in 1..Len(writes[u]) : Follows(Head(ws), writes[u][j])
        BY <2>4, <3>4, <4>2 DEF Follows
      <4> QED BY <3>4, <4>1, <4>3 DEF InOrder
    <3> QED BY <2>1, <3>1, <3>2, <3>3, <3>4
  <2>6. ASSUME NEW u \in Workers, NEW X, NEW n \in Nat, Newest(u, X, n) PROVE Newest(u, X, n)'
    <3>1. UpTo(writes'[u], X, n)
      BY <2>1, <2>2, <2>6 DEF Newest, UpTo, ws
    <3>2. disk'.worker = u /\ disk'.locale \in X => disk'.version <= n
      <4>1. CASE disk' = Head(ws)
        BY <2>2, <2>4, <2>6, <4>1 DEF Newest, UpTo, ws
      <4>2. CASE disk' = disk
        BY <2>6, <4>2 DEF Newest
      <4>3. CASE disk' = NoList
        BY <2>6, <4>3 DEF NoList
      <4> QED BY <2>1, <4>1, <4>2, <4>3
    <3>3. read' = read
      BY <1>2 DEF DiskWrite
    <3> QED BY <2>6, <3>1, <3>2, <3>3 DEF Newest
  <2>7. published' = published /\ underway' = underway /\ read' = read /\ inMemory' = inMemory
    BY <1>2 DEF DiskWrite
  <2>8. PublishedIsNewest'
    <3>1. ASSUME NEW n \in Nat, n = published, NEW u \in Workers PROVE Newest(u, Locales, n)'
      BY <1>0, <2>6, <3>1 DEF PublishedIsNewest
    <3> QED BY <1>0, <1>00, <2>7, <3>1 DEF PublishedIsNewest, Newest, UpTo
  <2>9. FlightsAreNewest'
    <3>1. ASSUME NEW l \in underway, read[l] # 0, NEW n \in Nat, n = read[l]
          PROVE  Newest(Worker(l), Locales, n)'
      BY <1>0, <1>00, <2>6, <3>1, CallsPlaced DEF FlightsAreNewest
    <3> QED BY <1>00, <2>7, <3>1 DEF FlightsAreNewest, Newest
  <2>10. KeptIsNewest'
    <3>1. ASSUME NEW u \in Workers, NEW y \in Locales, inMemory[u][y] # 0, NEW n \in Nat, n = inMemory[u][y]
          PROVE  Newest(u, {y}, n)'
      BY <1>0, <2>6, <3>1 DEF KeptIsNewest
    <3> QED BY <1>00, <2>7, <3>1 DEF KeptIsNewest, Newest, UpTo
  <2> QED BY <2>3, <2>4, <2>5, <2>8, <2>9, <2>10 DEF MetaInv, Ages, WritesInOrder
<1>3. ASSUME NEW w \in Workers, NEW x \in Locales, Expire(w, x) PROVE MetaInv'
  <2>1. /\ UNCHANGED <<published, disk, writes, read, underway>>
        /\ \A u \in Workers, y \in Locales : inMemory'[u][y] \in {0, inMemory[u][y]}
    BY <1>0, <1>3 DEF Expire, MetaTypeOK
  <2>2. MetaTypeOK' /\ OneFlight'
    <3>1. inMemory' \in [Workers -> [Locales -> 0..MaxPublished]]
      BY <1>0, <1>00, <1>3 DEF Expire, MetaTypeOK
    <3>2. MetaTypeOK'
      BY <1>0, <1>3, <3>1 DEF Expire, MetaTypeOK
    <3> QED BY <1>0, <1>00, <1>3, <2>1, <3>2, CallsPlaced DEF Expire, OneFlight
  <2>3. Adds(<<>>, 0, "memo", w, x) /\ Timely(0, "memo", w, x)
    BY <1>0, <2>1, NoCopies, QueueUnchanged DEF Adds, Timely
  <2>4. MemoryAfter(0, w, x) /\ FlightsAfter(0, w)
    BY <1>00, <2>1 DEF MemoryAfter, FlightsAfter
  <2> QED BY <1>00, <2>1, <2>2, <2>3, <2>4, AddsKeepsInv
<1>4. ASSUME NEW c \in MetaCalls, BeginStale(c) PROVE MetaInv'
  <2>1. MetaTypeOK' /\ OneFlight'
    BY <1>0, <1>4 DEF BeginStale, MetaTypeOK, OneFlight
  <2>2. OwnWrites' /\ WritesInOrder' /\ Ages'
    BY <1>0, <1>4 DEF BeginStale, OwnWrites, WritesInOrder, Ages, PublishedIsNewest,
                      FlightsAreNewest, KeptIsNewest, Newest
  <2> QED BY <2>1, <2>2 DEF MetaInv
<1>5. ASSUME NEW c \in MetaCalls, BeginFresh(c) PROVE MetaInv'
  BY <1>00, <1>5, FetchKeepsInv DEF BeginFresh
<1>6. ASSUME NEW c \in MetaCalls, DiskRead(c) PROVE MetaInv'
  <2>1. disk.version \in 0..MaxPublished /\ 0 \in 0..MaxPublished
    BY <1>0, <1>00 DEF MetaTypeOK, Lists, NoList
  <2> QED BY <1>6, <2>1, FetchKeepsInv DEF DiskRead
<1>7. ASSUME NEW l \in MetaCalls, OriginReads(l) PROVE MetaInv'
  <2> DEFINE w == Worker(l)
             x == Locale(l)
  <2>1. /\ l \in underway /\ w \in Workers /\ x \in Locales /\ inMemory[w][x] = 0
        /\ read' = [read EXCEPT ![l] = published]
        /\ UNCHANGED <<published, disk, writes, inMemory, await, underway, memoized>>
    BY <1>0, <1>7, CallsPlaced DEF OriginReads, OneFlight
  <2>2. MetaTypeOK'
    BY <1>0, <1>00, <1>7 DEF OriginReads, MetaTypeOK
  <2>3. OneFlight'
    BY <1>0, <1>7 DEF OriginReads, MetaTypeOK, OneFlight
  <2>4. Adds(<<>>, published, "memo", w, x) /\ Timely(published, "memo", w, x)
    BY <1>0, <2>1, NoCopies, QueueUnchanged DEF Adds, Timely, MetaTypeOK
  <2>5. MemoryAfter(published, w, x)
    BY <2>1 DEF MemoryAfter
  <2>6. FlightsAfter(published, w)
    BY <1>0, <1>00, <2>1 DEF FlightsAfter, OneFlight, MetaTypeOK
  <2> QED BY <1>00, <2>1, <2>2, <2>3, <2>4, <2>5, <2>6, AddsKeepsInv
<1>8. ASSUME NEW l \in MetaCalls, ResponseArrives(l) PROVE MetaInv'
  <2> DEFINE w == Worker(l)
             x == Locale(l)
             v == read[l]
             vs == [i \in 1..Cardinality(Served(l)) |-> WriteOf(l, "origin")]
  <2>1. /\ l \in underway /\ w \in Workers /\ x \in Locales /\ v \in 1..MaxPublished
        /\ underway' = underway \ {l}
        /\ UNCHANGED <<published, disk, memoized, read, leader>>
        /\ writes' = [writes EXCEPT ![w] = @ \o vs]
    BY <1>0, <1>00, <1>8, CallsPlaced DEF ResponseArrives, MetaTypeOK
  <2>2. Copies(vs, v, "origin", w, x)
    <3>1. Cardinality(Served(l)) \in Nat
      BY MetaAssumption, FS_Subset, FS_CardinalityType DEF Served
    <3>2. WriteOf(l, "origin") \in Lists
      BY <2>1 DEF WriteOf, Lists, Sources
    <3>3. vs \in [1..Cardinality(Served(l)) -> Lists] /\ \A j \in DOMAIN vs : vs[j] = WriteOf(l, "origin")
      BY <3>2
    <3> HIDE DEF vs
    <3>4. vs \in Seq(Lists) /\ DOMAIN vs = 1..Len(vs)
      BY <3>1, <3>3, SeqDef, LenProperties
    <3> QED BY <3>3, <3>4 DEF Copies, WriteOf
  <2> HIDE DEF vs
  <2>3. Newest(w, Locales, v) /\ v <= published
    BY <1>0, <1>8, <2>1 DEF FlightsAreNewest, PublishedIsNewest, Newest
  <2>4. Adds(vs, v, "origin", w, x) /\ Timely(v, "origin", w, x)
    BY <2>1, <2>2, <2>3 DEF Adds, Timely
  <2>5. PICK k \in {v, 0} : inMemory' = [inMemory EXCEPT ![w][x] = k]
    BY <1>8 DEF ResponseArrives
  <2>6. /\ inMemory'[w][x] = k
        /\ \A u \in Workers, y \in Locales : (u # w \/ y # x) => inMemory'[u][y] = inMemory[u][y]
        /\ inMemory' \in [Workers -> [Locales -> 0..MaxPublished]]
    BY <1>0, <1>00, <2>1, <2>5 DEF MetaTypeOK
  <2>7. MemoryAfter(v, w, x)
    <3>1. Newest(w, {x}, v)
      BY <2>1, <2>3 DEF Newest, UpTo
    <3> QED BY <1>00, <2>5, <2>6, <3>1 DEF MemoryAfter
  <2>8. FlightsAfter(v, w)
    BY <1>0, <1>00, <2>1 DEF FlightsAfter, OneFlight
  <2>9. OneFlight'
    <3>1. \A d \in underway' : d \in underway /\ (Worker(d) # w)
      BY <1>0, <2>1 DEF OneFlight
    <3>2. \A d \in underway' : inMemory'[Worker(d)][Locale(d)] = 0
      BY <1>0, <1>00, <2>6, <3>1, CallsPlaced DEF OneFlight
    <3>3. \A d \in MetaCalls : await'[d] \in {"begin", "disk"} => await[d] \in {"begin", "disk"}
      BY <1>8 DEF ResponseArrives
    <3> QED BY <1>0, <2>1, <3>1, <3>2, <3>3 DEF OneFlight
  <2>10. (writes' \in [Workers -> Seq(Lists)]) => MetaTypeOK'
    <3>1. await' \in [MetaCalls -> {"begin", "disk", "request", "end"}]
      BY <1>0, <1>8 DEF ResponseArrives, MetaTypeOK
    <3>2. answer' \in [MetaCalls -> 0..MaxPublished]
      BY <1>0, <1>8 DEF ResponseArrives, MetaTypeOK
    <3> QED BY <1>0, <2>1, <2>6, <3>1, <3>2 DEF MetaTypeOK
  <2> QED BY <1>00, <2>1, <2>3, <2>4, <2>7, <2>8, <2>9, <2>10, AddsKeepsInv
<1>9. ASSUME NEW l \in MetaCalls, RequestFails(l) PROVE MetaInv'
  <2>1. MetaTypeOK' /\ OneFlight'
    BY <1>0, <1>00, <1>9, MetaAssumption DEF RequestFails, MetaTypeOK, OneFlight
  <2>2. /\ UNCHANGED <<published, disk, writes, inMemory>> /\ underway' \subseteq underway
        /\ \A m \in MetaCalls : read'[m] = read[m] \/ read'[m] = 0
    BY <1>0, <1>9 DEF RequestFails, MetaTypeOK
  <2>3. Adds(<<>>, 0, "memo", Worker(l), Locale(l)) /\ Timely(0, "memo", Worker(l), Locale(l))
    BY <1>0, <2>2, NoCopies, QueueUnchanged, CallsPlaced DEF Adds, Timely
  <2>4. MemoryAfter(0, Worker(l), Locale(l)) /\ FlightsAfter(0, Worker(l))
    BY <1>00, <2>2 DEF MemoryAfter, FlightsAfter
  <2> QED BY <1>00, <2>1, <2>2, <2>3, <2>4, AddsKeepsInv, CallsPlaced
<1>10. CASE UNCHANGED metaVars
  BY <1>0, <1>10 DEF metaVars, MetaInv, MetaTypeOK, OneFlight, OwnWrites, WritesInOrder, Ages,
                     PublishedIsNewest, FlightsAreNewest, KeptIsNewest, Newest
<1> QED BY <1>1, <1>2, <1>3, <1>4, <1>5, <1>6, <1>7, <1>8, <1>9, <1>10 DEF MetaNext

-----------------------------------------------------------------------------

\* For any calls of any incoming requests, in any processes and locales, and for any
\* history of the list: no refresh of a process undoes another on the disk.
THEOREM RefreshesNeverUndone == MetaSpec => RefreshesInOrder
<1>1. MetaInv /\ [MetaNext]_metaVars => [disk' # NoList => Follows(disk, disk')]_metaVars
  <2> SUFFICES ASSUME MetaInv, MetaNext, disk' # NoList PROVE Follows(disk, disk')
    OBVIOUS
  <2>1. Follows(disk, disk)
    BY VersionsTyped DEF MetaInv, Follows
  <2>2. ASSUME NEW w \in Workers, DiskWrite(w) PROVE Follows(disk, disk')
    <3>1. writes[w] \in Seq(Lists) /\ writes[w] # <<>> /\ InOrder(writes[w], disk)
      BY <2>2 DEF DiskWrite, MetaInv, MetaTypeOK, WritesInOrder
    <3>2. Follows(disk, Head(writes[w]))
      BY <3>1, InOrderTail
    <3> QED BY <2>1, <2>2, <3>2 DEF DiskWrite
  <2>3. disk' = disk \/ \E w \in Workers : DiskWrite(w)
    BY DEF MetaNext, Publish, Expire, BeginStale, BeginFresh, DiskRead, Fetch, OriginReads,
           ResponseArrives, RequestFails
  <2> QED BY <2>1, <2>2, <2>3
<1> QED BY InitMetaInv, MetaInvInductive, <1>1, PTL DEF MetaSpec, RefreshesInOrder

-----------------------------------------------------------------------------
(* Conflicts: what is removed from mine.                                     *)

\* t is s without its first x, which is at q.
FirstOut(t, s, x, q) ==
    /\ q \in DOMAIN s /\ s[q] = x /\ \A j \in 1..(q - 1) : s[j] # x
    /\ Len(t) = Len(s) - 1
    /\ \A j \in 1..(Len(s) - 1) : t[j] = IF j < q THEN s[j] ELSE s[j + 1]

\* What splice leaves: what was before the item, then what was behind it.
LEMMA WithoutFirstIs ==
  ASSUME NEW s \in Seq(Items), NEW x, Contains(s, x)
  PROVE  /\ WithoutFirst(s, x) \in Seq(Items)
         /\ \E q : FirstOut(WithoutFirst(s, x), s, x, q)
<1> DEFINE First(i) == s[i] = x /\ \A j \in 1..(i - 1) : s[j] # x
           q == CHOOSE i \in DOMAIN s : First(i)
<1>1. \E i \in DOMAIN s : First(i)
  <2> DEFINE T == {i \in DOMAIN s : s[i] = x}
  <2>1. T \in SUBSET Nat /\ T # {}
    BY DEF Contains
  <2>2. PICK i \in T : \A j \in T : i <= j
    <3> HIDE DEF T
    <3> QED BY <2>1, LeastNatural
  <2>3. First(i)
    BY <2>2
  <2> QED BY <2>2, <2>3
<1>2. q \in DOMAIN s /\ First(q)
  <2> HIDE DEF First
  <2> QED BY <1>1
<1>3. WithoutFirst(s, x) = SubSeq(s, 1, q - 1) \o SubSeq(s, q + 1, Len(s))
  BY DEF WithoutFirst, RemoveAt
<1> HIDE DEF q
<1> DEFINE u == SubSeq(s, 1, q - 1)
           v == SubSeq(s, q + 1, Len(s))
<1>4. u \in Seq(Items) /\ v \in Seq(Items) /\ Len(u) = q - 1 /\ Len(v) = Len(s) - q
  BY <1>2, SubSeqProperties
<1>5. \A j \in 1..(q - 1) : u[j] = s[j]
  BY <1>2, SubSeqProperties
<1>6. \A j \in 1..(Len(s) - q) : v[j] = s[q + j]
  BY <1>2, SubSeqProperties
<1> HIDE DEF u, v
<1>7. u \o v \in Seq(Items) /\ Len(u \o v) = Len(s) - 1
  BY <1>2, <1>4, ConcatProperties
<1>8. ASSUME NEW j \in 1..(Len(s) - 1)
      PROVE  (u \o v)[j] = IF j < q THEN s[j] ELSE s[j + 1]
  <2>1. CASE j < q
    BY <1>2, <1>4, <1>5, <2>1, ConcatProperties
  <2>2. CASE ~(j < q)
    <3>1. (u \o v)[j] = v[j - (q - 1)] /\ j - (q - 1) \in 1..(Len(s) - q)
      <4>1. /\ j \in (Len(u) + 1)..(Len(u) + Len(v)) /\ j - Len(u) = j - (q - 1)
            /\ j - (q - 1) \in 1..(Len(s) - q)
        BY <1>2, <1>4, <2>2
      <4>2. (u \o v)[j] = v[j - Len(u)]
        BY <1>4, <4>1, ConcatProperties
      <4> QED BY <4>1, <4>2
    <3> QED BY <1>2, <1>6, <2>2, <3>1
  <2> QED BY <2>1, <2>2
<1>9. WithoutFirst(s, x) = u \o v
  BY <1>3 DEF u, v
<1>10. FirstOut(u \o v, s, x, q)
  BY <1>2, <1>7, <1>8 DEF FirstOut
<1> QED BY <1>7, <1>9, <1>10

\* left is what the loop of removeMasterDeletedElements leaves of mine after each round.
RemovalRun(left, base, master, mine) ==
    /\ left \in [0..Len(base) -> Seq(Items)]
    /\ left[0] = mine
    /\ \A n \in 1..Len(base) :
          left[n] = IF Contains(master, base[n]) THEN left[n - 1]
                    ELSE WithoutFirst(left[n - 1], base[n])
    /\ RemoveMasterDeleted(base, master, mine) = left[Len(base)]

\* There is a list after each item of base, and removeMasterDeletedElements gives the last.
LEMMA RemovalRuns ==
  ASSUME NEW base \in Seq(Items), NEW master \in Seq(Items), NEW mine \in Seq(Items)
  PROVE  \E left : RemovalRun(left, base, master, mine)
<1> DEFINE N == Len(base)
           Next1(s, n) == IF Contains(master, base[n]) THEN s ELSE WithoutFirst(s, base[n])
           IsRun(f) == f = [n \in 0..N |-> IF n = 0 THEN mine ELSE Next1(f[n - 1], n)]
           left == CHOOSE f : IsRun(f)
           round == [n \in 1..N |-> [s \in Seq(Items) |-> Next1(s, n)]]
<1>0. N \in Nat
  OBVIOUS
<1>1. \A s \in Seq(Items), n \in 1..N : Next1(s, n) \in Seq(Items)
  BY WithoutFirstIs DEF WithoutFirst
<1>2. round \in [1..N -> [Seq(Items) -> Seq(Items)]]
  <2> HIDE DEF Next1
  <2> QED BY <1>1
<1>3. PICK f : Loop(f, N, Seq(Items), mine, round)
  <2> HIDE DEF round, N
  <2> QED BY <1>0, <1>2, LoopRuns
<1>4. ASSUME NEW n \in 1..N PROVE f[n] = Next1(f[n - 1], n)
  <2>1. n - 1 \in 0..N /\ f[n - 1] \in Seq(Items)
    <3> HIDE DEF N
    <3> QED BY <1>0, <1>3 DEF Loop
  <2>2. round[n][f[n - 1]] = Next1(f[n - 1], n)
    <3> HIDE DEF Next1, N
    <3> QED BY <2>1
  <2> HIDE DEF N, round, Next1
  <2> QED BY <1>3, <2>2 DEF Loop
<1>5. IsRun(f)
  <2> HIDE DEF Next1, N, round
  <2> QED BY <1>0, <1>3, <1>4 DEF Loop
<1>6. IsRun(left)
  <2> HIDE DEF IsRun
  <2> QED BY <1>5
<1>7. RemoveMasterDeleted(base, master, mine) = left[N]
  BY DEF RemoveMasterDeleted
<1> HIDE DEF left
<1>8. left[0] = mine /\ \A n \in 1..N : left[n] = Next1(left[n - 1], n)
  <2> HIDE DEF Next1
  <2> QED BY <1>0, <1>6
<1>9. left \in [0..N -> Seq(Items)]
  <2> DEFINE S == {n \in 0..N : left[n] \in Seq(Items)}
  <2>1. 0 \in S
    BY <1>0, <1>8
  <2>2. \A n \in 1..N : n - 1 \in S => n \in S
    <3> HIDE DEF Next1
    <3> QED BY <1>0, <1>1, <1>8
  <2>3. 0..N \subseteq S
    <3> HIDE DEF S, N
    <3> QED BY <1>0, <2>1, <2>2, InductionTo
  <2>4. left = [n \in 0..N |-> left[n]]
    <3> HIDE DEF Next1
    <3> QED BY <1>6
  <2> QED BY <2>3, <2>4
<1> QED BY <1>7, <1>8, <1>9 DEF RemovalRun
-----------------------------------------------------------------------------

\* The places before p that have what p has, and which places are left when n items
\* of base have been looked at.
Same(s, p) == {j \in 1..(p - 1) : s[j] = s[p]}
Gone(base, n, x) == {i \in 1..n : base[i] = x}
KeptAfter(base, master, mine, n) == {p \in DOMAIN mine :
    \/ Contains(master, mine[p])
    \/ Cardinality(Same(mine, p)) >= Cardinality(Gone(base, n, mine[p]))}

\* Sets of places have cardinalities.
LEMMA SameIsFinite ==
  ASSUME NEW s \in Seq(Items), NEW p \in DOMAIN s
  PROVE  IsFiniteSet(Same(s, p)) /\ Cardinality(Same(s, p)) \in Nat
<1>1. IsFiniteSet(1..(p - 1)) /\ Same(s, p) \in SUBSET (1..(p - 1))
  BY FS_Interval DEF Same
<1> QED BY <1>1, FS_Subset, FS_CardinalityType

\* And so have sets of rounds.
LEMMA GoneIsFinite ==
  ASSUME NEW base \in Seq(Items), NEW n \in 0..Len(base), NEW x
  PROVE  IsFiniteSet(Gone(base, n, x)) /\ Cardinality(Gone(base, n, x)) \in Nat
<1>1. IsFiniteSet(1..n) /\ Gone(base, n, x) \in SUBSET (1..n)
  BY FS_Interval DEF Gone
<1> QED BY <1>1, FS_Subset, FS_CardinalityType

\* A round of the loop adds an occurrence of its own item only.
LEMMA OneMoreGone ==
  ASSUME NEW base \in Seq(Items), NEW n \in 1..Len(base), NEW x
  PROVE  Cardinality(Gone(base, n, x)) =
             IF base[n] = x THEN Cardinality(Gone(base, n - 1, x)) + 1
             ELSE Cardinality(Gone(base, n - 1, x))
<1>1. Gone(base, n, x) = IF base[n] = x THEN Gone(base, n - 1, x) \cup {n}
                         ELSE Gone(base, n - 1, x)
  BY DEF Gone
<1>2. n \notin Gone(base, n - 1, x)
  BY DEF Gone
<1>3. IsFiniteSet(Gone(base, n - 1, x))
  BY GoneIsFinite
<1> QED BY <1>1, <1>2, <1>3, FS_AddElement

\* Of the places before p with its item, the last has all the others before it.
LEMMA LastOfSame ==
  ASSUME NEW s \in Seq(Items), NEW p \in DOMAIN s, Same(s, p) # {}
  PROVE  \E r \in Same(s, p) : Same(s, r) = Same(s, p) \ {r}
<1> DEFINE T == {p - j : j \in Same(s, p)}
<1>1. T \in SUBSET Nat /\ T # {}
  BY DEF Same
<1>2. PICK t \in T : \A u \in T : t <= u
  <2> HIDE DEF T
  <2> QED BY <1>1, LeastNatural
<1>3. PICK r \in Same(s, p) : t = p - r
  BY <1>2
<1>4. ASSUME NEW j \in Same(s, p) PROVE j <= r
  <2>1. p - r <= p - j
    BY <1>2, <1>3
  <2> QED BY <2>1 DEF Same
<1>5. Same(s, r) = Same(s, p) \ {r}
  BY <1>4 DEF Same
<1> QED BY <1>5

\* p is the first place left of the n-th item of base.
FirstLeft(base, master, mine, n, p) ==
    /\ p \in KeptAfter(base, master, mine, n - 1) /\ mine[p] = base[n]
    /\ \A r \in KeptAfter(base, master, mine, n - 1) : r < p => mine[r] # base[n]

\* The item deleted in master is removed at its first place left.
LEMMA FirstIsGone ==
  ASSUME NEW base \in Seq(Items), NEW master \in Seq(Items), NEW mine \in Seq(Items),
         NEW n \in 1..Len(base), ~Contains(master, base[n]),
         NEW p, FirstLeft(base, master, mine, n, p)
  PROVE  KeptAfter(base, master, mine, n) = KeptAfter(base, master, mine, n - 1) \ {p}
<1> p \in KeptAfter(base, master, mine, n - 1) /\ mine[p] = base[n]
  BY DEF FirstLeft
<1> \A r \in KeptAfter(base, master, mine, n - 1) : r < p => mine[r] # base[n]
  BY DEF FirstLeft
<1> DEFINE K == KeptAfter(base, master, mine, n - 1)
           x == base[n]
           c == Cardinality(Gone(base, n - 1, x))
           C(r) == Cardinality(Same(mine, r))
<1>0. p \in DOMAIN mine /\ DOMAIN mine \subseteq Nat /\ n - 1 \in 0..Len(base)
  BY DEF KeptAfter
<1>1. c \in Nat
  BY <1>0, GoneIsFinite
<1>2. \A r \in DOMAIN mine : C(r) \in Nat
  BY SameIsFinite
<1>3. C(p) = c
  <2>1. C(p) >= c
    BY <1>0 DEF KeptAfter
  <2>2. SUFFICES ASSUME C(p) > c PROVE FALSE
    BY <1>0, <1>1, <1>2, <2>1
  <2>3. Same(mine, p) # {}
    <3>1. C(p) # 0
      BY <1>0, <1>1, <1>2, <2>2
    <3> QED BY <3>1, FS_EmptySet
  <2>4. PICK r \in Same(mine, p) : Same(mine, r) = Same(mine, p) \ {r}
    BY <1>0, <2>3, LastOfSame
  <2>5. r \in DOMAIN mine /\ r < p /\ mine[r] = x
    BY <1>0 DEF Same
  <2>6. C(r) = C(p) - 1
    BY <1>0, <2>4, SameIsFinite, FS_RemoveElement
  <2>7. C(r) >= c
    BY <1>0, <1>1, <1>2, <2>2, <2>6
  <2>8. r \in K
    BY <2>5, <2>7 DEF KeptAfter
  <2> QED BY <2>5, <2>8
<1>4. \A r \in DOMAIN mine : mine[r] # x => (r \in KeptAfter(base, master, mine, n) <=> r \in K)
  <2>1. \A r \in DOMAIN mine : mine[r] # x =>
            Cardinality(Gone(base, n, mine[r])) = Cardinality(Gone(base, n - 1, mine[r]))
    BY OneMoreGone
  <2> QED BY <2>1 DEF KeptAfter
<1>5. Cardinality(Gone(base, n, x)) = c + 1
  BY OneMoreGone
<1>6. ASSUME NEW r \in DOMAIN mine, mine[r] = x
      PROVE  /\ r \in KeptAfter(base, master, mine, n) <=> C(r) >= c + 1
             /\ r \in K <=> C(r) >= c
  BY <1>5, <1>6 DEF KeptAfter
<1>7. ASSUME NEW r \in DOMAIN mine, mine[r] = x, r < p PROVE ~(C(r) >= c)
  BY <1>6, <1>7
<1>8. ASSUME NEW r \in DOMAIN mine, mine[r] = x, r > p PROVE C(r) >= c + 1
  <2>1. Same(mine, p) \cup {p} \in SUBSET Same(mine, r)
    BY <1>0, <1>8 DEF Same
  <2>2. p \notin Same(mine, p)
    BY <1>0 DEF Same
  <2>3. Cardinality(Same(mine, p) \cup {p}) = C(p) + 1
    BY <1>0, <2>2, SameIsFinite, FS_AddElement
  <2>4. Cardinality(Same(mine, p) \cup {p}) <= C(r)
    BY <2>1, SameIsFinite, FS_Subset
  <2> QED BY <1>0, <1>1, <1>2, <1>3, <2>3, <2>4
<1>9. ASSUME NEW r \in DOMAIN mine
      PROVE  r \in KeptAfter(base, master, mine, n) <=> r \in K \ {p}
  <2> r \in Nat /\ p \in Nat /\ C(r) \in Nat /\ C(p) \in Nat
    BY <1>0, <1>2
  <2>1. CASE mine[r] # x
    BY <1>4, <2>1
  <2>2. CASE mine[r] = x /\ r < p
    <3> HIDE DEF C, c, K
    <3> QED BY <1>1, <1>6, <1>7, <2>2
  <2>3. CASE mine[r] = x /\ r = p
    <3> HIDE DEF C, c, K
    <3> QED BY <1>1, <1>3, <1>6, <2>3
  <2>4. CASE mine[r] = x /\ r > p
    <3> HIDE DEF C, c, K
    <3> QED BY <1>1, <1>6, <1>8, <2>4
  <2> QED BY <2>1, <2>2, <2>3, <2>4
<1>10. KeptAfter(base, master, mine, n) \subseteq DOMAIN mine /\ K \subseteq DOMAIN mine
  BY DEF KeptAfter
<1> QED BY <1>9, <1>10

\* Nothing of the item is left, or master has it: no place is given up.
LEMMA NoneIsGone ==
  ASSUME NEW base \in Seq(Items), NEW master \in Seq(Items), NEW mine \in Seq(Items),
         NEW n \in 1..Len(base),
         \/ Contains(master, base[n])
         \/ \A r \in KeptAfter(base, master, mine, n - 1) : mine[r] # base[n]
  PROVE  KeptAfter(base, master, mine, n) = KeptAfter(base, master, mine, n - 1)
<1> DEFINE K == KeptAfter(base, master, mine, n - 1)
<1>1. ASSUME NEW r \in DOMAIN mine
      PROVE  r \in KeptAfter(base, master, mine, n) <=> r \in K
  <2>1. CASE mine[r] # base[n]
    <3>1. Cardinality(Gone(base, n, mine[r])) = Cardinality(Gone(base, n - 1, mine[r]))
      BY <2>1, OneMoreGone
    <3> QED BY <3>1 DEF KeptAfter
  <2>2. CASE mine[r] = base[n] /\ Contains(master, base[n])
    BY <2>2 DEF KeptAfter
  <2>3. CASE mine[r] = base[n] /\ r \notin K /\ ~Contains(master, base[n])
    <3> DEFINE c == Cardinality(Gone(base, n - 1, mine[r]))
               d == Cardinality(Same(mine, r))
    <3>1. Cardinality(Gone(base, n, mine[r])) = c + 1
      BY <2>3, OneMoreGone
    <3>2. c \in Nat /\ d \in Nat
      <4>1. n - 1 \in 0..Len(base)
        OBVIOUS
      <4> QED BY <4>1, GoneIsFinite, SameIsFinite
    <3>3. ~(d >= c)
      BY <2>3 DEF KeptAfter
    <3>4. ~(d >= c + 1)
      <4> HIDE DEF c, d
      <4> QED BY <3>2, <3>3
    <3> QED BY <2>3, <3>1, <3>4 DEF KeptAfter
  <2> QED BY <2>1, <2>2, <2>3
<1>2. KeptAfter(base, master, mine, n) \subseteq DOMAIN mine /\ K \subseteq DOMAIN mine
  BY DEF KeptAfter
<1> QED BY <1>1, <1>2

\* Taking out one element of a sequence gives up one of its places.
LEMMA OneLess ==
  ASSUME NEW s \in Seq(Items), NEW t \in Seq(Items), NEW mine \in Seq(Items),
         NEW places \in SUBSET DOMAIN mine, NEW f \in [DOMAIN s -> places],
         \A p \in places : \E i \in DOMAIN s : f[i] = p,
         \A i, j \in DOMAIN s : i < j => f[i] < f[j],
         \A i \in DOMAIN s : s[i] = mine[f[i]],
         NEW q \in DOMAIN s, Len(t) = Len(s) - 1,
         \A j \in 1..(Len(s) - 1) : t[j] = IF j < q THEN s[j] ELSE s[j + 1]
  PROVE  Taken(t, mine, places \ {f[q]})
<1> DEFINE g == [j \in DOMAIN t |-> IF j < q THEN f[j] ELSE f[j + 1]]
           left == places \ {f[q]}
<1>0. DOMAIN t = 1..(Len(s) - 1) /\ DOMAIN s = 1..Len(s) /\ Len(s) \in Nat /\ q \in 1..Len(s)
  OBVIOUS
<1>1. \A i, j \in DOMAIN s : i # j => f[i] # f[j]
  BY <1>0
<1>2. g \in [DOMAIN t -> left]
  BY <1>0, <1>1
<1>3. ASSUME NEW p \in left PROVE \E j \in DOMAIN t : g[j] = p
  <2>1. PICK i \in DOMAIN s : f[i] = p
    OBVIOUS
  <2>2. CASE i < q
    BY <1>0, <2>1, <2>2
  <2>3. CASE i > q
    <3>1. i - 1 \in DOMAIN t /\ g[i - 1] = p
      BY <1>0, <2>1, <2>3
    <3> QED BY <3>1
  <2> QED BY <1>0, <2>1, <2>2, <2>3
<1>4. ASSUME NEW i \in DOMAIN t, NEW j \in DOMAIN t, i < j PROVE g[i] < g[j]
  <2>1. CASE j < q
    BY <1>0, <1>4, <2>1
  <2>2. CASE i < q /\ ~(j < q)
    BY <1>0, <1>4, <2>2
  <2>3. CASE ~(i < q)
    BY <1>0, <1>4, <2>3
  <2> QED BY <1>0, <1>4, <2>1, <2>2, <2>3
<1>5. \A j \in DOMAIN t : t[j] = mine[g[j]]
  BY <1>0
<1> HIDE DEF g
<1> QED BY <1>2, <1>3, <1>4, <1>5 DEF Taken

\* After each round of the removal, what is left of mine is at those places.
LEMMA RemovalKeeps ==
  ASSUME NEW base \in Seq(Items), NEW master \in Seq(Items), NEW mine \in Seq(Items),
         NEW n \in 1..Len(base), NEW s \in Seq(Items), NEW t \in Seq(Items),
         Taken(s, mine, KeptAfter(base, master, mine, n - 1)),
         t = IF Contains(master, base[n]) THEN s ELSE WithoutFirst(s, base[n])
  PROVE  Taken(t, mine, KeptAfter(base, master, mine, n))
<1> DEFINE K == KeptAfter(base, master, mine, n - 1)
<1>1. PICK f \in [DOMAIN s -> K] :
         /\ \A p \in K : \E i \in DOMAIN s : f[i] = p
         /\ \A i, j \in DOMAIN s : i < j => f[i] < f[j]
         /\ \A i \in DOMAIN s : s[i] = mine[f[i]]
  BY DEF Taken
<1>2. K \in SUBSET DOMAIN mine
  BY DEF KeptAfter
<1>3. CASE Contains(master, base[n])
  BY <1>3, NoneIsGone
<1>4. CASE ~Contains(master, base[n]) /\ ~Contains(s, base[n])
  <2>1. \A r \in K : mine[r] # base[n]
    <3> HIDE DEF K
    <3> QED BY <1>1, <1>4 DEF Contains
  <2>2. t = s
    BY <1>4 DEF WithoutFirst
  <2> QED BY <2>1, <2>2, NoneIsGone
<1>5. CASE ~Contains(master, base[n]) /\ Contains(s, base[n])
  <2>1. t = WithoutFirst(s, base[n])
    BY <1>5
  <2>2. PICK q : FirstOut(t, s, base[n], q)
    BY <1>5, <2>1, WithoutFirstIs
  <2>3. /\ q \in DOMAIN s /\ s[q] = base[n] /\ \A j \in 1..(q - 1) : s[j] # base[n]
        /\ Len(t) = Len(s) - 1
        /\ \A j \in 1..(Len(s) - 1) : t[j] = IF j < q THEN s[j] ELSE s[j + 1]
    BY <2>2 DEF FirstOut
  <2>4. Taken(t, mine, K \ {f[q]})
    <3> HIDE DEF K
    <3> QED BY <1>1, <1>2, <2>3, OneLess
  <2>5. f[q] \in K /\ mine[f[q]] = base[n]
    BY <1>1, <2>3
  <2>6. ASSUME NEW r \in K, r < f[q] PROVE mine[r] # base[n]
    <3>1. PICK i \in DOMAIN s : f[i] = r
      BY <1>1
    <3>2. f[q] \in Nat /\ r \in Nat
      BY <1>2, <2>5
    <3>3. i < q
      <4> HIDE DEF K
      <4>1. ~(q < i) /\ q # i
        BY <1>1, <2>3, <2>6, <3>1, <3>2
      <4> QED BY <2>3, <4>1
    <3>4. s[i] # base[n]
      BY <2>3, <3>3
    <3> QED BY <1>1, <3>1, <3>4
  <2>7. KeptAfter(base, master, mine, n) = K \ {f[q]}
    <3>1. FirstLeft(base, master, mine, n, f[q])
      BY <2>5, <2>6 DEF FirstLeft
    <3> QED BY <1>5, <3>1, FirstIsGone
  <2> QED BY <2>4, <2>7
<1> QED BY <1>3, <1>4, <1>5

\* removeMasterDeletedElements leaves mine at the places of KeptPlaces.
LEMMA RemovalIsExact ==
  ASSUME NEW base \in Seq(Items), NEW master \in Seq(Items), NEW mine \in Seq(Items)
  PROVE  /\ RemoveMasterDeleted(base, master, mine) \in Seq(Items)
         /\ Taken(RemoveMasterDeleted(base, master, mine), mine, KeptPlaces(base, master, mine))
<1> DEFINE N == Len(base)
<1>0. N \in Nat
  OBVIOUS
<1>1. PICK left \in [0..N -> Seq(Items)] :
         /\ left[0] = mine
         /\ \A n \in 1..N : left[n] = IF Contains(master, base[n]) THEN left[n - 1]
                                      ELSE WithoutFirst(left[n - 1], base[n])
         /\ RemoveMasterDeleted(base, master, mine) = left[N]
  <2>1. PICK left : RemovalRun(left, base, master, mine)
    BY RemovalRuns
  <2> QED BY <2>1 DEF RemovalRun
<1> DEFINE S == {n \in 0..N : Taken(left[n], mine, KeptAfter(base, master, mine, n))}
<1>2. 0 \in S
  <2>1. \A x : Gone(base, 0, x) = {}
    BY DEF Gone
  <2>2. \A p \in DOMAIN mine : Cardinality(Same(mine, p)) >= 0
    BY SameIsFinite
  <2>3. KeptAfter(base, master, mine, 0) = DOMAIN mine
    BY <2>1, <2>2, FS_EmptySet DEF KeptAfter
  <2> DEFINE f == [i \in DOMAIN mine |-> i]
  <2>4. f \in [DOMAIN mine -> DOMAIN mine] /\ \A i \in DOMAIN mine : f[i] = i
    OBVIOUS
  <2> HIDE DEF f
  <2>5. Taken(mine, mine, DOMAIN mine)
    BY <2>4 DEF Taken
  <2> QED BY <1>0, <1>1, <2>3, <2>5
<1>3. ASSUME NEW n \in 1..N, n - 1 \in S PROVE n \in S
  <2>1. left[n] \in Seq(Items) /\ left[n - 1] \in Seq(Items)
    <3> HIDE DEF N
    <3> QED BY <1>0, <1>1
  <2>2. Taken(left[n], mine, KeptAfter(base, master, mine, n))
    BY <1>1, <1>3, <2>1, RemovalKeeps
  <2> QED BY <1>0, <2>2
<1>4. Taken(left[N], mine, KeptAfter(base, master, mine, N))
  <2>1. 0..N \subseteq S
    <3> HIDE DEF N, S
    <3> QED BY <1>0, <1>2, <1>3, InductionTo
  <2> QED BY <1>0, <2>1
<1>5. \A p \in DOMAIN mine :
         /\ Count(SubSeq(mine, 1, p - 1), mine[p]) = Cardinality(Same(mine, p))
         /\ Count(base, mine[p]) = Cardinality(Gone(base, N, mine[p]))
  <2> SUFFICES ASSUME NEW p \in DOMAIN mine
               PROVE  /\ {i \in DOMAIN SubSeq(mine, 1, p - 1) : SubSeq(mine, 1, p - 1)[i] = mine[p]}
                             = Same(mine, p)
                      /\ {i \in DOMAIN base : base[i] = mine[p]} = Gone(base, N, mine[p])
    BY DEF Count
  <2>1. DOMAIN SubSeq(mine, 1, p - 1) = 1..(p - 1)
    BY SubSeqProperties
  <2>2. \A i \in 1..(p - 1) : SubSeq(mine, 1, p - 1)[i] = mine[i]
    BY SubSeqProperties
  <2> QED BY <2>1, <2>2 DEF Same, Gone
<1>6. KeptPlaces(base, master, mine) = KeptAfter(base, master, mine, N)
  BY <1>5 DEF KeptPlaces, KeptAfter
<1> QED BY <1>0, <1>1, <1>4, <1>6
-----------------------------------------------------------------------------

AppendRun(grown, base, master, mine) ==
    /\ grown \in [0..Len(master) -> Seq(Items)]
    /\ grown[0] = mine
    /\ \A n \in 1..Len(master) :
          grown[n] = IF ShouldAddToMine(master[n], base, grown[n - 1])
                     THEN Append(grown[n - 1], master[n]) ELSE grown[n - 1]
    /\ AppendMasterAdded(base, master, mine) = grown[Len(master)]

\* There is a list after each item of master, and appendMasterAddedElements gives the last.
LEMMA AppendRuns ==
  ASSUME NEW base, NEW master \in Seq(Items), NEW mine \in Seq(Items)
  PROVE  \E grown : AppendRun(grown, base, master, mine)
<1> DEFINE N == Len(master)
           Next1(s, n) == IF ShouldAddToMine(master[n], base, s) THEN Append(s, master[n]) ELSE s
           IsRun(f) == f = [n \in 0..N |-> IF n = 0 THEN mine ELSE Next1(f[n - 1], n)]
           grown == CHOOSE f : IsRun(f)
           round == [n \in 1..N |-> [s \in Seq(Items) |-> Next1(s, n)]]
<1>0. N \in Nat
  OBVIOUS
<1>1. \A s \in Seq(Items), n \in 1..N : Next1(s, n) \in Seq(Items)
  OBVIOUS
<1>2. round \in [1..N -> [Seq(Items) -> Seq(Items)]]
  <2> HIDE DEF Next1
  <2> QED BY <1>1
<1>3. PICK f : Loop(f, N, Seq(Items), mine, round)
  <2> HIDE DEF round, N
  <2> QED BY <1>0, <1>2, LoopRuns
<1>4. ASSUME NEW n \in 1..N PROVE f[n] = Next1(f[n - 1], n)
  <2>1. n - 1 \in 0..N /\ f[n - 1] \in Seq(Items)
    <3> HIDE DEF N
    <3> QED BY <1>0, <1>3 DEF Loop
  <2>2. round[n][f[n - 1]] = Next1(f[n - 1], n)
    <3> HIDE DEF Next1, N
    <3> QED BY <2>1
  <2> HIDE DEF N, round, Next1
  <2> QED BY <1>3, <2>2 DEF Loop
<1>5. IsRun(f)
  <2> HIDE DEF Next1, N, round
  <2> QED BY <1>0, <1>3, <1>4 DEF Loop
<1>6. IsRun(grown)
  <2> HIDE DEF IsRun
  <2> QED BY <1>5
<1>7. AppendMasterAdded(base, master, mine) = grown[N]
  BY DEF AppendMasterAdded
<1> HIDE DEF grown
<1>8. grown[0] = mine /\ \A n \in 1..N : grown[n] = Next1(grown[n - 1], n)
  <2> HIDE DEF Next1
  <2> QED BY <1>0, <1>6
<1>9. grown \in [0..N -> Seq(Items)]
  <2> DEFINE S == {n \in 0..N : grown[n] \in Seq(Items)}
  <2>1. 0 \in S
    BY <1>0, <1>8
  <2>2. \A n \in 1..N : n - 1 \in S => n \in S
    <3> HIDE DEF Next1
    <3> QED BY <1>0, <1>1, <1>8
  <2>3. 0..N \subseteq S
    <3> HIDE DEF S, N
    <3> QED BY <1>0, <2>1, <2>2, InductionTo
  <2>4. grown = [n \in 0..N |-> grown[n]]
    <3> HIDE DEF Next1
    <3> QED BY <1>6
  <2> QED BY <2>3, <2>4
<1> QED BY <1>7, <1>8, <1>9 DEF AppendRun

\* Which places of master are to be added, of those up to n.
Wanted(base, master, kept, places, p) ==
    /\ ~KnownIn(master[p], base) /\ ~KnownIn(master[p], kept)
    /\ \A q \in places : q < p => ~SameItem(master[p], master[q])
RightPlaces(base, master, kept, places, n) ==
    /\ places \in SUBSET (1..n)
    /\ \A p \in 1..n : p \in places <=> Wanted(base, master, kept, places, p)

\* After n rounds, s is kept and what has been added to it.
GrownFrom(base, master, kept, s, n) ==
    \E added \in Seq(Items), places \in SUBSET (1..n) :
        /\ s = kept \o added
        /\ Taken(added, master, places)
        /\ RightPlaces(base, master, kept, places, n)

\* What a list knows is known of one of its halves.
LEMMA KnownInConcat ==
  ASSUME NEW kept \in Seq(Items), NEW added \in Seq(Items), NEW x
  PROVE  KnownIn(x, kept \o added) <=> KnownIn(x, kept) \/ KnownIn(x, added)
<1>1. DOMAIN (kept \o added) = 1..(Len(kept) + Len(added))
  BY ConcatProperties
<1>2. ASSUME KnownIn(x, kept \o added) PROVE KnownIn(x, kept) \/ KnownIn(x, added)
  <2>1. PICK i \in 1..(Len(kept) + Len(added)) : SameItem(x, (kept \o added)[i])
    BY <1>1, <1>2 DEF KnownIn
  <2>2. CASE i <= Len(kept)
    <3>1. (kept \o added)[i] = kept[i]
      BY <2>2, ConcatProperties
    <3> QED BY <2>1, <2>2, <3>1 DEF KnownIn
  <2>3. CASE i > Len(kept)
    <3>1. (kept \o added)[i] = added[i - Len(kept)] /\ i - Len(kept) \in DOMAIN added
      BY <2>3, ConcatProperties
    <3> QED BY <2>1, <3>1 DEF KnownIn
  <2> QED BY <2>2, <2>3
<1>3. ASSUME KnownIn(x, kept) PROVE KnownIn(x, kept \o added)
  <2>1. PICK i \in DOMAIN kept : SameItem(x, kept[i])
    BY <1>3 DEF KnownIn
  <2>2. (kept \o added)[i] = kept[i] /\ i \in 1..(Len(kept) + Len(added))
    BY ConcatProperties
  <2> QED BY <1>1, <2>1, <2>2 DEF KnownIn
<1>4. ASSUME KnownIn(x, added) PROVE KnownIn(x, kept \o added)
  <2>1. PICK i \in DOMAIN added : SameItem(x, added[i])
    BY <1>4 DEF KnownIn
  <2>2. /\ Len(kept) + i \in 1..(Len(kept) + Len(added))
        /\ (kept \o added)[Len(kept) + i] = added[i]
    BY ConcatProperties
  <2> QED BY <1>1, <2>1, <2>2 DEF KnownIn
<1> QED BY <1>2, <1>3, <1>4

\* What a list of taken elements knows was taken.
LEMMA KnownInTaken ==
  ASSUME NEW added, NEW master, NEW places, Taken(added, master, places), NEW x
  PROVE  KnownIn(x, added) <=> \E q \in places : SameItem(x, master[q])
BY DEF Taken, KnownIn

\* One more at the end of what is put together.
LEMMA AppendToItems ==
  ASSUME NEW u \in Seq(Items), NEW v \in Seq(Items), NEW y \in Items
  PROVE  Append(u \o v, y) = u \o Append(v, y)
<1>1. /\ u \o v \in Seq(Items) /\ <<y>> \in Seq(Items)
      /\ Append(u \o v, y) = (u \o v) \o <<y>> /\ Append(v, y) = v \o <<y>>
  BY ConcatProperties, AppendIsConcat
<1> QED BY <1>1, ConcatAssociative

\* One more element is taken from the next place.
LEMMA OneMoreTaken ==
  ASSUME NEW added \in Seq(Items), NEW master \in Seq(Items), NEW n \in 1..Len(master),
         NEW places \in SUBSET (1..(n - 1)), Taken(added, master, places)
  PROVE  Taken(Append(added, master[n]), master, places \cup {n})
<1> DEFINE a == Append(added, master[n])
           m == Len(added) + 1
<1>1. PICK f \in [DOMAIN added -> places] :
         /\ \A p \in places : \E i \in DOMAIN added : f[i] = p
         /\ \A i, j \in DOMAIN added : i < j => f[i] < f[j]
         /\ \A i \in DOMAIN added : added[i] = master[f[i]]
  BY DEF Taken
<1> DEFINE g == [i \in DOMAIN a |-> IF i = m THEN n ELSE f[i]]
<1>2. DOMAIN a = 1..m /\ DOMAIN added = 1..(m - 1) /\ m \in Nat /\ m >= 1
  BY AppendProperties
<1>3. a[m] = master[n] /\ \A i \in DOMAIN added : a[i] = added[i]
  BY AppendProperties
<1> HIDE DEF a, m
<1>4. g \in [DOMAIN a -> places \cup {n}]
  BY <1>2
<1>5. \A p \in places \cup {n} : \E i \in DOMAIN a : g[i] = p
  <2>1. g[m] = n /\ m \in DOMAIN a
    BY <1>2
  <2>2. \A i \in DOMAIN added : i \in DOMAIN a /\ g[i] = f[i]
    BY <1>2
  <2> HIDE DEF g
  <2> QED BY <1>1, <2>1, <2>2
<1>6. ASSUME NEW i \in DOMAIN a, NEW j \in DOMAIN a, i < j PROVE g[i] < g[j]
  <2>1. i \in DOMAIN added /\ f[i] \in places
    BY <1>2, <1>6
  <2>2. f[i] < n
    <3>1. \A p \in places : p < n
      OBVIOUS
    <3> QED BY <2>1, <3>1
  <2>3. CASE j = m
    BY <1>2, <1>6, <2>1, <2>2, <2>3
  <2>4. CASE j # m
    BY <1>1, <1>2, <1>6, <2>1, <2>4
  <2> QED BY <2>3, <2>4
<1>7. \A i \in DOMAIN a : a[i] = master[g[i]]
  BY <1>1, <1>2, <1>3
<1> HIDE DEF g
<1> QED BY <1>4, <1>5, <1>6, <1>7 DEF Taken, a

\* After each round, mine is what was kept of it and then what was wanted so far.
LEMMA AppendGrows ==
  ASSUME NEW base, NEW master \in Seq(Items), NEW kept \in Seq(Items),
         NEW n \in 1..Len(master), NEW s \in Seq(Items), NEW t,
         GrownFrom(base, master, kept, s, n - 1),
         t = IF ShouldAddToMine(master[n], base, s) THEN Append(s, master[n]) ELSE s
  PROVE  GrownFrom(base, master, kept, t, n)
<1> DEFINE x == master[n]
<1>1. PICK added \in Seq(Items), places \in SUBSET (1..(n - 1)) :
         /\ s = kept \o added
         /\ Taken(added, master, places)
         /\ RightPlaces(base, master, kept, places, n - 1)
  BY DEF GrownFrom
<1>2. KnownIn(x, s) <=> KnownIn(x, kept) \/ \E q \in places : SameItem(x, master[q])
  <2>1. KnownIn(x, s) <=> KnownIn(x, kept) \/ KnownIn(x, added)
    BY <1>1, KnownInConcat
  <2>2. KnownIn(x, added) <=> \E q \in places : SameItem(x, master[q])
    BY <1>1, KnownInTaken
  <2> QED BY <2>1, <2>2
<1>3. ShouldAddToMine(x, base, s) <=> Wanted(base, master, kept, places, n)
  BY <1>2 DEF ShouldAddToMine, Wanted
<1>4. CASE ~ShouldAddToMine(x, base, s)
  <2>1. RightPlaces(base, master, kept, places, n)
    <3>1. ASSUME NEW p \in 1..n
          PROVE  p \in places <=> Wanted(base, master, kept, places, p)
      <4>1. CASE p = n
        BY <1>3, <1>4, <4>1
      <4>2. CASE p # n
        BY <1>1, <4>2 DEF RightPlaces
      <4> QED BY <4>1, <4>2
    <3> QED BY <3>1 DEF RightPlaces
  <2>2. places \in SUBSET (1..n) /\ t = s
    BY <1>4
  <2> QED BY <1>1, <2>1, <2>2 DEF GrownFrom
<1>5. CASE ShouldAddToMine(x, base, s)
  <2> DEFINE more == places \cup {n}
             a == Append(added, x)
  <2>1. a \in Seq(Items) /\ more \in SUBSET (1..n)
    OBVIOUS
  <2>2. t = kept \o a
    <3>1. t = Append(kept \o added, x)
      BY <1>1, <1>5
    <3>2. Append(kept \o added, x) = kept \o a
      <4>1. x \in Items /\ kept \in Seq(Items) /\ added \in Seq(Items)
        OBVIOUS
      <4> HIDE DEF x
      <4>2. Append(kept \o added, x) = kept \o Append(added, x)
        BY <4>1, AppendToItems
      <4> QED BY <4>2
    <3> QED BY <3>1, <3>2
  <2>3. Taken(a, master, more)
    BY <1>1, OneMoreTaken
  <2>4. ASSUME NEW p \in 1..n
        PROVE  p \in more <=> Wanted(base, master, kept, more, p)
    <3>1. Wanted(base, master, kept, more, p) <=> Wanted(base, master, kept, places, p)
      BY DEF Wanted
    <3>2. CASE p = n
      BY <1>3, <1>5, <3>1, <3>2
    <3>3. CASE p # n
      BY <1>1, <3>1, <3>3 DEF RightPlaces
    <3> QED BY <3>2, <3>3
  <2>5. RightPlaces(base, master, kept, more, n)
    BY <2>1, <2>4 DEF RightPlaces
  <2> HIDE DEF more, a
  <2> QED BY <2>1, <2>2, <2>3, <2>5 DEF GrownFrom
<1> QED BY <1>4, <1>5

\* So after the last, for all places of master.
LEMMA AppendIsExact ==
  ASSUME NEW base, NEW master \in Seq(Items), NEW kept \in Seq(Items)
  PROVE  /\ AppendMasterAdded(base, master, kept) \in Seq(Items)
         /\ GrownFrom(base, master, kept, AppendMasterAdded(base, master, kept), Len(master))
<1> DEFINE N == Len(master)
<1>0. N \in Nat
  OBVIOUS
<1>1. PICK grown \in [0..N -> Seq(Items)] :
         /\ grown[0] = kept
         /\ \A n \in 1..N :
               grown[n] = IF ShouldAddToMine(master[n], base, grown[n - 1])
                          THEN Append(grown[n - 1], master[n]) ELSE grown[n - 1]
         /\ AppendMasterAdded(base, master, kept) = grown[N]
  <2>1. PICK grown : AppendRun(grown, base, master, kept)
    BY AppendRuns
  <2> QED BY <2>1 DEF AppendRun
<1> DEFINE S == {n \in 0..N : GrownFrom(base, master, kept, grown[n], n)}
<1>2. 0 \in S
  <2>1. kept = kept \o <<>> /\ <<>> \in Seq(Items)
    BY ConcatEmptySeq
  <2> DEFINE f == [i \in DOMAIN <<>> |-> i]
  <2>2. f \in [DOMAIN <<>> -> {}] /\ DOMAIN <<>> = {}
    OBVIOUS
  <2> HIDE DEF f
  <2>3. Taken(<<>>, master, {})
    BY <2>2 DEF Taken
  <2>4. RightPlaces(base, master, kept, {}, 0)
    BY DEF RightPlaces
  <2>5. GrownFrom(base, master, kept, kept, 0)
    BY <2>1, <2>3, <2>4 DEF GrownFrom
  <2> QED BY <1>0, <1>1, <2>5
<1>3. ASSUME NEW n \in 1..N, n - 1 \in S PROVE n \in S
  <2>1. grown[n - 1] \in Seq(Items) /\ n \in 0..N
    <3> HIDE DEF N
    <3> QED BY <1>0, <1>1
  <2>2. GrownFrom(base, master, kept, grown[n], n)
    BY <1>1, <1>3, <2>1, AppendGrows
  <2> QED BY <2>1, <2>2
<1>4. N \in S
  <2>1. 0..N \subseteq S
    <3> HIDE DEF N, S
    <3> QED BY <1>0, <1>2, <1>3, InductionTo
  <2> QED BY <1>0, <2>1
<1>5. grown[N] \in Seq(Items)
  BY <1>0, <1>1
<1> QED BY <1>1, <1>4, <1>5

\* mergeMineWinsArray merges three arrays three-way, whatever they hold.
LEMMA MergeIsThreeWay ==
  ASSUME NEW base \in Seq(Items), NEW master \in Seq(Items), NEW mine \in Seq(Items)
  PROVE  /\ MergeArrays(base, master, mine) \in Seq(Items)
         /\ ThreeWay(base, master, mine, MergeArrays(base, master, mine))
<1> DEFINE kept == RemoveMasterDeleted(base, master, mine)
           result == MergeArrays(base, master, mine)
<1>1. kept \in Seq(Items) /\ Taken(kept, mine, KeptPlaces(base, master, mine))
  BY RemovalIsExact
<1>2. result \in Seq(Items) /\ GrownFrom(base, master, kept, result, Len(master))
  BY <1>1, AppendIsExact DEF MergeArrays
<1> HIDE DEF kept, result
<1>3. PICK added \in Seq(Items), places \in SUBSET (1..Len(master)) :
         /\ result = kept \o added
         /\ Taken(added, master, places)
         /\ RightPlaces(base, master, kept, places, Len(master))
  BY <1>2 DEF GrownFrom
<1> DEFINE n == Len(kept)
<1>4. n \in 0..Len(result)
  BY <1>1, <1>3, ConcatProperties
<1>5. SubSeq(result, 1, n) = kept
  BY <1>1, <1>3, SubSeqOfConcat1, SubSeqFull, ConcatProperties
<1>6. SubSeq(result, n + 1, Len(result)) = added
  <2>1. SubSeq(result, n + 1, Len(result)) \in Seq(Items) /\ Len(result) = n + Len(added)
    BY <1>1, <1>2, <1>3, SubSeqProperties, ConcatProperties
  <2>2. Len(SubSeq(result, n + 1, Len(result))) = Len(added)
    BY <1>1, <1>2, <2>1, SubSeqProperties
  <2>3. \A i \in 1..Len(added) : SubSeq(result, n + 1, Len(result))[i] = added[i]
    BY <1>1, <1>2, <1>3, <2>1, SubSeqProperties, ConcatProperties
  <2> QED BY <2>1, <2>2, <2>3, SeqEqual
<1>7. \A p \in DOMAIN master :
         p \in places <=>
             /\ ~KnownIn(master[p], base) /\ ~KnownIn(master[p], kept)
             /\ \A q \in places : q < p => ~SameItem(master[p], master[q])
  BY <1>3 DEF RightPlaces, Wanted
<1>8. ThreeWay(base, master, mine, result)
  <2> HIDE DEF n
  <2>1. places \in SUBSET DOMAIN master
    OBVIOUS
  <2> DEFINE Right(m) ==
          /\ Taken(SubSeq(result, 1, m), mine, KeptPlaces(base, master, mine))
          /\ \E chosen \in SUBSET DOMAIN master :
                /\ Taken(SubSeq(result, m + 1, Len(result)), master, chosen)
                /\ \A p \in DOMAIN master :
                      p \in chosen <=>
                          /\ ~KnownIn(master[p], base)
                          /\ ~KnownIn(master[p], SubSeq(result, 1, m))
                          /\ \A q \in chosen : q < p => ~SameItem(master[p], master[q])
  <2>2. Right(n)
    BY <1>1, <1>3, <1>5, <1>6, <1>7, <2>1
  <2>3. (\E m \in 0..Len(result) : Right(m)) => ThreeWay(base, master, mine, result)
    BY DEF ThreeWay
  <2> HIDE DEF Right
  <2> QED BY <1>4, <2>2, <2>3
<1> QED BY <1>2, <1>8 DEF result
-----------------------------------------------------------------------------

\* Arrays are lists of items.
LEMMA ArraysAreSequences ==
  ASSUME NEW n \in Nat
  PROVE  SeqOf(Items, n) \subseteq Seq(Items)
BY DEF SeqOf

\* And so are the arrays of contents, or there is none.
LEMMA ListsOfContents ==
  ASSUME NEW content \in Contents
  PROVE  /\ ListOf(content) \in Seq(Items)
         /\ \A s \in content.lists : s \in Seq(Items)
         /\ content.kind \in {"deleted", "array", "object"}
<1>1. \/ content.lists = {}
      \/ \E s \in Seq(Items) : content.lists = {s}
  <2>1. SeqOf(Items, MaxItems) \subseteq Seq(Items) /\ SeqOf(Items, 1) \subseteq Seq(Items)
    BY MaxItemsAssumption, ArraysAreSequences
  <2> QED BY <2>1 DEF Contents, Deleted, Array, Arrays
<1>2. <<>> \in Seq(Items)
  OBVIOUS
<1>3. content.kind \in {"deleted", "array", "object"}
  BY DEF Contents, Deleted, Array
<1> QED BY <1>1, <1>2, <1>3 DEF ListOf

\* What a read that returns has merged.
MergeInv ==
    /\ MergeTypeOK
    /\ resolution = "returned" =>
          /\ conflict \in Contents \X Contents \X Contents
          /\ merged = MergeIntoMine(conflict[1], conflict[2], conflict[3])

\* The merge of contents is of one of their kinds and holds a list of items.
LEMMA MergeIsTyped ==
  ASSUME NEW base \in Contents, NEW master \in Contents, NEW mine \in Contents
  PROVE  /\ MergeIntoMine(base, master, mine).kind \in {"deleted", "array", "object"}
         /\ \A s \in MergeIntoMine(base, master, mine).lists : s \in Seq(Items)
<1> DEFINE m == MergeArrays(ListOf(base), ListOf(master), ListOf(mine))
<1>1. m \in Seq(Items)
  BY ListsOfContents, MergeIsThreeWay
<1>2. mine.kind \in {"deleted", "array", "object"} /\ \A s \in mine.lists : s \in Seq(Items)
  BY ListsOfContents
<1>3. Array(m).kind = "array" /\ Array(m).lists = {m}
  BY DEF Array
<1>4. [mine EXCEPT !.lists = {m}].kind = mine.kind /\ [mine EXCEPT !.lists = {m}].lists = {m}
  BY DEF Contents, Deleted, Array
<1> HIDE DEF m
<1> QED BY <1>1, <1>2, <1>3, <1>4 DEF MergeIntoMine, m

\* Before a conflict there is nothing to say.
LEMMA MergeInvInit == MergeInit => MergeInv
BY DEF MergeInit, MergeInv, MergeTypeOK, Deleted

\* What is returned is the merge of the conflict, whatever becomes of the patch.
LEMMA MergeInvInductive == MergeInv /\ [MergeNext]_mergeVars => MergeInv'
<1> SUFFICES ASSUME MergeInv, [MergeNext]_mergeVars PROVE MergeInv'
  OBVIOUS
<1> USE DEF MergeInv, MergeTypeOK
<1>1. CASE ResolveSome
  <2>1. PICK base \in Contents, master \in Contents, mine \in Contents : Resolve(base, master, mine)
    BY <1>1 DEF ResolveSome
  <2>2. conflict' = <<base, master, mine>>
    BY <2>1 DEF Resolve
  <2>3. CASE Throws(base, master, mine)
    BY <2>1, <2>2, <2>3 DEF Resolve
  <2>4. CASE ~Throws(base, master, mine)
    <3>1. /\ resolution' = "returned" /\ stored' = "sent"
          /\ merged' = MergeIntoMine(base, master, mine)
      BY <2>1, <2>4 DEF Resolve
    <3> QED BY <2>2, <3>1, MergeIsTyped
  <2> QED BY <2>3, <2>4
<1>2. CASE ConflictGone
  BY <1>2 DEF ConflictGone
<1>3. CASE PatchAnswered
  BY <1>3 DEF PatchAnswered
<1>4. CASE UNCHANGED mergeVars
  BY <1>4 DEF mergeVars
<1> QED BY <1>1, <1>2, <1>3, <1>4 DEF MergeNext

\* And the merge of arrays is the three-way merge.
LEMMA MergeInvImplies == MergeInv => ArraysMergeThreeWay
<1> SUFFICES ASSUME MergeInv, resolution = "returned",
                    NEW base, base = conflict[1], NEW master, master = conflict[2],
                    NEW mine, mine = conflict[3],
                    merged # mine \/ (master.kind = "array" /\ mine.kind = "array")
             PROVE  ThreeWay(ListOf(base), ListOf(master), ListOf(mine), ListOf(merged))
  BY DEF ArraysMergeThreeWay
<1>1. base \in Contents /\ master \in Contents /\ mine \in Contents
  BY DEF MergeInv
<1>2. merged = MergeIntoMine(base, master, mine)
  BY DEF MergeInv
<1> DEFINE m == MergeArrays(ListOf(base), ListOf(master), ListOf(mine))
<1>3. ThreeWay(ListOf(base), ListOf(master), ListOf(mine), m)
  BY <1>1, ListsOfContents, MergeIsThreeWay
<1>4. merged.lists = {m}
  <2>1. Array(m).lists = {m} /\ [mine EXCEPT !.lists = {m}].lists = {m}
    BY <1>1 DEF Array, Contents, Deleted
  <2> HIDE DEF m
  <2> QED BY <1>2, <2>1 DEF MergeIntoMine, m
<1>5. ListOf(merged) = m
  <2> HIDE DEF m
  <2> QED BY <1>4 DEF ListOf
<1> QED BY <1>3, <1>5

\* Whatever three arrays a conflict has and whatever the comparable keys, wherever mine
\* holds an array that is merged, the merge is the three-way merge.
THEOREM ArraysAreMergedThreeWay == MergeSpec => []ArraysMergeThreeWay
<1>1. MergeSpec => []MergeInv
  BY MergeInvInit, MergeInvInductive, PTL DEF MergeSpec
<1> QED BY <1>1, MergeInvImplies, PTL

-----------------------------------------------------------------------------
(* Metrics.                                                                *)

Hits == {"hit", "inflight", "memoized"}

Maps ==
    /\ memo \in {0} \cup Callers /\ flight \in {0} \cup Callers
    /\ joins \in [Callers -> {NoJoin} \cup [call : Callers, by : {"memoized", "inflight"}]]

Accumulated ==
    /\ batched \in [samples : Nat, extensions : [Counters -> Nat]]
    /\ flushed \in [samples : Nat, extensions : [Counters -> Nat]]

Spans ==
    /\ retries \in [Callers -> 0..MaxRetries]
    /\ open \in [Callers -> SUBSET (0..MaxRetries)]

\* What is told of a call is told at its end; one that joined another has not been
\* sent, and one that leads has joined none.
Courses ==
    /\ course \in [Callers -> {"new", "joined", "lookup", "attempt", "backoff", "ended"}]
    /\ label \in [Callers -> Labels \cup {"unknown"}]
    /\ marks \in [Callers -> SUBSET Hits]
    /\ sent \subseteq Callers /\ thrown \subseteq Callers
    /\ \A c \in Callers :
          /\ label[c] = "unknown" <=> course[c] # "ended"
          /\ course[c] \in {"new", "lookup", "attempt", "backoff"} => joins[c] = NoJoin
          /\ course[c] = "joined" => joins[c] # NoJoin
          /\ course[c] \in {"new", "joined", "lookup"} => c \notin sent
          /\ c \in thrown => course[c] = "ended"

MetricsShape == Maps /\ Accumulated /\ Spans /\ Courses

MetricsInv == MetricsShape /\ SpansFollowAttempts /\ MissesReachOrigin

LabelledAs(l) == {c \in EndedCalls : label[c] = l}
MissedAs(l) == {c \in LabelledAs(l) : c \in thrown \/ (c \in sent /\ "hit" \notin marks[c])}

\* The observed counts, set by set.
Counted ==
    /\ \A l \in Labels : Logged(l, "total") = Cardinality(LabelledAs(l))
    /\ \A l \in Labels : Logged(l, "miss") = Cardinality(MissedAs(l))
    /\ batched.samples + flushed.samples = Logged("success", "miss")

LEMMA CountedMeans == (Counted <=> MissesReachOrigin) /\ (Counted' <=> MissesReachOrigin')
<1>1. \A l : MissedAs(l) = {c \in EndedCalls :
          label[c] = l /\ (c \in thrown \/ (c \in sent /\ "hit" \notin marks[c]))}
  BY DEF MissedAs, LabelledAs
<1>2. \A l : LabelledAs(l) = {c \in EndedCalls : label[c] = l}
  BY DEF LabelledAs
<1>3. Counted <=> MissesReachOrigin
  BY <1>1, <1>2 DEF Counted, MissesReachOrigin
<1>4. \A l : MissedAs(l)' = {c \in EndedCalls' :
          label'[c] = l /\ (c \in thrown' \/ (c \in sent' /\ "hit" \notin marks'[c]))}
  BY DEF MissedAs, LabelledAs
<1>5. \A l : LabelledAs(l)' = {c \in EndedCalls' : label'[c] = l}
  BY DEF LabelledAs
<1>6. Counted' <=> MissesReachOrigin'
  BY <1>4, <1>5 DEF Counted, MissesReachOrigin
<1> QED BY <1>3, <1>6

LEMMA OneMore ==
    ASSUME NEW A \in SUBSET Callers, NEW c \in Callers, c \notin A, NEW b \in BOOLEAN
    PROVE  Cardinality(IF b THEN A \cup {c} ELSE A) = Cardinality(A) + Bit(b)
<1>1. IsFiniteSet(A)
  BY CallersAssumption, FS_Subset
<1>2. Cardinality(A) \in Nat
  BY <1>1, FS_CardinalityType
<1>3. Cardinality(A \cup {c}) = Cardinality(A) + 1
  BY <1>1, FS_AddElement
<1> QED BY <1>2, <1>3 DEF Bit

\* A call that ends is one more of its label, and of its misses if it has no mark.
LEMMA EndIsCounted ==
    ASSUME MetricsInv, NEW c \in Callers, course[c] # "ended",
           NEW l \in Labels, NEW ms \in SUBSET Hits, NEW throws \in BOOLEAN,
           Ends(c, l, ms, throws), flushed' = flushed, sent' = sent,
           ms = {} <=> throws \/ (c \in sent /\ "hit" \notin ms)
    PROVE  MissesReachOrigin' /\ Accumulated'
<1> USE DEF MetricsInv, MetricsShape
<1>1. /\ course' = [course EXCEPT ![c] = "ended"] /\ label' = [label EXCEPT ![c] = l]
      /\ marks' = [marks EXCEPT ![c] = ms]
      /\ thrown' = IF throws THEN thrown \cup {c} ELSE thrown
  BY DEF Ends
<1>2. /\ batched'.samples = batched.samples + Bit(l = "success" /\ ms = {})
      /\ batched'.extensions = [k \in Counters |->
             batched.extensions[k] + Bit(k \in Extensions(l, ms))]
      /\ batched' \in [samples : Nat, extensions : [Counters -> Nat]]
  <2>1. batched.samples \in Nat /\ \A k \in Counters : batched.extensions[k] \in Nat
    BY DEF Accumulated
  <2>2. \A k \in Counters : batched.extensions[k] + Bit(k \in Extensions(l, ms)) \in Nat
    BY <2>1 DEF Bit
  <2>3. batched.samples + Bit(l = "success" /\ ms = {}) \in Nat
    BY <2>1 DEF Bit
  <2> QED BY <2>2, <2>3 DEF Ends, BatchMetric
<1>3. ASSUME NEW m \in Labels, NEW k \in Kinds
      PROVE  /\ Logged(m, k)' = Logged(m, k) + Bit(<<m, k>> \in Extensions(l, ms))
             /\ Logged(m, k) \in Nat
  <2>1. <<m, k>> \in Counters
    BY DEF Counters
  <2>2. batched'.extensions[<<m, k>>] = batched.extensions[<<m, k>>]
                                         + Bit(<<m, k>> \in Extensions(l, ms))
    BY <2>1, <1>2
  <2>3. Bit(<<m, k>> \in Extensions(l, ms)) \in Nat
    BY DEF Bit
  <2> QED BY <2>1, <2>2, <2>3 DEF Logged, Accumulated
<1>4. \A m \in Labels : <<m, "total">> \in Extensions(l, ms) <=> m = l
  BY DEF Extensions, Hits
<1>5. \A m \in Labels : <<m, "miss">> \in Extensions(l, ms) <=> m = l /\ ms = {}
  BY DEF Extensions, Hits
<1>6. \A q \in Callers : q # c => /\ course'[q] = course[q] /\ label'[q] = label[q]
                                 /\ marks'[q] = marks[q] /\ (q \in thrown' <=> q \in thrown)
  BY <1>1 DEF Courses
<1>7. /\ course'[c] = "ended" /\ label'[c] = l /\ marks'[c] = ms
      /\ throws => c \in thrown'
      /\ c \in thrown' /\ ~throws => c \in thrown
  BY <1>1 DEF Courses
<1>8. c \notin thrown /\ c \notin EndedCalls
  BY DEF Courses, EndedCalls
<1>9. EndedCalls' = EndedCalls \cup {c}
  BY <1>6, <1>7 DEF EndedCalls
<1>10. ASSUME NEW m \in Labels
       PROVE  /\ LabelledAs(m)' = IF m = l THEN LabelledAs(m) \cup {c} ELSE LabelledAs(m)
              /\ LabelledAs(m) \in SUBSET Callers /\ c \notin LabelledAs(m)
  BY <1>6, <1>7, <1>8, <1>9 DEF LabelledAs, EndedCalls
<1>11. ASSUME NEW m \in Labels
       PROVE  /\ MissedAs(m)' = IF m = l /\ ms = {} THEN MissedAs(m) \cup {c} ELSE MissedAs(m)
              /\ MissedAs(m) \in SUBSET Callers /\ c \notin MissedAs(m)
  BY <1>6, <1>7, <1>8, <1>10 DEF MissedAs, LabelledAs, EndedCalls
<1>12. Counted
  BY CountedMeans
<1>13. \A m \in Labels : Logged(m, "total")' = Cardinality(LabelledAs(m)')
  <2> SUFFICES ASSUME NEW m \in Labels PROVE Logged(m, "total")' = Cardinality(LabelledAs(m)')
    OBVIOUS
  <2>1. Cardinality(LabelledAs(m)') = Cardinality(LabelledAs(m)) + Bit(m = l)
    BY <1>10, OneMore
  <2>2. Logged(m, "total")' = Logged(m, "total") + Bit(<<m, "total">> \in Extensions(l, ms))
    BY <1>3 DEF Kinds
  <2>3. Bit(<<m, "total">> \in Extensions(l, ms)) = Bit(m = l)
    BY <1>4 DEF Bit
  <2> QED BY <2>1, <2>2, <2>3, <1>12 DEF Counted
<1>14. \A m \in Labels : Logged(m, "miss")' = Cardinality(MissedAs(m)')
  <2> SUFFICES ASSUME NEW m \in Labels PROVE Logged(m, "miss")' = Cardinality(MissedAs(m)')
    OBVIOUS
  <2>1. Cardinality(MissedAs(m)') = Cardinality(MissedAs(m)) + Bit(m = l /\ ms = {})
    BY <1>11, OneMore
  <2>2. Logged(m, "miss")' = Logged(m, "miss") + Bit(<<m, "miss">> \in Extensions(l, ms))
    BY <1>3 DEF Kinds
  <2>3. Bit(<<m, "miss">> \in Extensions(l, ms)) = Bit(m = l /\ ms = {})
    BY <1>5 DEF Bit
  <2> QED BY <2>1, <2>2, <2>3, <1>12 DEF Counted
<1>15. batched'.samples + flushed'.samples = Logged("success", "miss")'
  <2>1. Bit(<<"success", "miss">> \in Extensions(l, ms)) = Bit(l = "success" /\ ms = {})
    BY <1>5 DEF Bit, Labels
  <2>2. /\ Logged("success", "miss")' = Logged("success", "miss")
               + Bit(<<"success", "miss">> \in Extensions(l, ms))
        /\ Logged("success", "miss") \in Nat
    BY <1>3 DEF Kinds, Labels
  <2>3. batched.samples \in Nat /\ flushed.samples \in Nat
    BY DEF Accumulated
  <2>4. Bit(l = "success" /\ ms = {}) \in Nat
    BY DEF Bit
  <2> QED BY <1>2, <1>12, <2>1, <2>2, <2>3, <2>4 DEF Counted
<1>16. Counted'
  BY <1>13, <1>14, <1>15 DEF Counted
<1> QED BY <1>2, <1>16, CountedMeans DEF Accumulated

\* Whatever is not the end of a call counts nothing.
LEMMA NothingCounted ==
    ASSUME MetricsInv, UNCHANGED <<label, marks, thrown, batched, flushed>>,
           \A c \in Callers : course'[c] = "ended" <=> course[c] = "ended",
           \A c \in Callers : course[c] = "ended" => (c \in sent' <=> c \in sent)
    PROVE  MissesReachOrigin' /\ Accumulated'
<1>1. EndedCalls' = EndedCalls
  BY DEF EndedCalls
<1> USE DEF MetricsInv, MetricsShape
<1>2. \A l \in Labels : LabelledAs(l)' = LabelledAs(l)
  BY <1>1 DEF LabelledAs
<1>3. \A l \in Labels : MissedAs(l)' = MissedAs(l)
  BY <1>2 DEF MissedAs, LabelledAs, EndedCalls
<1>4. Counted'
  BY <1>2, <1>3, CountedMeans DEF Counted, Logged
<1> QED BY <1>4, CountedMeans DEF Accumulated

LEMMA MetricsInitInv == MetricsInit => MetricsInv
<1> SUFFICES ASSUME MetricsInit PROVE MetricsInv
  OBVIOUS
<1>1. Maps /\ Spans /\ Courses /\ SpansFollowAttempts
  BY CallersAssumption DEF MetricsInit, Maps, Spans, Courses, SpansFollowAttempts, NoJoin
<1>2. Accumulated
  BY DEF MetricsInit, Accumulated, NothingYet
<1>3. /\ \A l \in Labels : LabelledAs(l) = {} /\ MissedAs(l) = {}
      /\ \A l \in Labels, k \in Kinds : Logged(l, k) = 0
      /\ batched.samples = 0 /\ flushed.samples = 0
  BY DEF MetricsInit, LabelledAs, MissedAs, EndedCalls, Logged, NothingYet, Counters
<1>4. Counted
  BY <1>3, FS_EmptySet DEF Counted, Labels, Kinds
<1> QED BY <1>1, <1>2, <1>4, CountedMeans DEF MetricsInv, MetricsShape

\* The end of a call, whichever it is: what it is told to be, and the spans.
LEMMA EndKeeps ==
    ASSUME MetricsInv, NEW c \in Callers, course[c] # "ended",
           NEW l \in Labels, NEW ms \in SUBSET Hits, NEW throws \in BOOLEAN,
           Ends(c, l, ms, throws), flushed' = flushed,
           UNCHANGED <<memo, joins, retries, sent>>,
           ms = {} <=> throws \/ (c \in sent /\ "hit" \notin ms),
           open' \in [Callers -> SUBSET (0..MaxRetries)],
           \A q \in Callers : q # c => open'[q] = open[q],
           open'[c] = IF l = "cancelled" /\ joins[c] = NoJoin THEN {retries[c]} ELSE {}
    PROVE  MetricsInv'
<1> USE DEF MetricsInv, MetricsShape
<1>1. MissesReachOrigin' /\ Accumulated'
  BY EndIsCounted
<1>2. /\ course' = [course EXCEPT ![c] = "ended"] /\ label' = [label EXCEPT ![c] = l]
      /\ marks' = [marks EXCEPT ![c] = ms]
      /\ thrown' = IF throws THEN thrown \cup {c} ELSE thrown
      /\ flight' = IF flight = c THEN 0 ELSE flight
  BY DEF Ends
<1>3. Maps' /\ Spans'
  BY <1>2 DEF Maps, Spans
<1>4. Courses'
  BY <1>2 DEF Courses, Labels
<1>5. SpansFollowAttempts'
  <2>1. course'[c] = "ended" /\ label'[c] = l
    BY <1>2 DEF Courses
  <2>2. \A q \in Callers : q # c => course'[q] = course[q] /\ label'[q] = label[q]
    BY <1>2 DEF Courses
  <2> QED BY <2>1, <2>2 DEF SpansFollowAttempts
<1> QED BY <1>1, <1>3, <1>4, <1>5

\* An attempt starts, with its span.
LEMMA AttemptKeeps ==
    ASSUME MetricsInv, NEW c \in Callers, course[c] \in {"lookup", "backoff"}, Attempt(c),
           UNCHANGED <<memo, flight, joins, retries, label, marks, thrown, batched, flushed>>
    PROVE  MetricsInv'
<1> USE DEF MetricsInv, MetricsShape
<1>1. /\ course' = [course EXCEPT ![c] = "attempt"]
      /\ open' = [open EXCEPT ![c] = open[c] \cup {retries[c]}]
      /\ sent' \in {sent, sent \cup {c}}
  BY DEF Attempt
<1>2. /\ course'[c] = "attempt"
      /\ \A q \in Callers : q # c => course'[q] = course[q]
  BY <1>1 DEF Courses
<1>3. MissesReachOrigin' /\ Accumulated'
  <2>1. \A q \in Callers : course'[q] = "ended" <=> course[q] = "ended"
    BY <1>2
  <2>2. \A q \in Callers : course[q] = "ended" => (q \in sent' <=> q \in sent)
    BY <1>1
  <2> QED BY <2>1, <2>2, NothingCounted
<1>4. Maps' /\ Spans'
  BY <1>1 DEF Maps, Spans
<1>5. Courses'
  BY <1>1, <1>2 DEF Courses
<1>6. SpansFollowAttempts'
  <2>1. open[c] = {}
    BY DEF SpansFollowAttempts, Courses
  <2>2. open'[c] = {retries[c]} /\ \A q \in Callers : q # c => open'[q] = open[q]
    BY <1>1, <2>1 DEF Spans
  <2> QED BY <1>2, <2>2 DEF SpansFollowAttempts
<1> QED BY <1>3, <1>4, <1>5, <1>6

\* A call starts or the request is aborted: spans and counters stay.
LEMMA StartKeeps ==
    ASSUME MetricsInv, NEW c \in Callers, course[c] = "new",
           NEW s \in {"joined", "lookup"}, course' = [course EXCEPT ![c] = s],
           Maps', \A q \in Callers : q # c => joins'[q] = joins[q],
           joins'[c] = NoJoin <=> s = "lookup",
           UNCHANGED <<retries, open, label, marks, thrown, sent, batched, flushed>>
    PROVE  MetricsInv'
<1> USE DEF MetricsInv, MetricsShape
<1>1. course'[c] = s /\ \A q \in Callers : q # c => course'[q] = course[q]
  BY DEF Courses
<1>2. MissesReachOrigin' /\ Accumulated'
  <2>1. \A q \in Callers : course'[q] = "ended" <=> course[q] = "ended"
    BY <1>1
  <2> QED BY <2>1, NothingCounted
<1>3. Spans'
  BY DEF Spans
<1>4. Courses'
  BY <1>1 DEF Courses
<1>5. SpansFollowAttempts'
  BY <1>1 DEF SpansFollowAttempts, Courses
<1> QED BY <1>2, <1>3, <1>4, <1>5

\* A flush moves what is counted.
LEMMA FlushKeeps == MetricsInv /\ StatusTrack => MetricsInv'
<1> SUFFICES ASSUME MetricsInv, StatusTrack PROVE MetricsInv'
  OBVIOUS
<1> USE DEF MetricsInv, MetricsShape
<1>1. /\ UNCHANGED <<course, memo, flight, joins, retries, open, label, marks, thrown, sent>>
      /\ batched' = NothingYet
      /\ flushed' = [samples |-> flushed.samples + batched.samples,
                     extensions |-> [k \in Counters |->
                         flushed.extensions[k] + batched.extensions[k]]]
  BY DEF StatusTrack, callCourse
<1>2. /\ batched.samples \in Nat /\ flushed.samples \in Nat
      /\ \A k \in Counters : batched.extensions[k] \in Nat /\ flushed.extensions[k] \in Nat
  BY DEF Accumulated
<1>3. Accumulated'
  BY <1>1, <1>2 DEF Accumulated, NothingYet
<1>4. /\ batched'.samples = 0 /\ flushed'.samples = flushed.samples + batched.samples
      /\ \A k \in Counters : /\ batched'.extensions[k] = 0
                             /\ flushed'.extensions[k] = flushed.extensions[k]
                                                          + batched.extensions[k]
  BY <1>1 DEF NothingYet
<1>5. \A l \in Labels, k \in Kinds : Logged(l, k)' = Logged(l, k)
  <2> SUFFICES ASSUME NEW l \in Labels, NEW k \in Kinds PROVE Logged(l, k)' = Logged(l, k)
    OBVIOUS
  <2>1. <<l, k>> \in Counters
    BY DEF Counters
  <2> QED BY <2>1, <1>2, <1>4 DEF Logged
<1>6. \A l \in Labels : LabelledAs(l)' = LabelledAs(l) /\ MissedAs(l)' = MissedAs(l)
  BY <1>1 DEF LabelledAs, MissedAs, EndedCalls
<1>7. batched'.samples + flushed'.samples = batched.samples + flushed.samples
  BY <1>2, <1>4
<1>8. Counted'
  BY <1>5, <1>6, <1>7, CountedMeans DEF Counted, Kinds, Labels
<1>9. Maps' /\ Spans' /\ Courses' /\ SpansFollowAttempts'
  BY <1>1 DEF Maps, Spans, Courses, SpansFollowAttempts
<1> QED BY <1>3, <1>8, <1>9, CountedMeans

\* Every step of the calls and the accumulator keeps the counters right.
LEMMA MetricsInvInductive == MetricsInv /\ [MetricsNext]_metricsVars => MetricsInv'
<1> SUFFICES ASSUME MetricsInv, [MetricsNext]_metricsVars PROVE MetricsInv'
  OBVIOUS
<1> USE DEF MetricsInv, MetricsShape
<1>1. CASE RequestAborted
  <2>1. UNCHANGED <<course, memo, flight, joins, retries, open, label, marks, thrown, sent,
                    batched, flushed>>
    BY <1>1 DEF RequestAborted, accumulator
  <2>2. MissesReachOrigin' /\ Accumulated'
    BY <2>1, NothingCounted
  <2> QED BY <2>1, <2>2 DEF Maps, Spans, Courses, SpansFollowAttempts
<1>2. CASE StatusTrack
  BY <1>2, FlushKeeps
<1>3. ASSUME NEW c \in Callers, JoinMemo(c) PROVE MetricsInv'
  <2>1. /\ joins' = [joins EXCEPT ![c] = [call |-> memo, by |-> "memoized"]]
        /\ UNCHANGED <<memo, flight>>
    BY <1>3 DEF JoinMemo
  <2>4. [call |-> memo, by |-> "memoized"] \in [call : Callers, by : {"memoized", "inflight"}]
    BY <1>3 DEF JoinMemo, Maps
  <2>2. joins'[c] # NoJoin /\ \A q \in Callers : q # c => joins'[q] = joins[q]
    BY <2>1 DEF Maps, NoJoin
  <2>3. Maps'
    BY <2>1, <2>4 DEF Maps
  <2> QED BY <1>3, <2>2, <2>3, StartKeeps DEF JoinMemo, accumulator
<1>4. ASSUME NEW c \in Callers, NEW memoizable \in BOOLEAN, JoinInflight(c, memoizable)
      PROVE  MetricsInv'
  <2>1. /\ joins' = [joins EXCEPT ![c] = [call |-> flight, by |-> "inflight"]]
        /\ memo' \in {memo, c} /\ flight' = flight
    BY <1>4 DEF JoinInflight
  <2>4. [call |-> flight, by |-> "inflight"] \in [call : Callers, by : {"memoized", "inflight"}]
    BY <1>4 DEF JoinInflight, Maps
  <2>2. joins'[c] # NoJoin /\ \A q \in Callers : q # c => joins'[q] = joins[q]
    BY <2>1 DEF Maps, NoJoin
  <2>3. Maps'
    BY <2>1, <2>4 DEF Maps
  <2> QED BY <1>4, <2>2, <2>3, StartKeeps DEF JoinInflight, accumulator
<1>5. ASSUME NEW c \in Callers, NEW memoizable \in BOOLEAN, NEW keyed \in BOOLEAN,
             Lead(c, memoizable, keyed)
      PROVE  MetricsInv'
  <2>1. /\ course[c] = "new" /\ joins' = joins
        /\ memo' \in {memo, c} /\ flight' \in {flight, c}
    BY <1>5 DEF Lead
  <2>2. joins'[c] = NoJoin
    BY <2>1 DEF Courses
  <2>3. Maps'
    BY <2>1 DEF Maps
  <2> QED BY <1>5, <2>1, <2>2, <2>3, StartKeeps DEF Lead, accumulator
<1>6. ASSUME NEW c \in Callers, JoinedEnds(c) PROVE MetricsInv'
  <2> DEFINE d == joins[c].call
             ms == IF d \in thrown THEN {} ELSE {joins[c].by}
  <2>1. /\ course[c] = "joined" /\ course[d] = "ended"
        /\ Ends(c, label[d], ms, d \in thrown)
        /\ UNCHANGED <<memo, joins, retries, open, sent, flushed>>
    BY <1>6 DEF JoinedEnds
  <2>2. /\ joins[c] # NoJoin /\ joins[c].by \in {"memoized", "inflight"} /\ d \in Callers
        /\ c \notin sent /\ open[c] = {}
    BY <2>1 DEF Courses, Maps, SpansFollowAttempts
  <2>3. label[d] \in Labels
    BY <2>1, <2>2 DEF Courses
  <2>4. ms \in SUBSET Hits /\ (ms = {} <=> d \in thrown) /\ (d \in thrown) \in BOOLEAN
    BY <2>2 DEF Hits
  <2>5. open' \in [Callers -> SUBSET (0..MaxRetries)]
    BY <2>1 DEF Spans
  <2> HIDE DEF d, ms
  <2> QED BY <2>1, <2>2, <2>3, <2>4, <2>5, EndKeeps
<1>7. ASSUME NEW c \in Callers, FreshHit(c) PROVE MetricsInv'
  <2>1. /\ course[c] = "lookup"
        /\ Ends(c, "success", {"hit"}, FALSE) \/ Ends(c, "4xx", {"hit"}, FALSE)
        /\ UNCHANGED <<memo, joins, retries, open, sent, flushed>>
    BY <1>7 DEF FreshHit
  <2>2. open[c] = {} /\ c \notin sent /\ open \in [Callers -> SUBSET (0..MaxRetries)]
    BY <2>1 DEF Courses, Spans, SpansFollowAttempts
  <2>3. "success" \in Labels /\ "4xx" \in Labels /\ {"hit"} \in SUBSET Hits
    BY DEF Labels, Hits
  <2>4. CASE Ends(c, "success", {"hit"}, FALSE)
    BY <2>1, <2>2, <2>3, <2>4, EndKeeps
  <2>5. CASE Ends(c, "4xx", {"hit"}, FALSE)
    BY <2>1, <2>2, <2>3, <2>5, EndKeeps
  <2> QED BY <2>1, <2>4, <2>5
<1>8. ASSUME NEW c \in Callers, MissOrStale(c) PROVE MetricsInv'
  BY <1>8, AttemptKeeps DEF MissOrStale, accumulator
<1>9. ASSUME NEW c \in Callers, Resend(c) PROVE MetricsInv'
  BY <1>9, AttemptKeeps DEF Resend, accumulator, callCourse
<1>10. ASSUME NEW c \in Callers, Finishes(c), course[c] = "attempt"
       PROVE  /\ open' \in [Callers -> SUBSET (0..MaxRetries)] /\ open'[c] = {}
              /\ \A q \in Callers : q # c => open'[q] = open[q]
  <2>1. open[c] = {retries[c]}
    BY <1>10 DEF SpansFollowAttempts
  <2> QED BY <1>10, <2>1 DEF Finishes, Spans
<1>11. ASSUME NEW c \in Callers, Answered(c) PROVE MetricsInv'
  <2>1. /\ course[c] = "attempt" /\ c \in sent /\ Finishes(c)
        /\ UNCHANGED <<memo, joins, retries, sent, flushed>>
    BY <1>11 DEF Answered, Underway
  <2>2. /\ "success" \in Labels /\ "4xx" \in Labels
        /\ {"hit"} \in SUBSET Hits /\ {} \in SUBSET Hits
    BY DEF Labels, Hits
  <2>3. CASE Ends(c, "success", {"hit"}, FALSE)
    BY <2>1, <2>2, <2>3, <1>10, EndKeeps
  <2>4. CASE Ends(c, "success", {}, FALSE)
    BY <2>1, <2>2, <2>4, <1>10, EndKeeps
  <2>5. CASE Ends(c, "4xx", {}, FALSE)
    BY <2>1, <2>2, <2>5, <1>10, EndKeeps
  <2>6. CASE Ends(c, "4xx", {"hit"}, FALSE)
    BY <2>1, <2>2, <2>6, <1>10, EndKeeps
  <2> QED BY <1>11, <2>3, <2>4, <2>5, <2>6 DEF Answered
<1>12. ASSUME NEW c \in Callers, Retry(c) PROVE MetricsInv'
  <2>1. /\ course[c] = "attempt" /\ c \in sent /\ Finishes(c)
        /\ course' = [course EXCEPT ![c] = "backoff"]
        /\ retries' = [retries EXCEPT ![c] = retries[c] + 1] /\ retries[c] < MaxRetries
        /\ UNCHANGED <<memo, flight, joins, label, marks, thrown, sent, batched, flushed>>
    BY <1>12 DEF Retry, Underway, callCourse, accumulator
  <2>2. course'[c] = "backoff" /\ \A q \in Callers : q # c => course'[q] = course[q]
    BY <2>1 DEF Courses
  <2>3. MissesReachOrigin' /\ Accumulated'
    <3>1. \A q \in Callers : course'[q] = "ended" <=> course[q] = "ended"
      BY <2>1, <2>2
    <3> QED BY <2>1, <3>1, NothingCounted
  <2>4. /\ open' \in [Callers -> SUBSET (0..MaxRetries)] /\ open'[c] = {}
        /\ \A q \in Callers : q # c => open'[q] = open[q]
    BY <2>1, <1>10
  <2>5. Maps' /\ Spans'
    <3>1. retries[c] + 1 \in 0..MaxRetries
      BY <2>1, CallersAssumption DEF Spans
    <3>2. retries' \in [Callers -> 0..MaxRetries]
      BY <2>1, <3>1 DEF Spans
    <3> QED BY <2>1, <2>4, <3>2 DEF Maps, Spans
  <2>6. Courses'
    BY <2>1, <2>2 DEF Courses
  <2>7. SpansFollowAttempts'
    BY <2>1, <2>2, <2>4 DEF SpansFollowAttempts, Courses, Spans
  <2> QED BY <2>3, <2>5, <2>6, <2>7
<1>13. ASSUME NEW c \in Callers, Rejected(c) PROVE MetricsInv'
  <2>1. /\ course[c] = "attempt" /\ Finishes(c) /\ Ends(c, "error", {}, TRUE)
        /\ UNCHANGED <<memo, joins, retries, sent, flushed>>
    BY <1>13 DEF Rejected, Underway
  <2>2. "error" \in Labels /\ {} \in SUBSET Hits
    BY DEF Labels
  <2> QED BY <2>1, <2>2, <1>10, EndKeeps
<1>14. ASSUME NEW c \in Callers, Cancelled(c) PROVE MetricsInv'
  <2>1. /\ course[c] = "attempt" /\ Ends(c, "cancelled", {}, TRUE)
        /\ UNCHANGED <<memo, joins, retries, open, sent, flushed>>
    BY <1>14 DEF Cancelled
  <2>2. /\ open[c] = {retries[c]} /\ joins[c] = NoJoin
        /\ open \in [Callers -> SUBSET (0..MaxRetries)]
    BY <2>1 DEF Courses, Spans, SpansFollowAttempts
  <2>3. "cancelled" \in Labels /\ {} \in SUBSET Hits
    BY DEF Labels
  <2> QED BY <2>1, <2>2, <2>3, EndKeeps
<1>15. CASE UNCHANGED metricsVars
  <2>1. UNCHANGED <<course, memo, flight, joins, retries, open, label, marks, thrown, sent,
                    batched, flushed>>
    BY <1>15 DEF metricsVars
  <2>2. MissesReachOrigin' /\ Accumulated'
    BY <2>1, NothingCounted
  <2> QED BY <2>1, <2>2 DEF Maps, Spans, Courses, SpansFollowAttempts
<1> QED BY <1>1, <1>2, <1>3, <1>4, <1>5, <1>6, <1>7, <1>8, <1>9, <1>11, <1>12, <1>13, <1>14,
           <1>15 DEF MetricsNext

\* For any finite set of calls and any number of retries: each counter is the number
\* of ended calls it tells of, and a span is open while its attempt is under way.
THEOREM CallsAreAccountedFor == MetricsSpec => []CallsAccountedFor
<1>1. MetricsInv => CallsAccountedFor
  BY DEF MetricsInv, CallsAccountedFor
<1> QED BY MetricsInitInv, MetricsInvInductive, <1>1, PTL DEF MetricsSpec

-----------------------------------------------------------------------------
(* The four parts together.                                                   *)

ClientsInv == CallsInv /\ MetaInv /\ MergeInv /\ MetricsInv

clientsVars == <<world, callVars, metaVars, mergeVars, metricsVars>>

\* No more calls are sampled than there are.
LEMMA MetricsInvTyped == MetricsInv => MetricsTypeOK
<1> SUFFICES ASSUME MetricsInv PROVE MetricsTypeOK
  OBVIOUS
<1>1. batched.samples + flushed.samples = Cardinality(MissedAs("success"))
  BY CountedMeans DEF MetricsInv, Counted, Labels
<1>2. MissedAs("success") \subseteq Callers
  BY DEF MissedAs, LabelledAs, EndedCalls
<1>3. Cardinality(MissedAs("success")) <= Cardinality(Callers)
  BY <1>2, CallersAssumption, FS_Subset
<1>4. /\ course \in [Callers -> {"new", "joined", "lookup", "attempt", "backoff", "ended"}]
      /\ label \in [Callers -> Labels \cup {"unknown"}]
  BY DEF MetricsInv, MetricsShape, Courses
<1>5. \A c \in Callers : open[c] \subseteq 0..MaxRetries /\ retries[c] <= MaxRetries
  BY CallersAssumption DEF MetricsInv, MetricsShape, Spans
<1> QED BY <1>1, <1>3, <1>4, <1>5 DEF MetricsTypeOK

\* One part moves at a time and keeps its invariant; the others rest.
LEMMA ClientsInvInductive == ClientsInv /\ [ClientsNext]_clientsVars => ClientsInv'
<1> SUFFICES ASSUME ClientsInv, [ClientsNext]_clientsVars PROVE ClientsInv'
  OBVIOUS
<1>1. /\ [CallsNext]_callVars /\ [MetaNext]_metaVars /\ [MergeNext]_mergeVars
      /\ [MetricsNext]_metricsVars
  BY DEF ClientsNext, clientsVars
<1>2. CallsInv'
  BY <1>1, CallsInvInductive DEF ClientsInv
<1>3. MetaInv'
  BY <1>1, MetaInvInductive DEF ClientsInv
<1>4. MergeInv'
  BY <1>1, MergeInvInductive DEF ClientsInv
<1>5. MetricsInv'
  BY <1>1, MetricsInvInductive DEF ClientsInv
<1> QED BY <1>2, <1>3, <1>4, <1>5 DEF ClientsInv

\* The calls, versions, contents and counters of all four parts stay in their ranges,
\* whatever the constants are.
THEOREM ClientsTypeCorrect == ClientsSpec => []ClientsTypeOK
<1>1. ClientsInit => ClientsInv
  BY CallsInvInit, InitMetaInv, MergeInvInit, MetricsInitInv DEF ClientsInit, ClientsInv
<1>2. ClientsInv => ClientsTypeOK
  BY MetricsInvTyped DEF ClientsInv, ClientsTypeOK, CallsInv, MetaInv, MergeInv
<1> QED BY <1>1, <1>2, ClientsInvInductive, PTL DEF ClientsSpec, clientsVars

=============================================================================
