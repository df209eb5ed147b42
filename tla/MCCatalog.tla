------------------------------ MODULE MCCatalog ------------------------------
(* One part: loads and runs.  Dataset dem is materialized throughout; the  *)
(* other is federated, gone, or materialized.  The second release adds a   *)
(* migration, the third has an earlier file edited.                        *)
(*                                                                         *)
(* The other part: registries of one entry, made from three that are       *)
(* shipped (or, the Zarr one, were) by at most two changes, and registries *)
(* of two entries and a retired one.                                       *)
(*                                                                         *)
(* And the object store: prepared again and again, and two attempts of a   *)
(* run that upload a file of one part and a small one.                     *)
EXTENDS Catalog, DatasetBook, ObjectStore, TLC

CONSTANTS p1, p2, dem, other, north, east, south, west, a1, a2

VARIABLE part  \* which of the four

MCListed == [x \in {dem} |-> <<{north, east}, {east, south, west}>>]

Code(held, first, second) ==
  [registry |-> [x \in Datasets |-> IF x = dem THEN "materialized" ELSE held], files |-> <<first, second>>]
MCReleases == <<Code("federated", "x", Nothing), Code(Nothing, "x", "y"), Code("materialized", "z", Nothing)>>

Alike == Permutations(Tasks) \cup Permutations(Uploaders)

----------------------------------------------------------------------------
Key(name) == <<name, "">>

Range0To100(property, measure) ==
  [property |-> property, kind |-> "range", low |-> 0, high |-> 100, percent |-> TRUE, values |-> <<>>,
   group |-> "Clouds", area |-> TRUE, measure |-> measure]
Clouds == Range0To100("eo:cloud_cover", {"earthx:aoi_cloud_cover"})
Snow == Range0To100("s2:snow_ice_percentage", {"earthx:aoi_snow_ice"})
Platform == [Range0To100("platform", {}) EXCEPT !.kind = "values", !.values = <<"a", "b">>, !.area = FALSE, !.group = "Satellite"]

Layer == [asset |-> Key("scl"), band |-> "scl", classes |-> <<3, 8, 11>>, suggested |-> {3, 8}, clouds |-> {8},
          cloudNote |-> TRUE, shares |-> {[measure |-> "earthx:aoi_snow_ice", classes |-> {11}]}]
View == [group |-> <<"datetime", "grid:code">>, results |-> <<"datetime", "s2:datatake_id">>, low |-> 8, high |-> 14,
         browse |-> "quicklook", blank |-> {16}]
Ndvi == [name |-> "NDVI", reads |-> {Key("red"), Key("nir")}, isExpression |-> TRUE, colormapKnown |-> TRUE]

Sentinel ==
  [id |-> "s2", prototype |-> FALSE, legalStatus |-> "cleared", legalNote |-> FALSE, format |-> "cog",
   holding |-> "federated", adapter |-> "earth-search-v1", provider |-> "upstream-aggregation", footprint |-> 110,
   level |-> 8, single |-> FALSE, tier |-> "processing", distribution |-> TRUE, derivatives |-> TRUE,
   attributionRequired |-> TRUE, attributionText |-> TRUE, account |-> "none", accountProvider |-> FALSE,
   accountPaths |-> {}, checked |-> TRUE, cors |-> TRUE, hosts |-> {[operator |-> "aws", region |-> "west"]},
   dataRegion |-> [operator |-> "aws", region |-> "west"], viewer |-> {View}, separator |-> {}, masking |-> TRUE,
   mask |-> {Layer}, units |-> {Key("red"), Key("green"), Key("blue"), Key("nir"), Key("scl"), Key("visual")},
   render |-> {Key("visual")}, auxiliary |-> {Key("visual")}, bandMath |-> TRUE, presets |-> <<Ndvi>>,
   trueColor |-> <<Key("red"), Key("green"), Key("blue")>>, filters |-> <<Clouds, Snow, Platform>>,
   evaluate |-> TRUE, aoiCoverage |-> TRUE]

Dem ==
  [Sentinel EXCEPT !.id = "dem", !.holding = "materialized", !.adapter = "cop-dem-bucket", !.provider = "local-sql",
     !.single = TRUE, !.viewer = {[View EXCEPT !.results = <<"start_datetime">>, !.browse = "full_resolution", !.blank = {}]},
     !.masking = FALSE, !.mask = {}, !.units = {Key("data")}, !.render = {Key("data")}, !.auxiliary = {},
     !.presets = <<>>, !.trueColor = <<>>, !.filters = <<>>, !.evaluate = FALSE]

ZarrScl == <<"SCL_20m", "scl">>
Zarr ==
  [Sentinel EXCEPT !.id = "zarr", !.format = "zarr", !.separator = {":"}, !.units = {ZarrScl, <<"SR_10m", "*">>},
     !.render = {<<"SR_10m", "b04">>}, !.auxiliary = {}, !.presets = <<>>, !.trueColor = <<>>,
     !.mask = {[Layer EXCEPT !.asset = ZarrScl, !.clouds = {}, !.shares = {}]}, !.filters = <<Platform>>]

Changes == {
  <<"format", "cog">>, <<"format", "zarr">>, <<"format", "legacy">>,
  <<"holding", "federated">>, <<"holding", "materialized">>, <<"adapter", "earth-search-v1">>, <<"adapter", "cop-dem-bucket">>,
  <<"provider", "upstream-aggregation">>, <<"provider", "local-sql">>, <<"single", TRUE>>, <<"single", FALSE>>,
  <<"footprint", 0>>, <<"footprint", 500>>, <<"level", 9>>,
  <<"tier", "catalog">>, <<"tier", "display">>, <<"derivatives", FALSE>>, <<"attributionText", FALSE>>,
  <<"legalStatus", "unclear">>, <<"legalNote", TRUE>>, <<"prototype", TRUE>>,
  <<"account", "free_account">>, <<"account", "anonymous_token">>, <<"accountProvider", TRUE>>, <<"checked", FALSE>>,
  <<"cors", FALSE>>, <<"dataRegion", [operator |-> "aws", region |-> "east"]>>,
  <<"viewer", {}>>, <<"viewer", {[View EXCEPT !.results = <<"start_datetime">>]}>>, <<"viewer", {[View EXCEPT !.low = 15]}>>,
  <<"viewer", {[View EXCEPT !.browse = "preview_tiles"]}>>, <<"separator", {}>>, <<"separator", {":"}>>,
  <<"masking", TRUE>>, <<"masking", FALSE>>, <<"mask", {}>>, <<"mask", {[Layer EXCEPT !.clouds = {}]}>>,
  <<"mask", {[Layer EXCEPT !.clouds = {}, !.shares = {}]}>>, <<"mask", {[Layer EXCEPT !.shares = {}]}>>,
  <<"mask", {[Layer EXCEPT !.suggested = {5}]}>>, <<"mask", {[Layer EXCEPT !.band = "red"]}>>,
  <<"units", {Key("red"), Key("nir")}>>, <<"auxiliary", {Key("nir")}>>, <<"auxiliary", {Key("scl")}>>,
  <<"bandMath", FALSE>>, <<"presets", <<[Ndvi EXCEPT !.reads = {Key("swir")}]>> >>, <<"presets", <<[Ndvi EXCEPT !.name = "red"]>> >>,
  <<"presets", <<[Ndvi EXCEPT !.isExpression = FALSE]>> >>, <<"presets", <<Ndvi, Ndvi>> >>,
  <<"trueColor", <<Key("red"), Key("red"), Key("blue")>> >>,
  <<"filters", <<>> >>, <<"filters", <<Clouds>> >>, <<"filters", <<[Clouds EXCEPT !.kind = "values", !.values = <<"a", "b">>]>> >>,
  <<"filters", <<[Clouds EXCEPT !.high = 50]>> >>, <<"filters", <<[Clouds EXCEPT !.area = FALSE]>> >>,
  <<"filters", <<Clouds, [Snow EXCEPT !.measure = {"earthx:aoi_water"}]>> >>, <<"filters", <<Clouds, Platform, Snow>> >>,
  <<"filters", <<Clouds, [Snow EXCEPT !.measure = Clouds.measure]>> >>,
  <<"filters", <<Clouds, [Platform EXCEPT !.property = AoiCoverage]>> >>, <<"adapter", "esa-worldcover-bucket">>,
  <<"evaluate", TRUE>>, <<"evaluate", FALSE>>}

Changed(entry, change) == [entry EXCEPT ![change[1]] = change[2]]

Book(entries, retired, path, profile) ==
  [entries |-> entries, retired |-> retired, prototypePath |-> path, profile |-> profile, ci |-> FALSE]

Proto == [Sentinel EXCEPT !.id = "proto-s2", !.prototype = TRUE, !.legalStatus = "unclear", !.legalNote = TRUE]
Left(id, successor) == [id |-> id, successor |-> successor]

MCBooks ==
  {Book(<<Changed(Changed(entry, x), y)>>, {}, FALSE, "") : entry \in {Sentinel, Dem, Zarr}, x \in Changes, y \in Changes}
  \cup {Book(<<Sentinel, second>>, retired, path, profile) :
          second \in {Dem, Proto, Sentinel},
          retired \in {{}, {Left("old", "s2")}, {Left("old", "older")}, {Left("old", "s2"), Left("dem", "s2")}},
          path \in BOOLEAN, profile \in {"", "local"}}

ASSUME EntriesAsRead == \A book \in MCBooks : \A e \in Elements(book.entries) : IsEntry(e)

----------------------------------------------------------------------------
MCServices == <<"jobs", "api">>
MCNeeds == [s \in {"jobs", "api"} |-> IF s = "jobs" THEN {"read", "write"} ELSE {"read"}]
MCEnvKeys == {<<>>, <<1>>, <<1, 1>>, <<1, 2>>}
MCParts == <<1, 0>>

----------------------------------------------------------------------------
CatalogRests == Init /\ release = [now |-> 1, deploys |-> 0] /\ habit = "alone"
BookRests == candidate = Book(<<>>, {}, FALSE, "") /\ process = "off" /\ asked = Nobody /\ reply = ""
SetupRests == SetupInit /\ store = NoStore

(* What a load of the first release leaves: three runs fit in beside it.   *)
LoadedOnce ==
  /\ release = [now |-> 1, deploys |-> 0]
  /\ source = [d \in DOMAIN Listed |-> [version |-> 1, withheld |-> {}, there |-> Listed[d][1]]]
  /\ applied = Files(1) /\ effects = [v \in Versions |-> IF Files(1)[v] = Nothing THEN 0 ELSE 1]
  /\ collections = Registry(1) /\ loadedBy = 1
  /\ items = [d \in Datasets |-> {}] /\ rows = <<>>
  /\ task = [p \in Tasks |-> Idle] /\ todo = [p \in Tasks |-> {}]
  /\ habit \in {"alone", "overlapping"}
  /\ count = [runs |-> 0, loads |-> 0]

MCInit ==
  \/ part = "loads" /\ (Init \/ LoadedOnce) /\ BookRests /\ SetupRests /\ TransferInit
  \/ part = "books" /\ CatalogRests /\ BookInit(MCBooks) /\ SetupRests /\ TransferInit
  \/ part = "setup" /\ CatalogRests /\ BookRests /\ SetupInit /\ TransferInit
  \/ part = "transfer" /\ CatalogRests /\ BookRests /\ SetupRests /\ TransferInit

MCNext ==
  /\ UNCHANGED part
  /\ \/ part = "loads" /\ Next /\ UNCHANGED <<bookVars, setupVars, transferVars>>
     \/ part = "books" /\ BookNext /\ UNCHANGED <<vars, setupVars, transferVars>>
     \/ part = "setup" /\ SetupNext /\ UNCHANGED <<vars, bookVars, transferVars>>
     \/ part = "transfer" /\ TransferNext /\ UNCHANGED <<vars, bookVars, setupVars>>

MCSpec == MCInit /\ [][MCNext]_<<part, vars, bookVars, setupVars, transferVars>>
=============================================================================
