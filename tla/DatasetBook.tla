---------------------------- MODULE DatasetBook ----------------------------
(***************************************************************************)
(* The registry of datasets: the checks an entry passes before any process *)
(* serves it (catalog/registry.py), what the registry and the API check    *)
(* when they start (adapters/spec.py, processing/index_presets.py), what a *)
(* collection then publishes (catalog/collection.py), and the routes that  *)
(* read the entry when a user takes up what was published.                 *)
(*                                                                         *)
(* An entry is a record; a part it may leave out is a set of at most one   *)
(* element.  An asset key is a pair <<group, variable>>, the variable ""   *)
(* in a dataset of single files.  Texts that are only required to be there *)
(* (titles, notes, addresses) are truth values.  Prototype entries are     *)
(* the ones whose id carries the prefix.                                   *)
(***************************************************************************)
EXTENDS Naturals, Sequences, FiniteSets

VARIABLES
  candidate,  \* the entries and the retired ids a release brings
  process,    \* "off", "refused" (the process ends) or "serving"
  asked,      \* the question answered last
  reply       \* and its answer

bookVars == <<candidate, process, asked, reply>>

Elements(s) == {s[i] : i \in 1..Len(s)}
EachOnce(s) == Cardinality(Elements(s)) = Len(s)

----------------------------------------------------------------------------
(* What a viewer, a licence, a source say.                                 *)

EarthCircumferenceKm == 40075
MaxTileZoom == 22

ViewerFits(v) ==
  /\ v.group # <<>> /\ EachOnce(v.group)
  /\ v.results # <<>> /\ EachOnce(v.results)
  /\ v.low \in 0..MaxTileZoom /\ v.high \in 0..MaxTileZoom /\ v.low <= v.high
  /\ v.blank # {} => v.browse = "quicklook" /\ v.blank \subseteq 0..255

(* The finest level whose cell still holds a footprint.                    *)
FinestLevel(km) == CHOOSE z \in 0..MaxTileZoom : km * 2^z <= EarthCircumferenceKm /\ km * 2^(z + 1) > EarthCircumferenceKm

CoverageFits(e) ==
  /\ e.footprint \in 1..EarthCircumferenceKm
  /\ e.level <= FinestLevel(e.footprint)
  /\ e.single => e.provider # "upstream-aggregation"

HoldingFits(e) == (e.holding = "materialized") <=> (e.provider = "local-sql")

TierFits(e) ==
  IF e.tier = "catalog" THEN e.viewer = {} ELSE e.distribution /\ e.derivatives

AttributionFits(e) == e.attributionRequired => e.attributionText

LegalStatusFits(e) ==
  /\ e.prototype <=> e.legalStatus = "unclear"
  /\ e.legalNote <=> e.legalStatus = "unclear"

Anonymous(e) == e.account \in {"none", "anonymous_token"}

AccessFits(e) ==
  /\ e.accountPaths = {}
  /\ Anonymous(e) => ~e.accountProvider
  /\ e.account = "free_account" => e.accountProvider
  /\ Anonymous(e) <=> e.checked
  /\ e.account # "none" => e.tier = "catalog"

(* The regions the AWS hosts of the assets name in themselves ("" where    *)
(* such a host names none).                                                *)
DataRegionFits(e) ==
  LET named == {h.region : h \in {g \in e.hosts : g.operator = "aws"}} \ {""} IN
  /\ Cardinality(named) <= 1
  /\ named # {} => e.dataRegion = [operator |-> "aws", region |-> CHOOSE r \in named : TRUE]
  /\ (\E h \in e.hosts : h.operator = "aws") => e.dataRegion.operator = "aws"

BrowseFits(e) == \A v \in e.viewer : v.browse = "quicklook" => e.cors

----------------------------------------------------------------------------
(* The mask layer, the units and the assets.                               *)

KeyName(key) == IF key[2] = "" THEN key[1] ELSE key[2]

AoiMeasures ==
  {"earthx:aoi_cloud_cover", "earthx:aoi_nodata", "earthx:aoi_thin_cirrus", "earthx:aoi_cloud_shadow",
   "earthx:aoi_snow_ice", "earthx:aoi_water", "earthx:aoi_vegetation", "earthx:aoi_not_vegetated"}
ClassMeasures == AoiMeasures \ {"earthx:aoi_cloud_cover", "earthx:aoi_nodata"}

\* The names under the prefix that is kept for what the platform computes.
AoiCoverage == "earthx:aoi_coverage"
Reserved == AoiMeasures \cup {AoiCoverage}

ShareClassesFit(m) ==
  /\ \A s, t \in m.shares : s.measure = t.measure => s = t
  /\ \A s \in m.shares : s.measure \in ClassMeasures /\ s.classes # {} /\ s.classes \subseteq Elements(m.classes)
  /\ m.shares # {} => m.clouds # {}

MaskFits(e) ==
  /\ e.masking <=> e.mask # {}
  /\ \A m \in e.mask :
       /\ m.band = KeyName(m.asset)
       /\ m.classes # <<>> /\ \A i \in 1..(Len(m.classes) - 1) : m.classes[i] < m.classes[i + 1]
       /\ m.suggested \subseteq Elements(m.classes)
       /\ m.clouds \subseteq Elements(m.classes)
       /\ ShareClassesFit(m)
       /\ m.clouds # {} => m.cloudNote /\ e.format = "cog"

IsPattern(key) == "*" \in {key[1], key[2]}
(* What a pattern stands for; two patterns are compared as they are        *)
(* written.                                                                *)
Covers(pattern, key) == \A i \in 1..2 : pattern[i] \in {"*", key[i]}

UnitsFit(e) ==
  /\ \A p, q \in {k \in e.units : IsPattern(k)} : p # q => ~Covers(p, q)
  /\ \A k \in e.render \cup {m.asset : m \in e.mask} : \E p \in e.units : Covers(p, k)

AuxiliaryFits(e) == \A m \in e.mask : m.asset \notin e.auxiliary

NotBands(e) == e.auxiliary \cup {m.asset : m \in e.mask}
DataBands(e) == {k \in e.units : ~IsPattern(k)} \ NotBands(e)

(* An expression names whole keys and no variable of a group.              *)
PresetReads(e, p) == p.reads # {} /\ p.reads \subseteq DataBands(e) /\ \A k \in p.reads : k[2] = ""

PresetsFit(e) ==
  /\ e.presets # <<>> => e.bandMath
  /\ \A i \in 1..Len(e.presets) :
       /\ \A k \in e.units : ~(k[1] = e.presets[i].name /\ k[2] = "")
       /\ \A j \in 1..(i - 1) : e.presets[j].name # e.presets[i].name
       /\ PresetReads(e, e.presets[i])

TrueColorFits(e) ==
  e.trueColor # <<>> => Len(e.trueColor) = 3 /\ EachOnce(e.trueColor) /\ Elements(e.trueColor) \subseteq DataBands(e)

----------------------------------------------------------------------------
(* The search filters.                                                     *)

FilterFits(f) ==
  /\ f.property \notin Reserved /\ f.measure \subseteq AoiMeasures
  /\ f.area => f.kind = "range"
  /\ f.kind = "range" => f.values = <<>> /\ f.low < f.high
  /\ f.kind = "values" => Len(f.values) >= 2 /\ EachOnce(f.values)

GroupsTogether(s) ==
  \A i, j \in 1..Len(s) : i < j /\ s[i].group = s[j].group => \A k \in i..j : s[k].group = s[i].group

(* A mutant: the classes of a measure are not asked for.                   *)
WithinAoiUnshared(e) ==
  \A f \in Elements(e.filters) : f.measure # {} =>
    f.kind = "range" /\ f.low = 0 /\ f.high = 100 /\ f.percent /\ f.area /\ \E m \in e.mask : m.clouds # {}

WithinAoiFits(e) ==
  /\ \A i, j \in 1..Len(e.filters) : i # j => e.filters[i].measure \cap e.filters[j].measure = {}
  /\ \A f \in Elements(e.filters) : f.measure # {} =>
       /\ f.kind = "range" /\ f.low = 0 /\ f.high = 100 /\ f.percent /\ f.area
       /\ \E m \in e.mask :
            /\ m.clouds # {}
            /\ f.measure \cap ClassMeasures \subseteq {s.measure : s \in m.shares}

(* A mutant: any overpass key will do.                                     *)
EvaluateOnAnyKey(e) == e.evaluate => e.filters # <<>> /\ e.holding = "federated" /\ e.viewer # {}

SearchCapabilitiesFit(e) ==
  e.evaluate => /\ e.filters # <<>> /\ e.holding = "federated"
                /\ \E v \in e.viewer : "datetime" \in Elements(v.results)

FiltersFit(e) ==
  /\ \A f \in Elements(e.filters) : FilterFits(f)
  /\ \A i, j \in 1..Len(e.filters) : e.filters[i].property = e.filters[j].property => i = j
  /\ GroupsTogether(e.filters)
  /\ e.filters # <<>> => e.holding = "federated"
  /\ WithinAoiFits(e)
  /\ SearchCapabilitiesFit(e)

EntryFits(e) ==
  /\ \A v \in e.viewer : ViewerFits(v)
  /\ TierFits(e) /\ LegalStatusFits(e) /\ AccessFits(e) /\ AttributionFits(e)
  /\ CoverageFits(e) /\ DataRegionFits(e) /\ HoldingFits(e) /\ BrowseFits(e)
  /\ e.separator # {} => e.format = "zarr"
  /\ MaskFits(e) /\ UnitsFit(e) /\ AuxiliaryFits(e) /\ FiltersFit(e) /\ PresetsFit(e) /\ TrueColorFits(e)

----------------------------------------------------------------------------
(* What the registry as a whole and the starting process check.            *)

(* ADAPTER_SPECS: a search comes with the fetch of single items and the    *)
(* filters of the source.                                                  *)
AdapterSpecs ==
  [kind \in {"earth-search-v1", "cop-dem-bucket", "esa-worldcover-bucket"} |->
     [search |-> kind = "earth-search-v1", query |-> kind = "earth-search-v1",
      coverage |-> IF kind = "earth-search-v1" THEN {"upstream-aggregation"} ELSE {}]]

AdapterServes(e) ==
  LET spec == AdapterSpecs[e.adapter] IN
  /\ e.holding = "federated" => spec.search
  /\ e.filters # <<>> => spec.query
  /\ e.provider # "local-sql" => e.provider \in spec.coverage

IndexPresetsServe(e) ==
  \A p \in Elements(e.presets) : p.isExpression /\ p.reads \subseteq DataBands(e) /\ p.colormapKnown

Ids(book) == {e.id : e \in Elements(book.entries)}

RegistryFits(book) ==
  /\ Cardinality(Ids(book)) = Len(book.entries)
  /\ \A r, s \in book.retired : r.id = s.id => r = s
  /\ \A r \in book.retired : r.id \notin Ids(book) /\ r.successor \in Ids(book)

ReadsPrototypes(book) == book.prototypePath /\ book.profile = "local" /\ ~book.ci

BookLoads(book) ==
  /\ book.prototypePath => ReadsPrototypes(book)
  /\ \A e \in Elements(book.entries) : EntryFits(e) /\ (e.legalStatus = "unclear" => ReadsPrototypes(book))
  /\ RegistryFits(book)
  /\ \A e \in Elements(book.entries) : AdapterServes(e) /\ IndexPresetsServe(e)

----------------------------------------------------------------------------
(* What the collection of an entry publishes, as the questions a client    *)
(* may take up.  Density over our own items is not built and not offered   *)
(* (coverage_route.py _area_path), a legacy format has no reader, and an   *)
(* expression needs single files: none of them is counted as offered.      *)

Question(about, id, name, pass) == [about |-> about, id |-> id, name |-> name, pass |-> pass]

FilterNames(e) ==
  {f.property : f \in Elements(e.filters)} \cup (UNION {f.measure : f \in Elements(e.filters)})
  \cup (IF e.aoiCoverage THEN {AoiCoverage} ELSE {})

Evaluations(e) == IF e.evaluate THEN BOOLEAN ELSE {FALSE}

SearchesOffered(e) == {Question("search", e.id, name, pass) : name \in FilterNames(e), pass \in Evaluations(e)}

CoverageOffered(e) ==
  IF e.provider = "local-sql" /\ ~e.single THEN {} ELSE {Question("coverage", e.id, "", FALSE)}

TilesOffered(e) == IF e.viewer # {} /\ e.format # "legacy" THEN {Question("tile", e.id, "", FALSE)} ELSE {}

StepsOffered(e) ==
  IF e.tier # "processing" \/ e.format = "legacy" THEN {}
  ELSE (IF e.masking THEN {Question("mask", e.id, "", FALSE)} ELSE {})
       \cup {Question("preset", e.id, p.name, FALSE) : p \in Elements(e.presets)}

Offered(e) == SearchesOffered(e) \cup CoverageOffered(e) \cup TilesOffered(e) \cup StepsOffered(e)

----------------------------------------------------------------------------
(* The routes.  "refused" is a status the caller gets, "broken" an         *)
(* assertion or an error nobody catches, "unread" an answer in which every *)
(* scene counts as unreadable, "apart" one that judges scene by scene.     *)

(* The filters a search may name: those of the entry, the range of one     *)
(* under the property of its measure, and the coverage of the area.        *)
OfferedFilters(e) ==
  {[name |-> f.property, kind |-> f.kind, measure |-> {}] : f \in Elements(e.filters)}
  \cup (UNION {{[name |-> m, kind |-> f.kind, measure |-> {m}] : m \in f.measure} : f \in Elements(e.filters)})
  \cup (IF e.aoiCoverage THEN {[name |-> AoiCoverage, kind |-> "range", measure |-> {}]} ELSE {})

(* A condition on a measure or on the coverage is kept as a range.         *)
KeptAsRange(f) == f.measure # {} \/ f.name = AoiCoverage => f.kind = "range"

(* Where the source answers: its adapter has to know how to search, and to *)
(* filter when the condition is one for the source.                        *)
SourceAnswers(e, f) ==
  /\ AdapterSpecs[e.adapter].search
  /\ f.measure = {} /\ f.name # AoiCoverage => AdapterSpecs[e.adapter].query

(* A pass is judged by its overpass key, a measure on the classification.  *)
PassJudged(e, f) ==
  /\ e.viewer # {}
  /\ e.mask = {} => f.measure = {}

MeasurerBuilt(e) == \E m \in e.mask : m.clouds # {}

Measured(e, f) ==
  /\ e.format = "cog"
  /\ \A m \in e.mask : f.measure \cap ClassMeasures \subseteq {s.measure : s \in m.shares}

(* A scene whose day is unknown is a block of its own, so without the      *)
(* instant in the key no pass is ever judged as one.                       *)
HasDay(e) == \E v \in e.viewer : "datetime" \in Elements(v.results)

SearchReply(e, q) ==
  LET named == {f \in OfferedFilters(e) : f.name = q.name}
      byPass == q.pass /\ e.evaluate
  IN IF named = {} THEN "refused"
     ELSE LET f == CHOOSE g \in named : TRUE IN
       IF ~KeptAsRange(f) THEN "broken"
       ELSE IF (f.measure # {} \/ byPass) /\ e.holding # "federated" THEN "refused"
       ELSE IF e.holding = "federated" /\ ~SourceAnswers(e, f) THEN "broken"
       ELSE IF byPass /\ ~PassJudged(e, f) THEN "refused"
       ELSE IF f.measure # {} /\ ~MeasurerBuilt(e) THEN "broken"
       ELSE IF f.measure # {} /\ ~Measured(e, f) THEN "unread"
       ELSE IF byPass /\ ~HasDay(e) THEN "apart"
       ELSE "answered"

CoverageReply(e) ==
  IF e.single /\ e.provider = "local-sql" THEN IF e.holding = "materialized" THEN "answered" ELSE "unread"
  ELSE IF e.provider \in AdapterSpecs[e.adapter].coverage THEN "answered"
  ELSE "refused"

TileReply(e) ==
  IF e.tier = "catalog" \/ e.viewer = {} \/ e.format \notin {"cog", "zarr"} THEN "refused" ELSE "answered"

Applicable(e, flag) == flag /\ e.tier = "processing"

(* The step names the layer and the classes the panel ticks first.         *)
MaskReply(e) ==
  IF ~Applicable(e, e.masking) THEN "refused"
  ELSE IF \E m \in e.mask : m.suggested \subseteq Elements(m.classes) /\ m.band = KeyName(m.asset)
       THEN "answered" ELSE "refused"

PresetReply(e, name) ==
  LET p == CHOOSE x \in Elements(e.presets) : x.name = name IN
  IF /\ Applicable(e, e.bandMath) /\ p.isExpression /\ p.colormapKnown
     /\ p.reads # {} /\ p.reads \subseteq DataBands(e) /\ \A k \in p.reads : KeyName(k) # name
  THEN "answered" ELSE "refused"

Reply(e, q) ==
  CASE q.about = "search" -> SearchReply(e, q)
    [] q.about = "coverage" -> CoverageReply(e)
    [] q.about = "tile" -> TileReply(e)
    [] q.about = "mask" -> MaskReply(e)
    [] q.about = "preset" -> PresetReply(e, q.name)

----------------------------------------------------------------------------
Nobody == Question("nothing", "", "", FALSE)

(* DatasetRegistry.get: an entry, a retired id (410 with its successor) or *)
(* an id nobody knows.                                                     *)
Lookup(book, id) ==
  IF id \in Ids(book) THEN "entry"
  ELSE IF \E r \in book.retired : r.id = id THEN "gone"
  ELSE "unknown"

(* An entry as it is read: what may be left out is there once at most, and *)
(* an enumeration names one of its members.                                *)
IsEntry(e) ==
  /\ e.format \in {"cog", "zarr", "legacy"} /\ e.adapter \in DOMAIN AdapterSpecs
  /\ \A v, w \in e.viewer : v = w
  /\ \A m, n \in e.mask : m = n

BookInit(books) ==
  /\ candidate \in books /\ process = "off" /\ asked = Nobody /\ reply = ""

StartProcess ==
  /\ process = "off"
  /\ process' = IF BookLoads(candidate) THEN "serving" ELSE "refused"
  /\ UNCHANGED <<candidate, asked, reply>>

TakeUp ==
  /\ process = "serving" /\ asked = Nobody
  /\ \E e \in Elements(candidate.entries) : \E q \in Offered(e) : asked' = q /\ reply' = Reply(e, q)
  /\ UNCHANGED <<candidate, process>>

AskForRetired ==
  /\ process = "serving" /\ asked = Nobody
  /\ \E r \in candidate.retired :
       /\ asked' = Question("retired", r.id, r.successor, FALSE)
       /\ reply' = IF Lookup(candidate, r.id) = "gone" /\ Lookup(candidate, r.successor) = "entry" THEN "answered" ELSE "broken"
  /\ UNCHANGED <<candidate, process>>

BookNext == StartProcess \/ TakeUp \/ AskForRetired
BookSpec(books) == BookInit(books) /\ [][BookNext]_bookVars

----------------------------------------------------------------------------
(* Everything the collections of a registry that was loaded offer is       *)
(* answered: no route meets an entry the checks let through and it cannot  *)
(* serve.  The checks stand in one module, the routes that rely on them in *)
(* five others.                                                            *)
OfferedIsServed == asked # Nobody => reply = "answered"
=============================================================================
