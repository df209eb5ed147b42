------------------------------ MODULE MCOrders ------------------------------
\* Orders from the intake to the end of their run, on one small dataset.
EXTENDS LocalRun, AoiMeasures, BandNumbers

VARIABLE part  \* whether an order is run, areas are judged or a band is measured

Asset(key, names, type, gsd, described, numbered) ==
  [key |-> key, names |-> names, type |-> type, gsd |-> gsd, described |-> described, numbered |-> numbered]
Red == Asset("red", <<"red">>, "float32", 1, TRUE, <<>>)
Nir == Asset("nir", <<"nir">>, "float32", 1, TRUE, <<>>)
Scl == Asset("scl", <<"scl">>, "uint16", 2, TRUE, <<>>)
\* A file of two bands the item does not count, and one band in two assets.
Dem == Asset("dem", <<"dem_1", "dem_2">>, "float32", 1, FALSE, <<"dem_1", "dem_2">>)
Flat == Asset("dem", <<"dem">>, "float32", 1, FALSE, <<"dem_1", "dem_2">>)
Deep == Asset("dem", <<"dem">>, "int32", 1, TRUE, <<>>)
Pair == Asset("pair", <<"red", "nir">>, "uint16", 1, TRUE, <<>>)
Stack == <<Red, Nir, Scl>>
MCNames == {"red", "nir", "scl", "ndvi", "sum", "dem", "dem_1", "dem_2", "band_math", "band_math_1", "band_math_2"}
MCBlocks == [g \in 0..4 |-> IF g = 1 THEN 2 ELSE 1]

Ndvi == BandMath("ndvi", {"red", "nir"})
Zscore == Normalize(<<"red", "nir">>, "zscore")
Pool == {Ndvi, BandMath("sum", {"ndvi", "scl"}), Mask("scl"), MaskValues("ndvi"), MaskValues("red"),
         Normalize(<<"ndvi">>, "percentile"), Zscore, Normalize(<<"red", "scl">>, "linear"), Reproject}
Outputs == {<<"red">>, <<"ndvi">>, <<"nir", "red">>, <<"scl", "ndvi">>, <<"ndvi", "red", "scl">>, <<"sum", "nir">>}

Raster(groups, steps, output) ==
  [kind |-> "raster", version |-> 2, groups |-> groups, steps |-> steps, output |-> output, assets |-> <<>>, layout |-> "none", area |-> TRUE]
Crop(groups, assets, layout, area) ==
  [kind |-> "export", version |-> 2, groups |-> groups, steps |-> <<>>, output |-> <<>>, assets |-> assets, layout |-> layout, area |-> area]

All == 1..4
World == [crs |-> [i \in All |-> 1], grid |-> [i \in All |-> 1], overpass |-> [i \in All |-> 1], boxed |-> All, readable |-> All, touching |-> All,
          summed |-> All, foreign |-> {}, trouble |-> {}, data |-> Stack,
          licensed |-> TRUE, version1 |-> TRUE, zarr |-> FALSE, viewer |-> TRUE, reprojection |-> TRUE, big |-> FALSE]
Paper(from, document) == [from |-> from, document |-> document, provenance |-> "cloud", dataset |-> "known", declared |-> TRUE, zarr |-> FALSE]
Case(o, w) == [paper |-> Paper("order", o), world |-> w]

\* Every chain of up to three steps over one scene.
Chains == UNION {[1..n -> Pool] : n \in 0..3}
OneScene == {Case(Raster(<<<<1>>>>, chain, output), World) : chain \in Chains, output \in Outputs}

\* Several scenes: what the area touches, which system and overpass they are in.
Few == {<<>>, <<Mask("scl")>>, <<Zscore>>}
Scenes == {Case(Raster(<<<<2, 1, 3>>>>, steps, output),
                [World EXCEPT !.crs = [i \in All |-> crs[i]], !.grid = [i \in All |-> IF crs[i] = NoCrs THEN 2 ELSE crs[i]], !.boxed = boxed, !.readable = readable, !.touching = touching]) :
             steps \in Few, output \in {<<"red">>, <<"nir", "red">>}, crs \in {<<1, 1, 2, 1>>, <<2, 1, 1, 1>>, <<2, 1, 0, 1>>},
             boxed \in {{1, 2, 3}, {2, 3}, {3}}, readable \in {{}, {1, 3}, {1, 2, 3}}, touching \in {{1}, {2}, {2, 3}}}

\* Answers that fail or are missing, in every order.
Troubled == {Case(Raster(<<<<2, 1>>>>, <<>>, <<"red">>), [World EXCEPT !.summed = summed, !.trouble = {"no_item", "no_answer"}]) :
               summed \in {{}, {1}}}

\* Datasets and orders the intake refuses, or that only the file can judge.
Odd == {Case(Raster(<<<<1, 2>>>>, <<>>, <<"red">>), w) :
          w \in {[World EXCEPT !.overpass[2] = 2], [World EXCEPT !.viewer = FALSE], [World EXCEPT !.reprojection = FALSE],
                 [World EXCEPT !.zarr = TRUE, !.summed = {}], [World EXCEPT !.zarr = TRUE, !.crs[2] = 2],
                 [World EXCEPT !.big = TRUE], [World EXCEPT !.foreign = {2}], [World EXCEPT !.licensed = FALSE], [World EXCEPT !.data = <<Red, Pair>>]}}
       \cup {Case(Raster(groups, steps, <<"red">>), World) :
               groups \in {<<<<1>>, <<2>>>>, <<<<1, 2, 3, 4>>>>}, steps \in {<<>>, <<Reproject>>, <<Ndvi, Ndvi>>, <<Ndvi, Ndvi, Ndvi, Ndvi>>}}
       \cup {Case(Raster(<<<<1>>>>, <<>>, output), [World EXCEPT !.data = <<Red, dem>>]) :
               dem \in {Dem, Flat}, output \in {<<"dem">>, <<"dem_2">>, <<"red", "dem">>}}
       \cup {Case(Raster(<<<<1>>>>, steps, output), [World EXCEPT !.data = <<Red, Nir, Deep>>]) :
               steps \in {<<MaskValues("red")>>, <<Zscore, MaskValues("red")>>}, output \in {<<"red">>, <<"red", "dem">>}}

\* Exports: groups the area meets or misses, the forms of the files.
Exports == {Case(Crop(groups, assets, layout, area), [World EXCEPT !.readable = readable, !.touching = touching, !.boxed = boxed]) :
              groups \in {<<<<2, 1>>>>, <<<<1, 2>>, <<3>>>>}, assets \in {<<"red">>, <<"scl", "red", "nir">>},
              layout \in {"none", "per_band", "per_resolution", "multi_band"}, area \in BOOLEAN,
              readable \in {{}, {1, 2, 3}}, touching \in {{1, 3}, {2}}, boxed \in {{1, 2, 3}, {2, 3}}}
OddExports == {Case(Crop(<<<<1>>>>, <<"dem", "pair">>, layout, TRUE), [World EXCEPT !.data = <<Dem, Pair>>, !.zarr = zarr]) :
                 layout \in {"per_band", "multi_band"}, zarr \in BOOLEAN}
              \cup {Case(Crop(<<<<1>>>>, <<"red">>, "none", TRUE), [World EXCEPT !.big = TRUE])}

\* Documents of version 1: orders that name their assets, recipes the queue still
\* holds, files someone kept; and files that are no recipe this runner runs.
OldPool == {OldBandMath({"red", "nir"}), OldBandMath({"nir"}), OldBandMath({"band_math"}), Mask("scl"), OldNormalize, Reproject, WarpTogether}
OldChains == UNION {[1..n -> OldPool] : n \in 0..3}
OldOrder(keys, steps) == [Raster(<<<<1>>>>, steps, <<>>) EXCEPT !.version = 1, !.assets = keys]
OldOrders == {Case(OldOrder(keys, steps), World) : keys \in {<<"nir", "red">>, <<"scl", "nir", "red">>, <<"scl">>}, steps \in OldChains}
             \cup {Case(OldOrder(<<"red">>, <<>>), [World EXCEPT !.version1 = FALSE])}
             \cup {Case(OldOrder(<<"pair">>, steps), [World EXCEPT !.data = <<Pair>>, !.zarr = zarr]) :
                     steps \in {<<>>, <<OldBandMath({"nir"})>>, <<OldNormalize>>}, zarr \in BOOLEAN}
             \cup {Case([Crop(<<<<1>>>>, <<"red">>, "per_band", TRUE) EXCEPT !.version = 1], World)}
RecipeV(version, assets, steps, output) ==
  [kind |-> "raster", version |-> version, items |-> <<1>>, assets |-> assets, scenes |-> <<1>>, grids |-> <<1>>,
   steps |-> steps, output |-> output, cacheable |-> TRUE]
Waiting == {[paper |-> Paper("queued", RecipeV(1, assets, steps, <<>>)), world |-> World] :
              assets \in {<<Nir, Red>>, <<Scl, Pair>>, <<Dem>>}, steps \in OldChains}
GoodFiles == {[paper |-> Paper("file", RecipeV(1, <<Scl, Red>>, steps, <<>>)), world |-> World] :
                steps \in {<<Mask("scl")>>, <<WarpTogether, OldBandMath({"red"})>>, <<OldNormalize, OldBandMath({"scl"})>>, <<OldBandMath({"nir"})>>}}
             \cup {[paper |-> Paper("file", RecipeV(2, Stack, steps, <<"red">>)), world |-> World] :
                     steps \in {<<>>, <<Ndvi>>, <<Mask("scl"), Zscore>>, <<Mask("nothere")>>}}
BadFiles == {[paper |-> [Paper("file", RecipeV(2, <<Red>>, <<>>, output)) EXCEPT !.provenance = provenance, !.dataset = dataset, !.declared = declared],
              world |-> World] :
               output \in {<<"red">>, <<>>}, provenance \in {"cloud", "local", "none"}, dataset \in {"known", "retired", "unknown"}, declared \in BOOLEAN}
Papers == OldOrders \cup Waiting \cup GoodFiles \cup BadFiles

----------------------------------------------------------------------------
\* Overpasses of two or three scenes: an overlap, two systems, a host each, an
\* outline or an asset that is missing, a raster that ends before its outline.
Overlap == [crs |-> <<1, 1>>, host |-> <<1, 1>>, extent |-> <<{1, 2}, {2, 3}>>, outline |-> <<{1, 2}, {2, 3}>>,
            pixels |-> <<(1 :> 4 @@ 2 :> 9), (2 :> 4 @@ 3 :> 9)>>, number |-> <<20, 60>>, bare |-> {}, clouds |-> {9}]
Systems == [crs |-> <<1, 2, 2>>, host |-> <<1, 1, 1>>, extent |-> <<{1, 2}, {1, 2}, {3}>>, outline |-> <<{1, 2}, {1, 2}, {3}>>,
            pixels |-> <<(1 :> 9 @@ 2 :> 0), (1 :> 4 @@ 2 :> 9), (3 :> 4)>>, number |-> <<20, 0 - 1, 60>>, bare |-> {}, clouds |-> {9}]
MCGrounds == {Overlap, Systems, [Overlap EXCEPT !.host[2] = 2, !.outline[2] = {}, !.number[2] = 0 - 1],
              [Overlap EXCEPT !.bare = {1}],
              [Overlap EXCEPT !.outline[2] = {1, 2, 3}, !.extent = <<{3}, {3}>>, !.pixels = <<(3 :> 4), (3 :> 9)>>]}

AskersAlike == Permutations(Askers)
Search == [aoi |-> {}, shape |-> {1, 2}, box |-> {}, crooked |-> FALSE, closed |-> TRUE, byPass |-> TRUE,
           cover |-> 1000, share |-> 50, mean |-> 1000, areaBased |-> TRUE]
MCRequests ==
  {Search, [Search EXCEPT !.byPass = FALSE], [Search EXCEPT !.shape = {2}, !.share = 80],
   [Search EXCEPT !.shape = {}, !.box = {1, 2, 3}, !.aoi = {1, 2}],
   [Search EXCEPT !.shape = {}, !.box = {1, 2}, !.aoi = {1, 3}], [Search EXCEPT !.closed = FALSE], [Search EXCEPT !.crooked = TRUE],
   [Search EXCEPT !.shape = {}, !.share = 1000, !.mean = 40], [Search EXCEPT !.shape = {}, !.share = 1000, !.mean = 30, !.areaBased = FALSE]}
  \cup {[Search EXCEPT !.shape = {1, 2, 3}, !.cover = cover, !.share = 1000, !.byPass = byPass] : cover \in {60, 100}, byPass \in BOOLEAN}
  \cup {[Search EXCEPT !.shape = {1, 2, 3}, !.share = 1000, !.mean = mean] : mean \in {33, 40, 46}}

----------------------------------------------------------------------------
\* Bands of three values (one may be no number), every way they fall into blocks.
Levels == [small |-> {0, 1, 3}, narrow |-> {4, 6, 8, 10, 14, NotFinite}, wide |-> {2, 4, 6, 8, 9, 11, 14, 16, NotFinite},
           whole |-> {4, 8, 12}, large |-> {6, 7, 8, 9, 13}]
Methods == [name : {"percentile"}, low : {0, 5}, high : {98}, clip : {TRUE}] \cup [name : {"percentile"}, low : {0, 5}, high : {100}, clip : {FALSE}]
           \cup [name : {"robust", "zscore"}, low : {0}, high : {0}, clip : {FALSE}]
Rising(kind) == {v \in [1..3 -> Levels[kind]] : v[1] <= v[2] /\ v[2] <= v[3]}
Split(v, place) == [b \in 1..2 |-> FlattenSeq([k \in 1..3 |-> IF place[k] = b THEN <<v[k]>> ELSE <<>>])]
Measured(kind, v, place, method, beside) ==
  [type |-> IF kind = "large" THEN "whole" ELSE kind, apart |-> IF kind = "large" THEN 1 ELSE 4,
   blocks |-> Split(v, place), outside |-> <<<<Min(Levels[kind])>>, <<>>>>, method |-> method, beside |-> beside]
MCBands ==
  UNION {{Measured(kind, v, place, method, "none") : v \in Rising(kind), place \in {<<1, 1, 2>>, <<1, 2, 1>>}, method \in Methods} :
           kind \in DOMAIN Levels}
  \cup {Measured("wide", v, <<1, 2, 2>>, method, beside) : v \in {<<3, 8, 9>>, <<NotFinite, NotFinite, NotFinite>>},
           method \in Methods \cup {[name |-> "percentile", low |-> 2, high |-> 98, clip |-> TRUE]}, beside \in {"before", "after"}}
  \cup {[Measured("wide", <<4, 4, 4>>, <<1, 1, 1>>, method, "none") EXCEPT !.blocks = <<<<3, 9>>, <<8, 8, 6>>, <<9, 14>>>>, !.outside = <<<<>>, <<17>>, <<>>>>] : method \in Methods}

----------------------------------------------------------------------------
OneOrder == \E case \in OneScene \cup Scenes \cup Troubled \cup Odd \cup Exports \cup OddExports \cup Papers :
              came = case.paper /\ world = case.world
NoOrderCame == came = Paper("order", Raster(<<<<1>>>>, <<>>, <<"red">>)) /\ world = World
BandRests == /\ band = [type |-> "small", apart |-> 4, blocks |-> <<>>, outside |-> <<>>, method |-> [name |-> "zscore", low |-> 0, high |-> 0, clip |-> FALSE], beside |-> "none"]
             /\ counts = Nothing /\ whole = Nothing /\ unread = {} /\ target = <<>> /\ at = "counting" /\ given = <<>>
MCInit == \/ part = "orders" /\ OneOrder /\ LocalIdle /\ AoiIdle /\ ground = Overlap /\ BandRests
          \/ part = "areas" /\ NoOrderCame /\ LocalIdle /\ AoiIdle /\ BandRests
          \/ part = "numbers" /\ NoOrderCame /\ LocalIdle /\ AoiIdle /\ ground = Overlap /\ BandIdle

\* An order ends refused, failed or done, the runner with its exit code.
Over == phase \in {"refused", "stopped"} \/ (phase \in {"failed", "done"} /\ ~IsFile)
MCNext == /\ UNCHANGED part
          /\ \/ part = "orders" /\ (LocalNext \/ (Over /\ UNCHANGED allVars)) /\ UNCHANGED <<aoiVars, bandVars>>
             \/ part = "areas" /\ (AoiStep \/ (AoiOver /\ UNCHANGED aoiVars)) /\ UNCHANGED <<allVars, bandVars>>
             \/ part = "numbers" /\ (BandStep \/ (BandOver /\ UNCHANGED bandVars)) /\ UNCHANGED <<allVars, aoiVars>>
MCSpec == MCInit /\ [][MCNext]_<<part, allVars, aoiVars, bandVars>>
=============================================================================
