----------------------------- MODULE CropRules -----------------------------
(***************************************************************************)
(* The rules of access/crop_rules.py that the crop, the export and the     *)
(* raster job share: which scenes an area touches, in which coordinate     *)
(* system a mosaic lies and in which order its scenes are read, the first  *)
(* valid value winning where they overlap.  A scene is a number that       *)
(* stands for its id, a coordinate system the number of its EPSG code, 0   *)
(* where the item names none.                                              *)
(***************************************************************************)
EXTENDS Naturals, Sequences, FiniteSets, SequencesExt

NoCrs == 0

\* The system most scenes are in; a tie goes to the smaller EPSG number.
TargetCrs(crsOf) ==
  LET named == {crsOf[i] : i \in DOMAIN crsOf} \ {NoCrs}
      count(c) == Cardinality({i \in DOMAIN crsOf : crsOf[i] = c})
  IN IF named = {} THEN NoCrs
     ELSE CHOOSE c \in named : \A d \in named : \/ count(c) > count(d)
                                                \/ count(c) = count(d) /\ c <= d

\* The scenes in the target system first, each part by id.
MosaicOrder(crsOf) ==
  LET target == TargetCrs(crsOf)
      before(i, j) == \/ crsOf[i] = target /\ crsOf[j] # target
                      \/ (crsOf[i] = target <=> crsOf[j] = target) /\ i < j
  IN SetToSortSeq(DOMAIN crsOf, before)

\* Whether the area meets the union of the footprints; a scene whose footprint
\* cannot be read is left out, and with none left the area itself is the region.
RegionIsThere(scenes, readable, touching) ==
  LET known == ToSet(scenes) \cap readable
  IN known # {} => known \cap touching # {}
=============================================================================
