---- MODULE MCRealImport ----
(***************************************************************************)
(* The three datasets: GeoLife publishes a pair of collections, COCO reads *)
(* shards over HTTP ranges.  CMAB, which does neither, has two assets.     *)
(***************************************************************************)
EXTENDS RealImport

MCSources == <<"cmab", "geolife", "coco">>
MCAssets == {"level1", "level2", "points", "images"}
MCAssetOrder == [cmab |-> <<"level1", "level2">>, geolife |-> <<"points">>, coco |-> <<"images">>]
MCTargets == [cmab |-> <<"cmab">>, geolife |-> <<"3d", "4d">>, coco |-> <<"coco">>]
MCCollections == {"cmab", "3d", "4d", "coco"}
MCSharded == {"coco"}
MCEndpoints == <<"hub", "mirror">>
====
