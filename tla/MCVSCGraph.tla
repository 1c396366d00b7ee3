---------------------------- MODULE MCVSCGraph ----------------------------
(* Instances of VSCGraph for TLC, on the components the program has: the    *)
(* user selects any of six, in both modes.  They include one that only runs *)
(* offline, and two that depend on each other or on missing ones.           *)
EXTENDS VSCGraph

Table == INSTANCE VisSysComponents

MCNone == Table!NoneArgument
MCNames == Table!GenericNames
MCOrder == Table!MapOrder
MCClasses == Table!ComponentClasses
MCDependencies == [c \in Table!ComponentClasses |-> Table!DependenciesOf(c)]
MCOffline == Table!OfflineOnly

Optional(n, classes) == IF n \in DOMAIN classes THEN {MCNone, classes[n]} ELSE {MCNone}

MCChoices ==
  [n \in MCNames |->
     IF n = "ImageProcessor" THEN {n}
     ELSE Optional(n, [BackgroundSubtractor |-> "FSMBackgroundSubtractor",
                       BlobTracker |-> "MinCutBlobTracker",
                       BehaviorAnalyzer |-> "BehaviorAnalyzer",
                       FeatureEmbedder |-> "BoostMapEmbedder",
                       ObjectLearner |-> "ObjectLearner",
                       ShapeMatcher |-> "ShapeMatcher"])]
=============================================================================
