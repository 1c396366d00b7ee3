------------------------- MODULE VisSysComponents -------------------------
(***************************************************************************)
(* The components of the vision system: the generic names and the classes  *)
(* a user may choose for each (VideoParser/VisSysComponentCreator.cpp),    *)
(* and the dependencies each class declares.                               *)
(***************************************************************************)
EXTENDS Sequences

NoneArgument == "None"

\* The generic names in the order of a std::map from strings.
MapOrder ==
  <<"BackgroundSubtractor", "BehaviorAnalyzer", "BlobFinder", "BlobTracker", "FeatureDetector",
    "FeatureEmbedder", "ImageProcessor", "ImageSegmenter", "MotionEstimator", "ObjectLearner",
    "ObjectRecognizer", "PeopleDetector", "RegionAnalyzer", "ResultsAnalyzer", "ShapeMatcher",
    "ShapeParser">>

GenericNames == {MapOrder[i] : i \in DOMAIN MapOrder}

FeatureSubtractors ==
  {"BackgroundFeatureSubtractor", "FeatureGridSubtractor", "HybridFeatureGridSubtractor"}
PixelSubtractors ==
  {"AdaptiveBackgroundSubtractor", "FSMBackgroundSubtractor",
   "CvFGDBackgroundSubtractor", "CvGaussBackgroundSubtractor"}

\* The classes that InitVisSysComponentLabels lists for a generic name; a name
\* that is not abstract is a class itself.
Labels(name) ==
  CASE name = "ImageProcessor" -> {"ImageProcessor"}
    [] name = "ImageSegmenter" -> {NoneArgument, "FHImageSegmenter", "CvPyrImageSegmenter"}
    [] name = "BackgroundSubtractor" -> {NoneArgument} \cup FeatureSubtractors \cup PixelSubtractors
    [] name = "BlobTracker" -> {NoneArgument, "KalmanBlobTracker", "MinCutBlobTracker"}
    [] name = "MotionEstimator" -> {NoneArgument, "AffineMotionEstimator"}
    [] name = "PeopleDetector" -> {NoneArgument, "CvPeopleDetector"}
    [] name = "FeatureEmbedder" -> {NoneArgument, "BoostMapEmbedder"}
    [] OTHER -> {NoneArgument, name}

ComponentClasses == UNION {Labels(name) : name \in GenericNames} \ {NoneArgument}

\* Mistake: the learner takes shapes that are matched already.
ObjectLearnerAfterMatching == <<"ImageProcessor", "ShapeMatcher">>

FromImageProcessor == <<"ImageProcessor">>
BlobTrackerDependencies == <<"ImageProcessor", "BlobFinder">>
MinCutBlobTrackerDependencies == <<"ImageProcessor", "BackgroundSubtractor">>
ResultsAnalyzerDependencies == <<"ObjectLearner", "ObjectRecognizer", "ShapeParser">>
ObjectRecognizerDependencies == <<"ObjectLearner", "ShapeParser", "ShapeMatcher">>
ShapeParserDependencies == <<"ImageProcessor", "RegionAnalyzer">>
BackgroundFeatureSubtractorDependencies == <<"ImageProcessor", "FeatureDetector">>
ShapeMatcherDependencies == <<"ObjectLearner", "ShapeParser">>
FeatureEmbedderDependencies == <<"ObjectLearner", "ShapeMatcher">>
ObjectLearnerDependencies == <<"ImageProcessor", "ShapeParser">>
BlobFinderDependencies == <<"ImageSegmenter", "BackgroundSubtractor", "ImageProcessor">>
RegionAnalyzerDependencies ==
  <<"ImageSegmenter", "BackgroundSubtractor", "ImageProcessor", "BlobTracker">>

\* What Dependencies() returns for a class.
DependenciesOf(class) ==
  CASE class = "ImageProcessor" -> <<>>
    [] class = "KalmanBlobTracker" -> BlobTrackerDependencies
    [] class = "MinCutBlobTracker" -> MinCutBlobTrackerDependencies
    [] class = "ResultsAnalyzer" -> ResultsAnalyzerDependencies
    [] class = "ObjectRecognizer" -> ObjectRecognizerDependencies
    [] class = "ShapeParser" -> ShapeParserDependencies
    [] class \in FeatureSubtractors -> BackgroundFeatureSubtractorDependencies
    [] class = "ShapeMatcher" -> ShapeMatcherDependencies
    [] class = "BoostMapEmbedder" -> FeatureEmbedderDependencies
    [] class = "ObjectLearner" -> ObjectLearnerDependencies
    [] class = "BlobFinder" -> BlobFinderDependencies
    [] class = "RegionAnalyzer" -> RegionAnalyzerDependencies
    [] OTHER -> FromImageProcessor

\* The classes that run in offline mode only; every other one runs online only.
OfflineOnly == {"BoostMapEmbedder", "BehaviorAnalyzer"}
=============================================================================
