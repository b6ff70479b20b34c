----------------------------- MODULE GeomPipeline -----------------------------
(***************************************************************************)
(* The configuration that geomPipeline.py writes for an action: the list   *)
(* of processors, each with the parameters that matter to what is written  *)
(* (class, whether to check for boolean operations, the metadata file).    *)
(***************************************************************************)
EXTENDS Sequences

Metadata == "metadata"   \* outputMetadataFile, beside the geometry file
Geometry == "geometry"   \* outputFile of the writer

\* Both names went through os.path.abspath.
AbsoluteFiles == {Metadata, Geometry}

\* A nested dictionary after copy.copy of the outer one and an assignment
\* through the copy: shallow, so original and copy hold the assigned value.
Original(value, assigned) == assigned

Plain(className) == [className |-> className, checking |-> FALSE, output |-> "none"]

post_GeometryShapeChecker == [Plain("GeometryShapeChecker") EXCEPT !.checking = FALSE]
GeometryShapeChecker      == [Plain("GeometryShapeChecker") EXCEPT !.checking = Original(TRUE, FALSE)]

post_GeometryPropertyBuilder == [Plain("GeometryPropertyBuilder") EXCEPT !.output = Metadata]
GeometryPropertyBuilder ==
  [Plain("GeometryPropertyBuilder") EXCEPT !.output = Original("shape_properties", Metadata)]

basic_processors == <<GeometryShapeChecker, GeometryPropertyBuilder, Plain("BoundBoxBuilder")>>

\* Mutant: the second property builder is left out.
post_processorsCheck == <<post_GeometryShapeChecker>>

post_processors == <<post_GeometryShapeChecker, post_GeometryPropertyBuilder>>

\* What an action appends to basic_processors.
Appended ==
  [check      |-> <<>>,
   merge      |-> <<>>,
   detect     |-> <<Plain("CollisionDetector")>>,
   imprint    |-> <<Plain("GeometryImprinter")>> \o post_processors,
   fix        |-> <<Plain("GeometryFixer"), GeometryShapeChecker, post_GeometryPropertyBuilder>>,
   search     |-> <<Plain("GeometrySearchBuilder")>>,
   decompose  |-> <<Plain("GeometryDecomposer")>>,
   tessellate |-> <<Plain("GeometryFaceter")>>]

Actions == DOMAIN Appended

processorsOf(action) == basic_processors \o Appended[action]

HasWriter(action) == action \in {"fix", "imprint", "merge"}

\* Geom.cpp registers these classes; an instance of another cannot be made.
Registered == {"GeometryShapeChecker", "GeometryPropertyBuilder", "BoundBoxBuilder",
               "CollisionDetector", "GeometryImprinter", "GeometrySearchBuilder"}
===============================================================================
