------------------------ MODULE MCGeometryRoundTrip ------------------------
EXTENDS GeometryRoundTrip

\* Two numbers of five bits: 0 .. 11 are finite and positive, 20 .. 27 negative.
Solid(part, g) == [part |-> part, geometry |-> g]
Box    == <<6, 8>>
Twin   == <<7, 9>>    \* has the identifier of Box
Sphere == <<9, 22>>
Chip   == <<2, 8>>    \* too small
Plate  == <<8, 4>>
Slab   == <<4, 8>>    \* the numbers of Plate in the other order

Label(file, part, solids, meta, below) ==
  [file |-> file, part |-> part, solids |-> solids, meta |-> meta,
   components |-> below, children |-> below]

Object(file, type, solids, meta) == [file |-> file, type |-> type, solids |-> solids, meta |-> meta]

Entry(file, format, content, deflt) ==
  [file |-> file, format |-> format, content |-> content, default |-> deflt, corrupt |-> FALSE]

\* An assembly of a part that has a label and of one in a nested assembly, and a part.
Assembly ==
  Entry("assembly", "step",
    <<Label("assembly", 0, <<Solid(1, Box), Solid(2, Sphere)>>, [name |-> <<"assembly">>],
        <<[part |-> 1, meta |-> [name |-> <<"box">>, color |-> "red"]],
          [part |-> 9, meta |-> [name |-> <<"nested">>]]>>)>>, Null)
Part == Entry("part", "step",
  <<Label("part", 1, <<Solid(1, Plate)>>, [name |-> <<"plate">>, material |-> "steel"], <<>>)>>, Null)

Copper == [filename |-> <<"copper">>, material |-> "copper"]
Tin    == [stp_filename |-> <<"tin">>, name |-> <<"tinned">>, material |-> "tin"]

FreeCAD == Entry("freecad", "freecad",
  <<Object("freecad", "COMPOUND", <<Solid(1, Twin), Solid(2, Chip)>>,
      [name |-> <<"pair">>, groups |-> <<"lead">>, visible |-> TRUE]),
    Object("freecad", "SOLID", <<Solid(3, Box)>>, [name |-> <<"hidden">>, visible |-> FALSE]),
    Object("freecad", "COMPSOLID", <<Solid(4, Box)>>, [name |-> <<"cells">>])>>, Null)
Other == Entry("other", "freecad",
  <<Object("other", "SOLID", <<Solid(1, Sphere)>>,
      [name |-> <<"ball">>, color |-> "blue", groups |-> <<>>])>>, Null)

Brep == Entry("brep", "brep", <<Solid(1, Box), Solid(2, Twin), Solid(3, Sphere)>>, Null)
Missing == Entry("missing", "missing", <<>>, Copper)

Files(entries) == [entries |-> entries, metadata |-> NoFile]
Rows == [exists |-> TRUE, parses |-> TRUE,
         rows |-> <<[uniqueId |-> uniqueId(Box), name |-> <<"boxes">>, material |-> "zinc"],
                    [uniqueId |-> uniqueId(Sphere), name |-> <<"gone">>, suppressed |-> TRUE]>>]

MCInputs ==
  { Files(<<Assembly>>),
    Files(<<[Assembly EXCEPT !.default = Copper], Missing, [Part EXCEPT !.default = Tin]>>),
    Files(<<FreeCAD>>),
    Files(<<Other, FreeCAD>>),
    Files(<<[Part EXCEPT !.default = Copper],
            [Brep EXCEPT !.content = <<Solid(1, Slab), Solid(2, Sphere)>>, !.default = Tin]>>),
    [entries |-> <<Brep>>, metadata |-> Rows],
    Files(<<[Brep EXCEPT !.corrupt = TRUE]>>),
    Files(<<Part, [Missing EXCEPT !.format = "unnamed"]>>) }

MCCollisions == { {}, {<<1, 1>>, <<1, 2>>} }
MCTempDirs == { [exists |-> FALSE, objects |-> <<>>], [exists |-> TRUE, objects |-> Other.content] }
MCProcessors == <<"GeometryShapeChecker", "GeometryPropertyBuilder", "CollisionDetector",
                  "GeometryPropertyBuilder">>

MCUnitShift == [MM |-> 0, CM |-> 2, M |-> 6]

Config(check, format, unit, given) ==
  [checkingBooleanOperation |-> check, suppressBOPCheckFailed |-> check, savingSubshape |-> check,
   format |-> format, outputUnit |-> unit, mergeResultShapes |-> TRUE, given |-> given]
MCConfigs == { Config(TRUE, "brep", "MM", "newest"), Config(FALSE, "brep", "M", "named"),
               Config(FALSE, "brep", "MM", "named"), Config(FALSE, "brep", "CM", "none"),
               Config(FALSE, "step", "CM", "none") }
=============================================================================
