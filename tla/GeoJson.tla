------------------------------- MODULE GeoJson -------------------------------
(***************************************************************************)
(* GeoJson objects: what the class methods of GeoJson make of their           *)
(* arguments, and what the readers say of it.  An object is a type and the    *)
(* coordinates; its text is made once, by new, and nothing changes it.        *)
(*                                                                         *)
(* An argument that stands for a point is an array of two numbers, another   *)
(* object, or something else.                                                *)
(***************************************************************************)
EXTENDS Naturals, SequencesExt

Shape(type, coordinates) == [type |-> type, coordinates |-> coordinates]

AnArray(x, y) == [is |-> "array", at |-> <<x, y>>]
AnObject(g)   == [is |-> "object", at |-> g.coordinates]
Other         == [is |-> "other", at |-> <<>>]

\* geo_json_get_coordinates and the first two entries
FirstTwo(p) == <<p.at[1], p.at[2]>>

Point(x, y) == Shape("Point", <<x, y>>)

\* the branches of polygon and circle: an argument of another kind is passed over
Pushed(p) == CASE p.is = "array" -> <<p.at>>
               [] p.is = "object" -> <<FirstTwo(p)>>
               [] OTHER -> <<>>

Polygon(ps)      == Shape("Polygon", <<FlattenSeq([i \in DOMAIN ps |-> Pushed(ps[i])])>>)
PolygonArray(ps) == Shape("Polygon", <<[i \in DOMAIN ps |-> ps[i].at]>>)
PolygonObj(ps)   == Shape("Polygon", <<[i \in DOMAIN ps |-> FirstTwo(ps[i])]>>)

\* mutant of Circle: objects are passed over
CircleArraysOnly(p, radius) ==
  Shape("AeroCircle", Append(IF p.is = "array" THEN <<p.at>> ELSE <<>>, radius))

Circle(p, radius)      == Shape("AeroCircle", Append(Pushed(p), radius))
CircleArray(p, radius) == Shape("AeroCircle", <<p.at, radius>>)

\* the array of the centre is made and never pushed
CircleObj(p, radius)      == Shape("AeroCircle", <<radius>>)
CirclePoint(x, y, radius) == Shape("AeroCircle", <<radius>>)

-----------------------------------------------------------------------------
(* Readers *)

Lng(g)    == IF g.type = "Point" THEN g.coordinates[1] ELSE g.coordinates[1][1]
Lat(g)    == IF g.type = "Point" THEN g.coordinates[2] ELSE g.coordinates[1][2]
Radius(g) == g.coordinates[2]

-----------------------------------------------------------------------------
(* A call of a class method, and what the documentation says it makes *)

Call(by, points, radius) == [by |-> by, points |-> points, radius |-> radius]

Polygons == {"polygon", "polygon_array", "polygon_obj"}
Circles  == {"circle", "circle_array", "circle_obj", "circle_point"}

Made(c) ==
  LET p == c.points[1]
  IN  CASE c.by = "point"         -> Point(p.at[1], p.at[2])
        [] c.by = "polygon"       -> Polygon(c.points)
        [] c.by = "polygon_array" -> PolygonArray(c.points)
        [] c.by = "polygon_obj"   -> PolygonObj(c.points)
        [] c.by = "circle"        -> Circle(p, c.radius)
        [] c.by = "circle_array"  -> CircleArray(p, c.radius)
        [] c.by = "circle_obj"    -> CircleObj(p, c.radius)
        [] c.by = "circle_point"  -> CirclePoint(p.at[1], p.at[2], c.radius)

Meant(c) ==
  CASE c.by = "point" -> Shape("Point", c.points[1].at)
    [] c.by \in Polygons ->
         Shape("Polygon", <<[i \in DOMAIN c.points |-> c.points[i].at]>>)
    [] OTHER -> Shape("AeroCircle", <<c.points[1].at, c.radius>>)

\* the readers of a point or circle give what the class method was given
Readable(c) ==
  LET g == Made(c)
      p == c.points[1]
  IN  g.type # "Polygon" =>
        /\ Lng(g) = p.at[1] /\ Lat(g) = p.at[2]
        /\ g.type = "AeroCircle" => Radius(g) = c.radius
=============================================================================
