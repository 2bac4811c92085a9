----------------------------- MODULE MCControls -----------------------------
(* Three points, one of each mode. The lists ask for one object, the same  *)
(* with another value and one that takes no SELECT, two objects under one  *)
(* header, two under a header each, and an object of a point that is not   *)
(* bound with a header of other objects.                                   *)
EXTENDS Controls

MCModes == <<"SBO_ONLY", "SBO_OR_DO", "DO_ONLY">>
MCObject(point, value, place) == [point |-> point, value |-> value, place |-> place]
MCLists ==
  {<<MCObject(1, "on", 1)>>,
   <<MCObject(1, "off", 1), MCObject(3, "on", 1)>>,
   <<MCObject(1, "on", 1), MCObject(2, "on", 2)>>,
   <<MCObject(2, "on", 1), MCObject(1, "on", 1)>>,
   <<MCObject(4, "on", 1), MCObject(0, "on", 0)>>}
=============================================================================
