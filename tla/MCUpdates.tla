------------------------------ MODULE MCUpdates ------------------------------
(* One point of three types. The transactions set two types at once, let   *)
(* the analog drift in two steps that are within the deadband each, set it *)
(* to no number, name a point that does not exist after one that does, and *)
(* change nothing.                                                         *)
EXTENDS Updates

MCDatabaseSize == [t \in Type |-> IF t \in {"Binary", "Analog", "ControlStatus"} THEN 1 ELSE 0]
MCEventPoints == {<<"Binary", 0>>, <<"Analog", 0>>}
MCChanges(index, value, quality) == <<[index |-> index, value |-> value, quality |-> quality]>>
MCTransactions ==
  {[NoChanges EXCEPT !["ControlStatus"] = MCChanges(0, 1, "online"),
                     !["Binary"] = MCChanges(0, 1, "online"),
                     !["Analog"] = MCChanges(0, 1, "restart")],
   [NoChanges EXCEPT !["Analog"] = MCChanges(0, 2, "restart")],
   [NoChanges EXCEPT !["Analog"] = MCChanges(0, NaN, "online")],
   [NoChanges EXCEPT !["Binary"] = MCChanges(0, 0, "online"),
                     !["Analog"] = MCChanges(1, 0, "online")],
   NoChanges}
=============================================================================
