----------------------------- MODULE MC_Registry -----------------------------
(* TLC instance of Registry: three built-in modules, and two other lists.    *)
EXTENDS Registry

AllLists == {"modules", "a", "b"}
BuiltIn  == 11..12
TypeOf   == [m \in BuiltIn |-> IF m = 11 THEN "cellmon" ELSE "transport"]
=============================================================================
