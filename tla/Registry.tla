------------------------------- MODULE Registry -------------------------------
(***************************************************************************)
(* module.c: mybmm_load_module() finds a module in the list conf->modules  *)
(* or initialises a built-in one and adds it, as main() does: the          *)
(* transport of -t, then "jbd".  The modules are static: list_add() gets   *)
(* them with size 0.  Whoever uses other lists after that shares the heap.  *)
(***************************************************************************)
EXTENDS List

CONSTANTS Modules,     \* conf->modules
          Type,        \* of each built-in module: transport or cellmon
          jbd,         \* the module main() loads second
          Unknown      \* names of no module

ASSUME ModulesAssumption == /\ Modules \in Lists
                            /\ Type \in [Static -> {"transport", "cellmon"}]
                            /\ jbd \in Static /\ Type[jbd] = "cellmon"

VARIABLES pc,     \* create; call, walk, init, add: in mybmm_load_module; done, exit
          name, type   \* its arguments

rvars == <<lvars, pc, name, type>>

RInit == /\ Init
         /\ pc = "create"
         /\ name \in Static \cup Unknown /\ type = "transport"

\* conf->modules = list_create();
CreateModules == /\ pc = "create" /\ Create(Modules)
                 /\ pc' = "call" /\ UNCHANGED <<name, type>>

LoadCall == /\ pc = "call" /\ Reset(Modules)
            /\ pc' = "walk" /\ UNCHANGED <<name, type>>

\* load_module() returns a module: main() goes on with "jbd".
Loaded == IF type = "transport" THEN pc' = "call" /\ name' = jbd /\ type' = "cellmon"
                                ELSE pc' = "done" /\ UNCHANGED <<name, type>>

\* A module in the list has both name and type.
Found(m) == m = name /\ Type[m] = type

Walking == /\ pc = "walk" /\ GetNext(Modules)
           /\ CASE got' = 0    -> pc' = "init" /\ UNCHANGED <<name, type>>
                [] got' # 0 /\ Found(got')  -> Loaded
                [] got' # 0 /\ ~Found(got') -> UNCHANGED <<pc, name, type>>

\* A built-in one is taken by its name alone.
InitModule == /\ pc = "init" /\ name \in Static
              /\ pc' = "add" /\ UNCHANGED <<lvars, name, type>>

\* No such module, or its init() fails: main() returns 1.
LoadFails == /\ pc = "init"
             /\ pc' = "exit" /\ UNCHANGED <<lvars, name, type>>

AddModule == /\ pc = "add" /\ AddStatic(Modules, name)
             /\ Loaded

Loading == CreateModules \/ LoadCall \/ Walking \/ InitModule \/ LoadFails \/ AddModule

Others == /\ pc = "done"
          /\ \E l, from \in Lists \ {Modules} : UseList(l, from)
          /\ UNCHANGED <<pc, name, type>>

Next == Loading \/ Others \/ (Sorting /\ UNCHANGED <<pc, name, type>>)

Spec == RInit /\ [][Next]_rvars

\* list_sort() is a loop that nobody waits for.
FairSpec == Spec /\ WF_rvars(Sorting /\ UNCHANGED <<pc, name, type>>)
=============================================================================
