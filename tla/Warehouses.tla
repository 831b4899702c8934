----------------------------- MODULE Warehouses -----------------------------
(***************************************************************************)
(* Stock locations (server/src/warehouse-settings.ts).  Every handler      *)
(* locks the tenant first, so that they come one at a time; the plan is    *)
(* read under that lock but changed without it.                            *)
(***************************************************************************)
EXTENDS Naturals, FiniteSets

CONSTANTS Warehouses, WarehouseNames, Limits, Contracted, Unnamed

ASSUME WarehouseConstants == Limits \subseteq Nat \ {0} /\ Contracted \notin Limits /\ Unnamed \notin WarehouseNames

VARIABLES
  warehouse, \* warehouses: name and default flag, Unnamed before they exist
  limit,     \* inventoryLocations of the plan, or Contracted for no limit
  entitled   \* history: the largest limit under which a location was made

warehouseVars == <<warehouse, limit, entitled>>

Existing == {w \in Warehouses : warehouse[w].name # Unnamed}
Defaults == {w \in Existing : warehouse[w].default}

\* A tenant starts with its main warehouse, the default.
WarehouseInit ==
  /\ \E w \in Warehouses, name \in WarehouseNames :
       warehouse = [x \in Warehouses |-> [name |-> IF x = w THEN name ELSE Unnamed, default |-> x = w]]
  /\ limit \in Limits \cup {Contracted}
  /\ entitled = 1

AtLimit == limit # Contracted /\ Cardinality(Existing) >= limit
UniqueName(name, w) == \A x \in Existing \ {w} : warehouse[x].name # name

\* The former default steps down in the statement before.
WithDefault(w, name, default) ==
  [x \in Warehouses |-> IF x = w THEN [name |-> name, default |-> default]
                        ELSE IF default THEN [warehouse[x] EXCEPT !.default = FALSE] ELSE warehouse[x]]

CreateWarehouse(w, name, asDefault) ==
  /\ w \notin Existing /\ ~AtLimit /\ UniqueName(name, w)
  /\ warehouse' = WithDefault(w, name, asDefault \/ Existing = {})
  /\ entitled' = IF limit = Contracted THEN Cardinality(Warehouses)
                 ELSE IF limit > entitled THEN limit ELSE entitled
  /\ UNCHANGED limit

MayStepDown(w) == ~warehouse[w].default

\* default is TRUE, FALSE, or what it was.
UpdateWarehouse(w, name, default) ==
  /\ w \in Existing
  /\ default = FALSE => MayStepDown(w)
  /\ UniqueName(name, w)
  /\ warehouse' = WithDefault(w, name, default)
  /\ UNCHANGED <<limit, entitled>>

RenameWarehouse(w, name) ==
  /\ w \in Existing /\ UniqueName(name, w)
  /\ warehouse' = [warehouse EXCEPT ![w].name = name]
  /\ UNCHANGED <<limit, entitled>>

\* The subscription moves to another plan, perhaps with fewer locations than there are.
ChangePlan(l) ==
  /\ limit' = l
  /\ UNCHANGED <<warehouse, entitled>>

WarehouseNext ==
  \/ \E w \in Warehouses, name \in WarehouseNames :
       RenameWarehouse(w, name) \/ \E default \in BOOLEAN : CreateWarehouse(w, name, default) \/ UpdateWarehouse(w, name, default)
  \/ \E l \in Limits \cup {Contracted} : ChangePlan(l)

----------------------------------------------------------------------------
(* Properties.                                                             *)

\* Through every change of locations and plans there is one default location, names are
\* told apart, and a tenant has no more locations than some plan of its allowed.
WarehousesSound ==
  /\ Cardinality(Defaults) = 1
  /\ \A w, x \in Existing : w # x => warehouse[w].name # warehouse[x].name
  /\ Cardinality(Existing) <= entitled
=============================================================================
