---------------------------- MODULE CompositeHulls ----------------------------
(***************************************************************************)
(* Hulls made of hulls: what a hull's hints declare it to be               *)
(* (analysis/combat_entity.py), how the module mappings of a variant are   *)
(* resolved (analysis/composite_hulls.py) and what the audit of complex    *)
(* hulls, which resolves them a second time, reports                       *)
(* (analysis/complex_hull_audit.py).  A variant's modules are Gone without *)
(* a module array, or the sequence of its mappings from slot to child;     *)
(* slots have names.                                                       *)
(***************************************************************************)
EXTENDS Registry

\* classify_hull_definition
HullDefinition(hull) ==
    [parent |-> "SHIP_WITH_MODULES" \in hull.hints, module |-> "MODULE" \in hull.hints,
     under |-> "UNDER_PARENT" \in hull.hints, station |-> "STATION" \in hull.hints]
Attached(hull) == HullDefinition(hull).module \/ HullDefinition(hull).under

------------------------------------------------------------------------------
(* What kind of entity a hull is, by its size and its hints alone, and        *)
(* whether it may be ranked among the ships that a fit is recommended for.    *)
EntityKind(hull) ==
    IF "MECH" \in hull.hints THEN "MECH"
    ELSE IF "DRONE" \in hull.hints THEN "DRONE"
    ELSE IF "STRIKECRAFT" \in hull.hints THEN "STRIKECRAFT"
    ELSE IF "UNBOARDABLE" \in hull.hints THEN "UNBOARDABLE_COMBAT_ENTITY"
    ELSE IF hull.fighter THEN "FIGHTER"
    ELSE IF Attached(hull) THEN (IF HullDefinition(hull).station THEN "STATION_MODULE" ELSE "SHIP_MODULE")
    ELSE IF HullDefinition(hull).parent THEN "COMPOSITE_PARENT" ELSE "SHIP"

DeploymentModel(hull) ==
    IF Attached(hull) THEN "MODULE_ATTACHED"
    ELSE IF "UNBOARDABLE" \in hull.hints THEN "UNBOARDABLE_INDEPENDENT"
    ELSE IF hull.fighter THEN "UNKNOWN" ELSE "INDEPENDENT"

\* recommendation_eligibility
Support(kind) ==
    IF kind = "SHIP" THEN "FULL" ELSE IF kind \in {"SHIP_MODULE", "STATION_MODULE"} THEN "UNSUPPORTED" ELSE "PARTIAL"
Eligibility(hull) ==
    [kind |-> EntityKind(hull), deployment |-> DeploymentModel(hull), support |-> Support(EntityKind(hull)),
     eligible |-> EntityKind(hull) = "SHIP"]

------------------------------------------------------------------------------
(* The mappings of a variant, resolved by the indexes alone.                  *)
Mappings(v) == IF v.what.modules = Gone THEN << >> ELSE v.what.modules
Children(v) == {Mappings(v)[i].child : i \in DOMAIN Mappings(v)}
Repeats(v) == \E i, j \in DOMAIN Mappings(v) : i # j /\ Mappings(v)[i].child = Mappings(v)[j].child

Resolution(reg, v, child) ==
    IF ~HasId(reg["hulls"], v.what.hull) THEN "UNRESOLVED_PARENT"
    ELSE IF ~HasId(reg["variants"], child) THEN "UNRESOLVED_CHILD_VARIANT"
    ELSE IF ~HasId(reg["hulls"], reg["variants"].by_id[child].what.hull) THEN "UNRESOLVED_CHILD_HULL"
    ELSE "RESOLVED"

ModuleProfile(reg, v, m) ==
    [slot |-> m.slot, child |-> m.child, resolution |-> Resolution(reg, v, m.child),
     hull |-> IF Resolution(reg, v, m.child) \in {"RESOLVED", "UNRESOLVED_CHILD_HULL"}
              THEN reg["variants"].by_id[m.child].what.hull ELSE Gone]

StructuralFeatures(reg, v) ==
         {"MULTIPART_PARENT_CHILD"}
    \cup {f \in {"REPEATED_MODULES"} : Repeats(v)}
    \cup {f \in {"ASYMMETRIC_MODULES"} : Cardinality(Children(v)) > 1}
    \cup {f \in {"STATION_STYLE_MODULES"} :
              HasId(reg["hulls"], v.what.hull) /\ HullDefinition(reg["hulls"].by_id[v.what.hull].what).station}

\* build_composite_ship_profiles: one for every variant with mappings, also of an ambiguous id.
ShipProfile(reg, v) ==
    LET modules == [i \in DOMAIN Mappings(v) |-> ModuleProfile(reg, v, Mappings(v)[i])]
    IN [variant |-> v.id, hull |-> v.what.hull, mod |-> v.mod, at |-> v.at, modules |-> modules,
        features |-> StructuralFeatures(reg, v),
        certain |-> \A i \in DOMAIN modules : modules[i].resolution = "RESOLVED"]
ShipProfiles(read, reg) == {ShipProfile(reg, v) : v \in {c \in ClaimsOf(read, "variants") : Mappings(c) # << >>}}

\* build_composite_hull_definitions: of the claimants of an id, the first by mod that is declared a parent
\* or, if a variant of the id has mappings, the first.
HullDefinitions(read, reg) ==
    LET of(id) == {p \in ShipProfiles(read, reg) : p.hull = id}
        composite == {h \in ClaimsOf(read, "hulls") : HullDefinition(h.what).parent \/ of(h.id) # {}}
        first == {h \in composite : \A g \in OfId(composite, h.id) : h.mod < g.mod \/ (h.mod = g.mod /\ h.at <= g.at)}
    IN {[hull |-> h.id, mod |-> h.mod, declared |-> HullDefinition(h.what), variants |-> Cardinality(of(h.id)),
         children |-> (UNION {{p.modules[i].hull : i \in DOMAIN p.modules} : p \in of(h.id)}) \ {Gone}] : h \in first}

\* resolve_ship_structure: the entities of each slot, or none; of two mappings with one slot the later counts.
ResolvedStructure(reg, profile) ==
    LET last(slot) == CHOOSE i \in DOMAIN profile.modules :
                          /\ profile.modules[i].slot = slot
                          /\ \A j \in DOMAIN profile.modules : profile.modules[j].slot = slot => j <= i
    IN [slot \in {profile.modules[i].slot : i \in DOMAIN profile.modules} |->
            LET module == profile.modules[last(slot)]
            IN IF module.resolution = "RESOLVED"
               THEN [variant |-> {reg["variants"].by_id[module.child]}, hull |-> {reg["hulls"].by_id[module.hull]}]
               ELSE [variant |-> {}, hull |-> {}]]

------------------------------------------------------------------------------
(* audit_complex_hulls: the findings, each with the mod it is attributed to.  *)
AmbiguousParents(read, reg) ==
    {[code |-> "AMBIGUOUS_COMPLEX_PARENT", mod |-> h.mod, of |-> h.id] :
        h \in {g \in ClaimsOf(read, "hulls") : HullDefinition(g.what).parent /\ Rivals(reg["hulls"], g.id) # {}}}

\* A variant without a hull id has no parent to report.
ParentCodes(reg, v) ==
    IF v.what.hull = Gone THEN {}
    ELSE IF HasId(reg["hulls"], v.what.hull)
    THEN {c \in {"MODULE_MAP_WITHOUT_PARENT_HINT"} : ~HullDefinition(reg["hulls"].by_id[v.what.hull].what).parent}
    ELSE IF Rivals(reg["hulls"], v.what.hull) # {} THEN {"AMBIGUOUS_MODULE_PARENT"} ELSE {"MISSING_MODULE_PARENT"}

ChildCodes(reg, v) ==
         {c \in {"UNRESOLVED_MODULE_VARIANT"} : \E x \in Children(v) : ~HasId(reg["variants"], x)}
    \cup {c \in {"UNRESOLVED_MODULE_HULL"} :
             \E x \in Children(v) : HasId(reg["variants"], x) /\ ~HasId(reg["hulls"], reg["variants"].by_id[x].what.hull)}

\* A module array without any mapping still has its parent looked at.
AuditedCodes(reg, v) ==
    IF v.what.modules = Gone THEN {}
    ELSE ParentCodes(reg, v) \cup ChildCodes(reg, v) \cup {c \in {"REPEATED_MODULE_MAPPING"} : Repeats(v)}

VariantFindings(read, reg) ==
    UNION {{[code |-> c, mod |-> v.mod, of |-> v.id] : c \in AuditedCodes(reg, v)} : v \in ClaimsOf(read, "variants")}

ComplexWarnings(read, reg, mod) ==
    {f \in AmbiguousParents(read, reg) \cup VariantFindings(read, reg) :
        f.mod = mod /\ f.code # "REPEATED_MODULE_MAPPING"}
===============================================================================
