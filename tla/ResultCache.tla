------------------------------ MODULE ResultCache ------------------------------
(* The result cache of `generate` and `recommend`: a table of finished results *)
(* by the fingerprint of what a computation is declared to consume.  Nothing   *)
(* ever deletes a row (no caller of `invalidate`), and a player edits files    *)
(* between two commands as before.                                             *)
EXTENDS Analyses

CONSTANTS Settings,      \* heuristic set, limits, flux mode, overrides and pack content, as one value
    NoFaction, NoAnswer,
    MaxFileEdits, MaxCommands

VARIABLES
    files,        \* the game and mod files
    entries,      \* the table: [kind, target, key] -> payload, as a set of rows
    returned,     \* what the last command returned
    changes, commands

cacheVars == <<files, entries, returned, changes, commands>>

Operations == {"candidate_alternatives", "build_archetype_candidates", "gap_recommendation"}
Targets(op) == IF op = "gap_recommendation" THEN Factions ELSE HullIds

------------------------------------------------------------------------------
\* A search reads its hull, every part there is and what a strict faction allows;
\* with build paths also the fits of the hull; the gap engine reads everything.
Allowed(d, f) == IF f = NoFaction THEN NoFaction ELSE d[Table(f)]
Parts == Weapons \cup Hullmods
Consumed(d, op, target) ==
    CASE op = "candidate_alternatives"     -> [hull |-> Entity(d, target), parts |-> EntitiesOf(d, Parts)]
      [] op = "build_archetype_candidates" -> [hull |-> HullEvidence(d, target), parts |-> EntitiesOf(d, Parts)]
      [] op = "gap_recommendation"         -> [registry |-> EntitiesOf(d, Entities)]
Recomputed(d, op, target, settings, faction) ==
    [op |-> op, target |-> target, settings |-> settings, allowed |-> Allowed(d, faction), consumed |-> Consumed(d, op, target)]

\* The declared contexts.  The source hashes are a sorted tuple without ids; as
\* a set, for the hash of a table fixes the rows it has.
SourceHashes(d, es) == {<<Home[e], Hash(d, e)>> : e \in Indexed(d, es)}

\* _candidate_generation_entity_hashes, for one fit and for build paths alike.
SearchHashesOfHull(d, hull) == SourceHashes(d, {hull} \cup Weapons)    \* a mutant: a bounded slice
SearchHashes(d, hull) == SourceHashes(d, {hull} \cup Parts)
RegistryHashes(d) == SourceHashes(d, Entities)

\* What a key is made of: each operation declares its own context, and names
\* its target in it, for a row is found by the key alone.
AlternativesContext(d, hull, settings, faction) ==
    [operation |-> "candidate_alternatives", hashes |-> SearchHashes(d, hull),
     context |-> settings, constraints |-> <<hull, Allowed(d, faction)>>]
PathsContext(d, hull, settings, faction) ==
    [operation |-> "build_archetype_candidates", hashes |-> SearchHashes(d, hull),
     context |-> settings, constraints |-> <<hull, Allowed(d, faction)>>]
GapContext(d, faction, settings) ==
    [operation |-> "gap_recommendation", hashes |-> RegistryHashes(d),
     context |-> settings, constraints |-> <<faction, Hash(d, faction)>>]

Fingerprint(d, op, target, settings, faction) ==
    CASE op = "candidate_alternatives"     -> AlternativesContext(d, target, settings, faction)
      [] op = "build_archetype_candidates" -> PathsContext(d, target, settings, faction)
      [] op = "gap_recommendation"         -> GapContext(d, target, settings)

------------------------------------------------------------------------------
CacheInit ==
    /\ files \in [Files -> Contents \cup {Gone}]
    /\ entries = {} /\ returned = NoAnswer /\ changes = 0 /\ commands = 0

\* An edit before the first command would only be another install.
EditFile(file, content) ==
    /\ changes < MaxFileEdits /\ commands > 0 /\ files[file] # content
    /\ files' = [files EXCEPT ![file] = content]
    /\ changes' = changes + 1 /\ returned' = NoAnswer
    /\ UNCHANGED <<entries, commands>>

\* A row is found by its key and its target; a row put replaces the one of its
\* key.  `stored` is history: the files the payload was computed from.
Matching(key, target) == {row \in entries : row.key = key /\ row.target = target}
Put(row) == {old \in entries : old.key # row.key} \cup {row}

Command(op, target, settings, faction) ==
    LET key == Fingerprint(files, op, target, settings, faction)
        row == [key |-> key, target |-> target, stored |-> files,
                payload |-> Recomputed(files, op, target, settings, faction)]
        reply(r, hit) == [op |-> op, target |-> target, settings |-> settings, faction |-> faction,
                          payload |-> r.payload, stored |-> r.stored, hit |-> hit]
    IN
    /\ commands < MaxCommands
    /\ target \in Indexed(files, Targets(op))
    /\ faction \in {NoFaction} \cup Indexed(files, Factions)
    /\ op = "gap_recommendation" => faction = NoFaction
    /\ \/ \E found \in Matching(key, target) : returned' = reply(found, TRUE) /\ entries' = entries
       \/ /\ Matching(key, target) = {}
          /\ returned' = reply(row, FALSE) /\ entries' = Put(row)
    /\ commands' = commands + 1
    /\ UNCHANGED <<files, changes>>

CacheNext ==
    \/ \E file \in Files, content \in Contents \cup {Gone} : EditFile(file, content)
    \/ \E op \in Operations, target \in HullIds \cup Factions, settings \in Settings, faction \in Factions \cup {NoFaction} :
           Command(op, target, settings, faction)

CacheSpec == CacheInit /\ [][CacheNext]_cacheVars

------------------------------------------------------------------------------
Exact == returned.payload = Recomputed(files, returned.op, returned.target, returned.settings, returned.faction)

\* The files a computation reads and no fingerprint declares: the specification
\* files of hulls and weapons, and the variants that build paths are inferred from.
Undeclared(op) ==
    SpecFiles \cup (IF op = "build_archetype_candidates" THEN {Table(v) : v \in Variants} ELSE {})

\* Whatever was edited, undone and asked in between, a result from the table is
\* the one a computation would give now, or a file outside the declared context
\* differs from the one the row was computed from.
HitsAreFresh ==
    returned # NoAnswer => Exact \/ \E file \in Undeclared(returned.op) : files[file] # returned.stored[file]

\* A stored result is served only for the inputs it was computed from.  (The
\* code does not keep this: see the files of Undeclared.)
CachedIsExact == returned # NoAnswer => Exact
===============================================================================
