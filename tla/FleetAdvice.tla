------------------------------ MODULE FleetAdvice ------------------------------
(***************************************************************************)
(* The fleet support and scenario advisors (analysis/fleet_support.py,     *)
(* analysis/scenario_advisor.py) and the cards of the window that lead     *)
(* from them to a fit.  The ships a player selected are locked; what they  *)
(* cover badly is a need; every other hull is excluded with a reason,      *)
(* ranked by what it adds, or no match.  A scenario puts its deficiencies  *)
(* in the place of the needs.  A card stays on the screen while the player *)
(* changes the selection or scans again, and a fit is generated only for   *)
(* what is recommended now.  Scores are hundredths.                        *)
(***************************************************************************)
EXTENDS AdvisorRules, FiniteSetsExt, Sequences, SequencesExt, Functions

CONSTANTS
    Scans,              \* registries: hulls, variants
    Orders,             \* selections, faction, access, focus and options
    ScenarioProfiles,   \* declared capability targets
    LogisticsNeeds,     \* _LOGISTICS_SUPPORT_CAPABILITIES, the others are combat needs
    Mobility,           \* the capability that is compared as a character
    FocusNeeds,         \* the needs a focus looks at
    Purpose,            \* _support_purposes, numbered in alphabetical order
    FitProfile,         \* _SUPPORT_FIT_PROFILE_BY_PURPOSE
    FleetCount,         \* fleet_support_recommendation_count
    Varied, Composed    \* what the heuristic set switches on: diversity, composition

VARIABLES scanned, order, cards, said
fleetVars == <<scanned, order, cards, said>>

Nowhere == [origin |-> Nil, listed |-> <<>>]
Axes == {"position", "style", "tempo"}

\* The mean of what is known, every entry counted as often as w says.
Weighed(f, w) ==
    LET known == {i \in DOMAIN f : f[i] # Nil} IN
    IF known = {} THEN Nil
    ELSE SumFunction([i \in known |-> w[i] * f[i]]) \div SumFunction([i \in known |-> w[i]])
Mean(f) == Weighed(f, [i \in DOMAIN f |-> 1])
KnownOr0(x) == IF x = Nil THEN 0 ELSE x
Close(a, b, scale) ==
    IF a = Nil \/ b = Nil THEN Nil
    ELSE Max({0, 100 - (100 * (IF a > b THEN a - b ELSE b - a)) \div scale})
CloseOf(a, b) == IF a = Nil \/ b = Nil THEN Nil ELSE Close(a, b, Max({a, b, 1}))
Lack(x) == IF x = Nil THEN Nil ELSE 100 - x

\* What is assumed of the data: what is not known is Nil, the rest is numbers.
Capabilities == UNION (Range(FocusNeeds) \cup {{t.need : t \in s.targets} : s \in ScenarioProfiles} \cup {{Mobility}})
Counted(x) == x = Nil \/ x \in Nat
IsShip(x) ==        \* of a hull, and of a variant
    /\ Counted(x.range)
    /\ \A n \in Capabilities : x.cap[n] = Nil \/ (x.cap[n].score \in Nat /\ x.cap[n].sure \in Nat)
    /\ \A a \in Axes : IsFiniteSet(DOMAIN x.posture[a]) /\ \A l \in DOMAIN x.posture[a] : x.posture[a][l] \in Nat
FleetShips(r) == Range(r.hulls) \cup Range(r.variants)

ASSUME FleetAssumption ==
    /\ FleetCount \in Nat \ {0} /\ Nil \notin Int
    /\ Nil \notin {"LOCKED_PLAYER_SELECTION", "NOT_A_NORMAL_SHIP", "ACCESS_POLICY", "FLEET_SUPPORT", "SCENARIO"}
    /\ \A f \in DOMAIN FocusNeeds : IsFiniteSet(FocusNeeds[f])
    /\ \A s \in ScenarioProfiles : s.sure \in Nat /\ IsFiniteSet(s.targets) /\ \A t \in s.targets : t.target \in Nat
\* Hulls are numbered in their order by id, and every doctrine is shared out among the same labels.
ASSUME ScansAssumption ==
    \A r \in Scans :
        /\ IsFiniteSet(DOMAIN r.hulls) /\ DOMAIN r.hulls \subseteq Nat
        /\ \A x \in FleetShips(r) : IsShip(x)
        /\ \A x, y \in FleetShips(r), a \in Axes : DOMAIN x.posture[a] = DOMAIN y.posture[a]
        /\ \A h \in DOMAIN r.hulls :
              LET x == r.hulls[h] IN IsFiniteSet(x.traits) /\ Counted(x.speed) /\ Counted(x.burn) /\ Counted(x.sensor)
ASSUME OrdersAssumption ==
    \A o \in Orders :
        /\ IsFiniteSet(DOMAIN o.selections) /\ \A i \in DOMAIN o.selections : o.selections[i].count \in Int
        /\ o.focus \in DOMAIN FocusNeeds /\ (o.count = Nil \/ o.count \in Nat \ {0})
------------------------------------------------------------------------------
\* What is selected.  A variant stands for its hull with its own fit, a hull for
\* all variants that are indexed; ids that do not resolve are left aside.
HullOf(r, s) ==
    IF s.variant = Nil THEN IF s.hull \in DOMAIN r.hulls THEN s.hull ELSE Nil
    ELSE IF s.variant \in DOMAIN r.variants /\ r.variants[s.variant].hull \in DOMAIN r.hulls
         THEN r.variants[s.variant].hull ELSE Nil
Fitting(r, s) == IF s.variant = Nil THEN r.hulls[s.hull] ELSE r.variants[s.variant]

Selections(o) == o.selections
Located(r, o)  == {i \in DOMAIN Selections(o) : HullOf(r, Selections(o)[i]) # Nil}
Resolved(r, o) == {i \in Located(r, o) : r.hulls[HullOf(r, Selections(o)[i])].eligible}
Locked(r, o)   == {HullOf(r, Selections(o)[i]) : i \in Resolved(r, o)}
CopiesOf(o, S) == [i \in S |-> Selections(o)[i].count]
SelectionRefused(o) == (\E i \in DOMAIN Selections(o) : Selections(o)[i].count < 1) \/ Selections(o) = <<>>

\* The best evidence among the selected for a capability, Nil when none has any.
Evidences(r, o, n) == {Fitting(r, Selections(o)[i]).cap[n] : i \in Resolved(r, o)} \ {Nil}
FleetBest(r, o, n) ==
    IF Evidences(r, o, n) = {} THEN Nil
    ELSE CHOOSE e \in Evidences(r, o, n) :
             \A f \in Evidences(r, o, n) : f.score < e.score \/ (f.score = e.score /\ f.sure <= e.sure)

\* What the selected ships cover badly: an unknown capability is no need.
FleetNeed(n, score, sure) == [need |-> n, score |-> score, sure |-> sure, logistic |-> n \in LogisticsNeeds]
SupportNeeds(r, o) ==
    {FleetNeed(n, 100 - FleetBest(r, o, n).score, FleetBest(r, o, n).sure) :
        n \in {m \in FocusNeeds[o.focus] : FleetBest(r, o, m) # Nil /\ 100 - FleetBest(r, o, m).score >= 35}}

\* The mean posture of the selected ships, and how much of it a candidate shares.
Posture(r, o, axis, label) ==
    Weighed([i \in Resolved(r, o) |-> Fitting(r, Selections(o)[i]).posture[axis][label]], CopiesOf(o, Resolved(r, o)))
AxisMatch(r, o, axis, h) ==
    LET own == r.hulls[h].posture[axis]
        all == SumFunction([l \in DOMAIN own |-> Posture(r, o, axis, l)])
    IN  IF Resolved(r, o) = {} THEN Nil
        ELSE Min({100, (100 * SumFunction([l \in DOMAIN own |-> Min({Posture(r, o, axis, l), own[l]})])) \div Max({1, all})})

\* What is measured on every ship that is located, eligible or not.
OfSelection(r, o, field) == [i \in Located(r, o) |-> r.hulls[HullOf(r, Selections(o)[i])][field]]
Ranges(r, o) == [i \in Located(r, o) |-> Fitting(r, Selections(o)[i]).range]
SlowestBurn(r, o) == LET known == Range(OfSelection(r, o, "burn")) \ {Nil} IN IF known = {} THEN Nil ELSE Min(known)
SpeedMatch(r, o, h)  == Close(r.hulls[h].speed, Weighed(OfSelection(r, o, "speed"), CopiesOf(o, Located(r, o))), 120)
BurnMatch(r, o, h)   == CloseOf(r.hulls[h].burn, SlowestBurn(r, o))
RangeMatch(r, o, h)  == CloseOf(r.hulls[h].range, Weighed(Ranges(r, o), CopiesOf(o, Located(r, o))))
SensorMatch(r, o, h) == CloseOf(r.hulls[h].sensor, Weighed(OfSelection(r, o, "sensor"), CopiesOf(o, Located(r, o))))

\* The character of the resolved ships: a phase hull suits a fleet that has one.
PhaseMatch(r, o, h) ==
    IF ~\E l \in Locked(r, o) : r.hulls[l].phase THEN Nil ELSE IF r.hulls[h].phase THEN 100 ELSE 0
Sensors(r, o) == {i \in Resolved(r, o) : r.hulls[HullOf(r, Selections(o)[i])].sensor # Nil}
Mobile(r, o, field) ==
    LET known == {i \in Resolved(r, o) : Fitting(r, Selections(o)[i]).cap[Mobility] # Nil} IN
    Weighed([i \in known |-> Fitting(r, Selections(o)[i]).cap[Mobility][field]], CopiesOf(o, known))
MobileMatch(r, o, own) == IF own = Nil \/ Mobile(r, o, "score") = Nil THEN Nil ELSE Close(own.score, Mobile(r, o, "score"), 100)
Alike(r, o, own, phase, sensor, burn, moves) ==
    LET total(S) == SumFunction([i \in S |-> Selections(o)[i].count]) IN
    [score |-> KnownOr0(Mean(<<phase, sensor, burn, moves>>)),
     sure  |-> KnownOr0(Mean(<<IF phase = Nil THEN Nil ELSE 100,
                             IF sensor = Nil \/ Sensors(r, o) = {} THEN Nil
                             ELSE (100 * total(Sensors(r, o))) \div total(Resolved(r, o)),
                             IF burn = Nil THEN Nil ELSE 100,
                             IF moves = Nil THEN Nil ELSE (own.sure * Mobile(r, o, "sure")) \div 100>>))]
Composition(r, o, h) ==
    LET own == r.hulls[h].cap[Mobility] IN
    Alike(r, o, own, PhaseMatch(r, o, h), SensorMatch(r, o, h), BurnMatch(r, o, h), MobileMatch(r, o, own))
------------------------------------------------------------------------------
\* What a candidate adds.
Met(r, needs, h) == {n \in needs : r.hulls[h].cap[n.need] # Nil}
Answers(r, n, h) == r.hulls[h].cap[n.need].score
Signal(r, needs, h) ==
    IF Met(r, needs, h) = {} THEN 0
    ELSE SumFunction([n \in Met(r, needs, h) |-> n.score * Answers(r, n, h)]) \div SumFunction([n \in Met(r, needs, h) |-> n.score])
Supports(r, needs, h) == {n \in Met(r, needs, h) : n.score * Answers(r, n, h) >= 1200}
Material(r, needs, h) == Met(r, needs, h) # {} /\ Signal(r, needs, h) >= 15 /\ Supports(r, needs, h) # {}

Access(r, o, h) == Affinity(r.hulls[h].owners, o.faction, FALSE)
Cohesion(r, o, h) == KnownOr0(Mean([a \in Axes |-> AxisMatch(r, o, a, h)]))
Friction(r, o, h) ==
    KnownOr0(Mean(<<Lack(SpeedMatch(r, o, h)), Lack(AxisMatch(r, o, "position", h)),
                    Lack(AxisMatch(r, o, "tempo", h)), Lack(RangeMatch(r, o, h))>>))
SupportScore(r, o, h, signal, cohesion, composition) ==
    Max({0, Min({100, (65 * signal + 35 * cohesion - 15 * Friction(r, o, h)
                       + (IF Composed THEN 20 * composition.score + 5 * Preference[Access(r, o, h)] ELSE 0)) \div 100})})
Contribution(r, o, needs, h, signal, cohesion, composition) ==
    LET adds == Supports(r, needs, h)
        fits == Max({cohesion, composition.score})
        sure == SumFunction([n \in Met(r, needs, h) |-> (n.sure * r.hulls[h].cap[n.need].sure) \div 100]) + composition.sure
    IN  [hull |-> h, score |-> SupportScore(r, o, h, signal, cohesion, composition), sure |-> sure \div (Cardinality(Met(r, needs, h)) + 1),
         supports |-> {n.need : n \in adds}, logistic |-> {n.logistic : n \in adds},
         kind |-> CASE fits >= 50 /\ signal >= 35 -> "SYNERGY_AND_GAP_FILL"
                    [] ~(fits >= 50 /\ signal >= 35) /\ fits > signal -> "SYNERGY"
                    [] OTHER -> "GAP_FILL"]
Support(r, o, needs, h) == Contribution(r, o, needs, h, Signal(r, needs, h), Cohesion(r, o, h), Composition(r, o, h))

\* Who may not be added, and why.
PermittedByOwner(r, o, h) ==       \* a mutant: hidden hulls are forgotten
    \/ o.access = "UNRESTRICTED"
    \/ o.access = "STRICT_FACTION" /\ o.faction # Nil /\ o.faction \in r.hulls[h].owners
    \/ o.access = "FACTION_PLUS" /\ (o.foreign \/ Access(r, o, h) # "FOREIGN")
Permitted(r, o, h) ==
    /\ o.hidden \/ ~r.hulls[h].hidden
    /\ \/ o.access = "UNRESTRICTED"
       \/ o.access = "STRICT_FACTION" /\ o.faction # Nil /\ o.faction \in r.hulls[h].owners
       \/ o.access = "FACTION_PLUS" /\ (o.foreign \/ Access(r, o, h) # "FOREIGN")
Excluded(r, o, h) ==
    CASE h \in Locked(r, o) -> "LOCKED_PLAYER_SELECTION"
      [] h \notin Locked(r, o) /\ ~r.hulls[h].eligible -> "NOT_A_NORMAL_SHIP"
      [] h \notin Locked(r, o) /\ r.hulls[h].eligible /\ ~Permitted(r, o, h) -> "ACCESS_POLICY"
      [] OTHER -> Nil
FleetOrder(c) == <<c.score, c.sure, -c.hull>>
FleetRanking(r, o, needs) ==
    LET pool == {Support(r, o, needs, h) : h \in {g \in DOMAIN r.hulls : Excluded(r, o, g) = Nil /\ Material(r, needs, g)}}
    IN  InOrder(pool, {p \in pool \X pool : Exceeds(FleetOrder(p[1]), FleetOrder(p[2]))})

\* The list that is shown: the best, then what differs most among the near ones.
FamilyAppeal(r, c, chosen, best) ==
    LET like == Max({Jaccard(r.hulls[c.hull].traits, r.hulls[d.hull].traits) : d \in chosen}) IN
    <<10000 * c.score - 15 * like * best, 100 - like, c.hull>>
FleetShortlist(r, ranked, count) ==
    LET best == ranked[1].score
        pick[n \in 1..count] ==
            IF n = 1 THEN <<ranked[1]>> ELSE
            LET chosen == Range(pick[n - 1])
                rest   == Range(ranked) \ chosen
                pool   == ChoosePool(rest, best)
            IN  IF rest = {} THEN pick[n - 1]
                ELSE Append(pick[n - 1], CHOOSE c \in pool : \A d \in pool \ {c} :
                                             Exceeds(FamilyAppeal(r, c, chosen, best), FamilyAppeal(r, d, chosen, best)))
    IN  CASE ranked = <<>> -> <<>>
          [] ranked # <<>> /\ ~Varied -> SubSeq(ranked, 1, Min({count, Len(ranked)}))
          [] OTHER -> pick[count]
CountOf(o) == IF o.count = Nil THEN FleetCount ELSE o.count

\* The same ranking by the category of what is supported.
ByCategory(r, o, needs, ranked, logistic) ==
    LET asked == {n.need : n \in {m \in needs : m.logistic = logistic}} IN
    FleetShortlist(r, Kept(ranked, {c \in Range(ranked) : c.supports \cap asked # {}}), CountOf(o))
AdviceFrom(r, ranked, o, needs) ==
    [listed     |-> FleetShortlist(r, ranked, CountOf(o)),
     categories |-> [l \in {n.logistic : n \in needs} |-> ByCategory(r, o, needs, ranked, l)],
     unmet      |-> {n.need : n \in needs} \ UNION {c.supports : c \in Range(ranked)}]
FleetSupport(r, o, needs) == AdviceFrom(r, FleetRanking(r, o, needs), o, needs)

\* Why not a hull, from the ranking of the needs of the fleet.
FleetAnswer(r, o, h, ranked) ==
    LET at    == {i \in DOMAIN ranked : ranked[i].hull = h}
        shown == \E c \in Range(FleetShortlist(r, ranked, CountOf(o))) : c.hull = h
    IN  CASE h \notin DOMAIN r.hulls -> "UNKNOWN"
          [] h \in DOMAIN r.hulls /\ Excluded(r, o, h) # Nil -> Excluded(r, o, h)
          [] h \in DOMAIN r.hulls /\ Excluded(r, o, h) = Nil /\ at = {} -> "NO_MATCH"
          [] OTHER -> IF shown THEN "RECOMMENDED" ELSE "BELOW_CUTOFF"
------------------------------------------------------------------------------
\* A scenario: how well the fleet reaches each declared target, and additions
\* for what it reaches badly.  How ready it is divides by the target.
Alignment(e, t) ==
    CASE e = Nil -> "UNKNOWN"
      [] e # Nil /\ e.score >= t.target -> "STRONG"
      [] e # Nil /\ e.score < t.target /\ 10 * e.score >= 7 * t.target -> "ADEQUATE"
      [] OTHER -> "WEAK"
Deficiency(t, e, s) == [need |-> t.need, score |-> t.target - e.score, sure |-> (e.sure * s.sure) \div 100, logistic |-> FALSE]
Deficiencies(r, o, s) == {Deficiency(t, FleetBest(r, o, t.need), s) : t \in {u \in s.targets : Alignment(FleetBest(r, o, u.need), u) = "WEAK"}}
Evaluated(r, o, s) == {t \in s.targets : FleetBest(r, o, t.need) # Nil}
Readiness(r, o, s, evaluated) ==
    IF evaluated = {} THEN Nil
    ELSE SumFunction([t \in evaluated |-> Min({100, (100 * FleetBest(r, o, t.need).score) \div t.target})]) \div Cardinality(evaluated)
Divides(r, o, s) == \A t \in Evaluated(r, o, s) : t.target # 0
Grade(r) ==
    CASE r = Nil -> "UNKNOWN" [] r # Nil /\ r >= 75 -> "GOOD" [] r # Nil /\ r \in 45..74 -> "MIXED" [] OTHER -> "POOR"
Additions(r, o, needs) == IF needs = {} THEN <<>> ELSE FleetSupport(r, o, needs).listed

\* The purpose a fit is generated for, the first that has a profile.
FitPurpose(c) ==
    LET fits == {Purpose[n] : n \in c.supports \cap DOMAIN Purpose} \cap DOMAIN FitProfile IN
    IF fits = {} THEN Nil ELSE Min(fits)
FitOutcome(list, h) ==
    LET now == {c \in Range(list) : c.hull = h} IN
    CASE now = {} -> [is |-> "refused", profile |-> Nil]
      [] \E c \in now : FitPurpose(c) = Nil -> [is |-> "no purpose", profile |-> Nil]
      [] OTHER -> [is |-> "generated", profile |-> FitProfile[FitPurpose(CHOOSE c \in now : TRUE)]]
------------------------------------------------------------------------------
FleetInit == scanned \in Scans /\ order \in Orders /\ cards = Nowhere /\ said = Nil

\* The player scans again or changes the request; the cards stay where they are.
Rescan(r)      == r # scanned /\ scanned' = r /\ said = Nil /\ UNCHANGED <<order, cards, said>>
ChangeOrder(o) == o # order /\ order' = o /\ said = Nil /\ UNCHANGED <<scanned, cards, said>>

\* A request without a selection, or with a strict access and no faction, is
\* answered at once.
MayAsk == said = Nil /\ ~SelectionRefused(order) /\ (order.access = "STRICT_FACTION" => order.faction # Nil) /\ UNCHANGED <<scanned, order>>
Made == <<scanned, order>>

Advise(advice) ==
    /\ cards' = [origin |-> "FLEET_SUPPORT", listed |-> advice.listed, of |-> Made]
    /\ said' = [kind |-> "advice", categories |-> advice.categories, unmet |-> advice.unmet]
AdviseFleet == MayAsk /\ Advise(FleetSupport(scanned, order, SupportNeeds(scanned, order)))

\* An assessment that divides by zero leaves an error box and the old cards.
EvaluateScenario(s) ==
    /\ MayAsk
    /\ IF Divides(scanned, order, s)
       THEN /\ cards' = [origin |-> "SCENARIO", of |-> Made,
                          listed |-> Additions(scanned, order, Deficiencies(scanned, order, s))]
            /\ said'  = [kind |-> "scenario", scenario |-> s,
                          is |-> Grade(Readiness(scanned, order, s, Evaluated(scanned, order, s)))]
       ELSE said' = [kind |-> "scenario", scenario |-> s, is |-> "ERROR"] /\ UNCHANGED cards

AskWhyNot(h) ==
    /\ MayAsk
    /\ said' = [kind |-> "why", hull |-> h,
                is |-> FleetAnswer(scanned, order, h, FleetRanking(scanned, order, SupportNeeds(scanned, order)))]
    /\ UNCHANGED cards

\* A fit for a card, or for a hull the player types in, is generated from what is
\* recommended when it is asked for, by the advisor the cards came from.
GenerateFit(h) ==
    /\ MayAsk /\ cards.origin # "SCENARIO"
    /\ said' = [kind |-> "fit", hull |-> h, is |-> FitOutcome(FleetSupport(scanned, order, SupportNeeds(scanned, order)).listed, h)]
    /\ UNCHANGED cards
GenerateScenarioFit(s, h) ==
    /\ MayAsk
    /\ said' = [kind |-> "fit", hull |-> h,
                is |-> IF Divides(scanned, order, s)
                       THEN FitOutcome(Additions(scanned, order, Deficiencies(scanned, order, s)), h)
                       ELSE [is |-> "ERROR", profile |-> Nil]]
    /\ UNCHANGED cards

AnswerRead == said # Nil /\ said' = Nil /\ UNCHANGED <<scanned, order, cards>>

Typed == DOMAIN scanned.hulls \cup {c.hull : c \in Range(cards.listed)}

FleetNext ==
    \/ \E r \in Scans : Rescan(r)
    \/ \E o \in Orders : ChangeOrder(o)
    \/ AdviseFleet
    \/ \E s \in ScenarioProfiles : EvaluateScenario(s)
    \/ \E h \in Typed : AskWhyNot(h)
    \/ \E h \in Typed : GenerateFit(h)
    \/ \E s \in ScenarioProfiles, h \in Typed : GenerateScenarioFit(s, h)
    \/ AnswerRead

FleetSpec == FleetInit /\ [][FleetNext]_fleetVars
------------------------------------------------------------------------------
\* What a hull must be to be proposed, whatever the score says.
MayJoin(r, o, h) ==
    /\ h \in DOMAIN r.hulls /\ r.hulls[h].eligible
    /\ o.hidden \/ ~r.hulls[h].hidden
    /\ o.access = "STRICT_FACTION" => o.faction \in r.hulls[h].owners
    /\ \A i \in DOMAIN o.selections :
          LET s == o.selections[i] IN
          IF s.variant = Nil THEN s.hull # h ELSE s.variant \in DOMAIN r.variants => r.variants[s.variant].hull # h

\* Advice respects the order it was given: what is listed may join, is listed
\* once and no better than what heads the list; every category lists only what
\* supports a need of it; a need called unmet is supported by no card.  Why-Not
\* says of exactly the cards of this scan and order that they are recommended,
\* and a fit is generated only for a hull that may join now, however old the
\* card it was asked from is.  Hazard: the cards outlive the scan and the
\* selection, and listing, answer and fit are computed by three calls.
FleetAdviceHolds ==
    LET current == cards.origin # Nil /\ cards.of = Made
        heads(list) == \A i, j \in DOMAIN list : list[i].score <= list[1].score /\ (i # j => list[i].hull # list[j].hull)
        needs == {n.need : n \in SupportNeeds(scanned, order)}
    IN  /\ current => heads(cards.listed) /\ \A c \in Range(cards.listed) : MayJoin(scanned, order, c.hull)
        /\ said # Nil =>
             CASE said.kind = "advice" ->
                    /\ \A l \in DOMAIN said.categories, c \in UNION {Range(said.categories[k]) : k \in DOMAIN said.categories} :
                          c \in Range(said.categories[l]) => MayJoin(scanned, order, c.hull) /\ l \in c.logistic
                    /\ said.unmet \subseteq needs
                    /\ \A c \in Range(cards.listed) : c.supports \cap said.unmet = {} /\ c.supports \subseteq needs
               [] said.kind = "why" ->
                    current /\ cards.origin = "FLEET_SUPPORT" =>
                        (said.is = "RECOMMENDED" <=> \E c \in Range(cards.listed) : c.hull = said.hull)
               [] said.kind = "fit" -> said.is.is = "generated" => MayJoin(scanned, order, said.hull)
               [] OTHER -> TRUE

\* Every declared scenario is assessed: a target from 0 through 1 is accepted, so
\* evaluating it ends with a readiness.  (The message of the window says so:
\* "Custom scenario targets use CAPABILITY=0.00 through CAPABILITY=1.00".)
EveryScenarioIsAssessed == said # Nil => (said.kind = "scenario" => said.is # "ERROR")
==============================================================================
