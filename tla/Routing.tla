------------------------------ MODULE Routing ------------------------------
(***************************************************************************)
(* How the Router chooses Agents: the classification of a task             *)
(* (task-classifier), the statistics of what an Agent has done             *)
(* (performance), its static and its adaptive score (agent-scorer,         *)
(* adaptive-scorer), the ranking (router) and the candidates of a          *)
(* competition (CompetitionService.selectCandidates).                      *)
(*                                                                         *)
(* Everything is a function of the rows in agent_runs, oldest first.       *)
(* Scores are in hundredths, as the code rounds them (roundScore,          *)
(* roundMetric); binary floating point is not modelled.                    *)
(***************************************************************************)
EXTENDS Integers, Sequences, FiniteSets, SequencesExt

CONSTANTS Agents,            \* ids, compared with < (agentId)
          RegistryIndex,     \* place of each in config/agents.js
          Capability,        \* capabilityScores of each
          Categories,        \* TASK_CATEGORIES
          Rules,             \* taskRules: [id, category, weight]
          Fallback,          \* FALLBACK_CLASSIFICATION, in full
          MaxAgents,         \* COMPETITION_MAX_AGENTS
          RoutingWeights,    \* ADAPTIVE_*_WEIGHT in percent
          MinSamples,        \* ADAPTIVE_MIN_SAMPLES
          RecentSampleSize   \* ADAPTIVE_RECENT_SAMPLE_SIZE

Unknown == -1   \* null in a column of numbers

ASSUME RoutingAssumption ==
    /\ Agents \subseteq Nat \ {0} /\ IsFiniteSet(Agents) /\ IsFiniteSet(Categories)
    /\ RegistryIndex \in [Agents -> Nat]
    /\ \A a, b \in Agents : a # b => RegistryIndex[a] # RegistryIndex[b]
    /\ \A a \in Agents : Capability[a] \in [Categories -> 0..100]
    /\ \A r \in Rules : r.weight \in Nat
    /\ IsFiniteSet(Rules)
    /\ Fallback \in [Categories -> 0..100]
    /\ {MaxAgents, MinSamples, RecentSampleSize} \subseteq Nat \ {0}
    /\ RoutingWeights \in [static : Nat, history : Nat, recent : Nat]
    /\ RoutingWeights.static + RoutingWeights.history + RoutingWeights.recent = 100

\* Math.round of a quotient of natural numbers
RoundedQuotient(n, d) == (2 * n + d) \div (2 * d)

Clamp(x, top) == IF x < 0 THEN 0 ELSE IF x > top THEN top ELSE x

-----------------------------------------------------------------------------
\* TaskClassifierService.classifyTask, given the rules whose words the task
\* contains.
Classify(matched) ==
    IF matched = {} THEN Fallback
    ELSE [c \in Categories |->
             Clamp(SumFunction([r \in {r \in matched : r.category = c} |-> r.weight]), 100)]

Active(importance) == {c \in Categories : importance[c] > 0}

Total(importance, cs) == SumFunction([c \in cs |-> importance[c]])

\* AgentScorerService.scoreAgent: the average capability.
StaticScore(importance, agent) ==
    LET active == Active(importance)
    IN IF active = {} THEN 0
       ELSE RoundedQuotient(
                100 * SumFunction([c \in active |-> importance[c] * Capability[agent][c]]),
                Total(importance, active))

-----------------------------------------------------------------------------
(* PerformanceService.                                                     *)

RowsOf(rows, agent) == {i \in DOMAIN rows : rows[i].agent = agent}

\* task_categories holds the categories of a task that are not zero.
CategoryRows(rows, agent, c) == {i \in RowsOf(rows, agent) : rows[i].importance[c] > 0}

RecentRows(rows, agent) ==
    LET mine == RowsOf(rows, agent)
    IN {i \in mine : Cardinality({j \in mine : j > i}) < RecentSampleSize}

\* Mutant: NULL scores left out of the average.
Scored(rows, is) == {i \in is : rows[i].score # Unknown}

\* COALESCE(evaluation_score, 0)
Counted(rows, is) == is

Points(row) == IF row.score = Unknown THEN 0 ELSE row.score

\* getAgentCategoryStats: weightedEvaluationScore
Quality(rows, agent, c) ==
    LET is == Counted(rows, CategoryRows(rows, agent, c))
    IN IF is = {} THEN Unknown
       ELSE RoundedQuotient(
                100 * SumFunction([i \in is |-> rows[i].importance[c] * Points(rows[i])]),
                SumFunction([i \in is |-> rows[i].importance[c]]))

\* getAgentRecentStats: averageEvaluationScore
RecentQuality(rows, agent) ==
    LET is == Counted(rows, RecentRows(rows, agent))
    IN IF is = {} THEN Unknown
       ELSE RoundedQuotient(100 * SumFunction([i \in is |-> Points(rows[i])]), Cardinality(is))

-----------------------------------------------------------------------------
(* AdaptiveScorerService.scoreAgentWithHistory, with                       *)
(* ADAPTIVE_ROUTING_ENABLED; without it the score is the static one.       *)

Experienced(rows, importance, agent) ==
    {c \in Active(importance) :
        /\ Cardinality(CategoryRows(rows, agent, c)) >= MinSamples
        /\ Quality(rows, agent, c) # Unknown}

HasRecent(rows, agent) ==
    /\ Cardinality(RecentRows(rows, agent)) >= MinSamples
    /\ RecentQuality(rows, agent) # Unknown

\* The weights of the parts there are: what is missing is left out.
AvailableWeight(known, recent) ==
    RoutingWeights.static
    + (IF known = {} THEN 0 ELSE RoutingWeights.history)
    + (IF recent THEN RoutingWeights.recent ELSE 0)

RoutingScore(rows, importance, agent) ==
    LET static == StaticScore(importance, agent)
        known  == Experienced(rows, importance, agent)
        total  == IF known = {} THEN 1 ELSE Total(importance, known)
        past   == SumFunction([c \in known |-> importance[c] * Quality(rows, agent, c)])
        recent == HasRecent(rows, agent)
        weight == AvailableWeight(known, recent)
        points == (RoutingWeights.static * static
                   + IF recent THEN RoutingWeights.recent * RecentQuality(rows, agent)
                     ELSE 0) * total
                  + RoutingWeights.history * past
    IN IF (known = {} /\ ~recent) \/ weight = 0
       THEN static
       ELSE Clamp(RoundedQuotient(points, weight * total), 10000)

-----------------------------------------------------------------------------
\* RouterService.analyzeTask: the order of the ranking.
Preferred(rows, importance, a, b) ==
    LET left == RoutingScore(rows, importance, a)
        right == RoutingScore(rows, importance, b)
    IN left > right \/ (left = right /\ RegistryIndex[a] < RegistryIndex[b])

\* The available Agents in this order: there is one such sequence.
Rankings(rows, importance, available) ==
    {s \in SetToSeqs(available) :
        \A i, j \in DOMAIN s : i < j => Preferred(rows, importance, s[i], s[j])}

\* selectCandidates: the first available ones of the ranking, or those the
\* request names, in the order it names them.
Chosen(rows, importance, available) ==
    {SubSeq(s, 1, Clamp(Len(s), MaxAgents)) : s \in Rankings(rows, importance, available)}

Requested(available) == {s \in SetToAllKPermutations(available) : Len(s) <= MaxAgents}
=============================================================================
