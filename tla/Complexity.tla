----------------------------- MODULE Complexity -----------------------------
(***************************************************************************)
(* estimate_complexity() (app/complexity.py): the tier of a request, from  *)
(* what its prompt looks like and what it asks for.                        *)
(*                                                                         *)
(* A prompt is what the score looks at.  A score is kept as a whole number *)
(* of parts, 100 * Saturation of them to one, so that the weights and the  *)
(* thresholds are exact; the code computes it in floating point.           *)
(***************************************************************************)
EXTENDS Integers

CONSTANTS
    Prompts,      \* [tokens, reasoning, simple, code]: the length, the number
                  \* of reasoning keywords, whether there is a keyword of a
                  \* simple task and whether there is a code block
    Saturation    \* the tokens at which a length signal saturates (2000)

NoTask == 0       \* no task_type, or one the code does not know
Simple == 1
Moderate == 2
Complex == 3
Tiers == {Simple, Moderate, Complex}

ASSUME ComplexityAssumption ==
    /\ Saturation \in Nat \ {0}
    /\ Prompts \subseteq [tokens : Nat, reasoning : Nat,
                          simple : BOOLEAN, code : BOOLEAN]
    /\ \A p \in Prompts : p.reasoning > 0 => p.tokens > 0

Capped(n, most) == IF n < most THEN n ELSE most

One == 100 * Saturation

(* The weighted blend of the signals.                                      *)
Blend(p, ceiling) ==
    20 * Saturation * Capped(p.reasoning, 3)
        + 15 * Capped(p.tokens, Saturation)
        + 15 * Capped(ceiling, Saturation)
        + (IF p.code THEN 15 * Saturation ELSE 0)

(* Wrong on purpose: a simple keyword counts beside a reasoning one too.   *)
ScorePulledDown(p, ceiling) ==
    LET pull == IF p.simple THEN 15 * Saturation ELSE 0
        score == Blend(p, ceiling) - pull
    IN  Capped(IF score < 0 THEN 0 ELSE score, One)

(* A simple keyword alone pulls the score down.                            *)
Score(p, ceiling) ==
    LET pull == IF p.simple /\ p.reasoning = 0 THEN 15 * Saturation ELSE 0
        score == Blend(p, ceiling) - pull
    IN  Capped(IF score < 0 THEN 0 ELSE score, One)

(* An explicit task type wins over the score.                              *)
Tier(p, ceiling, task) ==
    IF task # NoTask THEN task
    ELSE IF 2 * Score(p, ceiling) >= One THEN Complex
    ELSE IF 5 * Score(p, ceiling) >= One THEN Moderate
    ELSE Simple
=============================================================================
