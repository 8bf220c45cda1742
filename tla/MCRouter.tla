------------------------------ MODULE MCRouter ------------------------------
(* Router over all catalogs of three models made of four offers: two whose *)
(* order by nominal price turns around with the mix of tokens, one with a  *)
(* small context, two of the top tier.  The length signals saturate at     *)
(* four tokens, so that a few prompts reach every tier from both sides of  *)
(* its threshold, with every pair of keywords.  Budgets and sizes make     *)
(* each offer affordable, too dear and too small for some request.         *)
EXTENDS Router

Offer(t, i, o, c) == [tier |-> t, inPrice |-> i, outPrice |-> o, context |-> c]

MCOffers == {Offer(1, 1, 1, 4), Offer(1, 3, 1, 9), Offer(2, 1, 4, 9),
             Offer(3, 4, 2, 9)}

Prompt(n, k, s, c) == [tokens |-> n, reasoning |-> k, simple |-> s, code |-> c]

MCPrompts ==
    {Prompt(0, 0, FALSE, FALSE), Prompt(4, 0, FALSE, FALSE),
     Prompt(1, 0, TRUE, FALSE), Prompt(1, 0, FALSE, TRUE),
     Prompt(4, 0, TRUE, TRUE), Prompt(1, 1, TRUE, FALSE),
     Prompt(4, 2, TRUE, FALSE), Prompt(1, 3, FALSE, FALSE),
     Prompt(4, 4, TRUE, TRUE)}
MCTasks == {NoTask, Complex}
MCCeilings == {0, 2, 6}
MCBudgets == {0, 5, 12, 40}
=============================================================================
