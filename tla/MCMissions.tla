------------------------------ MODULE MCMissions ------------------------------
(* Small instances of Missions: the plans the planner is allowed to return.  *)
EXTENDS Missions, TLC

Step(deps, risky) == [deps |-> deps, risky |-> risky]

\* One safe step.
OneSafe == {<<Step({}, FALSE)>>}
\* A chain of a safe and a risky step, and a risky one at once with the first.
ChainAndRisky == {<<Step({}, FALSE), Step({1}, TRUE), Step({}, TRUE)>>}
\* Two risky steps, independent or in a chain; or that.
RiskyPlans == {<<Step({}, TRUE), Step({}, TRUE)>>, <<Step({}, TRUE), Step({1}, TRUE)>>}
              \cup ChainAndRisky
\* Three steps: two at once and a risky one after the first; or that.
ThreeSteps == {<<Step({}, FALSE), Step({}, FALSE), Step({1}, TRUE)>>} \cup ChainAndRisky
\* What a replan may bring: a safe chain, or one risky step.
TwoSteps == {<<Step({}, FALSE), Step({1}, FALSE)>>, <<Step({}, TRUE)>>}
NoPlan == {}
\* No request tells the two clients apart.
Clients == Permutations(Client)
=============================================================================
