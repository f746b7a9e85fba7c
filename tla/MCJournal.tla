------------------------------ MODULE MCJournal ------------------------------
EXTENDS Journal, TLC
CONSTANTS h1, h2, s1, s2, a, b, c, big, r1, k1, b1

\* No batch is the beginning of another, and what comes before an oversized
\* draft is the beginning of that batch only.
MCBatches == {<<a>>, <<b, c>>, <<c, big>>}
\* An oversized draft after another one.
MCLateBatches == {<<a>>, <<b, big>>}
\* Hosts and streams are interchangeable.
MCSymmetry == Permutations({h1, h2}) \cup Permutations({s1, s2})
MCGuarded == {<<a>>}
MCShares == {<<r1, h1>>}
MCNoShares == {}
=============================================================================
