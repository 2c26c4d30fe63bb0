-------------------------- MODULE MCCommunityReplay --------------------------
\* Small instance of CommunityReplay: the reporters are interchangeable, so
\* states that differ only by renaming them are one.
EXTENDS CommunityReplay, TLC

ReporterSymmetry == Permutations(Agents)
=============================================================================
