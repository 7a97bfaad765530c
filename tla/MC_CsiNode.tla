----------------------------- MODULE MC_CsiNode -----------------------------
EXTENDS CsiNode, TLC

CONSTANTS f1, f2, f3, s1, s2, s3

MCFiles == {f1, f2}
MCThreeFiles == {f1, f2, f3}
MCOneSlot == {s1}
MCTwoSlots == {s1, s2}
MCThreeSlots == {s1, s2, s3}
=============================================================================
