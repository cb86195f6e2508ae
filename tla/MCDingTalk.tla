---------------------------- MODULE MCDingTalk ------------------------------
\* The instance of DingTalk for TLC: three users, one of whom has two numbers,
\* and a number nobody has, alone in a list.
EXTENDS DingTalk

CONSTANTS u1, u2, u3

MCUser == {u1, u2, u3}
MCUserOf == <<u1, u2, u3, u1, Nobody>>
MCLists == {<<1, 2, 4>>, <<5>>}
MCOwners == {3}
MCDepts == {<<{1}, {2}>>}
=============================================================================
