--------------------------- MODULE MCStreamManager ---------------------------
EXTENDS StreamProperties, TLC

CONSTANTS p1, p2, p3, m1, m2, ann, bob, news, s1, s2

OneUser == [r \in Plays |-> ann]
TwoUsers == [r \in Plays |-> IF r = p1 THEN ann ELSE bob]
Returning == [r \in Plays |-> IF r = p2 THEN bob ELSE ann]
OneRoute == [r \in Plays |-> news]
OneMac == news :> {<<s1, m1>>}
TwoMacs == news :> {<<s1, m1>>, <<s1, m2>>}
MixedChain == news :> {<<s1, m1>>, <<s2, m1>>}
Single == [m \in Macs |-> 1]
NoLimit == [u \in Users \cup {Anon} |-> 0]
OneEach == [u \in Users \cup {Anon} |-> IF u = Anon THEN 0 ELSE 1]
===============================================================================
