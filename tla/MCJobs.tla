------------------------------- MODULE MCJobs -------------------------------
EXTENDS Jobs, TLC

CONSTANTS a, once, scanned, s1, s2, c1

SeedA == [cfg \in Configs |-> {a}]
==============================================================================
