------------------------------ MODULE MCDriver ------------------------------
EXTENDS Driver

MCConfigs == <<"cheney", "baseline">>
MCPairs == <<"churn">>

\* Two of the eight seeds of matrix.json. "..._s1" is how "..._s13" begins.
MCConfig == <<"cheney">>
MCSeeds == <<"churn_s1", "churn_s13">>
MCShorter == {<<"churn_s1", "churn_s13">>}
=============================================================================
