------------------------------ MODULE MCNetwork ------------------------------
(* Small instances for TLC of the two network drivers that share no state,  *)
(* DashScope and HttpDriver: a behaviour is one of theirs, and the other    *)
(* stays as it is.                                                          *)
EXTENDS DashScope, HttpDriver

CONSTANTS i0, i1, i2, i3, i4, i5, x, sp

VARIABLE part

MCIdLen == [id \in Ids |-> 1]
\* Two sentences in a row say the same, the third is blank.
MCSays == <<<<x>>, <<x>>, <<sp>>, <<x>>>>
MCName == [k \in 0..5 |-> <<i0, i1, i2, i3, i4, i5>>[k + 1]]

networkVars == <<part, vars, httpVars>>
InDashScope(A) == part = "dashscope" /\ A /\ UNCHANGED <<part, httpVars>>
InHttp(A) == part = "http" /\ A /\ UNCHANGED <<part, vars>>

NetworkInit ==
    /\ part \in {"dashscope", "http"}
    /\ DashScopeInit /\ HttpInit
    /\ part # "http" => ~utterances /\ ~sse
NetworkNext == InDashScope(DashScopeNext) \/ InHttp(HttpNext)
\* The fairness of FairDashScopeSpec and FairHttpSpec.
NetworkSpec ==
    /\ NetworkInit /\ [][NetworkNext]_networkVars
    /\ WF_networkVars(InDashScope(DriverGoesOn))
    /\ WF_networkVars(InDashScope(ServerReads)) /\ WF_networkVars(InDashScope(ServerFinishes))
    /\ WF_networkVars(InHttp(HttpStep)) /\ WF_networkVars(InHttp(RunTimesOut))
    /\ WF_networkVars(InHttp(Signal))
===============================================================================
