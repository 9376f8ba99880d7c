---------------------------- MODULE MC_PoolSessions ----------------------------
(* The pool and handle ownership of PoolConn and the session registry of  *)
(* Sessions in one run, as a sum: the registry moves only while PoolConn  *)
(* is at Init, and PoolConn only while the registry is at SessInit, so     *)
(* each is checked with the other's state fixed.  PoolConn's own          *)
(* specification has no fairness; the registry's fairness is restated for *)
(* the steps it takes in the sum.                                         *)
EXTENDS MC_PoolConn, Sessions

CONSTANTS k1, k2

MCClients == {k1, k2}

\* k2 runs a multiple-statement transaction, k1 single statements.
MCMultiClients == {k2}

MCInit == Init /\ SessInit

\* A step of PoolConn while the registry is at SessInit, and a step of the
\* registry while PoolConn is at Init.
PoolStep(A) == SessInit /\ A /\ UNCHANGED regVars
SessStep(A) == Init /\ A /\ UNCHANGED vars

MCNext ==
    \/ PoolStep(Next)
    \/ \E c \in Clients :
          \/ SessStep(SessionsAdd(c)) \/ SessStep(Create(c))
          \/ SessStep(BindingLookup(c)) \/ SessStep(BindingSet(c))
          \/ SessStep(UnBindingFinish(c)) \/ SessStep(MultiCommit(c))
          \/ SessStep(ClientQuit(c)) \/ SessStep(SessionsRemove(c))
          \/ SessStep(SessionsKill(c)) \/ SessStep(CloseOne(c))
    \/ SessStep(CloseStart) \/ SessStep(CloseRoundEnd) \/ SessStep(SessQuiescent)

MCFairness ==
    /\ \A c \in Clients : SF_<<vars, regVars>>(SessStep(HandlerStep(c)))
    /\ \A c \in Clients : WF_<<vars, regVars>>(SessStep(CloseOne(c)))
    /\ WF_<<vars, regVars>>(SessStep(shut # "no" /\ CloseStart))
    /\ WF_<<vars, regVars>>(SessStep(CloseRoundEnd))

MCSpec == MCInit /\ [][MCNext]_<<vars, regVars>> /\ MCFairness
=============================================================================
