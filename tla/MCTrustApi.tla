---------------------------- MODULE MCTrustApi ----------------------------
(***************************************************************************)
(* One actor, one key, two requests at a time, a cache of two entries and  *)
(* windows of one and two seconds.                                         *)
(***************************************************************************)
EXTENDS TrustApi

MCTtl == [trust |-> 1, history |-> 0, leaderboard |-> 1, status |-> 0]
MCLimit == [ip_sec |-> 2, ip_min |-> 3, actor |-> 1]
MCWindow == [ip_sec |-> 0, ip_min |-> 1, actor |-> 1]
=============================================================================
