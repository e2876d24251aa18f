----------------------------- MODULE MCPolling -----------------------------
(* Instances of Polling and SerialPolling for TLC: the answers of the       *)
(* resolver.                                                                *)
EXTENDS SerialPolling, TLC

CONSTANTS h0, h1, t1, t2

\* A mapping lists t1; under h1 another one boots it by default.
OnlyT1 ==
  [<<m, h>> \in Mac \X Hostname |->
     [auto |-> IF h = h0 THEN InitTarget ELSE t1, allowed |-> {t1}]]

\* Without a host name the host is unmatched and may get any target; under
\* h1 a hostname mapping boots t1 by default.
MatchedByName ==
  [<<m, h>> \in Mac \X Hostname |->
     IF h = h1 THEN [auto |-> t1, allowed |-> {t1}]
     ELSE [auto |-> InitTarget, allowed |-> Target]]

\* The goroutines that serve polls are interchangeable.
Slots == Permutations(Poller)
=============================================================================
