------------------------------ MODULE MCRuntime ------------------------------
(* Three calls on two loops, through two scopes that set one slot.          *)
EXTENDS Runtime
CONSTANTS t1, t2, t3, l1, l2, s1
MCTasks == {t1, t2, t3}
MCLoops == {l1, l2}
MCSlots == {s1}
MCSlotOf == <<s1, s1>>
MCConcurrency == {1, 2, Unlimited}

Made(mode, loop) == [mode |-> mode, loop |-> loop]

\* The calls of one loop are all made in the same way.
MCUnmixed ==
  {[t \in MCTasks |-> Made("arun", l1)],
   [t \in MCTasks |-> Made("run", l1)],
   [t \in MCTasks |-> IF t = t3 THEN Made("arun", l2) ELSE Made("arun", l1)],
   [t \in MCTasks |-> IF t = t3 THEN Made("run", l2) ELSE Made("arun", l1)],
   [t \in MCTasks |-> IF t = t3 THEN Made("arun", l2) ELSE Made("run", l1)]}

=============================================================================
