------------------------------- MODULE MCSchedule -------------------------------
(* Small graphs of targets for TLC. *)
EXTENDS Schedule

Target1(id, deps, needsWork, roots) ==
  [id |-> id, key |-> id, deps |-> deps, needsWork |-> needsWork, roots |-> roots]
Config(workers, startup, default) ==
  [maxWorkers |-> workers, startup |-> startup, default |-> default, maxAge |-> 0]
Request(graph, required, policy) == [targets |-> graph, required |-> required, config |-> policy]

Independent == <<Target1(2, {}, TRUE, {2}), Target1(1, {}, TRUE, {1}), Target1(3, {}, TRUE, {3})>>
\* A base two roots share, and one root that is done.
Shared == <<Target1(3, {1}, TRUE, {3}), Target1(1, {}, TRUE, {2, 3}), Target1(2, {1}, TRUE, {2}),
            Target1(4, {}, FALSE, {4})>>
Diamond == <<Target1(4, {2, 3}, TRUE, {4}), Target1(2, {1}, TRUE, {4}), Target1(3, {1}, TRUE, {4}),
             Target1(1, {}, TRUE, {4, 1})>>
\* Two targets measured under one key, and one that no root needs, on top of the second.
Orphan == <<Target1(1, {}, TRUE, {1}), Target1(2, {}, TRUE, {2}),
            [Target1(3, {2}, TRUE, {}) EXCEPT !.key = 1]>>
NoRoots == <<Target1(1, {}, TRUE, {}), Target1(2, {1}, TRUE, {})>>

Invalid ==
  {<<Target1(1, {}, TRUE, {1}), Target1(1, {}, TRUE, {2})>>, <<Target1(1, {2}, TRUE, {1})>>,
   <<Target1(1, {2}, TRUE, {1}), Target1(2, {1}, TRUE, {2})>>, <<>>}

MCRequests ==
  {Request(g, {}, Config(w, startup, 6)) :
      g \in {Independent, Shared, Diamond}, w \in {1, 2, 3}, startup \in {0, 2}}
  \cup {Request(g, {}, Config(2, 2, 6)) : g \in Invalid \cup {Orphan, NoRoots}}
  \cup {Request(NoRoots, {1}, Config(2, 2, 6)), Request(Shared, {2, 3}, Config(0, 2, 6))}
================================================================================
