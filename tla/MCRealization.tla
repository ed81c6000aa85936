------------------------------ MODULE MCRealization ------------------------------
(* A flake of four derivations, and what is asked of it, for TLC. *)
EXTENDS Realization, TLC

\* base, lib and app, each built from the one before, and one apart.
MCWorld ==
  1 :> [deps |-> <<>>, outs |-> "out" :> Path(1, "out")] @@
  2 :> [deps |-> 1 :> {"out"}, outs |-> "out" :> Path(2, "out")] @@
  3 :> [deps |-> 2 :> {"out"}, outs |-> [o \in {"out", "dev"} |-> Path(3, o)]] @@
  4 :> [deps |-> <<>>, outs |-> "out" :> Path(4, "out")]

MCFlake ==
  1 :> [drv |-> 3, outs |-> {"out", "dev"}, install |-> {"out"}] @@
  2 :> [drv |-> 2, outs |-> {"out"}, install |-> {"out"}] @@
  3 :> [drv |-> 3, outs |-> {"out", "dev"}, install |-> {"dev"}]

MCSize == <<2, 2, 1>>

Everything == UNION {PathsOf(d, DOMAIN MCWorld[d].outs) : d \in DOMAIN MCWorld}
MCStores == {PathsOf(1, {"out"}), Everything}
MCCaches == <<"c1", "c2">>
MCRemote == "c1" :> PathsOf(3, {"dev"}) @@ "c2" :> PathsOf(2, {"out"}) \cup PathsOf(3, {"out"})
MCAppContexts == {<<>>, 3 :> {}, 1 :> {"out"} @@ 2 :> {"out"} @@ 3 :> {"dev"},
                  [d \in 1..4 |-> {"out"}]}

--------------------------------------------------------------------------------

Field(key, value) == [key |-> key, value |-> value]
Node(d, fields) == [kind |-> "derivation", key |-> d, value |-> fields, torn |-> "none"]
TornAs(member, code) == [member EXCEPT !.torn = code]
Version == [kind |-> "version", key |-> 0, value |-> Scalar, torn |-> "none"]
Wrapper(members) == [kind |-> "derivations", key |-> 0, value |-> members, torn |-> "none"]
Out(d, o) == Field(o, Path(d, o))
Outs(d, outs) == Field("outputs", [i \in DOMAIN outs |-> Out(d, outs[i])])
Needs(key, d, outs) == Field(key, <<Field(d, outs)>>)

Base == Node(1, <<Outs(1, <<"out">>)>>)
Lib == Node(2, <<Needs("inputs", 1, <<"out">>), Outs(2, <<"out">>)>>)
App == Node(3, <<Field("env", Scalar), Outs(3, <<"out", "dev">>),
                 Needs("inputDrvs", 2, <<"out">>)>>)
BadApp == Node(3, <<Needs("inputDrvs", 2, <<>>), Outs(3, <<"out", "dev">>)>>)
LibOf(outs) == Node(2, <<Needs("inputs", 1, outs), Outs(2, <<"out">>)>>)

Accepted ==
  {<<Base, Lib, App>>,
   <<Version, BadApp, Base, Wrapper(<<App, Version, Lib, Base>>), BadApp>>}

\* The outputs of app are not known before it is built.
Unknowable ==
  <<Base, Lib, Node(3, <<Field("outputs", <<Field("out", NoPath), Field("dev", NoPath)>>),
                         Field("inputs", NoPath), Needs("inputDrvs", 2, <<"out">>)>>)>>

\* What is read in an unusual form and still means the same, or a graph of its own.
Unusual ==
  {<<Wrapper(<<Base>>), Wrapper(<<Lib, Base, App>>)>>,
   <<App, LibOf(<<"out", "out">>), Base>>,
   <<Base, Node(2, <<Needs("inputDrvs", 1, <<"dev">>), Field("outputs", <<Field("out", NoPath)>>),
                     Outs(2, <<"out">>),
                     Needs("inputs", 1, <<"out">>)>>)>>,
   Unknowable}

Refused ==
  {Scalar, <<>>, <<Wrapper(Scalar)>>, <<Base, Lib, BadApp>>, <<Node(1, Scalar)>>,
   <<Base, TornAs(Lib, "invalid_graph_json"), App>>,
   <<Base, TornAs(Lib, "graph_stream_read_failed")>>,
   <<TornAs(BadApp, "invalid_graph_json")>>, <<BadApp, TornAs(Base, "invalid_graph_json")>>,
   <<TornAs(Version, "graph_stream_read_failed")>>,
   <<Wrapper(<<TornAs(Base, "invalid_graph_json")>>)>>,
   <<TornAs(Wrapper(<<Base, Lib, App>>), "invalid_graph_json")>>,
   <<Base, Base, Lib, App>>, <<Base, Lib, App, Node(4, <<Outs(4, <<"out">>)>>)>>,
   <<Lib, App>>, <<Base>>, <<App, Wrapper(<<Base, Lib>>)>>, <<Base, LibOf(<<"dev">>), App>>,
   <<Node(1, <<Outs(1, <<"out">>), Needs("inputs", 2, <<"out">>)>>), Lib, App>>,
   <<LibOf(Scalar)>>, <<LibOf(<<LongName>>)>>, <<LibOf(<<EmptyName>>)>>,
   <<Node(2, <<Needs("inputs", LongName, <<"out">>)>>)>>,
   <<Node(1, <<Field("outputs", <<Field(EmptyName, NoPath)>>)>>)>>,
   <<Node(1, <<Field("outputs", <<Field("out", Scalar)>>)>>)>>,
   <<Node(1, <<Field("outputs", <<Field("out", LongName)>>)>>)>>}

--------------------------------------------------------------------------------

Asked(kind, targets, outLink) == [kind |-> kind, targets |-> targets, outLink |-> outLink]
Config(mode, rebuild, skipCached, allOutputs) ==
  [graphMode |-> mode, rebuild |-> rebuild, skipCached |-> skipCached, allOutputs |-> allOutputs]
Plain == Config("Automatic", FALSE, FALSE, FALSE)
Complete1 == Config("Complete", FALSE, FALSE, FALSE)
Rebuild == Config("Automatic", TRUE, FALSE, FALSE)
SkipCached == Config("Automatic", FALSE, TRUE, FALSE)

Scenarios ==
  {<<Asked("named", <<1>>, FALSE), Plain>>, <<Asked("named", <<1>>, TRUE), Plain>>,
   <<Asked("named", <<2, 1, 3, 2>>, FALSE), Rebuild>>,
   <<Asked("named", <<2, 1>>, FALSE), Config("Automatic", FALSE, FALSE, TRUE)>>,
   <<Asked("named", <<3, 1>>, FALSE), Plain>>, <<Asked("named", <<3, 1>>, FALSE), SkipCached>>,
   <<Asked("named", <<1, 2>>, FALSE), Complete1>>,
   <<Asked("named", <<>>, FALSE), Plain>>,
   <<Asked("named", <<0, 1>>, FALSE), Plain>>, <<Asked("named", <<1, 2, 3, 4>>, FALSE), Plain>>,
   <<Asked("app", <<1>>, FALSE), Plain>>, <<Asked("app", <<0>>, FALSE), Plain>>,
   <<Asked("app", <<1>>, FALSE), SkipCached>>,
   <<Asked("flakeCheck", <<2>>, FALSE), Complete1>>, <<Asked("discover", <<1>>, FALSE), Plain>>}

MCRequests == {s[1] : s \in Scenarios}
\* Where the graph is read after a failed build, a few documents stand for all.
MCDocuments ==
  [r \in MCRequests |->
     IF r.kind = "named" /\ r.targets # <<1>>
       THEN {<<Base, Lib, App>>, Unknowable, <<Lib, App>>,
             <<Base, TornAs(Lib, "graph_stream_read_failed")>>}
       ELSE Accepted \cup Unusual \cup Refused]
MCConfigs == {s[2] : s \in Scenarios}

\* A request for everything and one that skips what is cached start from one store each.
MCInit ==
  /\ Init
  /\ <<request, config>> \in Scenarios
  /\ request.kind = "named" /\ request.targets = <<>> => store = Everything
  /\ config.skipCached => store # Everything
MCSpec == MCInit /\ [][Next]_vars
================================================================================
