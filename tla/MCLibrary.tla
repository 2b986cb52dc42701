----------------------------- MODULE MCLibrary -----------------------------
(***************************************************************************)
(* The library on small inputs: a pool with every kind of resource, and    *)
(* the values, texts, messages and URIs whose cases differ.                *)
(***************************************************************************)
EXTENDS Library

RoleA == <<"a">>
RoleAB == <<"a", "b">>
RoleC == <<"c">>

Dynamic(role) == [kind |-> "DYNAMIC", role |-> role, principal |-> <<"p">>,
                  labels |-> <<>>]
For(r, resv) == [r EXCEPT !.resv = resv]
Range1(b, e) == [b |-> b, e |-> e]

\* 0.0015 and 0.002 CPUs are both two thousandths; 0.0004 is none
Cpu == Plain("cpus", "SCALAR", 20)
HalfCpu == Plain("cpus", "SCALAR", 15)
CpuA == For(Cpu, <<Dynamic(RoleA)>>)
CpuAB == For(Cpu, <<Dynamic(RoleA), Dynamic(RoleAB)>>)
TwoCpus == Plain("cpus", "SCALAR", 40)
SpareCpu == [Cpu EXCEPT !.revocable = TRUE]
Crumb == Plain("cpus", "SCALAR", 4)
Ports == Plain("ports", "RANGES", <<Range1(0, 0), Range1(2, 3)>>)
Port1 == Plain("ports", "RANGES", <<Range1(1, 2)>>)
Port1A == For(Port1, <<Dynamic(RoleA)>>)
Tags == Plain("tags", "SET", <<<<1>>, <<2>>>>)
Tag == Plain("tags", "SET", <<<<2>>>>)
TagA == For(Tag, <<Dynamic(RoleA)>>)

Disk == Plain("disk", "SCALAR", 2 * Unit)
DiskA == For(Disk, <<Dynamic(RoleA)>>)
Info(source, id) == [source |-> source, persistence |-> id]
Mount == <<[type |-> "MOUNT", path |-> <<>>, mount |-> <<<<"m">>>>]>>
MountDisk == [Disk EXCEPT !.disk = <<Info(Mount, <<>>)>>]
Volume == [DiskA EXCEPT !.disk = <<Info(<<>>, <<"v">>)>>]
HalfVolume == [Volume EXCEPT !.val = Unit]
SharedVolume == [Volume EXCEPT !.shared = TRUE]
MountVolume == [MountDisk EXCEPT !.disk = <<Info(Mount, <<"w">>)>>]

McStock ==
    {Make(<<Cpu, Ports, Tags, Disk>>), Make(<<CpuA, HalfCpu, Port1A, DiskA, Volume>>),
     Make(<<CpuAB, Cpu, DiskA, DiskA, SharedVolume, MountDisk>>)}
McParcels == {Cpu, HalfCpu, TwoCpus, Crumb, CpuAB, SpareCpu, Port1, Tag, DiskA,
              MountDisk, Volume, SharedVolume}
Op(type, resources) == [type |-> type, resources |-> resources]
McOperations ==
    {Op(type, <<r>>) : type \in {"RESERVE", "UNRESERVE"},
                       r \in {CpuA, CpuAB, Port1A, TagA, DiskA}}
    \cup {Op(type, <<r>>) : type \in {"CREATE", "DESTROY"},
                            r \in {Volume, SharedVolume, MountVolume}}
    \cup {Op("RESERVE", <<CpuA, CpuAB>>)}
McTargets == {Cpu, CpuA, For(Plain("cpus", "SCALAR", 40), <<Dynamic(RoleAB)>>),
              Port1, Disk, HalfVolume}

--------------------------------------------------------------------------
McTop == 4
McRanges == {<<r>> : r \in {x \in [b : 0 .. McTop, e : 0 .. McTop] : x.b <= x.e}}
McRangesPairs == McRanges \cup {a \o b : a \in McRanges, b \in McRanges}
McFewRanges == {a \in McRangesPairs : Len(a) = 2 => a[1].b = a[1].e /\ a[2].b = a[2].e}
McSets == {<<>>, <<"x">>, <<"y">>, <<"x", "y">>, <<"y", "x">>, <<"x", "z">>,
           <<"z", "y", "x">>}
McScalars == {-20, -5, 0, 4, 5, 14, 15, 20, 9996, 10000}

Note == [kind |-> "unset", role |-> <<>>, principal |-> <<"p">>, labels |-> <<>>]
OptionalRoles == {<<>>} \cup {<<x>> : x \in {Star, RoleA, RoleAB, <<"a", "">>,
                                           <<"-a">>, <<"a", "*">>}}
Layers == {Static(RoleA), Dynamic(RoleA), Dynamic(RoleAB), Dynamic(RoleC),
           Dynamic(Star)}
McWire ==
    {[Cpu EXCEPT !.role = role, !.reservation = res, !.resv = stack] :
        role \in OptionalRoles, res \in {<<>>, <<Note>>},
        stack \in UNION {[1 .. n -> Layers] : n \in 0 .. 2}}

--------------------------------------------------------------------------
Item(name, parens, role, text) ==
    [pieces |-> 2, name |-> name, parens |-> parens, role |-> role,
     text |-> text]
Word(w) == [k |-> "word", n |-> w]
McItems ==
    {Item("cpus", "none", Star, <<Whole(2)>>),
     Item("cpus", "matched", RoleA, <<[k |-> "dec", n |-> 15]>>),
     Item("cpus", "none", Star, <<Lexeme("["), Whole(1), Lexeme("-"), Whole(2),
                                  Lexeme("]")>>),
     Item("ports", "none", Star, PrintRanges(<<Range1(1, 2), Range1(3, 3)>>)),
     Item("ports", "none", Star, PrintRanges(<<Range1(2, 3)>>)),
     Item("tags", "none", Star, <<Lexeme("{"), Word(1), Lexeme(","), Word(2),
                                  Lexeme("}")>>),
     Item("tags", "none", Star, <<Lexeme("{"), Word(2), Lexeme("}")>>),
     Item("cpus", "mismatched", RoleA, <<Whole(1)>>),
     Item("cpus", "none", Star, <<Word(1)>>),
     Item("cpus", "none", Star, <<Lexeme("-"), Whole(1)>>)}
Text(json, array, items) == [json |-> json, array |-> array, items |-> items]
McTexts ==
    {Text(FALSE, <<>>, <<a, b>>) : a \in McItems, b \in McItems}
    \cup {Text(FALSE, <<>>, <<[a EXCEPT !.pieces = 3]>>) : a \in McItems}
    \cup {Text(TRUE, <<<<a>>>>, <<>>) : a \in {Cpu, CpuA, Volume, Tags}}
    \cup {Text(TRUE, <<>>, <<>>)}

Attr(colon, name, text) == [colon |-> colon, name |-> name, text |-> text]
McPairs ==
    {Attr(TRUE, "n", <<Whole(2)>>), Attr(TRUE, "n", <<[k |-> "dec", n |-> 15]>>),
     Attr(TRUE, "m", <<Lexeme("-"), Whole(2)>>), Attr(TRUE, "os", <<Word(1)>>),
     Attr(TRUE, "p", PrintRanges(<<Range1(2, 3), Range1(1, 1)>>)),
     Attr(TRUE, "p", <<Lexeme("["), Whole(1)>>),
     Attr(TRUE, "s", <<Lexeme("{"), Word(1), Lexeme("}")>>),
     Attr(FALSE, "x", <<>>), Attr(TRUE, "", <<Whole(1)>>), Attr(TRUE, "x", <<>>)}
McAttributes == UNION {[1 .. n -> McPairs] : n \in 1 .. 3}

--------------------------------------------------------------------------
(* A message, and messages that differ from it in one field *)

Uri(v) == [value |-> v, executable |-> FALSE, extract |-> TRUE]
Pair(key) == [key |-> key, value |-> 1]
Variable(name) == [name |-> name, value |-> 1]
Orders(x, y) == {<<x, y>>, <<y, x>>, <<x>>}
Docker == [portMappings |-> <<1, 2>>, parameters |-> <<Pair("k"), Pair("l")>>,
           rest |-> 0]
Executor0 ==
    [type |-> <<>>, resources |-> <<Cpu, HalfCpu>>,
     command |-> [uris |-> <<Uri("u"), Uri("v")>>, arguments |-> <<"x", "y">>,
                  environment |-> <<Variable("e"), Variable("f")>>, rest |-> 0],
     container |-> [volumes |-> <<1, 2>>, docker |-> Docker, rest |-> 0],
     discovery |-> [ports |-> <<1, 2>>, labels |-> <<Pair("k"), Pair("l")>>,
                    rest |-> 0],
     rest |-> 0]
Task0 == [statuses |-> <<1, 2>>, resources |-> <<Cpu, Ports>>,
          labels |-> <<Pair("k")>>, discovery |-> Executor0.discovery, rest |-> 0]
Attribute(name, val) == [name |-> name, type |-> "SCALAR", val |-> val,
                         has |-> {"SCALAR"}]
Slave0 == [resources |-> <<Ports>>, rest |-> 0,
           attributes |-> <<Attribute("n", 10), Attribute("m", 20)>>]
Message0 == [executor |-> Executor0, task |-> Task0, slave |-> Slave0,
             group |-> <<1, 2>>]
McMessages ==
    {[Message0 EXCEPT !.executor.type = t] : t \in {<<>>, <<"CUSTOM">>, <<"DEFAULT">>}}
    \cup {[Message0 EXCEPT !.executor.resources = rs] :
            rs \in {<<HalfCpu, Cpu>>, <<Plain("cpus", "SCALAR", 40)>>, <<Cpu, CpuA>>}}
    \cup {[Message0 EXCEPT !.executor.command.uris = us] :
            us \in Orders(Uri("u"), Uri("v"))}
    \cup {[Message0 EXCEPT !.executor.command.arguments = as] :
            as \in Orders("x", "y")}
    \cup {[Message0 EXCEPT !.executor.command.environment = vs] :
            vs \in Orders(Variable("e"), Variable("f"))}
    \cup {[Message0 EXCEPT !.executor.container.volumes = vs] : vs \in Orders(1, 2)}
    \cup {[Message0 EXCEPT !.executor.container.docker.portMappings = ps] :
            ps \in Orders(1, 2)}
    \cup {[Message0 EXCEPT !.executor.container.docker.parameters = ps] :
            ps \in Orders(Pair("k"), Pair("m"))}
    \cup {[Message0 EXCEPT !.executor.discovery.ports = ps] : ps \in Orders(2, 3)}
    \cup {[Message0 EXCEPT !.task.statuses = ss] : ss \in Orders(1, 2)}
    \cup {[Message0 EXCEPT !.task.labels = ls] : ls \in Orders(Pair("k"), Pair("l"))}
    \cup {[Message0 EXCEPT !.task.rest = 1], [Message0 EXCEPT !.slave.rest = 1]}
    \cup {[Message0 EXCEPT !.slave.attributes = as] :
            as \in Orders(Attribute("m", 20), Attribute("n", 10))
                   \cup {<<Attribute("n", 10), Attribute("m", 30)>>}}
    \cup {[Message0 EXCEPT !.group = g] : g \in Orders(2, 1)}

--------------------------------------------------------------------------
McArchive == {"x.tar", "c-x.tar"}
Link(scheme, path) == [legal |-> TRUE, scheme |-> scheme, path |-> path]
McUris == {Link("http", <<"h", "x.tar">>), Link("hdfs", <<"h", "d", "run">>),
           Link("file", <<"", "x.tar">>), Link("", <<"run">>),
           Link("http", <<"h">>), [Link("", <<"run">>) EXCEPT !.legal = FALSE]}
CacheName == [x \in {"x.tar", "run"} |-> IF x = "run" THEN "c-run" ELSE "c-x.tar"]
FetchItem(uri, executable, extract, action, fails) ==
    [uri |-> uri, executable |-> executable, extract |-> extract,
     action |-> action, fails |-> fails,
     cacheFile |-> IF action = "BYPASS_CACHE" \/ Basename(uri) = <<>> THEN <<>>
                   ELSE <<CacheName[Basename(uri)[1]]>>]
Actions == {"BYPASS_CACHE", "DOWNLOAD_AND_CACHE", "RETRIEVE_FROM_CACHE"}
FirstItems ==
    {FetchItem(uri, executable, ~executable, action, fails) :
        uri \in McUris, executable \in BOOLEAN, action \in Actions,
        fails \in {{}, {"copy"}, {"net"}, {"hadoop"}, {"extract"}, {"chmod"}, {"mkdir"}}}
SecondItems ==
    {FetchItem(uri, FALSE, extract, action, {}) :
        uri \in McUris, extract \in BOOLEAN, action \in Actions}
\* the fetcher's cache knows a file by the URI it was downloaded from
CacheOf(item) ==
    IF item.action # "RETRIEVE_FROM_CACHE" \/ item.cacheFile = <<>> THEN {}
    ELSE {[name |-> item.cacheFile[1], from |-> item.uri, exec |-> FALSE]}
McInfos ==
    {[items |-> <<a, b>>, cache |-> CacheOf(a), cacheDirectory |-> TRUE,
      frameworksHome |-> <<"home">>, user |-> <<"u">>, chownFails |-> FALSE] :
        a \in FirstItems, b \in {x \in SecondItems : x.action # "RETRIEVE_FROM_CACHE"}}
    \cup {[items |-> <<a>>, cache |-> {}, cacheDirectory |-> FALSE,
           frameworksHome |-> <<>>, user |-> <<"u">>, chownFails |-> TRUE] :
            a \in SecondItems}

McInputs(kind) ==
    CASE kind = "ranges" ->
            {[kind |-> kind, a |-> x, b |-> y] : x \in McRangesPairs, y \in McFewRanges}
      [] kind = "sets" -> {[kind |-> kind, s |-> x, t |-> y] : x \in McSets, y \in McSets}
      [] kind = "scalars" ->
            {[kind |-> kind, c |-> x, d |-> y] : x \in McScalars, y \in McScalars}
      [] kind = "wire" -> {[kind |-> kind, r |-> r] : r \in McWire}
      [] kind = "command line" ->
            {[kind |-> kind, text |-> text, role |-> role] :
                text \in McTexts, role \in {Star, RoleC}}
      [] kind = "attributes" -> {[kind |-> kind, pairs |-> ps] : ps \in McAttributes}
      [] kind = "messages" ->
            {[kind |-> kind, l |-> l, r |-> r] : l \in McMessages, r \in McMessages}
      [] kind = "fetch" -> {[kind |-> kind, info |-> info] : info \in McInfos}
=============================================================================
