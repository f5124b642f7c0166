-------------------------- MODULE SmallRepositories --------------------------
(***************************************************************************)
(* Small repositories: every combination of what a TypeScript file, a      *)
(* Python file and the artefacts beside them may hold, so that the two     *)
(* analysers and the readers meet in one node wherever they can.           *)
(***************************************************************************)
EXTENDS PythonImports

Ts == "a.ts"
Py == "b.py"

-----------------------------------------------------------------------------
(* What the analysers find *)

Nothing ==
  [declarations |-> <<>>, relationships |-> <<>>, externalCalls |-> <<>>, routes |-> <<>>,
   reads |-> <<>>, calls |-> <<>>, unbound |-> <<>>, unresolved |-> <<>>, requests |-> <<>>,
   roles |-> <<>>]

Decl(file, chain, kind, at) == [file |-> file, chain |-> chain, kind |-> kind, at |-> at]
A   == SymbolId(Ts, <<"A">>)
A_m == SymbolId(Ts, <<"A", "m">>)
P_f == SymbolId(Py, <<"f">>)

Nested   == <<Decl(Ts, <<"A">>, "Class", <<1>>), Decl(Ts, <<"A", "m">>, "Method", <<2, 3>>),
              Decl(Ts, <<"A", "m", "g">>, "Function", <<4>>)>>
Dotted   == <<Decl(Ts, <<"A">>, "Class", <<1>>), Decl(Ts, <<"A", "m">>, "Method", <<2>>),
              Decl(Ts, <<"N", "B">>, "Namespace", <<5>>), Decl(Ts, <<"N", "B", "f">>, "Function", <<6>>),
              Decl(Ts, <<"N", "B", "f", "x">>, "Variable", <<7>>)>>

Package(name) == [origin |-> "package", ecosystem |-> None, name |-> name]
Os == [origin |-> "standard-library", ecosystem |-> "python", name |-> <<"os">>]
Fs == [origin |-> "standard-library", ecosystem |-> "npm", name |-> <<"node:", "fs">>]
Builtin == [origin |-> "language-builtin", ecosystem |-> None, name |-> <<>>]
Outside == [origin |-> "outside-analysis", ecosystem |-> None, name |-> <<>>]

Relation(type, source, target, external, name, confidence, file, at) ==
  [type |-> type, source |-> source, target |-> target, external |-> external, name |-> name,
   confidence |-> confidence, home |-> FileId(file), at |-> at]
CallOf(source, target, name, confidence, file, at) ==
  [source |-> source, target |-> target, name |-> name, confidence |-> confidence,
   home |-> FileId(file), at |-> at]
RouteOf(method, path, handlers, confidence, file, at) ==
  [method |-> method, path |-> path, handlers |-> handlers, confidence |-> confidence,
   source |-> FileId(file), home |-> FileId(file), at |-> at]
ReadOf(name, source, confidence, file, at) ==
  [name |-> name, source |-> source, confidence |-> confidence, home |-> FileId(file), at |-> at]
RequestOf(method, path, source, file, at) ==
  [method |-> method, path |-> path, source |-> source, home |-> FileId(file), at |-> at]
Handler(target, name) == [target |-> target, name |-> name]

\* Externals: none, one that is imported, one that is imported and called with more certainty.
TsExternals ==
  {<<<<>>, <<>>>>,
   <<<<Relation("IMPORTS", FileId(Ts), Package(<<"express">>), TRUE, <<"e">>, "INFERRED", Ts, 10),
       Relation("EXTENDS", A, Outside, TRUE, <<"Base">>, "RESOLVED", Ts, 11)>>, <<>>>>,
   <<<<Relation("IMPORTS", FileId(Ts), Package(<<"express">>), TRUE, <<"e">>, "INFERRED", Ts, 10),
       Relation("IMPORTS", FileId(Ts), Fs, TRUE, <<>>, "RESOLVED", Ts, 12)>>,
     <<CallOf(A_m, Package(<<"express">>), <<"e">>, "RESOLVED", Ts, 13),
       CallOf(FileId(Ts), Builtin, <<"parse">>, "CERTAIN", Ts, 14)>>>>}

\* Served and requested: slashes, parameters, a handler given twice and one not linked; a path
\* with an empty segment inside.
TsServing ==
  {[routes |-> <<>>, reads |-> <<>>,
    requests |-> <<RequestOf(None, <<"", "users", "123">>, A_m, Ts, 20),
                   RequestOf("POST", <<"", "users">>, FileId(Ts), Ts, 21),
                   RequestOf(None, <<"https:", "", "users">>, A_m, Ts, 22)>>],
   [routes |-> <<RouteOf("GET", <<"", "users", "">>, <<Handler(A_m, <<"m">>), Handler(A_m, <<"n">>),
                                                      Handler(None, <<"() =>">>)>>, "INFERRED", Ts, 23)>>,
    reads |-> <<ReadOf(<<"URL">>, A_m, "CERTAIN", Ts, 24), ReadOf(<<"MY-VAR">>, FileId(Ts), "CERTAIN", Ts, 25)>>,
    requests |-> <<RequestOf("GET", <<"", "users", "">>, A_m, Ts, 26),
                   RequestOf("PUT", <<"", "users", ":id">>, A_m, Ts, 27)>>],
   [routes |-> <<RouteOf("ALL", <<"", "users", "", "<id>">>, <<>>, "RESOLVED", Ts, 28)>>, reads |-> <<>>,
    requests |-> <<RequestOf("PUT", <<"", "users", ":id">>, A_m, Ts, 27)>>]}

Typescript(declarations, externals, serving) ==
  [Nothing EXCEPT
     !.declarations = declarations, !.relationships = externals[1], !.externalCalls = externals[2],
     !.routes = serving.routes, !.reads = serving.reads, !.requests = serving.requests,
     !.calls = <<CallOf(A_m, A, <<"A">>, "RESOLVED", Ts, 30)>>,
     !.unbound = <<[source |-> FileId(Ts), name |-> <<"setup">>, home |-> FileId(Ts), at |-> 31]>>,
     !.roles = <<[node |-> A, role |-> "Service"], [node |-> A, role |-> "Service"]>>]

TypescriptAnalyses == {Typescript(d, x, s) : d \in {Nested, Dotted}, x \in TsExternals, s \in TsServing}

\* Import statements: of the standard library once and twice, of a package, and of a module of
\* the repository by names of which one is written twice and one is not there.
Modules == [m \in {<<"m">>} |-> [file |-> Py, declared |-> {"f"}]]
Named(name) == [name |-> name, alias |-> name]
Import(names) == [file |-> Py, at |-> 40, from |-> None, names |-> [i \in DOMAIN names |-> Named(names[i])]]
From(module, names) == [file |-> Py, at |-> 41, from |-> module, names |-> [i \in DOMAIN names |-> Named(names[i])]]
Statements ==
  {<<Import(<<<<"os">>, <<"dash">>>>)>>,
   <<Import(<<<<"os">>, <<"os", "path">>>>)>>,
   <<From(<<"m">>, <<"f", "html", "html">>)>>,
   <<Import(<<<<"os">>>>), From(<<"m">>, <<"f", "f">>)>>}

PyServing ==
  {[routes |-> <<>>, reads |-> <<>>, externalCalls |-> <<>>],
   [routes |-> <<RouteOf("GET", <<"", "users">>, <<Handler(P_f, <<"f">>)>>, "RESOLVED", Py, 50),
                 RouteOf("ALL", <<"", "users", "<id>">>, <<>>, "AMBIGUOUS", Py, 51),
                 RouteOf("POST", <<"{$callback}", "x">>, <<Handler(P_f, <<"f">>)>>, "RESOLVED", Py, 52)>>,
    reads |-> <<ReadOf(<<"URL">>, P_f, "INFERRED", Py, 53)>>,
    externalCalls |-> <<CallOf(P_f, Os, <<"os">>, "RESOLVED", Py, 54)>>]}

Python(statements, serving) ==
  [Nothing EXCEPT
     !.declarations = <<Decl(Py, <<"f">>, "Function", <<1>>)>>,
     !.relationships = PythonRelationships(Modules, statements),
     !.unresolved = PythonUnresolved(Modules, statements),
     !.routes = serving.routes, !.reads = serving.reads, !.externalCalls = serving.externalCalls]

PythonAnalyses == {Python(s, v) : s \in Statements, v \in PyServing}

-----------------------------------------------------------------------------
(* What the readers find *)

Invocation(text, candidates) == [text |-> text, candidates |-> candidates]
Run(text, invokes, variables) == [text |-> text, invokes |-> invokes, variables |-> variables]
Step(label, line, run, directory) == [label |-> label, line |-> line, run |-> run, directory |-> directory]
Checkout(line) == Step(<<"Checkout">>, line, None, None)

Jobs(second) ==
  <<[name |-> <<"build">>, needs |-> <<>>, condition |-> <<"main">>,
     steps |-> <<Checkout(3), Step(<<"Build">>, 4, Run(<<"tsx", "a.ts">>, <<Invocation(<<"a.ts">>, <<"ci/a.ts", Ts>>)>>,
                                                       <<<<"URL">>>>),
                                   Invocation(<<"ci">>, <<"ci">>))>>],
    [name |-> <<"test">>, needs |-> <<<<"build">>, <<"lint">>>>, condition |-> <<>>, steps |-> second]>>

Workflow(second, script) ==
  Artifact("ci.yml", "ci-workflow",
           ReadWorkflow([triggers |-> <<<<"push">>>>, stages |-> <<<<"ship">>>>, jobs |-> Jobs(second),
                         commands |-> script,
                         blocks |-> <<[key |-> <<"env">>, owner |-> <<"build">>, line |-> 6, mentioned |-> <<<<"TOKEN">>>>,
                                        variables |-> <<[name |-> <<"URL">>, line |-> 7]>>]>>,
                         mentions |-> <<<<"TOKEN">>, <<"URL">>>>]),
           <<<<"Docker">>>>)

Heading(level, text) == [is |-> "heading", level |-> level, text |-> text, candidates |-> <<>>]
LinkTo(text, candidates) == [is |-> "link", level |-> 0, text |-> text, candidates |-> candidates]

Readme == Artifact("r.md", "documentation",
                   ReadDocumentation(<<LinkTo(<<"b.py">>, <<Py>>), Heading(1, <<"A">>), LinkTo(<<"b.py">>, <<Py>>),
                                       LinkTo(<<"gone">>, <<"gone">>), Heading(3, <<"B">>), LinkTo(<<"#x">>, <<>>)>>), <<>>)
\* # A, ## B:C, ## A:B, ## C
Colons == Artifact("r.md", "documentation",
                   ReadDocumentation(<<Heading(1, <<"A">>), Heading(2, <<"B", ":", "C">>),
                                       Heading(2, <<"A", ":", "B">>), Heading(2, <<"C">>)>>), <<>>)

Manifest(main) ==
  Artifact("package.json", "package-manifest",
           ReadPackageManifest([scripts |-> <<[name |-> <<"start">>,
                                               run |-> Run(<<"node", "dist">>, <<Invocation(<<"dist">>, <<"dist">>)>>, <<<<"PORT">>>>)]>>,
                                members |-> <<<<"packages/*">>>>, entries |-> main, metadata |-> <<<<"name: x">>>>]), <<>>)
Main(text) == <<[field |-> "main", text |-> <<text>>, candidates |-> <<text>>]>>

UniversalOf(artifacts) ==
  [files |-> <<Ts, Py, "ci.yml", "r.md", "package.json", "go.mod">>,
   manifests |-> <<[path |-> "package.json", ecosystem |-> "npm", dependencies |-> <<<<"express">>, <<"react">>>>],
                   [path |-> "go.mod", ecosystem |-> "go", dependencies |-> <<<<"gin">>>>]>>,
   technologies |-> <<[region |-> "", id |-> "docker", name |-> <<"Docker">>, confidence |-> "INFERRED",
                       evidence |-> <<"ci.yml">>]>>,
   artifacts |-> artifacts,
   regions |-> <<[path |-> "", languages |-> <<"typescript", "python">>, ecosystems |-> <<"npm", "go">>]>>]

Quiet == Workflow(<<Step(<<"Test">>, 5, None, None)>>, <<>>)
Twice == Workflow(<<Checkout(5)>>, <<[section |-> <<"test">>, owner |-> <<"test">>, line |-> 6,
                                      run |-> Run(<<"x">>, <<>>, <<<<"MODE">>>>)]>>)

Universals == {UniversalOf(<<>>), UniversalOf(<<Quiet, Readme, Manifest(Main("a.ts"))>>),
               UniversalOf(<<Twice, Manifest(Main("dist"))>>), UniversalOf(<<Colons>>)}

Scanned(universals, typescript, python) ==
  {[universal |-> u, analyses |-> as] :
     u \in universals, as \in {<<>>} \cup {<<t>> : t \in typescript} \cup {<<p>> : p \in python}
                              \cup {<<t, p>> : t \in typescript, p \in python}}

MCInputs == Scanned(Universals, TypescriptAnalyses, PythonAnalyses)

\* For the store: graphs with and without artefacts and analysers.
MCStored ==
  LET t == Typescript(Nested, CHOOSE x \in TsExternals : x[2] # <<>>, CHOOSE s \in TsServing : s.reads # <<>>)
      p == Python(<<From(<<"m">>, <<"f", "html", "html">>)>>, CHOOSE v \in PyServing : v.routes # <<>>)
      full == UniversalOf(<<Quiet, Readme, Manifest(Main("a.ts"))>>)
  IN  {[universal |-> UniversalOf(<<>>), analyses |-> <<p>>],
       [universal |-> full, analyses |-> <<t, p>>],
       [universal |-> UniversalOf(<<Twice, Manifest(Main("dist"))>>), analyses |-> <<>>]}
=============================================================================
