---------------------------- MODULE SmallPrograms ----------------------------
(***************************************************************************)
(* Families of small programs: for each language every heritage of four    *)
(* types within bounds, and every combination of layout and imports in     *)
(* which the ways a name can be bound meet.                                *)
(***************************************************************************)
EXTENDS Names, SequencesExt

CONSTANT MaxImports       \* statements of a Java file

Decl(file, chain, kind) == [id |-> Id(file, chain), kind |-> kind]

-----------------------------------------------------------------------------
(* Heritage: types A to D, the first of which is called on *)

Names4 == <<"A", "B", "C", "D">>
Heritages ==
  [A : {<<>>, <<"B">>, <<"B", "C">>, <<"C", "B">>, <<"B", "D">>, <<"D", "C", "B">>},
   B : {<<>>, <<"D">>, <<"C">>, <<"A">>, <<"C", "D">>},
   C : {<<>>, <<"D">>, <<"B">>, <<"C">>},
   D : {<<>>, <<"A">>}]
Declaring == {{}, {"A"}, {"C"}, {"D"}, {"B", "D"}, {"C", "D"}}

\* The facts of a heritage, as pairs in source order.
Clauses(h) ==
  FlattenSeq([i \in 1 .. 4 |-> [j \in DOMAIN h[Names4[i]] |-> <<Names4[i], h[Names4[i]][j]>>]])

TypesAndMembers(file, declaring) ==
  [i \in 1 .. 4 |-> Decl(file, <<Names4[i]>>, "class")]
  \o <<Decl(file, <<"A", "go">>, "method")>>
  \o SetToSeq({Decl(file, <<t, "save">>, "method") : t \in declaring})

PyA == [dir |-> <<>>, stem |-> "a", stub |-> FALSE]
PythonHeritages ==
  {[files |-> <<PyA>>, decls |-> TypesAndMembers(PyA, d), imports |-> <<>>, locals |-> <<>>,
    bases |-> [i \in DOMAIN Clauses(h) |-> [type |-> Id(PyA, <<Clauses(h)[i][1]>>), name |-> Clauses(h)[i][2]]],
    sites |-> <<[file |-> PyA, owner |-> Id(PyA, <<"A", "go">>), root |-> "self", member |-> "save"]>>]
   : h \in Heritages, d \in Declaring}

JavaHeritages ==
  {[files |-> <<"A">>, package |-> [f \in {"A"} |-> <<"p">>], decls |-> TypesAndMembers("A", d),
    imports |-> <<>>, types |-> <<>>, returns |-> <<>>, locals |-> <<>>,
    supers |-> [i \in DOMAIN Clauses(h) |-> [type |-> Id("A", <<Clauses(h)[i][1]>>), name |-> Clauses(h)[i][2]]],
    sites |-> <<[file |-> "A", owner |-> Id("A", <<"A", "go">>), root |-> "save", member |-> None, new |-> FALSE]>>]
   : h \in Heritages, d \in Declaring}

GoA == [dir |-> <<>>, stem |-> "a"]
GoHeritages ==
  {[files |-> <<GoA>>, modules |-> <<>>, decls |-> TypesAndMembers(GoA, d), imports |-> <<>>,
    types |-> <<>>, results |-> <<>>, locals |-> <<>>,
    methods |-> <<[method |-> Id(GoA, <<"A", "go">>), variable |-> "a", name |-> "A"]>>,
    embeds |-> [i \in DOMAIN Clauses(h) |->
                  [type |-> Id(GoA, <<Clauses(h)[i][1]>>),
                   named |-> [name |-> Clauses(h)[i][2], qualifier |-> None]]],
    sites |-> <<[file |-> GoA, owner |-> Id(GoA, <<"A", "go">>), root |-> "a", member |-> "save"]>>]
   : h \in Heritages, d \in Declaring}

-----------------------------------------------------------------------------
(* Python: one file imports, by any number of dots, what other files declare alike *)

PyFile(dir, stem) == [dir |-> dir, stem |-> stem, stub |-> FALSE]
PyLayouts ==
  {<<PyFile(<<"app">>, "__init__"), PyFile(<<"app">>, "main"), PyFile(<<"app">>, "util"),
     PyFile(<<"app", "sub">>, "__init__"), PyFile(<<"app", "sub">>, "util"), PyFile(<<>>, "util")>>,
   <<PyFile(<<"app">>, "util"), PyFile(<<"src">>, "util"), PyFile(<<"src", "app">>, "__init__"),
     PyFile(<<"src", "app">>, "main"), PyFile(<<"src", "app">>, "util")>>,
   <<[PyFile(<<"app">>, "util") EXCEPT !.stub = TRUE], PyFile(<<"src", "app">>, "main"),
     PyFile(<<"src", "app">>, "util"), PyFile(<<"src", "util">>, "app"), PyFile(<<"x">>, "sub")>>}

PySpecifiers ==
  [dots : 0 .. 3, module : {<<>>, <<"util">>, <<"app", "util">>, <<"app">>, <<"sub", "util">>}]
  \ {[dots |-> 0, module |-> <<>>]}

\* The importing file declares Mine, every other one run and Store, a Root of app.util's.
PyDecls(files, importer) ==
  FlattenSeq([i \in DOMAIN files |->
    IF files[i] = importer
    THEN <<Decl(importer, <<"Mine">>, "class"), Decl(importer, <<"Mine", "go">>, "method")>>
    ELSE <<Decl(files[i], <<"run">>, "function"), Decl(files[i], <<"Root">>, "class"),
           Decl(files[i], <<"Root", "load">>, "method"), Decl(files[i], <<"Store">>, "class"),
           Decl(files[i], <<"Store", "save">>, "method")>>])

PyImport(file, spec, kind, local, name) ==
  [file |-> file, dots |-> spec.dots, module |-> spec.module, kind |-> kind, local |-> local, name |-> name]
AppUtil == [dots |-> 0, module |-> <<"app", "util">>]
PyImports(files, importer, spec) ==
  FlattenSeq([i \in DOMAIN files |->
    IF files[i] = importer
    THEN <<PyImport(importer, spec, "named", "r", "run"), PyImport(importer, spec, "named", "S", "Store"),
           PyImport(importer, spec, "namespace", "m", None)>>
    ELSE <<PyImport(files[i], AppUtil, "named", "Above", "Root")>>])

PyProgram(files, importer, spec) ==
  LET go == Id(importer, <<"Mine", "go">>)
      Site_(root, member) == [file |-> importer, owner |-> go, root |-> root, member |-> member]
      others == SelectSeq(files, LAMBDA f : f # importer)
  IN  [files |-> files, decls |-> PyDecls(files, importer), imports |-> PyImports(files, importer, spec),
       bases |-> [i \in DOMAIN others |-> [type |-> Id(others[i], <<"Store">>), name |-> "Above"]]
                 \o <<[type |-> Id(importer, <<"Mine">>), name |-> "S"]>>,
       locals |-> <<[owner |-> go, name |-> "s", root |-> "S", member |-> None],
                    [owner |-> go, name |-> "t", root |-> "m", member |-> "Store"]>>,
       sites |-> <<Site_("r", None), Site_("m", "run"), Site_("S", "save"), Site_("s", "save"),
                   Site_("t", "load"), Site_("self", "load"), Site_(None, "run"), Site_("x", "run")>>]

PythonImportPrograms ==
  UNION {{PyProgram(files, importer, spec) : importer \in ToSet(files), spec \in PySpecifiers} : files \in PyLayouts}

MCPythonPrograms == PythonHeritages \cup PythonImportPrograms

-----------------------------------------------------------------------------
(* Java: Main of package p asks for a T that up to four files declare *)

JavaPackage == [f \in {"Main", "PT", "PO", "QT", "RT"} |->
                  CASE f = "QT" -> <<"q">> [] f = "RT" -> <<"r">> [] OTHER -> <<"p">>]

JavaImport(name, wildcard, static) == [file |-> "Main", name |-> name, wildcard |-> wildcard, static |-> static]
JavaStatements ==
  {JavaImport(<<"q", "T">>, FALSE, FALSE), JavaImport(<<"ext", "T">>, FALSE, FALSE),
   JavaImport(<<"p", "O", "T">>, FALSE, FALSE), JavaImport(<<"q">>, TRUE, FALSE), JavaImport(<<"r">>, TRUE, FALSE),
   JavaImport(<<"q", "T", "stat">>, FALSE, TRUE), JavaImport(<<"ext", "X", "stat">>, FALSE, TRUE)}

JavaDecls(f) ==
  LET chain == IF f = "PO" THEN <<"O", "T">> ELSE <<"T">>
  IN  (IF f = "PO" THEN <<Decl(f, <<"O">>, "class")>> ELSE <<>>)
      \o <<Decl(f, chain, "class"), Decl(f, chain \o <<"run">>, "method"), Decl(f, chain \o <<"make">>, "method"),
           Decl(f, chain \o <<"stat">>, "method"), Decl(f, <<"U">>, "class"), Decl(f, <<"U", "end">>, "method")>>
      \o (IF f = "QT" THEN <<Decl(f, <<"T", "T">>, "constructor")>> ELSE <<>>)

JavaProgram(present, imports) ==
  LET go     == Id("Main", <<"Main", "go">>)
      others == SetToSeq(present)
      JavaSite(owner, root, member, new) ==
        [file |-> "Main", owner |-> owner, root |-> root, member |-> member, new |-> new]
      MyLocal(name, declared, made, factory) ==
        [owner |-> go, name |-> name, declared |-> declared, made |-> made, factory |-> factory]
      Make(f) == [method |-> Id(f, IF f = "PO" THEN <<"O", "T", "make">> ELSE <<"T", "make">>), name |-> "U"]
  IN  [files |-> <<"Main">> \o others, package |-> JavaPackage, imports |-> imports,
       decls |-> <<Decl("Main", <<"Main">>, "class"), Decl("Main", <<"Main", "f">>, "property"), Decl("Main", <<"Main", "go">>, "method"),
                 Decl("Main", <<"Main", "Main">>, "constructor")>>
                 \o FlattenSeq([i \in DOMAIN others |-> JavaDecls(others[i])]),
       supers |-> <<[type |-> Id("Main", <<"Main">>), name |-> "T"]>>,
       types |-> <<[owner |-> Id("Main", <<"Main", "f">>), name |-> "List"],
                   [owner |-> Id("Main", <<"Main", "f">>), name |-> "T"]>>,
       returns |-> [i \in DOMAIN others |-> Make(others[i])],
       locals |-> <<MyLocal("t", "T", None, None), MyLocal("v", None, "T", None),
                    MyLocal("w", None, None, [root |-> "T", member |-> "make"]), MyLocal("x", None, None, None)>>,
       sites |-> <<JavaSite(go, "T", None, TRUE), JavaSite(go, "T", "run", FALSE), JavaSite(go, "run", None, FALSE),
                   JavaSite(go, "stat", None, FALSE), JavaSite(None, "stat", None, FALSE),
                   JavaSite(go, "this", "run", FALSE), JavaSite(go, "super", "run", FALSE),
                   JavaSite(go, "super", None, FALSE), JavaSite(go, "this", None, FALSE),
                   JavaSite(go, "f", "run", FALSE), JavaSite(go, "t", "gone", FALSE), JavaSite(go, "v", "run", FALSE),
                   JavaSite(go, "w", "end", FALSE), JavaSite(go, "x", "run", FALSE),
                   JavaSite(go, "String", "of", FALSE), JavaSite(go, None, "run", FALSE)>>]

JavaImportPrograms ==
  {JavaProgram(present, imports) :
     present \in SUBSET {"PT", "PO", "QT", "RT"}, imports \in SeqOf(JavaStatements, MaxImports)}

MCJavaPrograms == JavaHeritages \cup JavaImportPrograms

-----------------------------------------------------------------------------
(* Go: modules in modules, packages of two files, and a main that uses one *)

GoFile(dir, stem) == [dir |-> dir, stem |-> stem]
GoDirectories == {<<"a">>, <<"sub">>, <<"sub", "a">>}
GoModuleSets ==
  {<<[path |-> <<"m">>, dir |-> <<>>]>>,
   <<[path |-> <<"m">>, dir |-> <<>>], [path |-> <<"m", "sub">>, dir |-> <<"sub">>]>>,
   <<[path |-> <<"m">>, dir |-> <<>>], [path |-> <<"m", "a">>, dir |-> <<"sub">>]>>,
   <<[path |-> <<"n">>, dir |-> <<"sub">>], [path |-> <<"m">>, dir |-> <<>>]>>}
GoPaths == {<<"m", "a">>, <<"m", "sub">>, <<"m", "sub", "a">>, <<"n", "a">>, <<"n">>, <<"fmt">>}

GoDecls(dir) ==
  LET one == GoFile(dir, "one") two == GoFile(dir, "two")
  IN  <<Decl(one, <<"T">>, "class"), Decl(one, <<"New">>, "function"),
        Decl(two, <<"T", "Run">>, "method"), Decl(two, <<"Run">>, "function")>>

GoProgram(modules, path, present) ==
  LET main == GoFile(<<>>, "main")
      serve == Id(main, <<"Server", "Serve">>)
      dirs == SetToSeq(present)
      T(qualifier) == [name |-> "T", qualifier |-> qualifier]
      GoSite(owner, root, member) == [file |-> main, owner |-> owner, root |-> root, member |-> member]
      MyLocal(name, declared, made, factory) ==
        [owner |-> serve, name |-> name, declared |-> declared, made |-> made, factory |-> factory]
  IN  [files |-> <<main>> \o FlattenSeq([i \in DOMAIN dirs |-> <<GoFile(dirs[i], "one"), GoFile(dirs[i], "two")>>]),
       modules |-> modules,
       decls |-> <<Decl(main, <<"Server">>, "class"), Decl(main, <<"Server", "f">>, "property"),
                   Decl(main, <<"Server", "Serve">>, "method"), Decl(main, <<"T">>, "class"), Decl(main, <<"NewT">>, "function")>>
                 \o FlattenSeq([i \in DOMAIN dirs |-> GoDecls(dirs[i])]),
       imports |-> <<[file |-> main, alias |-> "pkg", path |-> path]>>,
       embeds |-> <<[type |-> Id(main, <<"Server">>), named |-> T("pkg")]>>,
       types |-> <<[owner |-> Id(main, <<"Server", "f">>), named |-> T("pkg")]>>,
       methods |-> <<[method |-> serve, variable |-> "s", name |-> "Server"]>>,
       results |-> [i \in DOMAIN dirs |-> [owner |-> Id(GoFile(dirs[i], "one"), <<"New">>), named |-> T(None)]],
       locals |-> <<MyLocal("t", T("pkg"), None, None), MyLocal("u", None, T(None), None),
                    MyLocal("v", None, None, [root |-> "pkg", member |-> "New"]),
                    MyLocal("w", None, None, [root |-> "NewT", member |-> None])>>,
       sites |-> <<GoSite(serve, "pkg", "New"), GoSite(serve, "pkg", "Gone"), GoSite(serve, "Serve", None),
                   GoSite(serve, "len", None), GoSite(serve, "s", "Run"), GoSite(serve, "f", "Run"),
                   GoSite(serve, "t", "Run"), GoSite(serve, "u", "Run"), GoSite(serve, "v", "Run"),
                   GoSite(serve, "w", "Run"), GoSite(None, None, "Run")>>]

GoImportPrograms ==
  {GoProgram(modules, path, present) :
     modules \in GoModuleSets, path \in GoPaths, present \in SUBSET GoDirectories}

MCGoPrograms == GoHeritages \cup GoImportPrograms
=============================================================================
