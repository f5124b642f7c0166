---------------------------- MODULE SmallTypeScript ----------------------------
(***************************************************************************)
(* Small TypeScript sources: a file that imports a library, directly,      *)
(* through a barrel or as a package, in every form, with a compiler that   *)
(* answers, knows nothing or throws; a library of CommonJS; and one file   *)
(* whose declarations merge and refer to each other.                       *)
(***************************************************************************)
EXTENDS Names, SequencesExt

Main   == [dir |-> <<"src">>, stem |-> "main"]
Lib    == [dir |-> <<"src", "lib">>, stem |-> "b"]
Barrel == [dir |-> <<"src", "lib">>, stem |-> "index"]

Written(file, at, container, names, kind, export) ==
  [file |-> file, at |-> at, container |-> container, names |-> names, kind |-> kind,
   exported |-> export # "no", modifier |-> export \in {"named", "default"},
   default |-> export = "default", published |-> export = "published"]

\* Places and answers of the compiler.
In(file, at) == [file |-> file, at |-> at, parameter |-> FALSE, origin |-> None, name |-> <<>>]
Parameter(file, at) == [In(file, at) EXCEPT !.parameter = TRUE]
Outside(origin, name) ==
  [file |-> None, at |-> 0, parameter |-> FALSE, origin |-> origin, name |-> name]

Answered(mode, places) ==
  IF mode = "symbol" THEN [status |-> "symbol", declares |-> places]
  ELSE [status |-> mode, declares |-> <<>>]

\* Nodes from a declaration outwards; a method or function is a scope.
Around(file, nodes) ==
  [k \in DOMAIN nodes |-> [file |-> file, at |-> nodes[k][1], origin |-> None, scope |-> nodes[k][2]]]

Callee(file, owner, root, member) ==
  [file |-> file, owner |-> owner, new |-> FALSE, this |-> FALSE, root |-> root, member |-> member,
   declared |-> <<>>]
Newly(site)            == [site EXCEPT !.new = TRUE]
OnThis(site)           == [site EXCEPT !.this = TRUE]
Declares(site, nodes)  == [site EXCEPT !.declared = nodes]

-----------------------------------------------------------------------------
(* The library: an overloaded factory, a class, a value, a default and a type *)

LibWritten ==
  <<Written(Lib, 1, <<>>, <<"Service">>, "class", "named"),
    Written(Lib, 2, <<"Service">>, <<"constructor">>, "constructor", "no"),
    Written(Lib, 3, <<"Service">>, <<"run">>, "method", "no"),
    Written(Lib, 4, <<>>, <<"make">>, "function", "named"),
    Written(Lib, 5, <<>>, <<"make">>, "function", "named"),
    Written(Lib, 8, <<>>, <<"helper">>, "function", "default"),
    Written(Lib, 9, <<>>, <<"load">>, "variable", "named"),
    Written(Lib, 11, <<>>, <<"Shape">>, "interface", "named")>>

\* What a name it exports stands for, and what a call of it is to the compiler.
PlacesOf(name) ==
  CASE name = "Service" -> <<In(Lib, 1)>>
    [] name = "make"    -> <<In(Lib, 4), In(Lib, 5)>>
    [] name = "default" -> <<In(Lib, 8)>>
    [] name = "load"    -> <<In(Lib, 9)>>
    [] OTHER            -> <<>>

CalledNodes(name) ==
  CASE name = "Service" -> Around(Lib, <<<<2, TRUE>>, <<1, FALSE>>>>)
    [] name = "run"     -> Around(Lib, <<<<3, TRUE>>, <<1, FALSE>>>>)
    [] name = "make"    -> Around(Lib, <<<<4, TRUE>>>>)
    [] name = "default" -> Around(Lib, <<<<8, TRUE>>>>)
    [] name = "load"    -> Around(Lib, <<<<10, TRUE>>, <<9, FALSE>>>>)
    [] OTHER            -> <<>>

\* make(callback) calls its parameter and constructs a Service.
LibSites(answers) ==
  LET make == Id(Lib, <<"make">>)
      Ask(site, nodes) == IF answers THEN Declares(site, nodes) ELSE site
  IN  <<Ask(Callee(Lib, make, "callback", None), Around(Lib, <<<<6, FALSE>>, <<5, TRUE>>>>)),
        Ask(Newly(Callee(Lib, make, "Service", None)), CalledNodes("Service"))>>

-----------------------------------------------------------------------------
(* The ways to the library: a specifier and what the compiler finds there *)

Ways ==
  {[specifier |-> <<".", "lib", "b">>, module |-> In(Lib, 1)],
   [specifier |-> <<".", "lib">>,      module |-> In(Barrel, 1)],
   [specifier |-> <<"pkg">>,           module |-> In(Lib, 1)],               \* a workspace
   [specifier |-> <<"pkg">>,           module |-> Outside("package", <<"pkg">>)],
   [specifier |-> <<".", "dist">>,     module |-> Outside("outside-analysis", <<>>)],
   [specifier |-> <<"@", "org", "pkg">>, module |-> None],                   \* not installed
   [specifier |-> <<"node:", "fs">>,   module |-> None],
   [specifier |-> <<".", "gone">>,     module |-> None]}

Forms == {"named", "default", "namespace", "member", "required", "destructured"}
BarrelForms == {"star", "star-as", "names"}

\* What a name imported that way stands for: through `export * as lib` there is lib alone, whose
\* declaration is the file, and so a place that another declaration may have.
Through(way, barrel, name) ==
  CASE way.module = None -> <<>>
    [] way.module # None /\ way.module.file = None -> <<way.module>>
    [] OTHER ->
         IF way.module.file = Lib THEN PlacesOf(name)
         ELSE CASE barrel = "star-as" -> IF name = "lib" THEN <<In(Lib, 1)>> ELSE <<>>
                [] barrel = "star"    -> IF name = "default" THEN <<>> ELSE PlacesOf(name)
                [] barrel = "names"   -> IF name = "default" THEN <<>> ELSE PlacesOf(name)

BarrelExports(barrel, mode) ==
  LET Entry(at, form, name) ==
        [file |-> Barrel, at |-> at, form |-> form, name |-> name, specifier |-> <<".", "b">>,
         module |-> In(Lib, 1), value |-> None, answer |-> Answered(mode, PlacesOf(name))]
  IN  CASE barrel = "star"    -> <<Entry(1, "forward", None)>>
        [] barrel = "star-as" -> <<Entry(1, "forward", "lib")>>
        [] barrel = "names"   -> <<Entry(2, "name", "Service"), Entry(3, "name", "make"),
                                   Entry(4, "name", "load")>>

-----------------------------------------------------------------------------
(* The importer *)

\* The bindings of a form: the name of the library and the name in the file.
Imported(form) ==
  CASE form \in {"named", "destructured"} -> <<<<"make", "make">>, <<"Service", "S">>, <<"load", "load">>>>
    [] form = "default"                   -> <<<<"default", "helper">>>>
    [] OTHER                              -> <<<<"lib", "lib">>>>

KindOf(form) == IF form \in {"namespace", "required"} THEN "namespace" ELSE "named"

ImportOf(way, form, barrel, mode) ==
  LET pairs == Imported(form)
      Binding(k) == [kind |-> KindOf(form), name |-> pairs[k][1], local |-> pairs[k][2], at |-> k + 1,
                     answer |-> Answered(mode, Through(way, barrel, pairs[k][1]))]
  IN  [file |-> Main, at |-> 1, required |-> form \in {"required", "destructured"},
       specifier |-> way.specifier, module |-> way.module, symbol |-> way.module # None,
       bindings |-> [k \in DOMAIN pairs |-> Binding(k)]]

\* A required module is in a variable too.
MainWritten(form) ==
  (IF form = "required" THEN <<Written(Main, 5, <<>>, <<"lib">>, "variable", "no")>> ELSE <<>>)
  \o <<Written(Main, 13, <<>>, <<"App">>, "class", "default"),
       Written(Main, 14, <<"App">>, <<"go">>, "method", "no"),
       Written(Main, 15, <<"App">>, <<"stop">>, "method", "no"),
       Written(Main, 18, <<>>, <<"free">>, "function", "no"),
       Written(Main, 20, <<>>, <<"s">>, "variable", "no")>>

\* A call and the name of the library that it comes to, or None.
OwnCalls ==
  LET go == Id(Main, <<"App", "go">>)
  IN  <<<<OnThis(Callee(Main, go, None, "stop")), Around(Main, <<<<15, TRUE>>, <<13, FALSE>>>>)>>,
        <<OnThis(Callee(Main, go, None, "gone")), <<>>>>,
        <<OnThis(Callee(Main, Id(Main, <<"free">>), None, "stop")), <<>>>>,
        <<Callee(Main, go, "stop", None), <<>>>>,
        <<Callee(Main, None, "JSON", "parse"),
          <<[file |-> None, at |-> 0, origin |-> "language-builtin", scope |-> TRUE]>>>>>>

Uses(form) ==
  LET s   == Id(Main, <<"s">>)
      go  == Id(Main, <<"App", "go">>)
      run == <<Callee(Main, go, "s", "run"), "run">>
  IN  CASE form \in {"named", "destructured"} ->
             <<<<Callee(Main, None, "make", None), "make">>, <<Newly(Callee(Main, s, "S", None)), "Service">>, run,
               <<Callee(Main, go, None, "run"), "run">>, <<Callee(Main, go, "load", None), "load">>>>
        [] form = "default" -> <<<<Callee(Main, go, "helper", None), "default">>>>
        [] OTHER ->
             <<<<Callee(Main, None, "lib", "make"), "make">>, <<Newly(Callee(Main, s, "lib", "Service")), "Service">>,
               run, <<Callee(Main, go, "lib", "run"), "nothing">>>>

\* The compiler follows a call as far as it follows the import.
MainSites(way, form, barrel, answers) ==
  LET Nodes(name) ==
        CASE way.module = None -> <<>>
          [] way.module # None /\ way.module.file = None ->
               <<[file |-> None, at |-> 0, origin |-> way.module.origin, scope |-> TRUE]>>
          [] OTHER -> IF way.module.file = Barrel /\ (barrel = "star-as") # (form = "member") THEN <<>>
                      ELSE CalledNodes(name)
      Own(k)  == IF answers THEN Declares(OwnCalls[k][1], OwnCalls[k][2]) ELSE OwnCalls[k][1]
      Used(k) == IF answers THEN Declares(Uses(form)[k][1], Nodes(Uses(form)[k][2])) ELSE Uses(form)[k][1]
  IN  [k \in DOMAIN Uses(form) |-> Used(k)] \o [k \in DOMAIN OwnCalls |-> Own(k)]

\* What is compiled answers for its names and calls, or for neither or only one of them.
Modes == {<<"symbol", TRUE>>, <<"symbol", FALSE>>, <<"none", FALSE>>, <<"failed", FALSE>>}

Importer(way, form, barrel, mode) ==
  [files |-> <<Lib, Barrel, Main>>, written |-> LibWritten \o MainWritten(form),
   exports |-> BarrelExports(barrel, mode[1]),
   imports |-> <<ImportOf(way, form, barrel, mode[1])>>,
   mentions |-> <<[file |-> Main, declared |-> 13, type |-> "IMPLEMENTS", name |-> "Shape", at |-> 113,
                   answer |-> Answered(mode[1], Through(way, barrel, "Shape"))]>>,
   sites |-> LibSites(mode[2]) \o MainSites(way, form, barrel, mode[2])]

Importers ==
  LET ThroughBarrel(way) == way.module # None /\ way.module.file = Barrel
      Barrels(way) == IF ThroughBarrel(way) THEN BarrelForms ELSE {"names"}
  IN  UNION {{Importer(way, form, barrel, mode) : form \in Forms, mode \in Modes, barrel \in Barrels(way)}
             : way \in Ways}

-----------------------------------------------------------------------------
(* Merged declarations, and what may be said to extend, implement or use them *)

Merges ==
  {<<>>, <<"class">>, <<"interface">>, <<"enum">>, <<"type-alias">>, <<"function">>, <<"variable">>,
   <<"class", "namespace">>, <<"interface", "class">>, <<"variable", "interface">>,
   <<"type-alias", "variable">>, <<"function", "namespace">>, <<"interface", "interface">>}

Mentioners == {<<"class", "EXTENDS">>, <<"class", "IMPLEMENTS">>, <<"interface", "EXTENDS">>,
               <<"published", "EXTENDS">>, <<"function", "REFERENCES_TYPE">>}

\* Where X is declared nowhere it is a type parameter, a local or a name from outside as well.
Merged(kinds, mentioner, export, mode) ==
  LET places == IF kinds = <<>> THEN <<Parameter(Main, 90)>> ELSE [k \in DOMAIN kinds |-> In(Main, k)]
      answer == Answered(mode, places \o (IF export = "no" THEN <<>>
                                          ELSE <<In(Main, 91), Outside("package", <<"pkg">>)>>))
      kind   == IF mentioner[1] = "published" THEN "class" ELSE mentioner[1]
      holds  == \E k \in DOMAIN kinds : kinds[k] \in {"class", "namespace"}
      member == Id(Main, <<"X", "m">>)
  IN  [files |-> <<Main>>,
       written |-> [k \in DOMAIN kinds |-> Written(Main, k, <<>>, <<"X">>, kinds[k], export)]
                   \o (IF holds THEN <<Written(Main, 5, <<"X">>, <<"m">>, "method", "no"),
                                       Written(Main, 6, <<"X">>, <<"{}">>, "method", "no")>> ELSE <<>>)
                   \o <<Written(Main, 10, <<>>, <<"Y">>, kind,
                                IF mentioner[1] = "published" THEN "published" ELSE "no"),
                        Written(Main, 20, <<>>, <<"Z", "Inner">>, "namespace", "named"),
                        Written(Main, 21, <<"Z", "Inner">>, <<"f">>, "function", "no")>>,
       exports |-> <<[file |-> Main, at |-> 30, form |-> "name", name |-> "Other", specifier |-> None,
                      module |-> None, value |-> None, answer |-> answer]>>
                   \o (IF mentioner[1] # "published" THEN <<>>
                       ELSE <<[file |-> Main, at |-> 9, form |-> "commonjs", name |-> "Y", specifier |-> None,
                               module |-> None, value |-> [kind |-> "declares", name |-> None, at |-> 10],
                               answer |-> answer]>>),
       imports |-> <<>>,
       mentions |-> <<[file |-> Main, declared |-> 10, type |-> mentioner[2], name |-> "X", at |-> 11,
                       answer |-> answer]>>,
       sites |-> (IF holds THEN <<Callee(Main, member, "X", "m")>> ELSE <<>>)
                 \o <<Callee(Main, None, "X", None),
                   Callee(Main, Id(Main, <<"Z", "Inner", "f">>), "f", None)>>]

Merging ==
  {Merged(kinds, mentioner, export, mode) :
     kinds \in Merges, mentioner \in Mentioners, export \in {"no", "named"}, mode \in {"symbol", "failed"}}

-----------------------------------------------------------------------------
(* A library of CommonJS: what it declares, and the assignments that publish it *)

\* An assignment of a name (None: of the module) to a value [kind, name, at].
Assigned(at, name, value, places) ==
  [file |-> Lib, at |-> at, form |-> "commonjs", name |-> name, specifier |-> None, module |-> None,
   value |-> value, answer |-> places]

Value(kind, name, at) == [kind |-> kind, name |-> name, at |-> at]
Function(at, name, export) == Written(Lib, at, <<>>, <<name>>, "function", export)

\* A declaration that an assignment exports has no keyword.
Named(w) == [w EXCEPT !.exported = TRUE]

Libraries(mode) ==
  {[written |-> <<Function(2, "run", "published")>>,                     \* exports.run = function
    exports |-> <<Assigned(1, "run", Value("declares", None, 2), Answered(mode, <<In(Lib, 2)>>))>>],
   [written |-> <<Named(Function(1, "run", "no")), Function(3, "make", "no")>>,   \* exports.run = run
    exports |-> <<Assigned(5, "run", Value("name", "run", 6), Answered(mode, <<In(Lib, 1)>>)),
                  Assigned(7, "make", Value("name", "gone", 8), Answered(mode, <<>>))>>],
   [written |-> <<Named(Function(1, "run", "no"))>>,                     \* module.exports = run
    exports |-> <<Assigned(5, None, Value("name", "run", 6), Answered(mode, <<In(Lib, 1)>>))>>],
   [written |-> <<Function(1, "run", "no"), Function(7, "make", "published")>>,   \* { run, make: ..., }
    exports |-> <<Assigned(5, "run", Value("name", "run", 6), Answered(mode, <<In(Lib, 1)>>)),
                  Assigned(5, "make", Value("declares", None, 7), Answered(mode, <<In(Lib, 7)>>)),
                  Assigned(5, "five", Value("literal", None, 8), Answered("none", <<>>)),
                  Assigned(5, "other", Value("other", None, 9), Answered(mode, <<Outside("package", <<"pkg">>)>>))>>],
   [written |-> <<>>,                                                    \* module.exports = require
    exports |-> <<[Assigned(1, None, Value("other", None, 2), Answered("none", <<>>))
                   EXCEPT !.form = "forward", !.specifier = <<".", "gone">>]>>]}

CommonJs(library, form, mode) ==
  LET way == [specifier |-> <<".", "lib", "b">>, module |-> In(Lib, 1)]
  IN  [files |-> <<Lib, Main>>, written |-> library.written \o MainWritten(form),
       exports |-> library.exports, mentions |-> <<>>,
       imports |-> <<[ImportOf(way, form, "names", mode) EXCEPT !.symbol = library.written # <<>>]>>,
       sites |-> <<Callee(Main, None, "lib", "run"), Callee(Main, None, "make", None),
                   Callee(Main, Id(Main, <<"App", "go">>), "lib", "make")>>]

MCTypeScriptPrograms ==
  Importers \cup Merging
  \cup UNION {{CommonJs(library, form, mode) : library \in Libraries(mode), form \in {"required", "destructured"}}
              : mode \in {"symbol", "failed"}}
=============================================================================
