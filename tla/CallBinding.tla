---------------------------- MODULE CallBinding ----------------------------
(***************************************************************************)
(* The call loops of resolvePython, resolveJava, resolveGo and             *)
(* CallGraphResolver: every call site of a program is looked up, and where *)
(* a member may be inherited a breadth-first walk over the proven          *)
(* supertypes looks for it.                                                *)
(*                                                                         *)
(* One step looks up one site, or is one turn of a walk's loop.  The walks *)
(* of findInherited, inheritedMember and promotedMember are the same loop; *)
(* each is preceded by a look at the type itself, which is the first turn. *)
(***************************************************************************)
EXTENDS Names, SequencesExt

CONSTANTS
  PythonPrograms, JavaPrograms, GoPrograms,
  TypeScriptPrograms     \* as they are written, see TypeScriptSources

\* A program has finitely many clauses that name a supertype.
ASSUME ProgramsAssumption ==
  /\ \A p \in PythonPrograms : IsFiniteSet(DOMAIN p.bases)
  /\ \A p \in JavaPrograms : IsFiniteSet(DOMAIN p.supers)
  /\ \A p \in GoPrograms : IsFiniteSet(DOMAIN p.embeds)

VARIABLES program,
          language,
          references,  \* of TypeScript: what its resolver has found before
          bound,       \* the outcomes of the sites looked up so far
          walk         \* the walk for the next one, or None

vars == <<program, language, references, bound, walk>>

\* What can be looked up in a program.
Facts(p)  == INSTANCE Programs WITH program <- p
Python(p) == INSTANCE PythonNames WITH program <- p
Java(p)   == INSTANCE JavaNames WITH program <- p
Go(p)     == INSTANCE GoNames WITH program <- p
IR        == INSTANCE TypeScriptSources
TypeScript(p, found) == INSTANCE TypeScriptNames WITH program <- p, references <- found

-----------------------------------------------------------------------------
(* The language's part: TypeScript's compiler has followed its supertypes, *)
(* so that nothing is walked for                                           *)

PlanOf(s) ==
  CASE language = "python" -> Python(program)!Plan(s)
    [] language = "java"   -> Java(program)!Plan(s)
    [] language = "go"     -> Go(program)!Plan(s)
    [] language = "typescript" -> TypeScript(program, references)!Plan(s)

FoundFor(s, for, id) ==
  CASE language = "python" -> Python(program)!Found(s, for, id)
    [] language = "java"   -> Java(program)!Found(s, for, id)
    [] language = "go"     -> Go(program)!Found(s, for, id)

MissedFor(s, for) ==
  CASE language = "python" -> Python(program)!Missed(s, for)
    [] language = "java"   -> Java(program)!Missed(s, for)
    [] language = "go"     -> Go(program)!Missed(s, for)

SupersOf(type) ==
  CASE language = "python" -> Python(program)!Supers(type)
    [] language = "java"   -> Java(program)!Supers(type)
    [] language = "go"     -> Go(program)!Supers(type)

MemberOf(type, name) ==
  CASE language = "python" -> Python(program)!Member(type, name)
    [] language = "java"   -> Java(program)!Member(type, name)
    [] language = "go"     -> Go(program)!Member(type, name)

-----------------------------------------------------------------------------
(* The loops *)

Site == program.sites[Len(bound) + 1]

BindingInit ==
  /\ \/ language = "python" /\ program \in PythonPrograms /\ references = <<>>
     \/ language = "java" /\ program \in JavaPrograms /\ references = <<>>
     \/ language = "go" /\ program \in GoPrograms /\ references = <<>>
     \/ /\ language = "typescript"
        /\ \E source \in TypeScriptPrograms : program = IR!Extracted(source)
        /\ references = TypeScript(program, <<>>)!References
  /\ bound = <<>>
  /\ walk = None

Follow(plan) ==
  /\ IF plan.type = None
     THEN /\ bound' = Append(bound, plan.outcome)
          /\ walk' = None
     ELSE /\ walk' = [queue |-> <<plan.type>>, visited |-> {}, member |-> plan.member,
                      for |-> plan.for]
          /\ bound' = bound
  /\ UNCHANGED <<program, language, references>>

LookUp ==
  /\ walk = None /\ Len(bound) < Len(program.sites)
  /\ \E plan \in {PlanOf(Site)} : Follow(plan)

\* Seeded fault: the supertypes of a type are looked at before its siblings.
PassDepthFirst(visited, behind) ==
  /\ walk' = [walk EXCEPT !.visited = visited, !.queue = behind \o Tail(@)]
  /\ UNCHANGED <<program, language, references, bound>>

\* The end of a turn that found nothing.
Pass(visited, behind) ==
  /\ walk' = [walk EXCEPT !.visited = visited, !.queue = Tail(@) \o behind]
  /\ UNCHANGED <<program, language, references, bound>>

Turn ==
  /\ walk # None /\ walk.queue # <<>>
  /\ LET type  == Head(walk.queue)
         found == MemberOf(type, walk.member)
     IN  \/ type \in walk.visited /\ Pass(walk.visited, <<>>)
         \/ type \notin walk.visited /\ found # None /\ Follow(FoundFor(Site, walk.for, found))
         \/ /\ type \notin walk.visited /\ found = None
            /\ Pass(walk.visited \cup {type}, SupersOf(type))

FindNothing ==
  /\ walk # None /\ walk.queue = <<>>
  /\ \E plan \in {MissedFor(Site, walk.for)} : Follow(plan)

BindingNext == LookUp \/ Turn \/ FindNothing

Finished == Len(bound) = Len(program.sites) /\ walk = None

-----------------------------------------------------------------------------
(* The nearest declaration *)

Kin(type) == ToSet(SupersOf(type))

\* The clauses that name a supertype, and the types that have one.
SuperClauses ==
  CASE language = "python" -> program.bases
    [] language = "java"   -> program.supers
    [] language = "go"     -> program.embeds
Heirs == {SuperClauses[i].type : i \in DOMAIN SuperClauses}

\* The types at most n supertypes away.
TypesWithin(type) ==
  LET within[n \in Nat] ==
        IF n = 0 THEN {type} ELSE LET nearer == within[n - 1] IN nearer \cup UNION {Kin(t) : t \in nearer}
  IN  within

\* What a shortest chain of proven supertypes leads to.
Nearest(type, member) ==
  LET Seen(n) == {MemberOf(t, member) : t \in TypesWithin(type)[n]} \ {None}
      far == Cardinality(Heirs)
  IN  IF Seen(far) = {} THEN {}
      ELSE Seen(CHOOSE n \in 0 .. far : Seen(n) # {} /\ \A m \in 0 .. n - 1 : Seen(m) = {})

\* The plans a site is left with when the walk it asks for has been made as documented.
AfterWalk(s, plan) ==
  LET near == Nearest(plan.type, plan.member)
  IN  IF plan.type = None THEN {plan}
      ELSE IF near = {} THEN {MissedFor(s, plan.for)}
      ELSE {FoundFor(s, plan.for, id) : id \in near}

\* A factory's result needs a second walk, and nothing needs a third.
Ends(s) ==
  {plan.outcome : plan \in UNION {AfterWalk(s, p) : p \in AfterWalk(s, PlanOf(s))}}

-----------------------------------------------------------------------------
(* The files a file's imports name, worked out on the paths *)

\* The directories an import starts at: that of the file, so many levels up, or any root.
Anchors(f, i) ==
  LET up == Len(f.dir) - (i.dots - 1)
      Roots(g) == {<<>>} \cup {SubSeq(g.dir, 1, n) : n \in {m \in DOMAIN g.dir : g.dir[m] = "src"}}
  IN  IF i.dots = 0 THEN UNION {Roots(g) : g \in ToSet(program.files)}
      ELSE IF up >= 0 THEN {SubSeq(f.dir, 1, up)} ELSE {}

IsFileOf(g, path) == Append(g.dir, g.stem) \in {path, Append(path, "__init__")}

\* The files that cannot be told from these by a dotted name.
Alike(files) ==
  LET modules == {Python(program)!ModuleOf(f) : f \in files} \ {None}
  IN  files \cup {g \in ToSet(program.files) : Python(program)!ModuleOf(g) \in modules}

PythonNamed(f) ==
  LET Mine(i) == i.file = f
      paths == UNION {{anchor \o i.module : anchor \in UNION {Anchors(g, i) : g \in Alike({f})}}
                      : i \in ToSet(SelectSeq(program.imports, Mine))}
  IN  Alike({g \in ToSet(program.files) : \E path \in paths : IsFileOf(g, path)})

JavaNamed(f) ==
  LET Mine(i) == i.file = f
      imports == ToSet(SelectSeq(program.imports, Mine))
      Chains(g) == {d.id.chain : d \in {e \in ToSet(program.decls) : e.id.file = g}}
      Names(i, g) == IF i.wildcard THEN i.name = program.package[g]
                     ELSE \E chain \in Chains(g) : IsPrefix(program.package[g] \o chain, i.name)
  IN  {g \in ToSet(program.files) :
         program.package[f] = program.package[g] \/ \E i \in imports : Names(i, g)}

GoNamed(f) ==
  LET Mine(i) == i.file = f
      Under(m, path) == m.dir \o SubSeq(path, Len(m.path) + 1, Len(path))
      dirs == UNION {{Under(m, i.path) : m \in {n \in ToSet(program.modules) : IsPrefix(n.path, i.path)}}
                     : i \in ToSet(SelectSeq(program.imports, Mine))}
  IN  {g \in ToSet(program.files) : g.dir \in dirs \cup {f.dir}}

\* A path up and down from a directory.
Joined(dir, specifier) ==
  LET Step(path, segment) ==
        CASE segment = "."  -> path
          [] segment = ".." -> Front(path)
          [] OTHER          -> Append(path, segment)
  IN  FoldLeft(Step, dir, specifier)

\* What a bare specifier names only the compiler's configuration can say.
TypeScriptNamed(f) ==
  LET IsModule(g, path) == path = Append(g.dir, g.stem) \/ (path = g.dir /\ g.stem = "index")
      Names(x, g) == IF Head(x.specifier) \in {".", ".."} THEN IsModule(g, Joined(f.dir, x.specifier))
                     ELSE x.module # None /\ x.module.file = g
      OfFile(x) == x.file = f
      Forwards(x) == x.file = f /\ x.specifier # None
      named == ToSet(SelectSeq(program.imports, OfFile)) \cup ToSet(SelectSeq(program.exports, Forwards))
  IN  {g \in ToSet(program.files) : \E x \in named : Names(x, g)}

NamedBy(f) ==
  CASE language = "python" -> PythonNamed(f)
    [] language = "java"   -> JavaNamed(f)
    [] language = "go"     -> GoNamed(f)
    [] language = "typescript" -> TypeScriptNamed(f)

\* The file, what its imports name, what theirs name, and so on.
InReach(f) ==
  LET Further(files, k) == files \cup UNION {NamedBy(g) : g \in files}
  IN  FoldLeftDomain(Further, {f}, program.files)

\* Klass.method() is looked up by the name of the class, in any file that has one of it.
NamesakeOf(id, files) ==
  /\ language = "python"
  /\ \E f \in files : Facts(program)!OfKind(Id(f, Front(id.chain)), {"class"})

\* A constructor is called by the name of its class, or of a superclass, or by none.
CalledByName(s) ==
  Final(s.owner.chain) \in {s.root, s.member} \/ Facts(program)!OfKind(s.owner, {"constructor"})

-----------------------------------------------------------------------------
(* What should be true of the call edges *)

\* A call on a type is bound to the member the type declares or else to a declaration at the
\* end of a shortest chain of proven supertypes, and is left unbound only if no chain leads to
\* one: "Breadth-first because Java resolves the nearest override", "the shallowest promotion wins".
NearestDeclarationIsBound == \A i \in DOMAIN bound : bound[i] \in Ends(program.sites[i])

\* No edge leaves what the source connects: a call is bound in its own file or in one that
\* imports lead to from there, where the paths on disk say what an import names and no index
\* of dotted names, package or module is asked.  None leads back to the declaration the call is
\* written in, unless it calls it by its name: the function around a parameter or a local
\* is not what a call of that parameter or local invokes.
CallsFollowImports ==
  \A i \in DOMAIN bound :
    bound[i].why = "bound" =>
      LET files == InReach(program.sites[i].file)
      IN  /\ bound[i].to.file \in files \/ NamesakeOf(bound[i].to, files)
          /\ bound[i].to = program.sites[i].owner => CalledByName(program.sites[i])
=============================================================================
