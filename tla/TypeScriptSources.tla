-------------------------- MODULE TypeScriptSources --------------------------
(***************************************************************************)
(* What packages/ir records of TypeScript and JavaScript sources: the      *)
(* declarations a file writes, each once however often it is written, and  *)
(* what the file exports by syntax alone.                                  *)
(*                                                                         *)
(* A source has, in the order of the code,                                 *)
(*   written  [file, container, names, kind, at, exported, default,        *)
(*            published, modifier], the places where something is          *)
(*            declared: names are several for `namespace A.B`, modifier is *)
(*            the keyword itself, and what a CommonJS assignment declares  *)
(*            is published by it                                           *)
(*   exports  [file, at, form, name, specifier, module, value, answer],    *)
(*            the export statements and CommonJS assignments               *)
(* and the parts TypeScriptReferences and TypeScriptNames read.            *)
(***************************************************************************)
EXTENDS Names, SequencesExt

\* A name no identifier can carry: computed, quoted or a pattern.
Unaddressed == "{}"
IsAddressableName(name) == name # Unaddressed

-----------------------------------------------------------------------------
(* DeclarationCollector *)

ContainerKinds ==
  {"class", "interface", "enum", "namespace", "function", "method", "constructor", "accessor",
   "variable"}

MergedKind(existing, incoming) ==
  IF existing \notin ContainerKinds /\ incoming \in ContainerKinds THEN incoming ELSE existing

SiteId(w) == Id(w.file, w.container \o w.names)

\* What is written in something without an address is not reached.
Recorded(source) ==
  LET Reached(w) == \A name \in Range(w.container \o w.names) : IsAddressableName(name)
  IN  SelectSeq(source.written, Reached)

IsFirst(sites, i) == \A j \in 1 .. i - 1 : SiteId(sites[j]) # SiteId(sites[i])

\* The declarations in the order they are met first, with all their places.
Collected(sites) ==
  LET Of(i) ==
        LET Same(w) == SiteId(w) = SiteId(sites[i])
            same    == SelectSeq(sites, Same)
            Merge(kind, w) == MergedKind(kind, w.kind)
        IN  IF IsFirst(sites, i)
            THEN <<[id |-> SiteId(sites[i]), kind |-> FoldLeft(Merge, sites[i].kind, same),
                    at |-> [k \in DOMAIN same |-> same[k].at]]>>
            ELSE <<>>
  IN  Chained([i \in DOMAIN sites |-> Of(i)])

-----------------------------------------------------------------------------
(* Exports that syntax links to a declaration *)

\* `module.exports = Router` publishes the module as that value, not under its name.
WholeModuleNames(source, file) ==
  LET Whole(e) == e.file = file /\ e.form = "commonjs" /\ e.name = None /\ e.value.kind = "name"
  IN  {e.value.name : e \in ToSet(SelectSeq(source.exports, Whole))}

\* An export on the declaration itself, recorded once for all its places.  `namespace A.B`
\* exports an A that is declared nowhere.
InlineExports(source) ==
  LET sites == Recorded(source)
      Of(i) ==
        LET w     == sites[i]
            whole == ~w.modifier /\ Last(w.names) \in WholeModuleNames(source, w.file)
        IN  IF IsFirst(sites, i) /\ w.container = <<>> /\ w.exported /\ ~w.published /\ ~whole
            THEN <<[file |-> w.file, at |-> w.at,
                    name |-> IF w.default THEN "default" ELSE Head(w.names),
                    declaration |-> IF Len(w.names) = 1 THEN SiteId(w) ELSE None]>>
            ELSE <<>>
  IN  Chained([i \in DOMAIN sites |-> Of(i)])

\* The declaration a CommonJS value is: the one it writes, or the first of the file by its name.
DeclarationLink(source, e) ==
  LET sites == Recorded(source)
      Is(w) == /\ w.file = e.file
               /\ \/ e.value.kind = "declares" /\ w.at = e.value.at
                  \/ e.value.kind = "name" /\ w.container = <<>> /\ Last(w.names) = e.value.name
      first == First(SelectSeq(sites, Is))
  IN  IF first = None THEN None ELSE SiteId(first)

CommonJsExports(source) ==
  LET Of(e) ==
        IF e.form # "commonjs" THEN <<>>
        ELSE <<[file |-> e.file, at |-> e.at, name |-> e.name, declaration |-> DeclarationLink(source, e)]>>
  IN  Chained([i \in DOMAIN source.exports |-> Of(source.exports[i])])

-----------------------------------------------------------------------------
(* IrBuilder.build *)

\* The program the resolvers are given: the source with its declarations, the places of those
\* that no declaration statement writes, and the exports that are linked.  What is written where
\* is kept for those who ask what has become of it.
Extracted(source) ==
  LET sites == Recorded(source)
      Linked(e)    == e.declaration # None
      Published(w) == w.published
      published    == SelectSeq(sites, Published)
  IN  [files |-> source.files, written |-> sites, decls |-> Collected(sites),
       expressions |-> {<<published[i].file, published[i].at>> : i \in DOMAIN published},
       linked |-> SelectSeq(InlineExports(source) \o CommonJsExports(source), Linked),
       exports |-> source.exports, imports |-> source.imports, mentions |-> source.mentions,
       sites |-> source.sites]
=============================================================================
