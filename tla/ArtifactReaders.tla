--------------------------- MODULE ArtifactReaders ---------------------------
(***************************************************************************)
(* What three readers of packages/artifact/src/readers.ts make of a file:  *)
(* a document, a workflow and a package manifest.                          *)
(*                                                                         *)
(* A file is given as its parse.  Text is a sequence of words, ":" and     *)
(* "jobs." among them, chosen so that two texts are the same characters    *)
(* just when they are the same words; no word holds a blank or a bar.  The *)
(* limits on length and number are left out, and so are the rules by which *)
(* a text is read as a path: the paths it may mean come with it.           *)
(***************************************************************************)
EXTENDS Naturals, Sequences, FiniteSets, SequencesExt

CONSTANT None

\* The first of all that agree in their key.
FirstOfEach(s, Key(_)) ==
  LET keys == [i \in DOMAIN s |-> Key(s[i])]
      IsFirst(i) == \A j \in 1 .. i - 1 : keys[j] # keys[i]
  IN  FlattenSeq([i \in DOMAIN s |-> IF IsFirst(i) THEN <<s[i]>> ELSE <<>>])

\* The first concatenation has TLC evaluate each member once.
Each(s, Of(_)) == FlattenSeq(<<>> \o [i \in DOMAIN s |-> Of(s[i])])

\* As SelectSeq, with the one definition of concatenation behind it.
Selected(s, Test(_)) == FlattenSeq([i \in DOMAIN s |-> IF Test(s[i]) THEN <<s[i]>> ELSE <<>>])

-----------------------------------------------------------------------------
(* Elements and ReferenceCollector *)

Element(kind, section, name, requires) ==
  [kind |-> kind, section |-> section, name |-> name, requires |-> requires]
Plain(kind, section, name) == Element(kind, section, name, <<>>)

Reference(kind, text, candidates, element, line) ==
  [kind |-> kind, text |-> text, candidates |-> candidates, element |-> element, line |-> line]

Elements(s) == LET Key(e) == <<e.kind, e.section, e.name>> IN FirstOfEach(s, Key)

\* A text that cannot be a path is no reference to one.
References(s) ==
  LET Refers(r) == r.candidates # <<>> \/ r.kind \in {"environment", "technology"}
      Key(r)    == <<r.kind, r.text, r.candidates>>
  IN  FirstOfEach(Selected(s, Refers), Key)

\* recordCommand: what a command line invokes, and the variables it names.
Invoked(c, element, line) ==
  [i \in DOMAIN c.invokes |->
     Reference("command", c.invokes[i].text, c.invokes[i].candidates, element, line)]
  \o [i \in DOMAIN c.variables |-> Reference("environment", c.variables[i], <<>>, element, line)]

-----------------------------------------------------------------------------
(* The readers *)

\* Blocks [is, level, text, candidates] of a document, in their order: headings and links.
SectionAt(doc, i) ==
  LET Opens(b) == b.is = "heading" /\ b.level <= 2
      last     == SelectLastInSeq(SubSeq(doc, 1, i - 1), Opens)
  IN  IF last = 0 THEN <<>> ELSE doc[last].text

ReadDocumentation(doc) ==
  LET IsA(what) == Selected([i \in DOMAIN doc |-> i], LAMBDA i : doc[i].is = what)
      Heading(i) == <<Plain("heading", SectionAt(doc, i), doc[i].text)>>
      Link(i) == LET section == SectionAt(doc, i)
                 IN  <<Reference("link", doc[i].text, doc[i].candidates,
                                 IF section = <<>> THEN None ELSE section, i)>>
  IN  [elements |-> Elements(Each(IsA("heading"), Heading)),
       references |-> References(Each(IsA("link"), Link))]

\* A step [label, line, run, directory]; run and directory may be None.
StepElements(section, s) ==
  <<Plain("step", section, s.label)>>
  \o IF s.run = None THEN <<>> ELSE <<Plain("command", section, s.run.text)>>

StepReferences(s) ==
  (IF s.run = None THEN <<>> ELSE Invoked(s.run, s.label, s.line))
  \o IF s.directory = None THEN <<>>
     ELSE <<Reference("path", s.directory.text, s.directory.candidates, s.label, s.line)>>

JobElements(j) ==
  LET section == <<"jobs.">> \o j.name
      Of(s)   == StepElements(section, s)
  IN  <<Element("job", <<"jobs">>, j.name, j.needs)>>
      \o (IF j.condition = <<>> THEN <<>> ELSE <<Plain("condition", section, j.condition)>>)
      \o Each(j.steps, Of)

\* recordEnvironmentBlocks: blocks [key, owner, line, variables, mentioned] and the names found
\* anywhere in the text.
RecordEnvironmentBlocks(blocks, mentions) ==
  LET Needs(name, owner, line) ==
        Reference("environment", name, <<>>, IF owner = <<>> THEN None ELSE owner, line)
      Variables(b) == [i \in DOMAIN b.variables |->
                         Plain("variable", b.owner \o b.key, b.variables[i].name)]
      Supplied(b)  == [i \in DOMAIN b.variables |->
                         Needs(b.variables[i].name, b.owner, b.variables[i].line)]
                      \o [i \in DOMAIN b.mentioned |-> Needs(b.mentioned[i], b.owner, b.line)]
  IN  [elements |-> Each(blocks, Variables),
       references |-> Each(blocks, Supplied)
                      \o [i \in DOMAIN mentions |-> Needs(mentions[i], <<>>, 0)]]

\* Triggers and stages, jobs, and commands [section, owner, run, line] without a step.
ReadWorkflow(w) ==
  LET environment  == RecordEnvironmentBlocks(w.blocks, w.mentions)
      Trigger(t)   == <<Plain("trigger", <<>>, t)>>
      Stage(t)     == <<Plain("stage", <<>>, t)>>
      Command(c)   == <<Plain("command", c.section, c.run.text)>>
      OfJob(j)     == Each(j.steps, StepReferences)
      OfCommand(c) == Invoked(c.run, c.owner, c.line)
  IN  [elements |-> Elements(Each(w.triggers, Trigger) \o Each(w.stages, Stage)
                             \o Each(w.jobs, JobElements) \o Each(w.commands, Command)
                             \o environment.elements),
       references |-> References(Each(w.jobs, OfJob) \o Each(w.commands, OfCommand)
                                 \o environment.references)]

\* Scripts [name, run], workspace members, entry points [field, text, candidates] and settings.
\* JSON is read without lines.
ReadPackageManifest(p) ==
  LET Script(s)  == <<Plain("script-target", <<"scripts">>, s.name)>>
      Member(m)  == <<Plain("member", <<"workspaces">>, m)>>
      Entry(e)   == <<Plain("setting", <<"entry points">>, <<e.field, ": ">> \o e.text)>>
      Setting(s) == <<Plain("setting", <<"metadata">>, s)>>
      Runs(s)    == Invoked(s.run, s.name, 0)
      Names(e)   == <<Reference("path", e.text, e.candidates, None, 0)>>
  IN  [elements |-> Elements(Each(p.scripts, Script) \o Each(p.members, Member)
                             \o Each(p.entries, Entry) \o Each(p.metadata, Setting)),
       references |-> References(Each(p.scripts, Runs) \o Each(p.entries, Names))]

\* analyseArtifacts: and the technologies that were detected from this file.
Artifact(path, kind, read, configures) ==
  LET Technology(name) == <<Reference("technology", name, <<>>, None, 0)>>
  IN  [path |-> path, kind |-> kind, elements |-> read.elements,
       references |-> read.references \o Each(configures, Technology)]
=============================================================================
