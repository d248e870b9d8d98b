----------------------------- MODULE ModuleGraph -----------------------------
(***************************************************************************)
(* The load of a module graph (als-types: load.rs, graph.rs, path.rs).     *)
(* From the root file every `open` is followed: the file is searched for,  *)
(* a cycle refused, the module's parameters bound, and the instance either *)
(* found among those already made or made and its own opens walked first.  *)
(*                                                                         *)
(* A path is [segs, ext], its segments from the source root on; paths are  *)
(* relative and hold no `..`. A file's text is what its header, opens and  *)
(* paragraphs say.                                                         *)
(***************************************************************************)
EXTENDS Integers, FiniteSets, FiniteSetsExt, TLC, SequencesExt

CONSTANTS Projects,     \* what is checked: [root, disk: path -> file]
          Embedded      \* the standard library: target -> file

\* What the parser hands over of a file.
IsList(s) == s \in Seq(Range(s))
IsText(text) ==
  /\ IsList(text.opens) /\ \A open \in Range(text.opens) : IsList(open.args)
  /\ IsList(text.params)
  /\ IsList(text.paras)

ASSUME ProjectsAssumption ==
  \A p \in Projects : p.root \in DOMAIN p.disk /\ \A file \in DOMAIN p.disk : IsText(p.disk[file])
ASSUME EmbeddedAssumption ==
  \A target \in DOMAIN Embedded : IsList(target) /\ IsText(Embedded[target])

VARIABLES project,
          phase,        \* "loading", "loaded", later phases, "refused"
          loaded,       \* the files parsed, in order
          modules,      \* the instances, in order: [file, name, params, opens]
          stack,        \* the modules being walked: [module, targets]
          refused       \* the error, once there is one

loadVars == <<project, phase, loaded, modules, stack, refused>>

None == <<>>
NoError == [kind |-> "None"]
Path(segs) == [segs |-> segs, ext |-> "als"]

----------------------------------------------------------------------------
(* Paths.                                                                  *)

Up(segs, n) == SubSeq(segs, 1, IF n > Len(segs) THEN 0 ELSE Len(segs) - n)

\* The segments that two names begin with alike.
Common(a, b) == Cardinality({n \in 1..Len(a) : n <= Len(b) /\ \A i \in 1..n : a[i] = b[i]})

\* The file a target names, seen from the directory that the opener's own
\* declared name puts at the root of its names.
compute_module_path(name, file, target) ==
  LET common == Common(name, target)
      remaining == Len(name) - common
      climb == (IF remaining = 0 THEN 0 ELSE remaining - 1) + 1
      rest == SubSeq(target, common + 1, Len(target))
  IN  Path(Up(file.segs, climb) \o (IF rest = <<>> THEN <<"">> ELSE rest))

markdown_sibling(p) == [p EXCEPT !.ext = "md"]
Shipped(target) == Path(<<"<stdlib>">> \o target)

----------------------------------------------------------------------------
(* What a file says, and what the loader adds to it.                       *)

Text(p) == CASE p \in DOMAIN project.disk -> project.disk[p]
             [] OTHER -> Embedded[Tail(p.segs)]

\* The n-th smallest of a set of positions.
NthOf(S, n) == CHOOSE i \in S : Cardinality({j \in S : j <= i}) = n

IsEnum(x) == x.k = "Enum"
Enums(text) == {i \in DOMAIN text.paras : IsEnum(text.paras[i])}
IntegerName == <<"util", "integer">>
Opens(target, args, alias) == [target |-> target, args |-> args, alias |-> alias, private |-> FALSE]

\* Opened without being written: the integers everywhere, an ordering for
\* each enum, the sequences where they are used.
synthetic_opens(text) ==
  (IF text.name = IntegerName THEN <<>> ELSE <<Opens(IntegerName, <<>>, "integer")>>)
  \o [n \in 1..Cardinality(Enums(text)) |->
        Opens(<<"util", "ordering">>, << <<text.paras[NthOf(Enums(text), n)].name>> >>, "")]
  \o (IF text.seqs THEN <<Opens(<<"util", "sequniv">>, <<>>, "seq")>> ELSE <<>>)
all_opens(text) == text.opens \o synthetic_opens(text)
integer_idx(text) == IF text.name = IntegerName THEN 0 ELSE Len(text.opens) + 1

module_name_of(text, opened_as) == IF text.name = <<>> THEN opened_as ELSE text.name

----------------------------------------------------------------------------
(* One open.                                                               *)

\* Where a target is found, of all the files so far: the file, or none. A
\* file that is there already is not read again, and one that is there under
\* the target's bare name comes before one on the disk.
search(files, name, file, target) ==
  LET cp == compute_module_path(name, file, target)
      tries == << <<cp, cp \in files>>,
                  <<Path(target), Path(target) \in files>>,
                  <<cp, cp \in DOMAIN project.disk>>,
                  <<markdown_sibling(cp), markdown_sibling(cp) \in DOMAIN project.disk>>,
                  <<Shipped(target), target \in DOMAIN Embedded>> >>
      hits == {i \in DOMAIN tries : tries[i][2]}
  IN  IF hits = {} THEN None ELSE <<tries[Min(hits)][1]>>

\* An argument that names a parameter of the opener stands for what that was
\* bound to, as it was written there.
substitute_arg(arg, params) ==
  LET bound == {i \in DOMAIN params : <<params[i].param>> = arg}
  IN  IF bound = {} THEN arg ELSE params[Min(bound)].arg
substituted(open, params) == [i \in DOMAIN open.args |-> substitute_arg(open.args[i], params)]

bind_params(text, args) ==
  [i \in DOMAIN args |->
     [param |-> text.params[i].name, exact |-> text.params[i].exact, arg |-> args[i]]]

args_of(m) == [i \in DOMAIN m.params |-> m.params[i].arg]
\* An instance is found again by its file alone.
InstancesOfFile(file, args) == {i \in DOMAIN modules : modules[i].file = file}

Instances(file, args) ==
  {i \in DOMAIN modules : modules[i].file = file /\ args_of(modules[i]) = args}

----------------------------------------------------------------------------
(* The names a module gives to what it opens.                              *)

\* The name that is there from the start: the one written, or that of a file
\* beside it that takes no arguments.
fixed_alias(open) ==
  IF open.alias # "" THEN <<open.alias>>
  ELSE IF open.args = <<>> /\ Len(open.target) = 1 THEN open.target ELSE None

Placeholder(k) == "open$" \o ToString(k)

\* The others take their file's own name if it is free, else a placeholder
\* numbered as if the integers had been opened first.
compute_aliases(opens, integer) ==
  LET fixed == [i \in DOMAIN opens |-> fixed_alias(opens[i])]
      base == [i \in DOMAIN opens |-> Last(opens[i].target)]
      Used(i) == {fixed[j][1] : j \in {k \in DOMAIN opens : fixed[k] # None}}
                   \cup {base[j] : j \in {k \in 1..(i - 1) : fixed[k] = None}}
  IN  [i \in DOMAIN opens |->
         IF fixed[i] # None THEN fixed[i][1]
         ELSE IF base[i] \notin Used(i) THEN base[i]
         ELSE Placeholder(Cardinality((1..i) \ {integer}) + 1)]

\* Two opens of one name: an error if they lead to different modules, and
\* one edge if to the same.
Clashing(aliases, targets) ==
  \E i, j \in DOMAIN aliases : aliases[i] = aliases[j] /\ targets[i] # targets[j]
build_edges(opens, targets, aliases, params) ==
  LET first == {i \in DOMAIN opens : \A j \in 1..(i - 1) : aliases[j] # aliases[i]}
      Edge(i) == [alias |-> aliases[i], target |-> targets[i], args |-> substituted(opens[i], params),
                  written |-> opens[i].args, private |-> opens[i].private]
  IN  [n \in 1..Cardinality(first) |-> Edge(NthOf(first, n))]

----------------------------------------------------------------------------
(* The load.                                                               *)

Top == Last(stack)
Here == modules[Top.module]
HereText == Text(Here.file)
Unwalked == Len(Top.targets) < Len(all_opens(HereText))
NextOpen == all_opens(HereText)[Len(Top.targets) + 1]
Chain == {modules[stack[i].module].file : i \in DOMAIN stack}

Instance(file, name, params) == [file |-> file, name |-> name, params |-> params, opens |-> <<>>]
Frame(m) == [module |-> m, targets |-> <<>>]

LoadInit ==
  /\ project \in Projects
  /\ phase = "loading"
  /\ loaded = <<project.root>>
  /\ modules = <<Instance(project.root, module_name_of(Text(project.root), <<>>), <<>>)>>
  /\ stack = <<Frame(1)>>
  /\ refused = NoError

Refuse(kind) ==
  /\ refused' = [kind |-> kind, file |-> Here.file]
  /\ phase' = "refused"
  /\ UNCHANGED <<project, loaded, modules, stack>>

FoundAmong(files, m, open) == search(files, modules[m].name, modules[m].file, open.target)
Found == FoundAmong(Range(loaded), Top.module, NextOpen)
Args == substituted(NextOpen, Here.params)
Denied == \E i \in DOMAIN NextOpen.args : NextOpen.args[i] = <<"none">>
Unreadable == Found[1] \notin Range(loaded) /\ Text(Found[1]).broken
\* A cycle is looked for no further than in the file itself.
CircularAtOnce == Found[1] = Here.file

Circular == Found[1] \in Chain

\* The next open of the module on top is refused.
OpenRefused ==
  /\ phase = "loading" /\ stack # <<>> /\ Unwalked
  /\ \/ Denied /\ Refuse("NoneAsOpenArg")
     \/ ~Denied /\ Found = None /\ Refuse("ModuleFileNotFound")
     \/ ~Denied /\ Found # None /\ Unreadable /\ Refuse("OpenedFileParse")
     \/ ~Denied /\ Found # None /\ ~Unreadable /\ Circular /\ Refuse("CircularImport")
     \/ /\ ~Denied /\ Found # None /\ ~Unreadable /\ ~Circular
        /\ Instances(Found[1], Args) = {}
        /\ Len(Text(Found[1]).params) # Len(Args)
        /\ Refuse("OpenArgCount")

Openable == /\ phase = "loading" /\ stack # <<>> /\ Unwalked
            /\ ~Denied /\ Found # None /\ ~Unreadable /\ ~Circular

Walked(m) == [stack EXCEPT ![Len(stack)].targets = Append(@, m)]

\* It leads to a module that is there already.
OpenAgain ==
  /\ Openable
  /\ \E m \in Instances(Found[1], Args) : stack' = Walked(m)
  /\ UNCHANGED <<project, phase, loaded, modules, refused>>

\* It leads to a new one, whose own opens are walked before anything else.
OpenFresh ==
  /\ Openable /\ Instances(Found[1], Args) = {}
  /\ LET text == Text(Found[1])
         id == Len(modules) + 1
     IN  /\ Len(text.params) = Len(Args)
         /\ loaded' = IF Found[1] \in Range(loaded) THEN loaded ELSE Append(loaded, Found[1])
         /\ modules' = Append(modules, Instance(Found[1], module_name_of(text, NextOpen.target),
                                                bind_params(text, Args)))
         /\ stack' = Append(Walked(id), Frame(id))
  /\ UNCHANGED <<project, phase, refused>>

\* All opens of the module on top are walked: they are named and its edges
\* are laid.
CloseModule ==
  /\ phase = "loading" /\ stack # <<>> /\ ~Unwalked
  /\ LET opens == all_opens(HereText)
         aliases == compute_aliases(opens, integer_idx(HereText))
     IN  IF Clashing(aliases, Top.targets) THEN Refuse("DuplicateAlias")
         ELSE /\ modules' = [modules EXCEPT ![Top.module].opens =
                               build_edges(opens, Top.targets, aliases, Here.params)]
              /\ stack' = Front(stack)
              /\ phase' = IF Len(stack) = 1 THEN "loaded" ELSE phase
              /\ UNCHANGED <<project, loaded, refused>>

Load == OpenRefused \/ OpenAgain \/ OpenFresh \/ CloseModule

\* What is made of the graph afterwards leaves it as it is.
Built == phase \notin {"loading", "refused"}
Afterwards == Built /\ phase' # "loading" /\ UNCHANGED <<project, loaded, modules, stack>>

LoadSpec == LoadInit /\ [][Load \/ Afterwards]_loadVars

----------------------------------------------------------------------------
(* What the load promises (load.rs: process_opens, instantiate).           *)

OpensOf(m) == {e.target : e \in Range(modules[m].opens)}

\* However the files open each other, no modules open each other in a circle.
NoCircle ==
  \A ms \in SUBSET DOMAIN modules : ms # {} => \E m \in ms : OpensOf(m) \cap ms = {}

\* A file is instantiated once for the same arguments.
NoTwins ==
  \A m, n \in DOMAIN modules :
    modules[m].file = modules[n].file /\ args_of(modules[m]) = args_of(modules[n]) => m = n

\* Every module is reached from the root.
FromTheRoot ==
  \A ms \in SUBSET DOMAIN modules :
    1 \in ms /\ (\A m \in ms : OpensOf(m) \subseteq ms) => ms = DOMAIN modules

\* Open o of module m leads to module t: of the file that was found for it
\* among those loaded by then, with the arguments that o gives, one for each
\* parameter.
Leads(m, o, t) ==
  /\ \E n \in 1..Len(loaded) :
       FoundAmong({loaded[i] : i \in 1..n}, m, o) = <<modules[t].file>>
  /\ args_of(modules[t]) = substituted(o, modules[m].params)
  /\ Len(o.args) = Len(Text(modules[t].file).params)

\* Whatever is opened has its edge, and the edges are those.
EdgesAsWritten ==
  \A m \in DOMAIN modules :
    LET opens == Range(all_opens(Text(modules[m].file)))
    IN  /\ \A o \in opens : \E e \in Range(modules[m].opens) : Leads(m, o, e.target)
        /\ \A e \in Range(modules[m].opens) :
             /\ args_of(modules[e.target]) = e.args
             /\ \E o \in opens : o.args = e.written /\ Leads(m, o, e.target)
        /\ \A e, f \in Range(modules[m].opens) : e.alias = f.alias => e = f

\* The graph is what the files say, without a circle, a twin or a module that
\* nothing opens.
GraphIsAsWritten == Built => NoCircle /\ NoTwins /\ FromTheRoot /\ EdgesAsWritten
=============================================================================
