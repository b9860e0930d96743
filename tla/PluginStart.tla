----------------------------- MODULE PluginStart -----------------------------
(***************************************************************************)
(* Plugins from their files to their shutdown, src/internal/core/server.go *)
(* 94-201 and 298-327: each file that loads is registered unless its ID is *)
(* taken, the plugins that are not disabled are sorted so that each comes  *)
(* after those it requires, initialised in that order and, when the window *)
(* closes, shut down in the reverse order of their registration.           *)
(*                                                                         *)
(* A plugin is a record of its ID and of the list of the IDs it requires,  *)
(* which may repeat an ID.  topoSort's queue is a set: which of two ready  *)
(* plugins comes first is left out.                                        *)
(***************************************************************************)
EXTENDS Naturals, Sequences, FiniteSets, Functions

CONSTANTS
  IDs,          \* plugin IDs
  Dirs          \* plugin directories: what its files contain, in order

PluginType == [id : IDs, requires : Seq(IDs)]

ASSUME PluginStartAssumption == Dirs \subseteq Seq(PluginType)

VARIABLES
  phase,        \* how far startup and shutdown have come
  files,        \* files not yet read
  disabled,     \* s.disabled
  plugins,      \* s.plugins
  inDegree,     \* of an active plugin: its requirements not yet sorted
  queue,        \* plugins without one, not yet sorted
  sorted,       \* the order of initialisation
  inited,       \* how many of sorted are initialised
  open          \* plugins not yet shut down

vars == <<phase, files, disabled, plugins, inDegree, queue, sorted, inited, open>>

Init ==
  /\ phase = "load" /\ files \in Dirs /\ disabled \in SUBSET IDs
  /\ plugins = <<>> /\ inDegree = <<>> /\ queue = {} /\ sorted = <<>>
  /\ inited = 0 /\ open = <<>>

\* activePlugins, and their IDs
Active == {p \in Range(plugins) : p.id \notin disabled}
ActiveIDs == {p.id : p \in Active}

Requirements(p) == Range(p.requires)

-----------------------------------------------------------------------------
(* LoadWASMPlugins                                                         *)

\* A file that does not load, or whose ID is taken, is skipped.
LoadFile ==
  /\ phase = "load" /\ files # <<>>
  /\ files' = Tail(files)
  /\ \/ plugins' = plugins
     \/ /\ Head(files).id \notin {p.id : p \in Range(plugins)}
        /\ plugins' = Append(plugins, Head(files))
  /\ UNCHANGED <<phase, disabled, inDegree, queue, sorted, inited, open>>

-----------------------------------------------------------------------------
(* InitPlugins                                                             *)

Missing == \E p \in Active : ~(Requirements(p) \subseteq ActiveIDs)

\* validateActivePluginDependencies, and topoSort's own test
RefuseMissing ==
  /\ phase = "load" /\ files = <<>> /\ Missing
  /\ phase' = "refused"
  /\ UNCHANGED <<files, disabled, plugins, inDegree, queue, sorted, inited, open>>

SortFrom(degree) ==
  /\ phase = "load" /\ files = <<>> /\ ~Missing
  /\ inDegree' = degree
  /\ queue' = {p \in Active : degree[p] = 0}
  /\ phase' = "sort"
  /\ UNCHANGED <<files, disabled, plugins, sorted, inited, open>>

BeginSort == SortFrom([p \in Active |-> Len(p.requires)])

\* The places of p's list that name q
Naming(p, q) == {i \in DOMAIN p.requires : p.requires[i] = q.id}

\* A plausible slip: a dependant is queued when one requirement is left.
ReadyButOne(q) ==
  {p \in Active : Naming(p, q) # {} /\ inDegree[p] = Cardinality(Naming(p, q)) + 1}

\* The dependants of q that wait for nothing else.
Ready(q) == {p \in Active : Naming(p, q) # {} /\ inDegree[p] = Cardinality(Naming(p, q))}

CountDown(q) == [p \in Active |-> inDegree[p] - Cardinality(Naming(p, q))]

Take(q) ==
  /\ phase = "sort" /\ q \in queue
  /\ sorted' = Append(sorted, q)
  /\ inDegree' = CountDown(q)
  /\ queue' = (queue \ {q}) \cup Ready(q)
  /\ UNCHANGED <<phase, files, disabled, plugins, inited, open>>

\* A plausible slip: nobody counts the plugins that were sorted.
EndSortUncounted ==
  /\ phase = "sort" /\ queue = {}
  /\ phase' = "init"
  /\ UNCHANGED <<files, disabled, plugins, inDegree, queue, sorted, inited, open>>

EndSort ==
  /\ phase = "sort" /\ queue = {}
  /\ phase' = IF Len(sorted) = Cardinality(Active) THEN "init" ELSE "refused"
  /\ UNCHANGED <<files, disabled, plugins, inDegree, queue, sorted, inited, open>>

\* An error of the plugin ends the process.
InitPlugin ==
  /\ phase = "init" /\ inited < Len(sorted)
  /\ \/ inited' = inited + 1 /\ phase' = phase
     \/ inited' = inited /\ phase' = "failed"
  /\ UNCHANGED <<files, disabled, plugins, inDegree, queue, sorted, open>>

Run ==
  /\ phase = "init" /\ inited = Len(sorted)
  /\ phase' = "run" /\ open' = plugins
  /\ UNCHANGED <<files, disabled, plugins, inDegree, queue, sorted, inited>>

-----------------------------------------------------------------------------
(* ShutdownPlugins: disabled plugins too                                   *)

ShutdownPlugin ==
  /\ phase = "run" /\ open # <<>>
  /\ open' = SubSeq(open, 1, Len(open) - 1)
  /\ UNCHANGED <<phase, files, disabled, plugins, inDegree, queue, sorted, inited>>

Next ==
  \/ LoadFile \/ RefuseMissing \/ BeginSort
  \/ \E q \in queue : Take(q)
  \/ EndSort \/ InitPlugin \/ Run \/ ShutdownPlugin

Spec == Init /\ [][Next]_vars

-----------------------------------------------------------------------------
(* Properties                                                              *)

TypeOK ==
  /\ phase \in {"load", "sort", "init", "run", "refused", "failed"}
  /\ files \in Seq(PluginType) /\ disabled \subseteq IDs /\ plugins \in Seq(PluginType)
  /\ phase \in {"sort", "init", "run", "failed"} => inDegree \in [Active -> Nat]
  /\ queue \subseteq Active /\ sorted \in Seq(Active)
  /\ inited \in 0..Len(sorted) /\ open \in Seq(PluginType)

\* A plugin is initialised after every plugin it requires ("if plugin B declares
\* Requires: a, plugin A is always initialized first").
RequiredFirst ==
  \A i \in 1..inited : \A id \in Requirements(sorted[i]) :
    \E j \in 1..(i - 1) : sorted[j].id = id

\* Everything required is there and active, and no plugins require one another in a circle.
Circle(S) == S # {} /\ \A p \in S : \E q \in S : q.id \in Requirements(p)
Sound == ~Missing /\ \A S \in SUBSET Active : ~Circle(S)

\* Startup is refused when, and only when, the dependencies cannot be met: "a cycle or
\* unknown plugin ID is a startup error", and so is a required plugin that is disabled.
RefusesOnlyTheUnsound ==
  /\ phase = "refused" => ~Sound
  /\ phase \in {"init", "run", "failed"} => Sound /\ {sorted[i] : i \in DOMAIN sorted} = Active
=============================================================================
