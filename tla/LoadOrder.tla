------------------------------ MODULE LoadOrder ------------------------------
(***************************************************************************)
(* chim/loadorder.py: sort_load_order reads the content= lines of an       *)
(* openmw.cfg, asks mlox for an order, makes it one in which every plugin  *)
(* comes after its masters and writes it back, to the openmw.cfg and to    *)
(* the configurations in `also`.                                           *)
(*                                                                         *)
(* topo_sort is a machine of its own here, one step for each plugin that   *)
(* leaves the heap.  mlox may run for ten minutes; other processes         *)
(* register and remove plugins meanwhile (ModInstall).                     *)
(***************************************************************************)
EXTENDS Naturals, SequencesExt

CONSTANTS
  Plugins,
  Main,    \* the openmw.cfg that is sorted
  Also,    \* the other configurations, as a sequence
  Torn,    \* a configuration between truncation and last line
  Given,   \* the configurations before the first call
  Headers, \* what the plugin files may declare as their masters
  MaxCalls, \* bound on the calls of sort_load_order
  Faults   \* what may go wrong, see FaultKinds

FaultKinds ==
  { "dies",        \* the process dies
    "registers" }  \* a plugin is registered while the order is computed

ASSUME FaultsAssumption == Faults \subseteq FaultKinds
ASSUME TornAssumption == Torn \notin Seq(Plugins)
ASSUME PathsAssumption == Also \in Seq(STRING)

Paths == <<Main>> \o Also

Files == ToSet(Paths)

\* A plugin is listed once.
Lists == {s \in Seq(Plugins) : IsInjective(s)}

ASSUME GivenAssumption == Given \subseteq [Files -> Lists]
ASSUME MaxCallsAssumption == MaxCalls \in Nat
ASSUME HeadersAssumption == Headers \subseteq [Plugins -> SUBSET Plugins]

VARIABLES
  cfg,        \* the content= lines of each configuration
  bak,        \* its newest backup
  pc,         \* where the call is
  content,    \* the list as the call read it
  masters,    \* the masters that each plugin of it declares
  pref,       \* the order asked for, by mlox or by the caller
  indeg,      \* how many of its masters have not left the heap
  heap,       \* the plugins that may be next
  out,        \* the new order
  path,       \* the configuration being written, of Paths
  lines,      \* its list as the call read it
  registered, \* history: the plugins that Main ought to list
  calls       \* history: how often sort_load_order was called

sort == <<pref, indeg, heap, out>>

call == <<pc, content, masters, sort, path, lines>>

vars == <<cfg, bak, call, registered, calls>>

-----------------------------------------------------------------------------
(* Orders.                                                                 *)

\* Mutant: a plugin that names itself waits for itself.
NeedsSelf(p) == masters[p] \cap ToSet(content)

\* The masters of p that are listed, too.
Needs(p) == (masters[p] \cap ToSet(content)) \ {p}

\* The place of p in s.
At(s, p) == CHOOSE i \in DOMAIN s : s[i] = p

\* The plugins of s that are in S, in the order of s: one list, as a set.
Kept(s, S) ==
  {t \in SetToSeqs(ToSet(s) \cap S) :
     \A i, j \in DOMAIN t : i < j => At(s, t[i]) < At(s, t[j])}

\* The pairs of a plugin and a master that comes after it.
Violations(s) ==
  {e \in ToSet(s) \X ToSet(s) :
     e[2] \in masters[e[1]] /\ At(s, e[2]) > At(s, e[1])}

-----------------------------------------------------------------------------

Init ==
  /\ cfg \in Given
  /\ bak = cfg
  /\ registered = ToSet(cfg[Main])
  /\ calls = 0
  /\ pc = "idle"
  /\ content = <<>>
  /\ masters = <<>>
  /\ pref = <<>>
  /\ indeg = <<>>
  /\ heap = {}
  /\ out = <<>>
  /\ path = 1
  /\ lines = <<>>

\* The call returns, or dies: its variables are gone.
Returns ==
  /\ pc' = "idle"
  /\ content' = <<>>
  /\ masters' = <<>>
  /\ pref' = <<>>
  /\ indeg' = <<>>
  /\ heap' = {}
  /\ out' = <<>>
  /\ path' = 1
  /\ lines' = <<>>

\* read_content, then plugin_masters of each.
ReadOrder ==
  /\ pc = "idle"
  /\ \A f \in Files : cfg[f] # Torn
  /\ content' = cfg[Main]
  /\ \E header \in Headers : masters' = Restrict(header, ToSet(content'))
  /\ pc' = "rank"
  /\ calls < MaxCalls
  /\ calls' = calls + 1
  /\ UNCHANGED <<cfg, bak, sort, path, lines, registered>>

\* topo_sort up to its loop.
Ranked(order) ==
  /\ pref' = order
  /\ indeg' = [p \in ToSet(content) |-> Cardinality(Needs(p))]
  /\ heap' = {p \in ToSet(content) : Needs(p) = {}}
  /\ pc' = "pop"
  /\ UNCHANGED <<cfg, bak, content, masters, out, path, lines, registered, calls>>

\* run_mlox: an order of some plugins of the list; the others come last.
RunMlox ==
  /\ pc = "rank"
  /\ \E order \in SetToAllKPermutations(ToSet(content)) :
       /\ order # <<>>
       /\ \E rest \in Kept(content, ToSet(content) \ ToSet(order)) :
            Ranked(order \o rest)

\* Without mlox, or when it fails: the caller's ranks, ties by name.
RankWithoutMlox ==
  /\ pc = "rank"
  /\ \E order \in SetToSeqs(ToSet(content)) : Ranked(order)

\* Mutant: whichever of the heap is next.
PopAny ==
  /\ pc = "pop"
  /\ \E p \in heap :
       LET heirs == {q \in ToSet(content) : p \in Needs(q)}
       IN  /\ out' = Append(out, p)
           /\ indeg' = [q \in DOMAIN indeg |->
                          IF q \in heirs THEN indeg[q] - 1 ELSE indeg[q]]
           /\ heap' = (heap \ {p}) \cup {q \in heirs : indeg[q] = 1}
  /\ UNCHANGED <<cfg, bak, pc, content, masters, pref, path, lines, registered, calls>>

\* Mutant: a plugin joins the heap after the first of its masters.
PopEager ==
  /\ pc = "pop"
  /\ \E p \in heap :
       LET heirs == {q \in ToSet(content) : p \in Needs(q)}
       IN  /\ \A q \in heap : At(pref, p) <= At(pref, q)
           /\ out' = Append(out, p)
           /\ indeg' = [q \in DOMAIN indeg |->
                          IF q \in heirs THEN indeg[q] - 1 ELSE indeg[q]]
           /\ heap' = (heap \ {p}) \cup (heirs \ ToSet(out))
  /\ UNCHANGED <<cfg, bak, pc, content, masters, pref, path, lines, registered, calls>>

\* The best of the heap is next; those that waited for it only join the heap.
Pop ==
  /\ pc = "pop"
  /\ \E p \in heap :
       LET heirs == {q \in ToSet(content) : p \in Needs(q)}
       IN  /\ \A q \in heap : At(pref, p) <= At(pref, q)
           /\ out' = Append(out, p)
           /\ indeg' = [q \in DOMAIN indeg |->
                          IF q \in heirs THEN indeg[q] - 1 ELSE indeg[q]]
           /\ heap' = (heap \ {p}) \cup {q \in heirs : indeg[q] = 1}
  /\ UNCHANGED <<cfg, bak, pc, content, masters, pref, path, lines, registered, calls>>

\* Those in a cycle of masters, or above one, come last.
PopEnds ==
  /\ pc = "pop"
  /\ heap = {}
  /\ \E rest \in Kept(content, ToSet(content) \ ToSet(out)) : out' = out \o rest
  /\ pc' = "sorted"
  /\ UNCHANGED <<cfg, bak, content, masters, pref, indeg, heap, path, lines, registered, calls>>

\* apply=False, or masters in a cycle: the order is returned, not written.
Preview ==
  /\ pc = "sorted"
  /\ Returns
  /\ UNCHANGED <<cfg, bak, registered, calls>>

\* Mutant: written, cycle or not.
ApplyAnyway ==
  /\ pc = "sorted"
  /\ pc' = "read"
  /\ content' = <<>>
  /\ pref' = <<>>
  /\ indeg' = <<>>
  /\ UNCHANGED <<cfg, bak, masters, heap, out, path, lines, registered, calls>>

Apply ==
  /\ pc = "sorted"
  /\ Violations(out) = {}
  /\ pc' = "read"
  /\ content' = <<>>  \* no longer used, as are the next two
  /\ pref' = <<>>
  /\ indeg' = <<>>
  /\ UNCHANGED <<cfg, bak, masters, heap, out, path, lines, registered, calls>>

-----------------------------------------------------------------------------
(* write_content.                                                          *)

ReadLines ==
  /\ pc = "read"
  /\ lines' = cfg[Paths[path]]
  /\ pc' = "save"
  /\ UNCHANGED <<cfg, bak, content, masters, sort, path, registered, calls>>

Save ==
  /\ pc = "save"
  /\ bak' = [bak EXCEPT ![Paths[path]] = cfg[Paths[path]]]
  /\ pc' = "truncate"
  /\ UNCHANGED <<cfg, content, masters, sort, path, lines, registered, calls>>

Truncate ==
  /\ pc = "truncate"
  /\ cfg' = [cfg EXCEPT ![Paths[path]] = Torn]
  /\ pc' = "write"
  /\ UNCHANGED <<bak, content, masters, sort, path, lines, registered, calls>>

\* Mutant: all of the new order.
WrittenAll == {out}

\* Of the new order, what the configuration listed.
Written == Kept(out, ToSet(lines))

\* Mutant: one configuration too many.
WriteOnePast ==
  /\ pc = "write"
  /\ \E order \in Written : cfg' = [cfg EXCEPT ![Paths[path]] = order]
  /\ IF path <= Len(Paths)
     THEN /\ path' = path + 1
          /\ pc' = "read"
          /\ UNCHANGED <<content, masters, sort, lines>>
     ELSE Returns
  /\ UNCHANGED <<bak, registered, calls>>

Write ==
  /\ pc = "write"
  /\ \E order \in Written : cfg' = [cfg EXCEPT ![Paths[path]] = order]
  /\ IF path < Len(Paths)
     THEN /\ path' = path + 1
          /\ pc' = "read"
          /\ UNCHANGED <<content, masters, sort, lines>>
     ELSE Returns
  /\ UNCHANGED <<bak, registered, calls>>

-----------------------------------------------------------------------------
(* Others.                                                                 *)

\* When others change the configuration: not in the moments of write_content,
\* and not in those of topo_sort, which has no part in it, so that a change
\* then is one just before.
OthersMay == pc \in {"idle", "rank", "read"}

\* mod_install appends.
OtherRegisters ==
  /\ OthersMay
  /\ pc = "idle" \/ "registers" \in Faults
  /\ \E p \in Plugins :
       /\ cfg[Main] # Torn
       /\ p \notin ToSet(cfg[Main])
       /\ cfg' = [cfg EXCEPT ![Main] = Append(@, p)]
       /\ registered' = registered \cup {p}
  /\ UNCHANGED <<bak, call, calls>>

\* mod_uninstall takes a line away.
OtherUnregisters ==
  /\ OthersMay
  /\ cfg[Main] # Torn
  /\ \E p \in ToSet(cfg[Main]) :
       /\ \E rest \in Kept(cfg[Main], Plugins \ {p}) : cfg' = [cfg EXCEPT ![Main] = rest]
       /\ registered' = registered \ {p}
  /\ UNCHANGED <<bak, call, calls>>

Dies ==
  /\ "dies" \in Faults
  /\ pc # "idle"
  /\ Returns
  /\ UNCHANGED <<cfg, bak, registered, calls>>

\* The user puts back the backup of a configuration that is cut short.
UserRestores ==
  /\ pc = "idle"
  /\ \E f \in Files :
       /\ cfg[f] = Torn
       /\ cfg' = [cfg EXCEPT ![f] = bak[f]]
  /\ UNCHANGED <<bak, call, registered, calls>>

-----------------------------------------------------------------------------

Next ==
  \/ ReadOrder
  \/ RunMlox
  \/ RankWithoutMlox
  \/ Pop
  \/ PopEnds
  \/ Preview
  \/ Apply
  \/ ReadLines
  \/ Save
  \/ Truncate
  \/ Write
  \/ OtherRegisters
  \/ OtherUnregisters
  \/ Dies
  \/ UserRestores

Spec == Init /\ [][Next]_vars

-----------------------------------------------------------------------------

\* Types.
TypeOK ==
  /\ cfg \in [Files -> Seq(Plugins) \cup {Torn}]
  /\ bak \in [Files -> Seq(Plugins)]
  /\ pc \in {"idle", "rank", "pop", "sorted", "read", "save", "truncate", "write"}
  /\ content \in Seq(Plugins)
  /\ pc \in {"rank", "pop", "sorted"} => masters \in [ToSet(content) -> SUBSET Plugins]
  /\ pref \in Seq(Plugins)
  /\ heap \in SUBSET ToSet(content)
  /\ out \in Seq(Plugins)
  /\ path \in DOMAIN Paths
  /\ lines \in Seq(Plugins)
  /\ registered \in SUBSET Plugins
  /\ calls \in 0..MaxCalls

\* Every plugin that has left the heap comes after all of its masters that are
\* listed, whatever order was asked for and whatever cycles there are
\* (topo_sort: "every plugin follows its masters").
MastersFirst ==
  pc = "pop" =>
    \A i \in DOMAIN out : \A m \in Needs(out[i]) : \E j \in 1..(i - 1) : out[j] = m

\* A set of plugins in which everyone waits for another.
Deadlocked(S) == S # {} /\ \A p \in S : Needs(p) \cap S # {}

\* The new order lists every plugin of the old one, once; and the sort fails
\* to put masters first exactly when there is a cycle of masters, so that
\* sort_load_order refuses to write for that reason only.
OnlyCyclesRefused ==
  pc = "sorted" =>
    /\ IsInjective(out)
    /\ ToSet(out) = ToSet(content)
    /\ Violations(out) # {} <=> \E S \in SUBSET ToSet(content) : Deadlocked(S)

\* An order that mlox or the caller asks for and that puts masters first is
\* followed to the letter: the sort is stable against it (loadorder.py:
\* "we follow mlox's rules everywhere the master graph allows").
PreferenceKept ==
  pc = "sorted" /\ Violations(pref) = {} => out = pref

\* Whatever a configuration listed beside, what is written puts masters first,
\* in the `also` files as well, whose lists differ.
WrittenOrderLoads ==
  [][pc = "write" /\ cfg' # cfg =>
       \A f \in Files : cfg'[f] # cfg[f] => Violations(cfg'[f]) = {}]_vars

\* No plugin is lost or brought back: the openmw.cfg lists what is registered,
\* and while it is cut short its backup does, however long mlox runs, whatever
\* is uninstalled meanwhile and wherever the process dies.  (A plugin that is
\* registered meanwhile is lost: Faults without "registers".)
RegisteredKept ==
  ToSet(IF cfg[Main] = Torn THEN bak[Main] ELSE cfg[Main]) = registered
=============================================================================
