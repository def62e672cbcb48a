---------------------------- MODULE MCFileEngines ----------------------------
(* Small instances of the engines for single files.                         *)
EXTENDS FileEngines, TLC

CONSTANTS
  slot, bak, cln, stemA, stemB, lower, upper, e1, e2, ref, live, stub, gone, game,
  x1, x2,
  fern, fernUp, moon,
  van, dirA, dirB, master, plug, plugUp, asset, script, doc, c1, c2,
  p1, p2, s1, s2, skse, vanilla, a1, a2

(* Saves: slot is cleaned to cln beside it; bak has the name of slot with    *)
(* another extension, and so its co-save.                                    *)
MCStem == (slot :> stemA) @@ (bak :> stemA) @@ (cln :> stemB)
MCBeside == slot :> cln
MCSectionLen == [s \in Sections |-> IF s = "prefix" THEN 7 ELSE
                                    IF s \in {"plugins", "changes"} THEN 5 ELSE 3]
MCScripts == {[name |-> live, stub |-> FALSE], [name |-> stub, stub |-> TRUE],
              [name |-> game, stub |-> TRUE]}
Instance(e, n, a) == [eid |-> e, name |-> n, attached |-> a]
HeapOf(insts, rest) == [scripts |-> MCScripts, insts |-> insts, rest |-> rest]
MCHeaps ==
  { HeapOf({Instance(e1, live, TRUE), Instance(e2, stub, TRUE)}, <<e1, e2, ref>>),
    HeapOf({Instance(e1, game, FALSE), Instance(e2, gone, TRUE)}, <<e2, e1, ref, ref>>),
    HeapOf({Instance(e1, gone, FALSE), Instance(e2, live, TRUE)}, <<e1, ref>>) }

(* Legacy records: one with a field longer than a size can state, and the    *)
(* donor of a model with one, too.                                           *)
Field(id, sig, len) == [id |-> id, sig |-> sig, len |-> len, body |-> 0]
MCRecords == {<<Field(1, "EDID", 1), Field(2, "MODL", 1)>>,
              <<Field(3, "DATA", 2), Field(4, "MODL", 3)>>}
MCDonor == <<Field(11, "EDID", 1), Field(12, "OBND", 1), Field(13, "MODL", 3)>>

(* Morrowind plugins: an empty one; one of OpenMW with two records of one    *)
(* id; one whose first master has no size.                                   *)
MCT3Fold == [n \in T3Names |-> IF n = fernUp THEN fern ELSE n]
MCIdSubrec == [RACE |-> "NAME", INFO |-> "INAM"]
Sub(sig, name) == [sig |-> sig, len |-> 1, body |-> name]
HeaderSub(sig, body) == [sig |-> sig, body |-> body]
Race(name) == [type |-> "RACE", deleted |-> FALSE, subs |-> <<Sub("NAME", name)>>]
MCT3Starts ==
  { [header |-> <<HeaderSub("HEDR", 0)>>, stored |-> 0, records |-> <<>>],
    [header |-> <<HeaderSub("FORM", 0), HeaderSub("HEDR", 0), HeaderSub("MAST", fern), HeaderSub("DATA", 1)>>,
     stored |-> 3, records |-> <<Race(fern), Race(fernUp)>>],
    [header |-> <<HeaderSub("HEDR", 0), HeaderSub("MAST", moon), HeaderSub("MAST", fern), HeaderSub("DATA", 1),
                  HeaderSub("FORM", 0)>>,
     stored |-> 1,
     records |-> << [type |-> "INFO", deleted |-> FALSE,
                     subs |-> <<Sub("NAME", fern), Sub("INAM", moon)>>] >>] }

(* Data directories: one with the vanilla master, two of the bundle that     *)
(* both have the plugin; and one with the plugin in two spellings.           *)
MCMlFold == [p \in MlPaths |-> IF p = plugUp THEN plug ELSE p]
MCWalk == (plugUp :> 1) @@ (plug :> 2) @@ (master :> 3) @@ (asset :> 4) @@ (script :> 5) @@ (doc :> 6)
Dir(f) == [p \in MlPaths |-> IF p \in DOMAIN f THEN f[p] ELSE NoFile]
MCDisks ==
  { (van :> Dir(master :> c1)) @@ (dirA :> Dir((plug :> c1) @@ (asset :> c1)))
      @@ (dirB :> Dir((plug :> c2) @@ (script :> c1))),
    (van :> Dir(master :> c1)) @@ (dirA :> Dir((plug :> c1) @@ (plugUp :> c2)))
      @@ (dirB :> Dir(asset :> c2)) }
Setup(content, dataDirs, bundles) ==
  [content |-> content, dataDirs |-> dataDirs, bundles |-> bundles]
MCSetups ==
  { Setup(<<master, plug>>, <<van, dirA, dirB>>, <<dirA, dirB>>),
    Setup(<<master, plug>>, <<van, dirA, dirB>>, <<dirB, dirA>>),
    Setup(<<master, plug, script>>, <<van, dirA, dirB>>, <<dirA, dirB>>),
    Setup(<<plug>>, <<dirA, van>>, <<dirA>>) }
MCKnown == master :> {c1, c2}

(* Compilations: of two processes for one host, and one with its own.        *)
MCGiven == {<<>>, <<vanilla>>}
MCPcStarts == {(p1 :> "remote") @@ (p2 :> m) : m \in {"remote", "local"}}

(* Assets: the files of one plugin over two directories, with a texture and  *)
(* an icon of one name, under two extensions, and a sound at two places.     *)
Ref(kind, stem) == [kind |-> kind, stem |-> stem]
MCAsPaths ==
  {Place("", "mod", "esp"), Place("00 Core", "mod", "esp"), Place("meshes", "m", "nif"),
   Place("sound", "x", "wav"), Place("", "x", "wav")}
  \cup {Place(s, "x", e) : s \in {"textures", "icons"}, e \in {"dds", "tga"}}
PluginRefs == {Ref("mesh", "m"), Ref("icon", "x"), Ref("sound", "x")}
MeshRefs == {Ref("texture", "x")}
MCAsContents == {{}, MeshRefs, PluginRefs}
Holding(f) == [p \in MCAsPaths |-> IF p \in DOMAIN f THEN f[p] ELSE NoAsset]
MCAsDisks ==
  { (a1 :> Holding(Place("00 Core", "mod", "esp") :> PluginRefs
                   @@ Place("icons", "x", "tga") :> {} @@ Place("", "x", "wav") :> {}))
      @@ (a2 :> Holding(Place("meshes", "m", "nif") :> MeshRefs
                        @@ Place("textures", "x", "dds") :> {})),
    (a1 :> Holding(Place("textures", "x", "tga") :> {} @@ Place("", "x", "wav") :> {}))
      @@ (a2 :> Holding(Place("", "mod", "esp") :> PluginRefs
                        @@ Place("meshes", "m", "nif") :> MeshRefs
                        @@ Place("icons", "x", "dds") :> {}
                        @@ Place("textures", "x", "dds") :> {}
                        @@ Place("sound", "x", "wav") :> {})) }
MCAsSetups == {[content |-> {"mod"}, dirs |-> d] : d \in {<<a1, a2>>, <<a2, a1>>}}
MCPluginSubs == <<"", "00 Core">>
MCTexExts == <<"dds", "tga">>

Symmetry == Permutations(Spellings) \cup Permutations(Bodies)
=============================================================================
